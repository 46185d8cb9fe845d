SPECIFICATION PfSpec
CONSTANTS PfModules = {1,2,3,4}
PfLibc = {1,2,3}
PfStart = {1,4}
PfSlots = 3
MaxLoads = 5
PfThreads = {t1, t2}
INVARIANT LibrariesHooked
