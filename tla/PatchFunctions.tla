--------------------------- MODULE PatchFunctions ---------------------------
(****************************************************************************)
(* How tcmalloc replaces malloc in every library of a Windows process       *)
(* (src/windows/patch_functions.cc).  LoadLibraryExW and FreeLibrary are    *)
(* hooked; both end in PatchAllModules, which asks Windows for the loaded   *)
(* modules, drops the slots of those that went and patches those that came. *)
(* The malloc family of a module is one function: it is patched as one.     *)
(* The Windows calls and the original functions are external.               *)
(****************************************************************************)
EXTENDS Integers, Sequences, FiniteSets
CONSTANTS PfThreads, PfModules,
          PfLibc,            \* the modules with a libc of their own
          PfStart,           \* the modules a program starts with
          PfSlots,           \* size of g_module_libcs
          MaxLoads
VARIABLES loaded,            \* module -> reference count, as Windows keeps it
          jumps,             \* module -> slot its malloc was patched to jump to, or 0
          chained,           \* slot -> slot its own functions were patched to jump to, or 0
          libcs,             \* slot -> [valid, module, fn, orig]: windows_fn_, and the
                             \* function origstub_fn_ leads to
          lastLoaded,        \* g_last_loaded
          skipped,           \* modules found no slot for
          mainPatched,       \* main_executable.patched()
          enumFailed,        \* history: EnumProcessModules failed once
          loads,             \* calls so far
          pfPc               \* thread -> [at, mods]

pfVars == <<loaded, jumps, chained, libcs, lastLoaded, skipped, mainPatched, enumFailed, loads, pfPc>>

Slots  == 1..PfSlots
Idle   == [at |-> "idle", mods |-> {}]
Loaded == {m \in PfModules : loaded[m] > 0}

Goto(t, at, mods) == pfPc' = [pfPc EXCEPT ![t] = [at |-> at, mods |-> mods]]

PfInit == /\ loaded = [m \in PfModules |-> IF m \in PfStart THEN 1 ELSE 0]
          /\ jumps = [m \in PfModules |-> 0]
          /\ chained = [s \in Slots |-> 0]
          /\ libcs = [s \in Slots |-> [valid |-> FALSE, module |-> 0, fn |-> <<>>, orig |-> <<>>]]
          /\ lastLoaded = {}
          /\ skipped = {}
          /\ mainPatched = FALSE
          /\ enumFailed = FALSE
          /\ loads = 0
          /\ pfPc = [t \in PfThreads |-> Idle]

\* PatchWindowsFunctions(), called before the program has threads: a first
\* PatchAllModules(), after which the hooks below are in place.
PatchWindowsFunctions(t) ==
  /\ ~mainPatched
  /\ \A u \in PfThreads : pfPc[u] = Idle
  /\ Goto(t, "enum", {})
  /\ UNCHANGED <<loaded, jumps, chained, libcs, lastLoaded, skipped, mainPatched, enumFailed, loads>>

\* Perftools_LoadLibraryExW: a module that is loaded only gets a reference.
Perftools_LoadLibraryExW(t, m) ==
  /\ mainPatched /\ pfPc[t] = Idle
  /\ loads < MaxLoads
  /\ loads' = loads + 1
  /\ IF loaded[m] > 0 THEN loaded' = [loaded EXCEPT ![m] = @ + 1] /\ UNCHANGED pfPc
     ELSE Goto(t, "load", {m}) /\ UNCHANGED loaded
  /\ UNCHANGED <<jumps, chained, libcs, lastLoaded, skipped, mainPatched, enumFailed>>

\* Its call of the original; another thread may have loaded the module by now.
LoadLibrary(t) ==
  /\ pfPc[t].at = "load"
  /\ loaded' = [m \in PfModules |-> IF m \in pfPc[t].mods THEN loaded[m] + 1 ELSE loaded[m]]
  /\ jumps' = [m \in PfModules |-> IF m \in pfPc[t].mods /\ loaded[m] = 0 THEN 0 ELSE jumps[m]]
  /\ Goto(t, "enum", {})
  /\ UNCHANGED <<chained, libcs, lastLoaded, skipped, mainPatched, enumFailed, loads>>

\* Perftools_FreeLibrary: the original call, then the check that it unloaded.
Perftools_FreeLibrary(t, m) ==
  /\ mainPatched /\ pfPc[t] = Idle
  /\ loaded[m] > 0
  /\ loaded' = [loaded EXCEPT ![m] = @ - 1]
  /\ Goto(t, "freed", {m})
  /\ UNCHANGED <<jumps, chained, libcs, lastLoaded, skipped, mainPatched, enumFailed, loads>>

\* mutated: the modules are looked at again when nothing changed, not when one went
StillLoadedInverted(t) ==
  /\ pfPc[t].at = "freed"
  /\ Goto(t, IF pfPc[t].mods \subseteq Loaded THEN "enum" ELSE "idle", {})
  /\ UNCHANGED <<loaded, jumps, chained, libcs, lastLoaded, skipped, mainPatched, enumFailed, loads>>

StillLoaded(t) ==
  /\ pfPc[t].at = "freed"
  /\ Goto(t, IF pfPc[t].mods \subseteq Loaded THEN "idle" ELSE "enum", {})
  /\ UNCHANGED <<loaded, jumps, chained, libcs, lastLoaded, skipped, mainPatched, enumFailed, loads>>

\* PatchAllModules(): EnumProcessModules, without the lock; when it fails there
\* are no modules.
EnumModules(t) ==
  /\ pfPc[t].at = "enum"
  /\ \E fails \in {FALSE, ~enumFailed} :        \* bound: it fails once
       /\ Goto(t, "compare", IF fails THEN {} ELSE Loaded)
       /\ enumFailed' = (enumFailed \/ fails)
  /\ UNCHANGED <<loaded, jumps, chained, libcs, lastLoaded, skipped, mainPatched, loads>>

\* patch_all_modules_lock: a thread that patches holds it; the other locked
\* block is one step.
Unlocked == \A u \in PfThreads : pfPc[u].at # "patching"

\* Its first locked block: slots whose module is not in the list become
\* invalid, the list becomes g_last_loaded, the new modules remain.
CompareModules(t) ==
  /\ pfPc[t].at = "compare"
  /\ Unlocked
  /\ libcs' = [s \in Slots |-> [libcs[s] EXCEPT !.valid = @ /\ libcs[s].module \in pfPc[t].mods]]
  /\ lastLoaded' = pfPc[t].mods
  /\ Goto(t, "info", pfPc[t].mods \ lastLoaded)
  /\ UNCHANGED <<loaded, jumps, chained, skipped, mainPatched, enumFailed, loads>>

\* GetModuleInformation and GetProcAddress, again without the lock; they fail
\* for a module that is gone.
ModuleInformation(t) ==
  /\ pfPc[t].at = "info"
  /\ Goto(t, "lock", pfPc[t].mods \cap Loaded)
  /\ UNCHANGED <<loaded, jumps, chained, libcs, lastLoaded, skipped, mainPatched, enumFailed, loads>>

LockForPatching(t) ==
  /\ pfPc[t].at = "lock"
  /\ Unlocked
  /\ Goto(t, "patching", pfPc[t].mods)
  /\ UNCHANGED <<loaded, jumps, chained, libcs, lastLoaded, skipped, mainPatched, enumFailed, loads>>

\* ResolveTarget() of a module's malloc: where its chain of jumps ends.
ChainEnd == LET E[n \in 0..PfSlots] ==
                  [s \in Slots |-> IF n = 0 THEN s
                                   ELSE IF chained[E[n - 1][s]] = 0 THEN E[n - 1][s]
                                   ELSE chained[E[n - 1][s]]]
            IN E[PfSlots]

ResolveTarget(m) == IF jumps[m] = 0 THEN <<"module", m>> ELSE <<"slot", ChainEnd[jumps[m]]>>

\* PopulateWindowsFn(): the function to patch for module m, <<>> for none: it has
\* no libc, or a valid slot has patched that function.
PopulateWindowsFn(m) ==
  LET fn == ResolveTarget(m)
  IN IF m \notin PfLibc \/ \E s \in Slots : libcs[s].valid /\ libcs[s].fn = fn THEN <<>> ELSE fn

\* LibcInfoWithPatchFunctions::Patch() for slot s; a function that is already
\* the slot's own is left alone, and so is its stub.
Patch(s, m, fn) ==
  /\ libcs' = [libcs EXCEPT ![s] = [valid |-> TRUE, module |-> m, fn |-> fn,
                                    orig |-> IF fn = <<"slot", s>> THEN libcs[s].orig ELSE fn]]
  /\ jumps' = IF fn[1] = "module" THEN [jumps EXCEPT ![m] = s] ELSE jumps
  /\ chained' = IF fn[1] = "slot" /\ fn[2] # s THEN [chained EXCEPT ![fn[2]] = s] ELSE chained

FreeSlots == {s \in Slots : ~libcs[s].valid}

\* One round of the loop over the new modules: PatchOneModuleLocked() gives the
\* module the first slot that is not valid, if there is one.
PatchOneModuleLocked(t, m) ==
  LET fn == PopulateWindowsFn(m)
  IN /\ pfPc[t].at = "patching"
     /\ m \in pfPc[t].mods
     /\ \/ /\ fn = <<>>
           /\ UNCHANGED <<jumps, chained, libcs, skipped>>
        \/ /\ fn # <<>> /\ FreeSlots = {}
           /\ skipped' = skipped \cup {m}
           /\ UNCHANGED <<jumps, chained, libcs>>
        \/ /\ fn # <<>>
           /\ \E s \in FreeSlots : (\A u \in FreeSlots : s <= u) /\ Patch(s, m, fn)
           /\ skipped' = skipped \ {m}
     /\ Goto(t, "patching", pfPc[t].mods \ {m})
     /\ UNCHANGED <<loaded, lastLoaded, mainPatched, enumFailed, loads>>

\* The end of that locked block: PatchMainExecutableLocked(), which finds no
\* functions of its own in the usual, dynamically linked program.
PatchMainExecutableLocked(t) ==
  /\ pfPc[t] = [at |-> "patching", mods |-> {}]
  /\ mainPatched' = TRUE
  /\ pfPc' = [pfPc EXCEPT ![t] = Idle]
  /\ UNCHANGED <<loaded, jumps, chained, libcs, lastLoaded, skipped, enumFailed, loads>>

PfNext == \E t \in PfThreads :
            \/ \E m \in PfModules : \/ Perftools_LoadLibraryExW(t, m)
                                    \/ Perftools_FreeLibrary(t, m)
                                    \/ PatchOneModuleLocked(t, m)
            \/ PatchWindowsFunctions(t) \/ LoadLibrary(t) \/ StillLoaded(t) \/ EnumModules(t)
            \/ CompareModules(t) \/ ModuleInformation(t) \/ LockForPatching(t) \/ PatchMainExecutableLocked(t)

PfSpec == PfInit /\ [][PfNext]_pfVars

\* What free() of a block that tcmalloc did not allocate reaches when code of
\* module m calls it: Perftools_free of the slot that m's jumps end in hands it to
\* that slot's origstub_fn_.
ForeignFree(m) == IF jumps[m] = 0 THEN <<"module", m>> ELSE libcs[ChainEnd[jumps[m]]].orig

\* When no LoadLibrary or FreeLibrary call is in progress, no slot is kept by a
\* library that went.  And if Windows listed the modules whenever it was asked,
\* every loaded library with a malloc is patched once, by a valid slot of its
\* own, unless the table was full when it came; no slot's own functions were
\* patched over, and a block that tcmalloc did not allocate is freed by the
\* library whose free() was called (PatchAllModules).
LibrariesHooked ==
  (mainPatched /\ \A t \in PfThreads : pfPc[t] = Idle) =>
     /\ \A s \in Slots : libcs[s].valid => libcs[s].module \in Loaded
     /\ \/ enumFailed
        \/ /\ \A s \in Slots : /\ libcs[s].valid => jumps[libcs[s].module] = s
                               /\ chained[s] = 0
           /\ \A m \in PfLibc \cap Loaded :
                \/ m \in skipped
                \/ jumps[m] # 0 /\ libcs[jumps[m]].valid /\ ForeignFree(m) = <<"module", m>>
==============================================================================
