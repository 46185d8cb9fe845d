SPECIFICATION RangesSpec
CONSTANT Environments <- AllEnvironments
INVARIANTS HeapSound NewKeepsContract  
