\* A buffer smaller than the heap has ranges.
SPECIFICATION RangesSpec
CONSTANT Environments <- SmallBuffer
INVARIANT RangesCurrent
