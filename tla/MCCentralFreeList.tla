------------------------- MODULE MCCentralFreeList --------------------------
(* An instance of CentralFreeList for TLC.                                 *)
EXTENDS CentralFreeList, TLC

CONSTANTS t1, t2, c1, c2, s1, s2

ConstObjects == (c1 :> 3) @@ (c2 :> 1)
ConstBatch   == (c1 :> 2) @@ (c2 :> 1)
ConstMax     == (c1 :> 2) @@ (c2 :> 1)
=============================================================================
