--------------------------- MODULE MCThreadCache ---------------------------
(* Instances of ThreadCache for TLC.                                       *)
EXTENDS ThreadCache, TLC

CONSTANTS t1, t2, t3, c1, c2

OneClassSize    == c1 :> 1
OneClassBatch   == c1 :> 2
OneClassObjects == c1 :> 2
TwoClassSize    == c1 :> 1 @@ c2 :> 2
TwoClassBatch   == c1 :> 3 @@ c2 :> 1
TwoClassObjects == c1 :> 2 @@ c2 :> 2

Symmetry == Permutations(Threads)
=============================================================================
