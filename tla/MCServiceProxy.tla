--------------------------- MODULE MCServiceProxy ---------------------------
(* Instances of ServiceProxy for TLC.  SIDs are interchangeable.           *)
EXTENDS ServiceProxy, TLC

Symmetry == Permutations(SIDs)
=============================================================================
