---------------------------- MODULE MCIndexTree ----------------------------
(***************************************************************************)
(* IndexTree for several processes, none of which an action tells apart.   *)
(***************************************************************************)
EXTENDS IndexTree, TLC

Symmetry == Permutations(Procs)
=============================================================================
