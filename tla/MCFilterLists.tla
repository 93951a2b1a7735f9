--------------------------- MODULE MCFilterLists ---------------------------
(***************************************************************************)
(* Small instances of FilterLists for TLC.                                 *)
(***************************************************************************)
EXTENDS FilterLists, TLC

Symmetry == Permutations(Tasks) \cup Permutations(Lists)
=============================================================================
