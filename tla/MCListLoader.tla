---------------------------- MODULE MCListLoader ----------------------------
(***************************************************************************)
(* Instances of ListLoader for TLC: overlapping runs of the loader are     *)
(* interchangeable, and so are the contents of a list.                     *)
(***************************************************************************)
EXTENDS ListLoader, TLC

Symmetry == Permutations(Loaders) \cup Permutations(Versions)
=============================================================================
