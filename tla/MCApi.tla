--------------------------------- MODULE MCApi ---------------------------------
(* An instance of MrApi for TLC.                                               *)
EXTENDS MrApi, TLC

Symmetry == Permutations(Handles) \cup Permutations(Blocks)
================================================================================
