-------------------------------- MODULE MCCore --------------------------------
(* Instances of MrCore for TLC: the .cfg files choose the sizes and which calls *)
(* may fail.                                                                    *)
EXTENDS MrCore
================================================================================
