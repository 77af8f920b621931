-------------------------------- MODULE MCMapper --------------------------------
(* Instances of MrMapper for TLC.  Workers and lines are model values.         *)
EXTENDS MrMapper
================================================================================
