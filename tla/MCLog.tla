--------------------------------- MODULE MCLog ---------------------------------
(* Instances of MrLog for TLC.  Jobs and threads are model values.             *)
EXTENDS MrLog
================================================================================
