-------------------------------- MODULE MCQueue --------------------------------
(* An instance of MrQueue for TLC.  The threads and elements are model values. *)
EXTENDS MrQueue
================================================================================
