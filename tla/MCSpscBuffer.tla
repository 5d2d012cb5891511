---------------------------- MODULE MCSpscBuffer ----------------------------
(* Small instances of SpscBuffer for TLC.                                  *)
EXTENDS SpscBuffer
=============================================================================
