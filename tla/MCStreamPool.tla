---------------------------- MODULE MCStreamPool ----------------------------
(* Small instances of the stream pool. *)
EXTENDS StreamPool, TLC
=============================================================================
