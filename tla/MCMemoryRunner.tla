---------------------------- MODULE MCMemoryRunner ----------------------------
(* Small instances of MemoryRunner for TLC. *)
EXTENDS MemoryRunner

CONSTANTS t1, t2, t3, w1, w2
=============================================================================
