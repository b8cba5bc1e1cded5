----------------------------- MODULE MCWriteAll -----------------------------
(* WriteAll for TLC: two tasks writing 3-byte buffers to one socket, with  *)
(* short writes of any length and one errno.                               *)
EXTENDS WriteAll

CONSTANTS wa, wb

MCWriters == {wa, wb}
=============================================================================
