----------------------------- MODULE MCSocketFd -----------------------------
(* SocketFd for TLC: two Socket objects, two fd numbers (so that a number  *)
(* released by one thread is the next one handed to another), four opens. *)
EXTENDS SocketFd

CONSTANTS s1, s2

MCSockets == {s1, s2}
=============================================================================
