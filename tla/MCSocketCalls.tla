--------------------------- MODULE MCSocketCalls ---------------------------
(* Addresses of two bytes: one free, one in use, one where nobody listens. *)
EXTENDS SocketCalls

MCAddrs     == {<<1, 2>>, <<3, 4>>, <<5, 6>>}
MCInUse     == {<<3, 4>>}
MCRefusing  == {<<5, 6>>}
MCEphemeral == <<7, 8>>

\* An uninitialized socklen_t that is too short, or 2^32 - 1 (the int -1).
MCLenGarbageUB == {1, -1}
=============================================================================
