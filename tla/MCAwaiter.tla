----------------------------- MODULE MCAwaiter -----------------------------
(* Awaiter for TLC: three awaiters of any of the three kinds, three fds.   *)
EXTENDS Awaiter

CONSTANTS a1, a2, a3

MCAwaiters == {a1, a2, a3}
=============================================================================
