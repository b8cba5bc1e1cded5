--------------------------- MODULE MCSocketOptions ---------------------------
(* SocketOptions for TLC: buffer sizes below the kernel's minimum, above   *)
(* rmem_max, and negative, which the cfg parser cannot write.              *)
EXTENDS SocketOptions

MCBufSizes == {1000, 300000, -1}
=============================================================================
