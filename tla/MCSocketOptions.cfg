\* Options of a Socket or a SocketIO that may be open or closed: one TTL the
\* kernel refuses; buffer sizes below the kernel's minimum, above
\* rmem_max/wmem_max, and negative; no CAP_NET_ADMIN for SO_MARK.  One
\* boolean option: they all take the same path.
CONSTANTS
  Impls = {"Socket", "SocketIO"}
  FdOpen = {TRUE, FALSE}
  BoolOpts = {"keepalive"}
  Ttls = {64, 300}
  Seconds = {5}
  BufSizes <- MCBufSizes
  CapNetAdmin = FALSE
SPECIFICATION Spec
INVARIANT TypeOK
PROPERTY GetterReportsSetting
PROPERTY OtherFlagsKept
