\* Socket with SIGPIPE at its default action, and its other undefined
\* behaviour at the benign outcome: a write (flags 0) that meets EPIPE ends
\* the process, and nothing else makes a wrapper disagree with its syscall.
CONSTANTS
  Impls = {"Socket"}
  FdOpen = {TRUE}
  Addrs <- MCAddrs
  InUse <- MCInUse
  Refusing <- MCRefusing
  Ephemeral <- MCEphemeral
  AddrSize = 2
  AddrStorage = 4
  ShutdownGarbage = {}
  LenGarbage = {128}
  SigpipeIgnored = FALSE
SPECIFICATION Spec
INVARIANT CallsFaithful
