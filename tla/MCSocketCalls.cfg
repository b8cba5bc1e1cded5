\* Both classes, open and closed fds. The undefined behaviour of Socket takes
\* the benign outcome: shutdown() happens to leave Ok, and the garbage len is
\* large enough; SIGPIPE is ignored. Every other path of every wrapper is
\* checked against what earlier calls told the caller.
CONSTANTS
  Impls = {"Socket", "SocketIO"}
  FdOpen = {TRUE, FALSE}
  Addrs <- MCAddrs
  InUse <- MCInUse
  Refusing <- MCRefusing
  Ephemeral <- MCEphemeral
  AddrSize = 2
  AddrStorage = 4
  ShutdownGarbage = {}
  LenGarbage = {128}
  SigpipeIgnored = TRUE
SPECIFICATION Spec
INVARIANT TypeOK
INVARIANT ListenerFaithful
PROPERTY AnswersMatchHistory
