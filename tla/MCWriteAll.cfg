\* write_all under short writes, failures and a second writer.
CONSTANTS
  wa = wa  wb = wb
  Writers <- MCWriters
  Size = 3
  Errnos = {104}
  PeerBuffer = 6
SPECIFICATION Spec
INVARIANT TypeOK
INVARIANT PeerGetsBuffer
PROPERTY WriteAllReturns
\* Both calls have returned: the tasks go on elsewhere.
CHECK_DEADLOCK FALSE
