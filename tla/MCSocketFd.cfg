\* Socket fd ownership: moves, closes and destruction against fd reuse.
CONSTANTS
  s1 = s1  s2 = s2
  Sockets <- MCSockets
  Fds = {3, 4}
  MaxOpens = 4
SPECIFICATION Spec
INVARIANT TypeOK
INVARIANT FdOwnedOnce
PROPERTY NoForeignClose
\* Once MaxOpens opens are used up and every Socket is destroyed, the
\* program has nothing left to do.
CHECK_DEADLOCK FALSE
