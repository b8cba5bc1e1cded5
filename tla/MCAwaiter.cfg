\* The descriptor contract with build_socket succeeding: results are faithful.
CONSTANTS
  a1 = a1  a2 = a2  a3 = a3
  Awaiters <- MCAwaiters
  Kinds = {"accept", "connect", "fsetxattr"}
  Fds = {3, 4, 5}
  SocketErrnos = {}
  OpErrnos = {111}
SPECIFICATION Spec
INVARIANT TypeOK
INVARIANT ResultFaithful
INVARIANT FdsHeldOnce
\* Every awaiter ends "gone": the tasks have nothing left to await.
CHECK_DEADLOCK FALSE
