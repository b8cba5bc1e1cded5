\* build_stream when ::socket() fails with EMFILE (24).
CONSTANTS
  a1 = a1  a2 = a2  a3 = a3
  Awaiters <- MCAwaiters
  Kinds = {"connect"}
  Fds = {3, 4, 5}
  SocketErrnos = {24}
  OpErrnos = {111}
SPECIFICATION Spec
INVARIANT ResultFaithful
CHECK_DEADLOCK FALSE
