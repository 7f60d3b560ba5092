CONSTANTS
  f1 = f1
  f2 = f2
  t1 = t1
  t2 = t2
  h1 = h1
  NoOwner = NoOwner
  NoFd = NoFd
  Fds = {f1, f2}
  Tracked = {f1, f2}
  Threads = {t1, t2}
  Ssl = {h1}
  Kinds = {"stream_bytes"}
  MaxConn = 2
SPECIFICATION Spec
SYMMETRY Symmetry
CHECK_DEADLOCK FALSE
INVARIANTS OwnFlow OwnName
PROPERTY OwnerBinding
