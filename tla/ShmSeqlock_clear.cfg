CONSTANTS
  w1 = w1
  w2 = w2
  r1 = r1
  Writers = {w1}
  RustWriters = {}
  LockOf <- OneLock
  Readers = {r1}
  Payload = {"latency"}
  Rules = {"rule0"}
  Updates <- MCUpdates
  MaxAttempts = 2
  RetryLimit = 2
  MaxGen = 4
  AbortOps = {}
SPECIFICATION Spec
CHECK_DEADLOCK FALSE
INVARIANT NoTornConfig
