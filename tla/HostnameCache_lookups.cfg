SPECIFICATION CacheSpec
CONSTANTS
  Slots = {t1, t2}
  Addrs = {a1, unix}
  Inet = {a1}
  Ports = {p1, p2}
  Protocols = {0, 1}
  RawNames = {api, www, blank}
  Normal <- MCNormal
  Ttl = 1
  MaxEntries = 2
  MaxResults = 1
  MaxNow = 3
  MaxNoted = 3
  None = None
  t1 = t1
  t2 = t2
  a1 = a1
  unix = unix
  api = api
  www = www
  blank = blank
  p1 = p1
  p2 = p2
SYMMETRY Symmetric
INVARIANT CacheTypeOK
PROPERTIES NameCurrent MissJustified
CHECK_DEADLOCK FALSE
