CONSTANTS
  Processes = {"creator", "consumer"}
  Threads = {"a", "b", "c"}
  Home <- MCHome
  Creators = {"creator"}
  Fds = {3}
  SlotOf <- MCSlotOf
  MaxExits = 1
  MaxFaults = 1
SPECIFICATION Spec
INVARIANTS MappedOnce BoundStays NoPhantom
PROPERTY OpensEventually
