SPECIFICATION Spec
CONSTANTS
  t1 = t1  t2 = t2
  o1 = o1  o2 = o2  o3 = o3  o4 = o4
  p1 = p1  p2 = p2
  NoObject = NoObject
  NoPacket = NoPacket
  Threads <- MCThreads
  Objects <- MC4Objects
  Packets <- MCPackets
  Bodies <- OrderBodies
  CallerIds = {0, 2}
  IdSpace = 4
  MaxRules = 3
  MaxPriority = 3
  MaxHits = 1
  Ops = {"add", "create", "delete", "clear", "update"}
SYMMETRY Symmetry
INVARIANTS TypeOK CountMatchesTable UniqueRules HeapOwnership InversionsAreFresh
PROPERTIES TiesKeepOrder
