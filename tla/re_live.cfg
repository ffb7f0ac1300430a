SPECIFICATION LiveSpec
CONSTANTS
  t1 = t1  t2 = t2
  o1 = o1  o2 = o2  o3 = o3  o4 = o4
  p1 = p1  p2 = p2
  NoObject = NoObject
  NoPacket = NoPacket
  Threads <- MCThreads
  Objects <- MC2Objects
  Packets <- MCPackets
  Bodies <- TwoBodies
  CallerIds = {1, 2}
  IdSpace = 3
  MaxRules = 2
  MaxPriority = 3
  MaxHits = 1
  Ops = {"add", "delete", "update", "classify", "rule_state", "exit"}
PROPERTIES ImplementsPolicy CallsReturn TableGetsSorted
