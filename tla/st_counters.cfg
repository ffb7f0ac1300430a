SPECIFICATION LiveSpec
CONSTANTS
  t1 = t1  t2 = t2
  NoThread = NoThread
  Threads <- MCThreads
  Calls <- AllCalls
  Watched = {"rx_packets", "tx_packets", "total_packets", "rx_allowed"}
  Lengths = {2}
  MaxCount = 1
INVARIANTS TypeOK DriftIsBounded SnapshotIsWhole NeverSleepsLocked
PROPERTIES DisableSettles CallsReturn
