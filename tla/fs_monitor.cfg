SPECIFICATION Spec
CONSTANTS
  CounterSpace = 4
INVARIANTS TypeOK
PROPERTIES DeltaIsTraffic StopEnds
