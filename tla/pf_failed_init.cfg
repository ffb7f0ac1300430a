SPECIFICATION Spec
CONSTANTS
  c1 = c1  c2 = c2
  u1 = u1  u2 = u2
  Contexts <- MC1Context
  Users <- MC1User
  MaxReceived = 2
  Faults <- AllFaults
SYMMETRY Symmetry
INVARIANTS OpenFilesAreSafe
