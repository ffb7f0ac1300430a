SPECIFICATION CtlSpec
CONSTANTS
  c1 = c1  c2 = c2
  NoClient = NoClient
  Clients <- OneProcess
  Builds <- RulesBuild
  Commands <- MCCommands
  Rules = {}
  RuleIds = {}
  Actions = {}
  Interfaces = {"eth0", "eth1"}
  Files = {"default", "other", "saved", "none"}
  DefaultFile = "default"
  Contents <- MCContents
  MaxRules = 2
  AddressBits = 2
  UintLimit = 70000
PROPERTIES ReloadIsAllOrNothing
