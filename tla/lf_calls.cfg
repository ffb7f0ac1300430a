SPECIFICATION Spec
CONSTANTS
  c1 = c1
  NoClient = NoClient
  Clients <- MCClients
  Builds <- MCBuilds
  Rules <- MCRules
  RuleIds = {1}
  Actions = {"ALLOW", "DROP"}
  Interfaces = {"eth0", "eth1"}
  Files = {"default"}
  DefaultFile = "default"
  Contents <- MCContents
  MaxRules = 2
  AddressBits = 2
INVARIANTS TypeOK LoadIsExact SettingsAgree
