----------------------------- MODULE MCLibFilter -----------------------------
(* Small instances of LibFilter for TLC.                                   *)
EXTENDS LibFilter

CONSTANT c1

MCClients == {c1}

AllRequests ==
  {"ADD_RULE", "REMOVE_RULE", "UPDATE_RULE", "GET_RULE", "GET_RULES", "CLEAR_RULES",
   "ENABLE_RULE", "DISABLE_RULE", "GET_STATS", "RESET_STATS", "GET_INTERFACE_STATS",
   "PROCESS_PACKET", "SET_DEFAULT_ACTION", "GET_DEFAULT_ACTION", "SET_INTERFACE",
   "ENABLE_MONITORING", "DISABLE_MONITORING", "GET_VERSION", "GET_RULE_COUNT"}

\* The ioctl_defs.h there is defines none of the names; one with all of them.
MCBuilds == {{}, AllRequests}

HostRule  == [WithSourceIp(EmptyRule, 1) EXCEPT !.action = "DROP", !.rule_id = 1]
WrongRule == [HostRule EXCEPT !.action = "OTHER"]

MCRules == {HostRule, WrongRule}

\* A file with a rule and a line that is skipped.
MCContents == "default" :> <<[LineOf(HostRule) EXCEPT !.src_port = 65536], LineOf(HostRule)>>
=============================================================================
