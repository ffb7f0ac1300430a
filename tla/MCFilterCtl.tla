----------------------------- MODULE MCFilterCtl -----------------------------
(* Small instances of FilterCtl for TLC.                                   *)
EXTENDS FilterCtl

CONSTANTS c1, c2

OneProcess   == {c1}
TwoProcesses == {c1, c2}

\* A build that knows the requests about rules and one that knows the others,
\* so that the settings do not multiply the states of the rules.
RuleRequests ==
  {"ADD_RULE", "REMOVE_RULE", "UPDATE_RULE", "GET_RULE", "GET_RULES", "CLEAR_RULES",
   "ENABLE_RULE", "DISABLE_RULE", "GET_RULE_COUNT"}

OtherRequests ==
  {"GET_STATS", "RESET_STATS", "GET_INTERFACE_STATS", "PROCESS_PACKET",
   "SET_DEFAULT_ACTION", "GET_DEFAULT_ACTION", "SET_INTERFACE", "ENABLE_MONITORING",
   "DISABLE_MONITORING", "GET_VERSION"}

MCBuilds   == {RuleRequests, OtherRequests}
RulesBuild == {RuleRequests}

NumberArg(n)  == [number |-> n]
WordArg(w)    == [word |-> w]
Ip(a)         == [address |-> a]
Network(a, p) == [network |-> [address |-> a, prefix |-> p]]

Line(name, args) == [name |-> name, args |-> args]
Option(o, value) == [option |-> o, value |-> value]

RightOptions ==
  <<Option("src-net", Network(3, 1)), Option("src-ip", Ip(2)), Option("dst-port", NumberArg(80)),
    Option("protocol", WordArg("tcp")), Option("action", WordArg("drop")),
    Option("priority", NumberArg(0))>>
WrongOptions == <<Option("dst-ip", Ip(1)), Option("priority", NumberArg(65536))>>

\* Commands that read and write rules and files ...
RuleCommands ==
  {Line("add", RightOptions), Line("add", WrongOptions),
   Line("delete", <<NumberArg(0)>>), Line("clear", <<>>),
   Line("load", <<WordArg("other")>>), Line("load", <<WordArg("none")>>),
   Line("reload", <<>>), Line("save", <<WordArg("saved")>>)}

\* ... and the rest, with the command lines that are wrong.
OtherCommands ==
  {NoCommand, Line("help", <<>>), Line("frobnicate", <<>>),
   Line("status", <<>>), Line("version", <<>>), Line("list", <<>>), Line("stats", <<>>),
   Line("reset-stats", <<>>), Line("delete", <<NumberArg(UintLimit + 1)>>),
   Line("disable", <<NumberArg(1)>>), Line("enable", <<>>), Line("load", <<>>),
   Line("save", <<>>), Line("monitor", <<>>), Line("monitor", <<WordArg("on")>>),
   Line("interface", <<>>), Line("interface", <<WordArg("eth1")>>),
   Line("default-action", <<>>), Line("default-action", <<WordArg("drop")>>),
   Line("default-action", <<WordArg("x")>>)}

\* One process runs any command, while the other saves to the file the first
\* saves to.
MCCommands ==
  c1 :> RuleCommands \cup OtherCommands @@
  c2 :> {Line("save", <<WordArg("saved")>>)}

HostLine == [Comment EXCEPT !.comment = FALSE, !.fields = 6, !.action = "DROP", !.src_ip = 1,
                            !.protocol = "TCP"]

\* A file with a line that is skipped and a rule, and one with the rule that
\* is added; the others are missing.
MCContents ==
  "default" :> <<[HostLine EXCEPT !.src_port = 65536], HostLine>> @@
  "other"   :> <<[HostLine EXCEPT !.src_ip = 2, !.dst_port = 80]>>
=============================================================================
