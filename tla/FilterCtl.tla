------------------------------ MODULE FilterCtl ------------------------------
(***************************************************************************)
(* The command line tool (userspace/tools/filter_ctl.c): every invocation  *)
(* is a process of its own, which initialises the library, runs one        *)
(* command with it, cleans up and exits with 0 or 1.  Several may run at   *)
(* once and any of them may be killed.                                     *)
(*                                                                         *)
(* A command line is a name and its arguments.  An argument is what the    *)
(* parsers find in it: a number, a word, an address or a network; the      *)
(* arguments of "add" are options with such values.                        *)
(***************************************************************************)
EXTENDS LibFilter

CONSTANTS
  Commands,  \* the command lines each process is run with
  UintLimit  \* UINT32_MAX

VARIABLE ctl  \* the stage, command line and exit status of each process

ctlVars == <<vars, ctl>>

NoCommand == [name |-> "", args |-> <<>>]

IsA(argument, kind) == kind \in DOMAIN argument

ASSUME UintLimitAssumption == UintLimit \in Nat /\ UintLimit >= PortLimit

\* The numbers on a command line and the files and interfaces it names.
ASSUME CommandsAssumption ==
  \A c \in Clients : \A command \in Commands[c] :
    LET args == command.args
    IN  /\ args \in Seq(Range(args))
        /\ command.name = "add" =>
             \A i \in DOMAIN args : IsA(args[i].value, "number") => args[i].value.number \in Nat
        /\ args # <<>> =>
             /\ command.name \in {"load", "save"} => args[1].word \in Files
             /\ command.name = "interface" => args[1].word \in Interfaces

NotRunning == [stage |-> "none", command |-> NoCommand, status |-> 0, changed |-> FALSE]

\* "changed" is history: whether the process changed the driver's rules.
Goes(c, stage, status) ==
  ctl' = [ctl EXCEPT ![c].stage = stage, ![c].status = status,
                     ![c].changed = @ \/ driver'.rules # driver.rules]

Runs(c, name) ==
  ctl[c].stage = "dispatch" /\ ctl[c].command.name = name /\ AtCall(c)

Args(c) == ctl[c].command.args

-----------------------------------------------------------------------------
(* Arguments.                                                              *)

ActionWords   == [allow |-> "ALLOW", drop |-> "DROP", monitor |-> "MONITOR"]
ProtocolWords == [tcp |-> "TCP", udp |-> "UDP", icmp |-> "ICMP", any |-> "ANY"]

\* parse_action, parse_protocol, parse_uint32 and parse_port: what they take.
ParsesAction(argument)   == IsA(argument, "word") /\ argument.word \in DOMAIN ActionWords
ParsesProtocol(argument) == IsA(argument, "word") /\ argument.word \in DOMAIN ProtocolWords
ParsesUint32(argument)   == IsA(argument, "number") /\ argument.number <= UintLimit
ParsesPort(argument)     == ParsesUint32(argument) /\ argument.number <= PortLimit

ParsesIp(argument) == IsA(argument, "address") /\ argument.address \in Address

ParsesNetwork(argument) ==
  /\ IsA(argument, "network")
  /\ argument.network.prefix \in 0 .. AddressBits
  /\ argument.network.address \in Address

\* Faulty: a priority of any width is taken.
OptionOfAnyPriority(o) ==
  CASE o.option \in {"src-ip", "dst-ip"}     -> ParsesIp(o.value)
    [] o.option \in {"src-net", "dst-net"}   -> ParsesNetwork(o.value)
    [] o.option \in {"src-port", "dst-port"} -> ParsesPort(o.value)
    [] o.option = "protocol"                 -> ParsesProtocol(o.value)
    [] o.option = "action"                   -> ParsesAction(o.value)
    [] o.option = "priority"                 -> ParsesUint32(o.value)
    [] OTHER                                 -> FALSE

\* An option of "add" that does not make it fail.
ValidOption(o) ==
  CASE o.option \in {"src-ip", "dst-ip"}     -> ParsesIp(o.value)
    [] o.option \in {"src-net", "dst-net"}   -> ParsesNetwork(o.value)
    [] o.option \in {"src-port", "dst-port"} -> ParsesPort(o.value)
    [] o.option = "protocol"                 -> ParsesProtocol(o.value)
    [] o.option = "action"                   -> ParsesAction(o.value)
    [] o.option = "priority"                 -> ParsesPort(o.value)
    [] OTHER                                 -> FALSE

\* What an option makes of the rule so far.
WithOption(rule, o) ==
  CASE o.option = "src-ip"   -> WithSourceIp(rule, o.value.address)
    [] o.option = "dst-ip"   -> WithDestinationIp(rule, o.value.address)
    [] o.option = "src-net"  -> WithSourceNetwork(rule, o.value.network.address,
                                                  o.value.network.prefix)
    [] o.option = "dst-net"  -> WithDestinationNetwork(rule, o.value.network.address,
                                                       o.value.network.prefix)
    [] o.option = "src-port" -> [rule EXCEPT !.src_port = o.value.number]
    [] o.option = "dst-port" -> [rule EXCEPT !.dst_port = o.value.number]
    [] o.option = "protocol" -> [rule EXCEPT !.protocol = ProtocolWords[o.value.word]]
    [] o.option = "action"   -> [rule EXCEPT !.action = ActionWords[o.value.word]]
    [] o.option = "priority" -> [rule EXCEPT !.priority = o.value.number]

\* Options are applied in order: a later one overrides an earlier one.
RuleFrom(options) == FoldLeft(WithOption, EmptyRule, options)

-----------------------------------------------------------------------------
(* Commands.  Each ends with the status main will return.                  *)

\* "ret != FILTER_SUCCESS": of the calls that return a code ...
ExitOf(code) == IF code = "SUCCESS" THEN 0 ELSE 1

\* A command that fails before it calls the library.
Refuse(c) ==
  /\ UNCHANGED <<supported, library, driver, file, todo, owner>>
  /\ Goes(c, "done", 1)

\* A command that asks, whatever answers it may get.
Answered(c, answers) ==
  /\ UNCHANGED <<supported, library, driver, file, todo, owner>>
  /\ \E code \in answers : Goes(c, "done", ExitOf(code))

\* "status" and "version" print what they get and return 0 all the same.
CommandStatus(c)  == Runs(c, "status")  /\ Answered(c, {"SUCCESS"})
CommandVersion(c) == Runs(c, "version") /\ Answered(c, {"SUCCESS"})

CommandAdd(c, code) ==
  /\ Runs(c, "add")
  /\ \/ /\ \E i \in DOMAIN Args(c) : ~ ValidOption(Args(c)[i])
        /\ code = "ERROR"
        /\ Refuse(c)
     \/ /\ \A i \in DOMAIN Args(c) : ValidOption(Args(c)[i])
        /\ AddRule(c, RuleFrom(Args(c)), code)
        /\ Goes(c, "done", ExitOf(code))

\* The rule a command names; it fails when there is none or no number.
NamesRule(c) == Args(c) # <<>> /\ ParsesUint32(Args(c)[1])

OnRule(c, name, Operation(_)) ==
  /\ Runs(c, name)
  /\ \/ ~ NamesRule(c) /\ Refuse(c)
     \/ NamesRule(c) /\ Operation(Args(c)[1].number)

CommandDelete(c, code) ==
  OnRule(c, "delete", LAMBDA id : RemoveRule(c, id, code) /\ Goes(c, "done", ExitOf(code)))

CommandEnable(c, code) ==
  OnRule(c, "enable", LAMBDA id : EnableRule(c, id, code) /\ Goes(c, "done", ExitOf(code)))

CommandDisable(c, code) ==
  OnRule(c, "disable", LAMBDA id : DisableRule(c, id, code) /\ Goes(c, "done", ExitOf(code)))

CommandList(c) ==
  Runs(c, "list") /\ Answered(c, {answer[1] : answer \in GetRules(c, MaxRules)})

CommandClear(c, code) ==
  Runs(c, "clear") /\ ClearRules(c, code) /\ Goes(c, "done", ExitOf(code))

CommandStats(c)      == Runs(c, "stats")       /\ Answered(c, Codes(c, "GET_STATS"))
CommandResetStats(c) == Runs(c, "reset-stats") /\ Answered(c, Codes(c, "RESET_STATS"))

\* What a load or save leaves to be done: it goes on or it failed.
Started(c, code) ==
  IF code = "continue" THEN Goes(c, "dispatch", 0) ELSE Goes(c, "done", 1)

CommandLoad(c, code) ==
  /\ Runs(c, "load")
  /\ \/ Args(c) = <<>> /\ code = "ERROR" /\ Refuse(c)
     \/ /\ Args(c) # <<>>
        /\ LoadRules(c, Args(c)[1].word, code)
        /\ Started(c, code)

CommandReload(c, code) == Runs(c, "reload") /\ ReloadRules(c, code) /\ Started(c, code)

CommandSave(c, code) ==
  /\ Runs(c, "save")
  /\ \/ Args(c) = <<>> /\ code = "ERROR" /\ Refuse(c)
     \/ /\ Args(c) # <<>>
        /\ SaveRules(c, Args(c)[1].word, code)
        /\ Started(c, code)

\* Faulty: the count of a load is taken for a code.
LoadAndCompare(c, code) ==
  \/ LoadAgain(c, code) /\ Started(c, code)
  \/ SaveGet(c, code) /\ Started(c, code)
  \/ code = "continue" /\ FillBuffer(c) /\ Goes(c, "dispatch", 0)
  \/ code = "continue" /\ LoadLine(c) /\ Goes(c, "dispatch", 0)
  \/ code = "SUCCESS" /\ EndLoad(c) /\ Goes(c, "done", IF todo[c].loaded = 0 THEN 0 ELSE 1)
  \/ code = "continue" /\ SaveLine(c) /\ Goes(c, "dispatch", 0)
  \/ code = "SUCCESS" /\ EndSave(c) /\ Goes(c, "done", 0)

\* ... and "ret < 0" of those that return how many rules they loaded.
LoadAndSave(c, code) ==
  \/ LoadAgain(c, code) /\ Started(c, code)
  \/ SaveGet(c, code) /\ Started(c, code)
  \/ code = "continue" /\ FillBuffer(c) /\ Goes(c, "dispatch", 0)
  \/ code = "continue" /\ LoadLine(c) /\ Goes(c, "dispatch", 0)
  \/ code = "SUCCESS" /\ EndLoad(c) /\ Goes(c, "done", 0)
  \/ code = "continue" /\ SaveLine(c) /\ Goes(c, "dispatch", 0)
  \/ code = "SUCCESS" /\ EndSave(c) /\ Goes(c, "done", 0)

CommandMonitor(c, code) ==
  LET given == Args(c) # <<>> /\ IsA(Args(c)[1], "word") /\ Args(c)[1].word \in {"on", "off"}
  IN
  /\ Runs(c, "monitor")
  /\ \/ ~ given /\ code = "ERROR" /\ Refuse(c)
     \/ /\ given
        /\ SetMonitoring(c, Args(c)[1].word = "on", code)
        /\ Goes(c, "done", ExitOf(code))

CommandInterface(c, code) ==
  /\ Runs(c, "interface")
  /\ \/ Args(c) = <<>> /\ code = "SUCCESS" /\ Answered(c, {code})
     \/ /\ Args(c) # <<>>
        /\ SetInterface(c, Args(c)[1].word, code)
        /\ Goes(c, "done", ExitOf(code))

CommandDefaultAction(c, code) ==
  /\ Runs(c, "default-action")
  /\ \/ /\ Args(c) = <<>>
        /\ \E answer \in GetDefaultAction(c) : code = answer[1] /\ Answered(c, {code})
     \/ /\ Args(c) # <<>> /\ ~ ParsesAction(Args(c)[1])
        /\ code = "ERROR" /\ Refuse(c)
     \/ /\ Args(c) # <<>> /\ ParsesAction(Args(c)[1])
        /\ SetDefaultAction(c, ActionWords[Args(c)[1].word], code)
        /\ Goes(c, "done", ExitOf(code))

\* "help" returns 0; a name that is no command prints the same and returns 1.
Known ==
  {"status", "version", "add", "delete", "list", "clear", "enable", "disable", "load",
   "reload", "save", "stats", "reset-stats", "monitor", "interface", "default-action"}

CommandHelp(c) ==
  LET name == ctl[c].command.name
  IN  Runs(c, name) /\ name \notin Known
      /\ Answered(c, {IF name = "help" THEN "SUCCESS" ELSE "ERROR"})

-----------------------------------------------------------------------------
(* main.                                                                   *)

\* Without a command nothing is initialised.  The library's variables are
\* those of a new process.
Main(c) ==
  /\ ctl[c].stage = "none"
  /\ \E command \in Commands[c] :
       \/ /\ command = NoCommand
          /\ ctl' = [ctl EXCEPT ![c] = [NotRunning EXCEPT !.stage = "done", !.status = 1]]
          /\ UNCHANGED <<supported, library, driver, file, todo, owner>>
       \/ /\ command # NoCommand
          /\ \E code \in {"SUCCESS", "DEVICE_ERROR"} :
               /\ InitLibrary(c, code)
               /\ ctl' = [ctl EXCEPT ![c] =
                    [NotRunning EXCEPT !.command = command, !.status = ExitOf(code),
                       !.stage = IF code = "SUCCESS" THEN "dispatch" ELSE "done"]]

Dispatch(c) ==
  \/ CommandStatus(c) \/ CommandVersion(c) \/ CommandList(c)
  \/ CommandStats(c) \/ CommandResetStats(c) \/ CommandHelp(c)
  \/ \E code \in Codings :
       \/ CommandAdd(c, code) \/ CommandDelete(c, code) \/ CommandClear(c, code)
       \/ CommandEnable(c, code) \/ CommandDisable(c, code)
       \/ CommandLoad(c, code) \/ CommandReload(c, code) \/ CommandSave(c, code)
       \/ LoadAndSave(c, code)
       \/ CommandMonitor(c, code) \/ CommandInterface(c, code)
       \/ CommandDefaultAction(c, code)

\* The process is gone, and the next one may start.
Gone(c) == Die(c) /\ ctl' = [ctl EXCEPT ![c] = NotRunning]

\* filter_cleanup and the return from main.
Return(c) == ctl[c].stage = "done" /\ Gone(c)

Kill(c) == ctl[c].stage = "dispatch" /\ Gone(c)

CtlInit == Init /\ ctl = [c \in Clients |-> NotRunning]

CtlNext ==
  \/ \E c \in Clients :
       /\ \/ Main(c)
          \/ ctl[c].stage = "dispatch" /\ Dispatch(c)
          \/ Return(c)
          \/ Kill(c)
       /\ Disturb({c})
  \/ Restart /\ UNCHANGED ctl /\ Disturb({})

CtlSpec == CtlInit /\ [][CtlNext]_ctlVars

-----------------------------------------------------------------------------
(* Properties.                                                             *)

CtlTypeOK ==
  /\ TypeOK
  /\ \A c \in Clients :
       /\ ctl[c] \in [stage : {"none", "dispatch", "done"},
                      command : Commands[c] \cup {NoCommand}, status : {0, 1},
                      changed : BOOLEAN]
       /\ ctl[c].stage = "none" => library[c] = Fresh
       /\ ctl[c].stage = "dispatch" => library[c].initialized
       /\ todo[c] # Idle => ctl[c].stage = "dispatch"

\* A command that exits with 1 left the driver's rules as it found them,
\* whichever of its steps failed; only "reload" clears before it can fail.
FailureChangesNothing ==
  \A c \in Clients :
    ctl[c].stage = "done" /\ ctl[c].status = 1 /\ ctl[c].command.name # "reload" =>
      ~ ctl[c].changed
=============================================================================
