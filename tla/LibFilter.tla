------------------------------ MODULE LibFilter ------------------------------
(***************************************************************************)
(* The userspace library (userspace/lib/libfilter.c): the static variables *)
(* every process that links it has of its own, the driver they all talk to *)
(* and the rule files they share.                                          *)
(*                                                                         *)
(* A library call that makes at most one request of the driver is a step.  *)
(* Loading, reloading and saving rules take a step per request and per     *)
(* access to a file, which reads or writes some of its lines.  "code" is   *)
(* what a call returns, "continue" when the call goes on.  The driver      *)
(* serves a request or refuses it for a reason of its own; of its state    *)
(* only what the library sets is kept.  A process may die between any two  *)
(* steps.                                                                  *)
(***************************************************************************)
EXTENDS Integers, Lists

CONSTANTS
  Clients,      \* processes that use the library
  NoClient,
  Builds,       \* sets of requests an ioctl_defs.h may define
  Rules,        \* rules that are added and updated
  RuleIds,      \* ids of rules that are named
  Actions,      \* default actions that are set
  Interfaces,   \* interfaces that are selected
  Files,        \* names of rule files
  DefaultFile,  \* default_rules.conf
  Contents,     \* the rule files there are at first
  MaxRules,     \* FILTER_MAX_RULES: what a rule array and the driver hold
  AddressBits   \* width of an address: 32

ASSUME NoClientAssumption == NoClient \notin Clients
ASSUME FilesAssumption    == DefaultFile \in Files /\ DOMAIN Contents \subseteq Files
ASSUME WidthAssumption    == AddressBits \in Nat \ {0} /\ MaxRules \in Nat

\* Arithmetic that the proof system does not know.
ASSUME PowersAssumption == \A n \in 0 .. AddressBits : 2^n \in Nat \ {0}

VARIABLES
  supported,  \* the requests ioctl_defs.h defined when the library was built
  library,    \* the static variables of each process
  driver,     \* the rules and the settings the driver has
  file,       \* the lines of each rule file there is
  todo,       \* what is left of each process's load or save
  owner,      \* history: whose request last gave the driver a setting
  disturbed   \* history: processes whose load or save met another's change

vars == <<supported, library, driver, file, todo, owner, disturbed>>

-----------------------------------------------------------------------------
(* Rules.                                                                  *)

Address   == 0 .. 2^AddressBits - 1
PortLimit == 65535

RuleActions == {"ALLOW", "DROP", "MONITOR"}
Protocols   == {"ANY", "TCP", "UDP", "ICMP"}

\* What an action or a protocol may be called: any string, which these are;
\* the proof system does not know it of a string.
Words == STRING \cup RuleActions \cup Protocols \cup {""}

\* The fields of a struct filter_rule, which has room for any action and
\* protocol, and of one that check_rule takes.
Rule(actions, protocols) ==
  [rule_id : Nat, action : actions, src_ip : Address, src_prefix : 0 .. AddressBits,
   dst_ip : Address, dst_prefix : 0 .. AddressBits, src_port : 0 .. PortLimit,
   dst_port : 0 .. PortLimit, protocol : protocols, priority : 0 .. PortLimit,
   enabled : BOOLEAN]

AnyRule  == Rule(Words, Words)
GoodRule == Rule(RuleActions, Protocols)

\* filter_set_default_action refuses every other action before it does anything.
ASSUME RulesAssumption   == Rules \subseteq AnyRule
ASSUME ActionsAssumption == Actions \subseteq RuleActions

\* check_rule.
ValidRule(rule) == rule.action \in RuleActions /\ rule.protocol \in Protocols

\* filter_rule_init: a rule for every packet.  A mask is its prefix length.
EmptyRule ==
  [rule_id |-> 0, action |-> "ALLOW", src_ip |-> 0, src_prefix |-> 0, dst_ip |-> 0,
   dst_prefix |-> 0, src_port |-> 0, dst_port |-> 0, protocol |-> "ANY",
   priority |-> 0, enabled |-> TRUE]

WithSourceIp(rule, ip) ==
  [rule EXCEPT !.src_ip = ip, !.src_prefix = AddressBits]

WithDestinationIp(rule, ip) ==
  [rule EXCEPT !.dst_ip = ip, !.dst_prefix = AddressBits]

\* ip & mask.
Masked(ip, prefix) == ip - (ip % 2^(AddressBits - prefix))

WithSourceNetwork(rule, ip, prefix) ==
  [rule EXCEPT !.src_ip = Masked(ip, prefix), !.src_prefix = prefix]

WithDestinationNetwork(rule, ip, prefix) ==
  [rule EXCEPT !.dst_ip = Masked(ip, prefix), !.dst_prefix = prefix]

WithPorts(rule, source, destination) ==
  [rule EXCEPT !.src_port = source, !.dst_port = destination]

-----------------------------------------------------------------------------
(* Rule files.  A line is what sscanf finds in it; a number where there    *)
(* should be an address is one if it has the width.                        *)

FileLine ==
  [comment : BOOLEAN, fields : Nat, action : Words, src_ip : Nat, dst_ip : Nat,
   src_port : Nat, dst_port : Nat, protocol : Words]

ASSUME ContentsAssumption == Contents \in [DOMAIN Contents -> Seq(FileLine)]

Comment == [comment |-> TRUE, fields |-> 0, action |-> "", src_ip |-> 0, dst_ip |-> 0,
            src_port |-> 0, dst_port |-> 0, protocol |-> ""]

\* What a line is that was not written, or of which a part was overwritten.
Fragment == [Comment EXCEPT !.comment = FALSE]

\* Faulty: a port of any width is taken.
LoadableWithAnyPort(line) ==
  /\ ~ line.comment
  /\ line.fields = 6
  /\ line.action \in RuleActions
  /\ {line.src_ip, line.dst_ip} \subseteq Address
  /\ line.protocol \in Protocols

\* A line filter_load_rules does not skip.
Loadable(line) ==
  /\ ~ line.comment
  /\ line.fields = 6
  /\ line.action \in RuleActions
  /\ {line.src_ip, line.dst_ip} \subseteq Address
  /\ line.src_port <= PortLimit /\ line.dst_port <= PortLimit
  /\ line.protocol \in Protocols

\* Faulty: no address stands for every address.
RuleOfLiteral(line) ==
  WithPorts([WithDestinationIp(WithSourceIp(EmptyRule, line.src_ip), line.dst_ip)
               EXCEPT !.action = line.action, !.protocol = line.protocol],
            line.src_port, line.dst_port)

\* ... and the rule it makes of one; 0.0.0.0 stands for every address.
RuleOf(line) ==
  LET source == IF line.src_ip = 0 THEN EmptyRule ELSE WithSourceIp(EmptyRule, line.src_ip)
      both   == IF line.dst_ip = 0 THEN source ELSE WithDestinationIp(source, line.dst_ip)
  IN  WithPorts([both EXCEPT !.action = line.action, !.protocol = line.protocol],
                line.src_port, line.dst_port)

\* The line filter_save_rules writes: neither masks, priority, id nor whether
\* the rule is enabled.
LineOf(rule) ==
  [comment |-> FALSE, fields |-> 6, action |-> rule.action, src_ip |-> rule.src_ip,
   dst_ip |-> rule.dst_ip, src_port |-> rule.src_port, dst_port |-> rule.dst_port,
   protocol |-> rule.protocol]

Lines(rules) == [i \in DOMAIN rules |-> LineOf(rules[i])]

RulesOf(lines) ==
  LET loadable == Selection(lines, {line \in FileLine : Loadable(line)})
  IN  [i \in DOMAIN loadable |-> RuleOf(loadable[i])]

-----------------------------------------------------------------------------
(* The driver and the state of a process.                                  *)

Settings == {"default_action", "interface", "monitoring_enabled"}

Fresh ==
  [open |-> FALSE, initialized |-> FALSE, default_action |-> "ALLOW",
   interface |-> "eth0", monitoring_enabled |-> FALSE, rule_file |-> DefaultFile]

\* The driver after its module was loaded.
LoadedDriver ==
  [rules |-> <<>>, default_action |-> "ALLOW", interface |-> "eth0",
   monitoring_enabled |-> FALSE]

Idle == [op |-> "none"]

Unowned == [s \in Settings |-> NoClient]

\* What an initialised caller gets of a request it may make.
Served(c, request) ==
  IF request \in supported /\ library[c].open THEN {"SUCCESS", "IOCTL_ERROR"}
  ELSE {"IOCTL_ERROR"}

\* ... and what the calls return that change or read rules.
Codes(c, request) ==
  IF library[c].initialized THEN Served(c, request) ELSE {"NOT_INITIALIZED"}

AtCall(c) == todo[c].op = "none"

\* The driver's rules are "rules" if the request was served.
SetRules(code, rules) ==
  driver' = IF code = "SUCCESS" THEN [driver EXCEPT !.rules = rules] ELSE driver

Init ==
  /\ supported \in Builds
  /\ library = [c \in Clients |-> Fresh]
  /\ driver = LoadedDriver
  /\ file = Contents
  /\ todo = [c \in Clients |-> Idle]
  /\ owner = Unowned
  /\ disturbed = {}

-----------------------------------------------------------------------------
(* Initialisation.                                                         *)

\* The configuration is stored before the device is opened, and stays when
\* that fails.  The driver is not told of the interface.
InitWithConfig(c, interface, rule_file, code) ==
  LET configured == [library[c] EXCEPT !.interface = interface, !.rule_file = rule_file]
  IN
  /\ AtCall(c)
  /\ \/ /\ library[c].initialized
        /\ code = "SUCCESS"
        /\ UNCHANGED <<library, owner>>
     \/ /\ ~ library[c].initialized
        /\ code \in {"SUCCESS", "DEVICE_ERROR"}
        /\ library[c].open => code = "SUCCESS"
        /\ library' = [library EXCEPT ![c] =
             IF code = "SUCCESS"
             THEN [configured EXCEPT !.open = TRUE, !.initialized = TRUE]
             ELSE configured]
        /\ owner' = IF owner["interface"] = c /\ interface # library[c].interface
                    THEN [owner EXCEPT !["interface"] = NoClient] ELSE owner
  /\ UNCHANGED <<supported, driver, file, todo>>

\* filter_init: the configuration there is already.
InitLibrary(c, code) == InitWithConfig(c, library[c].interface, library[c].rule_file, code)

\* The settings stay for the next filter_init.
Cleanup(c) ==
  /\ AtCall(c)
  /\ library' = [library EXCEPT ![c] =
       IF @.initialized THEN [@ EXCEPT !.open = FALSE, !.initialized = FALSE] ELSE @]
  /\ UNCHANGED <<supported, driver, file, todo, owner>>

Open(c, code) ==
  /\ AtCall(c)
  /\ code \in {"SUCCESS", "DEVICE_ERROR"}
  /\ library[c].open => code = "SUCCESS"
  /\ library' = [library EXCEPT ![c].open = code = "SUCCESS"]
  /\ UNCHANGED <<supported, driver, file, todo, owner>>

\* Whoever was initialised stays so, without a descriptor.
Close(c) ==
  /\ AtCall(c)
  /\ library' = [library EXCEPT ![c].open = FALSE]
  /\ UNCHANGED <<supported, driver, file, todo, owner>>

-----------------------------------------------------------------------------
(* Rules, one request at a time.                                           *)

OnlyDriver == UNCHANGED <<supported, library, file, todo, owner>>

AddRule(c, rule, code) ==
  /\ AtCall(c)
  /\ code \in IF library[c].initialized /\ ~ ValidRule(rule)
              THEN {"INVALID_ARGUMENT"} ELSE Codes(c, "ADD_RULE")
  /\ code = "SUCCESS" => Len(driver.rules) < MaxRules
  /\ SetRules(code, Append(driver.rules, rule))
  /\ OnlyDriver

HasRule(id) == \E i \in DOMAIN driver.rules : driver.rules[i].rule_id = id

\* What becomes of the rules when those with an id are changed.
Changed(id, Change(_)) ==
  [i \in DOMAIN driver.rules |->
     IF driver.rules[i].rule_id = id THEN Change(driver.rules[i]) ELSE driver.rules[i]]

RemoveRule(c, id, code) ==
  /\ AtCall(c)
  /\ code \in Codes(c, "REMOVE_RULE")
  /\ code = "SUCCESS" => HasRule(id)
  /\ SetRules(code, Selection(driver.rules, {rule \in GoodRule : rule.rule_id # id}))
  /\ OnlyDriver

UpdateRule(c, rule, code) ==
  /\ AtCall(c)
  /\ code \in IF library[c].initialized /\ ~ ValidRule(rule)
              THEN {"INVALID_ARGUMENT"} ELSE Codes(c, "UPDATE_RULE")
  /\ code = "SUCCESS" => HasRule(rule.rule_id)
  /\ SetRules(code, Changed(rule.rule_id, LAMBDA old : rule))
  /\ OnlyDriver

EnableRule(c, id, code) ==
  /\ AtCall(c)
  /\ code \in Codes(c, "ENABLE_RULE")
  /\ code = "SUCCESS" => HasRule(id)
  /\ SetRules(code, Changed(id, LAMBDA old : [old EXCEPT !.enabled = TRUE]))
  /\ OnlyDriver

DisableRule(c, id, code) ==
  /\ AtCall(c)
  /\ code \in Codes(c, "DISABLE_RULE")
  /\ code = "SUCCESS" => HasRule(id)
  /\ SetRules(code, Changed(id, LAMBDA old : [old EXCEPT !.enabled = FALSE]))
  /\ OnlyDriver

ClearRules(c, code) ==
  /\ AtCall(c)
  /\ code \in Codes(c, "CLEAR_RULES")
  /\ SetRules(code, <<>>)
  /\ OnlyDriver

\* filter_get_rule, filter_get_rules and filter_get_rule_count, which counts
\* with GET_RULES where there is no request of its own: the answers, with
\* what they answer after a success.
GetRule(c, id) ==
  {<<code, Selection(driver.rules, {rule \in GoodRule : rule.rule_id = id})>> :
     code \in (Codes(c, "GET_RULE") \ (IF HasRule(id) THEN {} ELSE {"SUCCESS"}))
              \cup (IF "SUCCESS" \in Codes(c, "GET_RULE") /\ ~ HasRule(id)
                    THEN {"NOT_FOUND"} ELSE {})}

GetRules(c, count) ==
  IF count = 0 THEN {<<"INVALID_ARGUMENT", <<>>>>}
  ELSE {<<code, SubSeq(driver.rules, 1, Min({count, Len(driver.rules)}))>> : code \in Codes(c, "GET_RULES")}

GetRuleCount(c) ==
  {<<code, Len(driver.rules)>> :
     code \in Codes(c, IF "GET_RULE_COUNT" \in supported THEN "GET_RULE_COUNT"
                       ELSE "GET_RULES")}

-----------------------------------------------------------------------------
(* Settings.                                                               *)

\* Whether the caller may believe that the driver has what it set.
Claims(c, request, code) ==
  library[c].initialized /\ request \in supported /\ code = "SUCCESS"

Claim(c, setting, claims) ==
  owner' = IF claims THEN [owner EXCEPT ![setting] = c]
           ELSE IF owner[setting] = c THEN [owner EXCEPT ![setting] = NoClient]
           ELSE owner

\* filter_set_default_action and filter_set_interface: remembered first,
\* whether or not the driver is told, and whatever it says.
RememberAndTell(c, setting, value, request, code) ==
  /\ AtCall(c)
  /\ code \in IF library[c].initialized /\ request \in supported
              THEN Served(c, request) ELSE {"SUCCESS"}
  /\ library' = [library EXCEPT ![c][setting] = value]
  /\ driver' = IF Claims(c, request, code)
               THEN [driver EXCEPT ![setting] = value] ELSE driver
  /\ Claim(c, setting, Claims(c, request, code))
  /\ UNCHANGED <<supported, file, todo>>

SetDefaultAction(c, action, code) ==
  RememberAndTell(c, "default_action", action, "SET_DEFAULT_ACTION", code)

SetInterface(c, interface, code) ==
  RememberAndTell(c, "interface", interface, "SET_INTERFACE", code)

\* Faulty: the flag is written before the driver answers.
SetMonitoringFirst(c, on, code) ==
  LET request == IF on THEN "ENABLE_MONITORING" ELSE "DISABLE_MONITORING"
  IN
  /\ AtCall(c)
  /\ code \in IF request \in supported THEN Codes(c, request)
              ELSE IF library[c].initialized THEN {"SUCCESS"} ELSE {"NOT_INITIALIZED"}
  /\ library' = [library EXCEPT ![c].monitoring_enabled = on]
  /\ driver' = IF Claims(c, request, code)
               THEN [driver EXCEPT !.monitoring_enabled = on] ELSE driver
  /\ owner' = IF Claims(c, request, code)
              THEN [owner EXCEPT !["monitoring_enabled"] = c] ELSE owner
  /\ UNCHANGED <<supported, file, todo>>

\* filter_enable_monitoring and filter_disable_monitoring: the driver first.
SetMonitoring(c, on, code) ==
  LET request == IF on THEN "ENABLE_MONITORING" ELSE "DISABLE_MONITORING"
      told    == Claims(c, request, code)
  IN
  /\ AtCall(c)
  /\ code \in IF request \in supported THEN Codes(c, request)
              ELSE IF library[c].initialized THEN {"SUCCESS"} ELSE {"NOT_INITIALIZED"}
  /\ library' = IF code = "SUCCESS"
                THEN [library EXCEPT ![c].monitoring_enabled = on] ELSE library
  /\ driver' = IF told THEN [driver EXCEPT !.monitoring_enabled = on] ELSE driver
  /\ owner' = IF told THEN [owner EXCEPT !["monitoring_enabled"] = c]
              ELSE IF code = "SUCCESS" /\ owner["monitoring_enabled"] = c
              THEN [owner EXCEPT !["monitoring_enabled"] = NoClient] ELSE owner
  /\ UNCHANGED <<supported, file, todo>>

\* filter_get_default_action: what is remembered, or what the driver says.
GetDefaultAction(c) ==
  IF "GET_DEFAULT_ACTION" \in supported /\ library[c].initialized
  THEN {<<code, driver.default_action>> : code \in Served(c, "GET_DEFAULT_ACTION")}
  ELSE {<<"SUCCESS", library[c].default_action>>}

\* filter_monitoring_enabled and filter_get_interface: what is remembered.
MonitoringEnabled(c) == library[c].monitoring_enabled
GetInterface(c)      == library[c].interface

\* The decision without the kernel, when there is no request for it.
ProcessPacket(c) ==
  IF "PROCESS_PACKET" \in supported \/ ~ library[c].initialized
  THEN {<<code, "kernel">> : code \in Codes(c, "PROCESS_PACKET")}
  ELSE {<<"SUCCESS", library[c].default_action>>}

-----------------------------------------------------------------------------
(* Rule files.                                                             *)

\* fopen: nothing was read yet.
StartLoad(c, f, reload, before, code) ==
  \/ /\ f \notin DOMAIN file
     /\ code = "ERROR"
     /\ todo' = [todo EXCEPT ![c] = Idle]
  \/ /\ f \in DOMAIN file
     /\ code = "continue"
     /\ todo' = [todo EXCEPT ![c] =
          [op |-> "load", file |-> f, lines |-> <<>>, at |-> 1, loaded |-> 0,
           reload |-> reload, before |-> before, from |-> driver.rules]]

LoadRules(c, f, code) ==
  /\ AtCall(c)
  /\ \/ ~ library[c].initialized /\ code = "NOT_INITIALIZED" /\ UNCHANGED todo
     \/ library[c].initialized /\ StartLoad(c, f, FALSE, <<>>, code)
  /\ UNCHANGED <<supported, library, driver, file, owner>>

\* There is a line in the buffer that fgets has not returned yet.
Reading(c) == todo[c].op = "load" /\ todo[c].at <= Len(todo[c].lines)

\* ... and there is none, nor any more to read.
AtEnd(c) ==
  /\ todo[c].op = "load"
  /\ ~ Reading(c)
  /\ Len(todo[c].lines) >= Len(file[todo[c].file])

\* fgets fills the buffer again: some of the lines that follow in the file as
\* it is by now.
FillBuffer(c) ==
  /\ todo[c].op = "load"
  /\ ~ Reading(c)
  /\ LET read == Len(todo[c].lines)
         text == file[todo[c].file]
     IN  \E last \in read + 1 .. Len(text) :
           todo' = [todo EXCEPT ![c].lines = @ \o SubSeq(text, read + 1, last)]
  /\ UNCHANGED <<supported, library, driver, file, owner>>

\* Faulty: a rule the driver refused is counted.
LoadLineCounting(c) ==
  LET line == todo[c].lines[todo[c].at]
  IN
  /\ Reading(c)
  /\ \E code \in IF Loadable(line) THEN Codes(c, "ADD_RULE") ELSE {"skipped"} :
       /\ code = "SUCCESS" => Len(driver.rules) < MaxRules
       /\ SetRules(code, Append(driver.rules, RuleOf(line)))
       /\ todo' = [todo EXCEPT ![c].at = @ + 1,
                              ![c].loaded = @ + IF code # "skipped" THEN 1 ELSE 0]
  /\ UNCHANGED <<supported, library, file, owner>>

\* A line is skipped, or its rule is added with filter_add_rule, and counted
\* when the driver took it.
LoadLine(c) ==
  LET line == todo[c].lines[todo[c].at]
  IN
  /\ Reading(c)
  /\ \E code \in IF Loadable(line) THEN Codes(c, "ADD_RULE") ELSE {"skipped"} :
       /\ code = "SUCCESS" => Len(driver.rules) < MaxRules
       /\ SetRules(code, Append(driver.rules, RuleOf(line)))
       /\ todo' = [todo EXCEPT ![c].at = @ + 1,
                              ![c].loaded = @ + IF code = "SUCCESS" THEN 1 ELSE 0]
  /\ UNCHANGED <<supported, library, file, owner>>

\* The call returns how many rules it loaded, and the file is the one to
\* reload even if that was none.
EndLoad(c) ==
  /\ AtEnd(c)
  /\ library' = [library EXCEPT ![c].rule_file = todo[c].file]
  /\ todo' = [todo EXCEPT ![c] = Idle]
  /\ UNCHANGED <<supported, driver, file, owner>>

\* Faulty: the rules there are stay.
ReloadOnTop(c, code) ==
  \E cleared \in Codes(c, "CLEAR_RULES") :
    /\ AtCall(c)
    /\ code = IF cleared = "SUCCESS" THEN "continue" ELSE cleared
    /\ todo' = IF cleared = "SUCCESS"
               THEN [todo EXCEPT ![c] = [op |-> "reload", before |-> driver.rules]]
               ELSE todo
    /\ UNCHANGED <<supported, library, driver, file, owner>>

\* filter_reload_rules clears the driver's rules before it opens the file.
ReloadRules(c, code) ==
  \E cleared \in Codes(c, "CLEAR_RULES") :
    /\ AtCall(c)
    /\ code = IF cleared = "SUCCESS" THEN "continue" ELSE cleared
    /\ SetRules(cleared, <<>>)
    /\ todo' = IF cleared = "SUCCESS"
               THEN [todo EXCEPT ![c] = [op |-> "reload", before |-> driver.rules]]
               ELSE todo
    /\ UNCHANGED <<supported, library, file, owner>>

LoadAgain(c, code) ==
  /\ todo[c].op = "reload"
  /\ StartLoad(c, library[c].rule_file, TRUE, todo[c].before, code)
  /\ UNCHANGED <<supported, library, driver, file, owner>>

\* fopen for writing: the file is empty before the rules are asked for.
SaveRules(c, f, code) ==
  /\ AtCall(c)
  /\ \/ ~ library[c].initialized /\ code = "NOT_INITIALIZED" /\ UNCHANGED <<file, todo>>
     \/ library[c].initialized /\ code = "ERROR" /\ UNCHANGED <<file, todo>>
     \/ /\ library[c].initialized
        /\ code = "continue"
        /\ file' = [g \in DOMAIN file \cup {f} |-> IF g = f THEN <<>> ELSE file[g]]
        /\ todo' = [todo EXCEPT ![c] = [op |-> "save", file |-> f]]
  /\ UNCHANGED <<supported, library, driver, owner>>

SaveGet(c, code) ==
  /\ todo[c].op = "save"
  /\ \E answer \in GetRules(c, MaxRules) :
       \/ /\ answer[1] # "SUCCESS"
          /\ code = answer[1]
          /\ todo' = [todo EXCEPT ![c] = Idle]
       \/ /\ answer[1] = "SUCCESS"
          /\ code = "continue"
          /\ todo' = [todo EXCEPT ![c] =
               [op |-> "write", file |-> todo[c].file, rules |-> answer[2],
                at |-> 1, row |-> 1]]
  /\ UNCHANGED <<supported, library, driver, file, owner>>

\* What a save prints: a header and the rules.
Printed(save) == <<Comment>> \o Lines(save.rules)

\* A file after its n-th line was written.  If another process emptied the
\* file meanwhile, zeros fill it up to the line and spoil that; if one wrote
\* to it, the line goes over what is there and may cut the next one.
Written(text, n, line) ==
  {[i \in DOMAIN text \cup 1 .. n |->
      IF i = n /\ n <= Len(text) + 1 THEN line
      ELSE IF i \in DOMAIN text \ ({n} \cup cut) THEN text[i] ELSE Fragment] :
     cut \in {{}, {n + 1}}}

Saving(c) == todo[c].op = "write" /\ todo[c].at <= Len(Printed(todo[c]))

\* What was printed goes to the file when the buffer is full and at fclose.
\* A line is written or lost: the results of fprintf and fclose are not looked
\* at.  One that is cut, or runs into one that was, is no rule and counts as
\* lost.
SaveLine(c) ==
  LET save == todo[c]
      line == Printed(save)[save.at]
  IN
  /\ Saving(c)
  /\ \/ /\ \E text \in Written(file[save.file], save.row, line) :
             file' = [file EXCEPT ![save.file] = text]
        /\ todo' = [todo EXCEPT ![c].at = @ + 1, ![c].row = @ + 1]
     \/ /\ file' = file
        /\ todo' = [todo EXCEPT ![c].at = @ + 1]
  /\ UNCHANGED <<supported, library, driver, owner>>

\* The call returns FILTER_SUCCESS, whatever is in the file.
EndSave(c) ==
  /\ todo[c].op = "write"
  /\ ~ Saving(c)
  /\ todo' = [todo EXCEPT ![c] = Idle]
  /\ UNCHANGED <<supported, library, driver, file, owner>>

-----------------------------------------------------------------------------
(* Processes and the module.                                               *)

\* The process ends, wherever it is, and with it its descriptor and its
\* variables; what it buffered is lost.
Die(c) ==
  /\ library' = [library EXCEPT ![c] = Fresh]
  /\ todo' = [todo EXCEPT ![c] = Idle]
  /\ owner' = [s \in Settings |-> IF owner[s] = c THEN NoClient ELSE owner[s]]
  /\ UNCHANGED <<supported, driver, file>>

\* The driver's module is loaded anew, while nobody has the device open.
Restart ==
  /\ \A c \in Clients : ~ library[c].open
  /\ driver' = LoadedDriver
  /\ owner' = Unowned
  /\ UNCHANGED <<supported, library, file, todo>>

\* Whose load or save goes on although another changed the rules or the file
\* it works with.
Meets(c) ==
  \/ todo[c].op \in {"reload", "load"} /\ driver'.rules # driver.rules
  \/ todo[c].op \in {"save", "write"} /\ file'[todo[c].file] # file[todo[c].file]

Disturb(actors) ==
  disturbed' = {c \in Clients : /\ todo'[c] # Idle
                                /\ c \in disturbed \/ (c \notin actors /\ Meets(c))}

Call(c, code) ==
  \/ \E interface \in Interfaces, f \in Files : InitWithConfig(c, interface, f, code)
  \/ InitLibrary(c, code)
  \/ Open(c, code)
  \/ \E rule \in Rules : AddRule(c, rule, code) \/ UpdateRule(c, rule, code)
  \/ \E id \in RuleIds : RemoveRule(c, id, code) \/ EnableRule(c, id, code)
                          \/ DisableRule(c, id, code)
  \/ ClearRules(c, code)
  \/ \E action \in Actions : SetDefaultAction(c, action, code)
  \/ \E interface \in Interfaces : SetInterface(c, interface, code)
  \/ \E on \in BOOLEAN : SetMonitoring(c, on, code)
  \/ \E f \in Files : LoadRules(c, f, code) \/ SaveRules(c, f, code)
  \/ ReloadRules(c, code)

\* A call under way goes on.
Continue(c, code) == LoadAgain(c, code) \/ SaveGet(c, code)

Proceed(c) ==
  FillBuffer(c) \/ LoadLine(c) \/ EndLoad(c) \/ SaveLine(c) \/ EndSave(c)

Codings == {"SUCCESS", "ERROR", "INVALID_ARGUMENT", "DEVICE_ERROR", "IOCTL_ERROR",
            "NOT_INITIALIZED", "continue"}

Next ==
  \/ \E c \in Clients :
       /\ \/ \E code \in Codings : Call(c, code) \/ Continue(c, code)
          \/ Cleanup(c)
          \/ Close(c)
          \/ Proceed(c)
          \/ Die(c)
       /\ Disturb({c})
  \/ Restart /\ Disturb({})

Spec == Init /\ [][Next]_vars

-----------------------------------------------------------------------------
(* Properties.                                                             *)

InterfaceNames == Interfaces \cup {"eth0"}

\* What a process may have left of a load or save.
Todo ==
  {Idle}
  \cup [op : {"reload"}, before : Seq(GoodRule)]
  \cup [op : {"load"}, file : Files, lines : Seq(FileLine), at : Nat \ {0}, loaded : Nat,
        reload : BOOLEAN, before : Seq(GoodRule), from : Seq(GoodRule)]
  \cup [op : {"save"}, file : Files]
  \cup [op : {"write"}, file : Files, rules : Seq(GoodRule), at : Nat \ {0},
        row : Nat \ {0}]

\* Every variable has its type: the driver's rules are ones check_rule takes
\* and no more than it has room for.  Only an initialised process has a load
\* or a save under way, and the file it works with exists.
TypeOK ==
  /\ supported \in Builds
  /\ library \in [Clients -> [open : BOOLEAN, initialized : BOOLEAN,
                              default_action : RuleActions, interface : InterfaceNames,
                              monitoring_enabled : BOOLEAN, rule_file : Files]]
  /\ driver \in [rules : Seq(GoodRule), default_action : RuleActions,
                 interface : InterfaceNames, monitoring_enabled : BOOLEAN]
  /\ Len(driver.rules) <= MaxRules
  /\ file \in [DOMAIN file -> Seq(FileLine)] /\ DOMAIN file \subseteq Files
  /\ todo \in [Clients -> Todo]
  /\ \A c \in Clients :
       /\ todo[c] # Idle => library[c].initialized
       /\ todo[c].op \in {"load", "save", "write"} => todo[c].file \in DOMAIN file
  /\ owner \in [Settings -> Clients \cup {NoClient}]
  /\ disturbed \subseteq {c \in Clients : todo[c] # Idle}

\* "part" is "whole" with some of its elements left out.
Selected(part, whole) ==
  \E at \in [DOMAIN part -> DOMAIN whole] :
    /\ \A i \in DOMAIN part : part[i] = whole[at[i]]
    /\ \A i, j \in DOMAIN part : i < j => at[i] < at[j]

\* What the driver's rules are in the course of a load: those it had, none
\* after a reload cleared them, and then as many as were counted, of the
\* lines read so far and in their order.
ExactLoad(load, rules) ==
  LET added == SubSeq(rules, Len(load.from) + 1, Len(rules))
  IN  /\ load.reload => load.from = <<>>
      /\ IsPrefix(load.from, rules)
      /\ Len(added) = load.loaded
      /\ Selected(added, RulesOf(SubSeq(load.lines, 1, load.at - 1)))

\* While a load that nobody meddles with goes on, the driver has the rules it
\* should have by then, whatever was refused or skipped.
LoadIsExact ==
  \A c \in Clients : todo[c].op = "load" /\ c \notin disturbed =>
    ExactLoad(todo[c], driver.rules)

\* The addresses a rule is for.
Covers(ip, prefix) == {a \in Address : Masked(a, prefix) = Masked(ip, prefix)}

\* An address by itself, or none at all.
InHostForm(ip, prefix) == prefix = IF ip = 0 THEN 0 ELSE AddressBits

Kept(saved, loaded) ==
  /\ loaded.action = saved.action /\ loaded.protocol = saved.protocol
  /\ loaded.src_port = saved.src_port /\ loaded.dst_port = saved.dst_port
  /\ InHostForm(saved.src_ip, saved.src_prefix) =>
       Covers(loaded.src_ip, loaded.src_prefix) = Covers(saved.src_ip, saved.src_prefix)
  /\ InHostForm(saved.dst_ip, saved.dst_prefix) =>
       Covers(loaded.dst_ip, loaded.dst_prefix) = Covers(saved.dst_ip, saved.dst_prefix)

\* The step by which a process gets out of a call without dying.
Leaves(c) == todo[c] # Idle /\ todo'[c] = Idle /\ library'[c].initialized

\* A save that returns FILTER_SUCCESS leaves a file that loads again, though
\* it was written piece by piece, unless somebody else wrote to the file
\* meanwhile or a line was lost, which the save does not notice: as many rules
\* in the same order, with the same action, protocol and ports, for the same
\* packets if they name hosts, not networks.
SaveCanBeLoaded ==
  [][\A c \in Clients : todo[c].op = "write" /\ Leaves(c)
                        /\ c \notin disturbed /\ todo[c].row = todo[c].at =>
       LET loaded == RulesOf(file'[todo[c].file])
       IN  /\ Len(loaded) = Len(todo[c].rules)
           /\ \A i \in DOMAIN loaded : Kept(todo[c].rules[i], loaded[i])]_vars

\* The process whose request last changed a setting of the driver remembers
\* what the driver has, through failures, a closed device and a second
\* initialisation, until one of its own later calls fails to get through.
SettingsAgree ==
  \A s \in Settings : owner[s] # NoClient => library[owner[s]][s] = driver[s]

-----------------------------------------------------------------------------
(* What the documentation says and the library does not do.                *)

\* "A failed configuration should not leave the driver in a partially updated
\* state" (docs/userspace.md:1065): after a reload that nobody meddled with
\* the driver has the rules it had before, or all rules of the file.
ReloadIsAllOrNothing ==
  [][\A c \in Clients : todo[c].op \in {"reload", "load"} /\ Leaves(c) /\ c \notin disturbed =>
       \/ todo[c].op = "load" /\ (~ todo[c].reload \/ driver'.rules = RulesOf(todo[c].lines))
       \/ driver'.rules = todo[c].before]_vars
=============================================================================
