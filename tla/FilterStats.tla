----------------------------- MODULE FilterStats -----------------------------
(***************************************************************************)
(* The statistics tool (userspace/tools/filter_stats.c): a process that    *)
(* shows or resets the driver's counters once, or monitors them until a    *)
(* signal comes, printing what was processed since the sample before.      *)
(* Meanwhile the driver processes packets and other processes reset its    *)
(* counters; a read may be refused, and the clock may fail.                *)
(*                                                                         *)
(* Of the counters one is kept, packets_processed; bytes_processed is      *)
(* sampled and subtracted with it, and the others are only printed.        *)
(***************************************************************************)
EXTENDS Integers

CONSTANT CounterSpace  \* number of values of a counter: 2^64

ASSUME SpaceAssumption == CounterSpace \in Nat \ {0}

VARIABLES
  stage,            \* where the process is
  status,           \* what main will return
  stop_monitoring,  \* set by the signal handler
  processed,        \* packets_processed of the driver
  previous,         \* the sample the interval started from
  current,          \* what the last read left in the buffer
  packets,          \* the difference that was printed last
  since,            \* history: what happened since the last read that was served
  interval          \* history: what happened between the last two of them

tool    == <<stage, status>>
samples == <<previous, current, packets>>
history == <<since, interval>>
vars    == <<tool, stop_monitoring, processed, samples, history>>

Values == 0 .. CounterSpace - 1

Quiet == [traffic |-> 0, cleared |-> FALSE]

Init ==
  /\ stage = "main" /\ status = 0
  /\ stop_monitoring = FALSE
  /\ processed = 0
  /\ previous = 0 /\ current = 0 /\ packets = 0
  /\ since = Quiet /\ interval = Quiet

Goto(label) == stage' = label /\ UNCHANGED status

Finish(code) == stage' = "cleanup" /\ status' = code

-----------------------------------------------------------------------------
(* main and the commands that ask once.                                    *)

\* "help", a wrong interval and a library that cannot be initialised end the
\* process at once, an unknown command after the initialisation.
Main ==
  /\ stage = "main"
  /\ \/ \E code \in {0, 1} : stage' = "exited" /\ status' = code
     \/ Finish(1)
     \/ \E command \in {"show", "reset", "install"} : Goto(command)
  /\ UNCHANGED <<stop_monitoring, processed, samples, history>>

\* The read is served or refused; that of the rules' counters, which is next,
\* may be refused without a consequence.
CommandShow ==
  /\ stage = "show"
  /\ \E code \in {0, 1} : Finish(code)
  /\ UNCHANGED <<stop_monitoring, processed, samples, history>>

CommandReset ==
  /\ stage = "reset"
  /\ \/ Finish(1) /\ UNCHANGED <<processed, since>>
     \/ Finish(0) /\ processed' = 0 /\ since' = [since EXCEPT !.cleared = TRUE]
  /\ UNCHANGED <<stop_monitoring, samples, interval>>

\* filter_cleanup and the return from main.
Cleanup ==
  /\ stage = "cleanup"
  /\ Goto("exited")
  /\ UNCHANGED <<stop_monitoring, processed, samples, history>>

-----------------------------------------------------------------------------
(* command_monitor.                                                        *)

\* Its buffers are cleared and the handlers installed.
Install ==
  /\ stage = "install"
  /\ previous' = 0 /\ current' = 0
  /\ Goto("sample")
  /\ UNCHANGED <<stop_monitoring, processed, packets, history>>

\* The sample the first interval starts from.
Sample ==
  /\ stage = "sample"
  /\ \/ Finish(1) /\ UNCHANGED <<previous, since>>
     \/ Goto("while") /\ previous' = processed /\ since' = Quiet
  /\ UNCHANGED <<stop_monitoring, processed, current, packets, interval>>

While ==
  /\ stage = "while"
  /\ IF stop_monitoring THEN Finish(0) ELSE Goto("sleep")
  /\ UNCHANGED <<stop_monitoring, processed, samples, history>>

\* Faulty: a signal that only wakes the process.
SleepOnly ==
  /\ stage = "sleep"
  /\ Finish(0) \/ Goto("read")
  /\ stop_monitoring' = FALSE
  /\ UNCHANGED <<processed, samples, history>>

\* sleep, which a signal cuts short, and the first clock_gettime, which may
\* fail.
Sleep ==
  /\ stage = "sleep"
  /\ Finish(0) \/ (~ stop_monitoring /\ Goto("read"))
  /\ UNCHANGED <<stop_monitoring, processed, samples, history>>

\* A read that is served, and the second clock_gettime, which may fail.
Serve ==
  /\ current' = processed
  /\ since' = Quiet /\ interval' = since
  /\ Goto("print") \/ Finish(0)

\* Faulty: a refused read is printed like any other.
ReadWithoutContinue ==
  /\ stage = "read"
  /\ \/ Serve
     \/ current' = 0 /\ Goto("print") /\ UNCHANGED history
  /\ UNCHANGED <<stop_monitoring, processed, previous, packets>>

\* filter_get_statistics clears the buffer before it asks the driver; if it
\* is refused the loop continues.
Read ==
  /\ stage = "read"
  /\ \/ Serve
     \/ current' = 0 /\ Goto("while") /\ UNCHANGED history
  /\ UNCHANGED <<stop_monitoring, processed, previous, packets>>

\* Faulty: the difference is printed as a signed number.
PrintSigned ==
  /\ stage = "print"
  /\ packets' = current - previous
  /\ previous' = current
  /\ Goto("while")
  /\ UNCHANGED <<stop_monitoring, processed, current, history>>

\* print_delta: a difference of unsigned counters, between samples of which
\* the new one becomes the old one.
PrintDelta ==
  /\ stage = "print"
  /\ packets' = (current - previous) % CounterSpace
  /\ previous' = current
  /\ Goto("while")
  /\ UNCHANGED <<stop_monitoring, processed, current, history>>

-----------------------------------------------------------------------------
(* What happens to the process.                                            *)

\* SIGINT or SIGTERM ends a process that has not installed the handler;
\* "cleanup" is reached with it and without.
Signal ==
  /\ \/ /\ stage \in {"main", "show", "reset", "install", "cleanup"}
        /\ Goto("exited")
        /\ UNCHANGED stop_monitoring
     \/ /\ stage \in {"sample", "while", "sleep", "read", "print", "cleanup"}
        /\ stop_monitoring' = TRUE
        /\ UNCHANGED tool
  /\ UNCHANGED <<processed, samples, history>>

\* The next process; nothing is left of the one before.
Start ==
  /\ stage = "exited"
  /\ stage' = "main" /\ status' = 0
  /\ stop_monitoring' = FALSE
  /\ previous' = 0 /\ current' = 0 /\ packets' = 0
  /\ since' = Quiet /\ interval' = Quiet
  /\ UNCHANGED processed

\* The driver processes a packet; between two samples fewer than a counter
\* has values.
Process ==
  /\ since.traffic < CounterSpace - 1
  /\ processed' = (processed + 1) % CounterSpace
  /\ since' = [since EXCEPT !.traffic = @ + 1]
  /\ UNCHANGED <<tool, stop_monitoring, samples, interval>>

\* Another process resets the driver's counters.
Clear ==
  /\ processed' = 0
  /\ since' = [since EXCEPT !.cleared = TRUE]
  /\ UNCHANGED <<tool, stop_monitoring, samples, interval>>

Monitor == Install \/ Sample \/ While \/ Sleep \/ Read \/ PrintDelta

Step == Main \/ CommandShow \/ CommandReset \/ Cleanup \/ Monitor

Next == Step \/ Signal \/ Start \/ Process \/ Clear

\* A process is scheduled, and sleep and the driver's answers come back.
Spec == Init /\ [][Next]_vars /\ WF_vars(Step)

-----------------------------------------------------------------------------
(* Properties.                                                             *)

History == [traffic : Values, cleared : BOOLEAN]

\* Every variable has its type: a difference that is printed fits a counter.
TypeOK ==
  /\ stage \in {"main", "show", "reset", "install", "sample", "while", "sleep", "read",
                "print", "cleanup", "exited"}
  /\ status \in {0, 1}
  /\ stop_monitoring \in BOOLEAN
  /\ {processed, previous, current, packets} \subseteq Values
  /\ {since, interval} \subseteq History

\* The difference that is printed is the traffic between the two reads that
\* were served last, across refused reads and a counter that wrapped, unless
\* the counters were reset between them.
DeltaIsTraffic ==
  [][stage = "print" /\ stage' = "while" /\ ~ interval.cleared => packets' = interval.traffic]_vars

\* A signal that came while it was handled ends the monitoring, even if the
\* driver refuses every read from then on.
StopEnds == stop_monitoring ~> stage = "exited"
=============================================================================
