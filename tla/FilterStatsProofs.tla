-------------------------- MODULE FilterStatsProofs --------------------------
(***************************************************************************)
(* Theorems about FilterStats, for every width of the counters.            *)
(***************************************************************************)
EXTENDS FilterStats, TLAPS

\* A sample and a later one, the counter having moved by what was recorded
\* between them and wrapped at most once.
Tied(old, new, moved) ==
  ~ moved.cleared =>
    \/ new = old + moved.traffic
    \/ new + CounterSpace = old + moved.traffic

\* Where the loop is between two samples, what it remembers is tied to the
\* driver's counter, and what it is about to print to the traffic.
SamplesTied ==
  /\ stage \in {"while", "sleep", "read"} => Tied(previous, processed, since)
  /\ stage = "print" => /\ Tied(current, processed, since)
                        /\ Tied(previous, current, interval)

StatsInv == TypeOK /\ SamplesTied

-----------------------------------------------------------------------------
(* Counters that wrap.                                                     *)

\* One more on a counter.
LEMMA WrappedSuccessor ==
  ASSUME NEW x \in Values
  PROVE  /\ (x + 1) % CounterSpace \in Values
         /\ (x + 1) % CounterSpace = IF x + 1 = CounterSpace THEN 0 ELSE x + 1
<1>1. x \in Int /\ CounterSpace \in Int /\ 0 <= x /\ x < CounterSpace
  BY SpaceAssumption DEF Values
<1>2. CASE x + 1 = CounterSpace
  BY <1>1, <1>2 DEF Values
<1>3. CASE x + 1 < CounterSpace
  BY <1>1, <1>3 DEF Values
<1>4. QED
  BY <1>1, <1>2, <1>3

\* The unsigned difference of two values of a counter.
LEMMA WrappedDifference ==
  ASSUME NEW x \in Values, NEW y \in Values
  PROVE  /\ (x - y) % CounterSpace \in Values
         /\ (x - y) % CounterSpace = IF y <= x THEN x - y ELSE x - y + CounterSpace
<1>1. /\ x \in Int /\ y \in Int /\ CounterSpace \in Int
      /\ 0 <= x /\ x < CounterSpace /\ 0 <= y /\ y < CounterSpace
  BY SpaceAssumption DEF Values
<1>2. CASE y <= x
  BY <1>1, <1>2 DEF Values
<1>3. CASE x < y
  BY <1>1, <1>3 DEF Values
<1>4. QED
  BY <1>1, <1>2, <1>3

-----------------------------------------------------------------------------
(* The invariant.                                                          *)

\* What the values of the counters and of the histories are.
LEMMA ValueTypes ==
  ASSUME TypeOK
  PROVE  /\ CounterSpace \in Nat /\ CounterSpace > 0
         /\ Values \subseteq Nat /\ \A x \in Values : x < CounterSpace
         /\ 0 \in Values
         /\ processed \in Values /\ previous \in Values /\ current \in Values
         /\ packets \in Values
         /\ since \in History /\ interval \in History
         /\ Quiet \in History /\ Quiet.traffic = 0
BY SpaceAssumption DEF TypeOK, Values, History, Quiet

\* A process starts without a sample.
LEMMA InitStats == Init => StatsInv
<1> SUFFICES ASSUME Init PROVE StatsInv
  OBVIOUS
<1>1. 0 \in Values /\ Quiet \in History
  BY SpaceAssumption DEF Values, History, Quiet
<1>2. QED
  BY <1>1 DEF Init, StatsInv, TypeOK, SamplesTied

\* The steps of main, of the commands that ask once, and of the process
\* that leave the samples alone while nothing is monitored.
LEMMA OutsideStep ==
  StatsInv /\ (Main \/ CommandShow \/ CommandReset \/ Cleanup \/ Install \/ Start)
    => StatsInv'
<1> SUFFICES ASSUME StatsInv,
                    Main \/ CommandShow \/ CommandReset \/ Cleanup \/ Install \/ Start
             PROVE  StatsInv'
  OBVIOUS
<1>0. TypeOK
  BY DEF StatsInv
<1>1. /\ 0 \in Values /\ Quiet \in History
      /\ [since EXCEPT !.cleared = TRUE] \in History
  BY <1>0, ValueTypes DEF History
<1>2. stage' \in {"show", "reset", "install", "cleanup", "exited", "main", "sample"}
  BY DEF Main, CommandShow, CommandReset, Cleanup, Install, Start, Goto, Finish
<1>3. SamplesTied'
  BY <1>2 DEF SamplesTied
<1>4. TypeOK'
  BY <1>0, <1>1
  DEF TypeOK, Main, CommandShow, CommandReset, Cleanup, Install, Start, Goto, Finish,
      samples, history
<1>5. QED
  BY <1>3, <1>4 DEF StatsInv

\* The first sample is what the driver has; nothing happened since.
LEMMA SampleStep == StatsInv /\ Sample => StatsInv'
<1> SUFFICES ASSUME StatsInv, Sample PROVE StatsInv'
  OBVIOUS
<1>0. TypeOK
  BY DEF StatsInv
<1>1. TypeOK'
  BY <1>0, ValueTypes DEF TypeOK, Sample, Goto, Finish
<1>2. SamplesTied'
  BY <1>0, ValueTypes DEF SamplesTied, Tied, Sample, Goto, Finish
<1>3. QED
  BY <1>1, <1>2 DEF StatsInv

\* The loop's test, sleep and a signal change no sample.
LEMMA WaitStep == StatsInv /\ (While \/ Sleep \/ Signal) => StatsInv'
<1> SUFFICES ASSUME StatsInv, While \/ Sleep \/ Signal PROVE StatsInv'
  OBVIOUS
<1>1. TypeOK'
  BY DEF StatsInv, TypeOK, While, Sleep, Signal, Goto, Finish, samples, history, tool
<1>2. SamplesTied'
  BY DEF StatsInv, TypeOK, SamplesTied, Tied, While, Sleep, Signal, Goto, Finish, samples,
         history, tool
<1>3. QED
  BY <1>1, <1>2 DEF StatsInv

\* A read that is served ends an interval and begins the next one; a refused
\* one does neither.
LEMMA ReadStep == StatsInv /\ Read => StatsInv'
<1> SUFFICES ASSUME StatsInv, Read PROVE StatsInv'
  OBVIOUS
<1>0. TypeOK
  BY DEF StatsInv
<1>1. Tied(previous, processed, since)
  BY DEF StatsInv, SamplesTied, Read
<1>2. TypeOK'
  BY <1>0, ValueTypes DEF TypeOK, Read, Serve, Goto, Finish, history
<1>3. SamplesTied'
  BY <1>0, <1>1, ValueTypes DEF SamplesTied, Tied, Read, Serve, Goto, Finish, history
<1>4. QED
  BY <1>2, <1>3 DEF StatsInv

\* The difference of two samples tied by an interval is its traffic.
LEMMA PrintedDifference ==
  ASSUME NEW old \in Values, NEW new \in Values, NEW moved \in History,
         Tied(old, new, moved), ~ moved.cleared
  PROVE  (new - old) % CounterSpace = moved.traffic
<1>1. moved.traffic \in Values
  BY DEF History
<1>2. /\ old \in Int /\ new \in Int /\ moved.traffic \in Int /\ CounterSpace \in Int
      /\ 0 <= moved.traffic /\ moved.traffic < CounterSpace
  BY <1>1, SpaceAssumption DEF Values
<1>3. (new - old) % CounterSpace = IF old <= new THEN new - old ELSE new - old + CounterSpace
  BY WrappedDifference
<1>4. QED
  BY <1>2, <1>3 DEF Tied, Values

\* The sample that was printed is the one the next interval starts from.
LEMMA PrintStep == StatsInv /\ PrintDelta => StatsInv'
<1> SUFFICES ASSUME StatsInv, PrintDelta PROVE StatsInv'
  OBVIOUS
<1>0. TypeOK
  BY DEF StatsInv
<1>1. packets' \in Values
  BY <1>0, ValueTypes, WrappedDifference DEF PrintDelta
<1>2. TypeOK'
  BY <1>0, <1>1, ValueTypes DEF TypeOK, PrintDelta, Goto, history
<1>3. SamplesTied'
  BY DEF StatsInv, SamplesTied, Tied, PrintDelta, Goto, history
<1>4. QED
  BY <1>2, <1>3 DEF StatsInv

\* A packet moves the driver's counter and the traffic alike.
LEMMA ProcessStep == StatsInv /\ Process => StatsInv'
<1> SUFFICES ASSUME StatsInv, Process PROVE StatsInv'
  OBVIOUS
<1>0. TypeOK
  BY DEF StatsInv
<1>1. /\ processed' \in Values
      /\ processed' = IF processed + 1 = CounterSpace THEN 0 ELSE processed + 1
  BY <1>0, ValueTypes, WrappedSuccessor DEF Process
<1>2. /\ since' \in History
      /\ since'.traffic = since.traffic + 1 /\ since'.cleared = since.cleared
  BY <1>0, ValueTypes DEF Process, History, Values
<1>3. TypeOK'
  BY <1>0, <1>1, <1>2, ValueTypes DEF TypeOK, Process, tool, samples
<1>4. ASSUME NEW old \in Values, Tied(old, processed, since)
      PROVE  Tied(old, processed', since')
  <2>1. /\ old \in Int /\ processed \in Int /\ CounterSpace \in Int
        /\ 0 <= old /\ old < CounterSpace /\ 0 <= processed /\ processed < CounterSpace
        /\ since.traffic \in Int /\ since.traffic < CounterSpace - 1
    BY <1>0, ValueTypes DEF Process, History, Values
  <2>2. QED
    BY <1>1, <1>2, <1>4, <2>1 DEF Tied
<1>5. SamplesTied'
  <2>1. stage' = stage /\ previous' = previous /\ current' = current /\ interval' = interval
    BY DEF Process, tool, samples
  <2>2. Tied(previous, current, interval) => Tied(previous, current, interval)'
    BY <2>1 DEF Tied
  <2>3. QED
    BY <1>0, <1>4, <2>1, <2>2, ValueTypes DEF StatsInv, SamplesTied, Tied
<1>6. QED
  BY <1>3, <1>5 DEF StatsInv

\* A reset by another process unties what it met.
LEMMA ClearStep == StatsInv /\ Clear => StatsInv'
<1> SUFFICES ASSUME StatsInv, Clear PROVE StatsInv'
  OBVIOUS
<1>0. TypeOK
  BY DEF StatsInv
<1>1. since' \in History /\ since'.cleared
  BY <1>0, ValueTypes DEF Clear, History
<1>2. TypeOK'
  BY <1>0, <1>1, ValueTypes DEF TypeOK, Clear, tool, samples
<1>3. SamplesTied'
  BY <1>1 DEF StatsInv, SamplesTied, Tied, Clear, tool, samples
<1>4. QED
  BY <1>2, <1>3 DEF StatsInv

\* The invariant holds in every state.
LEMMA StatsInvHolds == Spec => []StatsInv
<1>1. StatsInv /\ UNCHANGED vars => StatsInv'
  BY DEF StatsInv, TypeOK, SamplesTied, Tied, vars, tool, samples, history
<1>2. StatsInv /\ [Next]_vars => StatsInv'
  BY <1>1, OutsideStep, SampleStep, WaitStep, ReadStep, PrintStep, ProcessStep, ClearStep
  DEF Next, Step, Monitor
<1>3. QED
  BY InitStats, <1>2, PTL DEF Spec

-----------------------------------------------------------------------------
(* The properties.                                                         *)

\* Every variable has its type: what is printed fits a counter.
THEOREM StatsTypesHold == Spec => []TypeOK
<1>1. StatsInv => TypeOK
  BY DEF StatsInv
<1>2. QED
  BY <1>1, StatsInvHolds, PTL

\* The printed difference is the traffic between the last two reads that
\* were served, across refused reads and a counter that wrapped.
THEOREM DeltaHolds == Spec => DeltaIsTraffic
<1> DEFINE Printed == stage = "print" /\ stage' = "while" /\ ~ interval.cleared
                        => packets' = interval.traffic
<1>1. ASSUME StatsInv, Next PROVE Printed
  <2> SUFFICES ASSUME stage = "print", stage' = "while", ~ interval.cleared
               PROVE  packets' = interval.traffic
    OBVIOUS
  <2>0. TypeOK /\ Tied(previous, current, interval)
    BY <1>1 DEF StatsInv, SamplesTied
  <2>1. PrintDelta
    BY <1>1
    DEF Next, Step, Monitor, Main, CommandShow, CommandReset, Cleanup, Install, Sample, While,
        Sleep, Read, Signal, Start, Process, Clear, Goto, Finish, tool
  <2>2. packets' = (current - previous) % CounterSpace
    BY <2>1 DEF PrintDelta
  <2>3. QED
    BY <2>0, <2>2, ValueTypes, PrintedDifference
<1>2. StatsInv /\ [Next]_vars => [Printed]_vars
  BY <1>1
<1>3. QED
  BY <1>2, StatsInvHolds, PTL DEF Spec, DeltaIsTraffic

=============================================================================
