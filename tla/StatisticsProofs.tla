--------------------------- MODULE StatisticsProofs ---------------------------
(***************************************************************************)
(* Theorems about Statistics: what its runs check on a few threads holds   *)
(* for any finite number of them, any set of calls and any counters.       *)
(*                                                                         *)
(* A thread is somewhere in a program, the body of its call: an invariant  *)
(* names the program, how far the thread is in it, and where the lock is   *)
(* taken and given back.                                                   *)
(***************************************************************************)
EXTENDS Statistics, ListLemmas

Accesses == [op : Ops, on : Watched \cup {"none"}, n : Nat]

Directions == {"rx_packets", "tx_packets"}

\* What the drift is about: packets in both directions and their total.
Packets == Directions \cup {"total_packets"}

-----------------------------------------------------------------------------
(* Counters.                                                               *)

\* No counter has the name that stands for none.
LEMMA CountersAreNamed == "none" \notin Counter
<1>1. /\ "none" \notin Range(PacketCounters)
      /\ "none" \notin Range(DecisionCounters)
      /\ "none" \notin Range(ProtocolCounters)
      /\ "none" \notin Range(ParserCounters)
      /\ "none" \notin Range(RuleCounters)
      /\ "none" \notin Range(ErrorCounters)
  BY DEF Range, PacketCounters, DecisionCounters, ProtocolCounters, ParserCounters,
         RuleCounters, ErrorCounters
<1>2. QED
  BY <1>1 DEF Counter

\* The groups are lists of counters, and only two of them have locked ones.
LEMMA GroupsAreCounters ==
  /\ \A g \in {PacketCounters, DecisionCounters, ProtocolCounters, ParserCounters,
               RuleCounters, ErrorCounters} : g \in Seq(Counter)
  /\ SnapshotOrder \in Seq(Counter)
  /\ 1 \in 1 .. Len(SnapshotOrder) /\ SnapshotOrder[1] = "rx_packets"
  /\ \A g \in {DecisionCounters, ProtocolCounters, ParserCounters, ErrorCounters} :
       Range(g) \cap LockedCounters = {}
<1>1. /\ PacketCounters \in Seq(Range(PacketCounters))
      /\ DecisionCounters \in Seq(Range(DecisionCounters))
      /\ ProtocolCounters \in Seq(Range(ProtocolCounters))
      /\ ParserCounters \in Seq(Range(ParserCounters))
      /\ RuleCounters \in Seq(Range(RuleCounters))
      /\ ErrorCounters \in Seq(Range(ErrorCounters))
  BY DEF Range, PacketCounters, DecisionCounters, ProtocolCounters, ParserCounters,
         RuleCounters, ErrorCounters
<1>2. \A g \in {PacketCounters, DecisionCounters, ProtocolCounters, ParserCounters,
               RuleCounters, ErrorCounters} : Range(g) \subseteq Counter
  BY DEF Counter
<1>3. /\ Range(PacketCounters) = {"rx_packets", "rx_bytes", "tx_packets", "tx_bytes",
                                  "total_packets", "total_bytes"}
      /\ Range(DecisionCounters) = {"rx_allowed", "rx_dropped", "rx_monitored",
                                    "tx_allowed", "tx_dropped", "tx_monitored"}
      /\ Range(ProtocolCounters) = {"tcp_packets", "udp_packets", "icmp_packets",
                                    "other_packets"}
      /\ Range(ParserCounters) = {"parsed_packets", "parse_errors", "malformed_packets"}
      /\ Range(RuleCounters) = {"whitelist_matches", "blacklist_matches",
                                "monitor_matches", "rule_misses"}
      /\ Range(ErrorCounters) = {"memory_errors", "invalid_rule_errors", "ioctl_errors",
                                 "internal_errors"}
  BY DEF Range, PacketCounters, DecisionCounters, ProtocolCounters, ParserCounters,
         RuleCounters, ErrorCounters
<1>4. \A S, T : \A s \in Seq(S) : S \subseteq T => s \in Seq(T)
  OBVIOUS
<1>5. \A g \in {PacketCounters, DecisionCounters, ProtocolCounters, ParserCounters,
               RuleCounters, ErrorCounters} : g \in Seq(Counter)
  BY <1>1, <1>2, <1>4
<1>6. /\ SnapshotOrder \in Seq(Counter)
      /\ 1 \in 1 .. Len(SnapshotOrder) /\ SnapshotOrder[1] = "rx_packets"
  <2> DEFINE front == <<"rx_packets", "rx_bytes", "rx_allowed", "rx_dropped",
                        "rx_monitored", "tx_packets", "tx_bytes", "tx_allowed",
                        "tx_dropped", "tx_monitored">>
             end   == <<"total_packets", "total_bytes">>
             one   == front \o ProtocolCounters
             two   == one \o ParserCounters
             three == two \o RuleCounters
             four  == three \o ErrorCounters
             Starts(s) == s \in Seq(Counter) /\ Len(s) >= 1 /\ s[1] = "rx_packets"
  <2>1. Starts(front)
    <3>1. {"rx_packets", "rx_bytes", "rx_allowed", "rx_dropped", "rx_monitored",
           "tx_packets", "tx_bytes", "tx_allowed", "tx_dropped", "tx_monitored"} \subseteq Counter
      BY <1>2, <1>3
    <3>2. QED
      BY <3>1
  <2>2. end \in Seq(Counter)
    BY <1>2, <1>3
  <2>3. SnapshotOrder = four \o end
    BY DEF SnapshotOrder
  <2> HIDE DEF front, end
  <2>4. \A s, u \in Seq(Counter) : Starts(s) => Starts(s \o u)
    OBVIOUS
  <2>5. Starts(one)
    BY <1>5, <2>1, <2>4
  <2> HIDE DEF one
  <2>6. Starts(two)
    BY <1>5, <2>4, <2>5
  <2> HIDE DEF two
  <2>7. Starts(three)
    BY <1>5, <2>4, <2>6
  <2> HIDE DEF three
  <2>8. Starts(four)
    BY <1>5, <2>4, <2>7
  <2> HIDE DEF four
  <2>9. Starts(four \o end)
    BY <2>2, <2>4, <2>8
  <2>10. QED
    BY <2>3, <2>9
<1>7. \A g \in {DecisionCounters, ProtocolCounters, ParserCounters, ErrorCounters} :
        Range(g) \cap LockedCounters = {}
  BY <1>3 DEF LockedCounters
<1>8. QED
  BY <1>5, <1>6, <1>7

\* A list is a list of whatever its elements are.
LEMMA ListOfElements ==
  ASSUME NEW S, NEW T, NEW s \in Seq(S), \A i \in 1 .. Len(s) : s[i] \in T
  PROVE  s \in Seq(T)
<1>1. Len(s) \in Nat /\ s = [i \in 1 .. Len(s) |-> s[i]]
  OBVIOUS
<1>2. QED
  BY <1>1

\* h says where in some accesses each one that Follow keeps comes from.
Traces(h, kept, steps) ==
  /\ h \in [1 .. Len(kept) -> 1 .. Len(steps)]
  /\ \A a, b \in 1 .. Len(kept) : a < b => h[a] < h[b]
  /\ \A a \in 1 .. Len(kept) : kept[a] = steps[h[a]]
  /\ \A i \in 1 .. Len(steps) : steps[i].on \in Watched => \E a \in 1 .. Len(kept) : h[a] = i

\* Follow keeps the accesses to the counters it follows, in their order.
LEMMA FollowElements ==
  ASSUME NEW steps \in Seq([op : Ops, on : Counter, n : Nat])
  PROVE  /\ Follow(steps) \in Seq([op : Ops, on : Watched, n : Nat])
         /\ \E h : Traces(h, Follow(steps), steps)
<1> DEFINE S == [op : Ops, on : Counter, n : Nat]
           T == {s \in Range(steps) : s.on \in Watched \cup {"none"}}
           kept == Follow(steps)
<1>1. kept = Selection(steps, T)
  BY DEF Follow
<1>2. /\ Len(steps) \in Nat /\ DOMAIN steps = 1 .. Len(steps)
      /\ \A i \in 1 .. Len(steps) : steps[i] \in S /\ steps[i] \in Range(steps)
  BY LenProperties, ElementOfSeq DEF Range
<1>3. \A i \in 1 .. Len(steps) : steps[i] \in T <=> steps[i].on \in Watched
  <2>1. \A i \in 1 .. Len(steps) : steps[i].on # "none"
    BY <1>2, CountersAreNamed
  <2>2. QED
    BY <1>2, <2>1
<1> HIDE DEF T, kept, S
<1>4. kept \in Seq(S)
  BY <1>1, SelectionProperties DEF S
<1>5. PICK h : Embeds(h, kept, steps, T, Len(steps))
  BY <1>1, SelectionEmbedding
<1>6. /\ h \in [1 .. Len(kept) -> 1 .. Len(steps)]
      /\ \A a, b \in 1 .. Len(kept) : a < b => h[a] < h[b]
      /\ \A a \in 1 .. Len(kept) : steps[h[a]] \in T /\ kept[a] = steps[h[a]]
      /\ \A i \in 1 .. Len(steps) : steps[i] \in T => \E a \in 1 .. Len(kept) : h[a] = i
  BY <1>5 DEF Embeds
<1>7. Traces(h, kept, steps)
  BY <1>3, <1>6 DEF Traces
<1>8. \A a \in 1 .. Len(kept) : kept[a] \in [op : Ops, on : Watched, n : Nat]
  <2>1. \A a \in 1 .. Len(kept) : h[a] \in 1 .. Len(steps)
    BY <1>6
  <2>2. QED
    BY <1>2, <1>3, <1>6, <2>1 DEF S
<1>9. kept \in Seq([op : Ops, on : Watched, n : Nat])
  <2>1. QED
    BY <1>4, <1>8, ListOfElements
<1>10. QED
  BY <1>7, <1>9 DEF kept

\* One access each to the counters of a list that are followed.
LEMMA EachElements ==
  ASSUME NEW op \in Ops, NEW counters \in Seq(Counter)
  PROVE  /\ Each(op, counters) \in Seq([op : {op}, on : Watched \cap Range(counters), n : {0}])
         /\ \E h : /\ h \in [1 .. Len(Each(op, counters)) -> 1 .. Len(counters)]
                   /\ \A a, b \in 1 .. Len(Each(op, counters)) : a < b => h[a] < h[b]
                   /\ \A a \in 1 .. Len(Each(op, counters)) :
                        Each(op, counters)[a].on = counters[h[a]]
                   /\ \A i \in 1 .. Len(counters) : counters[i] \in Watched =>
                        \E a \in 1 .. Len(Each(op, counters)) : h[a] = i
<1> DEFINE steps == [i \in DOMAIN counters |-> Access(op, counters[i], 0)]
           kept == Each(op, counters)
<1>1. /\ Len(counters) \in Nat /\ DOMAIN counters = 1 .. Len(counters)
      /\ \A i \in 1 .. Len(counters) : counters[i] \in Counter /\ counters[i] \in Range(counters)
  BY LenProperties, ElementOfSeq DEF Range
<1>2. /\ Len(steps) = Len(counters)
      /\ \A i \in 1 .. Len(counters) : /\ steps[i] = Access(op, counters[i], 0)
                                       /\ steps[i] \in [op : Ops, on : Counter, n : Nat]
      /\ steps \in Seq([op : Ops, on : Counter, n : Nat])
  BY <1>1 DEF Access
<1>3. kept = Follow(steps)
  BY DEF Each
<1> HIDE DEF steps, kept
<1>4. /\ kept \in Seq([op : Ops, on : Watched, n : Nat])
      /\ \E h : Traces(h, kept, steps)
  BY <1>2, <1>3, FollowElements
<1>5. PICK h : Traces(h, kept, steps)
  BY <1>4
<1>6. /\ h \in [1 .. Len(kept) -> 1 .. Len(counters)]
      /\ \A a, b \in 1 .. Len(kept) : a < b => h[a] < h[b]
      /\ \A a \in 1 .. Len(kept) : kept[a] = steps[h[a]]
      /\ \A i \in 1 .. Len(counters) :
           steps[i].on \in Watched => \E a \in 1 .. Len(kept) : h[a] = i
  BY <1>2, <1>5 DEF Traces
<1>7. \A a \in 1 .. Len(kept) : h[a] \in 1 .. Len(counters)
  BY <1>6
<1>8. \A i \in 1 .. Len(counters) : /\ steps[i].op = op
                                    /\ steps[i].on = counters[i]
                                    /\ steps[i].n = 0
  <2>1. SUFFICES ASSUME NEW i \in 1 .. Len(counters)
                 PROVE  steps[i].op = op /\ steps[i].on = counters[i] /\ steps[i].n = 0
    OBVIOUS
  <2>2. steps[i] = [op |-> op, on |-> counters[i], n |-> 0]
    BY <1>2 DEF Access
  <2>3. QED
    BY <2>2
<1>9. \A a \in 1 .. Len(kept) : kept[a].on = counters[h[a]] /\ kept[a].op = op /\ kept[a].n = 0
  BY <1>6, <1>7, <1>8
<1>10. /\ Len(kept) \in Nat
       /\ \A a \in 1 .. Len(kept) : kept[a] \in [op : Ops, on : Watched, n : Nat]
  <2> DEFINE S == [op : Ops, on : Watched, n : Nat]
  <2> HIDE DEF S
  <2>1. kept \in Seq(S)
    BY <1>4 DEF S
  <2>2. Len(kept) \in Nat /\ \A a \in 1 .. Len(kept) : kept[a] \in S
    BY <2>1, ElementOfSeq
  <2>3. QED
    BY <2>2 DEF S
<1>11. \A a \in 1 .. Len(kept) :
         kept[a] \in [op : {op}, on : Watched \cap Range(counters), n : {0}]
  BY <1>1, <1>7, <1>9, <1>10
<1>12. kept \in Seq([op : {op}, on : Watched \cap Range(counters), n : {0}])
  BY <1>4, <1>11, ListOfElements
<1>13. \A i \in 1 .. Len(counters) :
         counters[i] \in Watched => \E a \in 1 .. Len(kept) : h[a] = i
  BY <1>6, <1>8
<1>14. QED
  BY <1>6, <1>9, <1>12, <1>13 DEF kept

-----------------------------------------------------------------------------
(* Programs without a critical section.                                    *)

\* What one test is in front of: additions to different counters, of one
\* packet to one direction and the total or to neither.
IsRun(p, first, last) ==
  /\ \A j \in first .. last : /\ p[j].op = "add" /\ p[j].on \in Watched
                              /\ p[j].on \in Packets => p[j].n = 1
  /\ \A i, j \in first .. last : p[i].on = p[j].on => i = j
  /\ ~ \E i, j \in first .. last : p[i].on = "rx_packets" /\ p[j].on = "tx_packets"
  /\ Packets \subseteq Watched =>
       ((\E j \in first .. last : p[j].on = "total_packets")
          <=> \E j \in first .. last : p[j].on \in Directions)

\* A test leads to the end or to something that is no addition.
TestsLead(p, i) ==
  p[i].op \in {"ask", "look"} =>
    /\ i + p[i].n <= Len(p)
    /\ i + p[i].n < Len(p) => p[i + p[i].n + 1].op # "add"

\* An addition is part of a run behind a look.
AddsBelong(p, i) ==
  p[i].op = "add" => \E j \in 1 .. i - 1 : /\ p[j].op = "look" /\ i <= j + p[j].n
                                           /\ IsRun(p, j + 1, j + p[j].n)

Open(p) ==
  /\ p \in Seq(Accesses)
  /\ \A i \in 1 .. Len(p) :
       /\ p[i].op \notin {"lock", "unlock", "copy"}
       /\ p[i].op = "zero" => p[i].on \in Watched \ LockedCounters
       /\ TestsLead(p, i)
       /\ AddsBelong(p, i)

\* Accesses behind others.
LEMMA ConcatElements ==
  ASSUME NEW p \in Seq(Accesses), NEW q \in Seq(Accesses)
  PROVE  /\ p \o q \in Seq(Accesses)
         /\ Len(p \o q) = Len(p) + Len(q)
         /\ \A i \in 1 .. Len(p) : (p \o q)[i] = p[i]
         /\ \A i \in 1 .. Len(q) : (p \o q)[Len(p) + i] = q[i]
         /\ \A i \in 1 .. Len(p) + Len(q) :
              i \in 1 .. Len(p) \/ (i - Len(p) \in 1 .. Len(q) /\ i = Len(p) + (i - Len(p)))
         /\ Len(p) \in Nat /\ Len(q) \in Nat
OBVIOUS

\* An access is a record with its three fields.
LEMMA AccessFields ==
  \A a \in Accesses : a.op \in Ops /\ a.on \in Watched \cup {"none"} /\ a.n \in Nat
BY DEF Accesses

\* A run stays one wherever it is.
LEMMA RunMoves ==
  ASSUME NEW p, NEW q, NEW first \in Int, NEW last \in Int, NEW d \in Int,
         IsRun(p, first, last), \A j \in first .. last : q[d + j] = p[j]
  PROVE  IsRun(q, d + first, d + last)
<1>1. \A j \in d + first .. d + last : j - d \in first .. last /\ q[j] = p[j - d]
  <2>1. SUFFICES ASSUME NEW j \in d + first .. d + last
                 PROVE  j - d \in first .. last /\ q[j] = p[j - d]
    OBVIOUS
  <2>2. j - d \in first .. last /\ d + (j - d) = j
    OBVIOUS
  <2>3. QED
    BY <2>2
<1>2. \A j \in first .. last : d + j \in d + first .. d + last
  OBVIOUS
<1>3. \A j \in d + first .. d + last : /\ q[j].op = "add" /\ q[j].on \in Watched
                                       /\ q[j].on \in Packets => q[j].n = 1
  BY <1>1 DEF IsRun
<1>4. \A i, j \in d + first .. d + last : q[i].on = q[j].on => i = j
  <2>1. SUFFICES ASSUME NEW i \in d + first .. d + last, NEW j \in d + first .. d + last,
                        q[i].on = q[j].on
                 PROVE  i = j
    OBVIOUS
  <2>2. i - d = j - d
    BY <1>1, <2>1 DEF IsRun
  <2>3. QED
    BY <2>2
<1>5. ~ \E i, j \in d + first .. d + last : q[i].on = "rx_packets" /\ q[j].on = "tx_packets"
  BY <1>1 DEF IsRun
<1>6. \A c : (\E j \in d + first .. d + last : q[j].on = c)
               <=> \E j \in first .. last : p[j].on = c
  BY <1>1, <1>2
<1>7. Packets \subseteq Watched =>
        ((\E j \in d + first .. d + last : q[j].on = "total_packets")
           <=> \E j \in d + first .. d + last : q[j].on \in Directions)
  BY <1>6 DEF IsRun, Directions
<1>8. QED
  BY <1>3, <1>4, <1>5, <1>7 DEF IsRun

\* Accesses that are neither tests nor additions make a program.
LEMMA OpenPlain ==
  ASSUME NEW p \in Seq(Accesses),
         \A i \in 1 .. Len(p) :
           /\ p[i].op \notin {"ask", "look", "add", "lock", "unlock", "copy"}
           /\ p[i].op = "zero" => p[i].on \in Watched \ LockedCounters
  PROVE  Open(p)
BY DEF Open, TestsLead, AddsBelong

\* A program does not start with an addition.
LEMMA OpenStarts ==
  ASSUME NEW p, Open(p), Len(p) >= 1
  PROVE  p[1].op # "add"
<1>1. 1 \in 1 .. Len(p)
  BY DEF Open
<1>2. AddsBelong(p, 1)
  BY <1>1 DEF Open
<1>3. QED
  BY <1>2 DEF AddsBelong

\* The accesses of a program are as good behind other accesses.
LEMMA OpenMoves ==
  ASSUME NEW q, Open(q), NEW r, NEW d \in Nat, Len(r) = d + Len(q),
         \A j \in 1 .. Len(q) : r[d + j] = q[j],
         NEW i \in 1 .. Len(q)
  PROVE  /\ r[d + i].op \notin {"lock", "unlock", "copy"}
         /\ r[d + i].op = "zero" => r[d + i].on \in Watched \ LockedCounters
         /\ TestsLead(r, d + i)
         /\ AddsBelong(r, d + i)
<1>0. q \in Seq(Accesses) /\ Len(q) \in Nat
  BY DEF Open
<1>1. r[d + i] = q[i]
  OBVIOUS
<1>2. r[d + i].op \notin {"lock", "unlock", "copy"}
      /\ (r[d + i].op = "zero" => r[d + i].on \in Watched \ LockedCounters)
  BY <1>1 DEF Open
<1>3. TestsLead(r, d + i)
  <2>1. SUFFICES ASSUME q[i].op \in {"ask", "look"}
                 PROVE  /\ d + i + q[i].n <= Len(r)
                        /\ d + i + q[i].n < Len(r) => r[d + i + q[i].n + 1].op # "add"
    BY <1>1 DEF TestsLead
  <2>2. /\ i + q[i].n <= Len(q)
        /\ i + q[i].n < Len(q) => q[i + q[i].n + 1].op # "add"
    BY <2>1 DEF Open, TestsLead
  <2>3. q[i].n \in Nat
    BY <1>0, ElementOfSeq, AccessFields
  <2>4. ASSUME d + i + q[i].n < Len(r) PROVE r[d + i + q[i].n + 1].op # "add"
    <3>1. /\ i + q[i].n + 1 \in 1 .. Len(q) /\ i + q[i].n < Len(q)
          /\ d + i + q[i].n + 1 = d + (i + q[i].n + 1)
      BY <1>0, <2>3, <2>4, SMTT(30)
    <3>2. r[d + (i + q[i].n + 1)] = q[i + q[i].n + 1]
      BY <3>1
    <3>3. QED
      BY <2>2, <3>1, <3>2
  <2>5. QED
    BY <1>0, <2>2, <2>3, <2>4
<1>4. AddsBelong(r, d + i)
  <2>1. SUFFICES ASSUME q[i].op = "add"
                 PROVE  \E j \in 1 .. d + i - 1 : /\ r[j].op = "look" /\ d + i <= j + r[j].n
                                                  /\ IsRun(r, j + 1, j + r[j].n)
    BY <1>1 DEF AddsBelong
  <2>2. PICK j \in 1 .. i - 1 : /\ q[j].op = "look" /\ i <= j + q[j].n
                                /\ IsRun(q, j + 1, j + q[j].n)
    BY <2>1 DEF Open, AddsBelong
  <2>3. j \in 1 .. Len(q) /\ q[j] \in Accesses /\ TestsLead(q, j)
    <3>1. j \in 1 .. Len(q)
      BY <1>0
    <3>2. QED
      BY <1>0, <3>1, ElementOfSeq DEF Open
  <2>4. q[j].n \in Nat /\ j + q[j].n <= Len(q)
    BY <2>2, <2>3, AccessFields DEF TestsLead
  <2> DEFINE e == j + q[j].n
  <2>5. j \in Nat /\ j >= 1 /\ j < i /\ e \in Nat /\ e <= Len(q) /\ i <= e /\ IsRun(q, j + 1, e)
    BY <1>0, <2>2, <2>4
  <2>6. r[d + j].op = "look" /\ (d + j) + r[d + j].n = d + e
    <3>1. r[d + j] = q[j]
      BY <2>3
    <3>2. (d + j) + q[j].n = d + e
      BY <2>4, <2>5
    <3>3. QED
      BY <2>2, <3>1, <3>2
  <2> HIDE DEF e
  <2>7. \A k \in j + 1 .. e : r[d + k] = q[k]
    <3>1. \A k \in j + 1 .. e : k \in 1 .. Len(q)
      BY <1>0, <2>5
    <3>2. QED
      BY <3>1
  <2>8. j + 1 \in Int /\ e \in Int /\ d \in Int
    BY <2>5
  <2>9. IsRun(r, d + (j + 1), d + e)
    BY <2>5, <2>7, <2>8, RunMoves
  <2>10. d + (j + 1) = (d + j) + 1 /\ d + j \in 1 .. d + i - 1 /\ d + i <= d + e
    BY <2>5
  <2>11. QED
    BY <2>6, <2>9, <2>10
<1>5. QED
  BY <1>2, <1>3, <1>4

\* A program behind another is a program.
LEMMA OpenConcat ==
  ASSUME NEW p, NEW q, Open(p), Open(q)
  PROVE  Open(p \o q)
<1> DEFINE r == p \o q
<1>0. p \in Seq(Accesses) /\ q \in Seq(Accesses)
  BY DEF Open
<1>1. /\ r \in Seq(Accesses)
      /\ Len(r) = Len(p) + Len(q)
      /\ \A i \in 1 .. Len(p) : r[i] = p[i]
      /\ \A i \in 1 .. Len(q) : r[Len(p) + i] = q[i]
      /\ \A i \in 1 .. Len(p) + Len(q) :
           i \in 1 .. Len(p) \/ (i - Len(p) \in 1 .. Len(q) /\ i = Len(p) + (i - Len(p)))
      /\ Len(p) \in Nat /\ Len(q) \in Nat
  BY <1>0, ConcatElements
<1> HIDE DEF r
<1>2. ASSUME NEW i \in 1 .. Len(p)
      PROVE  /\ r[i].op \notin {"lock", "unlock", "copy"}
             /\ r[i].op = "zero" => r[i].on \in Watched \ LockedCounters
             /\ TestsLead(r, i)
             /\ AddsBelong(r, i)
  <2>1. r[i] = p[i]
    BY <1>1
  <2>2. r[i].op \notin {"lock", "unlock", "copy"}
        /\ (r[i].op = "zero" => r[i].on \in Watched \ LockedCounters)
    BY <2>1 DEF Open
  <2>3. TestsLead(r, i)
    <3>1. SUFFICES ASSUME p[i].op \in {"ask", "look"}
                   PROVE  /\ i + p[i].n <= Len(r)
                          /\ i + p[i].n < Len(r) => r[i + p[i].n + 1].op # "add"
      BY <2>1 DEF TestsLead
    <3>2. /\ i + p[i].n <= Len(p)
          /\ i + p[i].n < Len(p) => p[i + p[i].n + 1].op # "add"
      BY <3>1 DEF Open, TestsLead
    <3>3. p[i].n \in Nat
      BY <1>0, ElementOfSeq, AccessFields
    <3>4. CASE i + p[i].n < Len(p)
      <4>1. i + p[i].n + 1 \in 1 .. Len(p) /\ i + p[i].n <= Len(r)
        BY <1>1, <3>3, <3>4
      <4>2. r[i + p[i].n + 1] = p[i + p[i].n + 1]
        BY <1>1, <4>1
      <4>3. QED
        BY <3>2, <3>4, <4>1, <4>2
    <3>5. CASE i + p[i].n = Len(p)
      <4>1. SUFFICES ASSUME Len(p) < Len(r) PROVE r[Len(p) + 1].op # "add"
        BY <1>1, <3>5
      <4>2. Len(q) >= 1 /\ 1 \in 1 .. Len(q)
        BY <1>1, <4>1
      <4>3. QED
        BY <1>1, <4>2, OpenStarts
    <3>6. QED
      BY <1>1, <3>2, <3>3, <3>4, <3>5
  <2>4. AddsBelong(r, i)
    <3>1. SUFFICES ASSUME p[i].op = "add"
                   PROVE  \E j \in 1 .. i - 1 : /\ r[j].op = "look" /\ i <= j + r[j].n
                                                /\ IsRun(r, j + 1, j + r[j].n)
      BY <2>1 DEF AddsBelong
    <3>2. PICK j \in 1 .. i - 1 : /\ p[j].op = "look" /\ i <= j + p[j].n
                                  /\ IsRun(p, j + 1, j + p[j].n)
      BY <3>1 DEF Open, AddsBelong
    <3>3. j \in 1 .. Len(p) /\ p[j] \in Accesses /\ TestsLead(p, j)
      <4>1. j \in 1 .. Len(p)
        BY <1>1
      <4>2. QED
        BY <1>0, <4>1, ElementOfSeq DEF Open
    <3>4. p[j].n \in Nat /\ j + p[j].n <= Len(p)
      BY <3>2, <3>3, AccessFields DEF TestsLead
    <3> DEFINE e == j + p[j].n
    <3>5. j \in Nat /\ j >= 1 /\ e \in Nat /\ e <= Len(p) /\ i <= e /\ IsRun(p, j + 1, e)
      BY <1>1, <3>2, <3>4
    <3>6. r[j].op = "look" /\ j + r[j].n = e
      <4>1. r[j] = p[j]
        BY <1>1, <3>3
      <4>2. QED
        BY <3>2, <4>1
    <3> HIDE DEF e
    <3>7. \A k \in j + 1 .. e : r[0 + k] = p[k]
      <4>1. \A k \in j + 1 .. e : k \in 1 .. Len(p) /\ 0 + k = k
        BY <1>1, <3>5
      <4>2. QED
        BY <1>1, <4>1
    <3>8. j + 1 \in Int /\ e \in Int /\ 0 \in Int
      BY <3>5
    <3>9. IsRun(r, 0 + (j + 1), 0 + e)
      BY <3>5, <3>7, <3>8, RunMoves
    <3>10. 0 + (j + 1) = j + 1 /\ 0 + e = e
      BY <3>5
    <3>11. QED
      BY <3>5, <3>6, <3>9, <3>10
  <2>5. QED
    BY <2>2, <2>3, <2>4
<1>3. ASSUME NEW i \in 1 .. Len(q)
      PROVE  /\ r[Len(p) + i].op \notin {"lock", "unlock", "copy"}
             /\ r[Len(p) + i].op = "zero" => r[Len(p) + i].on \in Watched \ LockedCounters
             /\ TestsLead(r, Len(p) + i)
             /\ AddsBelong(r, Len(p) + i)
  <2>1. \A j \in 1 .. Len(q) : r[Len(p) + j] = q[j]
    BY <1>1
  <2>2. Open(q) /\ Len(p) \in Nat /\ q \in Seq(Accesses) /\ Len(r) = Len(p) + Len(q)
    BY <1>0, <1>1
  <2>3. QED
    BY <2>1, <2>2, OpenMoves
<1>4. ASSUME NEW i \in 1 .. Len(r)
      PROVE  /\ r[i].op \notin {"lock", "unlock", "copy"}
             /\ r[i].op = "zero" => r[i].on \in Watched \ LockedCounters
             /\ TestsLead(r, i)
             /\ AddsBelong(r, i)
  <2>1. CASE i \in 1 .. Len(p)
    BY <1>2, <2>1
  <2>2. CASE i - Len(p) \in 1 .. Len(q) /\ i = Len(p) + (i - Len(p))
    <3> DEFINE k == i - Len(p)
    <3>1. k \in 1 .. Len(q) /\ i = Len(p) + k
      BY <2>2
    <3> HIDE DEF k
    <3>2. QED
      BY <1>3, <3>1
  <2>3. QED
    BY <1>1, <2>1, <2>2
<1>5. QED
  BY <1>1, <1>4 DEF Open, r

\* A test that leaves a program out, in front of it.
LEMMA OpenBehindTest ==
  ASSUME NEW p, Open(p), NEW op \in {"ask", "look"}
  PROVE  Open(<<Access(op, "none", Len(p))>> \o p)
<1> DEFINE test == <<Access(op, "none", Len(p))>>
           r    == test \o p
<1>0. p \in Seq(Accesses) /\ Len(p) \in Nat
  BY DEF Open
<1>1. /\ test \in Seq(Accesses) /\ Len(test) = 1
      /\ test[1].op = op /\ test[1].n = Len(p)
  BY <1>0 DEF Access, Accesses, Ops
<1> HIDE DEF test
<1>2. /\ r \in Seq(Accesses)
      /\ Len(r) = 1 + Len(p)
      /\ r[1] = test[1]
      /\ \A i \in 1 .. Len(p) : r[1 + i] = p[i]
  <2>1. /\ r \in Seq(Accesses)
        /\ Len(r) = Len(test) + Len(p)
        /\ \A i \in 1 .. Len(test) : r[i] = test[i]
        /\ \A i \in 1 .. Len(p) : r[Len(test) + i] = p[i]
    BY <1>0, <1>1, ConcatElements
  <2>2. QED
    BY <1>1, <2>1
<1> HIDE DEF r
<1>3. r[1].op = op /\ r[1].n = Len(p)
  BY <1>1, <1>2
<1>4. TestsLead(r, 1) /\ AddsBelong(r, 1)
  BY <1>0, <1>2, <1>3 DEF TestsLead, AddsBelong
<1>5. ASSUME NEW i \in 1 .. Len(r)
      PROVE  /\ r[i].op \notin {"lock", "unlock", "copy"}
             /\ r[i].op = "zero" => r[i].on \in Watched \ LockedCounters
             /\ TestsLead(r, i)
             /\ AddsBelong(r, i)
  <2>1. CASE i = 1
    BY <1>3, <1>4, <2>1
  <2>2. CASE i # 1
    <3> DEFINE k == i - 1
    <3>1. k \in 1 .. Len(p) /\ i = 1 + k
      BY <1>2, <2>2
    <3> HIDE DEF k
    <3>2. /\ r[1 + k].op \notin {"lock", "unlock", "copy"}
          /\ r[1 + k].op = "zero" => r[1 + k].on \in Watched \ LockedCounters
          /\ TestsLead(r, 1 + k)
          /\ AddsBelong(r, 1 + k)
      BY <1>2, <3>1, OpenMoves
    <3>3. QED
      BY <3>1, <3>2
  <2>3. QED
    BY <2>1, <2>2
<1>6. QED
  BY <1>2, <1>5 DEF Open, r, test

\* A look in front of a run it leaves out.
LEMMA OpenRun ==
  ASSUME NEW adds \in Seq(Accesses), IsRun(adds, 1, Len(adds))
  PROVE  Open(<<Access("look", "none", Len(adds))>> \o adds)
<1> DEFINE test == <<Access("look", "none", Len(adds))>>
           r    == test \o adds
<1>0. adds \in Seq(Accesses) /\ Len(adds) \in Nat
  OBVIOUS
<1>1. /\ test \in Seq(Accesses) /\ Len(test) = 1
      /\ test[1].op = "look" /\ test[1].n = Len(adds)
  BY <1>0 DEF Access, Accesses, Ops
<1> HIDE DEF test
<1>2. /\ r \in Seq(Accesses)
      /\ Len(r) = 1 + Len(adds)
      /\ r[1] = test[1]
      /\ \A i \in 1 .. Len(adds) : r[1 + i] = adds[i]
  <2>1. /\ r \in Seq(Accesses)
        /\ Len(r) = Len(test) + Len(adds)
        /\ \A i \in 1 .. Len(test) : r[i] = test[i]
        /\ \A i \in 1 .. Len(adds) : r[Len(test) + i] = adds[i]
    BY <1>0, <1>1, ConcatElements
  <2>2. QED
    BY <1>1, <2>1
<1> HIDE DEF r
<1>3. r[1].op = "look" /\ r[1].n = Len(adds)
  BY <1>1, <1>2
<1>4. TestsLead(r, 1) /\ AddsBelong(r, 1)
  BY <1>0, <1>2, <1>3 DEF TestsLead, AddsBelong
<1>5. IsRun(r, 1 + 1, 1 + Len(adds))
  BY <1>0, <1>2, RunMoves
<1>6. ASSUME NEW i \in 1 .. Len(r)
      PROVE  /\ r[i].op \notin {"lock", "unlock", "copy"}
             /\ r[i].op = "zero" => r[i].on \in Watched \ LockedCounters
             /\ TestsLead(r, i)
             /\ AddsBelong(r, i)
  <2>1. CASE i = 1
    BY <1>3, <1>4, <2>1
  <2>2. CASE i # 1
    <3>1. i \in 1 + 1 .. 1 + Len(adds) /\ i - 1 \in 1 .. Len(adds)
      BY <1>2, <2>2
    <3>2. r[i].op = "add"
      BY <1>5, <3>1 DEF IsRun
    <3>3. 1 \in 1 .. i - 1 /\ i <= 1 + r[1].n /\ IsRun(r, 1 + 1, 1 + r[1].n)
      BY <1>0, <1>3, <1>5, <3>1
    <3>4. QED
      BY <1>3, <3>2, <3>3 DEF TestsLead, AddsBelong
  <2>3. QED
    BY <2>1, <2>2
<1>7. QED
  BY <1>2, <1>6 DEF Open, r, test

-----------------------------------------------------------------------------
(* Programs with a critical section.                                       *)

\* A snapshot copies something of what it follows.
Copying(p, first, last) ==
  /\ \A i \in first .. last : p[i].op = "copy" /\ p[i].on \in Watched
  /\ Packets \subseteq Watched => first <= last

\* A full reset clears one direction, the other and their total in a row.
ClearsAt(p, first, last, rx, tx, total) ==
  /\ rx \in first .. last /\ tx \in first .. last /\ total \in first .. last
  /\ rx < tx /\ tx < total
  /\ p[rx].on = "rx_packets" /\ p[tx].on = "tx_packets" /\ p[total].on = "total_packets"
  /\ \A i \in first .. last : /\ p[i].on = "rx_packets" => i = rx
                              /\ p[i].on = "tx_packets" => i = tx
                              /\ p[i].on = "total_packets" => i = total
                              /\ i <= total => p[i].op = "zero"

Clearing(p, first, last) ==
  /\ \A i \in first .. last : /\ p[i].op \in {"zero", "ask"}
                              /\ p[i].op = "zero" => p[i].on \in Watched
                              /\ p[i].op = "ask" => i + p[i].n <= last
  /\ Packets \subseteq Watched => \E rx, tx, total : ClearsAt(p, first, last, rx, tx, total)

\* From k, where it is taken, to l, where it is given back, a program has
\* the lock: a test before leads to where it is or behind l.
Section(p, k, l) ==
  /\ p \in Seq(Accesses)
  /\ k \in 1 .. Len(p) /\ l \in 1 .. Len(p) /\ k < l
  /\ p[k].op = "lock" /\ p[l].op = "unlock"
  /\ \A i \in 1 .. k - 1 : p[i].op = "ask" /\ l <= i + p[i].n /\ i + p[i].n <= Len(p)
  /\ \A i \in l + 1 .. Len(p) : p[i].op \in {"engine", "clear_enabled", "clear_initialized"}
  /\ Copying(p, k + 1, l - 1) \/ Clearing(p, k + 1, l - 1)

\* A program, and its critical section if it has one.
Program(p, k, l) == (Open(p) /\ k = 0 /\ l = 0) \/ Section(p, k, l)

\* Copies are copies wherever they are.
LEMMA CopyingMoves ==
  ASSUME NEW p, NEW q, NEW first \in Int, NEW last \in Int, NEW d \in Int,
         Copying(p, first, last), \A j \in first .. last : q[d + j] = p[j]
  PROVE  Copying(q, d + first, d + last)
<1>1. \A i \in d + first .. d + last : i - d \in first .. last /\ q[i] = p[i - d]
  <2>1. SUFFICES ASSUME NEW i \in d + first .. d + last
                 PROVE  i - d \in first .. last /\ q[i] = p[i - d]
    OBVIOUS
  <2>2. i - d \in first .. last /\ d + (i - d) = i
    OBVIOUS
  <2>3. QED
    BY <2>2
<1>2. \A i \in d + first .. d + last : q[i].op = "copy" /\ q[i].on \in Watched
  BY <1>1 DEF Copying
<1>3. first <= last => d + first <= d + last
  OBVIOUS
<1>4. QED
  BY <1>2, <1>3 DEF Copying

\* ... and so is what a reset clears.
LEMMA ClearingMoves ==
  ASSUME NEW p, NEW q, NEW first \in Int, NEW last \in Int, NEW d \in Int,
         Clearing(p, first, last), \A j \in first .. last : q[d + j] = p[j] /\ p[j].n \in Nat
  PROVE  Clearing(q, d + first, d + last)
<1>1. \A i \in d + first .. d + last :
        i - d \in first .. last /\ q[i] = p[i - d] /\ d + (i - d) = i
  <2>1. SUFFICES ASSUME NEW i \in d + first .. d + last
                 PROVE  i - d \in first .. last /\ q[i] = p[i - d] /\ d + (i - d) = i
    OBVIOUS
  <2>2. i - d \in first .. last /\ d + (i - d) = i
    OBVIOUS
  <2>3. QED
    BY <2>2
<1>2. ASSUME NEW i \in d + first .. d + last
      PROVE  /\ q[i].op \in {"zero", "ask"}
             /\ q[i].op = "zero" => q[i].on \in Watched
             /\ q[i].op = "ask" => i + q[i].n <= d + last
  <2>1. i - d \in first .. last /\ q[i] = p[i - d]
    BY <1>1
  <2>2. /\ q[i].op \in {"zero", "ask"}
        /\ q[i].op = "zero" => q[i].on \in Watched
        /\ q[i].op = "ask" => (i - d) + q[i].n <= last
        /\ q[i].n \in Nat
    BY <2>1 DEF Clearing
  <2>3. QED
    BY <2>1, <2>2
<1>3. ASSUME Packets \subseteq Watched
      PROVE  \E rx, tx, total : ClearsAt(q, d + first, d + last, rx, tx, total)
  <2>1. PICK rx, tx, total : ClearsAt(p, first, last, rx, tx, total)
    BY <1>3 DEF Clearing
  <2>2. /\ rx \in first .. last /\ tx \in first .. last /\ total \in first .. last
        /\ rx < tx /\ tx < total
        /\ p[rx].on = "rx_packets" /\ p[tx].on = "tx_packets" /\ p[total].on = "total_packets"
    BY <2>1 DEF ClearsAt
  <2>3. \A i \in first .. last : /\ p[i].on = "rx_packets" => i = rx
                                 /\ p[i].on = "tx_packets" => i = tx
                                 /\ p[i].on = "total_packets" => i = total
                                 /\ i <= total => p[i].op = "zero"
    BY <2>1 DEF ClearsAt
  <2>4. /\ d + rx \in d + first .. d + last /\ d + tx \in d + first .. d + last
        /\ d + total \in d + first .. d + last
        /\ d + rx < d + tx /\ d + tx < d + total
    BY <2>2
  <2>5. /\ q[d + rx].on = "rx_packets" /\ q[d + tx].on = "tx_packets"
        /\ q[d + total].on = "total_packets"
    BY <2>2
  <2>6. ASSUME NEW i \in d + first .. d + last
        PROVE  /\ q[i].on = "rx_packets" => i = d + rx
               /\ q[i].on = "tx_packets" => i = d + tx
               /\ q[i].on = "total_packets" => i = d + total
               /\ i <= d + total => q[i].op = "zero"
    <3> DEFINE j == i - d
    <3>1. j \in first .. last /\ q[i] = p[j] /\ d + j = i
      BY <1>1
    <3>2. i <= d + total => j <= total
      BY <2>2, <3>1
    <3> HIDE DEF j
    <3>3. QED
      BY <2>3, <3>1, <3>2
  <2>7. QED
    BY <2>4, <2>5, <2>6 DEF ClearsAt
<1>4. QED
  BY <1>2, <1>3 DEF Clearing

\* What is between the lock and its return makes a critical section.
LEMMA SectionCore ==
  ASSUME NEW inner \in Seq(Accesses), NEW rest \in Seq(Accesses),
         Copying(inner, 1, Len(inner)) \/ Clearing(inner, 1, Len(inner)),
         Len(rest) >= 1, rest[1].op = "unlock",
         \A i \in 2 .. Len(rest) : rest[i].op \in {"engine", "clear_enabled", "clear_initialized"}
  PROVE  Section((<<Do("lock")>> \o inner) \o rest, 1, Len(inner) + 2)
<1> DEFINE front == <<Do("lock")>> \o inner
           p     == front \o rest
           n     == Len(inner)
<1>0. inner \in Seq(Accesses) /\ rest \in Seq(Accesses) /\ n \in Nat /\ Len(rest) \in Nat
  OBVIOUS
<1>1. /\ front \in Seq(Accesses) /\ Len(front) = 1 + n
      /\ front[1].op = "lock"
      /\ \A i \in 1 .. n : front[1 + i] = inner[i]
  <2> DEFINE lock == <<Do("lock")>>
  <2>1. lock \in Seq(Accesses) /\ Len(lock) = 1 /\ lock[1].op = "lock"
    BY DEF Do, Access, Accesses, Ops
  <2> HIDE DEF lock
  <2>2. /\ lock \o inner \in Seq(Accesses)
        /\ Len(lock \o inner) = Len(lock) + Len(inner)
        /\ \A i \in 1 .. Len(lock) : (lock \o inner)[i] = lock[i]
        /\ \A i \in 1 .. Len(inner) : (lock \o inner)[Len(lock) + i] = inner[i]
    BY <1>0, <2>1, ConcatElements
  <2>3. QED
    BY <2>1, <2>2 DEF lock
<1> HIDE DEF front
<1>2. /\ p \in Seq(Accesses)
      /\ Len(p) = Len(front) + Len(rest)
      /\ \A i \in 1 .. Len(front) : p[i] = front[i]
      /\ \A i \in 1 .. Len(rest) : p[Len(front) + i] = rest[i]
  BY <1>0, <1>1, ConcatElements
<1> HIDE DEF p
<1>3. Len(p) = n + 1 + Len(rest) /\ p[1].op = "lock" /\ p[n + 2].op = "unlock"
  <2>1. 1 \in 1 .. Len(front) /\ 1 \in 1 .. Len(rest) /\ Len(front) + 1 = n + 2
    BY <1>0, <1>1
  <2>2. p[1] = front[1] /\ p[n + 2] = rest[1]
    BY <1>2, <2>1
  <2>3. QED
    BY <1>0, <1>1, <1>2, <2>2
<1>4. \A i \in 1 .. n : p[1 + i] = inner[i] /\ inner[i].n \in Nat
  <2>1. \A i \in 1 .. n : 1 + i \in 1 .. Len(front)
    BY <1>0, <1>1
  <2>2. \A i \in 1 .. n : inner[i].n \in Nat
    BY <1>0, ElementOfSeq, AccessFields
  <2>3. QED
    BY <1>1, <1>2, <2>1, <2>2
<1>5. Copying(p, 1 + 1, 1 + n) \/ Clearing(p, 1 + 1, 1 + n)
  <2>1. Copying(inner, 1, n) \/ Clearing(inner, 1, n)
    OBVIOUS
  <2>2. n \in Int /\ 1 \in Int
    BY <1>0
  <2> HIDE DEF n
  <2>3. Copying(inner, 1, n) => Copying(p, 1 + 1, 1 + n)
    BY <1>4, <2>2, CopyingMoves
  <2>4. Clearing(inner, 1, n) => Clearing(p, 1 + 1, 1 + n)
    BY <1>4, <2>2, ClearingMoves
  <2>5. QED
    BY <2>1, <2>3, <2>4
<1>6. \A i \in (n + 2) + 1 .. Len(p) :
        p[i].op \in {"engine", "clear_enabled", "clear_initialized"}
  <2>1. SUFFICES ASSUME NEW i \in (n + 2) + 1 .. Len(p)
                 PROVE  p[i].op \in {"engine", "clear_enabled", "clear_initialized"}
    OBVIOUS
  <2> DEFINE j == i - (n + 1)
  <2>2. j \in 1 .. Len(rest) /\ j \in 2 .. Len(rest) /\ i = Len(front) + j
    BY <1>0, <1>1, <1>3
  <2> HIDE DEF j
  <2>3. p[i] = rest[j]
    BY <1>2, <2>2
  <2>4. QED
    BY <2>2, <2>3
<1>7. 1 + n = (n + 2) - 1
  BY <1>0
<1>8. 1 \in 1 .. Len(p) /\ n + 2 \in 1 .. Len(p) /\ 1 < n + 2 /\ 1 .. 1 - 1 = {}
  BY <1>0, <1>3
<1>9. QED
  BY <1>2, <1>3, <1>5, <1>6, <1>7, <1>8 DEF Section, p, front

\* A program stays one behind tests that leave it out and before accesses
\* that need no lock.
LEMMA SectionMoves ==
  ASSUME NEW p, NEW k, NEW l, Section(p, k, l), NEW q \in Seq(Accesses), NEW d \in Nat,
         d + Len(p) <= Len(q),
         \A j \in 1 .. Len(p) : q[d + j] = p[j],
         \A i \in 1 .. d : q[i].op = "ask" /\ i + q[i].n = Len(q),
         \A i \in d + Len(p) + 1 .. Len(q) :
           q[i].op \in {"engine", "clear_enabled", "clear_initialized"}
  PROVE  Section(q, d + k, d + l)
<1>0. /\ p \in Seq(Accesses) /\ Len(p) \in Nat /\ Len(q) \in Nat
      /\ k \in 1 .. Len(p) /\ l \in 1 .. Len(p) /\ k < l
      /\ p[k].op = "lock" /\ p[l].op = "unlock"
      /\ \A i \in 1 .. Len(p) : p[i].n \in Nat
  <2>1. \A i \in 1 .. Len(p) : p[i].n \in Nat
    BY ElementOfSeq, AccessFields DEF Section
  <2>2. QED
    BY <2>1 DEF Section
<1>1. /\ d + k \in 1 .. Len(q) /\ d + l \in 1 .. Len(q) /\ d + k < d + l
      /\ q[d + k].op = "lock" /\ q[d + l].op = "unlock"
  BY <1>0
<1>2. ASSUME NEW i \in 1 .. d + k - 1
      PROVE  q[i].op = "ask" /\ d + l <= i + q[i].n /\ i + q[i].n <= Len(q)
  <2>1. CASE i <= d
    BY <1>0, <2>1
  <2>2. CASE i > d
    <3> DEFINE j == i - d
    <3>1. j \in 1 .. k - 1 /\ j \in 1 .. Len(p) /\ i = d + j
      BY <1>0, <2>2, SMTT(30)
    <3> HIDE DEF j
    <3>2. q[i] = p[j] /\ p[j].op = "ask" /\ l <= j + p[j].n /\ j + p[j].n <= Len(p) /\ p[j].n \in Nat
      BY <1>0, <3>1 DEF Section
    <3>3. QED
      BY <1>0, <3>1, <3>2, SMTT(30)
  <2>3. QED
    BY <1>0, <2>1, <2>2
<1>3. ASSUME NEW i \in (d + l) + 1 .. Len(q)
      PROVE  q[i].op \in {"engine", "clear_enabled", "clear_initialized"}
  <2>1. CASE i > d + Len(p)
    <3>1. i \in d + Len(p) + 1 .. Len(q)
      BY <1>0, <2>1
    <3>2. QED
      BY <3>1
  <2>2. CASE i <= d + Len(p)
    <3> DEFINE j == i - d
    <3>1. j \in l + 1 .. Len(p) /\ j \in 1 .. Len(p) /\ i = d + j
      BY <1>0, <2>2
    <3> HIDE DEF j
    <3>2. q[i] = p[j] /\ p[j].op \in {"engine", "clear_enabled", "clear_initialized"}
      BY <3>1 DEF Section
    <3>3. QED
      BY <3>2
  <2>3. QED
    BY <1>0, <2>1, <2>2
<1>4. Copying(q, (d + k) + 1, (d + l) - 1) \/ Clearing(q, (d + k) + 1, (d + l) - 1)
  <2>1. \A j \in k + 1 .. l - 1 : j \in 1 .. Len(p) /\ q[d + j] = p[j] /\ p[j].n \in Nat
    <3>1. \A j \in k + 1 .. l - 1 : j \in 1 .. Len(p)
      BY <1>0
    <3>2. QED
      BY <1>0, <3>1
  <2>2. /\ k + 1 \in Int /\ l - 1 \in Int /\ d \in Int
        /\ d + (k + 1) = (d + k) + 1 /\ d + (l - 1) = (d + l) - 1
    BY <1>0
  <2>3. Copying(p, k + 1, l - 1) => Copying(q, d + (k + 1), d + (l - 1))
    BY <2>1, <2>2, CopyingMoves
  <2>4. Clearing(p, k + 1, l - 1) => Clearing(q, d + (k + 1), d + (l - 1))
    BY <2>1, <2>2, ClearingMoves
  <2>5. QED
    BY <2>2, <2>3, <2>4 DEF Section
<1>5. QED
  BY <1>1, <1>2, <1>3, <1>4 DEF Section

-----------------------------------------------------------------------------
(* The bodies of the calls.                                                *)

\* A single access that needs neither a test nor the lock.
LEMMA OpenOne ==
  ASSUME NEW op \in {"print", "engine", "enable", "disable", "clear_enabled",
                     "clear_initialized"}
  PROVE  Open(<<Do(op)>>)
<1> DEFINE p == <<Do(op)>>
<1>1. p \in Seq(Accesses) /\ Len(p) = 1 /\ p[1].op = op
  BY DEF Do, Access, Accesses, Ops
<1> HIDE DEF p
<1>2. \A i \in 1 .. Len(p) : p[i].op = op
  BY <1>1
<1>3. Open(p)
  BY <1>1, <1>2, OpenPlain
<1>4. QED
  BY <1>3 DEF p

\* Reads.
LEMMA OpenReads ==
  ASSUME NEW counters \in Seq(Counter)
  PROVE  Open(Reads(counters))
<1> DEFINE each == Each("print", counters)
           p    == Reads(counters)
<1>1. each \in Seq([op : {"print"}, on : Watched \cap Range(counters), n : {0}])
  BY EachElements DEF Ops
<1> HIDE DEF each
<1>2. Len(each) \in Nat /\ DOMAIN each = 1 .. Len(each)
  BY <1>1, LenProperties
<1>3. p = [i \in 1 .. Len(each) |-> Do("print")]
  BY <1>2 DEF Reads, each
<1>4. Do("print") \in Accesses /\ Do("print").op = "print"
  BY DEF Do, Access, Accesses, Ops
<1>5. /\ p \in Seq(Accesses) /\ Len(p) = Len(each)
      /\ \A i \in 1 .. Len(p) : p[i].op = "print"
  BY <1>2, <1>3, <1>4
<1> HIDE DEF p
<1>6. Open(p)
  BY <1>5, OpenPlain
<1>7. QED
  BY <1>6 DEF p

\* What a reset of a group does, access by access.
LEMMA EachZero ==
  ASSUME NEW counters \in Seq(Counter)
  PROVE  /\ Each("zero", counters) \in Seq(Accesses)
         /\ \A i \in 1 .. Len(Each("zero", counters)) :
              /\ Each("zero", counters)[i].op = "zero"
              /\ Each("zero", counters)[i].on \in Watched \cap Range(counters)
<1> DEFINE p == Each("zero", counters)
           S == [op : {"zero"}, on : Watched \cap Range(counters), n : {0}]
<1>1. p \in Seq(S)
  BY EachElements DEF Ops
<1> HIDE DEF p, S
<1>2. \A i \in 1 .. Len(p) : p[i] \in S
  BY <1>1, ElementOfSeq
<1>3. \A a \in S : a \in Accesses /\ a.op = "zero" /\ a.on \in Watched \cap Range(counters)
  BY DEF S, Accesses, Ops
<1>4. p \in Seq(Accesses)
  BY <1>1, <1>2, <1>3, ListOfElements
<1>5. QED
  BY <1>2, <1>3, <1>4 DEF p

\* The reset of a group that a full reset shares with nobody else.
LEMMA OpenEach ==
  ASSUME NEW counters \in Seq(Counter), Range(counters) \cap LockedCounters = {}
  PROVE  Open(Each("zero", counters))
BY EachZero, OpenPlain

\* A program behind a test of pf_statistics_initialized.
LEMMA OpenIfInitialized ==
  ASSUME NEW p, Open(p)
  PROVE  Open(IfInitialized(p))
BY OpenBehindTest DEF IfInitialized

\* Additions that a recording makes at once.
AddTogether(adds) ==
  /\ adds \in Seq([op : {"add"}, on : Counter, n : Nat])
  /\ \A i \in 1 .. Len(adds) : adds[i].on \in Packets => adds[i].n = 1
  /\ \A i, j \in 1 .. Len(adds) : adds[i].on = adds[j].on => i = j
  /\ ~ \E i, j \in 1 .. Len(adds) : adds[i].on = "rx_packets" /\ adds[j].on = "tx_packets"
  /\ (\E j \in 1 .. Len(adds) : adds[j].on = "total_packets")
       <=> \E j \in 1 .. Len(adds) : adds[j].on \in Directions

\* A recording behind its tests.
LEMMA OpenRecorder ==
  ASSUME NEW adds, AddTogether(adds)
  PROVE  Open(IfEnabled(adds))
<1> DEFINE S == [op : {"add"}, on : Counter, n : Nat]
           T == [op : Ops, on : Counter, n : Nat]
           U == [op : Ops, on : Watched, n : Nat]
           p == Follow(adds)
<1>1. adds \in Seq(S) /\ Len(adds) \in Nat /\ \A i \in 1 .. Len(adds) : adds[i] \in S
  <2>1. adds \in Seq(S)
    BY DEF AddTogether
  <2> HIDE DEF S
  <2>2. QED
    BY <2>1, ElementOfSeq
<1>2. adds \in Seq(T)
  <2>1. \A a \in S : a \in T
    BY DEF Ops
  <2> HIDE DEF S, T
  <2>2. QED
    BY <1>1, <2>1, ListOfElements
<1>3. p \in Seq(U) /\ \E h : Traces(h, p, adds)
  BY <1>2, FollowElements
<1> HIDE DEF p
<1>4. PICK h : Traces(h, p, adds)
  BY <1>3
<1>5. p \in Seq(Accesses) /\ Len(p) \in Nat /\ \A i \in 1 .. Len(p) : p[i].on \in Watched
  <2>1. \A a \in U : a \in Accesses /\ a.on \in Watched
    BY DEF Accesses
  <2> HIDE DEF U
  <2>2. \A i \in 1 .. Len(p) : p[i] \in U
    BY <1>3, ElementOfSeq
  <2>3. p \in Seq(Accesses)
    BY <1>3, <2>1, <2>2, ListOfElements
  <2>4. QED
    BY <2>1, <2>2, <2>3
<1>6. /\ \A a \in 1 .. Len(p) : h[a] \in 1 .. Len(adds) /\ p[a] = adds[h[a]]
      /\ \A a, b \in 1 .. Len(p) : a < b => h[a] < h[b]
      /\ \A i \in 1 .. Len(adds) : adds[i].on \in Watched => \E a \in 1 .. Len(p) : h[a] = i
  BY <1>4 DEF Traces
<1>7. \A j \in 1 .. Len(p) : /\ p[j].op = "add" /\ p[j].on \in Watched
                             /\ p[j].on \in Packets => p[j].n = 1
  <2>1. \A i \in 1 .. Len(adds) : adds[i].op = "add"
    BY <1>1
  <2>2. QED
    BY <1>5, <1>6, <2>1 DEF AddTogether
<1>8. \A i, j \in 1 .. Len(p) : p[i].on = p[j].on => i = j
  <2>1. \A a, b \in 1 .. Len(p) : h[a] = h[b] => a = b
    <3>1. \A a, b \in 1 .. Len(p) : a < b \/ b < a \/ a = b
      OBVIOUS
    <3>2. QED
      BY <1>6, <3>1
  <2>2. \A i, j \in 1 .. Len(adds) : adds[i].on = adds[j].on => i = j
    BY DEF AddTogether
  <2>3. SUFFICES ASSUME NEW i \in 1 .. Len(p), NEW j \in 1 .. Len(p), p[i].on = p[j].on
                 PROVE  h[i] = h[j]
    BY <2>1
  <2>4. QED
    BY <1>6, <2>2, <2>3
<1>9. ~ \E i, j \in 1 .. Len(p) : p[i].on = "rx_packets" /\ p[j].on = "tx_packets"
  <2>1. ~ \E i, j \in 1 .. Len(adds) :
            adds[i].on = "rx_packets" /\ adds[j].on = "tx_packets"
    BY DEF AddTogether
  <2>2. SUFFICES ASSUME NEW i \in 1 .. Len(p), NEW j \in 1 .. Len(p),
                        p[i].on = "rx_packets", p[j].on = "tx_packets"
                 PROVE  FALSE
    OBVIOUS
  <2>3. QED
    BY <1>6, <2>1, <2>2
<1>10. \A c \in Watched : (\E j \in 1 .. Len(p) : p[j].on = c)
                            <=> \E j \in 1 .. Len(adds) : adds[j].on = c
  BY <1>6
<1>11. Packets \subseteq Watched =>
         ((\E j \in 1 .. Len(p) : p[j].on = "total_packets")
            <=> \E j \in 1 .. Len(p) : p[j].on \in Directions)
  BY <1>10 DEF AddTogether, Packets, Directions
<1>12. IsRun(p, 1, Len(p))
  BY <1>7, <1>8, <1>9, <1>11 DEF IsRun
<1>13. Open(<<Access("look", "none", Len(p))>> \o p)
  BY <1>5, <1>12, OpenRun
<1>14. QED
  BY <1>13, OpenIfInitialized DEF IfEnabled, IfRecording, p

\* Both directions are recorded alike.
LEMMA OpenDirection ==
  ASSUME NEW len \in Nat
  PROVE  Open(RecordRx(len)) /\ Open(RecordTx(len))
<1>1. /\ {"rx_packets", "rx_bytes", "tx_packets", "tx_bytes", "total_packets", "total_bytes"}
           \subseteq Counter
  BY DEF Counter, Range, PacketCounters
<1>2. \A i \in 1 .. 4 : i = 1 \/ i = 2 \/ i = 3 \/ i = 4
  OBVIOUS
<1>3. AddTogether(<<Add("rx_packets", 1), Add("rx_bytes", len),
                    Add("total_packets", 1), Add("total_bytes", len)>>)
  <2> DEFINE adds == <<Add("rx_packets", 1), Add("rx_bytes", len),
                       Add("total_packets", 1), Add("total_bytes", len)>>
  <2>1. adds \in Seq([op : {"add"}, on : Counter, n : Nat]) /\ Len(adds) = 4
    BY <1>1 DEF Add, Access
  <2>2. /\ adds[1] = [op |-> "add", on |-> "rx_packets", n |-> 1]
        /\ adds[2] = [op |-> "add", on |-> "rx_bytes", n |-> len]
        /\ adds[3] = [op |-> "add", on |-> "total_packets", n |-> 1]
        /\ adds[4] = [op |-> "add", on |-> "total_bytes", n |-> len]
    BY DEF Add, Access
  <2> HIDE DEF adds
  <2>3. AddTogether(adds)
    BY <1>2, <2>1, <2>2 DEF AddTogether, Packets, Directions
  <2>4. QED
    BY <2>3 DEF adds
<1>4. AddTogether(<<Add("tx_packets", 1), Add("tx_bytes", len),
                    Add("total_packets", 1), Add("total_bytes", len)>>)
  <2> DEFINE adds == <<Add("tx_packets", 1), Add("tx_bytes", len),
                       Add("total_packets", 1), Add("total_bytes", len)>>
  <2>1. adds \in Seq([op : {"add"}, on : Counter, n : Nat]) /\ Len(adds) = 4
    BY <1>1 DEF Add, Access
  <2>2. /\ adds[1] = [op |-> "add", on |-> "tx_packets", n |-> 1]
        /\ adds[2] = [op |-> "add", on |-> "tx_bytes", n |-> len]
        /\ adds[3] = [op |-> "add", on |-> "total_packets", n |-> 1]
        /\ adds[4] = [op |-> "add", on |-> "total_bytes", n |-> len]
    BY DEF Add, Access
  <2> HIDE DEF adds
  <2>3. AddTogether(adds)
    BY <1>2, <2>1, <2>2 DEF AddTogether, Packets, Directions
  <2>4. QED
    BY <2>3 DEF adds
<1>5. QED
  BY <1>3, <1>4, OpenRecorder DEF RecordRx, RecordTx

\* Any other recording adds to one counter.
LEMMA OpenSingle ==
  ASSUME NEW c \in Counter \ Packets
  PROVE  Open(IfEnabled(<<Add(c, 1)>>))
<1> DEFINE adds == <<Add(c, 1)>>
<1>1. adds \in Seq([op : {"add"}, on : Counter, n : Nat]) /\ Len(adds) = 1
  BY DEF Add, Access
<1>2. adds[1] = [op |-> "add", on |-> c, n |-> 1]
  BY DEF Add, Access
<1> HIDE DEF adds
<1>3. adds[1].on = c /\ c # "rx_packets" /\ c # "tx_packets" /\ c # "total_packets"
  BY <1>2 DEF Packets, Directions
<1>4. AddTogether(adds)
  BY <1>1, <1>3 DEF AddTogether, Packets, Directions
<1>5. QED
  BY <1>4, OpenRecorder DEF adds

\* Everything that records.
LEMMA RecordersAreOpen ==
  ASSUME NEW call \in RecordingCalls, NEW p \in Body[call]
  PROVE  Open(p)
<1>1. /\ Range(ProtocolCounters) \subseteq Counter \ Packets
      /\ Range(ParserCounters) \subseteq Counter \ Packets
      /\ Range(RuleCounters) \subseteq Counter \ Packets
      /\ Range(ErrorCounters) \subseteq Counter \ Packets
      /\ Range(DecisionCounters) \subseteq Counter \ Packets
  <2>1. /\ \A c \in Range(ProtocolCounters) : c \notin Packets
        /\ \A c \in Range(ParserCounters) : c \notin Packets
        /\ \A c \in Range(RuleCounters) : c \notin Packets
        /\ \A c \in Range(ErrorCounters) : c \notin Packets
        /\ \A c \in Range(DecisionCounters) : c \notin Packets
    BY DEF Range, DecisionCounters, ProtocolCounters, ParserCounters, RuleCounters,
           ErrorCounters, Packets, Directions
  <2>2. QED
    BY <2>1 DEF Counter
<1>2. {"rx_allowed", "rx_dropped", "rx_monitored", "tx_allowed", "tx_dropped", "tx_monitored"}
        \subseteq Counter \ Packets
  <2>1. {"rx_allowed", "rx_dropped", "rx_monitored", "tx_allowed", "tx_dropped",
         "tx_monitored"} \subseteq Range(DecisionCounters)
    BY DEF Range, DecisionCounters
  <2>2. QED
    BY <1>1, <2>1
<1>3. CASE call \in {"rx", "tx"}
  <2>1. Body["rx"] = {RecordRx(len) : len \in Lengths}
        /\ Body["tx"] = {RecordTx(len) : len \in Lengths}
    BY DEF Body
  <2>2. QED
    BY <1>3, <2>1, OpenDirection, BoundsAssumption
<1>4. CASE call \in {"allow", "drop", "monitor"}
  <2>1. /\ Body["allow"] = RecordAllow /\ Body["drop"] = RecordDrop
        /\ Body["monitor"] = RecordMonitor
    BY DEF Body
  <2>2. p \in RecordAllow \cup RecordDrop \cup RecordMonitor
    BY <1>4, <2>1
  <2>3. \E c \in Counter \ Packets : p = IfEnabled(<<Add(c, 1)>>)
    BY <1>2, <2>2 DEF RecordAllow, RecordDrop, RecordMonitor
  <2>4. QED
    BY <2>3, OpenSingle
<1>5. CASE call \in {"protocol", "parser", "rule", "error"}
  <2>1. /\ Body["protocol"] = RecordProtocol /\ Body["parser"] = RecordParser
        /\ Body["rule"] = RecordRule /\ Body["error"] = RecordError
    BY DEF Body
  <2>2. p \in RecordProtocol \cup RecordParser \cup RecordRule \cup RecordError
    BY <1>5, <2>1
  <2>3. \E c \in Counter \ Packets : p = IfEnabled(<<Add(c, 1)>>)
    BY <1>1, <2>2 DEF RecordProtocol, RecordParser, RecordRule, RecordError
  <2>4. QED
    BY <2>3, OpenSingle
<1>6. CASE call = "rule_action"
  <2>1. Body["rule_action"] = RecordRuleAction
    BY DEF Body
  <2>2. PICK match \in Range(RuleCounters),
             decision \in {IfEnabled(<<Add(c, 1)>>) :
                             c \in {"rx_allowed", "rx_dropped", "rx_monitored"}} :
          p = IfRecording(IfEnabled(<<Add(match, 1)>>) \o decision)
    <3>1. p \in RecordRuleAction
      BY <1>6, <2>1
    <3>2. QED
      BY <3>1 DEF RecordRuleAction
  <2> DEFINE recorded == IfEnabled(<<Add(match, 1)>>) \o decision
  <2>3. Open(IfEnabled(<<Add(match, 1)>>))
    BY <1>1, OpenSingle
  <2>4. Open(decision)
    BY <1>2, OpenSingle
  <2>5. Open(recorded)
    BY <2>3, <2>4, OpenConcat
  <2>6. p = IfInitialized(<<Access("look", "none", Len(recorded))>> \o recorded)
    BY <2>2 DEF IfRecording
  <2> HIDE DEF recorded
  <2>7. Open(<<Access("look", "none", Len(recorded))>> \o recorded)
    BY <2>5, OpenBehindTest
  <2>8. QED
    BY <2>6, <2>7, OpenIfInitialized
<1>7. QED
  BY <1>3, <1>4, <1>5, <1>6 DEF RecordingCalls

\* What a full reset does behind the first group.
Later(p) ==
  /\ p \in Seq(Accesses)
  /\ \A i \in 1 .. Len(p) : /\ p[i].op \in {"zero", "ask"}
                            /\ p[i].on \notin Packets
                            /\ p[i].op = "zero" => p[i].on \in Watched
                            /\ p[i].op = "ask" => i + p[i].n <= Len(p)

\* A group without packet counters is reset behind the first,
LEMMA LaterEach ==
  ASSUME NEW counters \in Seq(Counter), Range(counters) \cap Packets = {}
  PROVE  Later(Each("zero", counters))
BY EachZero DEF Later

\* ... also behind a test.
LEMMA LaterIfInitialized ==
  ASSUME NEW p, Later(p)
  PROVE  Later(IfInitialized(p))
<1> DEFINE test == <<Access("ask", "none", Len(p))>>
           r    == test \o p
<1>0. p \in Seq(Accesses) /\ Len(p) \in Nat
  BY DEF Later
<1>1. /\ test \in Seq(Accesses) /\ Len(test) = 1
      /\ test[1].op = "ask" /\ test[1].n = Len(p) /\ test[1].on \notin Packets
  BY <1>0 DEF Access, Accesses, Ops, Packets, Directions
<1> HIDE DEF test
<1>2. /\ r \in Seq(Accesses)
      /\ Len(r) = 1 + Len(p)
      /\ r[1] = test[1]
      /\ \A i \in 1 .. Len(p) : r[1 + i] = p[i]
  <2>1. /\ r \in Seq(Accesses)
        /\ Len(r) = Len(test) + Len(p)
        /\ \A i \in 1 .. Len(test) : r[i] = test[i]
        /\ \A i \in 1 .. Len(p) : r[Len(test) + i] = p[i]
    BY <1>0, <1>1, ConcatElements
  <2>2. QED
    BY <1>1, <2>1
<1> HIDE DEF r
<1>3. ASSUME NEW i \in 1 .. Len(r)
      PROVE  /\ r[i].op \in {"zero", "ask"}
             /\ r[i].on \notin Packets
             /\ r[i].op = "zero" => r[i].on \in Watched
             /\ r[i].op = "ask" => i + r[i].n <= Len(r)
  <2>1. CASE i = 1
    BY <1>0, <1>1, <1>2, <2>1
  <2>2. CASE i # 1
    <3> DEFINE j == i - 1
    <3>1. j \in 1 .. Len(p) /\ i = 1 + j
      BY <1>0, <1>2, <2>2
    <3> HIDE DEF j
    <3>2. r[i] = p[j] /\ p[j].n \in Nat
      BY <1>0, <1>2, <3>1, ElementOfSeq, AccessFields
    <3>3. /\ p[j].op \in {"zero", "ask"}
          /\ p[j].on \notin Packets
          /\ p[j].op = "zero" => p[j].on \in Watched
          /\ p[j].op = "ask" => j + p[j].n <= Len(p)
      BY <3>1 DEF Later
    <3>4. QED
      BY <1>0, <1>2, <3>1, <3>2, <3>3
  <2>3. QED
    BY <2>1, <2>2
<1>4. Later(r)
  BY <1>2, <1>3 DEF Later
<1>5. QED
  BY <1>4 DEF IfInitialized, r, test

\* The first group, by itself.
LEMMA PacketsAreCleared == Clearing(ResetPackets, 1, Len(ResetPackets))
<1> DEFINE p == ResetPackets
           n == Len(PacketCounters)
<1>1. PacketCounters \in Seq(Counter) /\ n = 6
  BY GroupsAreCounters DEF PacketCounters
<1>2. /\ p \in Seq(Accesses)
      /\ \A i \in 1 .. Len(p) : p[i].op = "zero" /\ p[i].on \in Watched
  BY <1>1, EachZero DEF ResetPackets
<1>3. PICK h : /\ h \in [1 .. Len(p) -> 1 .. n]
               /\ \A a, b \in 1 .. Len(p) : a < b => h[a] < h[b]
               /\ \A a \in 1 .. Len(p) : p[a].on = PacketCounters[h[a]]
               /\ \A i \in 1 .. n : PacketCounters[i] \in Watched =>
                    \E a \in 1 .. Len(p) : h[a] = i
  <2>1. "zero" \in Ops
    BY DEF Ops
  <2>2. QED
    BY <1>1, <2>1, EachElements DEF ResetPackets
<1> HIDE DEF p, n
<1>4. \A a \in 1 .. Len(p) : h[a] \in 1 .. 6
  BY <1>1, <1>3
<1>5. \A i \in 1 .. 6 : PacketCounters[i] \in Watched => \E a \in 1 .. Len(p) : h[a] = i
  BY <1>1, <1>3
<1>6. ASSUME Packets \subseteq Watched
      PROVE  \E rx, tx, total : ClearsAt(p, 1, Len(p), rx, tx, total)
  <2>1. /\ PacketCounters[1] = "rx_packets" /\ PacketCounters[3] = "tx_packets"
        /\ PacketCounters[5] = "total_packets"
        /\ \A i \in 1 .. 6 : /\ PacketCounters[i] = "rx_packets" => i = 1
                             /\ PacketCounters[i] = "tx_packets" => i = 3
                             /\ PacketCounters[i] = "total_packets" => i = 5
    BY DEF PacketCounters
  <2>2. {"rx_packets", "tx_packets", "total_packets"} \subseteq Watched
    BY <1>6 DEF Packets, Directions
  <2>3. PICK rx \in 1 .. Len(p) : h[rx] = 1
    BY <1>5, <2>1, <2>2
  <2>4. PICK tx \in 1 .. Len(p) : h[tx] = 3
    BY <1>5, <2>1, <2>2
  <2>5. PICK total \in 1 .. Len(p) : h[total] = 5
    BY <1>5, <2>1, <2>2
  <2>6. Len(p) \in Nat
    BY <1>2
  <2>7. \A a, b \in 1 .. Len(p) : h[a] < h[b] => a < b
    <3>1. \A a, b \in 1 .. Len(p) : a < b \/ a = b \/ b < a
      BY <2>6
    <3>2. \A a \in 1 .. Len(p) : h[a] \in Nat
      BY <1>4
    <3>3. QED
      BY <1>3, <3>1, <3>2
  <2>8. \A a, b \in 1 .. Len(p) : h[a] = h[b] => a = b
    <3>1. \A a, b \in 1 .. Len(p) : a < b \/ a = b \/ b < a
      BY <2>6
    <3>2. \A a \in 1 .. Len(p) : h[a] \in Nat
      BY <1>4
    <3>3. QED
      BY <1>3, <3>1, <3>2
  <2>9. rx < tx /\ tx < total
    BY <2>3, <2>4, <2>5, <2>7
  <2>10. /\ p[rx].on = "rx_packets" /\ p[tx].on = "tx_packets"
         /\ p[total].on = "total_packets"
    BY <1>3, <2>1, <2>3, <2>4, <2>5
  <2>11. ASSUME NEW i \in 1 .. Len(p)
         PROVE  /\ p[i].on = "rx_packets" => i = rx
                /\ p[i].on = "tx_packets" => i = tx
                /\ p[i].on = "total_packets" => i = total
                /\ i <= total => p[i].op = "zero"
    <3>1. h[i] \in 1 .. 6 /\ p[i].on = PacketCounters[h[i]]
      BY <1>3, <1>4
    <3>2. QED
      BY <1>2, <2>1, <2>3, <2>4, <2>5, <2>8, <3>1
  <2>12. ClearsAt(p, 1, Len(p), rx, tx, total)
    BY <2>9, <2>10, <2>11 DEF ClearsAt
  <2>13. QED
    BY <2>12
<1>7. QED
  BY <1>2, <1>6 DEF Clearing, p

\* Other groups behind it.
LEMMA ClearingGrows ==
  ASSUME NEW p \in Seq(Accesses), Clearing(p, 1, Len(p)), NEW q, Later(q)
  PROVE  p \o q \in Seq(Accesses) /\ Clearing(p \o q, 1, Len(p \o q))
<1> DEFINE r == p \o q
<1>0. p \in Seq(Accesses) /\ q \in Seq(Accesses)
  BY DEF Later
<1>1. /\ r \in Seq(Accesses)
      /\ Len(r) = Len(p) + Len(q)
      /\ \A i \in 1 .. Len(p) : r[i] = p[i]
      /\ \A i \in 1 .. Len(q) : r[Len(p) + i] = q[i]
      /\ \A i \in 1 .. Len(p) + Len(q) :
           i \in 1 .. Len(p) \/ (i - Len(p) \in 1 .. Len(q) /\ i = Len(p) + (i - Len(p)))
      /\ Len(p) \in Nat /\ Len(q) \in Nat
  BY <1>0, ConcatElements
<1> HIDE DEF r
<1>2. ASSUME NEW j \in 1 .. Len(q)
      PROVE  /\ r[Len(p) + j].op \in {"zero", "ask"}
             /\ r[Len(p) + j].on \notin Packets
             /\ r[Len(p) + j].op = "zero" => r[Len(p) + j].on \in Watched
             /\ r[Len(p) + j].op = "ask" => (Len(p) + j) + r[Len(p) + j].n <= Len(r)
  <2>1. r[Len(p) + j] = q[j] /\ q[j].n \in Nat
    BY <1>0, <1>1, ElementOfSeq, AccessFields
  <2>2. /\ q[j].op \in {"zero", "ask"}
        /\ q[j].on \notin Packets
        /\ q[j].op = "zero" => q[j].on \in Watched
        /\ q[j].op = "ask" => j + q[j].n <= Len(q)
    BY DEF Later
  <2>3. QED
    BY <1>1, <2>1, <2>2
<1>3. ASSUME NEW i \in 1 .. Len(p)
      PROVE  /\ r[i] = p[i]
             /\ p[i].op \in {"zero", "ask"}
             /\ p[i].op = "zero" => p[i].on \in Watched
             /\ p[i].op = "ask" => i + p[i].n <= Len(r)
  <2>1. r[i] = p[i] /\ p[i].n \in Nat
    BY <1>0, <1>1, ElementOfSeq, AccessFields
  <2>2. /\ p[i].op \in {"zero", "ask"}
        /\ p[i].op = "zero" => p[i].on \in Watched
        /\ p[i].op = "ask" => i + p[i].n <= Len(p)
    BY DEF Clearing
  <2>3. QED
    BY <1>1, <2>1, <2>2
<1>4. \A i \in 1 .. Len(r) : i \in 1 .. Len(p) \/ \E j \in 1 .. Len(q) : i = Len(p) + j
  BY <1>1
<1>5. \A i \in 1 .. Len(r) : /\ r[i].op \in {"zero", "ask"}
                             /\ r[i].op = "zero" => r[i].on \in Watched
                             /\ r[i].op = "ask" => i + r[i].n <= Len(r)
  BY <1>2, <1>3, <1>4
<1>6. ASSUME Packets \subseteq Watched
      PROVE  \E rx, tx, total : ClearsAt(r, 1, Len(r), rx, tx, total)
  <2>1. PICK rx, tx, total : ClearsAt(p, 1, Len(p), rx, tx, total)
    BY <1>6 DEF Clearing
  <2>2. /\ rx \in 1 .. Len(p) /\ tx \in 1 .. Len(p) /\ total \in 1 .. Len(p)
        /\ rx < tx /\ tx < total
        /\ p[rx].on = "rx_packets" /\ p[tx].on = "tx_packets" /\ p[total].on = "total_packets"
    BY <2>1 DEF ClearsAt
  <2>3. \A i \in 1 .. Len(p) : /\ p[i].on = "rx_packets" => i = rx
                               /\ p[i].on = "tx_packets" => i = tx
                               /\ p[i].on = "total_packets" => i = total
                               /\ i <= total => p[i].op = "zero"
    BY <2>1 DEF ClearsAt
  <2>4. /\ rx \in 1 .. Len(r) /\ tx \in 1 .. Len(r) /\ total \in 1 .. Len(r)
        /\ r[rx].on = "rx_packets" /\ r[tx].on = "tx_packets" /\ r[total].on = "total_packets"
    BY <1>1, <2>2
  <2>5. ASSUME NEW i \in 1 .. Len(r)
        PROVE  /\ r[i].on = "rx_packets" => i = rx
               /\ r[i].on = "tx_packets" => i = tx
               /\ r[i].on = "total_packets" => i = total
               /\ i <= total => r[i].op = "zero"
    <3>1. CASE i \in 1 .. Len(p)
      BY <1>3, <2>3, <3>1
    <3>2. CASE \E j \in 1 .. Len(q) : i = Len(p) + j
      <4>1. r[i].on \notin Packets /\ ~ (i <= total)
        BY <1>1, <1>2, <2>2, <3>2
      <4>2. QED
        BY <4>1 DEF Packets, Directions
    <3>3. QED
      BY <1>4, <3>1, <3>2
  <2>6. ClearsAt(r, 1, Len(r), rx, tx, total)
    BY <2>2, <2>4, <2>5 DEF ClearsAt
  <2>7. QED
    BY <2>6
<1>7. QED
  BY <1>1, <1>5, <1>6 DEF Clearing, r

\* The groups one after another.
LEMMA GroupsAreCleared ==
  ResetGroups \in Seq(Accesses) /\ Clearing(ResetGroups, 1, Len(ResetGroups))
<1>1. /\ PacketCounters \in Seq(Counter) /\ DecisionCounters \in Seq(Counter)
      /\ ProtocolCounters \in Seq(Counter) /\ ParserCounters \in Seq(Counter)
      /\ RuleCounters \in Seq(Counter) /\ ErrorCounters \in Seq(Counter)
  BY GroupsAreCounters
<1>2. /\ Range(DecisionCounters) \cap Packets = {} /\ Range(ProtocolCounters) \cap Packets = {}
      /\ Range(ParserCounters) \cap Packets = {} /\ Range(RuleCounters) \cap Packets = {}
      /\ Range(ErrorCounters) \cap Packets = {}
  BY DEF Range, DecisionCounters, ProtocolCounters, ParserCounters, RuleCounters,
         ErrorCounters, Packets, Directions
<1>3. /\ Later(ResetDecisions) /\ Later(ResetProtocols) /\ Later(ResetParser)
      /\ Later(ResetRules) /\ Later(ResetErrors)
  BY <1>1, <1>2, LaterEach, LaterIfInitialized
     DEF ResetDecisions, ResetProtocols, ResetParser, ResetRules, ResetErrors
<1>4. ResetPackets \in Seq(Accesses)
  BY <1>1, EachZero DEF ResetPackets
<1> DEFINE two  == ResetPackets \o ResetDecisions
           three == two \o ResetProtocols
           four  == three \o ResetParser
           five  == four \o ResetRules
<1>5. two \in Seq(Accesses) /\ Clearing(two, 1, Len(two))
  BY <1>3, <1>4, PacketsAreCleared, ClearingGrows
<1> HIDE DEF two
<1>6. three \in Seq(Accesses) /\ Clearing(three, 1, Len(three))
  BY <1>3, <1>5, ClearingGrows
<1> HIDE DEF three
<1>7. four \in Seq(Accesses) /\ Clearing(four, 1, Len(four))
  BY <1>3, <1>6, ClearingGrows
<1> HIDE DEF four
<1>8. five \in Seq(Accesses) /\ Clearing(five, 1, Len(five))
  BY <1>3, <1>7, ClearingGrows
<1> HIDE DEF five
<1>9. five \o ResetErrors \in Seq(Accesses)
      /\ Clearing(five \o ResetErrors, 1, Len(five \o ResetErrors))
  BY <1>3, <1>8, ClearingGrows
<1>10. QED
  BY <1>9 DEF ResetGroups, two, three, four, five

\* What a snapshot copies.
LEMMA CountersAreCopied ==
  /\ Each("copy", SnapshotOrder) \in Seq(Accesses)
  /\ Copying(Each("copy", SnapshotOrder), 1, Len(Each("copy", SnapshotOrder)))
<1> DEFINE p == Each("copy", SnapshotOrder)
           S == [op : {"copy"}, on : Watched \cap Range(SnapshotOrder), n : {0}]
<1>1. SnapshotOrder \in Seq(Counter) /\ "copy" \in Ops
  BY GroupsAreCounters DEF Ops
<1>2. /\ p \in Seq(S)
      /\ \E h : /\ h \in [1 .. Len(p) -> 1 .. Len(SnapshotOrder)]
                /\ \A i \in 1 .. Len(SnapshotOrder) : SnapshotOrder[i] \in Watched =>
                     \E a \in 1 .. Len(p) : h[a] = i
  <2>1. /\ p \in Seq(S)
        /\ \E h : /\ h \in [1 .. Len(p) -> 1 .. Len(SnapshotOrder)]
                  /\ \A a, b \in 1 .. Len(p) : a < b => h[a] < h[b]
                  /\ \A a \in 1 .. Len(p) : p[a].on = SnapshotOrder[h[a]]
                  /\ \A i \in 1 .. Len(SnapshotOrder) : SnapshotOrder[i] \in Watched =>
                       \E a \in 1 .. Len(p) : h[a] = i
    BY <1>1, EachElements
  <2> HIDE DEF p, S
  <2>2. QED
    BY <2>1
<1> HIDE DEF p, S
<1>3. \A i \in 1 .. Len(p) : p[i] \in S
  BY <1>2, ElementOfSeq
<1>4. \A a \in S : a \in Accesses /\ a.op = "copy" /\ a.on \in Watched
  BY DEF S, Accesses, Ops
<1>5. p \in Seq(Accesses) /\ Len(p) \in Nat
  BY <1>2, <1>3, <1>4, ListOfElements, LenProperties
<1>6. ASSUME Packets \subseteq Watched PROVE 1 <= Len(p)
  <2>1. 1 \in 1 .. Len(SnapshotOrder) /\ SnapshotOrder[1] = "rx_packets"
    BY GroupsAreCounters
  <2>2. "rx_packets" \in Watched
    BY <1>6 DEF Packets, Directions
  <2>3. QED
    BY <1>2, <1>5, <2>1, <2>2
<1>7. QED
  BY <1>3, <1>4, <1>5, <1>6 DEF Copying, p

\* The test in front of a critical section leads behind it.
LEMMA SectionIfInitialized ==
  ASSUME NEW p, NEW k, NEW l, Section(p, k, l)
  PROVE  Section(IfInitialized(p), 1 + k, 1 + l)
<1> DEFINE test == <<Access("ask", "none", Len(p))>>
           q    == test \o p
<1>0. p \in Seq(Accesses) /\ Len(p) \in Nat
  BY DEF Section
<1>1. /\ test \in Seq(Accesses) /\ Len(test) = 1
      /\ test[1].op = "ask" /\ test[1].n = Len(p)
  BY <1>0 DEF Access, Accesses, Ops
<1> HIDE DEF test
<1>2. /\ q \in Seq(Accesses)
      /\ Len(q) = 1 + Len(p)
      /\ q[1] = test[1]
      /\ \A i \in 1 .. Len(p) : q[1 + i] = p[i]
  <2>1. /\ q \in Seq(Accesses)
        /\ Len(q) = Len(test) + Len(p)
        /\ \A i \in 1 .. Len(test) : q[i] = test[i]
        /\ \A i \in 1 .. Len(p) : q[Len(test) + i] = p[i]
    BY <1>0, <1>1, ConcatElements
  <2>2. QED
    BY <1>1, <2>1
<1> HIDE DEF q
<1>3. \A i \in 1 .. 1 : q[i].op = "ask" /\ i + q[i].n = Len(q)
  BY <1>0, <1>1, <1>2
<1>4. 1 \in Nat /\ 1 + Len(p) <= Len(q) /\ 1 + Len(p) + 1 .. Len(q) = {}
  BY <1>0, <1>2
<1>5. Section(q, 1 + k, 1 + l)
  BY <1>2, <1>3, <1>4, SectionMoves
<1>6. QED
  BY <1>5 DEF IfInitialized, q, test

\* More behind it.
LEMMA SectionThen ==
  ASSUME NEW p, NEW k, NEW l, Section(p, k, l), NEW rest \in Seq(Accesses),
         \A i \in 1 .. Len(rest) : rest[i].op \in {"engine", "clear_enabled", "clear_initialized"}
  PROVE  Section(p \o rest, k, l)
<1> DEFINE q == p \o rest
<1>0. p \in Seq(Accesses) /\ rest \in Seq(Accesses)
  BY DEF Section
<1>1. /\ q \in Seq(Accesses)
      /\ Len(q) = Len(p) + Len(rest)
      /\ \A i \in 1 .. Len(p) : q[i] = p[i]
      /\ \A i \in 1 .. Len(rest) : q[Len(p) + i] = rest[i]
      /\ Len(p) \in Nat /\ Len(rest) \in Nat
  BY <1>0, ConcatElements
<1> HIDE DEF q
<1>2. \A i \in 0 + Len(p) + 1 .. Len(q) :
        q[i].op \in {"engine", "clear_enabled", "clear_initialized"}
  <2>1. SUFFICES ASSUME NEW i \in 0 + Len(p) + 1 .. Len(q)
                 PROVE  q[i].op \in {"engine", "clear_enabled", "clear_initialized"}
    OBVIOUS
  <2> DEFINE j == i - Len(p)
  <2>2. j \in 1 .. Len(rest) /\ i = Len(p) + j
    BY <1>1
  <2> HIDE DEF j
  <2>3. QED
    BY <1>1, <2>2
<1>3. /\ 0 \in Nat /\ 0 + Len(p) <= Len(q)
      /\ \A j \in 1 .. Len(p) : q[0 + j] = p[j]
      /\ 1 .. 0 = {}
  BY <1>1
<1>4. Section(q, 0 + k, 0 + l)
  BY <1>1, <1>2, <1>3, SectionMoves
<1>5. 0 + k = k /\ 0 + l = l
  BY DEF Section
<1>6. QED
  BY <1>4, <1>5 DEF q

\* The calls that hold the lock across accesses.
LEMMA LockingCalls ==
  /\ \E k, l : Section(Reset, k, l)
  /\ \E k, l : Section(Exit, k, l)
  /\ \E k, l : Section(GetSnapshot, k, l)
<1>1. \E k, l : Section(Reset, k, l)
  <2> DEFINE rest == <<Do("unlock"), Do("engine")>>
  <2>1. /\ rest \in Seq(Accesses) /\ Len(rest) = 2
        /\ rest[1].op = "unlock" /\ rest[2].op = "engine"
    BY DEF Do, Access, Accesses, Ops
  <2>2. Reset = IfInitialized((<<Do("lock")>> \o ResetGroups) \o rest)
    BY DEF Reset
  <2> HIDE DEF rest
  <2>3. Section((<<Do("lock")>> \o ResetGroups) \o rest, 1, Len(ResetGroups) + 2)
    <3>1. \A i \in 2 .. Len(rest) : rest[i].op \in {"engine", "clear_enabled", "clear_initialized"}
      BY <2>1
    <3>2. QED
      BY <2>1, <3>1, GroupsAreCleared, SectionCore
  <2>4. QED
    BY <2>2, <2>3, SectionIfInitialized
<1>2. \E k, l : Section(Exit, k, l)
  <2> DEFINE rest == <<Do("clear_enabled"), Do("clear_initialized")>>
  <2>1. PICK k, l : Section(Reset, k, l)
    BY <1>1
  <2>2. /\ rest \in Seq(Accesses) /\ Len(rest) = 2
        /\ rest[1].op = "clear_enabled" /\ rest[2].op = "clear_initialized"
    BY DEF Do, Access, Accesses, Ops
  <2>3. Exit = IfInitialized(Reset \o rest)
    BY DEF Exit
  <2> HIDE DEF rest
  <2>4. \A i \in 1 .. Len(rest) : rest[i].op \in {"engine", "clear_enabled", "clear_initialized"}
    BY <2>2
  <2>5. Section(Reset \o rest, k, l)
    BY <2>1, <2>2, <2>4, SectionThen
  <2>6. QED
    BY <2>3, <2>5, SectionIfInitialized
<1>3. \E k, l : Section(GetSnapshot, k, l)
  <2> DEFINE rest == <<Do("unlock")>>
             each == Each("copy", SnapshotOrder)
  <2>1. rest \in Seq(Accesses) /\ Len(rest) = 1 /\ rest[1].op = "unlock"
    BY DEF Do, Access, Accesses, Ops
  <2>2. GetSnapshot = IfInitialized((<<Do("lock")>> \o each) \o rest)
    BY DEF GetSnapshot
  <2>3. each \in Seq(Accesses) /\ Copying(each, 1, Len(each))
    BY CountersAreCopied
  <2> HIDE DEF rest, each
  <2>4. Section((<<Do("lock")>> \o each) \o rest, 1, Len(each) + 2)
    <3>1. \A i \in 2 .. Len(rest) : rest[i].op \in {"engine", "clear_enabled", "clear_initialized"}
      BY <2>1
    <3>2. QED
      BY <2>1, <2>3, <3>1, SectionCore
  <2>5. QED
    BY <2>2, <2>4, SectionIfInitialized
<1>4. QED
  BY <1>1, <1>2, <1>3

\* The calls that read without the lock.
LEMMA ReadersAreOpen ==
  /\ Open(Dump) /\ Open(DumpPackets) /\ Open(DumpProtocols) /\ Open(DumpRules)
  /\ Open(DumpErrors)
  /\ \A p \in Readers : Open(p)
<1>1. /\ PacketCounters \in Seq(Counter) /\ ProtocolCounters \in Seq(Counter)
      /\ RuleCounters \in Seq(Counter) /\ ErrorCounters \in Seq(Counter)
  BY GroupsAreCounters
<1>2. Range(ParserCounters) \cup Range(DecisionCounters) \cup Range(PacketCounters) \subseteq Counter
  BY DEF Counter
<1>3. <<"parse_errors", "malformed_packets">> \o ErrorCounters \in Seq(Counter)
  <2>1. "parse_errors" \in Range(ParserCounters) /\ "malformed_packets" \in Range(ParserCounters)
    BY DEF Range, ParserCounters
  <2>2. <<"parse_errors", "malformed_packets">> \in Seq(Counter)
    BY <1>2, <2>1
  <2>3. QED
    BY <1>1, <2>2
<1>4. Open(<<Do("engine")>>)
  BY OpenOne
<1>5. Open(DumpPackets)
  BY <1>1, OpenReads DEF DumpPackets
<1>6. Open(DumpProtocols)
  BY <1>1, OpenReads DEF DumpProtocols
<1>7. Open(DumpRules)
  <2>1. Open(Reads(RuleCounters))
    BY <1>1, OpenReads
  <2>2. QED
    BY <1>4, <2>1, OpenConcat DEF DumpRules
<1>8. Open(DumpErrors)
  BY <1>3, OpenReads DEF DumpErrors
<1>9. Open(Dump)
  <2>1. Open(DumpPackets \o DumpProtocols)
    BY <1>5, <1>6, OpenConcat
  <2>2. Open((DumpPackets \o DumpProtocols) \o DumpRules)
    BY <1>7, <2>1, OpenConcat
  <2>3. Open(((DumpPackets \o DumpProtocols) \o DumpRules) \o DumpErrors)
    BY <1>8, <2>2, OpenConcat
  <2>4. QED
    BY <2>3, OpenIfInitialized DEF Dump
<1>10. ASSUME NEW p \in Readers PROVE Open(p)
  <2>1. CASE \E c \in Range(PacketCounters) : p = Reads(<<c>>)
    <3>1. PICK c \in Range(PacketCounters) : p = Reads(<<c>>)
      BY <2>1
    <3>2. <<c>> \in Seq(Counter)
      BY <1>2
    <3>3. QED
      BY <3>1, <3>2, OpenReads
  <2>2. CASE \E pair \in {<<"rx_allowed", "tx_allowed">>, <<"rx_dropped", "tx_dropped">>,
                          <<"rx_monitored", "tx_monitored">>} : p = Reads(pair)
    <3>1. {"rx_allowed", "rx_dropped", "rx_monitored", "tx_allowed", "tx_dropped",
           "tx_monitored"} \subseteq Counter
      <4>1. {"rx_allowed", "rx_dropped", "rx_monitored", "tx_allowed", "tx_dropped",
             "tx_monitored"} \subseteq Range(DecisionCounters)
        BY DEF Range, DecisionCounters
      <4>2. QED
        BY <1>2, <4>1
    <3>2. /\ <<"rx_allowed", "tx_allowed">> \in Seq(Counter)
          /\ <<"rx_dropped", "tx_dropped">> \in Seq(Counter)
          /\ <<"rx_monitored", "tx_monitored">> \in Seq(Counter)
      BY <3>1
    <3>3. QED
      BY <2>2, <3>2, OpenReads
  <2>3. QED
    BY <2>1, <2>2 DEF Readers
<1>11. QED
  BY <1>5, <1>6, <1>7, <1>8, <1>9, <1>10

\* The calls that reset one group.
LEMMA GroupResetsAreOpen ==
  Open(ResetDecisions) /\ Open(ResetProtocols) /\ Open(ResetParser) /\ Open(ResetErrors)
<1>1. /\ DecisionCounters \in Seq(Counter) /\ ProtocolCounters \in Seq(Counter)
      /\ ParserCounters \in Seq(Counter) /\ ErrorCounters \in Seq(Counter)
      /\ Range(DecisionCounters) \cap LockedCounters = {}
      /\ Range(ProtocolCounters) \cap LockedCounters = {}
      /\ Range(ParserCounters) \cap LockedCounters = {}
      /\ Range(ErrorCounters) \cap LockedCounters = {}
  BY GroupsAreCounters
<1>2. QED
  BY <1>1, OpenEach, OpenIfInitialized
     DEF ResetDecisions, ResetProtocols, ResetParser, ResetErrors

\* Whatever a call does is a program.
LEMMA BodiesArePrograms ==
  ASSUME NEW call \in Calls, NEW p \in Body[call]
  PROVE  \E k, l : Program(p, k, l)
<1>0. Open(p) => \E k, l : Program(p, k, l)
  BY DEF Program
<1>1. call \in RecordingCalls
        \cup {"enable", "disable", "reset", "reset_part", "exit", "get_snapshot", "dump",
              "read", "get_rule_stats"}
  BY CallsAssumption DEF Body, RecordingCalls
<1>2. CASE call \in RecordingCalls
  BY <1>0, <1>2, RecordersAreOpen
<1>3. CASE call \in {"enable", "disable"}
  <2>1. /\ Body["enable"] = {IfInitialized(<<Do("enable")>>)}
        /\ Body["disable"] = {IfInitialized(<<Do("disable")>>)}
    BY DEF Body
  <2>2. QED
    BY <1>0, <1>3, <2>1, OpenOne, OpenIfInitialized
<1>4. CASE call \in {"reset", "exit", "get_snapshot"}
  <2>1. /\ Body["reset"] = {Reset} /\ Body["exit"] = {Exit}
        /\ Body["get_snapshot"] = {GetSnapshot}
    BY DEF Body
  <2>2. QED
    BY <1>4, <2>1, LockingCalls DEF Program
<1>5. CASE call = "reset_part"
  <2>1. Body["reset_part"] = {ResetDecisions, ResetProtocols, ResetParser, ResetErrors}
    BY DEF Body
  <2>2. QED
    BY <1>0, <1>5, <2>1, GroupResetsAreOpen
<1>6. CASE call \in {"dump", "read"}
  <2>1. /\ Body["dump"] = {Dump, DumpPackets, DumpProtocols, DumpRules, DumpErrors}
        /\ Body["read"] = Readers
    BY DEF Body
  <2>2. QED
    BY <1>0, <1>6, <2>1, ReadersAreOpen
<1>7. CASE call = "get_rule_stats"
  <2>1. Body["get_rule_stats"] = {GetRuleStats}
    BY DEF Body
  <2>2. QED
    BY <1>0, <1>7, <2>1, OpenOne, OpenIfInitialized DEF GetRuleStats
<1>8. QED
  BY <1>1, <1>2, <1>3, <1>4, <1>5, <1>6, <1>7

-----------------------------------------------------------------------------
(* Where the threads are.                                                  *)

\* What is left of a program behind its first pc accesses.
Rest(p, pc) == SubSeq(p, pc + 1, Len(p))

\* What is left is the accesses behind those done,
LEMMA RestElements ==
  ASSUME NEW p \in Seq(Accesses), NEW pc \in 0 .. Len(p)
  PROVE  /\ Rest(p, pc) \in Seq(Accesses)
         /\ Len(Rest(p, pc)) = Len(p) - pc
         /\ DOMAIN Rest(p, pc) = 1 .. Len(p) - pc
         /\ \A i \in 1 .. Len(p) - pc : Rest(p, pc)[i] = p[pc + i]
BY DEF Rest

\* ... and what is left of that is left of the program.
LEMMA RestOfRest ==
  ASSUME NEW p \in Seq(Accesses), NEW pc \in 0 .. Len(p), NEW count \in 0 .. Len(p) - pc
  PROVE  SubSeq(Rest(p, pc), count + 1, Len(Rest(p, pc))) = Rest(p, pc + count)
<1> DEFINE r == Rest(p, pc)
           n == Len(p) - pc
<1>1. /\ r \in Seq(Accesses) /\ Len(r) = n /\ n \in Nat
      /\ \A i \in 1 .. n : r[i] = p[pc + i]
  BY RestElements
<1>2. pc + count \in 0 .. Len(p) /\ Len(p) - (pc + count) = n - count
  OBVIOUS
<1>3. /\ Rest(p, pc + count) \in Seq(Accesses)
      /\ Len(Rest(p, pc + count)) = n - count
      /\ \A i \in 1 .. n - count : Rest(p, pc + count)[i] = p[pc + count + i]
  BY <1>2, RestElements
<1> DEFINE s == SubSeq(r, count + 1, Len(r))
<1> HIDE DEF r
<1>4. /\ s \in Seq(Accesses) /\ Len(s) = n - count
      /\ \A i \in 1 .. n - count : s[i] = r[count + i]
  BY <1>1, SMTT(30)
<1>5. \A i \in 1 .. n - count : s[i] = Rest(p, pc + count)[i]
  <2>1. SUFFICES ASSUME NEW i \in 1 .. n - count PROVE s[i] = Rest(p, pc + count)[i]
    OBVIOUS
  <2>2. count + i \in 1 .. n /\ pc + (count + i) = pc + count + i
    BY <1>1
  <2>3. QED
    BY <1>1, <1>3, <1>4, <2>2
<1> HIDE DEF s, n
<1>6. s = Rest(p, pc + count)
  BY <1>3, <1>4, <1>5
<1>7. QED
  BY <1>6 DEF s, r

\* A snapshot under way has no more than the lock has seen.
Whole ==
  \A c \in Watched \cap LockedCounters :
    /\ before[c] <= counter[c]
    /\ c \in DOMAIN snapshot => before[c] <= snapshot[c] /\ snapshot[c] <= counter[c]

\* ... where it is a snapshot that has the lock; a reset copies nothing.
SnapAt(p, k, l) == IF Copying(p, k + 1, l - 1) THEN Whole ELSE snapshot = <<>>

\* A thread is in a program and has the lock between k and l.
Place(t, p, k, l, pc) ==
  /\ Program(p, k, l)
  /\ pc \in 0 .. Len(p)
  /\ todo[t] = Rest(p, pc)
  /\ holder = t <=> (k <= pc /\ pc < l)
  /\ holder = t => SnapAt(p, k, l)

PlaceInv == \A t \in Threads : \E p, k, l, pc : Place(t, p, k, l, pc)

TypeInv ==
  /\ initialized \in BOOLEAN
  /\ enabled \in BOOLEAN
  /\ counter \in [Watched -> Nat]
  /\ holder \in Threads \cup {NoThread}
  /\ todo \in [Threads -> Seq(Accesses)]
  /\ DOMAIN snapshot \subseteq Watched
  /\ \A c \in DOMAIN snapshot : snapshot[c] \in Nat
  /\ holder = NoThread => snapshot = <<>>
  /\ before \in [Watched -> Nat]
  /\ torn \in Nat

Inv == TypeInv /\ PlaceInv

\* What a program may be at, by what it does next.
LEMMA ProgramSteps ==
  ASSUME NEW p, NEW k, NEW l, Program(p, k, l), NEW pc \in 0 .. Len(p), pc < Len(p)
  PROVE  LET a == p[pc + 1] IN
         /\ p \in Seq(Accesses) /\ Len(p) \in Nat /\ a \in Accesses /\ k \in Nat /\ l \in Nat
         /\ a.op \in {"look", "add", "print", "enable", "disable"} =>
              Open(p) /\ k = 0 /\ l = 0
         /\ a.op = "lock" => Section(p, k, l) /\ pc + 1 = k /\ k < l
         /\ a.op = "unlock" => Section(p, k, l) /\ pc + 1 = l /\ k < l
         /\ a.op = "copy" => /\ Section(p, k, l) /\ k < pc + 1 /\ pc + 1 < l
                             /\ Copying(p, k + 1, l - 1) /\ a.on \in Watched
         /\ a.op = "zero" =>
              \/ Open(p) /\ k = 0 /\ l = 0 /\ a.on \in Watched \ LockedCounters
              \/ /\ Section(p, k, l) /\ k < pc + 1 /\ pc + 1 < l
                 /\ Clearing(p, k + 1, l - 1) /\ ~ Copying(p, k + 1, l - 1)
                 /\ a.on \in Watched
         /\ a.op \in {"engine", "clear_enabled", "clear_initialized"} =>
              (Open(p) /\ k = 0 /\ l = 0) \/ (Section(p, k, l) /\ pc + 1 > l)
         /\ a.op = "ask" =>
              \/ Open(p) /\ k = 0 /\ l = 0
              \/ /\ Section(p, k, l) /\ pc + 1 < k /\ l <= pc + 1 + a.n
                 /\ pc + 1 + a.n <= Len(p)
              \/ Section(p, k, l) /\ k < pc + 1 /\ pc + 1 + a.n < l /\ pc + 1 < l
<1> DEFINE m == pc + 1
           a == p[m]
<1>1. p \in Seq(Accesses) /\ Len(p) \in Nat /\ m \in 1 .. Len(p) /\ pc \in Nat
  BY DEF Program, Open, Section
<1>2. a \in Accesses /\ a.n \in Nat /\ a.op \in Ops
  BY <1>1, ElementOfSeq, AccessFields
<1>3. CASE Open(p) /\ k = 0 /\ l = 0
  <2>1. /\ a.op \notin {"lock", "unlock", "copy"}
        /\ a.op = "zero" => a.on \in Watched \ LockedCounters
    BY <1>1, <1>3 DEF Open
  <2>2. QED
    BY <1>1, <1>2, <1>3, <2>1
<1>4. CASE Section(p, k, l)
  <2>1. /\ k \in 1 .. Len(p) /\ l \in 1 .. Len(p) /\ k < l
        /\ p[k].op = "lock" /\ p[l].op = "unlock"
        /\ Copying(p, k + 1, l - 1) \/ Clearing(p, k + 1, l - 1)
    BY <1>4 DEF Section
  <2>2. m \in 1 .. k - 1 \/ m = k \/ m \in k + 1 .. l - 1 \/ m = l \/ m \in l + 1 .. Len(p)
    BY <1>1, <2>1
  <2>3. CASE m \in 1 .. k - 1
    <3>1. a.op = "ask" /\ l <= m + a.n /\ m + a.n <= Len(p)
      BY <1>4, <2>3 DEF Section
    <3>2. QED
      BY <1>1, <1>2, <1>4, <2>1, <2>3, <3>1
  <2>4. CASE m = k
    BY <1>1, <1>2, <1>4, <2>1, <2>4
  <2>5. CASE m \in k + 1 .. l - 1 /\ Copying(p, k + 1, l - 1)
    <3>1. a.op = "copy" /\ a.on \in Watched
      BY <2>5 DEF Copying
    <3>2. QED
      BY <1>1, <1>2, <1>4, <2>1, <2>5, <3>1
  <2>6. CASE m \in k + 1 .. l - 1 /\ Clearing(p, k + 1, l - 1)
    <3>1. /\ a.op \in {"zero", "ask"}
          /\ a.op = "zero" => a.on \in Watched
          /\ a.op = "ask" => m + a.n <= l - 1
      BY <2>6 DEF Clearing
    <3>2. ~ Copying(p, k + 1, l - 1)
      BY <2>6, <3>1 DEF Copying
    <3>3. k < m /\ m < l /\ (a.op = "ask" => m + a.n < l) /\ m = pc + 1
      <4> DEFINE n == a.n
      <4>1. n \in Nat /\ (a.op = "ask" => m + n <= l - 1)
        BY <1>2, <3>1
      <4> HIDE DEF n, a
      <4>2. a.op = "ask" => m + n < l
        BY <1>1, <2>1, <4>1
      <4>3. QED
        BY <1>1, <2>1, <2>6, <4>2 DEF n
    <3>4. k \in Nat /\ l \in Nat
      BY <2>1
    <3>5. /\ p[pc + 1] \in Accesses
          /\ k < pc + 1 /\ pc + 1 < l
          /\ p[pc + 1].op = "zero" => p[pc + 1].on \in Watched
          /\ p[pc + 1].op = "ask" => pc + 1 + p[pc + 1].n < l
      BY <1>2, <3>1, <3>3
    <3>6. p[pc + 1].op = "zero" \/ p[pc + 1].op = "ask"
      BY <3>1
    <3> HIDE DEF m, a
    <3>7. CASE p[pc + 1].op = "zero"
      BY <1>1, <1>4, <2>6, <3>2, <3>4, <3>5, <3>7
    <3>8. CASE p[pc + 1].op = "ask"
      BY <1>1, <1>4, <3>4, <3>5, <3>8
    <3>9. QED
      BY <3>6, <3>7, <3>8
  <2>7. CASE m = l
    BY <1>1, <1>2, <1>4, <2>1, <2>7
  <2>8. CASE m \in l + 1 .. Len(p)
    <3>1. a.op \in {"engine", "clear_enabled", "clear_initialized"}
      BY <1>4, <2>8 DEF Section
    <3>2. QED
      BY <1>1, <1>2, <1>4, <2>1, <2>8, <3>1
  <2>9. QED
    BY <2>1, <2>2, <2>3, <2>4, <2>5, <2>6, <2>7, <2>8
<1>5. QED
  BY <1>3, <1>4 DEF Program

\* Something that neither takes nor gives back the lock leaves it as it is,
\* and a test leads to a place in the program.
LEMMA ProgramStays ==
  ASSUME NEW p, NEW k, NEW l, Program(p, k, l), NEW pc \in 0 .. Len(p), pc < Len(p),
         p[pc + 1].op \notin {"lock", "unlock"},
         NEW count \in Nat,
         \/ count = 1
         \/ p[pc + 1].op \in {"ask", "look"} /\ count = 1 + p[pc + 1].n
  PROVE  /\ pc + count \in 0 .. Len(p)
         /\ (k <= pc + count /\ pc + count < l) <=> (k <= pc /\ pc < l)
<1> DEFINE a == p[pc + 1]
<1>1. /\ p \in Seq(Accesses) /\ Len(p) \in Nat /\ a \in Accesses
      /\ k \in Nat /\ l \in Nat /\ pc \in Nat /\ a.n \in Nat /\ a.op \in Ops
  BY ProgramSteps, AccessFields
<1>2. CASE Open(p) /\ k = 0 /\ l = 0
  <2>1. a.op \in {"ask", "look"} => pc + 1 + a.n <= Len(p)
    BY <1>1, <1>2 DEF Open, TestsLead
  <2>2. QED
    BY <1>1, <1>2, <2>1
<1>3. CASE Section(p, k, l)
  <2>1. a.op # "look"
    <3>1. CASE a.op = "look"
      <4>1. k = 0
        BY <3>1, ProgramSteps
      <4>2. QED
        BY <1>3, <4>1 DEF Section
    <3>2. QED
      BY <3>1
  <2>2. /\ k \in 1 .. Len(p) /\ l \in 1 .. Len(p) /\ k < l
        /\ p[k].op = "lock" /\ p[l].op = "unlock"
    BY <1>3 DEF Section
  <2>3. pc + 1 # k /\ pc + 1 # l
    BY <2>2
  <2>4. CASE count = 1
    BY <1>1, <2>2, <2>3, <2>4
  <2>5. CASE a.op = "ask" /\ count = 1 + a.n
    <3>1. \/ pc + 1 < k /\ l <= pc + 1 + a.n /\ pc + 1 + a.n <= Len(p)
          \/ k < pc + 1 /\ pc + 1 + a.n < l
      BY <1>3, <2>2, <2>5, ProgramSteps
    <3> DEFINE n == a.n
    <3>2. n \in Nat /\ count = 1 + n
      BY <1>1, <2>5
    <3>3. \/ pc + 1 < k /\ l <= pc + 1 + n /\ pc + 1 + n <= Len(p)
          \/ k < pc + 1 /\ pc + 1 + n < l
      BY <3>1
    <3> HIDE DEF n, a
    <3>4. QED
      BY <1>1, <2>2, <2>3, <3>2, <3>3
  <2>6. QED
    BY <2>1, <2>4, <2>5
<1>4. QED
  BY <1>2, <1>3 DEF Program

-----------------------------------------------------------------------------
(* The steps keep the threads in their programs.                           *)

\* No thread is in a call at the start.
LEMMA InitInv == Init => Inv
<1> SUFFICES ASSUME Init PROVE Inv
  OBVIOUS
<1>1. <<>> \in Seq(Accesses) /\ Len(<<>>) = 0
  OBVIOUS
<1>2. TypeInv
  BY <1>1 DEF Init, TypeInv, Zero
<1>3. ASSUME NEW t \in Threads PROVE Place(t, <<>>, 0, 0, 0)
  <2>1. Program(<<>>, 0, 0)
    BY <1>1 DEF Program, Open
  <2>2. Rest(<<>>, 0) = <<>>
    BY DEF Rest
  <2>3. todo[t] = <<>> /\ holder # t
    BY NoThreadAssumption DEF Init
  <2>4. QED
    BY <1>1, <2>1, <2>2, <2>3 DEF Place
<1>4. QED
  BY <1>2, <1>3 DEF Inv, PlaceInv

\* A thread that is at something is at it in its program.
LEMMA ThreadAt ==
  ASSUME Inv, NEW t \in Threads, todo[t] # <<>>
  PROVE  \E p, k, l, pc : /\ Place(t, p, k, l, pc)
                          /\ pc \in 0 .. Len(p) /\ pc < Len(p)
                          /\ Current(t) = p[pc + 1]
<1>1. PICK p, k, l, pc : Place(t, p, k, l, pc)
  BY DEF Inv, PlaceInv
<1>2. p \in Seq(Accesses) /\ pc \in 0 .. Len(p) /\ todo[t] = Rest(p, pc)
  BY <1>1 DEF Place, Program, Open, Section
<1>3. /\ Rest(p, pc) \in Seq(Accesses)
      /\ Len(Rest(p, pc)) = Len(p) - pc
      /\ \A i \in 1 .. Len(p) - pc : Rest(p, pc)[i] = p[pc + i]
  BY <1>2, RestElements
<1>4. Len(p) \in Nat /\ pc < Len(p)
  <2>1. Rest(p, pc) # <<>>
    BY <1>2
  <2>2. QED
    BY <1>2, <1>3, <2>1
<1>5. Current(t) = Rest(p, pc)[1] /\ 1 \in 1 .. Len(p) - pc
  BY <1>2, <1>3, <1>4 DEF Current
<1>6. QED
  BY <1>1, <1>2, <1>3, <1>4, <1>5

\* A thread that goes on in its program goes on in it.
LEMMA AdvanceRest ==
  ASSUME Inv, NEW t \in Threads, NEW p, NEW k, NEW l, NEW pc, Place(t, p, k, l, pc),
         NEW count \in Nat, pc + count \in 0 .. Len(p), Advance(t, count)
  PROVE  /\ todo' \in [Threads -> Seq(Accesses)]
         /\ todo'[t] = Rest(p, pc + count)
         /\ \A u \in Threads \ {t} : todo'[u] = todo[u]
<1>1. p \in Seq(Accesses) /\ pc \in 0 .. Len(p) /\ todo[t] = Rest(p, pc)
  BY DEF Place, Program, Open, Section
<1>2. count \in 0 .. Len(p) - pc
  BY <1>1
<1>3. SubSeq(todo[t], count + 1, Len(todo[t])) = Rest(p, pc + count)
  BY <1>1, <1>2, RestOfRest
<1>4. Rest(p, pc + count) \in Seq(Accesses)
  BY <1>1, RestElements
<1>5. todo \in [Threads -> Seq(Accesses)]
  BY DEF Inv, TypeInv
<1>6. todo' = [todo EXCEPT ![t] = Rest(p, pc + count)]
  BY <1>3, <1>5 DEF Advance
<1>7. QED
  BY <1>4, <1>5, <1>6

\* ... and so do the others, if the lock and the snapshot stay in order.
LEMMA StepKeepsPlaces ==
  ASSUME Inv, NEW t \in Threads, NEW p, NEW k, NEW l, NEW pc, Place(t, p, k, l, pc),
         NEW count \in Nat, pc + count \in 0 .. Len(p), Advance(t, count),
         holder' = t <=> (k <= pc + count /\ pc + count < l),
         holder' = t => SnapAt(p, k, l)',
         \A u \in Threads \ {t} : holder' = u <=> holder = u,
         \A u \in Threads \ {t} : \A q, i, j :
           holder = u /\ SnapAt(q, i, j) => SnapAt(q, i, j)'
  PROVE  PlaceInv'
<1>1. /\ todo'[t] = Rest(p, pc + count)
      /\ \A u \in Threads \ {t} : todo'[u] = todo[u]
  BY AdvanceRest
<1>2. Place(t, p, k, l, pc + count)'
  BY <1>1 DEF Place
<1>3. ASSUME NEW u \in Threads \ {t}
      PROVE  \E q, i, j, at : Place(u, q, i, j, at)'
  <2>1. PICK q, i, j, at : Place(u, q, i, j, at)
    BY DEF Inv, PlaceInv
  <2>2. Place(u, q, i, j, at)'
    BY <1>1, <2>1 DEF Place
  <2>3. QED
    BY <2>2
<1>4. QED
  BY <1>2, <1>3 DEF PlaceInv

\* A step that has nothing to do with the lock or the snapshot.
LEMMA PlainStep ==
  ASSUME Inv, NEW t \in Threads, NEW p, NEW k, NEW l, NEW pc, Place(t, p, k, l, pc),
         pc < Len(p), p[pc + 1].op \notin {"lock", "unlock"},
         NEW count \in Nat,
         \/ count = 1
         \/ p[pc + 1].op \in {"ask", "look"} /\ count = 1 + p[pc + 1].n,
         Advance(t, count), holder' = holder, snapshot' = snapshot, before' = before,
         counter' \in [Watched -> Nat],
         \A c \in Watched \cap LockedCounters : counter[c] <= counter'[c]
  PROVE  PlaceInv'
<1>1. Program(p, k, l) /\ pc \in 0 .. Len(p)
  BY DEF Place
<1>2. /\ pc + count \in 0 .. Len(p)
      /\ (k <= pc + count /\ pc + count < l) <=> (k <= pc /\ pc < l)
  BY <1>1, ProgramStays
<1>3. Whole => Whole'
  <2>1. /\ counter \in [Watched -> Nat] /\ before \in [Watched -> Nat]
        /\ \A c \in DOMAIN snapshot : snapshot[c] \in Nat
    BY DEF Inv, TypeInv
  <2>2. SUFFICES ASSUME Whole, NEW c \in Watched \cap LockedCounters
                 PROVE  /\ before[c] <= counter'[c]
                        /\ c \in DOMAIN snapshot =>
                             before[c] <= snapshot[c] /\ snapshot[c] <= counter'[c]
    BY DEF Whole
  <2>3. /\ before[c] <= counter[c]
        /\ c \in DOMAIN snapshot => before[c] <= snapshot[c] /\ snapshot[c] <= counter[c]
    BY <2>2 DEF Whole
  <2>4. counter[c] \in Nat /\ counter'[c] \in Nat /\ before[c] \in Nat /\ counter[c] <= counter'[c]
    BY <2>1
  <2>5. QED
    BY <2>1, <2>3, <2>4
<1>4. \A q, i, j : SnapAt(q, i, j) => SnapAt(q, i, j)'
  BY <1>3 DEF SnapAt
<1>5. holder' = t <=> (k <= pc + count /\ pc + count < l)
  BY <1>2 DEF Place
<1>6. holder' = t => SnapAt(p, k, l)'
  BY <1>4 DEF Place
<1>7. QED
  BY <1>2, <1>4, <1>5, <1>6, StepKeepsPlaces

\* A call is at the start of its program.
LEMMA CallInv == ASSUME Inv, NEW t \in Threads, Call(t) PROVE Inv'
<1>0. PICK call \in Calls : \E body \in Body[call] : todo' = [todo EXCEPT ![t] = body]
  BY DEF Call
<1>1. PICK body \in Body[call] : todo' = [todo EXCEPT ![t] = body]
  BY <1>0
<1>2. PICK k, l : Program(body, k, l)
  BY <1>1, BodiesArePrograms
<1>3. /\ body \in Seq(Accesses) /\ Len(body) \in Nat
      /\ ~ (k <= 0 /\ 0 < l)
  BY <1>2 DEF Program, Open, Section
<1>4. todo[t] = <<>> /\ todo \in [Threads -> Seq(Accesses)]
  BY DEF Call, Inv, TypeInv
<1>5. holder # t
  <2>1. PICK p, i, j, pc : Place(t, p, i, j, pc)
    BY DEF Inv, PlaceInv
  <2>2. p \in Seq(Accesses) /\ pc \in 0 .. Len(p) /\ Rest(p, pc) = <<>> /\ Program(p, i, j)
    BY <1>4, <2>1 DEF Place, Program, Open, Section
  <2>3. pc = Len(p)
    <3>1. Len(Rest(p, pc)) = Len(p) - pc
      BY <2>2, RestElements
    <3>2. QED
      BY <2>2, <3>1
  <2>4. ~ (pc < j)
    BY <2>2, <2>3 DEF Program, Section
  <2>5. QED
    BY <2>1, <2>4 DEF Place
<1>6. Rest(body, 0) = body /\ 0 \in 0 .. Len(body)
  <2>1. SubSeq(body, 1, Len(body)) = body
    BY <1>3, SubSeqFull
  <2>2. QED
    BY <1>3, <2>1 DEF Rest
<1>7. todo'[t] = body /\ \A u \in Threads \ {t} : todo'[u] = todo[u]
  BY <1>1, <1>4
<1>8. UNCHANGED <<initialized, enabled, counter, holder, snapshot, before, torn>>
  BY DEF Call, stateVars, lockVars
<1>9. TypeInv'
  <2>1. todo' \in [Threads -> Seq(Accesses)]
    BY <1>1, <1>3, <1>4
  <2>2. QED
    BY <1>8, <2>1 DEF Inv, TypeInv
<1>10. Place(t, body, k, l, 0)'
  BY <1>2, <1>3, <1>5, <1>6, <1>7, <1>8 DEF Place
<1>11. ASSUME NEW u \in Threads \ {t}
       PROVE  \E q, i, j, at : Place(u, q, i, j, at)'
  <2>1. PICK q, i, j, at : Place(u, q, i, j, at)
    BY DEF Inv, PlaceInv
  <2>2. SnapAt(q, i, j)' <=> SnapAt(q, i, j)
    BY <1>8 DEF SnapAt, Whole
  <2>3. Place(u, q, i, j, at)'
    BY <1>7, <1>8, <2>1, <2>2 DEF Place
  <2>4. QED
    BY <2>3
<1>12. QED
  BY <1>9, <1>10, <1>11 DEF Inv, PlaceInv

\* What goes on with one access that only concerns the thread itself.
LEMMA TestInv ==
  ASSUME Inv, NEW t \in Threads, Ask(t) \/ Look(t) \/ Switch(t) \/ ClearFlag(t) \/ Pass(t)
  PROVE  Inv'
<1>1. todo[t] # <<>>
  BY DEF Ask, Look, Switch, ClearFlag, Pass, At
<1>2. PICK p, k, l, pc : /\ Place(t, p, k, l, pc)
                         /\ pc \in 0 .. Len(p) /\ pc < Len(p)
                         /\ Current(t) = p[pc + 1]
  BY <1>1, ThreadAt
<1>3. p[pc + 1] \in Accesses /\ p[pc + 1].n \in Nat
  BY <1>2, ProgramSteps, AccessFields DEF Place
<1>4. \E count \in Nat : /\ \/ count = 1
                            \/ p[pc + 1].op \in {"ask", "look"} /\ count = 1 + p[pc + 1].n
                         /\ Advance(t, count)
  <2>1. CASE Ask(t) \/ Look(t)
    <3>1. p[pc + 1].op \in {"ask", "look"}
      BY <1>2, <2>1 DEF Ask, Look, At
    <3>2. \E flag \in BOOLEAN : Advance(t, 1 + IF flag THEN 0 ELSE p[pc + 1].n)
      BY <1>2, <2>1 DEF Ask, Look, Inv, TypeInv
    <3>3. PICK flag \in BOOLEAN : Advance(t, 1 + IF flag THEN 0 ELSE p[pc + 1].n)
      BY <3>2
    <3>4. CASE flag
      <4>1. Advance(t, 1)
        BY <3>3, <3>4 DEF Advance
      <4>2. QED
        BY <4>1
    <3>5. CASE ~ flag
      <4>1. Advance(t, 1 + p[pc + 1].n) /\ 1 + p[pc + 1].n \in Nat
        BY <1>3, <3>3, <3>5 DEF Advance
      <4>2. QED
        BY <3>1, <4>1
    <3>6. QED
      BY <3>4, <3>5
  <2>2. CASE Switch(t) \/ ClearFlag(t) \/ Pass(t)
    <3>1. Advance(t, 1)
      BY <2>2 DEF Switch, ClearFlag, Pass
    <3>2. QED
      BY <3>1
  <2>3. QED
    BY <2>1, <2>2
<1>5. PICK count \in Nat : /\ \/ count = 1
                              \/ p[pc + 1].op \in {"ask", "look"} /\ count = 1 + p[pc + 1].n
                           /\ Advance(t, count)
  BY <1>4
<1>6. p[pc + 1].op \notin {"lock", "unlock"}
  BY <1>2 DEF Ask, Look, Switch, ClearFlag, Pass, At
<1>7. UNCHANGED <<counter, holder, snapshot, before, torn>>
  BY DEF Ask, Look, Switch, ClearFlag, Pass, lockVars, stateVars
<1>8. initialized' \in BOOLEAN /\ enabled' \in BOOLEAN
  BY DEF Ask, Look, Switch, ClearFlag, Pass, stateVars, Inv, TypeInv
<1>9. todo' \in [Threads -> Seq(Accesses)]
  <2>1. pc + count \in 0 .. Len(p)
    BY <1>2, <1>5, <1>6, ProgramStays DEF Place
  <2>2. QED
    BY <1>2, <1>5, <2>1, AdvanceRest
<1>10. TypeInv'
  BY <1>7, <1>8, <1>9 DEF Inv, TypeInv
<1>11. counter' \in [Watched -> Nat] /\ \A c \in Watched \cap LockedCounters : counter[c] <= counter'[c]
  BY <1>7 DEF Inv, TypeInv
<1>12. PlaceInv'
  BY <1>2, <1>5, <1>6, <1>7, <1>11, PlainStep
<1>13. QED
  BY <1>10, <1>12 DEF Inv

\* An addition makes no counter less.
LEMMA IncreaseInv == ASSUME Inv, NEW t \in Threads, Increase(t) PROVE Inv'
<1>1. todo[t] # <<>>
  BY DEF Increase, At
<1>2. PICK p, k, l, pc : /\ Place(t, p, k, l, pc)
                         /\ pc \in 0 .. Len(p) /\ pc < Len(p)
                         /\ Current(t) = p[pc + 1]
  BY <1>1, ThreadAt
<1>3. p[pc + 1].op = "add" /\ p[pc + 1] \in Accesses /\ p[pc + 1].n \in Nat
  BY <1>2, ProgramSteps, AccessFields DEF Place, Increase, At
<1>4. /\ counter' = [counter EXCEPT ![p[pc + 1].on] = @ + p[pc + 1].n]
      /\ Advance(t, 1)
      /\ UNCHANGED <<initialized, enabled, holder, snapshot, before, torn>>
  BY <1>2 DEF Increase, stateVars, lockVars
<1>5. /\ counter' \in [Watched -> Nat]
      /\ \A c \in Watched : counter[c] <= counter'[c]
  <2>1. counter \in [Watched -> Nat]
    BY DEF Inv, TypeInv
  <2> DEFINE a == p[pc + 1]
  <2>2. a.n \in Nat /\ counter' = [counter EXCEPT ![a.on] = @ + a.n]
    BY <1>3, <1>4
  <2> HIDE DEF a
  <2>3. DOMAIN counter' = Watched /\ counter' = [c \in Watched |-> counter'[c]]
    BY <2>1, <2>2
  <2>4. \A c \in Watched :
          /\ counter[c] \in Nat
          /\ counter'[c] = IF c = a.on THEN counter[c] + a.n ELSE counter[c]
    BY <2>1, <2>2
  <2>5. \A c \in Watched : counter'[c] \in Nat /\ counter[c] <= counter'[c]
    BY <2>2, <2>4
  <2>6. QED
    BY <2>3, <2>5
<1>6. todo' \in [Threads -> Seq(Accesses)]
  <2>1. pc + 1 \in 0 .. Len(p) /\ 1 \in Nat
    BY <1>2
  <2>2. QED
    BY <1>2, <1>4, <2>1, AdvanceRest
<1>7. TypeInv'
  BY <1>4, <1>5, <1>6 DEF Inv, TypeInv
<1>8. PlaceInv'
  BY <1>2, <1>3, <1>4, <1>5, PlainStep
<1>9. QED
  BY <1>7, <1>8 DEF Inv

\* Only a full reset zeroes what a snapshot relies on, and it has the lock.
LEMMA ClearInv == ASSUME Inv, NEW t \in Threads, Clear(t) PROVE Inv'
<1>1. todo[t] # <<>>
  BY DEF Clear, At
<1>2. PICK p, k, l, pc : /\ Place(t, p, k, l, pc)
                         /\ pc \in 0 .. Len(p) /\ pc < Len(p)
                         /\ Current(t) = p[pc + 1]
  BY <1>1, ThreadAt
<1>3. p[pc + 1].op = "zero"
  BY <1>2 DEF Clear, At
<1>4. /\ counter' = [counter EXCEPT ![p[pc + 1].on] = 0]
      /\ Advance(t, 1)
      /\ UNCHANGED <<initialized, enabled, holder, snapshot, before, torn>>
  BY <1>2 DEF Clear, stateVars, lockVars
<1>5. counter \in [Watched -> Nat] /\ counter' \in [Watched -> Nat]
  BY <1>4 DEF Inv, TypeInv
<1>6. pc + 1 \in 0 .. Len(p) /\ 1 \in Nat
  BY <1>2
<1>7. todo' \in [Threads -> Seq(Accesses)]
  BY <1>2, <1>4, <1>6, AdvanceRest
<1>8. TypeInv'
  BY <1>4, <1>5, <1>7 DEF Inv, TypeInv
<1>9. CASE p[pc + 1].on \in Watched \ LockedCounters
  <2>1. \A c \in Watched \cap LockedCounters : counter'[c] = counter[c]
    BY <1>4, <1>5, <1>9
  <2>2. \A c \in Watched \cap LockedCounters : counter[c] <= counter'[c]
    BY <1>5, <2>1
  <2>3. PlaceInv'
    BY <1>2, <1>3, <1>4, <1>5, <2>2, PlainStep
  <2>4. QED
    BY <1>8, <2>3 DEF Inv
<1>10. CASE Section(p, k, l) /\ k < pc + 1 /\ pc + 1 < l /\ ~ Copying(p, k + 1, l - 1)
  <2>1. k \in Nat /\ l \in Nat /\ pc \in Nat
    BY <1>2, <1>10 DEF Section
  <2>2. holder = t /\ snapshot = <<>>
    BY <1>2, <1>10, <2>1 DEF Place, SnapAt
  <2>3. SnapAt(p, k, l)'
    BY <1>4, <1>10, <2>2 DEF SnapAt
  <2>4. holder' = t <=> (k <= pc + 1 /\ pc + 1 < l)
    BY <1>4, <1>10, <2>1, <2>2
  <2>5. PlaceInv'
    BY <1>2, <1>4, <1>6, <2>2, <2>3, <2>4, StepKeepsPlaces
  <2>6. QED
    BY <1>8, <2>5 DEF Inv
<1>11. QED
  BY <1>2, <1>3, <1>9, <1>10, ProgramSteps DEF Place

\* A copy is no less than the counter was when the lock was taken.
LEMMA CopyInv == ASSUME Inv, NEW t \in Threads, Copy(t) PROVE Inv'
<1>1. todo[t] # <<>>
  BY DEF Copy, At
<1>2. PICK p, k, l, pc : /\ Place(t, p, k, l, pc)
                         /\ pc \in 0 .. Len(p) /\ pc < Len(p)
                         /\ Current(t) = p[pc + 1]
  BY <1>1, ThreadAt
<1> DEFINE x == p[pc + 1].on
<1>3. /\ Section(p, k, l) /\ k < pc + 1 /\ pc + 1 < l /\ Copying(p, k + 1, l - 1)
      /\ x \in Watched
  <2>1. p[pc + 1].op = "copy"
    BY <1>2 DEF Copy, At
  <2>2. QED
    BY <1>2, <2>1, ProgramSteps DEF Place
<1>4. k \in Nat /\ l \in Nat /\ pc \in Nat
  BY <1>2, <1>3 DEF Section
<1>5. holder = t /\ Whole
  BY <1>2, <1>3, <1>4 DEF Place, SnapAt
<1>6. /\ snapshot' = [c \in DOMAIN snapshot \cup {x} |-> IF c = x THEN counter[c] ELSE snapshot[c]]
      /\ Advance(t, 1)
      /\ UNCHANGED <<initialized, enabled, counter, holder, before, torn>>
  BY <1>2 DEF Copy, stateVars
<1> HIDE DEF x
<1>7. /\ DOMAIN snapshot' = DOMAIN snapshot \cup {x}
      /\ \A c \in DOMAIN snapshot' : snapshot'[c] = IF c = x THEN counter[c] ELSE snapshot[c]
  BY <1>6
<1>8. pc + 1 \in 0 .. Len(p) /\ 1 \in Nat
  BY <1>2
<1>9. todo' \in [Threads -> Seq(Accesses)]
  BY <1>2, <1>6, <1>8, AdvanceRest
<1>10. counter \in [Watched -> Nat] /\ before \in [Watched -> Nat] /\ holder' # NoThread
       /\ \A c \in DOMAIN snapshot : snapshot[c] \in Nat
  BY <1>5, <1>6, NoThreadAssumption DEF Inv, TypeInv
<1>11. TypeInv'
  <2>1. /\ DOMAIN snapshot' \subseteq Watched
        /\ \A c \in DOMAIN snapshot' : snapshot'[c] \in Nat
    BY <1>3, <1>7, <1>10 DEF Inv, TypeInv
  <2>2. QED
    BY <1>6, <1>9, <1>10, <2>1 DEF Inv, TypeInv
<1>12. Whole'
  <2>1. SUFFICES ASSUME NEW c \in Watched \cap LockedCounters
                 PROVE  /\ before[c] <= counter[c]
                        /\ c \in DOMAIN snapshot' =>
                             before[c] <= snapshot'[c] /\ snapshot'[c] <= counter[c]
    BY <1>6 DEF Whole
  <2>2. /\ before[c] <= counter[c]
        /\ c \in DOMAIN snapshot => before[c] <= snapshot[c] /\ snapshot[c] <= counter[c]
    BY <1>5 DEF Whole
  <2>3. counter[c] \in Nat /\ before[c] \in Nat
    BY <1>10
  <2>4. QED
    BY <1>7, <2>2, <2>3
<1>13. SnapAt(p, k, l)'
  BY <1>3, <1>12 DEF SnapAt
<1>14. holder' = t <=> (k <= pc + 1 /\ pc + 1 < l)
  BY <1>3, <1>4, <1>5, <1>6
<1>15. PlaceInv'
  BY <1>2, <1>5, <1>6, <1>8, <1>13, <1>14, StepKeepsPlaces
<1>16. QED
  BY <1>11, <1>15 DEF Inv

\* The lock is taken where the critical section starts,
LEMMA LockInv == ASSUME Inv, NEW t \in Threads, Lock(t) PROVE Inv'
<1>1. todo[t] # <<>>
  BY DEF Lock, At
<1>2. PICK p, k, l, pc : /\ Place(t, p, k, l, pc)
                         /\ pc \in 0 .. Len(p) /\ pc < Len(p)
                         /\ Current(t) = p[pc + 1]
  BY <1>1, ThreadAt
<1>3. Section(p, k, l) /\ pc + 1 = k /\ k < l
  <2>1. p[pc + 1].op = "lock"
    BY <1>2 DEF Lock, At
  <2>2. QED
    BY <1>2, <2>1, ProgramSteps DEF Place
<1>4. k \in Nat /\ l \in Nat /\ pc \in Nat
  BY <1>2, <1>3 DEF Section
<1>5. /\ holder = NoThread /\ holder' = t /\ before' = counter
      /\ Advance(t, 1)
      /\ UNCHANGED <<initialized, enabled, counter, snapshot>>
  BY DEF Lock, stateVars
<1>6. snapshot = <<>>
  BY <1>5 DEF Inv, TypeInv
<1>7. torn' \in Nat
  <2>1. Cardinality({r \in Threads : Recording(r)}) \in Nat
    BY ThreadsAssumption, FS_Subset, FS_CardinalityType
  <2>2. torn' = torn \/ torn' = Cardinality({r \in Threads : Recording(r)})
    BY DEF Lock
  <2>3. QED
    BY <2>1, <2>2 DEF Inv, TypeInv
<1>8. pc + 1 \in 0 .. Len(p) /\ 1 \in Nat
  BY <1>2
<1>9. todo' \in [Threads -> Seq(Accesses)]
  BY <1>2, <1>5, <1>8, AdvanceRest
<1>10. TypeInv'
  BY <1>5, <1>6, <1>7, <1>9 DEF Inv, TypeInv
<1>11. SnapAt(p, k, l)'
  <2>1. \A c \in Watched : counter[c] \in Nat
    BY DEF Inv, TypeInv
  <2>2. Whole'
    BY <1>5, <1>6, <2>1 DEF Whole
  <2>3. QED
    BY <1>5, <1>6, <2>2 DEF SnapAt
<1>12. holder' = t <=> (k <= pc + 1 /\ pc + 1 < l)
  BY <1>3, <1>4, <1>5
<1>13. \A u \in Threads \ {t} : holder # u /\ holder' # u
  BY <1>5, NoThreadAssumption
<1>14. PlaceInv'
  BY <1>2, <1>5, <1>8, <1>11, <1>12, <1>13, StepKeepsPlaces
<1>15. QED
  BY <1>10, <1>14 DEF Inv

\* ... and given back where it ends.
LEMMA UnlockInv == ASSUME Inv, NEW t \in Threads, Unlock(t) PROVE Inv'
<1>1. todo[t] # <<>>
  BY DEF Unlock, At
<1>2. PICK p, k, l, pc : /\ Place(t, p, k, l, pc)
                         /\ pc \in 0 .. Len(p) /\ pc < Len(p)
                         /\ Current(t) = p[pc + 1]
  BY <1>1, ThreadAt
<1>3. Section(p, k, l) /\ pc + 1 = l /\ k < l
  <2>1. p[pc + 1].op = "unlock"
    BY <1>2 DEF Unlock, At
  <2>2. QED
    BY <1>2, <2>1, ProgramSteps DEF Place
<1>4. k \in Nat /\ l \in Nat /\ pc \in Nat
  BY <1>2, <1>3 DEF Section
<1>5. /\ holder' = NoThread /\ snapshot' = <<>> /\ before' = Zero
      /\ Advance(t, 1)
      /\ UNCHANGED <<initialized, enabled, counter, torn>>
  BY DEF Unlock, stateVars
<1>6. holder = t
  BY <1>2, <1>3, <1>4 DEF Place
<1>7. pc + 1 \in 0 .. Len(p) /\ 1 \in Nat
  BY <1>2
<1>8. todo' \in [Threads -> Seq(Accesses)]
  BY <1>2, <1>5, <1>7, AdvanceRest
<1>9. TypeInv'
  BY <1>5, <1>8 DEF Inv, TypeInv, Zero
<1>10. holder' = t <=> (k <= pc + 1 /\ pc + 1 < l)
  BY <1>3, <1>4, <1>5, NoThreadAssumption
<1>11. /\ holder' # t
       /\ \A u \in Threads \ {t} : holder # u /\ holder' # u
  BY <1>5, <1>6, NoThreadAssumption
<1>12. PlaceInv'
  BY <1>2, <1>5, <1>7, <1>10, <1>11, StepKeepsPlaces
<1>13. QED
  BY <1>9, <1>12 DEF Inv

\* No step takes a thread out of its program.
LEMMA NextInv == Inv /\ [Next]_vars => Inv'
<1> SUFFICES ASSUME Inv, [Next]_vars PROVE Inv'
  OBVIOUS
<1>1. CASE Next
  <2>1. PICK t \in Threads : Call(t) \/ Step(t)
    BY <1>1 DEF Next
  <2>2. CASE Step(t)
    BY <2>2, TestInv, IncreaseInv, ClearInv, CopyInv, LockInv, UnlockInv DEF Step
  <2>3. QED
    BY <2>1, <2>2, CallInv
<1>2. CASE UNCHANGED vars
  <2>1. \A t : \A p, k, l, pc : Place(t, p, k, l, pc)' <=> Place(t, p, k, l, pc)
    BY <1>2 DEF vars, Place, SnapAt, Whole
  <2>2. TypeInv'
    BY <1>2 DEF Inv, TypeInv, vars
  <2>3. QED
    BY <2>1, <2>2 DEF Inv, PlaceInv
<1>3. QED
  BY <1>1, <1>2

\* The inductive invariant: every thread is at a place in a program.
LEMMA SpecInv == Spec => []Inv
BY InitInv, NextInv, PTL DEF Spec

-----------------------------------------------------------------------------
(* Types, sleeping and snapshots.                                          *)

\* Every variable of the subsystem has its type, whoever is inside the lock
\* (statistics.c) will leave it, and only it has a snapshot under way.
THEOREM CountersTypesHold == Spec => []TypeOK
<1>1. Inv => TypeOK
  <2> SUFFICES ASSUME Inv PROVE TypeOK
    OBVIOUS
  <2>1. ASSUME NEW t \in Threads, NEW i \in DOMAIN todo[t]
        PROVE  todo[t][i] \in [op : Ops, on : Watched \cup {"none"}, n : Nat]
    <3>1. todo[t] \in Seq(Accesses)
      BY DEF Inv, TypeInv
    <3>2. i \in 1 .. Len(todo[t])
      BY <3>1
    <3>3. todo[t][i] \in Accesses
      BY <3>1, <3>2, ElementOfSeq
    <3>4. QED
      BY <3>3 DEF Accesses
  <2>2. ASSUME NEW t \in Threads, holder = t
        PROVE  \E i \in DOMAIN todo[t] : todo[t][i].op = "unlock"
    <3>1. PICK p, k, l, pc : Place(t, p, k, l, pc)
      BY DEF Inv, PlaceInv
    <3>2. k <= pc /\ pc < l /\ pc \in 0 .. Len(p) /\ todo[t] = Rest(p, pc)
      BY <2>2, <3>1 DEF Place
    <3>3. p \in Seq(Accesses) /\ l \in 1 .. Len(p) /\ p[l].op = "unlock"
      BY <3>1, <3>2 DEF Place, Program, Section
    <3>4. l - pc \in 1 .. Len(p) - pc /\ pc + (l - pc) = l
      BY <3>2, <3>3
    <3>5. l - pc \in DOMAIN todo[t] /\ todo[t][l - pc] = p[l]
      BY <3>2, <3>3, <3>4, RestElements
    <3>6. QED
      BY <3>3, <3>5
  <2>3. QED
    BY <2>1, <2>2 DEF TypeOK, Inv, TypeInv
<1>2. QED
  BY <1>1, SpecInv, PTL

\* pf_statistics_reset releases its lock before it calls into the rule
\* engine, whose mutex may sleep; so does every other call that locks.
THEOREM NeverSleepsHolds == Spec => []NeverSleepsLocked
<1>1. Inv => NeverSleepsLocked
  <2> SUFFICES ASSUME Inv, NEW t \in Threads, At(t, "engine"), holder = t PROVE FALSE
    BY DEF NeverSleepsLocked
  <2>1. PICK p, k, l, pc : /\ Place(t, p, k, l, pc)
                           /\ pc \in 0 .. Len(p) /\ pc < Len(p)
                           /\ Current(t) = p[pc + 1]
    BY ThreadAt DEF At
  <2>2. p[pc + 1].op = "engine" /\ Program(p, k, l) /\ k <= pc /\ pc < l
    BY <2>1 DEF At, Place
  <2>3. k \in Nat /\ l \in Nat
    BY <2>1, <2>2, ProgramSteps
  <2>4. (k = 0 /\ l = 0) \/ pc + 1 > l
    BY <2>1, <2>2, ProgramSteps
  <2>5. QED
    BY <2>1, <2>2, <2>3, <2>4
<1>2. QED
  BY <1>1, SpecInv, PTL

\* "Protects snapshot/reset operations" (statistics.h): what
\* pf_statistics_get_snapshot has copied of the counters that only a full
\* reset zeroes lies between the start of its lock and now, so no snapshot
\* shows part of a reset.
THEOREM SnapshotHolds == Spec => []SnapshotIsWhole
<1>1. Inv => SnapshotIsWhole
  <2> SUFFICES ASSUME Inv PROVE SnapshotIsWhole
    OBVIOUS
  <2>1. CASE snapshot = <<>>
    BY <2>1 DEF SnapshotIsWhole
  <2>2. CASE snapshot # <<>>
    <3>1. PICK t \in Threads : holder = t
      BY <2>2 DEF Inv, TypeInv
    <3>2. PICK p, k, l, pc : Place(t, p, k, l, pc)
      BY DEF Inv, PlaceInv
    <3>3. Whole
      BY <2>2, <3>1, <3>2 DEF Place, SnapAt
    <3>4. QED
      BY <3>3 DEF Whole, SnapshotIsWhole, Inv, TypeInv
  <2>3. QED
    BY <2>1, <2>2
<1>2. QED
  BY <1>1, SpecInv, PTL

-----------------------------------------------------------------------------
(* What a recording still owes.                                            *)

\* A thread that is not at an addition owes nothing.
LEMMA OwedOutside ==
  ASSUME NEW s \in Seq(Accesses), s = <<>> \/ s[1].op # "add", NEW c
  PROVE  OwedIn(s, c) = 0
<1>1. Due(s) = {}
  <2>1. ASSUME NEW i \in DOMAIN s, \A j \in 1 .. i : s[j].op = "add" PROVE FALSE
    <3>1. i \in 1 .. Len(s) /\ Len(s) \in Nat
      BY <2>1
    <3>2. 1 \in 1 .. i /\ s # <<>>
      BY <3>1
    <3>3. QED
      BY <2>1, <3>2
  <2>2. QED
    BY <2>1 DEF Due
<1> DEFINE due == {j \in Due(s) : s[j].on = c}
           f   == [i \in due |-> s[i].n]
<1>2. due = {}
  BY <1>1
<1> HIDE DEF due
<1>3. f \in [{} -> Nat]
  BY <1>2
<1> HIDE DEF f
<1>4. SumFunction(f) = 0
  BY <1>3, SumOfNone
<1>5. QED
  BY <1>4 DEF OwedIn, f, due

\* What is owed is a number.
LEMMA OwedIsNat ==
  ASSUME NEW s \in Seq(Accesses), NEW c
  PROVE  OwedIn(s, c) \in Nat
<1> DEFINE due == {j \in Due(s) : s[j].on = c}
           f   == [i \in due |-> s[i].n]
<1>1. due \subseteq 1 .. Len(s) /\ Len(s) \in Nat
  BY DEF Due
<1> HIDE DEF due
<1>2. IsFiniteSet(due)
  <2>1. IsFiniteSet(1 .. Len(s))
    BY <1>1, PositionsAreCounted
  <2>2. QED
    BY <1>1, <2>1, FS_Subset
<1>3. \A i \in due : s[i].n \in Nat
  BY <1>1, ElementOfSeq, AccessFields
<1>4. f \in [due -> Nat]
  BY <1>3
<1> HIDE DEF f
<1>5. SumFunction(f) \in Nat
  BY <1>2, <1>4, SumIsNat
<1>6. QED
  BY <1>5 DEF OwedIn, f, due

\* Inside a run a thread owes what is left of it.
LEMMA OwedInRun ==
  ASSUME NEW p, Open(p), NEW i \in 1 .. Len(p), p[i].op = "look",
         IsRun(p, i + 1, i + p[i].n),
         NEW pc \in i .. i + p[i].n, NEW c \in Watched
  PROVE  /\ \A j \in pc + 1 .. i + p[i].n : p[j].on = c => OwedIn(Rest(p, pc), c) = p[j].n
         /\ (\A j \in pc + 1 .. i + p[i].n : p[j].on # c) => OwedIn(Rest(p, pc), c) = 0
<1> DEFINE e   == i + p[i].n
           s   == Rest(p, pc)
           due == {j \in Due(s) : s[j].on = c}
           f   == [j \in due |-> s[j].n]
<1>1. /\ p \in Seq(Accesses) /\ Len(p) \in Nat /\ i \in Nat /\ p[i].n \in Nat
      /\ e \in Nat /\ pc \in Nat /\ i <= pc /\ pc <= e /\ e <= Len(p)
      /\ e < Len(p) => p[e + 1].op # "add"
  <2>1. p \in Seq(Accesses) /\ TestsLead(p, i)
    BY DEF Open
  <2>2. p[i].n \in Nat
    BY <2>1, ElementOfSeq, AccessFields
  <2>3. /\ e <= Len(p)
        /\ e < Len(p) => p[e + 1].op # "add"
    BY <2>1 DEF TestsLead
  <2>4. i \in Nat /\ Len(p) \in Nat /\ e \in Nat
    BY <2>1, <2>2
  <2>5. pc \in Nat /\ i <= pc /\ pc <= e
    BY <2>2, <2>4
  <2> HIDE DEF e
  <2>6. QED
    BY <2>1, <2>2, <2>3, <2>4, <2>5
<1>2. \A j \in i + 1 .. e : p[j].op = "add"
  BY DEF IsRun
<1>3. \A j, h \in i + 1 .. e : p[j].on = p[h].on => j = h
  BY DEF IsRun
<1> HIDE DEF e
<1>4. /\ s \in Seq(Accesses) /\ DOMAIN s = 1 .. Len(p) - pc
      /\ \A j \in 1 .. Len(p) - pc : s[j] = p[pc + j]
  <2>1. pc \in 0 .. Len(p)
    BY <1>1
  <2>2. QED
    BY <1>1, <2>1, RestElements
<1> HIDE DEF s
<1>5. Due(s) = 1 .. e - pc
  <2>1. ASSUME NEW j \in 1 .. e - pc PROVE j \in Due(s)
    <3>1. \A h \in 1 .. j : h \in 1 .. Len(p) - pc /\ pc + h \in i + 1 .. e
      BY <1>1
    <3>2. \A h \in 1 .. j : s[h].op = "add"
      BY <1>2, <1>4, <3>1
    <3>3. j \in DOMAIN s
      BY <1>1, <1>4
    <3>4. QED
      BY <3>2, <3>3 DEF Due
  <2>2. ASSUME NEW j \in Due(s) PROVE j \in 1 .. e - pc
    <3>1. j \in 1 .. Len(p) - pc /\ \A h \in 1 .. j : s[h].op = "add"
      BY <1>4 DEF Due
    <3>2. CASE j > e - pc
      <4>1. /\ e - pc + 1 \in 1 .. j /\ e - pc + 1 \in 1 .. Len(p) - pc
            /\ pc + (e - pc + 1) = e + 1 /\ e < Len(p)
        BY <1>1, <3>1, <3>2
      <4>2. p[e + 1].op = "add"
        BY <1>4, <3>1, <4>1
      <4>3. QED
        BY <1>1, <4>1, <4>2
    <3>3. QED
      BY <1>1, <3>1, <3>2
  <2>3. QED
    BY <2>1, <2>2
<1>6. \A j \in 1 .. e - pc : pc + j \in pc + 1 .. e /\ s[j] = p[pc + j]
  BY <1>1, <1>4, SMTT(30)
<1>7. ASSUME NEW j \in pc + 1 .. e, p[j].on = c PROVE OwedIn(s, c) = p[j].n
  <2> DEFINE x == j - pc
  <2>1. x \in 1 .. e - pc /\ pc + x = j
    BY <1>1
  <2> HIDE DEF x
  <2>2. s[x] = p[j]
    BY <1>6, <2>1
  <2>3. \A h \in 1 .. e - pc : s[h].on = c => h = x
    <3>1. \A h \in 1 .. e - pc : pc + h \in i + 1 .. e /\ j \in i + 1 .. e
      BY <1>1
    <3>2. \A h \in 1 .. e - pc : p[pc + h].on = c => pc + h = j
      BY <1>3, <1>7, <3>1
    <3>3. QED
      BY <1>1, <1>6, <2>1, <3>2
  <2>4. due = {x}
    BY <1>5, <1>7, <2>1, <2>2, <2>3
  <2>5. p[j].n \in Nat
    <3>1. j \in 1 .. Len(p)
      BY <1>1
    <3>2. QED
      BY <1>1, <3>1, ElementOfSeq, AccessFields
  <2> HIDE DEF due
  <2>6. f \in [{x} -> Nat] /\ f[x] = p[j].n
    BY <2>2, <2>4, <2>5
  <2> HIDE DEF f
  <2>7. SumFunction(f) = p[j].n
    BY <2>6, SumOfOne
  <2>8. QED
    BY <2>7 DEF OwedIn, f, due
<1>8. ASSUME \A j \in pc + 1 .. e : p[j].on # c PROVE OwedIn(s, c) = 0
  <2>1. due = {}
    BY <1>5, <1>6, <1>8
  <2> HIDE DEF due
  <2>2. f \in [{} -> Nat]
    BY <2>1
  <2> HIDE DEF f
  <2>3. SumFunction(f) = 0
    BY <2>2, SumOfNone
  <2>4. QED
    BY <2>3 DEF OwedIn, f, due
<1>9. QED
  BY <1>7, <1>8 DEF e, s

\* An addition is behind the look of its run.
LEMMA AddIsInRun ==
  ASSUME NEW p, NEW k, NEW l, Program(p, k, l), NEW pc \in 0 .. Len(p), pc < Len(p),
         p[pc + 1].op = "add"
  PROVE  /\ Open(p) /\ p \in Seq(Accesses)
         /\ \E i \in 1 .. Len(p) : /\ p[i].op = "look" /\ i <= pc /\ pc + 1 <= i + p[i].n
                                   /\ IsRun(p, i + 1, i + p[i].n) /\ p[i].n \in Nat
<1>1. Open(p) /\ p \in Seq(Accesses) /\ Len(p) \in Nat /\ pc + 1 \in 1 .. Len(p)
  BY ProgramSteps
<1>2. AddsBelong(p, pc + 1)
  BY <1>1 DEF Open
<1>3. PICK i \in 1 .. (pc + 1) - 1 : /\ p[i].op = "look" /\ pc + 1 <= i + p[i].n
                                     /\ IsRun(p, i + 1, i + p[i].n)
  BY <1>2 DEF AddsBelong
<1>4. i \in 1 .. Len(p) /\ i <= pc
  BY <1>1, <1>3
<1>5. p[i].n \in Nat
  BY <1>1, <1>4, ElementOfSeq, AccessFields
<1>6. QED
  BY <1>1, <1>3, <1>4, <1>5

\* No other access but an enabled look leads to an addition.
LEMMA LandsOutside ==
  ASSUME NEW p, NEW k, NEW l, Program(p, k, l), NEW pc \in 0 .. Len(p), pc < Len(p),
         NEW count \in Nat,
         \/ p[pc + 1].op \notin {"look", "add"} /\ count = 1
         \/ p[pc + 1].op \in {"ask", "look"} /\ count = 1 + p[pc + 1].n
  PROVE  /\ pc + count \in 0 .. Len(p)
         /\ \A c : OwedIn(Rest(p, pc + count), c) = 0
<1>1. p \in Seq(Accesses) /\ Len(p) \in Nat /\ pc + 1 \in 1 .. Len(p) /\ p[pc + 1].n \in Nat
  BY ProgramSteps, AccessFields
<1>2. pc + count \in 0 .. Len(p)
  <2>1. CASE count = 1
    BY <1>1, <2>1
  <2>2. CASE p[pc + 1].op \in {"ask", "look"} /\ count = 1 + p[pc + 1].n
    <3>1. p[pc + 1].op \notin {"lock", "unlock"}
      BY <2>2
    <3>2. QED
      BY <2>2, <3>1, ProgramStays
  <2>3. QED
    BY <2>1, <2>2
<1> DEFINE at == pc + count
<1>3. ASSUME at < Len(p), p[at + 1].op = "add" PROVE FALSE
  <2>1. PICK i \in 1 .. Len(p) : /\ p[i].op = "look" /\ i <= at /\ at + 1 <= i + p[i].n
                                 /\ IsRun(p, i + 1, i + p[i].n) /\ p[i].n \in Nat
    BY <1>2, <1>3, AddIsInRun
  <2>2. Open(p)
    BY <1>2, <1>3, AddIsInRun
  <2>3. CASE p[pc + 1].op \notin {"look", "add"} /\ count = 1
    <3>1. i # pc + 1
      BY <2>1, <2>3
    <3>2. pc + 1 \in i + 1 .. i + p[i].n
      BY <1>1, <2>1, <2>3, <3>1
    <3>3. QED
      BY <2>1, <2>3, <3>2 DEF IsRun
  <2>4. CASE p[pc + 1].op \in {"ask", "look"} /\ count = 1 + p[pc + 1].n
    <3>1. TestsLead(p, pc + 1)
      BY <1>1, <2>2 DEF Open
    <3>2. at = (pc + 1) + p[pc + 1].n
      BY <1>1, <2>4
    <3> HIDE DEF at
    <3>3. QED
      BY <1>3, <2>4, <3>1, <3>2 DEF TestsLead
  <2>5. QED
    BY <2>3, <2>4
<1> HIDE DEF at
<1>4. at \in 0 .. Len(p)
  BY <1>2 DEF at
<1>5. /\ Rest(p, at) \in Seq(Accesses) /\ Len(Rest(p, at)) = Len(p) - at
      /\ \A i \in 1 .. Len(p) - at : Rest(p, at)[i] = p[at + i]
  BY <1>1, <1>4, RestElements
<1>6. Rest(p, at) = <<>> \/ Rest(p, at)[1].op # "add"
  <2>1. CASE at = Len(p)
    BY <1>1, <1>5, <2>1
  <2>2. CASE at < Len(p)
    <3>1. 1 \in 1 .. Len(p) - at
      BY <1>1, <1>4, <2>2
    <3>2. QED
      BY <1>3, <1>5, <2>2, <3>1
  <2>3. QED
    BY <1>1, <1>4, <2>1, <2>2
<1>7. \A c : OwedIn(Rest(p, at), c) = 0
  BY <1>5, <1>6, OwedOutside
<1>8. QED
  BY <1>2, <1>7 DEF at

\* An addition pays what is owed to its counter, and nothing else.
LEMMA AddPays ==
  ASSUME NEW p, NEW k, NEW l, Program(p, k, l), NEW pc \in 0 .. Len(p), pc < Len(p),
         p[pc + 1].op = "add"
  PROVE  /\ p[pc + 1].on \in Watched
         /\ p[pc + 1].on \in Packets => p[pc + 1].n = 1
         /\ \A c \in Watched :
              OwedIn(Rest(p, pc), c) = IF c = p[pc + 1].on
                                       THEN OwedIn(Rest(p, pc + 1), c) + p[pc + 1].n
                                       ELSE OwedIn(Rest(p, pc + 1), c)
<1>1. Open(p) /\ p \in Seq(Accesses) /\ Len(p) \in Nat
  BY AddIsInRun
<1>2. PICK i \in 1 .. Len(p) : /\ p[i].op = "look" /\ i <= pc /\ pc + 1 <= i + p[i].n
                               /\ IsRun(p, i + 1, i + p[i].n) /\ p[i].n \in Nat
  BY AddIsInRun
<1> DEFINE e == i + p[i].n
<1>3. /\ e \in Nat /\ pc \in i .. e /\ pc + 1 \in i .. e /\ pc + 1 \in i + 1 .. e
      /\ i \in Nat /\ pc \in Nat
  BY <1>1, <1>2
<1>4. /\ \A c \in Watched : \A j \in pc + 1 .. e : p[j].on = c => OwedIn(Rest(p, pc), c) = p[j].n
      /\ \A c \in Watched : (\A j \in pc + 1 .. e : p[j].on # c) => OwedIn(Rest(p, pc), c) = 0
  BY <1>1, <1>2, <1>3, OwedInRun
<1>5. /\ \A c \in Watched : \A j \in pc + 1 + 1 .. e : p[j].on = c => OwedIn(Rest(p, pc + 1), c) = p[j].n
      /\ \A c \in Watched : (\A j \in pc + 1 + 1 .. e : p[j].on # c) => OwedIn(Rest(p, pc + 1), c) = 0
  BY <1>1, <1>2, <1>3, OwedInRun
<1>6. /\ \A j \in i + 1 .. e : p[j].on \in Watched /\ (p[j].on \in Packets => p[j].n = 1)
      /\ \A j, h \in i + 1 .. e : p[j].on = p[h].on => j = h
  BY <1>2 DEF IsRun
<1>7. p[pc + 1].n \in Nat
  <2>1. pc + 1 \in 1 .. Len(p)
    BY <1>1
  <2>2. QED
    BY <1>1, <2>1, ElementOfSeq, AccessFields
<1> HIDE DEF e
<1>8. ASSUME NEW c \in Watched
      PROVE  OwedIn(Rest(p, pc), c) = IF c = p[pc + 1].on
                                      THEN OwedIn(Rest(p, pc + 1), c) + p[pc + 1].n
                                      ELSE OwedIn(Rest(p, pc + 1), c)
  <2>1. pc + 1 \in pc + 1 .. e
    BY <1>3
  <2>2. \A j \in pc + 1 + 1 .. e : j \in pc + 1 .. e /\ j \in i + 1 .. e /\ j # pc + 1
    BY <1>3
  <2>3. \A j \in pc + 1 .. e : j = pc + 1 \/ j \in pc + 1 + 1 .. e
    BY <1>3
  <2>4. CASE c = p[pc + 1].on
    <3>1. OwedIn(Rest(p, pc), c) = p[pc + 1].n
      BY <1>4, <2>1, <2>4
    <3>2. \A j \in pc + 1 + 1 .. e : p[j].on # c
      BY <1>3, <1>6, <2>2, <2>4
    <3>3. OwedIn(Rest(p, pc + 1), c) = 0
      BY <1>5, <3>2
    <3>4. QED
      BY <1>7, <2>4, <3>1, <3>3
  <2>5. CASE c # p[pc + 1].on /\ \E j \in pc + 1 + 1 .. e : p[j].on = c
    <3>1. PICK j \in pc + 1 + 1 .. e : p[j].on = c
      BY <2>5
    <3>2. OwedIn(Rest(p, pc), c) = p[j].n
      BY <1>4, <2>2, <3>1
    <3>3. OwedIn(Rest(p, pc + 1), c) = p[j].n
      BY <1>5, <3>1
    <3>4. QED
      BY <2>5, <3>2, <3>3
  <2>6. CASE c # p[pc + 1].on /\ \A j \in pc + 1 + 1 .. e : p[j].on # c
    <3>1. \A j \in pc + 1 .. e : p[j].on # c
      BY <2>3, <2>6
    <3>2. OwedIn(Rest(p, pc), c) = 0 /\ OwedIn(Rest(p, pc + 1), c) = 0
      BY <1>4, <1>5, <2>6, <3>1
    <3>3. QED
      BY <2>6, <3>2
  <2>7. QED
    BY <2>4, <2>5, <2>6
<1>9. QED
  BY <1>3, <1>6, <1>8

\* Behind an enabled look a packet is owed to its direction and to the total.
LEMMA LookOwes ==
  ASSUME NEW p, NEW k, NEW l, Program(p, k, l), NEW pc \in 0 .. Len(p), pc < Len(p),
         p[pc + 1].op = "look", Packets \subseteq Watched
  PROVE  OwedIn(Rest(p, pc + 1), "total_packets") =
           OwedIn(Rest(p, pc + 1), "rx_packets") + OwedIn(Rest(p, pc + 1), "tx_packets")
<1>1. /\ p \in Seq(Accesses) /\ Len(p) \in Nat /\ pc + 1 \in 0 .. Len(p)
      /\ pc + 1 \in 1 .. Len(p)
  BY ProgramSteps
<1>2. /\ Rest(p, pc + 1) \in Seq(Accesses) /\ Len(Rest(p, pc + 1)) = Len(p) - (pc + 1)
      /\ \A i \in 1 .. Len(p) - (pc + 1) : Rest(p, pc + 1)[i] = p[pc + 1 + i]
  BY <1>1, RestElements
<1>3. CASE Rest(p, pc + 1) = <<>> \/ Rest(p, pc + 1)[1].op # "add"
  <2>1. \A c : OwedIn(Rest(p, pc + 1), c) = 0
    BY <1>2, <1>3, OwedOutside
  <2>2. QED
    BY <2>1
<1>4. CASE Rest(p, pc + 1) # <<>> /\ Rest(p, pc + 1)[1].op = "add"
  <2>1. pc + 1 < Len(p)
    BY <1>1, <1>2, <1>4
  <2>2. p[pc + 1 + 1].op = "add"
    <3>1. 1 \in 1 .. Len(p) - (pc + 1)
      BY <1>1, <2>1
    <3>2. QED
      BY <1>2, <1>4, <3>1
  <2>3. Open(p)
    BY <1>1, <2>1, <2>2, AddIsInRun
  <2>4. PICK i \in 1 .. Len(p) : /\ p[i].op = "look" /\ i <= pc + 1 /\ pc + 1 + 1 <= i + p[i].n
                                 /\ IsRun(p, i + 1, i + p[i].n) /\ p[i].n \in Nat
    BY <1>1, <2>1, <2>2, AddIsInRun
  <2>5. i = pc + 1
    <3>1. CASE i # pc + 1
      <4>1. pc + 1 \in i + 1 .. i + p[i].n
        BY <1>1, <2>4, <3>1
      <4>2. QED
        BY <2>4, <4>1 DEF IsRun
    <3>2. QED
      BY <3>1
  <2> DEFINE e == i + p[i].n
  <2>6. /\ \A j \in i + 1 .. e : p[j].on \in Packets => p[j].n = 1
        /\ ~ \E j, h \in i + 1 .. e : p[j].on = "rx_packets" /\ p[h].on = "tx_packets"
        /\ (\E j \in i + 1 .. e : p[j].on = "total_packets")
             <=> \E j \in i + 1 .. e : p[j].on \in Directions
    BY <2>4 DEF IsRun
  <2>7. /\ \A c \in Watched : \A j \in i + 1 .. e : p[j].on = c => OwedIn(Rest(p, i), c) = p[j].n
        /\ \A c \in Watched : (\A j \in i + 1 .. e : p[j].on # c) => OwedIn(Rest(p, i), c) = 0
    <3>1. i \in i .. i + p[i].n
      BY <2>4
    <3>2. QED
      BY <2>3, <2>4, <3>1, OwedInRun
  <2> HIDE DEF e
  <2>8. Packets = {"rx_packets", "tx_packets", "total_packets"}
    BY DEF Packets, Directions
  <2>9. \A c \in Packets : /\ (\E j \in i + 1 .. e : p[j].on = c) => OwedIn(Rest(p, i), c) = 1
                           /\ (~ \E j \in i + 1 .. e : p[j].on = c) => OwedIn(Rest(p, i), c) = 0
    BY <2>6, <2>7
  <2>10. OwedIn(Rest(p, i), "total_packets") =
           OwedIn(Rest(p, i), "rx_packets") + OwedIn(Rest(p, i), "tx_packets")
    <3>1. CASE \E j \in i + 1 .. e : p[j].on = "rx_packets"
      <4>1. /\ \E j \in i + 1 .. e : p[j].on = "total_packets"
            /\ ~ \E j \in i + 1 .. e : p[j].on = "tx_packets"
        BY <2>6, <3>1 DEF Directions
      <4>2. QED
        BY <2>8, <2>9, <3>1, <4>1
    <3>2. CASE \E j \in i + 1 .. e : p[j].on = "tx_packets"
      <4>1. /\ \E j \in i + 1 .. e : p[j].on = "total_packets"
            /\ ~ \E j \in i + 1 .. e : p[j].on = "rx_packets"
        BY <2>6, <3>2 DEF Directions
      <4>2. QED
        BY <2>8, <2>9, <3>2, <4>1
    <3>3. CASE ~ \E j \in i + 1 .. e : p[j].on \in Directions
      <4>1. \A c \in Packets : ~ \E j \in i + 1 .. e : p[j].on = c
        BY <2>6, <3>3 DEF Packets, Directions
      <4>2. QED
        BY <2>8, <2>9, <4>1
    <3>4. QED
      BY <3>1, <3>2, <3>3 DEF Directions
  <2>11. QED
    BY <2>5, <2>10
<1>5. QED
  BY <1>3, <1>4

\* A recording owes one packet at most, and to one direction.
LEMMA OwesOneAtMost ==
  ASSUME NEW p, NEW k, NEW l, Program(p, k, l), NEW pc \in 0 .. Len(p),
         Packets \subseteq Watched
  PROVE  LET s == Rest(p, pc) IN
         LET most == IF s # <<>> /\ s[1].op = "add" THEN 1 ELSE 0 IN
         /\ OwedIn(s, "rx_packets") + OwedIn(s, "tx_packets") <= most
         /\ OwedIn(s, "total_packets") <= most
<1> DEFINE s == Rest(p, pc)
<1>1. p \in Seq(Accesses) /\ Len(p) \in Nat
  BY DEF Program, Open, Section
<1>2. /\ s \in Seq(Accesses) /\ Len(s) = Len(p) - pc
      /\ \A i \in 1 .. Len(p) - pc : s[i] = p[pc + i]
  BY <1>1, RestElements
<1>3. CASE s = <<>> \/ s[1].op # "add"
  <2> HIDE DEF s
  <2>1. \A c : OwedIn(s, c) = 0
    BY <1>2, <1>3, OwedOutside
  <2>2. QED
    BY <1>3, <2>1 DEF s
<1>4. CASE s # <<>> /\ s[1].op = "add"
  <2>1. pc < Len(p) /\ 1 \in 1 .. Len(p) - pc
    BY <1>1, <1>2, <1>4
  <2>2. p[pc + 1].op = "add"
    BY <1>2, <1>4, <2>1
  <2>3. Open(p)
    BY <2>1, <2>2, AddIsInRun
  <2>4. PICK i \in 1 .. Len(p) : /\ p[i].op = "look" /\ i <= pc /\ pc + 1 <= i + p[i].n
                                 /\ IsRun(p, i + 1, i + p[i].n) /\ p[i].n \in Nat
    BY <2>1, <2>2, AddIsInRun
  <2> DEFINE e == i + p[i].n
  <2>5. /\ \A c \in Watched : \A j \in pc + 1 .. e : p[j].on = c => OwedIn(s, c) = p[j].n
        /\ \A c \in Watched : (\A j \in pc + 1 .. e : p[j].on # c) => OwedIn(s, c) = 0
    <3>1. pc \in i .. i + p[i].n
      BY <1>1, <2>4
    <3>2. QED
      BY <2>3, <2>4, <3>1, OwedInRun, ZenonT(60)
  <2>6. /\ \A j \in i + 1 .. e : p[j].on \in Packets => p[j].n = 1
        /\ ~ \E j, h \in i + 1 .. e : p[j].on = "rx_packets" /\ p[h].on = "tx_packets"
    BY <2>4 DEF IsRun
  <2>7. \A j \in pc + 1 .. e : j \in i + 1 .. e
    BY <1>1, <2>4
  <2> HIDE DEF e, s
  <2>8. \A c \in Packets : /\ (\E j \in pc + 1 .. e : p[j].on = c) => OwedIn(s, c) = 1
                           /\ (~ \E j \in pc + 1 .. e : p[j].on = c) => OwedIn(s, c) = 0
    BY <2>5, <2>6, <2>7
  <2>9. "rx_packets" \in Packets /\ "tx_packets" \in Packets /\ "total_packets" \in Packets
    BY DEF Packets, Directions
  <2>10. ~ ((\E j \in pc + 1 .. e : p[j].on = "rx_packets")
              /\ \E j \in pc + 1 .. e : p[j].on = "tx_packets")
    BY <2>6, <2>7
  <2>11. OwedIn(s, "rx_packets") + OwedIn(s, "tx_packets") <= 1
    BY <2>8, <2>9, <2>10
  <2>12. OwedIn(s, "total_packets") <= 1
    BY <2>8, <2>9
  <2>13. QED
    BY <1>4, <2>11, <2>12 DEF s
<1>5. QED
  BY <1>3, <1>4

\* ... and so is what all of them owe together.
LEMMA OwedIsCounted ==
  ASSUME Inv, NEW c
  PROVE  Owed(c) \in Nat
<1> DEFINE f == [t \in Threads |-> OwedIn(todo[t], c)]
<1>1. todo \in [Threads -> Seq(Accesses)]
  BY DEF Inv, TypeInv
<1>2. f \in [Threads -> Nat]
  BY <1>1, OwedIsNat
<1> HIDE DEF f
<1>3. SumFunction(f) \in Nat
  BY <1>2, ThreadsAssumption, SumIsNat
<1>4. QED
  BY <1>3 DEF Owed, f

\* Only the thread that moves owes more or less than before.
LEMMA OwedChanges ==
  ASSUME Inv, NEW t \in Threads, todo' \in [Threads -> Seq(Accesses)],
         \A u \in Threads \ {t} : todo'[u] = todo[u], NEW c
  PROVE  /\ Owed(c) \in Nat /\ Owed(c)' \in Nat
         /\ OwedIn(todo[t], c) \in Nat /\ OwedIn(todo'[t], c) \in Nat
         /\ Owed(c)' - OwedIn(todo'[t], c) = Owed(c) - OwedIn(todo[t], c)
<1> DEFINE f == [u \in Threads |-> OwedIn(todo[u], c)]
           h == [u \in Threads |-> OwedIn(todo'[u], c)]
<1>1. todo \in [Threads -> Seq(Accesses)]
  BY DEF Inv, TypeInv
<1>2. \A u \in Threads : OwedIn(todo[u], c) \in Nat /\ OwedIn(todo'[u], c) \in Nat
  BY <1>1, OwedIsNat
<1>3. f \in [Threads -> Nat] /\ h \in [Threads -> Nat]
  BY <1>2
<1>4. \A u \in Threads \ {t} : h[u] = f[u]
  OBVIOUS
<1>5. f[t] = OwedIn(todo[t], c) /\ h[t] = OwedIn(todo'[t], c)
  OBVIOUS
<1>6. Owed(c) = SumFunction(f) /\ Owed(c)' = SumFunction(h)
  BY DEF Owed
<1> HIDE DEF f, h
<1>7. SumFunction(h) - h[t] = SumFunction(f) - f[t]
  BY <1>3, <1>4, ThreadsAssumption, SumChanges, ZenonT(60)
<1>8. SumFunction(f) \in Nat /\ SumFunction(h) \in Nat
  BY <1>3, ThreadsAssumption, SumIsNat
<1>9. QED
  BY <1>2, <1>5, <1>6, <1>7, <1>8

\* A call starts with nothing owed.
LEMMA CallOwes ==
  ASSUME Inv, NEW t \in Threads, Call(t), NEW c
  PROVE  Owed(c)' = Owed(c)
<1>1. PICK call \in Calls : \E body \in Body[call] : todo' = [todo EXCEPT ![t] = body]
  BY DEF Call
<1>2. PICK body \in Body[call] : todo' = [todo EXCEPT ![t] = body]
  BY <1>1
<1>3. PICK k, l : Program(body, k, l)
  BY BodiesArePrograms
<1>4. body \in Seq(Accesses)
  BY <1>3 DEF Program, Open, Section
<1>5. todo \in [Threads -> Seq(Accesses)] /\ todo[t] = <<>>
  BY DEF Inv, TypeInv, Call
<1>6. /\ todo' \in [Threads -> Seq(Accesses)] /\ todo'[t] = body
      /\ \A u \in Threads \ {t} : todo'[u] = todo[u]
  BY <1>2, <1>4, <1>5
<1>7. body = <<>> \/ body[1].op # "add"
  <2>1. CASE Open(body)
    BY <1>4, <2>1, OpenStarts
  <2>2. CASE Section(body, k, l)
    <3>1. k \in 1 .. Len(body) /\ body[k].op = "lock"
      BY <2>2 DEF Section
    <3>2. CASE k = 1
      BY <3>1, <3>2
    <3>3. CASE 1 \in 1 .. k - 1
      BY <2>2, <3>3 DEF Section
    <3>4. QED
      BY <3>1, <3>2, <3>3
  <2>3. QED
    BY <1>3, <2>1, <2>2 DEF Program
<1>8. OwedIn(todo[t], c) = 0 /\ OwedIn(todo'[t], c) = 0
  <2>1. <<>> \in Seq(Accesses)
    OBVIOUS
  <2>2. QED
    BY <1>4, <1>5, <1>6, <1>7, <2>1, OwedOutside
<1>9. QED
  BY <1>6, <1>8, OwedChanges

\* A thread that is not at an addition now and next owes nothing new.
LEMMA QuietOwes ==
  ASSUME Inv, NEW t \in Threads, NEW p, NEW k, NEW l, NEW pc, Place(t, p, k, l, pc),
         pc \in 0 .. Len(p), pc < Len(p), NEW count \in Nat,
         \/ p[pc + 1].op \notin {"look", "add"} /\ count = 1
         \/ p[pc + 1].op \in {"ask", "look"} /\ count = 1 + p[pc + 1].n,
         Advance(t, count), NEW c
  PROVE  Owed(c)' = Owed(c)
<1>1. Program(p, k, l) /\ todo[t] = Rest(p, pc)
  BY DEF Place
<1>2. pc + count \in 0 .. Len(p) /\ OwedIn(Rest(p, pc + count), c) = 0
  BY <1>1, LandsOutside
<1>3. /\ todo' \in [Threads -> Seq(Accesses)]
      /\ todo'[t] = Rest(p, pc + count)
      /\ \A u \in Threads \ {t} : todo'[u] = todo[u]
  BY <1>2, AdvanceRest
<1>4. OwedIn(todo[t], c) = 0
  <2>1. /\ p \in Seq(Accesses) /\ Len(p) \in Nat
    BY <1>1, ProgramSteps
  <2>2. Rest(p, pc) \in Seq(Accesses) /\ Rest(p, pc)[1] = p[pc + 1]
    <3>1. 1 \in 1 .. Len(p) - pc
      BY <2>1
    <3>2. QED
      BY <2>1, <3>1, RestElements
  <2>3. p[pc + 1].op # "add"
    OBVIOUS
  <2>4. QED
    BY <1>1, <2>2, <2>3, OwedOutside
<1>5. QED
  BY <1>2, <1>3, <1>4, OwedChanges

\* The accesses that leave what is owed as it is.
LEMMA OtherStepsOwe ==
  ASSUME Inv, NEW t \in Threads, NEW c,
         \/ Ask(t) \/ (Look(t) /\ ~ enabled) \/ Clear(t) \/ Switch(t) \/ ClearFlag(t)
         \/ Lock(t) \/ Copy(t) \/ Unlock(t) \/ Pass(t)
  PROVE  Owed(c)' = Owed(c)
<1>1. todo[t] # <<>>
  BY DEF Ask, Look, Clear, Switch, ClearFlag, Lock, Copy, Unlock, Pass, At
<1>2. PICK p, k, l, pc : /\ Place(t, p, k, l, pc)
                         /\ pc \in 0 .. Len(p) /\ pc < Len(p)
                         /\ Current(t) = p[pc + 1]
  BY <1>1, ThreadAt
<1>3. p[pc + 1].n \in Nat
  BY <1>2, ProgramSteps, AccessFields DEF Place
<1>4. CASE (Ask(t) /\ ~ initialized) \/ (Look(t) /\ ~ enabled)
  <2>1. p[pc + 1].op \in {"ask", "look"} /\ Advance(t, 1 + p[pc + 1].n)
    BY <1>2, <1>4 DEF Ask, Look, At
  <2>2. 1 + p[pc + 1].n \in Nat
    BY <1>3
  <2>3. QED
    BY <1>2, <2>1, <2>2, QuietOwes
<1>5. CASE \/ (Ask(t) /\ initialized) \/ Clear(t) \/ Switch(t) \/ ClearFlag(t)
           \/ Lock(t) \/ Copy(t) \/ Unlock(t) \/ Pass(t)
  <2>1. p[pc + 1].op \notin {"look", "add"}
    BY <1>2, <1>5 DEF Ask, Clear, Switch, ClearFlag, Lock, Copy, Unlock, Pass, At
  <2>2. Advance(t, 1)
    <3>1. CASE Ask(t) /\ initialized
      <4>1. Advance(t, 1 + 0)
        BY <3>1 DEF Ask
      <4>2. 1 + 0 = 1
        OBVIOUS
      <4>3. QED
        BY <4>1, <4>2
    <3>2. CASE ~ (Ask(t) /\ initialized)
      BY <1>5, <3>2 DEF Clear, Switch, ClearFlag, Lock, Copy, Unlock, Pass
    <3>3. QED
      BY <3>1, <3>2
  <2>3. QED
    BY <1>2, <2>1, <2>2, QuietOwes
<1>6. CASE Ask(t)
  BY <1>4, <1>5, <1>6
<1>7. CASE Look(t) /\ ~ enabled
  BY <1>4, <1>7
<1>8. CASE Clear(t) \/ Switch(t) \/ ClearFlag(t) \/ Lock(t) \/ Copy(t) \/ Unlock(t) \/ Pass(t)
  BY <1>5, <1>8
<1>9. QED
  BY <1>6, <1>7, <1>8

\* An addition moves what is owed into its counter.
LEMMA IncreaseOwes ==
  ASSUME Inv, NEW t \in Threads, Increase(t), NEW c \in Watched
  PROVE  /\ counter[c] \in Nat /\ counter'[c] \in Nat /\ Owed(c) \in Nat /\ Owed(c)' \in Nat
         /\ counter'[c] + Owed(c)' = counter[c] + Owed(c)
         /\ Owed(c)' <= Owed(c)
<1>1. todo[t] # <<>>
  BY DEF Increase, At
<1>2. PICK p, k, l, pc : /\ Place(t, p, k, l, pc)
                         /\ pc \in 0 .. Len(p) /\ pc < Len(p)
                         /\ Current(t) = p[pc + 1]
  BY <1>1, ThreadAt
<1> DEFINE a == p[pc + 1]
<1>3. a.op = "add" /\ a.n \in Nat /\ Program(p, k, l) /\ todo[t] = Rest(p, pc)
  BY <1>2, ProgramSteps, AccessFields DEF Place, Increase, At
<1>4. counter' = [counter EXCEPT ![a.on] = @ + a.n] /\ Advance(t, 1)
  BY <1>2 DEF Increase
<1>5. OwedIn(Rest(p, pc), c) = IF c = a.on THEN OwedIn(Rest(p, pc + 1), c) + a.n
                               ELSE OwedIn(Rest(p, pc + 1), c)
  BY <1>2, <1>3, AddPays
<1>6. pc + 1 \in 0 .. Len(p) /\ 1 \in Nat
  BY <1>2
<1>7. /\ todo' \in [Threads -> Seq(Accesses)]
      /\ todo'[t] = Rest(p, pc + 1)
      /\ \A u \in Threads \ {t} : todo'[u] = todo[u]
  BY <1>2, <1>4, <1>6, AdvanceRest
<1> HIDE DEF a
<1>8. /\ Owed(c) \in Nat /\ Owed(c)' \in Nat
      /\ OwedIn(todo[t], c) \in Nat /\ OwedIn(todo'[t], c) \in Nat
      /\ Owed(c)' - OwedIn(todo'[t], c) = Owed(c) - OwedIn(todo[t], c)
  BY <1>7, OwedChanges
<1>9. /\ counter[c] \in Nat
      /\ counter'[c] = IF c = a.on THEN counter[c] + a.n ELSE counter[c]
  BY <1>4 DEF Inv, TypeInv
<1>10. OwedIn(todo[t], c) = IF c = a.on THEN OwedIn(todo'[t], c) + a.n
                            ELSE OwedIn(todo'[t], c)
  BY <1>3, <1>5, <1>7
<1>11. CASE c = a.on
  BY <1>3, <1>8, <1>9, <1>10, <1>11
<1>12. CASE c # a.on
  BY <1>8, <1>9, <1>10, <1>12
<1>13. QED
  BY <1>11, <1>12

\* An enabled look makes a packet owed to its direction and to the total.
LEMMA EnabledLookOwes ==
  ASSUME Inv, NEW t \in Threads, Look(t), Packets \subseteq Watched
  PROVE  Owed("total_packets")' - Owed("total_packets") =
           (Owed("rx_packets")' - Owed("rx_packets"))
             + (Owed("tx_packets")' - Owed("tx_packets"))
<1>1. CASE ~ enabled
  <2>1. \A c : Owed(c)' = Owed(c)
    BY <1>1, OtherStepsOwe
  <2>2. Owed("rx_packets") \in Nat /\ Owed("tx_packets") \in Nat /\ Owed("total_packets") \in Nat
    BY OwedIsCounted
  <2>3. QED
    BY <2>1, <2>2
<1>2. CASE enabled
  <2>1. todo[t] # <<>>
    BY DEF Look, At
  <2>2. PICK p, k, l, pc : /\ Place(t, p, k, l, pc)
                           /\ pc \in 0 .. Len(p) /\ pc < Len(p)
                           /\ Current(t) = p[pc + 1]
    BY <2>1, ThreadAt
  <2>3. p[pc + 1].op = "look" /\ Program(p, k, l) /\ todo[t] = Rest(p, pc)
    BY <2>2 DEF Place, Look, At
  <2>4. Advance(t, 1)
    <3>1. Advance(t, 1 + 0)
      BY <1>2 DEF Look
    <3>2. 1 + 0 = 1
      OBVIOUS
    <3>3. QED
      BY <3>1, <3>2
  <2>5. pc + 1 \in 0 .. Len(p) /\ 1 \in Nat
    BY <2>2
  <2>6. /\ todo' \in [Threads -> Seq(Accesses)]
        /\ todo'[t] = Rest(p, pc + 1)
        /\ \A u \in Threads \ {t} : todo'[u] = todo[u]
    BY <2>2, <2>4, <2>5, AdvanceRest
  <2>7. \A c : OwedIn(todo[t], c) = 0
    <3>1. p \in Seq(Accesses) /\ Len(p) \in Nat
      BY <2>2, <2>3, ProgramSteps
    <3>2. Rest(p, pc) \in Seq(Accesses) /\ Rest(p, pc)[1] = p[pc + 1]
      <4>1. 1 \in 1 .. Len(p) - pc
        BY <2>2, <3>1
      <4>2. QED
        BY <2>2, <3>1, <4>1, RestElements
    <3>3. QED
      BY <2>3, <3>2, OwedOutside
  <2>8. OwedIn(todo'[t], "total_packets") =
          OwedIn(todo'[t], "rx_packets") + OwedIn(todo'[t], "tx_packets")
    BY <2>2, <2>3, <2>6, LookOwes
  <2>9. \A c : /\ Owed(c) \in Nat /\ Owed(c)' \in Nat
               /\ OwedIn(todo[t], c) \in Nat /\ OwedIn(todo'[t], c) \in Nat
               /\ Owed(c)' - OwedIn(todo'[t], c) = Owed(c) - OwedIn(todo[t], c)
    BY <2>6, OwedChanges
  <2>10. QED
    BY <2>7, <2>8, <2>9
<1>3. QED
  BY <1>1, <1>2

\* Each recording under way owes one packet at most.
LEMMA OwedIsBounded ==
  ASSUME Inv, Packets \subseteq Watched
  PROVE  LET recordings == Cardinality({r \in Threads : Recording(r)}) IN
         /\ Owed("rx_packets") + Owed("tx_packets") <= recordings
         /\ Owed("total_packets") <= recordings
<1> DEFINE Q == {r \in Threads : Recording(r)}
           f(c) == [u \in Threads |-> OwedIn(todo[u], c)]
           none == [u \in Threads |-> 0]
<1>1. todo \in [Threads -> Seq(Accesses)]
  BY DEF Inv, TypeInv
<1>2. \A c : f(c) \in [Threads -> Nat] /\ Owed(c) = SumFunction(f(c))
  BY <1>1, OwedIsNat DEF Owed
<1>3. ASSUME NEW u \in Threads
      PROVE  /\ f("rx_packets")[u] + f("tx_packets")[u] <= IF u \in Q THEN 1 ELSE 0
             /\ f("total_packets")[u] <= IF u \in Q THEN 1 ELSE 0
  <2>1. PICK p, k, l, pc : Place(u, p, k, l, pc)
    BY DEF Inv, PlaceInv
  <2>2. Program(p, k, l) /\ pc \in 0 .. Len(p) /\ todo[u] = Rest(p, pc)
    BY <2>1 DEF Place
  <2>3. u \in Q <=> todo[u] # <<>> /\ todo[u][1].op = "add"
    BY <1>1 DEF Recording, At, Current
  <2>4. LET s == Rest(p, pc) IN
        LET most == IF s # <<>> /\ s[1].op = "add" THEN 1 ELSE 0 IN
        /\ OwedIn(s, "rx_packets") + OwedIn(s, "tx_packets") <= most
        /\ OwedIn(s, "total_packets") <= most
    BY <2>2, OwesOneAtMost
  <2>5. QED
    BY <2>2, <2>3, <2>4
<1>4. Q \subseteq Threads /\ none \in [Threads -> Nat]
  OBVIOUS
<1> HIDE DEF Q, f
<1>5. SumFunction(f("rx_packets")) + SumFunction(f("tx_packets")) <= Cardinality(Q)
  BY <1>2, <1>3, <1>4, ThreadsAssumption, SumsAreBounded
<1>6. SumFunction(f("total_packets")) + SumFunction(none) <= Cardinality(Q)
  <2>1. \A u \in Threads : f("total_packets")[u] + none[u] <= IF u \in Q THEN 1 ELSE 0
    BY <1>2, <1>3
  <2> HIDE DEF none
  <2>2. QED
    BY <1>2, <1>4, <2>1, ThreadsAssumption, SumsAreBounded
<1>7. SumFunction(none) \in Nat /\ SumFunction(f("total_packets")) \in Nat /\ Cardinality(Q) \in Nat
  <2> HIDE DEF none
  <2>1. Cardinality(Q) \in Nat
    BY <1>4, ThreadsAssumption, FS_Subset, FS_CardinalityType
  <2>2. QED
    BY <1>2, <1>4, <2>1, ThreadsAssumption, SumIsNat
<1>8. SumFunction(f("total_packets")) <= Cardinality(Q)
  <2> HIDE DEF none
  <2>1. QED
    BY <1>6, <1>7
<1>9. QED
  BY <1>2, <1>5, <1>8 DEF Q

\* Once pf_statistics_disable (statistics.c) has written the flag, only the
\* recordings that looked before it still count: no step makes a counter and
\* what is owed to it more.
THEOREM DisableHolds == Spec => DisableSettles
<1>1. ASSUME Inv, [Next]_vars
      PROVE  [~ enabled => \A c \in Watched :
                (counter[c] + Owed(c))' <= counter[c] + Owed(c)]_vars
  <2>1. SUFFICES ASSUME Next, ~ enabled, NEW c \in Watched
                 PROVE  (counter[c] + Owed(c))' <= counter[c] + Owed(c)
    BY <1>1
  <2>2. PICK t \in Threads : Call(t) \/ Step(t)
    BY <2>1 DEF Next
  <2>3. counter \in [Watched -> Nat] /\ counter[c] \in Nat /\ Owed(c) \in Nat
    BY <1>1, OwedIsCounted DEF Inv, TypeInv
  <2>4. CASE Call(t)
    <3>1. counter' = counter /\ Owed(c)' = Owed(c)
      BY <1>1, <2>4, CallOwes DEF Call
    <3>2. QED
      BY <2>3, <3>1
  <2>5. CASE \/ Ask(t) \/ Look(t) \/ Switch(t) \/ ClearFlag(t) \/ Lock(t) \/ Copy(t)
             \/ Unlock(t) \/ Pass(t)
    <3>1. Owed(c)' = Owed(c)
      BY <1>1, <2>1, <2>5, OtherStepsOwe
    <3>2. counter' = counter
      BY <2>5 DEF Ask, Look, Switch, ClearFlag, Lock, Copy, Unlock, Pass, stateVars
    <3>3. QED
      BY <2>3, <3>1, <3>2
  <2>6. CASE Clear(t)
    <3>1. Owed(c)' = Owed(c)
      BY <1>1, <2>6, OtherStepsOwe
    <3>2. counter'[c] = 0 \/ counter'[c] = counter[c]
      BY <2>3, <2>6 DEF Clear
    <3>3. QED
      BY <2>3, <3>1, <3>2
  <2>7. CASE Increase(t)
    <3>1. /\ counter[c] \in Nat /\ counter'[c] \in Nat /\ Owed(c) \in Nat /\ Owed(c)' \in Nat
          /\ counter'[c] + Owed(c)' = counter[c] + Owed(c)
      BY <1>1, <2>7, IncreaseOwes
    <3>2. QED
      BY <3>1
  <2>8. QED
    BY <2>2, <2>4, <2>5, <2>6, <2>7 DEF Step
<1>2. QED
  BY <1>1, SpecInv, PTL DEF Spec, DisableSettles

-----------------------------------------------------------------------------
(* The drift between the total and both directions.                        *)

HasZero(steps, c) == \E i \in DOMAIN steps : steps[i].op = "zero" /\ steps[i].on = c

\* A full reset under way has still to clear a counter.
Ahead(c) == \E t \in Threads : holder = t /\ HasZero(todo[t], c)

\* What a full reset has not cleared yet it need not bound: behind the first
\* direction that one has only what was owed when the lock was taken, behind
\* the second both have, and behind the total it has no more than that.
DriftInv ==
  /\ Ahead("rx_packets") =>
       Ahead("tx_packets") /\ Owed("rx_packets") + Owed("tx_packets") <= torn
  /\ Ahead("tx_packets") => Ahead("total_packets")
  /\ Ahead("tx_packets") /\ ~ Ahead("rx_packets") =>
       Settled("rx_packets") + Owed("tx_packets") <= torn
  /\ Ahead("total_packets") /\ ~ Ahead("tx_packets") =>
       Settled("rx_packets") + Settled("tx_packets") <= torn
  /\ Ahead("total_packets") => Owed("total_packets") <= torn
  /\ ~ Ahead("total_packets") => Drift \in -torn .. torn

\* Inside a critical section a counter is ahead if its access is.
LEMMA ZerosOfSection ==
  ASSUME NEW p, NEW k, NEW l, Section(p, k, l), NEW pc \in Nat, k <= pc, pc < l, NEW c
  PROVE  HasZero(Rest(p, pc), c)
           <=> \E j \in pc + 1 .. l - 1 : p[j].op = "zero" /\ p[j].on = c
<1>1. /\ p \in Seq(Accesses) /\ Len(p) \in Nat /\ k \in Nat /\ l \in Nat /\ l <= Len(p)
      /\ p[l].op = "unlock"
      /\ \A i \in l + 1 .. Len(p) : p[i].op \in {"engine", "clear_enabled", "clear_initialized"}
  BY DEF Section
<1>2. pc \in 0 .. Len(p)
  BY <1>1
<1>3. /\ DOMAIN Rest(p, pc) = 1 .. Len(p) - pc
      /\ \A i \in 1 .. Len(p) - pc : Rest(p, pc)[i] = p[pc + i]
  BY <1>1, <1>2, RestElements
<1>4. ASSUME HasZero(Rest(p, pc), c)
      PROVE  \E j \in pc + 1 .. l - 1 : p[j].op = "zero" /\ p[j].on = c
  <2>1. PICK i \in 1 .. Len(p) - pc : p[pc + i].op = "zero" /\ p[pc + i].on = c
    BY <1>3, <1>4 DEF HasZero
  <2>2. pc + i # l /\ pc + i \notin l + 1 .. Len(p)
    BY <1>1, <2>1
  <2>3. pc + i \in pc + 1 .. l - 1
    BY <1>1, <2>1, <2>2
  <2>4. QED
    BY <2>1, <2>3
<1>5. ASSUME NEW j \in pc + 1 .. l - 1, p[j].op = "zero", p[j].on = c
      PROVE  HasZero(Rest(p, pc), c)
  <2>1. j - pc \in 1 .. Len(p) - pc /\ pc + (j - pc) = j
    BY <1>1
  <2>2. Rest(p, pc)[j - pc] = p[j]
    BY <1>3, <2>1
  <2>3. QED
    BY <1>3, <1>5, <2>1, <2>2 DEF HasZero
<1>6. QED
  BY <1>4, <1>5

\* A full reset clears the packets of both directions, then their total.
LEMMA ZerosOfReset ==
  ASSUME NEW p, NEW k, NEW l, Section(p, k, l), NEW pc \in Nat, k <= pc, pc < l,
         NEW rx, NEW tx, NEW total, ClearsAt(p, k + 1, l - 1, rx, tx, total)
  PROVE  /\ HasZero(Rest(p, pc), "rx_packets") <=> pc < rx
         /\ HasZero(Rest(p, pc), "tx_packets") <=> pc < tx
         /\ HasZero(Rest(p, pc), "total_packets") <=> pc < total
         /\ rx \in Nat /\ tx \in Nat /\ total \in Nat /\ rx < tx /\ tx < total
<1>1. k \in Nat /\ l \in Nat
  BY DEF Section
<1>2. /\ rx \in k + 1 .. l - 1 /\ tx \in k + 1 .. l - 1 /\ total \in k + 1 .. l - 1
      /\ rx < tx /\ tx < total
      /\ p[rx].on = "rx_packets" /\ p[tx].on = "tx_packets" /\ p[total].on = "total_packets"
      /\ \A i \in k + 1 .. l - 1 : /\ p[i].on = "rx_packets" => i = rx
                                   /\ p[i].on = "tx_packets" => i = tx
                                   /\ p[i].on = "total_packets" => i = total
                                   /\ i <= total => p[i].op = "zero"
  BY DEF ClearsAt
<1>3. p[rx].op = "zero" /\ p[tx].op = "zero" /\ p[total].op = "zero"
  BY <1>1, <1>2
<1>4. \A j \in pc + 1 .. l - 1 : j \in k + 1 .. l - 1
  BY <1>1
<1>5. /\ (\E j \in pc + 1 .. l - 1 : p[j].op = "zero" /\ p[j].on = "rx_packets") <=> pc < rx
      /\ (\E j \in pc + 1 .. l - 1 : p[j].op = "zero" /\ p[j].on = "tx_packets") <=> pc < tx
      /\ (\E j \in pc + 1 .. l - 1 : p[j].op = "zero" /\ p[j].on = "total_packets") <=> pc < total
  <2>1. /\ pc < rx <=> rx \in pc + 1 .. l - 1
        /\ pc < tx <=> tx \in pc + 1 .. l - 1
        /\ pc < total <=> total \in pc + 1 .. l - 1
    BY <1>1, <1>2
  <2>2. QED
    BY <1>2, <1>3, <1>4, <2>1
<1>6. QED
  BY <1>1, <1>2, <1>5, ZerosOfSection

\* A snapshot clears nothing.
LEMMA ZerosOfSnapshot ==
  ASSUME NEW p, NEW k, NEW l, Section(p, k, l), NEW pc \in Nat, k <= pc, pc < l,
         Copying(p, k + 1, l - 1), NEW c
  PROVE  ~ HasZero(Rest(p, pc), c)
<1>1. k \in Nat /\ l \in Nat
  BY DEF Section
<1>2. \A j \in pc + 1 .. l - 1 : j \in k + 1 .. l - 1
  BY <1>1
<1>3. \A j \in pc + 1 .. l - 1 : p[j].op = "copy"
  BY <1>2 DEF Copying
<1>4. QED
  BY <1>3, ZerosOfSection

\* Nothing is ahead while the lock is free.
LEMMA NothingAhead ==
  ASSUME Inv, holder = NoThread, NEW c
  PROVE  ~ Ahead(c)
BY NoThreadAssumption DEF Ahead

\* What is ahead stays so for a step that neither takes nor gives back the
\* lock and, if it is its holder's, leaves it ahead.
LEMMA AheadStays ==
  ASSUME NEW t \in Threads, holder' = holder,
         \A u \in Threads \ {t} : todo'[u] = todo[u],
         NEW c, holder = t => (HasZero(todo'[t], c) <=> HasZero(todo[t], c))
  PROVE  Ahead(c)' <=> Ahead(c)
BY DEF Ahead

\* A step that moves no more than what is owed into its counter keeps the
\* drift.
LEMMA DriftStays ==
  ASSUME Inv, Packets \subseteq Watched, DriftInv, torn' = torn,
         \A c \in Packets :
           /\ Ahead(c)' <=> Ahead(c)
           /\ counter'[c] \in Nat /\ Owed(c)' \in Nat
           /\ counter'[c] + Owed(c)' = counter[c] + Owed(c)
           /\ Owed(c)' <= Owed(c)
  PROVE  DriftInv'
<1>1. "rx_packets" \in Packets /\ "tx_packets" \in Packets /\ "total_packets" \in Packets
  BY DEF Packets, Directions
<1>2. \A c \in Packets : /\ counter[c] \in Nat /\ Owed(c) \in Nat
                         /\ Settled(c) = counter[c] + Owed(c)
                         /\ Settled(c)' = counter'[c] + Owed(c)'
  BY OwedIsCounted DEF Inv, TypeInv, Settled
<1>3. \A c \in Packets : Settled(c)' = Settled(c)
  BY <1>2
<1>4. torn \in Nat
  BY DEF Inv, TypeInv
<1>5. Drift' = Drift
  BY <1>1, <1>3 DEF Drift
<1>6. /\ Owed("rx_packets")' <= Owed("rx_packets")
      /\ Owed("tx_packets")' <= Owed("tx_packets")
      /\ Owed("total_packets")' <= Owed("total_packets")
      /\ Owed("rx_packets")' \in Nat /\ Owed("tx_packets")' \in Nat /\ Owed("total_packets")' \in Nat
      /\ Owed("rx_packets") \in Nat /\ Owed("tx_packets") \in Nat /\ Owed("total_packets") \in Nat
      /\ Settled("rx_packets") \in Nat /\ Settled("tx_packets") \in Nat
      /\ Settled("rx_packets")' = Settled("rx_packets")
      /\ Settled("tx_packets")' = Settled("tx_packets")
      /\ Ahead("rx_packets")' <=> Ahead("rx_packets")
      /\ Ahead("tx_packets")' <=> Ahead("tx_packets")
      /\ Ahead("total_packets")' <=> Ahead("total_packets")
  BY <1>1, <1>2, <1>3
<1>7. QED
  BY <1>4, <1>5, <1>6 DEF DriftInv

\* Calls, tests and additions, and what a snapshot does.
LEMMA OtherStepsDrift ==
  ASSUME Inv, Inv', Packets \subseteq Watched, DriftInv, NEW t \in Threads,
         Call(t) \/ Ask(t) \/ Increase(t) \/ Switch(t) \/ ClearFlag(t) \/ Copy(t) \/ Pass(t)
  PROVE  DriftInv'
<1>1. /\ todo \in [Threads -> Seq(Accesses)]
      /\ \A u \in Threads \ {t} : todo'[u] = todo[u]
  BY DEF Inv, TypeInv, Call, Ask, Increase, Switch, ClearFlag, Copy, Pass, Advance
<1>2. holder' = holder /\ torn' = torn
  BY DEF Call, Ask, Increase, Switch, ClearFlag, Copy, Pass, lockVars
<1>3. ASSUME NEW c \in Packets
      PROVE  /\ counter'[c] \in Nat /\ Owed(c)' \in Nat
             /\ counter'[c] + Owed(c)' = counter[c] + Owed(c)
             /\ Owed(c)' <= Owed(c)
  <2>1. counter[c] \in Nat /\ Owed(c) \in Nat
    BY OwedIsCounted DEF Inv, TypeInv
  <2>2. CASE Increase(t)
    BY <2>2, IncreaseOwes
  <2>3. CASE ~ Increase(t)
    <3>1. counter' = counter
      BY <2>3 DEF Call, Ask, Switch, ClearFlag, Copy, Pass, stateVars
    <3>2. Owed(c)' = Owed(c)
      BY <2>3, CallOwes, OtherStepsOwe
    <3>3. QED
      BY <2>1, <3>1, <3>2
  <2>4. QED
    BY <2>2, <2>3
<1>4. ASSUME NEW c \in Packets, holder = t
      PROVE  HasZero(todo'[t], c) <=> HasZero(todo[t], c)
  <2>1. PICK p, k, l, pc : Place(t, p, k, l, pc)
    BY DEF Inv, PlaceInv
  <2>2. /\ Program(p, k, l) /\ pc \in 0 .. Len(p) /\ todo[t] = Rest(p, pc)
        /\ k <= pc /\ pc < l
    BY <1>4, <2>1 DEF Place
  <2>3. Section(p, k, l) /\ p \in Seq(Accesses)
    BY <2>2 DEF Program, Section
  <2>4. k \in Nat /\ l \in Nat /\ l <= Len(p) /\ Len(p) \in Nat /\ pc \in Nat /\ 0 < k
    BY <2>2, <2>3 DEF Section
  <2>5. todo[t] # <<>> /\ Current(t) = p[pc + 1]
    <3>1. 1 \in 1 .. Len(p) - pc /\ pc < Len(p)
      BY <2>2, <2>4
    <3>2. /\ Rest(p, pc) \in Seq(Accesses) /\ Len(Rest(p, pc)) = Len(p) - pc
          /\ Rest(p, pc)[1] = p[pc + 1]
      BY <2>2, <2>3, <3>1, RestElements
    <3>3. QED
      BY <2>2, <2>4, <3>1, <3>2 DEF Current
  <2>6. pc < Len(p) /\ holder # NoThread
    BY <1>4, <2>2, <2>4, NoThreadAssumption
  <2>7. LET a == p[pc + 1] IN
        /\ a.op \notin {"add", "print", "engine", "clear_enabled", "clear_initialized"}
        /\ a.op = "copy" => Copying(p, k + 1, l - 1)
        /\ a.op = "ask" => /\ k < pc + 1 /\ pc + 1 + a.n < l
                           /\ a.n \in Nat
    <3>1. p[pc + 1].n \in Nat
      BY <2>2, <2>6, ProgramSteps, AccessFields
    <3>2. QED
      BY <2>2, <2>4, <2>6, <3>1, ProgramSteps
  <2>8. (Ask(t) /\ p[pc + 1].op = "ask") \/ (Copy(t) /\ p[pc + 1].op = "copy")
    BY <2>5, <2>6, <2>7 DEF Call, Ask, Increase, Switch, ClearFlag, Copy, Pass, At
  <2>9. CASE Copy(t) /\ p[pc + 1].op = "copy"
    <3>1. pc + 1 < l
      BY <2>2, <2>6, <2>9, ProgramSteps
    <3>2. Advance(t, 1) /\ 1 \in Nat /\ pc + 1 \in 0 .. Len(p)
      BY <2>4, <2>9, <3>1 DEF Copy
    <3>3. todo'[t] = Rest(p, pc + 1)
      BY <2>1, <3>2, AdvanceRest
    <3>4. pc + 1 \in Nat /\ k <= pc + 1
      BY <2>2, <2>4
    <3>5. QED
      BY <2>2, <2>3, <2>4, <2>7, <2>9, <3>1, <3>3, <3>4, ZerosOfSnapshot
  <2>10. CASE Ask(t) /\ p[pc + 1].op = "ask"
    <3>1. PICK count \in {1, 1 + p[pc + 1].n} : Advance(t, count)
      <4>1. Advance(t, 1 + IF initialized THEN 0 ELSE p[pc + 1].n)
        BY <2>5, <2>10 DEF Ask
      <4>2. 1 + (IF initialized THEN 0 ELSE p[pc + 1].n) \in {1, 1 + p[pc + 1].n}
        OBVIOUS
      <4>3. QED
        BY <4>1, <4>2
    <3>2. count \in Nat /\ count >= 1 /\ pc + count < l /\ pc + count \in 0 .. Len(p)
      BY <2>4, <2>7, <2>10
    <3>3. todo'[t] = Rest(p, pc + count)
      BY <2>1, <3>1, <3>2, AdvanceRest
    <3>4. pc + 1 \in k + 1 .. l - 1
      BY <2>4, <2>7, <2>10
    <3>5. Clearing(p, k + 1, l - 1)
      BY <2>3, <2>10, <3>4 DEF Section, Copying
    <3>6. PICK rx, tx, total : ClearsAt(p, k + 1, l - 1, rx, tx, total)
      BY <3>5 DEF Clearing
    <3>7. total \in Nat /\ rx \in Nat /\ tx \in Nat /\ rx < tx /\ tx < total
      BY <2>2, <2>3, <2>4, <3>6, ZerosOfReset
    <3>8. total < pc + 1
      <4>1. CASE pc + 1 <= total
        <5>1. p[pc + 1].op = "zero"
          BY <3>4, <3>6, <4>1 DEF ClearsAt
        <5>2. QED
          BY <2>10, <5>1
      <4>2. QED
        BY <2>4, <3>7, <4>1
    <3>9. /\ ~ pc < rx /\ ~ pc < tx /\ ~ pc < total
          /\ ~ pc + count < rx /\ ~ pc + count < tx /\ ~ pc + count < total
      BY <2>4, <3>2, <3>7, <3>8
    <3>10. c \in {"rx_packets", "tx_packets", "total_packets"}
      BY DEF Packets, Directions
    <3>11. ~ HasZero(Rest(p, pc), c)
      BY <2>2, <2>3, <2>4, <3>6, <3>9, <3>10, ZerosOfReset
    <3>12. ~ HasZero(Rest(p, pc + count), c)
      <4>1. pc + count \in Nat /\ k <= pc + count
        BY <2>2, <2>4, <3>2
      <4>2. QED
        BY <2>3, <3>2, <3>6, <3>9, <3>10, <4>1, ZerosOfReset
    <3>13. QED
      BY <2>2, <3>3, <3>11, <3>12
  <2>11. QED
    BY <2>8, <2>9, <2>10
<1>5. \A c \in Packets : Ahead(c)' <=> Ahead(c)
  BY <1>1, <1>2, <1>4, AheadStays
<1>6. QED
  BY <1>2, <1>3, <1>5, DriftStays

\* A look that makes a packet owed makes it owed to both sides of the drift.
LEMMA LookDrift ==
  ASSUME Inv, Inv', Packets \subseteq Watched, DriftInv, NEW t \in Threads, Look(t)
  PROVE  DriftInv'
<1>1. holder = NoThread /\ holder' = holder /\ torn' = torn /\ counter' = counter
  BY DEF Look, lockVars
<1>2. \A c : ~ Ahead(c) /\ ~ Ahead(c)'
  BY <1>1, NoThreadAssumption DEF Ahead
<1>3. Owed("total_packets")' - Owed("total_packets") =
        (Owed("rx_packets")' - Owed("rx_packets"))
          + (Owed("tx_packets")' - Owed("tx_packets"))
  BY EnabledLookOwes
<1>4. \A c \in Packets : Owed(c) \in Nat /\ Owed(c)' \in Nat
  <2>1. todo' \in [Threads -> Seq(Accesses)]
    BY DEF Inv, TypeInv
  <2>2. \A u \in Threads \ {t} : todo'[u] = todo[u]
    BY DEF Look, Advance, Inv, TypeInv
  <2>3. QED
    BY <2>1, <2>2, OwedChanges
<1>5. \A c \in Packets : /\ counter[c] \in Nat
                         /\ Settled(c) = counter[c] + Owed(c)
                         /\ Settled(c)' = counter[c] + Owed(c)'
  BY <1>1 DEF Inv, TypeInv, Settled
<1>6. "rx_packets" \in Packets /\ "tx_packets" \in Packets /\ "total_packets" \in Packets
  BY DEF Packets, Directions
<1>7. Settled("total_packets")' - Settled("rx_packets")' - Settled("tx_packets")'
        = Settled("total_packets") - Settled("rx_packets") - Settled("tx_packets")
  <2>1. /\ Settled("rx_packets")' = Settled("rx_packets") + (Owed("rx_packets")' - Owed("rx_packets"))
        /\ Settled("rx_packets") \in Nat
        /\ Owed("rx_packets")' - Owed("rx_packets") \in Int
    BY <1>4, <1>5, <1>6
  <2>2. /\ Settled("tx_packets")' = Settled("tx_packets") + (Owed("tx_packets")' - Owed("tx_packets"))
        /\ Settled("tx_packets") \in Nat
        /\ Owed("tx_packets")' - Owed("tx_packets") \in Int
    BY <1>4, <1>5, <1>6
  <2>3. /\ Settled("total_packets")' =
             Settled("total_packets") + (Owed("total_packets")' - Owed("total_packets"))
        /\ Settled("total_packets") \in Nat
        /\ Owed("total_packets")' - Owed("total_packets") \in Int
    BY <1>4, <1>5, <1>6
  <2>4. QED
    BY <1>3, <2>1, <2>2, <2>3
<1>8. Drift' = Drift
  BY <1>7 DEF Drift
<1>9. QED
  BY <1>1, <1>2, <1>8 DEF DriftInv

\* The lock given back leaves nothing ahead, and nothing was.
LEMMA UnlockDrift ==
  ASSUME Inv, Inv', Packets \subseteq Watched, DriftInv, NEW t \in Threads, Unlock(t)
  PROVE  DriftInv'
<1>1. todo[t] # <<>>
  BY DEF Unlock, At
<1>2. PICK p, k, l, pc : /\ Place(t, p, k, l, pc)
                         /\ pc \in 0 .. Len(p) /\ pc < Len(p)
                         /\ Current(t) = p[pc + 1]
  BY <1>1, ThreadAt
<1>3. Section(p, k, l) /\ pc + 1 = l /\ k < l
  <2>1. p[pc + 1].op = "unlock"
    BY <1>2 DEF Unlock, At
  <2>2. QED
    BY <1>2, <2>1, ProgramSteps DEF Place
<1>4. k \in Nat /\ l \in Nat /\ pc \in Nat /\ k <= pc /\ pc < l
  BY <1>2, <1>3 DEF Section
<1>5. holder = t /\ todo[t] = Rest(p, pc)
  BY <1>2, <1>4 DEF Place
<1>6. ASSUME NEW c PROVE ~ Ahead(c) /\ ~ Ahead(c)'
  <2>1. ~ \E j \in pc + 1 .. l - 1 : p[j].op = "zero" /\ p[j].on = c
    BY <1>3, <1>4
  <2>2. ~ HasZero(Rest(p, pc), c)
    BY <1>3, <1>4, <2>1, ZerosOfSection
  <2>3. holder' = NoThread
    BY DEF Unlock
  <2>4. QED
    BY <1>5, <2>2, <2>3, NoThreadAssumption DEF Ahead
<1>7. torn' = torn /\ counter' = counter
  BY DEF Unlock
<1>8. ASSUME NEW c \in Packets
      PROVE  /\ counter'[c] \in Nat /\ Owed(c)' \in Nat
             /\ counter'[c] + Owed(c)' = counter[c] + Owed(c)
             /\ Owed(c)' <= Owed(c)
  <2>1. counter[c] \in Nat /\ Owed(c) \in Nat
    BY OwedIsCounted DEF Inv, TypeInv
  <2>2. Owed(c)' = Owed(c)
    BY OtherStepsOwe
  <2>3. QED
    BY <1>7, <2>1, <2>2
<1>9. QED
  BY <1>6, <1>7, <1>8, DriftStays

\* Where a full reset begins, no more is owed than it has met recordings.
LEMMA LockDrift ==
  ASSUME Inv, Inv', Packets \subseteq Watched, DriftInv, NEW t \in Threads, Lock(t)
  PROVE  DriftInv'
<1>1. todo[t] # <<>>
  BY DEF Lock, At
<1>2. PICK p, k, l, pc : /\ Place(t, p, k, l, pc)
                         /\ pc \in 0 .. Len(p) /\ pc < Len(p)
                         /\ Current(t) = p[pc + 1]
  BY <1>1, ThreadAt
<1>3. Section(p, k, l) /\ pc + 1 = k /\ k < l
  <2>1. p[pc + 1].op = "lock"
    BY <1>2 DEF Lock, At
  <2>2. QED
    BY <1>2, <2>1, ProgramSteps DEF Place
<1>4. k \in Nat /\ l \in Nat /\ pc \in Nat /\ p \in Seq(Accesses) /\ Len(p) \in Nat /\ l <= Len(p)
  BY <1>2, <1>3 DEF Section
<1>5. holder = NoThread /\ holder' = t /\ counter' = counter /\ Advance(t, 1)
  BY DEF Lock
<1>6. todo[t] = Rest(p, pc) /\ todo'[t] = Rest(p, k)
  <2>1. pc + 1 \in 0 .. Len(p) /\ 1 \in Nat
    BY <1>2
  <2>2. todo'[t] = Rest(p, pc + 1)
    BY <1>2, <1>5, <2>1, AdvanceRest
  <2>3. QED
    BY <1>2, <1>3, <2>2 DEF Place
<1>7. \A c : ~ Ahead(c) /\ (Ahead(c)' <=> HasZero(Rest(p, k), c))
  BY <1>5, <1>6, NoThreadAssumption DEF Ahead
<1>8. \A c \in Packets : /\ counter[c] \in Nat /\ Owed(c) \in Nat
                         /\ Owed(c)' = Owed(c)
  BY OwedIsCounted, OtherStepsOwe DEF Inv, TypeInv
<1>9. /\ DOMAIN todo[t] = 1 .. Len(p) - pc
      /\ \A i \in 1 .. Len(p) - pc : todo[t][i] = p[pc + i]
  BY <1>2, <1>4, <1>6, RestElements
<1>10. CASE Copying(p, k + 1, l - 1)
  <2>1. \A c : ~ Ahead(c)'
    BY <1>3, <1>4, <1>7, <1>10, ZerosOfSnapshot
  <2>2. \E i \in DOMAIN todo[t] : todo[t][i].op = "copy"
    <3>1. k + 1 \in k + 1 .. l - 1
      BY <1>4, <1>10 DEF Copying
    <3>2. p[k + 1].op = "copy"
      BY <1>10, <3>1 DEF Copying
    <3>3. 2 \in 1 .. Len(p) - pc /\ pc + 2 = k + 1
      BY <1>3, <1>4, <3>1
    <3>4. todo[t][2].op = "copy"
      BY <1>9, <3>2, <3>3
    <3>5. QED
      BY <1>9, <3>3, <3>4
  <2>3. torn' = torn
    BY <2>2 DEF Lock
  <2>4. \A c \in Packets : /\ Ahead(c)' <=> Ahead(c)
                           /\ counter'[c] \in Nat /\ Owed(c)' \in Nat
                           /\ counter'[c] + Owed(c)' = counter[c] + Owed(c)
                           /\ Owed(c)' <= Owed(c)
    BY <1>5, <1>7, <1>8, <2>1
  <2>5. QED
    BY <2>3, <2>4, DriftStays
<1>11. CASE Clearing(p, k + 1, l - 1)
  <2>1. PICK rx, tx, total : ClearsAt(p, k + 1, l - 1, rx, tx, total)
    BY <1>11 DEF Clearing
  <2>2. /\ HasZero(Rest(p, k), "rx_packets") <=> k < rx
        /\ HasZero(Rest(p, k), "tx_packets") <=> k < tx
        /\ HasZero(Rest(p, k), "total_packets") <=> k < total
        /\ rx \in Nat /\ tx \in Nat /\ total \in Nat /\ rx < tx /\ tx < total
    BY <1>3, <1>4, <2>1, ZerosOfReset
  <2>3. k < rx
    BY <1>4, <2>1, <2>2 DEF ClearsAt
  <2>4. Ahead("rx_packets")' /\ Ahead("tx_packets")' /\ Ahead("total_packets")'
    BY <1>4, <1>7, <2>2, <2>3
  <2>5. ~ \E i \in DOMAIN todo[t] : todo[t][i].op = "copy"
    <3>1. SUFFICES ASSUME NEW j \in k .. Len(p), p[j].op = "copy" PROVE FALSE
      BY <1>3, <1>4, <1>9
    <3>2. j = k \/ j \in k + 1 .. l - 1 \/ j = l \/ j \in l + 1 .. Len(p)
      BY <1>4
    <3>3. QED
      BY <1>3, <1>11, <3>1, <3>2 DEF Section, Clearing
  <2>6. torn' = Cardinality({r \in Threads : Recording(r)})
    BY <2>5 DEF Lock
  <2>7. /\ Owed("rx_packets") + Owed("tx_packets") <= torn'
        /\ Owed("total_packets") <= torn'
    BY <2>6, OwedIsBounded
  <2>8. /\ Owed("rx_packets")' = Owed("rx_packets")
        /\ Owed("tx_packets")' = Owed("tx_packets")
        /\ Owed("total_packets")' = Owed("total_packets")
    BY <1>8 DEF Packets, Directions
  <2>9. QED
    BY <2>4, <2>7, <2>8 DEF DriftInv
<1>12. QED
  BY <1>3, <1>10, <1>11 DEF Section

\* A reset of a packet counter takes the drift one further on its way to
\* the bound.
LEMMA ClearDrift ==
  ASSUME Inv, Inv', Packets \subseteq Watched, DriftInv, NEW t \in Threads, Clear(t)
  PROVE  DriftInv'
<1>1. todo[t] # <<>>
  BY DEF Clear, At
<1>2. PICK p, k, l, pc : /\ Place(t, p, k, l, pc)
                         /\ pc \in 0 .. Len(p) /\ pc < Len(p)
                         /\ Current(t) = p[pc + 1]
  BY <1>1, ThreadAt
<1> DEFINE a == p[pc + 1]
<1>3. a.op = "zero" /\ Program(p, k, l) /\ todo[t] = Rest(p, pc)
  BY <1>2 DEF Clear, At, Place
<1>4. /\ counter' = [counter EXCEPT ![a.on] = 0] /\ Advance(t, 1)
      /\ holder' = holder /\ torn' = torn
  BY <1>2 DEF Clear, lockVars
<1>5. pc + 1 \in 0 .. Len(p) /\ 1 \in Nat
  BY <1>2
<1>6. /\ todo'[t] = Rest(p, pc + 1)
      /\ \A u \in Threads \ {t} : todo'[u] = todo[u]
  BY <1>2, <1>4, <1>5, AdvanceRest
<1>7. counter \in [Watched -> Nat]
  BY DEF Inv, TypeInv
<1>8. \A c \in Packets : /\ counter[c] \in Nat /\ Owed(c) \in Nat
                         /\ Owed(c)' = Owed(c)
                         /\ counter'[c] = IF c = a.on THEN 0 ELSE counter[c]
  BY <1>4, <1>7, OwedIsCounted, OtherStepsOwe
<1>9. Packets \subseteq LockedCounters
  BY DEF Packets, Directions, LockedCounters, PacketCounters, Range
<1>10. CASE k = 0 /\ l = 0 /\ a.on \in Watched \ LockedCounters
  <2>1. holder # t
    BY <1>2, <1>10 DEF Place
  <2>2. \A c \in Packets : Ahead(c)' <=> Ahead(c)
    BY <1>4, <1>6, <2>1, AheadStays
  <2>3. \A c \in Packets : c # a.on
    BY <1>9, <1>10
  <2>4. \A c \in Packets : /\ counter'[c] \in Nat /\ Owed(c)' \in Nat
                           /\ counter'[c] + Owed(c)' = counter[c] + Owed(c)
                           /\ Owed(c)' <= Owed(c)
    BY <1>8, <2>3
  <2>5. QED
    BY <1>4, <2>2, <2>4, DriftStays
<1>11. CASE Section(p, k, l) /\ k < pc + 1 /\ pc + 1 < l /\ Clearing(p, k + 1, l - 1)
  <2>1. k \in Nat /\ l \in Nat /\ pc \in Nat /\ k <= pc /\ pc < l /\ pc + 1 \in Nat /\ k <= pc + 1
    BY <1>2, <1>11 DEF Section
  <2>2. holder = t /\ holder' = t
    BY <1>2, <1>4, <2>1 DEF Place
  <2>3. PICK rx, tx, total : ClearsAt(p, k + 1, l - 1, rx, tx, total)
    BY <1>11 DEF Clearing
  <2>4. rx \in Nat /\ tx \in Nat /\ total \in Nat /\ rx < tx /\ tx < total
    BY <1>11, <2>1, <2>3, ZerosOfReset
  <2>5. /\ Ahead("rx_packets") <=> pc < rx
        /\ Ahead("tx_packets") <=> pc < tx
        /\ Ahead("total_packets") <=> pc < total
    <3>1. \A c : Ahead(c) <=> HasZero(Rest(p, pc), c)
      BY <1>3, <2>2 DEF Ahead
    <3>2. QED
      BY <1>11, <2>1, <2>3, <3>1, ZerosOfReset
  <2>6. /\ Ahead("rx_packets")' <=> pc + 1 < rx
        /\ Ahead("tx_packets")' <=> pc + 1 < tx
        /\ Ahead("total_packets")' <=> pc + 1 < total
    <3>1. \A c : Ahead(c)' <=> HasZero(Rest(p, pc + 1), c)
      BY <1>6, <2>2 DEF Ahead
    <3>2. QED
      BY <1>11, <2>1, <2>3, <3>1, ZerosOfReset
  <2>7. /\ a.on = "rx_packets" <=> pc + 1 = rx
        /\ a.on = "tx_packets" <=> pc + 1 = tx
        /\ a.on = "total_packets" <=> pc + 1 = total
    <3>1. pc + 1 \in k + 1 .. l - 1
      BY <1>11, <2>1
    <3>2. QED
      BY <2>3, <3>1 DEF ClearsAt
  <2>8. "rx_packets" \in Packets /\ "tx_packets" \in Packets /\ "total_packets" \in Packets
    BY DEF Packets, Directions
  <2> HIDE DEF a
  <2>9. \A c \in Packets : /\ Settled(c) = counter[c] + Owed(c)
                           /\ Settled(c)' = counter'[c] + Owed(c)'
    BY DEF Settled
  <2>10. torn \in Nat
    BY DEF Inv, TypeInv
  <2>11. /\ Owed("rx_packets")' = Owed("rx_packets") /\ Owed("rx_packets") \in Nat
         /\ Owed("tx_packets")' = Owed("tx_packets") /\ Owed("tx_packets") \in Nat
         /\ Owed("total_packets")' = Owed("total_packets") /\ Owed("total_packets") \in Nat
         /\ Settled("rx_packets") \in Nat /\ Settled("tx_packets") \in Nat
         /\ Settled("total_packets") \in Nat
    BY <1>8, <2>8, <2>9
  <2>12. /\ Settled("rx_packets")' =
              IF pc + 1 = rx THEN Owed("rx_packets") ELSE Settled("rx_packets")
         /\ Settled("tx_packets")' =
              IF pc + 1 = tx THEN Owed("tx_packets") ELSE Settled("tx_packets")
         /\ Settled("total_packets")' =
              IF pc + 1 = total THEN Owed("total_packets") ELSE Settled("total_packets")
    BY <1>8, <2>7, <2>8, <2>9
  <2>13. CASE pc + 1 = rx
    <3>1. /\ Ahead("rx_packets") /\ ~ Ahead("rx_packets")'
          /\ Ahead("tx_packets")' /\ Ahead("total_packets")' /\ Ahead("total_packets")
      BY <2>1, <2>4, <2>5, <2>6, <2>13
    <3>2. Settled("rx_packets")' = Owed("rx_packets")
      BY <2>12, <2>13
    <3>3. QED
      BY <1>4, <2>11, <3>1, <3>2 DEF DriftInv
  <2>14. CASE pc + 1 = tx
    <3>1. /\ Ahead("tx_packets") /\ ~ Ahead("rx_packets")
          /\ ~ Ahead("rx_packets")' /\ ~ Ahead("tx_packets")'
          /\ Ahead("total_packets") /\ Ahead("total_packets")'
      BY <2>1, <2>4, <2>5, <2>6, <2>14
    <3>2. /\ Settled("tx_packets")' = Owed("tx_packets")
          /\ Settled("rx_packets")' = Settled("rx_packets")
      BY <2>1, <2>4, <2>12, <2>14
    <3>3. QED
      BY <1>4, <2>11, <3>1, <3>2 DEF DriftInv
  <2>15. CASE pc + 1 = total
    <3>1. /\ Ahead("total_packets") /\ ~ Ahead("tx_packets")
          /\ ~ Ahead("rx_packets")' /\ ~ Ahead("tx_packets")' /\ ~ Ahead("total_packets")'
      BY <2>1, <2>4, <2>5, <2>6, <2>15
    <3>2. /\ Settled("total_packets")' = Owed("total_packets")
          /\ Settled("rx_packets")' = Settled("rx_packets")
          /\ Settled("tx_packets")' = Settled("tx_packets")
      BY <2>1, <2>4, <2>12, <2>15
    <3>3. /\ Settled("rx_packets") + Settled("tx_packets") <= torn
          /\ Owed("total_packets") <= torn
      BY <3>1 DEF DriftInv
    <3>4. Drift' = Owed("total_packets") - Settled("rx_packets") - Settled("tx_packets")
      BY <3>2 DEF Drift
    <3>5. Drift' \in -torn .. torn
      BY <2>10, <2>11, <3>3, <3>4
    <3>6. QED
      BY <1>4, <3>1, <3>5 DEF DriftInv
  <2>16. CASE pc + 1 # rx /\ pc + 1 # tx /\ pc + 1 # total
    <3>1. /\ Ahead("rx_packets")' <=> Ahead("rx_packets")
          /\ Ahead("tx_packets")' <=> Ahead("tx_packets")
          /\ Ahead("total_packets")' <=> Ahead("total_packets")
      BY <2>1, <2>4, <2>5, <2>6, <2>16
    <3>2. /\ Settled("rx_packets")' = Settled("rx_packets")
          /\ Settled("tx_packets")' = Settled("tx_packets")
          /\ Settled("total_packets")' = Settled("total_packets")
      BY <2>12, <2>16
    <3>3. Drift' = Drift
      BY <3>2 DEF Drift
    <3>4. QED
      BY <1>4, <2>11, <3>1, <3>2, <3>3 DEF DriftInv
  <2>17. QED
    BY <2>13, <2>14, <2>15, <2>16
<1>12. QED
  BY <1>2, <1>3, <1>10, <1>11, ProgramSteps

\* At the start nothing is counted or owed.
LEMMA InitDrift ==
  ASSUME Init, Packets \subseteq Watched
  PROVE  DriftInv
<1>1. Inv /\ holder = NoThread /\ torn = 0 /\ counter = Zero
  BY InitInv DEF Init
<1>2. \A c : ~ Ahead(c)
  BY <1>1, NothingAhead
<1>3. \A c \in Packets : Owed(c) = 0 /\ counter[c] = 0
  <2>1. ~ \E t \in Threads : Recording(t)
    BY DEF Init, Recording, At
  <2>2. {r \in Threads : Recording(r)} = {}
    BY <2>1
  <2>3. Cardinality({r \in Threads : Recording(r)}) = 0
    BY <2>2, FS_EmptySet
  <2>4. /\ Owed("rx_packets") + Owed("tx_packets") <= 0 /\ Owed("total_packets") <= 0
    BY <1>1, <2>3, OwedIsBounded
  <2>5. Owed("rx_packets") \in Nat /\ Owed("tx_packets") \in Nat /\ Owed("total_packets") \in Nat
    BY <1>1, OwedIsCounted
  <2>6. Owed("rx_packets") = 0 /\ Owed("tx_packets") = 0 /\ Owed("total_packets") = 0
    BY <2>4, <2>5
  <2>7. QED
    BY <1>1, <2>6 DEF Packets, Directions, Zero
<1>4. Settled("rx_packets") = 0 /\ Settled("tx_packets") = 0 /\ Settled("total_packets") = 0
  BY <1>3 DEF Settled, Packets, Directions
<1>5. Drift = 0
  BY <1>4 DEF Drift
<1>6. QED
  BY <1>1, <1>2, <1>5 DEF DriftInv

\* pf_stats_record_rx and _tx (statistics.c) keep total_packets equal to the
\* packets of both directions up to the recordings under way, and full
\* resets in between, however many, separate them by no more than the
\* recordings the last one met.  It needs the three counters to be followed.
THEOREM DriftHolds == ASSUME Packets \subseteq Watched PROVE Spec => []DriftIsBounded
<1>1. Init => DriftInv
  BY InitDrift
<1>2. ASSUME Inv, Inv', DriftInv, [Next]_vars PROVE DriftInv'
  <2>1. CASE Next
    <3>1. PICK t \in Threads : Call(t) \/ Step(t)
      BY <2>1 DEF Next
    <3>2. QED
      BY <1>2, <3>1, OtherStepsDrift, LookDrift, UnlockDrift, LockDrift, ClearDrift DEF Step
  <2>2. CASE UNCHANGED vars
    <3>1. \A c : (Ahead(c)' <=> Ahead(c)) /\ Owed(c)' = Owed(c) /\ Settled(c)' = Settled(c)
      BY <2>2 DEF vars, Ahead, Owed, Settled
    <3>2. Drift' = Drift /\ torn' = torn
      BY <2>2, <3>1 DEF vars, Drift
    <3>3. QED
      BY <1>2, <3>1, <3>2 DEF DriftInv
  <2>3. QED
    BY <1>2, <2>1, <2>2
<1>3. ASSUME Inv, DriftInv PROVE DriftIsBounded
  <2>1. ASSUME ~ Resetting PROVE ~ Ahead("total_packets")
    BY <2>1 DEF Resetting, Ahead, HasZero
  <2>2. QED
    BY <1>3, <2>1 DEF DriftIsBounded, DriftInv
<1>4. QED
  BY <1>1, <1>2, <1>3, SpecInv, PTL DEF Spec

=============================================================================
