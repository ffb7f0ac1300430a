--------------------------- MODULE UserspaceProofs ---------------------------
(***************************************************************************)
(* Proofs about the userspace library and the command line tool: what both *)
(* do to the library's variables, the driver and the rule files is a       *)
(* LibStep, and LibInv is inductive for those.                             *)
(***************************************************************************)
EXTENDS FilterCtl, ListLemmas

-----------------------------------------------------------------------------
(* Rules and lines.                                                        *)

\* Ports are numbers.
LEMMA PortIsNumber == PortLimit \in Nat
BY SMT DEF PortLimit

\* The rule for every packet, and what filter_rule_set_* make of a rule.
LEMMA RulesAreMade ==
  /\ EmptyRule \in GoodRule
  /\ \A rule \in GoodRule, ip \in Address :
       /\ WithSourceIp(rule, ip) \in GoodRule
       /\ WithDestinationIp(rule, ip) \in GoodRule
  /\ \A rule \in GoodRule, source, destination \in 0 .. PortLimit :
       WithPorts(rule, source, destination) \in GoodRule
<1>1. 0 \in Address /\ AddressBits \in 0 .. AddressBits /\ 0 \in 0 .. AddressBits
  <2>1. 2^AddressBits \in Nat \ {0}
    BY WidthAssumption, PowersAssumption
  <2>2. QED
    BY <2>1, WidthAssumption DEF Address
<1>2. EmptyRule \in GoodRule
  BY <1>1, PortIsNumber DEF EmptyRule, GoodRule, Rule, RuleActions, Protocols
<1>3. ASSUME NEW rule \in GoodRule, NEW ip \in Address
      PROVE  WithSourceIp(rule, ip) \in GoodRule /\ WithDestinationIp(rule, ip) \in GoodRule
  BY <1>1 DEF WithSourceIp, WithDestinationIp, GoodRule, Rule
<1>4. ASSUME NEW rule \in GoodRule, NEW source \in 0 .. PortLimit,
             NEW destination \in 0 .. PortLimit
      PROVE  WithPorts(rule, source, destination) \in GoodRule
  BY DEF WithPorts, GoodRule, Rule
<1>5. QED
  BY <1>2, <1>3, <1>4

\* A line that filter_load_rules takes makes a rule that check_rule takes.
LEMMA LoadableIsGood ==
  ASSUME NEW line \in FileLine, Loadable(line)
  PROVE  RuleOf(line) \in GoodRule
<1> DEFINE source == IF line.src_ip = 0 THEN EmptyRule ELSE WithSourceIp(EmptyRule, line.src_ip)
           both   == IF line.dst_ip = 0 THEN source ELSE WithDestinationIp(source, line.dst_ip)
           named  == [both EXCEPT !.action = line.action, !.protocol = line.protocol]
<1>1. /\ line.src_ip \in Address /\ line.dst_ip \in Address
      /\ line.src_port \in 0 .. PortLimit /\ line.dst_port \in 0 .. PortLimit
      /\ line.action \in RuleActions /\ line.protocol \in Protocols
  <2>1. line.src_port \in Nat /\ line.dst_port \in Nat
    BY DEF FileLine
  <2>2. QED
    BY <2>1, PortIsNumber DEF Loadable
<1>2. source \in GoodRule
  BY <1>1, RulesAreMade
<1>3. both \in GoodRule
  <2> HIDE DEF source
  <2>1. QED
    BY <1>1, <1>2, RulesAreMade
<1>4. named \in GoodRule
  <2> HIDE DEF both
  <2>1. QED
    BY <1>1, <1>3 DEF GoodRule, Rule
<1>5. RuleOf(line) = WithPorts(named, line.src_port, line.dst_port)
  BY DEF RuleOf
<1> HIDE DEF named
<1>6. QED
  BY <1>1, <1>4, <1>5, RulesAreMade

\* The line saved for a rule is one that is taken.
LEMMA SavedIsLoadable ==
  ASSUME NEW rule \in GoodRule
  PROVE  LineOf(rule) \in FileLine /\ Loadable(LineOf(rule))
<1>1. \A a \in Address : a \in Nat
  BY DEF Address
<1>2. /\ rule.src_ip \in Address /\ rule.dst_ip \in Address
      /\ rule.src_port \in 0 .. PortLimit /\ rule.dst_port \in 0 .. PortLimit
      /\ rule.action \in RuleActions /\ rule.protocol \in Protocols
  BY DEF GoodRule, Rule
<1>3. rule.action \in Words /\ rule.protocol \in Words
  BY <1>2 DEF Words
<1>4. LineOf(rule) \in FileLine
  BY <1>1, <1>2, <1>3, PortIsNumber DEF LineOf, FileLine
<1>5. Loadable(LineOf(rule))
  BY <1>2, PortIsNumber DEF LineOf, Loadable
<1>6. QED
  BY <1>4, <1>5

\* A rule that is saved and loaded again is kept.
LEMMA SavedIsKept ==
  ASSUME NEW rule \in GoodRule
  PROVE  Kept(rule, RuleOf(LineOf(rule)))
<1> DEFINE loaded == RuleOf(LineOf(rule))
<1>1. /\ loaded.action = rule.action /\ loaded.protocol = rule.protocol
      /\ loaded.src_port = rule.src_port /\ loaded.dst_port = rule.dst_port
      /\ loaded.src_ip = rule.src_ip /\ loaded.dst_ip = rule.dst_ip
      /\ loaded.src_prefix = IF rule.src_ip = 0 THEN 0 ELSE AddressBits
      /\ loaded.dst_prefix = IF rule.dst_ip = 0 THEN 0 ELSE AddressBits
  BY DEF RuleOf, LineOf, EmptyRule, WithSourceIp, WithDestinationIp, WithPorts
<1> HIDE DEF loaded
<1>2. Kept(rule, loaded)
  BY <1>1 DEF Kept, InHostForm
<1>3. QED
  BY <1>2 DEF loaded

LoadableLines == {line \in FileLine : Loadable(line)}

\* The rules of a file, and of one with a line more.
LEMMA RulesOfLines ==
  ASSUME NEW lines \in Seq(FileLine)
  PROVE  RulesOf(lines) \in Seq(GoodRule)
<1> DEFINE kept == Selection(lines, LoadableLines)
<1>1. kept \in Seq(FileLine) /\ \A i \in DOMAIN kept : kept[i] \in LoadableLines
  BY SelectionProperties
<1>2. RulesOf(lines) = [i \in DOMAIN kept |-> RuleOf(kept[i])]
  BY DEF RulesOf, LoadableLines
<1> HIDE DEF kept
<1>3. DOMAIN kept = 1 .. Len(kept) /\ Len(kept) \in Nat
  BY <1>1
<1>4. \A i \in DOMAIN kept : RuleOf(kept[i]) \in GoodRule
  BY <1>1, LoadableIsGood DEF LoadableLines
<1>5. QED
  BY <1>2, <1>3, <1>4

\* A further line adds its rule, or none if it is skipped.
LEMMA RulesOfAppend ==
  ASSUME NEW lines \in Seq(FileLine), NEW line \in FileLine
  PROVE  RulesOf(Append(lines, line)) =
           IF Loadable(line) THEN Append(RulesOf(lines), RuleOf(line)) ELSE RulesOf(lines)
<1> DEFINE kept == Selection(lines, LoadableLines)
           more == Selection(Append(lines, line), LoadableLines)
<1>1. kept \in Seq(FileLine)
  BY SelectionProperties
<1>2. more = IF line \in LoadableLines THEN Append(kept, line) ELSE kept
  BY SelectionOfAppend
<1>3. /\ RulesOf(lines) = [i \in DOMAIN kept |-> RuleOf(kept[i])]
      /\ RulesOf(Append(lines, line)) = [i \in DOMAIN more |-> RuleOf(more[i])]
  BY DEF RulesOf, LoadableLines
<1> HIDE DEF kept, more
<1>4. line \in LoadableLines <=> Loadable(line)
  BY DEF LoadableLines
<1>5. CASE Loadable(line)
  <2>1. more = Append(kept, line)
    BY <1>2, <1>4, <1>5
  <2> DEFINE rules == [i \in DOMAIN kept |-> RuleOf(kept[i])]
             longer == [i \in DOMAIN more |-> RuleOf(more[i])]
  <2>2. /\ Len(kept) \in Nat /\ DOMAIN kept = 1 .. Len(kept)
        /\ DOMAIN more = 1 .. Len(kept) + 1
        /\ \A i \in 1 .. Len(kept) + 1 :
             more[i] = IF i <= Len(kept) THEN kept[i] ELSE line
    BY <1>1, <2>1
  <2> DEFINE S == {RuleOf(more[i]) : i \in DOMAIN more}
  <2>3. /\ rules \in Seq(S) /\ Len(rules) = Len(kept)
        /\ longer \in Seq(S) /\ Len(longer) = Len(kept) + 1
        /\ RuleOf(line) \in S
    <3>1. /\ \A i \in 1 .. Len(kept) : i \in DOMAIN more /\ kept[i] = more[i]
          /\ Len(kept) + 1 \in DOMAIN more /\ line = more[Len(kept) + 1]
      BY <2>2
    <3>2. \A i \in DOMAIN kept : RuleOf(kept[i]) \in S
      BY <2>2, <3>1
    <3>3. RuleOf(line) \in S
      BY <3>1
    <3>4. rules \in [1 .. Len(kept) -> S] /\ longer \in [1 .. Len(kept) + 1 -> S]
      BY <2>2, <3>2
    <3> HIDE DEF S, rules, longer
    <3>5. QED
      BY <2>2, <3>3, <3>4
  <2>4. \A i \in 1 .. Len(kept) + 1 :
          longer[i] = IF i <= Len(kept) THEN rules[i] ELSE RuleOf(line)
    BY <2>2
  <2> HIDE DEF S, rules, longer
  <2>5. /\ Append(rules, RuleOf(line)) \in Seq(S)
        /\ Len(Append(rules, RuleOf(line))) = Len(kept) + 1
        /\ \A i \in 1 .. Len(kept) + 1 :
             Append(rules, RuleOf(line))[i] = IF i <= Len(kept) THEN rules[i] ELSE RuleOf(line)
    BY <2>3, AppendElements
  <2>6. longer = Append(rules, RuleOf(line))
    <3>1. \A i \in 1 .. Len(longer) : longer[i] = Append(rules, RuleOf(line))[i]
      BY <2>3, <2>4, <2>5
    <3>2. QED
      BY <2>3, <2>5, <3>1, SeqEqual
  <2>7. QED
    BY <1>3, <1>5, <2>6 DEF rules, longer
<1>6. CASE ~ Loadable(line)
  BY <1>2, <1>3, <1>4, <1>6
<1>7. QED
  BY <1>5, <1>6

\* What filter_save_rules prints loads as the rules it was given, each kept.
LEMMA SavedFileLoads ==
  ASSUME NEW rules \in Seq(GoodRule)
  PROVE  LET loaded == RulesOf(<<Comment>> \o Lines(rules))
         IN  /\ Len(loaded) = Len(rules)
             /\ \A i \in DOMAIN loaded : Kept(rules[i], loaded[i])
<1> DEFINE all  == <<Comment>> \o Lines(rules)
           kept == Selection(all, LoadableLines)
<1>1. /\ DOMAIN rules = 1 .. Len(rules) /\ Len(rules) \in Nat
      /\ \A i \in 1 .. Len(rules) : rules[i] \in GoodRule
  BY LenProperties, ElementOfSeq
<1>2. /\ Lines(rules) \in Seq(FileLine) /\ Len(Lines(rules)) = Len(rules)
      /\ \A i \in 1 .. Len(rules) : Lines(rules)[i] = LineOf(rules[i])
  <2>1. \A i \in 1 .. Len(rules) : LineOf(rules[i]) \in FileLine
    BY <1>1, SavedIsLoadable
  <2>2. Lines(rules) = [i \in 1 .. Len(rules) |-> LineOf(rules[i])]
    BY <1>1 DEF Lines
  <2>3. Lines(rules) \in [1 .. Len(rules) -> FileLine]
    BY <2>1, <2>2
  <2>4. QED
    BY <1>1, <2>2, <2>3
<1>3. Comment \in FileLine /\ ~ Loadable(Comment)
  BY DEF Comment, FileLine, Words, Loadable
<1> HIDE DEF all
<1>5. kept = Lines(rules)
  <2>1. Comment \notin LoadableLines
    BY <1>3 DEF LoadableLines
  <2>2. \A i \in 1 .. Len(Lines(rules)) : Lines(rules)[i] \in LoadableLines
    BY <1>1, <1>2, SavedIsLoadable DEF LoadableLines
  <2>3. Selection(<<Comment>> \o Lines(rules), LoadableLines) = Lines(rules)
    BY <1>2, <1>3, <2>1, <2>2, SelectionBehindHeader
  <2>4. QED
    BY <2>3 DEF all
<1> HIDE DEF kept
<1>6. RulesOf(all) = [i \in 1 .. Len(rules) |-> RuleOf(LineOf(rules[i]))]
  <2>1. RulesOf(all) = [i \in DOMAIN kept |-> RuleOf(kept[i])]
    BY DEF RulesOf, LoadableLines, kept
  <2>2. DOMAIN kept = 1 .. Len(rules)
    BY <1>2, <1>5
  <2>3. QED
    BY <1>2, <1>5, <2>1, <2>2
<1>7. Len(RulesOf(all)) = Len(rules)
  BY <1>1, <1>6
<1>8. \A i \in DOMAIN RulesOf(all) : Kept(rules[i], RulesOf(all)[i])
  BY <1>1, <1>6, SavedIsKept
<1>9. QED
  BY <1>7, <1>8 DEF all

-----------------------------------------------------------------------------
(* Selections of rules from the rules of a file.                           *)

\* Nothing is selected of nothing; a longer whole, and a part that is longer
\* by the same element, still fit.
LEMMA SelectedOfNothing == ASSUME NEW whole PROVE Selected(<<>>, whole)
<1> DEFINE at == [i \in DOMAIN <<>> |-> i]
<1>1. DOMAIN <<>> = {}
  OBVIOUS
<1>2. at \in [DOMAIN <<>> -> DOMAIN whole]
  BY <1>1
<1>3. QED
  BY <1>1, <1>2 DEF Selected

\* The whole may grow ...
LEMMA SelectedOfMore ==
  ASSUME NEW S, NEW part \in Seq(S), NEW whole \in Seq(S), NEW e \in S,
         Selected(part, whole)
  PROVE  Selected(part, Append(whole, e))
<1>1. PICK at \in [DOMAIN part -> DOMAIN whole] :
        /\ \A i \in DOMAIN part : part[i] = whole[at[i]]
        /\ \A i, j \in DOMAIN part : i < j => at[i] < at[j]
  BY DEF Selected
<1> DEFINE more == Append(whole, e)
<1>2. /\ DOMAIN whole = 1 .. Len(whole) /\ Len(whole) \in Nat
      /\ DOMAIN more = 1 .. Len(whole) + 1
      /\ \A k \in 1 .. Len(whole) : more[k] = whole[k]
  OBVIOUS
<1> HIDE DEF more
<1>3. at \in [DOMAIN part -> DOMAIN more] /\ \A i \in DOMAIN part : part[i] = more[at[i]]
  BY <1>1, <1>2
<1>4. Selected(part, more)
  BY <1>1, <1>3 DEF Selected
<1>5. QED
  BY <1>4 DEF more

\* ... and with it the part.
LEMMA SelectedOfBoth ==
  ASSUME NEW S, NEW part \in Seq(S), NEW whole \in Seq(S), NEW e \in S,
         Selected(part, whole)
  PROVE  Selected(Append(part, e), Append(whole, e))
<1>1. PICK at \in [DOMAIN part -> DOMAIN whole] :
        /\ \A i \in DOMAIN part : part[i] = whole[at[i]]
        /\ \A i, j \in DOMAIN part : i < j => at[i] < at[j]
  BY DEF Selected
<1> DEFINE more == Append(whole, e)
           longer == Append(part, e)
           n == Len(part)
           m == Len(whole)
<1>2. /\ DOMAIN whole = 1 .. m /\ m \in Nat
      /\ DOMAIN more = 1 .. m + 1
      /\ \A k \in 1 .. m : more[k] = whole[k]
      /\ more[m + 1] = e
      /\ DOMAIN part = 1 .. n /\ n \in Nat
      /\ DOMAIN longer = 1 .. n + 1
      /\ \A k \in 1 .. n : longer[k] = part[k]
      /\ longer[n + 1] = e
  OBVIOUS
<1> HIDE DEF more, longer, n, m
<1> DEFINE to == [i \in DOMAIN longer |-> IF i <= n THEN at[i] ELSE m + 1]
<1>3. \A i \in 1 .. n : at[i] \in 1 .. m
  BY <1>1, <1>2
<1>4. \A i \in DOMAIN longer : \/ i \in 1 .. n /\ to[i] = at[i]
                               \/ i = n + 1 /\ to[i] = m + 1
  BY <1>2
<1>5. to \in [DOMAIN longer -> DOMAIN more]
  <2>1. \A i \in DOMAIN longer : to[i] \in DOMAIN more
    BY <1>2, <1>3, <1>4
  <2>2. QED
    BY <2>1
<1> HIDE DEF to
<1>6. \A i \in DOMAIN longer : longer[i] = more[to[i]]
  BY <1>1, <1>2, <1>3, <1>4
<1>7. ASSUME NEW i \in DOMAIN longer, NEW j \in DOMAIN longer, i < j
      PROVE  to[i] < to[j]
  <2>1. i \in 1 .. n /\ to[i] = at[i]
    BY <1>2, <1>4, <1>7
  <2>2. CASE j \in 1 .. n /\ to[j] = at[j]
    BY <1>1, <1>2, <1>7, <2>1, <2>2
  <2>3. CASE j = n + 1 /\ to[j] = m + 1
    BY <1>2, <1>3, <2>1, <2>3
  <2>4. QED
    BY <1>4, <2>2, <2>3
<1>8. Selected(longer, more)
  BY <1>5, <1>6, <1>7 DEF Selected
<1>9. QED
  BY <1>8 DEF longer, more

-----------------------------------------------------------------------------
(* A load, from its start to its end.                                      *)

LoadRecord ==
  [op : {"load"}, file : Files, lines : Seq(FileLine), at : Nat \ {0}, loaded : Nat,
   reload : BOOLEAN, before : Seq(GoodRule), from : Seq(GoodRule)]

WriteRecord ==
  [op : {"write"}, file : Files, rules : Seq(GoodRule), at : Nat \ {0}, row : Nat \ {0}]

\* A load that begins is exact.
LEMMA ExactAtFirst ==
  ASSUME NEW load \in LoadRecord, load.at = 1, load.loaded = 0,
         load.reload => load.from = <<>>
  PROVE  ExactLoad(load, load.from)
<1> DEFINE rules == load.from
           added == SubSeq(rules, Len(rules) + 1, Len(rules))
<1>1. rules \in Seq(GoodRule) /\ Len(rules) \in Nat
  BY DEF LoadRecord
<1>2. added = <<>>
  BY <1>1, SubSeqEmpty
<1>3. IsPrefix(rules, rules)
  BY <1>1 DEF IsPrefix
<1>4. Selected(added, RulesOf(SubSeq(load.lines, 1, load.at - 1)))
  BY <1>2, SelectedOfNothing
<1>5. Len(added) = load.loaded
  BY <1>2
<1>6. QED
  BY <1>3, <1>4, <1>5 DEF ExactLoad

\* A line that is read makes it as exact as before: it is skipped, refused,
\* or its rule is added and counted.
LEMMA ExactAfterLine ==
  ASSUME NEW load \in LoadRecord, NEW rules \in Seq(GoodRule), ExactLoad(load, rules),
         load.at <= Len(load.lines),
         NEW counts \in BOOLEAN, counts => Loadable(load.lines[load.at])
  PROVE  ExactLoad([load EXCEPT !.at = @ + 1, !.loaded = @ + IF counts THEN 1 ELSE 0],
                   IF counts THEN Append(rules, RuleOf(load.lines[load.at])) ELSE rules)
<1> DEFINE line == load.lines[load.at]
           next == [load EXCEPT !.at = @ + 1, !.loaded = @ + IF counts THEN 1 ELSE 0]
           more == IF counts THEN Append(rules, RuleOf(line)) ELSE rules
           n    == Len(load.from)
           added == SubSeq(rules, n + 1, Len(rules))
           seen  == SubSeq(load.lines, 1, load.at - 1)
<1>1. /\ load.lines \in Seq(FileLine) /\ load.at \in Nat \ {0} /\ load.loaded \in Nat
      /\ load.from \in Seq(GoodRule) /\ n \in Nat /\ Len(rules) \in Nat
      /\ Len(load.lines) \in Nat
  BY DEF LoadRecord
<1>2. /\ next.from = load.from /\ next.lines = load.lines /\ next.reload = load.reload
      /\ next.at = load.at + 1
      /\ next.loaded = load.loaded + IF counts THEN 1 ELSE 0
  BY DEF LoadRecord
<1>3. line \in FileLine
  BY <1>1, ElementOfSeq
<1>4. /\ load.reload => load.from = <<>>
      /\ IsPrefix(load.from, rules)
      /\ Len(added) = load.loaded
      /\ Selected(added, RulesOf(seen))
  BY DEF ExactLoad
<1>5. n <= Len(rules) /\ SubSeq(load.from, 1, n) = SubSeq(rules, 1, n)
  BY <1>4 DEF IsPrefix
<1>6. seen \in Seq(FileLine) /\ SubSeq(load.lines, 1, (load.at + 1) - 1) = Append(seen, line)
  <2>1. /\ seen \in Seq(FileLine)
        /\ SubSeq(load.lines, 1, load.at) = Append(seen, line)
    <3>1. load.at \in 1 .. Len(load.lines)
      BY <1>1
    <3>2. QED
      BY <1>1, <3>1, OneMoreElement
  <2>2. (load.at + 1) - 1 = load.at
    BY <1>1
  <2>3. QED
    BY <2>1, <2>2
<1>7. added \in Seq(GoodRule)
  BY <1>1
<1> HIDE DEF line, next, more, n, added, seen
<1>8. RulesOf(seen) \in Seq(GoodRule)
  BY <1>6, RulesOfLines
<1>9. RulesOf(Append(seen, line)) =
        IF Loadable(line) THEN Append(RulesOf(seen), RuleOf(line)) ELSE RulesOf(seen)
  BY <1>3, <1>6, RulesOfAppend
<1>10. Loadable(line) => RuleOf(line) \in GoodRule
  BY <1>3, LoadableIsGood
<1>11. CASE counts
  <2>1. Loadable(line) /\ RuleOf(line) \in GoodRule
    BY <1>10, <1>11 DEF line
  <2>2. more = Append(rules, RuleOf(line))
    BY <1>11 DEF more
  <2>3. IsPrefix(load.from, more)
    <3>1. /\ Len(more) = Len(rules) + 1
          /\ SubSeq(more, 1, n) = SubSeq(rules, 1, n)
      BY <1>1, <1>5, <2>1, <2>2
    <3>2. QED
      BY <1>1, <1>5, <3>1 DEF IsPrefix, n
  <2>4. SubSeq(more, n + 1, Len(more)) = Append(added, RuleOf(line))
    <3>1. n + 1 \in 1 .. Len(rules) + 1
      BY <1>1, <1>5
    <3>2. Len(more) = Len(rules) + 1
      BY <2>1, <2>2
    <3>3. QED
      BY <2>1, <2>2, <3>1, <3>2, LastOfAppend DEF added
  <2>5. Selected(Append(added, RuleOf(line)), Append(RulesOf(seen), RuleOf(line)))
    BY <1>4, <1>7, <1>8, <2>1, SelectedOfBoth
  <2>6. Len(Append(added, RuleOf(line))) = load.loaded + 1
    BY <1>4, <1>7, <2>1
  <2>7. next.loaded = load.loaded + 1
    BY <1>2, <1>11
  <2>8. ExactLoad(next, more)
    BY <1>2, <1>4, <1>6, <1>9, <2>1, <2>3, <2>4, <2>5, <2>6, <2>7 DEF ExactLoad, n
  <2>9. QED
    BY <2>8 DEF next, more, line
<1>12. CASE ~ counts
  <2>1. more = rules /\ next.loaded = load.loaded
    BY <1>1, <1>2, <1>12 DEF more
  <2>2. Selected(added, RulesOf(Append(seen, line)))
    <3>1. CASE Loadable(line)
      <4>1. Selected(added, Append(RulesOf(seen), RuleOf(line)))
        BY <1>4, <1>7, <1>8, <1>10, <3>1, SelectedOfMore
      <4>2. QED
        BY <1>9, <3>1, <4>1
    <3>2. CASE ~ Loadable(line)
      BY <1>4, <1>9, <3>2
    <3>3. QED
      BY <3>1, <3>2
  <2>3. ExactLoad(next, more)
    BY <1>2, <1>4, <1>6, <2>1, <2>2 DEF ExactLoad, n, added
  <2>4. QED
    BY <2>3 DEF next, more, line
<1>13. QED
  BY <1>11, <1>12

-----------------------------------------------------------------------------
(* The inductive invariant.                                                *)

\* What a process that nobody meddled with finds in the course of a call: no
\* rules after a reload cleared them, those of an exact load, an empty file
\* when it has opened one to save to, and then what it has written of what it
\* prints, if it has lost nothing.
Undisturbed(c) ==
  c \notin disturbed =>
    /\ todo[c].op = "reload" => driver.rules = <<>>
    /\ todo[c].op = "load" =>
         todo[c].at <= Len(todo[c].lines) + 1 /\ ExactLoad(todo[c], driver.rules)
    /\ todo[c].op = "save" => file[todo[c].file] = <<>>
    /\ todo[c].op = "write" =>
         /\ todo[c].row <= todo[c].at /\ todo[c].at <= Len(Printed(todo[c])) + 1
         /\ todo[c].row = todo[c].at =>
              file[todo[c].file] = SubSeq(Printed(todo[c]), 1, todo[c].at - 1)

LibInv ==
  /\ TypeOK
  /\ SettingsAgree
  /\ \A c \in Clients : Undisturbed(c)

\* What a process may do with the library, whatever the arguments of its call
\* are, and whether a call of the library's is any of its business.
LibStep(c) ==
  \/ \E code :
       \/ \E interface \in InterfaceNames, f \in Files : InitWithConfig(c, interface, f, code)
       \/ Open(c, code)
       \/ \E rule \in AnyRule : AddRule(c, rule, code) \/ UpdateRule(c, rule, code)
       \/ \E id : RemoveRule(c, id, code) \/ EnableRule(c, id, code) \/ DisableRule(c, id, code)
       \/ ClearRules(c, code)
       \/ \E action \in RuleActions : SetDefaultAction(c, action, code)
       \/ \E interface \in InterfaceNames : SetInterface(c, interface, code)
       \/ \E on \in BOOLEAN : SetMonitoring(c, on, code)
       \/ \E f \in Files : LoadRules(c, f, code) \/ SaveRules(c, f, code)
       \/ ReloadRules(c, code)
       \/ LoadAgain(c, code)
       \/ SaveGet(c, code)
  \/ Cleanup(c) \/ Close(c) \/ Proceed(c) \/ Die(c)
  \/ UNCHANGED <<supported, library, driver, file, todo, owner>>

LibraryState ==
  [open : BOOLEAN, initialized : BOOLEAN, default_action : RuleActions,
   interface : InterfaceNames, monitoring_enabled : BOOLEAN, rule_file : Files]

DriverState ==
  [rules : Seq(GoodRule), default_action : RuleActions, interface : InterfaceNames,
   monitoring_enabled : BOOLEAN]

\* TypeOK without the history, with the types named.
VariablesTyped ==
  /\ supported \in Builds
  /\ library \in [Clients -> LibraryState]
  /\ driver \in DriverState
  /\ Len(driver.rules) <= MaxRules
  /\ file \in [DOMAIN file -> Seq(FileLine)] /\ DOMAIN file \subseteq Files
  /\ todo \in [Clients -> Todo]
  /\ \A c \in Clients :
       /\ todo[c] # Idle => library[c].initialized
       /\ todo[c].op \in {"load", "save", "write"} => todo[c].file \in DOMAIN file
  /\ owner \in [Settings -> Clients \cup {NoClient}]

\* TypeOK is that and the type of the history.
LEMMA TypeOKIsTyped ==
  TypeOK <=> VariablesTyped /\ disturbed \subseteq {c \in Clients : todo[c] # Idle}
BY DEF TypeOK, VariablesTyped, LibraryState, DriverState

\* By its "op" one sees what a process has to do.
LEMMA TodoKinds ==
  ASSUME NEW t \in Todo
  PROVE  /\ t.op = "none" <=> t = Idle
         /\ t.op \in {"none", "reload", "load", "save", "write"}
         /\ t.op = "reload" => t \in [op : {"reload"}, before : Seq(GoodRule)]
         /\ t.op = "load" => t \in LoadRecord
         /\ t.op = "save" => t \in [op : {"save"}, file : Files]
         /\ t.op = "write" => t \in WriteRecord
BY DEF Todo, Idle, LoadRecord, WriteRecord

\* A process whose call does not go on in a step is disturbed by it, or
\* nothing it works with changed.
LEMMA OthersUndisturbed ==
  ASSUME LibInv, NEW actors, Disturb(actors), NEW c \in Clients, todo'[c] = todo[c],
         \/ c \notin actors
         \/ todo[c] = Idle
         \/ driver'.rules = driver.rules /\ file' = file
  PROVE  Undisturbed(c)'
<1>1. Undisturbed(c)
  BY DEF LibInv
<1>2. todo[c] = Idle => todo[c].op = "none"
  BY DEF Idle
<1>3. CASE todo[c] = Idle
  BY <1>2, <1>3 DEF Undisturbed
<1>4. CASE todo[c] # Idle /\ c \in disturbed
  BY <1>4 DEF Disturb, Undisturbed
<1>5. CASE todo[c] # Idle /\ c \notin disturbed /\ c \notin actors
  <2>1. Meets(c) => c \in disturbed'
    BY <1>5 DEF Disturb
  <2>2. CASE ~ Meets(c)
    BY <1>1, <1>5, <2>2 DEF Meets, Undisturbed
  <2>3. QED
    BY <2>1, <2>2 DEF Undisturbed
<1>6. CASE c \notin disturbed /\ driver'.rules = driver.rules /\ file' = file
  BY <1>1, <1>6 DEF Undisturbed
<1>7. QED
  BY <1>3, <1>4, <1>5, <1>6

\* The invariant after a step, from what it did to the variables.
LEMMA InvAfterStep ==
  ASSUME NEW actors, Disturb(actors), VariablesTyped', SettingsAgree',
         \A c \in Clients : Undisturbed(c)'
  PROVE  LibInv'
<1>1. disturbed' \subseteq {c \in Clients : todo'[c] # Idle}
  BY DEF Disturb
<1>2. TypeOK'
  BY <1>1 DEF TypeOK, VariablesTyped, LibraryState, DriverState
<1>3. QED
  BY <1>2 DEF LibInv

-----------------------------------------------------------------------------
(* Calls that make one request about rules.                                *)

\* Whatever rules a request about rules leaves, if they are rules the driver
\* takes and has room for.
LEMMA RulesAreSet ==
  ASSUME LibInv, NEW c \in Clients, NEW code, NEW rules,
         AtCall(c), SetRules(code, rules), OnlyDriver, Disturb({c}),
         code = "SUCCESS" => rules \in Seq(GoodRule) /\ Len(rules) <= MaxRules
  PROVE  LibInv'
<1>1. VariablesTyped /\ SettingsAgree
  BY TypeOKIsTyped DEF LibInv
<1>2. /\ driver' \in DriverState /\ Len(driver'.rules) <= MaxRules
      /\ \A s \in Settings : driver'[s] = driver[s]
  BY <1>1 DEF VariablesTyped, DriverState, SetRules, Settings
<1>3. VariablesTyped'
  BY <1>1, <1>2 DEF VariablesTyped, OnlyDriver
<1>4. SettingsAgree'
  BY <1>1, <1>2 DEF SettingsAgree, OnlyDriver
<1>5. todo[c] = Idle
  BY <1>1, TodoKinds DEF AtCall, VariablesTyped
<1>6. \A d \in Clients : Undisturbed(d)'
  BY <1>5, OthersUndisturbed DEF OnlyDriver
<1>7. QED
  BY <1>3, <1>4, <1>6, InvAfterStep

\* A rule that check_rule takes is a good one.
LEMMA CheckedRuleIsGood ==
  ASSUME NEW rule \in AnyRule, ValidRule(rule)
  PROVE  rule \in GoodRule
BY DEF AnyRule, GoodRule, Rule, ValidRule

\* A request is not served before the library was initialised.
LEMMA ServedIsInitialized ==
  ASSUME NEW c, NEW request, "SUCCESS" \in Codes(c, request)
  PROVE  library[c].initialized
BY DEF Codes

\* The driver's rules are a list.
LEMMA DriverRules ==
  ASSUME LibInv
  PROVE  /\ driver.rules \in Seq(GoodRule)
         /\ DOMAIN driver.rules = 1 .. Len(driver.rules) /\ Len(driver.rules) \in Nat
         /\ Len(driver.rules) <= MaxRules
         /\ \A i \in DOMAIN driver.rules : driver.rules[i] \in GoodRule
<1>1. driver.rules \in Seq(GoodRule) /\ Len(driver.rules) <= MaxRules
  BY DEF LibInv, TypeOK
<1>2. QED
  BY <1>1, LenProperties, ElementOfSeq

\* filter_add_rule.
LEMMA AddRuleKeeps ==
  ASSUME LibInv, NEW c \in Clients, NEW rule \in AnyRule, NEW code,
         AddRule(c, rule, code), Disturb({c})
  PROVE  LibInv'
<1>1. ASSUME code = "SUCCESS"
      PROVE  /\ Append(driver.rules, rule) \in Seq(GoodRule)
             /\ Len(Append(driver.rules, rule)) <= MaxRules
  <2>1. ValidRule(rule)
    BY <1>1 DEF AddRule, Codes
  <2>2. rule \in GoodRule
    BY <2>1, CheckedRuleIsGood
  <2>3. Len(driver.rules) < MaxRules /\ Len(driver.rules) \in Nat /\ MaxRules \in Nat
    BY <1>1, DriverRules, WidthAssumption DEF AddRule
  <2>4. QED
    BY <2>2, <2>3, DriverRules, AppendElements
<1>2. AtCall(c) /\ SetRules(code, Append(driver.rules, rule)) /\ OnlyDriver
  BY DEF AddRule
<1>3. QED
  BY <1>1, <1>2, RulesAreSet

\* Rules that are changed in their place stay as many.
LEMMA ChangedRules ==
  ASSUME LibInv, NEW rules \in [DOMAIN driver.rules -> GoodRule]
  PROVE  rules \in Seq(GoodRule) /\ Len(rules) <= MaxRules
<1>1. rules \in [1 .. Len(driver.rules) -> GoodRule] /\ Len(driver.rules) \in Nat
  BY DriverRules
<1>2. rules \in Seq(GoodRule) /\ Len(rules) = Len(driver.rules)
  BY <1>1
<1>3. QED
  BY <1>2, DriverRules

\* filter_update_rule.
LEMMA UpdateRuleKeeps ==
  ASSUME LibInv, NEW c \in Clients, NEW rule \in AnyRule, NEW code,
         UpdateRule(c, rule, code), Disturb({c})
  PROVE  LibInv'
<1> DEFINE rules == Changed(rule.rule_id, LAMBDA old : rule)
<1>1. ASSUME code = "SUCCESS"
      PROVE  rules \in Seq(GoodRule) /\ Len(rules) <= MaxRules
  <2>1. ValidRule(rule)
    BY <1>1 DEF UpdateRule, Codes
  <2>2. rule \in GoodRule
    BY <2>1, CheckedRuleIsGood
  <2>3. rules \in [DOMAIN driver.rules -> GoodRule]
    BY <2>2, DriverRules DEF Changed
  <2>4. QED
    BY <2>3, ChangedRules
<1>2. AtCall(c) /\ SetRules(code, rules) /\ OnlyDriver
  BY DEF UpdateRule
<1> HIDE DEF rules
<1>3. QED
  BY <1>1, <1>2, RulesAreSet

\* filter_enable_rule and filter_disable_rule.
LEMMA EnableRuleKeeps ==
  ASSUME LibInv, NEW c \in Clients, NEW id, NEW code,
         EnableRule(c, id, code) \/ DisableRule(c, id, code), Disturb({c})
  PROVE  LibInv'
<1> DEFINE Enabled(on) == Changed(id, LAMBDA old : [old EXCEPT !.enabled = on])
<1>1. ASSUME NEW on \in BOOLEAN
      PROVE  Enabled(on) \in Seq(GoodRule) /\ Len(Enabled(on)) <= MaxRules
  <2>1. \A rule \in GoodRule : [rule EXCEPT !.enabled = on] \in GoodRule
    BY DEF GoodRule, Rule
  <2>2. Enabled(on) \in [DOMAIN driver.rules -> GoodRule]
    BY <2>1, DriverRules DEF Changed
  <2> HIDE DEF Enabled
  <2>3. QED
    BY <2>2, ChangedRules
<1>2. PICK on \in BOOLEAN : AtCall(c) /\ SetRules(code, Enabled(on)) /\ OnlyDriver
  BY DEF EnableRule, DisableRule
<1> HIDE DEF Enabled
<1>3. QED
  BY <1>1, <1>2, RulesAreSet

\* filter_remove_rule.
LEMMA RemoveRuleKeeps ==
  ASSUME LibInv, NEW c \in Clients, NEW id, NEW code,
         RemoveRule(c, id, code), Disturb({c})
  PROVE  LibInv'
<1> DEFINE rules == Selection(driver.rules, {rule \in GoodRule : rule.rule_id # id})
<1>1. /\ rules \in Seq(GoodRule)
      /\ Len(rules) <= Len(driver.rules)
  BY DriverRules, SelectionProperties
<1>2. AtCall(c) /\ SetRules(code, rules) /\ OnlyDriver
  BY DEF RemoveRule
<1> HIDE DEF rules
<1>3. Len(rules) <= MaxRules
  <2>1. Len(rules) \in Nat /\ MaxRules \in Nat
    BY <1>1, WidthAssumption
  <2>2. QED
    BY <1>1, <2>1, DriverRules
<1>4. QED
  BY <1>1, <1>2, <1>3, RulesAreSet

\* filter_clear_rules.
LEMMA ClearRulesKeeps ==
  ASSUME LibInv, NEW c \in Clients, NEW code, ClearRules(c, code), Disturb({c})
  PROVE  LibInv'
<1>1. <<>> \in Seq(GoodRule) /\ Len(<<>>) <= MaxRules
  BY WidthAssumption
<1>2. QED
  BY <1>1, RulesAreSet DEF ClearRules

-----------------------------------------------------------------------------
(* Initialisation and settings.                                            *)

\* A step that neither touches rules, files nor calls under way, nor ends the
\* initialisation of a process in the middle of a call.
LEMMA SettingsStep ==
  ASSUME LibInv, NEW c \in Clients, Disturb({c}),
         UNCHANGED <<supported, file, todo>>, driver'.rules = driver.rules,
         library' \in [Clients -> LibraryState],
         \A d \in Clients : d # c => library'[d] = library[d],
         todo[c] # Idle => library'[c].initialized,
         driver' \in DriverState, owner' \in [Settings -> Clients \cup {NoClient}],
         SettingsAgree'
  PROVE  LibInv'
<1>1. VariablesTyped
  BY TypeOKIsTyped DEF LibInv
<1>2. VariablesTyped'
  BY <1>1 DEF VariablesTyped
<1>3. \A d \in Clients : Undisturbed(d)'
  BY OthersUndisturbed
<1>4. QED
  BY <1>2, <1>3, InvAfterStep

\* filter_init and filter_init_with_config.
LEMMA InitWithConfigKeeps ==
  ASSUME LibInv, NEW c \in Clients, NEW interface \in InterfaceNames, NEW f \in Files,
         NEW code, InitWithConfig(c, interface, f, code), Disturb({c})
  PROVE  LibInv'
<1>1. VariablesTyped /\ SettingsAgree
  BY TypeOKIsTyped DEF LibInv
<1>2. UNCHANGED <<supported, driver, file, todo>> /\ todo[c] = Idle
  BY <1>1, TodoKinds DEF InitWithConfig, AtCall, VariablesTyped
<1> DEFINE configured == [library[c] EXCEPT !.interface = interface, !.rule_file = f]
           made == IF code = "SUCCESS"
                   THEN [configured EXCEPT !.open = TRUE, !.initialized = TRUE]
                   ELSE configured
<1>3. CASE UNCHANGED <<library, owner>>
  <2>1. SettingsAgree'
    BY <1>1, <1>2, <1>3 DEF SettingsAgree
  <2>2. QED
    BY <1>1, <1>2, <1>3, <2>1, SettingsStep DEF VariablesTyped
<1>4. CASE /\ library' = [library EXCEPT ![c] = made]
           /\ owner' = IF owner["interface"] = c /\ interface # library[c].interface
                       THEN [owner EXCEPT !["interface"] = NoClient] ELSE owner
  <2>1. /\ made \in LibraryState
        /\ made.interface = interface
        /\ made.default_action = library[c].default_action
        /\ made.monitoring_enabled = library[c].monitoring_enabled
    BY <1>1 DEF VariablesTyped, LibraryState
  <2> HIDE DEF made
  <2>2. /\ library' \in [Clients -> LibraryState]
        /\ library'[c] = made
        /\ \A d \in Clients : d # c => library'[d] = library[d]
    BY <1>1, <1>4, <2>1 DEF VariablesTyped
  <2>3. /\ owner \in [Settings -> Clients \cup {NoClient}]
        /\ owner' \in [Settings -> Clients \cup {NoClient}]
    BY <1>1, <1>4 DEF VariablesTyped
  <2>4. ASSUME NEW s \in Settings, owner'[s] # NoClient
        PROVE  library'[owner'[s]][s] = driver'[s]
    <3>1. owner'[s] = owner[s] /\ owner[s] \in Clients
      BY <1>4, <2>3, <2>4 DEF Settings
    <3>2. library[owner[s]][s] = driver[s]
      BY <1>1, <2>4, <3>1 DEF SettingsAgree
    <3>3. CASE owner[s] # c
      BY <1>2, <2>2, <3>1, <3>2, <3>3
    <3>4. CASE owner[s] = c
      <4>1. CASE s = "interface"
        <5>1. interface = library[c].interface
          BY <1>4, <2>3, <2>4, <3>4, <4>1 DEF Settings
        <5>2. QED
          BY <1>2, <2>1, <2>2, <3>1, <3>2, <3>4, <4>1, <5>1
      <4>2. CASE s = "default_action" \/ s = "monitoring_enabled"
        BY <1>2, <2>1, <2>2, <3>1, <3>2, <3>4, <4>2
      <4>3. QED
        BY <4>1, <4>2 DEF Settings
    <3>5. QED
      BY <3>3, <3>4
  <2>5. SettingsAgree'
    BY <2>4 DEF SettingsAgree
  <2>6. QED
    BY <1>1, <1>2, <2>2, <2>3, <2>5, SettingsStep DEF VariablesTyped
<1>5. QED
  BY <1>3, <1>4 DEF InitWithConfig

\* filter_open, filter_close and filter_cleanup keep what is remembered.
LEMMA DeviceKeeps ==
  ASSUME LibInv, NEW c \in Clients, Disturb({c}),
         \/ \E code : Open(c, code)
         \/ Close(c)
         \/ Cleanup(c)
  PROVE  LibInv'
<1>1. VariablesTyped /\ SettingsAgree
  BY TypeOKIsTyped DEF LibInv
<1>2. UNCHANGED <<supported, driver, file, todo, owner>> /\ todo[c] = Idle
  BY <1>1, TodoKinds DEF Open, Close, Cleanup, AtCall, VariablesTyped
<1>3. PICK open \in BOOLEAN, initialized \in BOOLEAN :
        library' = [library EXCEPT ![c].open = open, ![c].initialized = initialized]
  <2>1. library[c] \in LibraryState
    BY <1>1 DEF VariablesTyped
  <2>2. \A b \in BOOLEAN : [library EXCEPT ![c].open = b] =
          [library EXCEPT ![c].open = b, ![c].initialized = library[c].initialized]
    BY <1>1 DEF VariablesTyped, LibraryState
  <2>3. CASE \E code : Open(c, code)
    <3>1. PICK code : Open(c, code)
      BY <2>3
    <3>2. (code = "SUCCESS") \in BOOLEAN /\ library[c].initialized \in BOOLEAN
      BY <2>1 DEF LibraryState
    <3>3. library' = [library EXCEPT ![c].open = code = "SUCCESS"]
      BY <3>1 DEF Open
    <3>4. QED
      BY <2>2, <3>2, <3>3
  <2>4. CASE Close(c)
    <3>1. library[c].initialized \in BOOLEAN
      BY <2>1 DEF LibraryState
    <3>2. library' = [library EXCEPT ![c].open = FALSE]
      BY <2>4 DEF Close
    <3>3. QED
      BY <2>2, <3>1, <3>2
  <2>5. CASE Cleanup(c)
    <3>1. library' = [library EXCEPT ![c] =
            IF @.initialized THEN [@ EXCEPT !.open = FALSE, !.initialized = FALSE] ELSE @]
      BY <2>5 DEF Cleanup
    <3>2. CASE library[c].initialized
      BY <1>1, <3>1, <3>2 DEF VariablesTyped
    <3>3. CASE ~ library[c].initialized
      <4>1. library' = [library EXCEPT ![c].open = library[c].open,
                                      ![c].initialized = library[c].initialized]
        BY <1>1, <2>1, <3>1, <3>3 DEF VariablesTyped, LibraryState
      <4>2. QED
        BY <2>1, <4>1 DEF LibraryState
    <3>4. QED
      BY <3>2, <3>3
  <2>6. QED
    BY <2>3, <2>4, <2>5
<1>4. /\ library' \in [Clients -> LibraryState]
      /\ \A d \in Clients : d # c => library'[d] = library[d]
      /\ \A s \in Settings : library'[c][s] = library[c][s]
  <2> DEFINE made == [library[c] EXCEPT !.open = open, !.initialized = initialized]
  <2>1. library[c] \in LibraryState
    BY <1>1 DEF VariablesTyped
  <2>2. /\ made \in LibraryState
        /\ made.default_action = library[c].default_action
        /\ made.interface = library[c].interface
        /\ made.monitoring_enabled = library[c].monitoring_enabled
    BY <2>1 DEF LibraryState
  <2>3. library' = [library EXCEPT ![c] = made]
    BY <1>1, <1>3 DEF VariablesTyped
  <2> HIDE DEF made
  <2>4. \A s \in Settings : made[s] = library[c][s]
    BY <2>2 DEF Settings
  <2>5. library'[c] = made
    BY <1>1, <2>3 DEF VariablesTyped
  <2>6. QED
    BY <1>1, <2>2, <2>3, <2>4, <2>5 DEF VariablesTyped
<1>5. SettingsAgree'
  BY <1>1, <1>2, <1>4 DEF SettingsAgree, VariablesTyped
<1>6. QED
  BY <1>1, <1>2, <1>4, <1>5, SettingsStep DEF VariablesTyped

\* A setting that is remembered, and told the driver or not: who claims it
\* told it this very value.
LEMMA SettingIsSet ==
  ASSUME LibInv, NEW c \in Clients, Disturb({c}), NEW setting \in Settings, NEW value,
         UNCHANGED <<supported, file, todo>>, todo[c] = Idle,
         NEW remembered \in BOOLEAN, NEW told \in BOOLEAN, told => remembered,
         [library[c] EXCEPT ![setting] = value] \in LibraryState,
         [driver EXCEPT ![setting] = value] \in DriverState,
         library' = IF remembered THEN [library EXCEPT ![c] = [@ EXCEPT ![setting] = value]]
                    ELSE library,
         driver' = IF told THEN [driver EXCEPT ![setting] = value] ELSE driver,
         owner' = IF told THEN [owner EXCEPT ![setting] = c]
                  ELSE IF remembered /\ owner[setting] = c
                       THEN [owner EXCEPT ![setting] = NoClient]
                  ELSE owner
  PROVE  LibInv'
<1>1. /\ library \in [Clients -> LibraryState] /\ driver \in DriverState
      /\ owner \in [Settings -> Clients \cup {NoClient}]
      /\ SettingsAgree
  BY TypeOKIsTyped DEF LibInv, VariablesTyped
<1> DEFINE made == [library[c] EXCEPT ![setting] = value]
           now  == [driver EXCEPT ![setting] = value]
<1>2. \A s \in Settings : s \in DOMAIN library[c] /\ s \in DOMAIN driver
  <2>1. library[c] \in LibraryState
    BY <1>1
  <2>2. QED
    BY <1>1, <2>1 DEF LibraryState, DriverState, Settings
<1>3. /\ made[setting] = value /\ now[setting] = value
      /\ \A s \in Settings : s # setting => made[s] = library[c][s] /\ now[s] = driver[s]
      /\ now.rules = driver.rules
  <2>1. made[setting] = value /\ now[setting] = value
    BY <1>2
  <2>2. \A s \in Settings : s # setting => made[s] = library[c][s] /\ now[s] = driver[s]
    BY <1>2
  <2>3. setting # "rules"
    BY DEF Settings
  <2>4. now.rules = driver.rules
    BY <1>1, <2>3 DEF DriverState
  <2>5. QED
    BY <2>1, <2>2, <2>4
<1>4. made \in LibraryState /\ now \in DriverState
  OBVIOUS
<1>5. /\ library' = IF remembered THEN [library EXCEPT ![c] = made] ELSE library
      /\ driver' = IF told THEN now ELSE driver
  OBVIOUS
<1> HIDE DEF made, now
<1>6. /\ library' \in [Clients -> LibraryState]
      /\ \A d \in Clients : d # c => library'[d] = library[d]
      /\ library'[c] = IF remembered THEN made ELSE library[c]
      /\ driver' \in DriverState
      /\ driver'.rules = driver.rules
      /\ owner' \in [Settings -> Clients \cup {NoClient}]
  BY <1>1, <1>3, <1>4, <1>5
<1>7. ASSUME NEW s \in Settings, owner'[s] # NoClient
      PROVE  library'[owner'[s]][s] = driver'[s]
  <2>1. CASE s = setting
    <3>1. CASE told
      BY <1>1, <1>3, <1>5, <1>6, <2>1, <3>1
    <3>2. CASE ~ told
      <4>1. owner'[s] = owner[s] /\ (remembered => owner[s] # c)
        BY <1>1, <1>7, <2>1, <3>2
      <4>2. library'[owner[s]][s] = library[owner[s]][s]
        BY <1>1, <1>5, <1>6, <1>7, <4>1
      <4>3. QED
        BY <1>1, <1>5, <1>7, <3>2, <4>1, <4>2 DEF SettingsAgree
    <3>3. QED
      BY <3>1, <3>2
  <2>2. CASE s # setting
    <3>1. owner'[s] = owner[s] /\ driver'[s] = driver[s]
      BY <1>1, <1>3, <1>5, <2>2
    <3>2. library'[owner[s]][s] = library[owner[s]][s]
      BY <1>1, <1>3, <1>6, <1>7, <2>2, <3>1
    <3>3. QED
      BY <1>1, <1>7, <3>1, <3>2 DEF SettingsAgree
  <2>3. QED
    BY <2>1, <2>2
<1>8. SettingsAgree'
  BY <1>7 DEF SettingsAgree
<1>9. QED
  BY <1>6, <1>8, SettingsStep

\* filter_set_default_action and filter_set_interface.
LEMMA RememberAndTellKeeps ==
  ASSUME LibInv, NEW c \in Clients, Disturb({c}), NEW setting \in Settings, NEW value,
         NEW request, NEW code, RememberAndTell(c, setting, value, request, code),
         \/ setting = "default_action" /\ value \in RuleActions
         \/ setting = "interface" /\ value \in InterfaceNames
  PROVE  LibInv'
<1>1. VariablesTyped
  BY TypeOKIsTyped DEF LibInv
<1>2. todo[c] = Idle
  BY <1>1, TodoKinds DEF RememberAndTell, AtCall, VariablesTyped
<1>3. library[c] \in LibraryState /\ driver \in DriverState
  BY <1>1 DEF VariablesTyped
<1>4. [library[c] EXCEPT ![setting] = value] \in LibraryState
  BY <1>3 DEF LibraryState
<1>5. [driver EXCEPT ![setting] = value] \in DriverState
  BY <1>3 DEF DriverState
<1> DEFINE told == Claims(c, request, code)
<1>6. told \in BOOLEAN
  BY <1>3 DEF Claims, LibraryState
<1>7. /\ library' = [library EXCEPT ![c] = [@ EXCEPT ![setting] = value]]
      /\ driver' = IF told THEN [driver EXCEPT ![setting] = value] ELSE driver
      /\ owner' = IF told THEN [owner EXCEPT ![setting] = c]
                  ELSE IF owner[setting] = c THEN [owner EXCEPT ![setting] = NoClient]
                  ELSE owner
      /\ UNCHANGED <<supported, file, todo>>
  BY DEF RememberAndTell, Claim
<1> HIDE DEF told
<1>8. QED
  BY <1>2, <1>4, <1>5, <1>6, <1>7, SettingIsSet

\* filter_enable_monitoring and filter_disable_monitoring.
LEMMA SetMonitoringKeeps ==
  ASSUME LibInv, NEW c \in Clients, Disturb({c}), NEW on \in BOOLEAN, NEW code,
         SetMonitoring(c, on, code)
  PROVE  LibInv'
<1>1. VariablesTyped
  BY TypeOKIsTyped DEF LibInv
<1>2. todo[c] = Idle
  BY <1>1, TodoKinds DEF SetMonitoring, AtCall, VariablesTyped
<1>3. library[c] \in LibraryState /\ driver \in DriverState
  BY <1>1 DEF VariablesTyped
<1> DEFINE setting == "monitoring_enabled"
           told == Claims(c, IF on THEN "ENABLE_MONITORING" ELSE "DISABLE_MONITORING", code)
           remembered == code = "SUCCESS"
<1>4. [library[c] EXCEPT ![setting] = on] \in LibraryState
  BY <1>3 DEF LibraryState
<1>5. [driver EXCEPT ![setting] = on] \in DriverState
  BY <1>3 DEF DriverState
<1>6. told \in BOOLEAN /\ remembered \in BOOLEAN /\ (told => remembered)
  BY <1>3 DEF Claims, LibraryState
<1>7. setting \in Settings
  BY DEF Settings
<1>8. /\ library' = IF remembered THEN [library EXCEPT ![c] = [@ EXCEPT ![setting] = on]]
                    ELSE library
      /\ driver' = IF told THEN [driver EXCEPT ![setting] = on] ELSE driver
      /\ owner' = IF told THEN [owner EXCEPT ![setting] = c]
                  ELSE IF remembered /\ owner[setting] = c
                       THEN [owner EXCEPT ![setting] = NoClient]
                  ELSE owner
      /\ UNCHANGED <<supported, file, todo>>
  BY DEF SetMonitoring
<1> HIDE DEF told, remembered, setting
<1>9. QED
  BY <1>2, <1>4, <1>5, <1>6, <1>7, <1>8, SettingIsSet

-----------------------------------------------------------------------------
(* Loading and saving.                                                     *)

\* A step that takes a process on in its load or save and leaves the settings
\* alone.
LEMMA CallGoesOn ==
  ASSUME LibInv, NEW c \in Clients, Disturb({c}), NEW t \in Todo,
         supported' = supported, library' = library, owner' = owner,
         todo' = [todo EXCEPT ![c] = t],
         \/ driver' = driver
         \/ /\ \E rules : driver' = [driver EXCEPT !.rules = rules]
            /\ driver'.rules \in Seq(GoodRule) /\ Len(driver'.rules) <= MaxRules,
         file' \in [DOMAIN file' -> Seq(FileLine)], DOMAIN file' \subseteq Files,
         DOMAIN file \subseteq DOMAIN file',
         t # Idle => library[c].initialized,
         t.op \in {"load", "save", "write"} => t.file \in DOMAIN file',
         Undisturbed(c)'
  PROVE  LibInv'
<1>1. VariablesTyped /\ SettingsAgree
  BY TypeOKIsTyped DEF LibInv
<1>2. /\ driver' \in DriverState /\ Len(driver'.rules) <= MaxRules
      /\ \A s \in Settings : driver'[s] = driver[s]
  BY <1>1 DEF VariablesTyped, DriverState, Settings
<1>3. /\ todo' \in [Clients -> Todo] /\ todo'[c] = t
      /\ \A d \in Clients : d # c => todo'[d] = todo[d]
  BY <1>1 DEF VariablesTyped
<1>4. \A d \in Clients : /\ todo'[d] # Idle => library'[d].initialized
                         /\ todo'[d].op \in {"load", "save", "write"} => todo'[d].file \in DOMAIN file'
  BY <1>1, <1>3 DEF VariablesTyped
<1>5. VariablesTyped'
  BY <1>1, <1>2, <1>3, <1>4 DEF VariablesTyped
<1>6. SettingsAgree'
  BY <1>1, <1>2 DEF SettingsAgree
<1>7. \A d \in Clients : Undisturbed(d)'
  <2>1. ASSUME NEW d \in Clients, d # c PROVE Undisturbed(d)'
    BY <1>3, <2>1, OthersUndisturbed
  <2>2. QED
    BY <2>1
<1>8. QED
  BY <1>5, <1>6, <1>7, InvAfterStep

\* What the types say of the files and of the process at hand.
LEMMA FilesTyped ==
  ASSUME LibInv
  PROVE  /\ file \in [DOMAIN file -> Seq(FileLine)] /\ DOMAIN file \subseteq Files
         /\ \A c \in Clients :
              /\ todo[c] \in Todo
              /\ library[c].rule_file \in Files
              /\ todo[c] # Idle => library[c].initialized
              /\ todo[c].op \in {"load", "save", "write"} => todo[c].file \in DOMAIN file
BY TypeOKIsTyped DEF LibInv, VariablesTyped, LibraryState

\* Idle is something a process may be.
LEMMA IdleIsTodo == Idle \in Todo /\ Idle.op = "none"
BY DEF Todo, Idle

\* Who is done with its call is not disturbed.
LEMMA IdleIsUndisturbed ==
  ASSUME NEW c \in Clients, todo'[c] = Idle
  PROVE  Undisturbed(c)'
BY IdleIsTodo DEF Undisturbed

\* The process itself disturbs nobody but others.
LEMMA OwnStep ==
  ASSUME NEW c \in Clients, Disturb({c}), c \notin disturbed'
  PROVE  todo'[c] = Idle \/ c \notin disturbed
BY DEF Disturb

\* fopen of filter_load_rules, of a call or of a reload.
LEMMA StartLoadKeeps ==
  ASSUME LibInv, NEW c \in Clients, Disturb({c}), library[c].initialized,
         NEW f \in Files, NEW reload \in BOOLEAN, NEW before \in Seq(GoodRule), NEW code,
         StartLoad(c, f, reload, before, code),
         UNCHANGED <<supported, library, driver, file, owner>>,
         reload /\ c \notin disturbed => driver.rules = <<>>
  PROVE  LibInv'
<1> DEFINE load == [op |-> "load", file |-> f, lines |-> <<>>, at |-> 1, loaded |-> 0,
                    reload |-> reload, before |-> before, from |-> driver.rules]
<1>1. todo \in [Clients -> Todo]
  BY TypeOKIsTyped DEF LibInv, VariablesTyped
<1>2. CASE f \notin DOMAIN file /\ todo' = [todo EXCEPT ![c] = Idle]
  <2>1. todo'[c] = Idle
    BY <1>1, <1>2
  <2>2. Undisturbed(c)'
    BY <2>1, IdleIsUndisturbed
  <2>3. QED
    BY <1>2, <2>2, CallGoesOn, FilesTyped, IdleIsTodo
<1>3. CASE f \in DOMAIN file /\ todo' = [todo EXCEPT ![c] = load]
  <2>1. load \in LoadRecord
    BY <1>3, DriverRules, FilesTyped DEF LoadRecord
  <2>2. load \in Todo /\ load.op = "load" /\ todo'[c] = load
    BY <1>1, <1>3, <2>1 DEF LoadRecord, Todo
  <2>3. /\ load.from = driver.rules /\ load.at = 1 /\ load.loaded = 0 /\ load.reload = reload
        /\ load.file = f /\ load.at <= Len(load.lines) + 1
    OBVIOUS
  <2> HIDE DEF load
  <2>4. Idle # load
    BY <2>2, IdleIsTodo
  <2>5. ASSUME c \notin disturbed' PROVE ExactLoad(load, driver.rules)
    <3>1. c \notin disturbed
      BY <2>2, <2>4, <2>5, OwnStep
    <3>2. QED
      BY <2>1, <2>3, <3>1, ExactAtFirst
  <2>6. Undisturbed(c)'
    BY <2>2, <2>3, <2>5 DEF Undisturbed
  <2>7. QED
    BY <1>3, <2>2, <2>3, <2>6, CallGoesOn, FilesTyped
<1>4. QED
  BY <1>2, <1>3 DEF StartLoad

\* A call that returns before it did anything.
LEMMA NothingKeeps ==
  ASSUME LibInv, NEW c \in Clients, Disturb({c}),
         UNCHANGED <<supported, library, driver, file, todo, owner>>
  PROVE  LibInv'
<1>1. VariablesTyped' /\ SettingsAgree'
  BY TypeOKIsTyped DEF LibInv, VariablesTyped, SettingsAgree
<1>2. \A d \in Clients : Undisturbed(d)'
  BY OthersUndisturbed
<1>3. QED
  BY <1>1, <1>2, InvAfterStep

\* filter_load_rules, and the load of filter_reload_rules.
LEMMA LoadRulesKeeps ==
  ASSUME LibInv, NEW c \in Clients, Disturb({c}), NEW code,
         \/ \E f \in Files : LoadRules(c, f, code)
         \/ LoadAgain(c, code)
  PROVE  LibInv'
<1>1. ASSUME NEW f \in Files, LoadRules(c, f, code) PROVE LibInv'
  <2>1. UNCHANGED <<supported, library, driver, file, owner>>
    BY <1>1 DEF LoadRules
  <2>2. CASE UNCHANGED todo
    BY <2>1, <2>2, NothingKeeps
  <2>3. CASE library[c].initialized /\ StartLoad(c, f, FALSE, <<>>, code)
    <3>1. <<>> \in Seq(GoodRule) /\ FALSE \in BOOLEAN
      OBVIOUS
    <3>2. QED
      BY <2>1, <2>3, <3>1, StartLoadKeeps
  <2>4. QED
    BY <1>1, <2>2, <2>3 DEF LoadRules
<1>2. CASE LoadAgain(c, code)
  <2>1. /\ UNCHANGED <<supported, library, driver, file, owner>>
        /\ StartLoad(c, library[c].rule_file, TRUE, todo[c].before, code)
        /\ todo[c].op = "reload"
    BY <1>2 DEF LoadAgain
  <2>2. todo[c] \in [op : {"reload"}, before : Seq(GoodRule)] /\ todo[c] # Idle
    BY <2>1, FilesTyped, TodoKinds
  <2>3. todo[c].before \in Seq(GoodRule) /\ library[c].initialized /\ library[c].rule_file \in Files
    BY <2>2, FilesTyped
  <2>4. c \notin disturbed => driver.rules = <<>>
    BY <2>1 DEF LibInv, Undisturbed
  <2>5. TRUE \in BOOLEAN
    OBVIOUS
  <2>6. QED
    BY <2>1, <2>3, <2>4, <2>5, StartLoadKeeps
<1>3. QED
  BY <1>1, <1>2

\* A line of filter_load_rules.
LEMMA LoadLineKeeps ==
  ASSUME LibInv, NEW c \in Clients, Disturb({c}), LoadLine(c)
  PROVE  LibInv'
<1> DEFINE load == todo[c]
           line == load.lines[load.at]
<1>1. load \in LoadRecord /\ load # Idle /\ load.at <= Len(load.lines)
  BY FilesTyped, TodoKinds DEF LoadLine, Reading
<1>2. PICK code \in IF Loadable(line) THEN Codes(c, "ADD_RULE") ELSE {"skipped"} :
        /\ code = "SUCCESS" => Len(driver.rules) < MaxRules
        /\ SetRules(code, Append(driver.rules, RuleOf(line)))
        /\ todo' = [todo EXCEPT ![c].at = @ + 1,
                               ![c].loaded = @ + IF code = "SUCCESS" THEN 1 ELSE 0]
  BY DEF LoadLine
<1>3. UNCHANGED <<supported, library, file, owner>>
  BY DEF LoadLine
<1> DEFINE counts == code = "SUCCESS"
           next == [load EXCEPT !.at = @ + 1, !.loaded = @ + IF counts THEN 1 ELSE 0]
<1>4. counts \in BOOLEAN /\ (counts => Loadable(line))
  BY <1>2
<1>5. todo' = [todo EXCEPT ![c] = next]
  BY <1>2, TypeOKIsTyped DEF LibInv, VariablesTyped
<1>6. next \in LoadRecord
  <2> DEFINE more == load.loaded + IF counts THEN 1 ELSE 0
  <2>1. load.at + 1 \in Nat \ {0} /\ more \in Nat
    BY <1>1 DEF LoadRecord
  <2> HIDE DEF load, more
  <2>2. [load EXCEPT !.at = load.at + 1, !.loaded = more] \in LoadRecord
    BY <1>1, <2>1 DEF LoadRecord
  <2>3. QED
    BY <2>2 DEF more
<1>7. /\ next \in Todo /\ next # Idle /\ next.op = "load"
      /\ next.file = load.file /\ next.file \in DOMAIN file
      /\ next.at <= Len(next.lines) + 1
  <2>1. next \in Todo /\ next # Idle /\ next.op = "load"
    BY <1>6 DEF LoadRecord, Todo, Idle
  <2>2. load.op = "load" /\ load.file \in DOMAIN file
    BY <1>1, FilesTyped DEF LoadRecord
  <2>3. next.file = load.file /\ next.at = load.at + 1 /\ next.lines = load.lines
    BY <1>1 DEF LoadRecord
  <2>4. load.at \in Nat /\ Len(load.lines) \in Nat
    BY <1>1 DEF LoadRecord
  <2> HIDE DEF next, load
  <2>5. QED
    BY <1>1, <2>1, <2>2, <2>3, <2>4
<1>8. todo'[c] = next
  BY <1>5, TypeOKIsTyped DEF LibInv, VariablesTyped
<1>9. driver' = IF counts THEN [driver EXCEPT !.rules = Append(driver.rules, RuleOf(line))]
                ELSE driver
  BY <1>2 DEF SetRules
<1>10. line \in FileLine
  <2>1. load.lines \in Seq(FileLine) /\ load.at \in 1 .. Len(load.lines)
    BY <1>1 DEF LoadRecord
  <2>2. QED
    BY <2>1, ElementOfSeq
<1>11. counts => /\ Append(driver.rules, RuleOf(line)) \in Seq(GoodRule)
                 /\ Len(Append(driver.rules, RuleOf(line))) <= MaxRules
  <2>1. SUFFICES ASSUME counts
                 PROVE  /\ Append(driver.rules, RuleOf(line)) \in Seq(GoodRule)
                        /\ Len(Append(driver.rules, RuleOf(line))) <= MaxRules
    OBVIOUS
  <2>2. RuleOf(line) \in GoodRule
    BY <1>4, <1>10, <2>1, LoadableIsGood
  <2>3. Len(driver.rules) < MaxRules /\ Len(driver.rules) \in Nat /\ MaxRules \in Nat
    BY <1>2, <2>1, DriverRules, WidthAssumption
  <2>4. Len(Append(driver.rules, RuleOf(line))) = Len(driver.rules) + 1
    BY <2>2, DriverRules, AppendElements
  <2>5. QED
    BY <2>2, <2>3, <2>4, DriverRules, AppendElements
<1>12. driver'.rules = IF counts THEN Append(driver.rules, RuleOf(line)) ELSE driver.rules
  BY <1>9, TypeOKIsTyped DEF LibInv, VariablesTyped, DriverState
<1>13. ASSUME c \notin disturbed' PROVE ExactLoad(next, driver'.rules)
  <2>1. c \notin disturbed
    BY <1>7, <1>8, <1>13, OwnStep
  <2>2. ExactLoad(load, driver.rules)
    BY <1>1, <2>1 DEF LibInv, Undisturbed, LoadRecord
  <2> DEFINE now == IF counts THEN Append(driver.rules, RuleOf(line)) ELSE driver.rules
  <2>3. ExactLoad(next, now)
    <3> HIDE DEF counts, load
    <3>1. QED
      BY <1>1, <1>4, <2>2, DriverRules, ExactAfterLine
  <2> HIDE DEF next, now
  <2>4. driver'.rules = now
    BY <1>12 DEF now
  <2>5. QED
    BY <2>3, <2>4
<1> HIDE DEF next, line, load, counts
<1>14. Undisturbed(c)'
  BY <1>7, <1>8, <1>13 DEF Undisturbed
<1>15. library[c].initialized
  BY <1>1, FilesTyped DEF load
<1>16. \/ driver' = driver
       \/ /\ \E rules : driver' = [driver EXCEPT !.rules = rules]
          /\ driver'.rules \in Seq(GoodRule) /\ Len(driver'.rules) <= MaxRules
  BY <1>9, <1>11, <1>12
<1>17. QED
  BY <1>3, <1>5, <1>7, <1>14, <1>15, <1>16, CallGoesOn, FilesTyped

\* A buffer of filter_load_rules: what was read before stays.
LEMMA FillBufferKeeps ==
  ASSUME LibInv, NEW c \in Clients, Disturb({c}), FillBuffer(c)
  PROVE  LibInv'
<1> DEFINE load == todo[c]
           n    == Len(load.lines)
           text == file[load.file]
<1>1. /\ load \in LoadRecord /\ load # Idle /\ load.op = "load"
      /\ load.file \in DOMAIN file /\ text \in Seq(FileLine)
      /\ todo \in [Clients -> Todo]
      /\ library[c].initialized
  BY FilesTyped, TodoKinds, TypeOKIsTyped DEF FillBuffer, LibInv, VariablesTyped
<1>2. PICK last \in n + 1 .. Len(text) :
        todo' = [todo EXCEPT ![c].lines = @ \o SubSeq(text, n + 1, last)]
  BY DEF FillBuffer
<1>3. UNCHANGED <<supported, library, driver, file, owner>> /\ load.at > n
  BY <1>1 DEF FillBuffer, Reading, LoadRecord
<1> DEFINE piece == SubSeq(text, n + 1, last)
           next  == [load EXCEPT !.lines = @ \o piece]
<1>4. load.lines \in Seq(FileLine) /\ n \in Nat /\ load.at \in Nat \ {0}
  BY <1>1 DEF LoadRecord
<1>5. piece \in Seq(FileLine) /\ Len(piece) \in Nat
  <2>1. \A k \in n + 1 .. last : text[k] \in FileLine
    <3>1. \A k \in n + 1 .. last : k \in 1 .. Len(text)
      BY <1>1, <1>2, <1>4, LenProperties
    <3>2. QED
      BY <1>1, <3>1, ElementOfSeq
  <2>2. last \in Int /\ n + 1 \in Int
    BY <1>4
  <2> HIDE DEF text, n
  <2>3. piece \in Seq(FileLine)
    BY <2>1, <2>2, SubSeqProperties
  <2>4. QED
    BY <2>3, LenProperties
<1> HIDE DEF piece
<1>6. /\ load.lines \o piece \in Seq(FileLine) /\ Len(load.lines \o piece) = n + Len(piece)
      /\ \A k \in 1 .. n : (load.lines \o piece)[k] = load.lines[k]
  BY <1>4, <1>5
<1>7. todo' = [todo EXCEPT ![c] = next]
  BY <1>1, <1>2 DEF piece
<1>8. /\ next \in LoadRecord /\ next.lines = load.lines \o piece /\ next.at = load.at
      /\ next.file = load.file /\ next.loaded = load.loaded /\ next.reload = load.reload
      /\ next.from = load.from
  <2> DEFINE more == load.lines \o piece
  <2> HIDE DEF load, more
  <2>1. [load EXCEPT !.lines = more] \in LoadRecord
    BY <1>1, <1>6 DEF LoadRecord, more
  <2>2. QED
    BY <1>1, <2>1 DEF LoadRecord, more
<1> HIDE DEF next
<1>9. next \in Todo /\ next # Idle /\ next.op = "load" /\ todo'[c] = next
  BY <1>1, <1>7, <1>8 DEF LoadRecord, Todo, Idle
<1>10. ASSUME c \notin disturbed'
       PROVE  next.at <= Len(next.lines) + 1 /\ ExactLoad(next, driver'.rules)
  <2>1. load.at <= n + 1 /\ ExactLoad(load, driver.rules)
    <3>1. c \notin disturbed
      BY <1>9, <1>10, OwnStep
    <3>2. QED
      BY <1>1, <3>1 DEF LibInv, Undisturbed
  <2>2. load.at = n + 1
    BY <1>3, <1>4, <2>1
  <2>3. SubSeq(next.lines, 1, next.at - 1) = SubSeq(load.lines, 1, load.at - 1)
    <3>1. load.at - 1 = n
      BY <1>4, <2>2
    <3> HIDE DEF load, n
    <3>2. SubSeq(load.lines \o piece, 1, n) = SubSeq(load.lines, 1, n)
      BY <1>4, <1>5, <1>6 DEF n
    <3>3. QED
      BY <1>8, <3>1, <3>2
  <2>4. next.at <= Len(next.lines) + 1
    <3> HIDE DEF load, n
    <3>1. QED
      BY <1>4, <1>5, <1>6, <1>8, <2>2
  <2>5. driver'.rules = driver.rules
    BY <1>3
  <2> HIDE DEF load, n
  <2>6. ExactLoad(next, driver.rules)
    BY <1>8, <2>1, <2>3 DEF ExactLoad
  <2>7. QED
    BY <2>4, <2>5, <2>6
<1>11. Undisturbed(c)'
  BY <1>9, <1>10 DEF Undisturbed
<1>12. next.file \in DOMAIN file
  BY <1>1, <1>8
<1> HIDE DEF load
<1>13. QED
  BY <1>1, <1>3, <1>7, <1>9, <1>11, <1>12, CallGoesOn, FilesTyped

\* The end of filter_load_rules, which remembers the file.
LEMMA EndLoadKeeps ==
  ASSUME LibInv, NEW c \in Clients, Disturb({c}), EndLoad(c)
  PROVE  LibInv'
<1>1. VariablesTyped /\ SettingsAgree
  BY TypeOKIsTyped DEF LibInv
<1>2. /\ library' = [library EXCEPT ![c].rule_file = todo[c].file]
      /\ todo' = [todo EXCEPT ![c] = Idle]
      /\ UNCHANGED <<supported, driver, file, owner>>
      /\ todo[c] \in LoadRecord
  BY FilesTyped, TodoKinds DEF EndLoad, AtEnd
<1> DEFINE made == [library[c] EXCEPT !.rule_file = todo[c].file]
<1>3. library[c] \in LibraryState /\ todo[c].file \in Files
  BY <1>1, <1>2 DEF VariablesTyped, LoadRecord
<1>4. /\ made \in LibraryState /\ made.initialized = library[c].initialized
      /\ made.default_action = library[c].default_action
      /\ made.interface = library[c].interface
      /\ made.monitoring_enabled = library[c].monitoring_enabled
  BY <1>3 DEF LibraryState
<1>5. library' = [library EXCEPT ![c] = made]
  BY <1>1, <1>2 DEF VariablesTyped
<1> HIDE DEF made
<1>6. /\ library' \in [Clients -> LibraryState] /\ library'[c] = made
      /\ \A d \in Clients : d # c => library'[d] = library[d]
  BY <1>1, <1>4, <1>5 DEF VariablesTyped
<1>7. /\ todo' \in [Clients -> Todo] /\ todo'[c] = Idle
      /\ \A d \in Clients : d # c => todo'[d] = todo[d]
  BY <1>1, <1>2, IdleIsTodo DEF VariablesTyped
<1>8. \A d \in Clients : /\ todo'[d] # Idle => library'[d].initialized
                         /\ todo'[d].op \in {"load", "save", "write"} => todo'[d].file \in DOMAIN file'
  BY <1>1, <1>2, <1>6, <1>7, IdleIsTodo DEF VariablesTyped
<1>9. VariablesTyped'
  BY <1>1, <1>2, <1>6, <1>7, <1>8 DEF VariablesTyped
<1>10. \A d \in Clients, s \in Settings : library'[d][s] = library[d][s]
  BY <1>4, <1>6 DEF Settings
<1>11. SettingsAgree'
  BY <1>1, <1>2, <1>10 DEF SettingsAgree, VariablesTyped
<1>12. \A d \in Clients : Undisturbed(d)'
  BY <1>7, IdleIsUndisturbed, OthersUndisturbed
<1>13. QED
  BY <1>9, <1>11, <1>12, InvAfterStep

\* The first request of filter_reload_rules.
LEMMA ReloadRulesKeeps ==
  ASSUME LibInv, NEW c \in Clients, Disturb({c}), NEW code, ReloadRules(c, code)
  PROVE  LibInv'
<1>1. PICK cleared \in Codes(c, "CLEAR_RULES") :
        /\ SetRules(cleared, <<>>)
        /\ todo' = IF cleared = "SUCCESS"
                   THEN [todo EXCEPT ![c] = [op |-> "reload", before |-> driver.rules]]
                   ELSE todo
        /\ UNCHANGED <<supported, library, file, owner>>
  BY DEF ReloadRules
<1>2. CASE cleared = "SUCCESS"
  <2> DEFINE t == [op |-> "reload", before |-> driver.rules]
  <2>1. t \in Todo /\ t.op = "reload"
    BY DriverRules DEF Todo
  <2>2. todo' = [todo EXCEPT ![c] = t] /\ driver' = [driver EXCEPT !.rules = <<>>]
    BY <1>1, <1>2 DEF SetRules
  <2> HIDE DEF t
  <2>3. library[c].initialized
    BY <1>2, ServedIsInitialized
  <2>4. driver'.rules = <<>> /\ todo'[c] = t
    BY <2>2, TypeOKIsTyped DEF LibInv, VariablesTyped, DriverState
  <2>5. Undisturbed(c)'
    BY <2>1, <2>4 DEF Undisturbed
  <2>6. <<>> \in Seq(GoodRule) /\ Len(<<>>) <= MaxRules
    BY WidthAssumption
  <2>7. /\ \E rules : driver' = [driver EXCEPT !.rules = rules]
        /\ driver'.rules \in Seq(GoodRule) /\ Len(driver'.rules) <= MaxRules
    BY <2>2, <2>4, <2>6
  <2>8. t.op \notin {"load", "save", "write"}
    BY <2>1
  <2>9. QED
    BY <1>1, <2>1, <2>2, <2>3, <2>5, <2>7, <2>8, CallGoesOn, FilesTyped
<1>3. CASE cleared # "SUCCESS"
  BY <1>1, <1>3, NothingKeeps DEF SetRules
<1>4. QED
  BY <1>2, <1>3

\* The beginning of filter_save_rules, which empties the file.
LEMMA SaveRulesKeeps ==
  ASSUME LibInv, NEW c \in Clients, Disturb({c}), NEW f \in Files, NEW code,
         SaveRules(c, f, code)
  PROVE  LibInv'
<1>1. UNCHANGED <<supported, library, driver, owner>>
  BY DEF SaveRules
<1>2. CASE UNCHANGED <<file, todo>>
  BY <1>1, <1>2, NothingKeeps
<1>3. CASE /\ library[c].initialized
           /\ file' = [g \in DOMAIN file \cup {f} |-> IF g = f THEN <<>> ELSE file[g]]
           /\ todo' = [todo EXCEPT ![c] = [op |-> "save", file |-> f]]
  <2> DEFINE t == [op |-> "save", file |-> f]
  <2>1. t \in Todo /\ t.op = "save" /\ t.file = f
    BY DEF Todo
  <2>2. todo' = [todo EXCEPT ![c] = t]
    BY <1>3
  <2> HIDE DEF t
  <2>3. /\ DOMAIN file' = {f} \cup DOMAIN file
        /\ \A g \in DOMAIN file' : file'[g] = IF g = f THEN <<>> ELSE file[g]
        /\ file' = [g \in DOMAIN file' |-> file'[g]]
    BY <1>3
  <2>4. file' \in [DOMAIN file' -> Seq(FileLine)] /\ DOMAIN file' \subseteq Files
    <3>1. ASSUME NEW g \in DOMAIN file' PROVE file'[g] \in Seq(FileLine)
      <4>1. CASE g = f
        <5>1. file'[g] = <<>>
          BY <2>3, <4>1
        <5>2. QED
          BY <5>1
      <4>2. CASE g # f
        <5>1. g \in DOMAIN file /\ file'[g] = file[g]
          BY <2>3, <4>2
        <5>2. QED
          BY <5>1, FilesTyped
      <4>3. QED
        BY <4>1, <4>2
    <3>2. QED
      BY <2>3, <3>1, FilesTyped
  <2>5. todo'[c] = t /\ file'[f] = <<>>
    BY <2>2, <2>3, TypeOKIsTyped DEF LibInv, VariablesTyped
  <2>6. Undisturbed(c)'
    BY <2>1, <2>5 DEF Undisturbed
  <2>7. DOMAIN file \subseteq DOMAIN file' /\ f \in DOMAIN file'
    BY <2>3
  <2>8. QED
    BY <1>1, <1>3, <2>1, <2>2, <2>4, <2>6, <2>7, CallGoesOn
<1>4. QED
  BY <1>2, <1>3 DEF SaveRules

\* The lines that are printed.
LEMMA SavedLines ==
  ASSUME NEW rules \in Seq(GoodRule)
  PROVE  <<Comment>> \o Lines(rules) \in Seq(FileLine)
<1>1. DOMAIN rules = 1 .. Len(rules) /\ Len(rules) \in Nat
  BY LenProperties
<1>2. \A i \in 1 .. Len(rules) : LineOf(rules[i]) \in FileLine
  BY <1>1, ElementOfSeq, SavedIsLoadable
<1>3. Lines(rules) \in [1 .. Len(rules) -> FileLine]
  BY <1>1, <1>2 DEF Lines
<1>4. Lines(rules) \in Seq(FileLine)
  BY <1>1, <1>3
<1>5. Comment \in FileLine
  BY DEF Comment, FileLine, Words
<1>6. QED
  BY <1>4, <1>5

\* The request of filter_save_rules, whose answer is what is saved.
LEMMA SaveGetKeeps ==
  ASSUME LibInv, NEW c \in Clients, Disturb({c}), NEW code, SaveGet(c, code)
  PROVE  LibInv'
<1>1. /\ todo[c].op = "save" /\ todo[c] \in [op : {"save"}, file : Files] /\ todo[c] # Idle
      /\ UNCHANGED <<supported, library, driver, file, owner>>
      /\ todo \in [Clients -> Todo]
  BY FilesTyped, TodoKinds, TypeOKIsTyped DEF SaveGet, LibInv, VariablesTyped
<1>2. PICK answer \in GetRules(c, MaxRules) :
        \/ todo' = [todo EXCEPT ![c] = Idle]
        \/ /\ answer[1] = "SUCCESS"
           /\ todo' = [todo EXCEPT ![c] =
                [op |-> "write", file |-> todo[c].file, rules |-> answer[2],
                 at |-> 1, row |-> 1]]
  BY DEF SaveGet
<1>3. CASE todo' = [todo EXCEPT ![c] = Idle]
  <2>1. todo'[c] = Idle
    BY <1>1, <1>3
  <2>2. Undisturbed(c)'
    BY <2>1, IdleIsUndisturbed
  <2>3. QED
    BY <1>1, <1>3, <2>2, CallGoesOn, FilesTyped, IdleIsTodo
<1>4. CASE /\ answer[1] = "SUCCESS"
           /\ todo' = [todo EXCEPT ![c] =
                [op |-> "write", file |-> todo[c].file, rules |-> answer[2],
                 at |-> 1, row |-> 1]]
  <2>1. answer[2] \in Seq(GoodRule)
    <3>1. answer[2] = SubSeq(driver.rules, 1, Min({MaxRules, Len(driver.rules)}))
      <4>1. MaxRules # 0
        BY <1>2, <1>4 DEF GetRules
      <4>2. PICK served \in Codes(c, "GET_RULES") :
              answer = <<served, SubSeq(driver.rules, 1, Min({MaxRules, Len(driver.rules)}))>>
        BY <1>2, <4>1 DEF GetRules
      <4>3. QED
        BY <4>2
    <3>2. Min({MaxRules, Len(driver.rules)}) = Len(driver.rules)
      <4>1. MaxRules \in Nat /\ Len(driver.rules) \in Nat /\ Len(driver.rules) <= MaxRules
        BY DriverRules, WidthAssumption
      <4>2. QED
        BY <4>1 DEF Min
    <3>3. QED
      BY <3>1, <3>2, DriverRules, SubSeqFull
  <2> DEFINE t == [op |-> "write", file |-> todo[c].file, rules |-> answer[2],
                   at |-> 1, row |-> 1]
  <2>2. /\ t \in Todo /\ t.op = "write" /\ t.file = todo[c].file /\ t # Idle
        /\ t.at = 1 /\ t.row = 1 /\ t.rules \in Seq(GoodRule)
    BY <1>1, <2>1 DEF Todo, Idle
  <2>3. todo' = [todo EXCEPT ![c] = t] /\ todo'[c] = t
    BY <1>1, <1>4
  <2> HIDE DEF t
  <2>4. ASSUME c \notin disturbed' PROVE file'[t.file] = SubSeq(Printed(t), 1, t.at - 1)
    <3>1. c \notin disturbed
      BY <2>2, <2>3, <2>4, OwnStep
    <3>2. file'[t.file] = <<>>
      BY <1>1, <2>2, <3>1 DEF LibInv, Undisturbed
    <3>3. SubSeq(Printed(t), 1, 0) = <<>>
      BY SubSeqEmpty
    <3>4. QED
      BY <2>2, <3>2, <3>3
  <2>5. t.at <= Len(Printed(t)) + 1
    <3>1. Printed(t) \in Seq(FileLine)
      BY <2>2, SavedLines DEF Printed
    <3>2. QED
      BY <2>2, <3>1, LenProperties
  <2>6. Undisturbed(c)'
    <3>1. /\ todo'[c] = t /\ t.op = "write" /\ t.row <= t.at
          /\ t.at <= Len(Printed(t)) + 1
          /\ c \notin disturbed' => file'[t.file] = SubSeq(Printed(t), 1, t.at - 1)
      BY <2>2, <2>3, <2>4, <2>5
    <3>2. QED
      BY <3>1 DEF Undisturbed
  <2>7. library[c].initialized /\ t.file \in DOMAIN file
    BY <1>1, <2>2, FilesTyped
  <2>8. QED
    BY <1>1, <2>2, <2>3, <2>6, <2>7, CallGoesOn, FilesTyped
<1>5. QED
  BY <1>2, <1>3, <1>4

\* What a file is after a line was written, and that is the line behind the
\* others if it comes next.
LEMMA WrittenText ==
  ASSUME NEW text \in Seq(FileLine), NEW n \in Nat \ {0}, NEW line \in FileLine,
         NEW new \in Written(text, n, line)
  PROVE  /\ new \in Seq(FileLine)
         /\ n = Len(text) + 1 => new = Append(text, line)
<1> DEFINE m == IF n <= Len(text) THEN Len(text) ELSE n
<1>1. /\ Len(text) \in Nat /\ DOMAIN text = 1 .. Len(text) /\ m \in Nat
      /\ \A i \in 1 .. Len(text) : text[i] \in FileLine
  BY LenProperties, ElementOfSeq
<1>2. DOMAIN text \cup 1 .. n = 1 .. m
  BY <1>1
<1>3. Fragment \in FileLine
  BY DEF Fragment, Comment, FileLine, Words
<1> DEFINE Piece(cut, i) ==
             IF i = n /\ n <= Len(text) + 1 THEN line
             ELSE IF i \in DOMAIN text \ ({n} \cup cut) THEN text[i] ELSE Fragment
<1>4. PICK cut \in {{}, {n + 1}} : new = [i \in 1 .. m |-> Piece(cut, i)]
  <2>1. PICK cut \in {{}, {n + 1}} : new = [i \in DOMAIN text \cup 1 .. n |-> Piece(cut, i)]
    BY DEF Written
  <2>2. QED
    BY <1>2, <2>1
<1>5. \A i \in 1 .. m : Piece(cut, i) \in FileLine
  BY <1>1, <1>3
<1>6. ASSUME n = Len(text) + 1
      PROVE  \A i \in 1 .. m : Piece(cut, i) = IF i <= Len(text) THEN text[i] ELSE line
  <2>1. m = Len(text) + 1
    BY <1>1, <1>6
  <2>2. ASSUME NEW i \in 1 .. Len(text) PROVE i \in DOMAIN text \ ({n} \cup cut) /\ i # n
    BY <1>1, <1>4, <1>6, <2>2
  <2>3. QED
    BY <1>1, <1>6, <2>1, <2>2
<1> HIDE DEF Piece, m
<1>7. new \in Seq(FileLine) /\ Len(new) = m
  <2>1. new \in [1 .. m -> FileLine]
    BY <1>4, <1>5
  <2>2. QED
    BY <1>1, <1>4, <2>1
<1>8. ASSUME n = Len(text) + 1 PROVE new = Append(text, line)
  <2>1. /\ Append(text, line) \in Seq(FileLine)
        /\ Len(Append(text, line)) = Len(text) + 1
        /\ \A k \in 1 .. Len(text) + 1 :
             Append(text, line)[k] = IF k <= Len(text) THEN text[k] ELSE line
    BY AppendElements
  <2>2. m = Len(text) + 1
    BY <1>1, <1>8 DEF m
  <2>3. \A i \in 1 .. Len(new) : new[i] = Append(text, line)[i]
    BY <1>4, <1>6, <1>7, <1>8, <2>1, <2>2
  <2>4. QED
    BY <1>7, <2>1, <2>2, <2>3, SeqEqual
<1>9. QED
  BY <1>7, <1>8

\* A line of filter_save_rules, which is written or lost.
LEMMA SaveLineKeeps ==
  ASSUME LibInv, NEW c \in Clients, Disturb({c}), SaveLine(c)
  PROVE  LibInv'
<1> DEFINE save == todo[c]
           all  == Printed(save)
           line == all[save.at]
           text == file[save.file]
<1>1. /\ save \in WriteRecord /\ save # Idle /\ save.op = "write"
      /\ save.file \in DOMAIN file /\ text \in Seq(FileLine)
      /\ todo \in [Clients -> Todo]
      /\ library[c].initialized
      /\ UNCHANGED <<supported, library, driver, owner>>
  BY FilesTyped, TodoKinds, TypeOKIsTyped DEF SaveLine, Saving, LibInv, VariablesTyped
<1>2. save.at \in Nat \ {0} /\ save.row \in Nat \ {0} /\ save.rules \in Seq(GoodRule)
  BY <1>1 DEF WriteRecord
<1>3. all \in Seq(FileLine) /\ Len(all) \in Nat /\ save.at <= Len(all) /\ line \in FileLine
  <2>1. all \in Seq(FileLine)
    BY <1>2, SavedLines DEF Printed
  <2>2. save.at <= Len(all)
    BY DEF SaveLine, Saving
  <2> HIDE DEF all, save
  <2>3. save.at \in 1 .. Len(all) /\ Len(all) \in Nat
    BY <1>2, <2>1, <2>2, LenProperties
  <2>4. QED
    BY <2>1, <2>2, <2>3, ElementOfSeq
<1> DEFINE After(row) == [save EXCEPT !.at = @ + 1, !.row = row]
<1>4. ASSUME NEW row \in Nat \ {0}
      PROVE  /\ After(row) \in Todo /\ After(row) # Idle /\ After(row).op = "write"
             /\ After(row).file = save.file /\ After(row).at = save.at + 1
             /\ After(row).row = row /\ Printed(After(row)) = all
  <2> HIDE DEF save
  <2>1. save.at + 1 \in Nat \ {0}
    BY <1>2
  <2>2. /\ After(row) \in WriteRecord
        /\ After(row).file = save.file /\ After(row).at = save.at + 1
        /\ After(row).row = row /\ After(row).rules = save.rules
    BY <1>1, <2>1 DEF WriteRecord
  <2> HIDE DEF After
  <2>3. After(row) \in Todo /\ After(row) # Idle /\ After(row).op = "write"
    BY <2>2 DEF WriteRecord, Todo, Idle
  <2>4. Printed(After(row)) = all
    BY <2>2 DEF Printed
  <2>5. QED
    BY <2>2, <2>3, <2>4
<1>5. ASSUME c \notin disturbed', todo'[c] # Idle
      PROVE  /\ save.row <= save.at
             /\ save.row = save.at => text = SubSeq(all, 1, save.at - 1)
  <2>1. c \notin disturbed
    BY <1>5, OwnStep
  <2>2. QED
    BY <1>1, <2>1 DEF LibInv, Undisturbed
<1> HIDE DEF all, line, text
<1>6. ASSUME NEW row \in Nat \ {0}, NEW now, todo' = [todo EXCEPT ![c] = After(row)],
             file' = [file EXCEPT ![save.file] = now], now \in Seq(FileLine),
             c \notin disturbed' =>
               /\ row <= save.at + 1
               /\ row = save.at + 1 => now = SubSeq(all, 1, save.at)
      PROVE  LibInv'
  <2>1. /\ DOMAIN file' = DOMAIN file /\ file'[save.file] = now
        /\ file' \in [DOMAIN file' -> Seq(FileLine)] /\ DOMAIN file' \subseteq Files
    BY <1>1, <1>6, FilesTyped
  <2> DEFINE t == After(row)
  <2>2. /\ t \in Todo /\ t # Idle /\ t.op = "write" /\ t.file = save.file
        /\ t.at = save.at + 1 /\ t.row = row /\ Printed(t) = all
    BY <1>4
  <2>3. todo' = [todo EXCEPT ![c] = t]
    BY <1>6
  <2> HIDE DEF t, After, save
  <2>4. todo'[c] = t
    BY <1>1, <2>3
  <2>5. t.at - 1 = save.at
    BY <1>2, <2>2
  <2>6. t.at <= Len(all) + 1
    BY <1>2, <1>3, <2>2
  <2>7. Undisturbed(c)'
    BY <1>6, <2>1, <2>2, <2>4, <2>5, <2>6 DEF Undisturbed
  <2>8. DOMAIN file \subseteq DOMAIN file' /\ t.file \in DOMAIN file'
    BY <1>1, <2>1, <2>2
  <2>9. QED
    BY <1>1, <2>1, <2>2, <2>3, <2>7, <2>8, CallGoesOn
<1>7. CASE /\ \E new \in Written(text, save.row, line) : file' = [file EXCEPT ![save.file] = new]
           /\ todo' = [todo EXCEPT ![c].at = @ + 1, ![c].row = @ + 1]
  <2>1. PICK new \in Written(text, save.row, line) : file' = [file EXCEPT ![save.file] = new]
    BY <1>7
  <2>2. /\ new \in Seq(FileLine)
        /\ save.row = Len(text) + 1 => new = Append(text, line)
    BY <1>1, <1>2, <1>3, WrittenText
  <2>3. todo' = [todo EXCEPT ![c] = After(save.row + 1)]
    BY <1>1, <1>7
  <2>4. save.row + 1 \in Nat \ {0} /\ todo'[c] # Idle
    <3> HIDE DEF save, After
    <3>1. save.row + 1 \in Nat \ {0}
      BY <1>2
    <3>2. After(save.row + 1) # Idle
      BY <1>4, <3>1
    <3>3. todo'[c] = After(save.row + 1)
      BY <1>1, <2>3
    <3>4. QED
      BY <3>1, <3>2, <3>3
  <2>5. ASSUME c \notin disturbed'
        PROVE  /\ save.row + 1 <= save.at + 1
               /\ save.row + 1 = save.at + 1 => new = SubSeq(all, 1, save.at)
    <3>1. /\ save.row <= save.at
          /\ save.row = save.at => text = SubSeq(all, 1, save.at - 1)
      BY <1>5, <2>4, <2>5
    <3>2. save.at \in 1 .. Len(all)
      BY <1>2, <1>3
    <3> HIDE DEF save
    <3>3. SubSeq(all, 1, save.at) = Append(SubSeq(all, 1, save.at - 1), line)
      BY <1>3, <3>2, OneMoreElement DEF line
    <3>4. Len(SubSeq(all, 1, save.at - 1)) = save.at - 1
      BY <1>3, <3>2
    <3>5. save.row = save.at => save.row = Len(text) + 1
      BY <1>2, <3>1, <3>4
    <3>6. save.row + 1 <= save.at + 1 /\ (save.row + 1 = save.at + 1 => save.row = save.at)
      BY <1>2, <3>1
    <3>7. ASSUME save.row = save.at
          PROVE  new = SubSeq(all, 1, save.at)
      <4>1. new = Append(text, line)
        BY <2>2, <3>5, <3>7
      <4>2. text = SubSeq(all, 1, save.at - 1)
        BY <3>1, <3>7
      <4>3. QED
        BY <3>3, <4>1, <4>2, Zenon
    <3>8. QED
      BY <3>6, <3>7
  <2> HIDE DEF save, After
  <2>6. QED
    BY <1>6, <2>1, <2>2, <2>3, <2>4, <2>5
<1>8. CASE file' = file /\ todo' = [todo EXCEPT ![c].at = @ + 1]
  <2>1. file' = [file EXCEPT ![save.file] = text]
    BY <1>1, <1>8, FilesTyped DEF text
  <2>2. todo' = [todo EXCEPT ![c] = After(save.row)]
    BY <1>1, <1>8 DEF WriteRecord
  <2>3. todo'[c] # Idle
    BY <1>1, <1>2, <1>4, <2>2
  <2>4. c \notin disturbed' => save.row <= save.at + 1 /\ save.row # save.at + 1
    BY <1>2, <1>5, <2>3
  <2> HIDE DEF save, After
  <2>5. QED
    BY <1>1, <1>2, <1>6, <2>1, <2>2, <2>4
<1>9. QED
  BY <1>7, <1>8 DEF SaveLine, text, line, all

\* The end of filter_save_rules.
LEMMA EndSaveKeeps ==
  ASSUME LibInv, NEW c \in Clients, Disturb({c}), EndSave(c)
  PROVE  LibInv'
<1>1. /\ todo' = [todo EXCEPT ![c] = Idle]
      /\ UNCHANGED <<supported, library, driver, file, owner>>
      /\ todo \in [Clients -> Todo]
  BY TypeOKIsTyped DEF EndSave, LibInv, VariablesTyped
<1>2. Undisturbed(c)'
  BY <1>1, IdleIsUndisturbed
<1>3. QED
  BY <1>1, <1>2, CallGoesOn, FilesTyped, IdleIsTodo

-----------------------------------------------------------------------------
(* Processes that die and modules that are loaded anew.                    *)

\* A process that dies.
LEMMA DieKeeps ==
  ASSUME LibInv, NEW c \in Clients, Disturb({c}), Die(c)
  PROVE  LibInv'
<1>1. VariablesTyped /\ SettingsAgree
  BY TypeOKIsTyped DEF LibInv
<1>2. /\ library' = [library EXCEPT ![c] = Fresh]
      /\ todo' = [todo EXCEPT ![c] = Idle]
      /\ owner' = [s \in Settings |-> IF owner[s] = c THEN NoClient ELSE owner[s]]
      /\ UNCHANGED <<supported, driver, file>>
  BY DEF Die
<1>3. Fresh \in LibraryState
  BY FilesAssumption DEF Fresh, LibraryState, RuleActions, InterfaceNames
<1>4. /\ library' \in [Clients -> LibraryState] /\ todo' \in [Clients -> Todo]
      /\ todo'[c] = Idle
      /\ \A d \in Clients : d # c => library'[d] = library[d] /\ todo'[d] = todo[d]
      /\ owner' \in [Settings -> Clients \cup {NoClient}]
  BY <1>1, <1>2, <1>3, IdleIsTodo DEF VariablesTyped
<1>5. \A d \in Clients : /\ todo'[d] # Idle => library'[d].initialized
                         /\ todo'[d].op \in {"load", "save", "write"} => todo'[d].file \in DOMAIN file'
  BY <1>1, <1>2, <1>4, IdleIsTodo DEF VariablesTyped
<1>6. VariablesTyped'
  BY <1>1, <1>2, <1>4, <1>5 DEF VariablesTyped
<1>7. SettingsAgree'
  <2>1. ASSUME NEW s \in Settings, owner'[s] # NoClient
        PROVE  owner'[s] = owner[s] /\ owner[s] # c /\ owner[s] \in Clients
    BY <1>1, <1>2, <2>1 DEF VariablesTyped
  <2>2. QED
    BY <1>1, <1>2, <1>4, <2>1 DEF SettingsAgree
<1>8. \A d \in Clients : Undisturbed(d)'
  BY <1>2, <1>4, IdleIsUndisturbed, OthersUndisturbed
<1>9. QED
  BY <1>6, <1>7, <1>8, InvAfterStep

\* The driver's module is loaded anew.
LEMMA RestartKeeps ==
  ASSUME LibInv, Disturb({}), Restart
  PROVE  LibInv'
<1>1. VariablesTyped /\ SettingsAgree
  BY TypeOKIsTyped DEF LibInv
<1>2. driver' = LoadedDriver /\ owner' = Unowned /\ UNCHANGED <<supported, library, file, todo>>
  BY DEF Restart
<1>3. LoadedDriver \in DriverState /\ Len(LoadedDriver.rules) <= MaxRules
  BY WidthAssumption DEF LoadedDriver, DriverState, RuleActions, InterfaceNames
<1>4. Unowned \in [Settings -> Clients \cup {NoClient}]
  BY DEF Unowned
<1>5. VariablesTyped'
  BY <1>1, <1>2, <1>3, <1>4 DEF VariablesTyped
<1>6. SettingsAgree'
  BY <1>2 DEF SettingsAgree, Unowned
<1>7. \A d \in Clients : Undisturbed(d)'
  BY <1>2, OthersUndisturbed
<1>8. QED
  BY <1>5, <1>6, <1>7, InvAfterStep

-----------------------------------------------------------------------------
(* The library as a whole.                                                 *)

\* Whatever a process does with the library keeps the invariant.
LEMMA LibStepKeeps ==
  ASSUME LibInv, NEW c \in Clients, LibStep(c), Disturb({c})
  PROVE  LibInv'
<1>1. CASE \E code, interface : \E f \in Files :
             interface \in InterfaceNames /\ InitWithConfig(c, interface, f, code)
  BY <1>1, InitWithConfigKeeps
<1>2. CASE (\E code : Open(c, code)) \/ Close(c) \/ Cleanup(c)
  BY <1>2, DeviceKeeps
<1>3. CASE \E code : \E rule \in AnyRule : AddRule(c, rule, code)
  BY <1>3, AddRuleKeeps
<1>4. CASE \E code : \E rule \in AnyRule : UpdateRule(c, rule, code)
  BY <1>4, UpdateRuleKeeps
<1>5. CASE \E code, id : RemoveRule(c, id, code)
  BY <1>5, RemoveRuleKeeps
<1>6. CASE \E code, id : EnableRule(c, id, code) \/ DisableRule(c, id, code)
  BY <1>6, EnableRuleKeeps
<1>7. CASE \E code : ClearRules(c, code)
  BY <1>7, ClearRulesKeeps
<1>8. CASE \E code : \E action \in RuleActions : SetDefaultAction(c, action, code)
  <2>1. PICK code : \E action \in RuleActions : SetDefaultAction(c, action, code)
    BY <1>8
  <2>2. PICK action \in RuleActions :
          RememberAndTell(c, "default_action", action, "SET_DEFAULT_ACTION", code)
    BY <2>1 DEF SetDefaultAction
  <2>3. "default_action" \in Settings
    BY DEF Settings
  <2>4. QED
    BY <2>2, <2>3, RememberAndTellKeeps
<1>9. CASE \E code : \E interface \in InterfaceNames : SetInterface(c, interface, code)
  <2>1. PICK code : \E interface \in InterfaceNames : SetInterface(c, interface, code)
    BY <1>9
  <2>2. PICK interface \in InterfaceNames :
          RememberAndTell(c, "interface", interface, "SET_INTERFACE", code)
    BY <2>1 DEF SetInterface
  <2>3. "interface" \in Settings
    BY DEF Settings
  <2>4. QED
    BY <2>2, <2>3, RememberAndTellKeeps
<1>10. CASE \E code : \E on \in BOOLEAN : SetMonitoring(c, on, code)
  BY <1>10, SetMonitoringKeeps
<1>11. CASE \E code : (\E f \in Files : LoadRules(c, f, code)) \/ LoadAgain(c, code)
  BY <1>11, LoadRulesKeeps
<1>12. CASE \E code : \E f \in Files : SaveRules(c, f, code)
  BY <1>12, SaveRulesKeeps
<1>13. CASE \E code : ReloadRules(c, code)
  BY <1>13, ReloadRulesKeeps
<1>14. CASE \E code : SaveGet(c, code)
  BY <1>14, SaveGetKeeps
<1>15. CASE LoadLine(c)
  BY <1>15, LoadLineKeeps
<1>16. CASE EndLoad(c)
  BY <1>16, EndLoadKeeps
<1>17. CASE FillBuffer(c) \/ SaveLine(c) \/ EndSave(c)
  BY <1>17, FillBufferKeeps, SaveLineKeeps, EndSaveKeeps
<1>18. CASE Die(c)
  BY <1>18, DieKeeps
<1>19. CASE UNCHANGED <<supported, library, driver, file, todo, owner>>
  BY <1>19, NothingKeeps
<1>20. QED
  BY <1>1, <1>2, <1>3, <1>4, <1>5, <1>6, <1>7, <1>8, <1>9, <1>10, <1>11, <1>12, <1>13,
     <1>14, <1>15, <1>16, <1>17, <1>18, <1>19 DEF LibStep, Proceed

\* What a caller of the library may do is a step of it, whatever it calls ...
LEMMA CallIsLibStep ==
  ASSUME LibInv, NEW c \in Clients, NEW code, Call(c, code)
  PROVE  LibStep(c)
<1>1. library[c].interface \in InterfaceNames /\ library[c].rule_file \in Files
  BY TypeOKIsTyped DEF LibInv, VariablesTyped, LibraryState
<1>2. CASE \E interface \in Interfaces, f \in Files : InitWithConfig(c, interface, f, code)
  BY <1>2 DEF LibStep, InterfaceNames
<1>3. CASE InitLibrary(c, code)
  BY <1>1, <1>3 DEF InitLibrary, LibStep
<1>4. CASE \E rule \in Rules : AddRule(c, rule, code) \/ UpdateRule(c, rule, code)
  BY <1>4, RulesAssumption DEF LibStep
<1>5. CASE \E id \in RuleIds : RemoveRule(c, id, code) \/ EnableRule(c, id, code)
                                \/ DisableRule(c, id, code)
  BY <1>5 DEF LibStep
<1>6. CASE \E action \in Actions : SetDefaultAction(c, action, code)
  BY <1>6, ActionsAssumption DEF LibStep
<1>7. CASE \E interface \in Interfaces : SetInterface(c, interface, code)
  BY <1>7 DEF LibStep, InterfaceNames
<1>8. CASE \/ Open(c, code) \/ ClearRules(c, code) \/ ReloadRules(c, code)
           \/ \E on \in BOOLEAN : SetMonitoring(c, on, code)
           \/ \E f \in Files : LoadRules(c, f, code) \/ SaveRules(c, f, code)
  BY <1>8 DEF LibStep
<1>9. QED
  BY <1>2, <1>3, <1>4, <1>5, <1>6, <1>7, <1>8 DEF Call

\* ... and a process does nothing else.
LEMMA NextIsLibStep ==
  ASSUME LibInv, Next
  PROVE  \/ \E c \in Clients : LibStep(c) /\ Disturb({c})
         \/ Restart /\ Disturb({})
<1>1. CASE Restart /\ Disturb({})
  BY <1>1
<1>2. ASSUME NEW c \in Clients, Disturb({c}),
             \/ \E code \in Codings : Call(c, code) \/ Continue(c, code)
             \/ Cleanup(c)
             \/ Close(c)
             \/ Proceed(c)
             \/ Die(c)
      PROVE  LibStep(c)
  <2>1. ASSUME NEW code, Call(c, code) PROVE LibStep(c)
    BY <2>1, CallIsLibStep
  <2>2. ASSUME NEW code, Continue(c, code) PROVE LibStep(c)
    BY <2>2 DEF Continue, LibStep
  <2>3. CASE Cleanup(c) \/ Close(c) \/ Proceed(c) \/ Die(c)
    BY <2>3 DEF LibStep
  <2>4. QED
    BY <1>2, <2>1, <2>2, <2>3
<1>3. QED
  BY <1>1, <1>2 DEF Next

\* The variables at first.
LEMMA InitIsLibInv == Init => LibInv
<1> SUFFICES ASSUME Init PROVE LibInv
  OBVIOUS
<1>1. Fresh \in LibraryState
  BY FilesAssumption DEF Fresh, LibraryState, RuleActions, InterfaceNames
<1>2. LoadedDriver \in DriverState /\ Len(LoadedDriver.rules) <= MaxRules
  BY WidthAssumption DEF LoadedDriver, DriverState, RuleActions, InterfaceNames
<1>3. \A c \in Clients : todo[c] = Idle
  BY DEF Init
<1>4. VariablesTyped
  BY <1>1, <1>2, IdleIsTodo, FilesAssumption, ContentsAssumption
     DEF Init, VariablesTyped, Unowned
<1>5. TypeOK
  BY <1>4, TypeOKIsTyped DEF Init
<1>6. SettingsAgree
  BY DEF Init, SettingsAgree, Unowned
<1>7. \A c \in Clients : Undisturbed(c)
  BY <1>3, IdleIsTodo DEF Undisturbed
<1>8. QED
  BY <1>5, <1>6, <1>7 DEF LibInv

\* A step that leaves everything alone.
LEMMA StutterKeeps == LibInv /\ UNCHANGED vars => LibInv'
BY DEF LibInv, TypeOK, SettingsAgree, Undisturbed, vars

\* The invariant of the library.
LEMMA LibraryInvariant == Spec => []LibInv
<1>1. LibInv /\ [Next]_vars => LibInv'
  <2>1. LibInv /\ Next => LibInv'
    BY NextIsLibStep, LibStepKeeps, RestartKeeps
  <2>2. QED
    BY <2>1, StutterKeeps
<1>2. QED
  BY <1>1, InitIsLibInv, PTL DEF Spec

\* The others are left where they are, with what they have.
LEMMA OthersStay ==
  ASSUME LibInv, NEW c \in Clients, LibStep(c), NEW d \in Clients, d # c
  PROVE  todo'[d] = todo[d] /\ library'[d] = library[d]
<1> DEFINE TodoStays    == UNCHANGED todo \/ \E t : todo' = [todo EXCEPT ![c] = t]
           LibraryStays == UNCHANGED library \/ \E l : library' = [library EXCEPT ![c] = l]
<1>1. todo \in [Clients -> Todo] /\ library \in [Clients -> LibraryState]
  BY TypeOKIsTyped DEF LibInv, VariablesTyped
<1>2. CASE TodoStays /\ LibraryStays
  BY <1>1, <1>2
<1>3. CASE FillBuffer(c) \/ LoadLine(c) \/ SaveLine(c)
  BY <1>1, <1>3 DEF FillBuffer, LoadLine, SaveLine
<1>4. CASE \E code :
             \/ \E interface \in InterfaceNames, f \in Files : InitWithConfig(c, interface, f, code)
             \/ Open(c, code)
             \/ \E action \in RuleActions : SetDefaultAction(c, action, code)
             \/ \E interface \in InterfaceNames : SetInterface(c, interface, code)
             \/ \E on \in BOOLEAN : SetMonitoring(c, on, code)
  <2>1. UNCHANGED todo
    BY <1>4 DEF InitWithConfig, Open, SetDefaultAction, SetInterface, RememberAndTell, SetMonitoring
  <2>2. CASE \E code, interface, f : InitWithConfig(c, interface, f, code)
    BY <1>1, <2>1, <2>2 DEF InitWithConfig
  <2>3. CASE \E code : Open(c, code)
    BY <1>1, <2>1, <2>3 DEF Open
  <2>4. CASE \E code, on : SetMonitoring(c, on, code)
    BY <1>1, <2>1, <2>4 DEF SetMonitoring
  <2>5. CASE \E setting, value, request, code : RememberAndTell(c, setting, value, request, code)
    BY <1>1, <2>1, <2>5 DEF RememberAndTell
  <2>6. QED
    BY <1>4, <2>2, <2>3, <2>4, <2>5 DEF SetDefaultAction, SetInterface
<1>5. ASSUME NEW code,
             \/ \E rule \in AnyRule : AddRule(c, rule, code) \/ UpdateRule(c, rule, code)
             \/ \E id : RemoveRule(c, id, code) \/ EnableRule(c, id, code) \/ DisableRule(c, id, code)
             \/ ClearRules(c, code)
      PROVE  UNCHANGED <<todo, library>>
  BY <1>5 DEF AddRule, UpdateRule, RemoveRule, EnableRule, DisableRule, ClearRules, OnlyDriver
<1>6. ASSUME NEW code,
             \/ \E f \in Files : LoadRules(c, f, code) \/ SaveRules(c, f, code)
             \/ ReloadRules(c, code)
             \/ LoadAgain(c, code)
             \/ SaveGet(c, code)
      PROVE  TodoStays /\ UNCHANGED library
  BY <1>6 DEF LoadRules, StartLoad, SaveRules, ReloadRules, LoadAgain, SaveGet
<1>7. CASE Cleanup(c) \/ Close(c) \/ EndLoad(c) \/ EndSave(c) \/ Die(c)
  <2>1. UNCHANGED todo \/ todo' = [todo EXCEPT ![c] = Idle]
    BY <1>7 DEF Cleanup, Close, EndLoad, EndSave, Die
  <2>2. library'[d] = library[d]
    BY <1>1, <1>7 DEF Cleanup, Close, EndLoad, EndSave, Die
  <2>3. QED
    BY <1>1, <2>1, <2>2
<1>8. CASE UNCHANGED <<supported, library, driver, file, todo, owner>>
  BY <1>8
<1>9. QED
  BY <1>2, <1>3, <1>4, <1>5, <1>6, <1>7, <1>8 DEF LibStep, Proceed

\* What a process may do that is writing.
LEMMA WritersStep ==
  ASSUME NEW c \in Clients, LibStep(c), todo[c].op = "write"
  PROVE  SaveLine(c) \/ EndSave(c) \/ Die(c) \/ UNCHANGED todo
<1>1. ~ AtCall(c)
  BY DEF AtCall
<1>2. ASSUME NEW code,
             \/ \E interface \in InterfaceNames, f \in Files : InitWithConfig(c, interface, f, code)
             \/ Open(c, code)
             \/ \E rule \in AnyRule : AddRule(c, rule, code) \/ UpdateRule(c, rule, code)
             \/ \E id : RemoveRule(c, id, code) \/ EnableRule(c, id, code) \/ DisableRule(c, id, code)
             \/ ClearRules(c, code)
             \/ \E action \in RuleActions : SetDefaultAction(c, action, code)
             \/ \E interface \in InterfaceNames : SetInterface(c, interface, code)
             \/ \E on \in BOOLEAN : SetMonitoring(c, on, code)
             \/ \E f \in Files : LoadRules(c, f, code) \/ SaveRules(c, f, code)
             \/ ReloadRules(c, code)
      PROVE  FALSE
  BY <1>1, <1>2 DEF InitWithConfig, Open, AddRule, UpdateRule, RemoveRule, EnableRule,
     DisableRule, ClearRules, SetDefaultAction, SetInterface, RememberAndTell, SetMonitoring,
     LoadRules, SaveRules, ReloadRules
<1>3. ASSUME NEW code, LoadAgain(c, code) \/ SaveGet(c, code)
      PROVE  FALSE
  BY <1>3 DEF LoadAgain, SaveGet
<1>4. ~ Cleanup(c) /\ ~ Close(c) /\ ~ FillBuffer(c) /\ ~ LoadLine(c) /\ ~ EndLoad(c)
  BY <1>1 DEF Cleanup, Close, FillBuffer, LoadLine, Reading, EndLoad, AtEnd
<1>5. QED
  BY <1>2, <1>3, <1>4 DEF LibStep, Proceed

SavedWell(c) ==
  todo[c].op = "write" /\ Leaves(c) /\ c \notin disturbed /\ todo[c].row = todo[c].at =>
    LET loaded == RulesOf(file'[todo[c].file])
    IN  /\ Len(loaded) = Len(todo[c].rules)
        /\ \A i \in DOMAIN loaded : Kept(todo[c].rules[i], loaded[i])

\* A process that returns from a save has written all it prints, if it lost
\* nothing, and that loads as the rules it was given.
LEMMA StepSavesWell ==
  ASSUME LibInv, NEW actor \in Clients, LibStep(actor), NEW c \in Clients
  PROVE  SavedWell(c)
<1> DEFINE save == todo[c]
           all  == Printed(save)
<1> SUFFICES ASSUME save.op = "write", Leaves(c), c \notin disturbed, save.row = save.at
             PROVE  LET loaded == RulesOf(file'[save.file])
                    IN  /\ Len(loaded) = Len(save.rules)
                        /\ \A i \in DOMAIN loaded : Kept(save.rules[i], loaded[i])
  BY DEF SavedWell
<1>1. actor = c
  BY OthersStay DEF Leaves
<1>2. /\ save \in WriteRecord /\ save.at \in Nat /\ save.rules \in Seq(GoodRule)
      /\ todo \in [Clients -> Todo] /\ library \in [Clients -> LibraryState]
  <2>1. todo \in [Clients -> Todo] /\ library \in [Clients -> LibraryState]
    BY TypeOKIsTyped DEF LibInv, VariablesTyped
  <2>2. save \in WriteRecord
    BY <2>1, TodoKinds
  <2>3. QED
    BY <2>1, <2>2 DEF WriteRecord
<1>3. ~ Die(c)
  BY <1>2 DEF Die, Leaves, Fresh
<1>4. ~ SaveLine(c)
  BY <1>2 DEF SaveLine, Leaves, Idle, WriteRecord
<1>5. EndSave(c)
  BY <1>1, <1>3, <1>4, WritersStep DEF Leaves
<1>6. /\ save.at <= Len(all) + 1 /\ ~ save.at <= Len(all)
      /\ file[save.file] = SubSeq(all, 1, save.at - 1)
  BY <1>5 DEF LibInv, Undisturbed, EndSave, Saving
<1>7. all \in Seq(FileLine) /\ Len(all) \in Nat
  BY <1>2, SavedLines, LenProperties DEF Printed
<1>8. file'[save.file] = <<Comment>> \o Lines(save.rules)
  <2>1. file' = file
    BY <1>5 DEF EndSave
  <2>2. all = <<Comment>> \o Lines(save.rules)
    BY DEF Printed
  <2> HIDE DEF all, save
  <2>3. save.at - 1 = Len(all)
    BY <1>2, <1>6, <1>7
  <2>4. SubSeq(all, 1, Len(all)) = all
    BY <1>7, SubSeqFull
  <2>5. QED
    BY <1>6, <2>1, <2>2, <2>3, <2>4
<1> HIDE DEF save
<1>9. QED
  BY <1>2, <1>8, SavedFileLoads

-----------------------------------------------------------------------------
(* What is proved of the library.                                          *)

\* All variables of the library, the driver and the files keep their types;
\* the driver never gets a rule that check_rule would refuse, nor one too
\* many, whatever the calls, the files and the deaths of processes are.
THEOREM LibraryTypesHold == Spec => []TypeOK
<1>1. LibInv => TypeOK
  BY DEF LibInv
<1>2. QED
  BY <1>1, LibraryInvariant, PTL

\* The last one to change a setting of the driver remembers what it has.
THEOREM SettingsHold == Spec => []SettingsAgree
<1>1. LibInv => SettingsAgree
  BY DEF LibInv
<1>2. QED
  BY <1>1, LibraryInvariant, PTL

\* The invariant keeps every load exact.
LEMMA InvIsExact == LibInv => LoadIsExact
BY DEF LibInv, Undisturbed, LoadIsExact

\* A load nobody meddles with has added what it counted, of the lines it has
\* read and in their order, after the rules that were there.
THEOREM LoadHolds == Spec => []LoadIsExact
<1>1. QED
  BY InvIsExact, LibraryInvariant, PTL

\* A save that nobody meddles with and that loses no line leaves a file that
\* loads again, in however many pieces it was written.
THEOREM SaveHolds == Spec => SaveCanBeLoaded
<1>1. LibInv /\ [Next]_vars => [\A c \in Clients : SavedWell(c)]_vars
  <2> SUFFICES ASSUME LibInv, Next PROVE \A c \in Clients : SavedWell(c)
    OBVIOUS
  <2>1. CASE \E c \in Clients : LibStep(c) /\ Disturb({c})
    BY <2>1, StepSavesWell
  <2>2. CASE Restart
    BY <2>2, IdleIsTodo DEF Restart, SavedWell, Leaves
  <2>3. QED
    BY <2>1, <2>2, NextIsLibStep
<1>2. Spec => [][\A c \in Clients : SavedWell(c)]_vars
  BY <1>1, LibraryInvariant, PTL DEF Spec
<1>3. QED
  BY <1>2 DEF SaveCanBeLoaded, SavedWell

-----------------------------------------------------------------------------
(* The command line tool: the rule that "add" makes.                       *)

\* The remainder is no more than what is divided.
LEMMA RemainderIsLess == ASSUME NEW a \in Nat, NEW p \in Nat \ {0} PROVE a % p \in 0 .. a
BY SMT

\* What is left of an address by a mask is one.
LEMMA MaskedIsAddress ==
  ASSUME NEW ip \in Address, NEW prefix \in 0 .. AddressBits
  PROVE  Masked(ip, prefix) \in Address
<1> DEFINE p == 2^(AddressBits - prefix)
           q == 2^AddressBits
<1>1. p \in Nat \ {0} /\ q \in Nat \ {0}
  BY WidthAssumption, PowersAssumption
<1>2. ip \in 0 .. q - 1 /\ Address = 0 .. q - 1 /\ Masked(ip, prefix) = ip - (ip % p)
  BY DEF Address, Masked
<1> HIDE DEF p, q
<1>3. ip \in Nat
  BY <1>1, <1>2
<1>4. ip % p \in 0 .. ip
  BY <1>1, <1>3, RemainderIsLess
<1>5. QED
  BY <1>1, <1>2, <1>3, <1>4

\* A number on the command line is one.
Numbered(o) == IsA(o.value, "number") => o.value.number \in Nat

\* An option that is accepted makes a good rule of a good rule.
LEMMA OptionKeepsRule ==
  ASSUME NEW rule \in GoodRule, NEW o, ValidOption(o), Numbered(o)
  PROVE  WithOption(rule, o) \in GoodRule
<1>1. CASE o.option = "src-ip"
  <2>1. o.value.address \in Address
    BY <1>1 DEF ValidOption, ParsesIp
  <2>2. WithOption(rule, o) = WithSourceIp(rule, o.value.address)
    BY <1>1 DEF WithOption
  <2>3. QED
    BY <2>1, <2>2, RulesAreMade
<1>2. CASE o.option = "dst-ip"
  <2>1. o.value.address \in Address
    BY <1>2 DEF ValidOption, ParsesIp
  <2>2. WithOption(rule, o) = WithDestinationIp(rule, o.value.address)
    BY <1>2 DEF WithOption
  <2>3. QED
    BY <2>1, <2>2, RulesAreMade
<1>3. CASE o.option \in {"src-net", "dst-net"}
  <2> DEFINE net == o.value.network
  <2>1. net.prefix \in 0 .. AddressBits /\ net.address \in Address
    BY <1>3 DEF ValidOption, ParsesNetwork
  <2>2. \/ WithOption(rule, o) = WithSourceNetwork(rule, net.address, net.prefix)
        \/ WithOption(rule, o) = WithDestinationNetwork(rule, net.address, net.prefix)
    BY <1>3 DEF WithOption
  <2> HIDE DEF net
  <2>3. Masked(net.address, net.prefix) \in Address
    BY <2>1, MaskedIsAddress
  <2>4. QED
    BY <2>1, <2>2, <2>3 DEF WithSourceNetwork, WithDestinationNetwork, GoodRule, Rule
<1>4. CASE o.option \in {"src-port", "dst-port", "priority"}
  <2>1. o.value.number \in 0 .. PortLimit
    <3>1. ParsesPort(o.value)
      BY <1>4 DEF ValidOption
    <3>2. QED
      BY <3>1, PortIsNumber DEF ParsesPort, ParsesUint32, Numbered
  <2>2. \/ WithOption(rule, o) = [rule EXCEPT !.src_port = o.value.number]
        \/ WithOption(rule, o) = [rule EXCEPT !.dst_port = o.value.number]
        \/ WithOption(rule, o) = [rule EXCEPT !.priority = o.value.number]
    BY <1>4 DEF WithOption
  <2>3. QED
    BY <2>1, <2>2 DEF GoodRule, Rule
<1>5. CASE o.option = "protocol"
  <2>1. ProtocolWords[o.value.word] \in Protocols
    BY <1>5 DEF ValidOption, ParsesProtocol, ProtocolWords, Protocols
  <2>2. WithOption(rule, o) = [rule EXCEPT !.protocol = ProtocolWords[o.value.word]]
    BY <1>5 DEF WithOption
  <2>3. QED
    BY <2>1, <2>2 DEF GoodRule, Rule
<1>6. CASE o.option = "action"
  <2>1. ActionWords[o.value.word] \in RuleActions
    BY <1>6 DEF ValidOption, ParsesAction, ActionWords, RuleActions
  <2>2. WithOption(rule, o) = [rule EXCEPT !.action = ActionWords[o.value.word]]
    BY <1>6 DEF WithOption
  <2>3. QED
    BY <2>1, <2>2 DEF GoodRule, Rule
<1>7. o.option \in {"src-ip", "dst-ip", "src-net", "dst-net", "src-port", "dst-port",
                    "protocol", "action", "priority"}
  BY DEF ValidOption
<1>8. QED
  BY <1>1, <1>2, <1>3, <1>4, <1>5, <1>6, <1>7

\* "add" asks for a rule that check_rule takes, whatever its options are.
LEMMA AddedRuleIsGood ==
  ASSUME NEW S, NEW options \in Seq(S),
         \A i \in DOMAIN options : ValidOption(options[i]) /\ Numbered(options[i])
  PROVE  RuleFrom(options) \in GoodRule
<1> DEFINE n == Len(options)
           Folded(g) == g = [U \in SUBSET (1 .. n) |->
             IF U = {} THEN EmptyRule
             ELSE WithOption(g[U \ {Max(U)}], options[Max(U)])]
           step == [p \in (1 .. n) \X GoodRule |-> WithOption(p[2], options[p[1]])]
           f == CHOOSE g : Folded(g)
<1>1. n \in Nat /\ DOMAIN options = 1 .. n
  BY LenProperties
<1>2. RuleFrom(options) = f[1 .. n]
  BY <1>1 DEF RuleFrom, FoldLeft, MapThenFoldSet
<1>3. step \in [(1 .. n) \X GoodRule -> GoodRule] /\ EmptyRule \in GoodRule
  <2>1. ASSUME NEW p \in (1 .. n) \X GoodRule PROVE step[p] \in GoodRule
    <3>1. p[1] \in 1 .. n /\ p[2] \in GoodRule
      OBVIOUS
    <3>2. ValidOption(options[p[1]]) /\ Numbered(options[p[1]])
      BY <1>1, <3>1
    <3>3. WithOption(p[2], options[p[1]]) \in GoodRule
      BY <3>1, <3>2, OptionKeepsRule
    <3>4. QED
      BY <3>3
  <2>2. QED
    BY <2>1, RulesAreMade
<1>4. \A m \in 1 .. n, rule \in GoodRule : step[<<m, rule>>] = WithOption(rule, options[m])
  OBVIOUS
<1>5. \A U \in (SUBSET (1 .. n)) \ {{}} : Max(U) \in U /\ Max(U) \in 1 .. n
  BY <1>1, GreatestElement
<1>6. \E g : Folded(g)
  <2> HIDE DEF step
  <2> DEFINE last == [U \in (SUBSET (1 .. n)) \ {{}} |-> Max(U)]
  <2>0. PICK g \in [SUBSET (1 .. n) -> GoodRule] :
          IsFold(g, SUBSET (1 .. n), EmptyRule, last, step)
    <3> HIDE DEF n
    <3>1. QED
      BY <1>1, <1>3, FoldOfPositions
  <2>1. \A U \in SUBSET (1 .. n) :
          g[U] = IF U = {} THEN EmptyRule ELSE step[<<Max(U), g[U \ {Max(U)}]>>]
    BY <2>0 DEF IsFold
  <2>2. ASSUME NEW U \in SUBSET (1 .. n), U # {}
        PROVE  step[<<Max(U), g[U \ {Max(U)}]>>]
                 = WithOption(g[U \ {Max(U)}], options[Max(U)])
    <3>1. Max(U) \in 1 .. n /\ U \ {Max(U)} \in SUBSET (1 .. n)
      BY <1>5, <2>2
    <3>2. g[U \ {Max(U)}] \in GoodRule
      BY <3>1
    <3>3. QED
      BY <1>4, <3>1, <3>2
  <2>3. \A U \in SUBSET (1 .. n) :
          g[U] = IF U = {} THEN EmptyRule
                 ELSE WithOption(g[U \ {Max(U)}], options[Max(U)])
    <3> HIDE DEF last
    <3>1. QED
      BY <2>1, <2>2
  <2> HIDE DEF last
  <2>4. Folded(g)
    BY <2>3
  <2>5. QED
    BY <2>4
<1>7. Folded(f)
  <2> HIDE DEF Folded
  <2>1. QED
    BY <1>6
<1> HIDE DEF f
<1>8. f[{}] = EmptyRule
  BY <1>7
<1>9. ASSUME NEW U \in (SUBSET (1 .. n)) \ {{}}, f[U \ {Max(U)}] \in GoodRule
      PROVE  f[U] = step[<<Max(U), f[U \ {Max(U)}]>>]
  <2>1. f[U] = WithOption(f[U \ {Max(U)}], options[Max(U)])
    BY <1>7
  <2>2. QED
    BY <1>4, <1>5, <1>9, <2>1
<1>10. FoldsLast(f, n, GoodRule, EmptyRule, step)
  <2> HIDE DEF step, Folded, n
  <2>1. QED
    BY <1>8, <1>9 DEF FoldsLast
<1> HIDE DEF n, step, Folded
<1>11. InOrder(f, n, GoodRule, EmptyRule, step)
  BY <1>1, <1>3, <1>10, FoldInOrder
<1>12. QED
  BY <1>1, <1>2, <1>11 DEF InOrder

-----------------------------------------------------------------------------
(* The command line tool: its invariant.                                   *)

\* Only a reload is left to be reloaded; and whoever changed the driver's
\* rules with anything but a reload is loading, or will exit with 0.
Accounted(c) ==
  /\ todo[c].op = "reload" => ctl[c].command.name = "reload"
  /\ ctl[c].changed /\ ctl[c].command.name # "reload" =>
       todo[c].op = "load" \/ (ctl[c].stage = "done" /\ ctl[c].status = 0)

CtlInv ==
  /\ LibInv
  /\ CtlTypeOK
  /\ ctl = [c \in Clients |-> ctl[c]]
  /\ \A c \in Clients : Accounted(c)

\* A command ends: with 1 only if it changed nothing, or is a reload.
Ends(c) ==
  \E status \in {0, 1} :
    /\ Goes(c, "done", status)
    /\ todo'[c] = Idle
    /\ status = 1 /\ ctl[c].command.name # "reload" =>
         driver'.rules = driver.rules /\ todo[c].op # "load"

\* A command goes on: one that is no reload has changed rules only by loading.
GoesOn(c) ==
  /\ Goes(c, "dispatch", 0)
  /\ library' = library
  /\ todo'[c].op = "reload" => ctl[c].command.name = "reload"
  /\ ctl[c].command.name # "reload" /\ (ctl[c].changed \/ driver'.rules # driver.rules) =>
       todo'[c].op = "load"

\* What a process may be running.
LEMMA CommandsTyped ==
  ASSUME CtlInv, NEW c \in Clients
  PROVE  /\ Args(c) \in Seq(Range(Args(c)))
         /\ ctl[c].command.name = "add" => \A i \in DOMAIN Args(c) : Numbered(Args(c)[i])
         /\ Args(c) # <<>> =>
              /\ ctl[c].command.name \in {"load", "save"} => Args(c)[1].word \in Files
              /\ ctl[c].command.name = "interface" => Args(c)[1].word \in InterfaceNames
<1>1. ctl[c].command \in Commands[c] \/ ctl[c].command = NoCommand
  BY DEF CtlInv, CtlTypeOK
<1>2. CASE ctl[c].command = NoCommand
  <2>1. NoCommand.name = "" /\ NoCommand.args = <<>>
    BY DEF NoCommand
  <2>2. Args(c) = <<>> /\ ctl[c].command.name = ""
    BY <1>2, <2>1 DEF Args
  <2>3. <<>> \in Seq(Range(<<>>)) /\ DOMAIN <<>> = {}
    OBVIOUS
  <2> HIDE DEF NoCommand
  <2>4. QED
    BY <2>2, <2>3
<1>3. CASE ctl[c].command \in Commands[c]
  BY <1>3, CommandsAssumption DEF Args, Numbered, InterfaceNames
<1>4. QED
  BY <1>1, <1>2, <1>3

\* A command that calls the library once, and ends.
LEMMA SingleCallEnds ==
  ASSUME CtlInv, NEW c \in Clients, AtCall(c), NEW code, UNCHANGED todo,
         code # "SUCCESS" => driver'.rules = driver.rules,
         Goes(c, "done", ExitOf(code))
  PROVE  Ends(c)
<1>1. todo'[c] = Idle /\ todo[c].op # "load"
  <2>1. todo[c] \in Todo
    BY TypeOKIsTyped DEF CtlInv, LibInv, VariablesTyped
  <2>2. QED
    BY <2>1, TodoKinds DEF AtCall
<1>2. ExitOf(code) \in {0, 1} /\ (ExitOf(code) = 1 => code # "SUCCESS")
  BY DEF ExitOf
<1>3. QED
  BY <1>1, <1>2 DEF Ends

\* A command that is refused, or asks, calls nothing that changes anything.
LEMMA RefusedEnds ==
  ASSUME CtlInv, NEW c \in Clients, AtCall(c),
         Refuse(c) \/ \E answers : Answered(c, answers)
  PROVE  LibStep(c) /\ Ends(c)
<1>1. UNCHANGED <<supported, library, driver, file, todo, owner>>
  BY DEF Refuse, Answered
<1>2. PICK code : Goes(c, "done", ExitOf(code))
  <2>1. CASE Refuse(c)
    <3>1. ExitOf("ERROR") = 1
      BY DEF ExitOf
    <3>2. QED
      BY <2>1, <3>1 DEF Refuse
  <2>2. CASE \E answers : Answered(c, answers)
    BY <2>2 DEF Answered
  <2>3. QED
    BY <2>1, <2>2
<1>3. LibStep(c)
  BY <1>1 DEF LibStep
<1>4. Ends(c)
  BY <1>1, <1>2, SingleCallEnds
<1>5. QED
  BY <1>3, <1>4

\* The commands that only ask.
LEMMA AskEnds ==
  ASSUME CtlInv, NEW c \in Clients,
         \/ CommandStatus(c) \/ CommandVersion(c) \/ CommandList(c)
         \/ CommandStats(c) \/ CommandResetStats(c) \/ CommandHelp(c)
  PROVE  LibStep(c) /\ Ends(c)
<1>1. AtCall(c) /\ \E answers : Answered(c, answers)
  BY DEF CommandStatus, CommandVersion, CommandList, CommandStats, CommandResetStats,
         CommandHelp, Runs
<1>2. QED
  BY <1>1, RefusedEnds

\* The commands that change the rules with one request.
LEMMA RuleCommandEnds ==
  ASSUME CtlInv, NEW c \in Clients, NEW code,
         \/ CommandAdd(c, code) \/ CommandDelete(c, code) \/ CommandClear(c, code)
         \/ CommandEnable(c, code) \/ CommandDisable(c, code)
  PROVE  LibStep(c) /\ Ends(c)
<1>1. AtCall(c)
  BY DEF CommandAdd, CommandDelete, CommandClear, CommandEnable, CommandDisable, OnRule, Runs
<1>2. CASE Refuse(c)
  BY <1>1, <1>2, RefusedEnds
<1>3. ASSUME LibStep(c), NEW rules, SetRules(code, rules), OnlyDriver,
             Goes(c, "done", ExitOf(code))
      PROVE  LibStep(c) /\ Ends(c)
  <2>1. UNCHANGED todo /\ (code # "SUCCESS" => driver'.rules = driver.rules)
    BY <1>3 DEF SetRules, OnlyDriver
  <2>2. QED
    BY <1>1, <1>3, <2>1, SingleCallEnds
<1>4. CASE CommandAdd(c, code) /\ ~ Refuse(c)
  <2>1. /\ ctl[c].command.name = "add"
        /\ \A i \in DOMAIN Args(c) : ValidOption(Args(c)[i])
        /\ AddRule(c, RuleFrom(Args(c)), code)
        /\ Goes(c, "done", ExitOf(code))
    BY <1>4 DEF CommandAdd, Runs
  <2> DEFINE rule == RuleFrom(Args(c))
  <2>2. rule \in AnyRule
    <3>1. rule \in GoodRule
      BY <2>1, CommandsTyped, AddedRuleIsGood
    <3> HIDE DEF rule
    <3>2. QED
      BY <3>1 DEF GoodRule, AnyRule, Rule, Words
  <2> HIDE DEF rule
  <2>3. AddRule(c, rule, code)
    BY <2>1 DEF rule
  <2>4. LibStep(c)
    BY <2>2, <2>3 DEF LibStep
  <2>5. QED
    BY <1>3, <2>1, <2>3, <2>4 DEF AddRule
<1>5. CASE CommandDelete(c, code) /\ ~ Refuse(c)
  <2>1. PICK id : RemoveRule(c, id, code) /\ Goes(c, "done", ExitOf(code))
    BY <1>5 DEF CommandDelete, OnRule
  <2>2. LibStep(c)
    BY <2>1 DEF LibStep
  <2>3. QED
    BY <1>3, <2>1, <2>2 DEF RemoveRule
<1>6. CASE CommandEnable(c, code) /\ ~ Refuse(c)
  <2>1. PICK id : EnableRule(c, id, code) /\ Goes(c, "done", ExitOf(code))
    BY <1>6 DEF CommandEnable, OnRule
  <2>2. LibStep(c)
    BY <2>1 DEF LibStep
  <2>3. QED
    BY <1>3, <2>1, <2>2 DEF EnableRule
<1>7. CASE CommandDisable(c, code) /\ ~ Refuse(c)
  <2>1. PICK id : DisableRule(c, id, code) /\ Goes(c, "done", ExitOf(code))
    BY <1>7 DEF CommandDisable, OnRule
  <2>2. LibStep(c)
    BY <2>1 DEF LibStep
  <2>3. QED
    BY <1>3, <2>1, <2>2 DEF DisableRule
<1>8. CASE CommandClear(c, code)
  <2>1. ClearRules(c, code) /\ Goes(c, "done", ExitOf(code))
    BY <1>8 DEF CommandClear
  <2>2. LibStep(c)
    BY <2>1 DEF LibStep
  <2>3. QED
    BY <1>3, <2>1, <2>2 DEF ClearRules
<1>9. QED
  BY <1>2, <1>4, <1>5, <1>6, <1>7, <1>8

\* The commands that change a setting.
LEMMA SettingCommandEnds ==
  ASSUME CtlInv, NEW c \in Clients, NEW code,
         \/ CommandMonitor(c, code) \/ CommandInterface(c, code)
         \/ CommandDefaultAction(c, code)
  PROVE  LibStep(c) /\ Ends(c)
<1>1. AtCall(c)
  BY DEF CommandMonitor, CommandInterface, CommandDefaultAction, Runs
<1>2. CASE Refuse(c) \/ \E answers : Answered(c, answers)
  BY <1>1, <1>2, RefusedEnds
<1>3. ASSUME LibStep(c), UNCHANGED todo, driver'.rules = driver.rules,
             Goes(c, "done", ExitOf(code))
      PROVE  LibStep(c) /\ Ends(c)
  BY <1>1, <1>3, SingleCallEnds
<1>4. driver \in DriverState
  BY TypeOKIsTyped DEF CtlInv, LibInv, VariablesTyped
<1>5. ASSUME NEW setting \in {"default_action", "interface"}, NEW value, NEW request,
             RememberAndTell(c, setting, value, request, code)
      PROVE  UNCHANGED todo /\ driver'.rules = driver.rules
  BY <1>4, <1>5 DEF RememberAndTell, DriverState
<1>6. CASE CommandMonitor(c, code) /\ ~ Refuse(c)
  <2>1. PICK on \in BOOLEAN : SetMonitoring(c, on, code) /\ Goes(c, "done", ExitOf(code))
    BY <1>6 DEF CommandMonitor
  <2>2. LibStep(c)
    BY <2>1 DEF LibStep
  <2>3. UNCHANGED todo /\ driver'.rules = driver.rules
    BY <1>4, <2>1 DEF SetMonitoring, DriverState
  <2>4. QED
    BY <1>3, <2>1, <2>2, <2>3
<1>7. CASE CommandInterface(c, code) /\ ~ \E answers : Answered(c, answers)
  <2> DEFINE interface == Args(c)[1].word
  <2>1. SetInterface(c, interface, code) /\ Goes(c, "done", ExitOf(code))
    BY <1>7 DEF CommandInterface
  <2>2. interface \in InterfaceNames
    BY <1>7, CommandsTyped DEF CommandInterface, Runs
  <2> HIDE DEF interface
  <2>3. LibStep(c)
    BY <2>1, <2>2 DEF LibStep
  <2>4. UNCHANGED todo /\ driver'.rules = driver.rules
    BY <1>5, <2>1 DEF SetInterface
  <2>5. QED
    BY <1>3, <2>1, <2>3, <2>4
<1>8. CASE CommandDefaultAction(c, code) /\ ~ Refuse(c) /\ ~ \E answers : Answered(c, answers)
  <2> DEFINE action == ActionWords[Args(c)[1].word]
  <2>1. SetDefaultAction(c, action, code) /\ Goes(c, "done", ExitOf(code))
    BY <1>8 DEF CommandDefaultAction
  <2>2. action \in RuleActions
    <3>1. ParsesAction(Args(c)[1])
      BY <1>8 DEF CommandDefaultAction
    <3>2. QED
      BY <3>1 DEF ParsesAction, ActionWords, RuleActions
  <2> HIDE DEF action
  <2>3. LibStep(c)
    BY <2>1, <2>2 DEF LibStep
  <2>4. UNCHANGED todo /\ driver'.rules = driver.rules
    BY <1>5, <2>1 DEF SetDefaultAction
  <2>5. QED
    BY <1>3, <2>1, <2>3, <2>4
<1>9. QED
  BY <1>2, <1>6, <1>7, <1>8

\* The steps of "load", "reload" and "save".
LEMMA FileCommandGoesOn ==
  ASSUME CtlInv, NEW c \in Clients, ctl[c].stage = "dispatch", NEW code,
         \/ CommandLoad(c, code) \/ CommandReload(c, code) \/ CommandSave(c, code)
         \/ LoadAndSave(c, code)
  PROVE  LibStep(c) /\ (Ends(c) \/ GoesOn(c))
<1>1. /\ todo \in [Clients -> Todo] /\ todo[c] \in Todo
      /\ driver \in DriverState
      /\ Accounted(c)
  BY TypeOKIsTyped DEF CtlInv, LibInv, VariablesTyped
<1>2. Idle.op = "none"
  BY IdleIsTodo
<1>3. CASE CommandLoad(c, code) \/ CommandSave(c, code)
  <2>1. AtCall(c) /\ ctl[c].command.name # "reload" /\ todo[c] = Idle
    BY <1>1, <1>3, TodoKinds DEF CommandLoad, CommandSave, Runs, AtCall
  <2>2. CASE Refuse(c)
    BY <2>1, <2>2, RefusedEnds
  <2>3. CASE CommandLoad(c, code) /\ ~ Refuse(c)
    <3> DEFINE f == Args(c)[1].word
    <3>1. LoadRules(c, f, code) /\ Started(c, code)
      BY <2>3 DEF CommandLoad
    <3>2. f \in Files
      BY <2>3, CommandsTyped DEF CommandLoad, Runs
    <3> HIDE DEF f
    <3>3. LibStep(c)
      BY <3>1, <3>2 DEF LibStep
    <3>4. UNCHANGED <<library, driver>>
      BY <3>1 DEF LoadRules
    <3>5. CASE code = "continue"
      <4>1. todo'[c].op = "load"
        BY <1>1, <3>1, <3>5 DEF LoadRules, StartLoad
      <4>2. Goes(c, "dispatch", 0)
        BY <3>1, <3>5 DEF Started
      <4>3. QED
        BY <2>1, <3>3, <3>4, <4>1, <4>2 DEF GoesOn
    <3>6. CASE code # "continue"
      <4>1. todo'[c] = Idle
        BY <1>1, <2>1, <3>1, <3>6 DEF LoadRules, StartLoad
      <4>2. Goes(c, "done", 1)
        BY <3>1, <3>6 DEF Started
      <4>3. QED
        BY <1>2, <2>1, <3>3, <3>4, <4>1, <4>2 DEF Ends
    <3>7. QED
      BY <3>5, <3>6
  <2>4. CASE CommandSave(c, code) /\ ~ Refuse(c)
    <3> DEFINE f == Args(c)[1].word
    <3>1. SaveRules(c, f, code) /\ Started(c, code)
      BY <2>4 DEF CommandSave
    <3>2. f \in Files
      BY <2>4, CommandsTyped DEF CommandSave, Runs
    <3> HIDE DEF f
    <3>3. LibStep(c)
      BY <3>1, <3>2 DEF LibStep
    <3>4. UNCHANGED <<library, driver>>
      BY <3>1 DEF SaveRules
    <3>5. CASE code = "continue"
      <4>1. todo'[c].op = "save"
        BY <1>1, <3>1, <3>5 DEF SaveRules
      <4>2. Goes(c, "dispatch", 0)
        BY <3>1, <3>5 DEF Started
      <4>3. ~ ctl[c].changed
        BY <1>1, <1>2, <2>1 DEF Accounted
      <4>4. QED
        BY <3>3, <3>4, <4>1, <4>2, <4>3 DEF GoesOn
    <3>6. CASE code # "continue"
      <4>1. todo'[c] = Idle
        BY <2>1, <3>1, <3>6 DEF SaveRules
      <4>2. Goes(c, "done", 1)
        BY <3>1, <3>6 DEF Started
      <4>3. QED
        BY <1>2, <2>1, <3>3, <3>4, <4>1, <4>2 DEF Ends
    <3>7. QED
      BY <3>5, <3>6
  <2>5. QED
    BY <1>3, <2>2, <2>3, <2>4
<1>4. CASE CommandReload(c, code)
  <2>1. /\ ctl[c].command.name = "reload" /\ todo[c] = Idle
        /\ ReloadRules(c, code) /\ Started(c, code)
    BY <1>1, <1>4, TodoKinds DEF CommandReload, Runs, AtCall
  <2>2. LibStep(c)
    BY <2>1 DEF LibStep
  <2>3. CASE code = "continue"
    <3>1. Goes(c, "dispatch", 0) /\ UNCHANGED library
      BY <2>1, <2>3 DEF Started, ReloadRules
    <3>2. QED
      BY <2>1, <2>2, <3>1 DEF GoesOn
  <2>4. CASE code # "continue"
    <3>1. Goes(c, "done", 1) /\ todo'[c] = Idle
      BY <2>1, <2>4 DEF Started, ReloadRules
    <3>2. QED
      BY <2>1, <2>2, <3>1 DEF Ends
  <2>5. QED
    BY <2>3, <2>4
<1>5. CASE LoadAgain(c, code) /\ Started(c, code)
  <2>1. ctl[c].command.name = "reload" /\ todo[c].op = "reload"
    BY <1>1, <1>5 DEF LoadAgain, Accounted
  <2>2. LibStep(c)
    BY <1>5 DEF LibStep
  <2>3. CASE code = "continue"
    <3>1. Goes(c, "dispatch", 0) /\ UNCHANGED library
      BY <1>5, <2>3 DEF Started, LoadAgain
    <3>2. QED
      BY <2>1, <2>2, <3>1 DEF GoesOn
  <2>4. CASE code # "continue"
    <3>1. Goes(c, "done", 1) /\ todo'[c] = Idle
      BY <1>1, <1>5, <2>4 DEF Started, LoadAgain, StartLoad
    <3>2. QED
      BY <2>1, <2>2, <3>1 DEF Ends
  <2>5. QED
    BY <2>3, <2>4
<1>6. CASE SaveGet(c, code) /\ Started(c, code)
  <2>1. todo[c].op = "save" /\ UNCHANGED <<library, driver>>
    BY <1>6 DEF SaveGet
  <2>2. LibStep(c)
    BY <1>6 DEF LibStep
  <2>3. CASE code = "continue"
    <3>1. Goes(c, "dispatch", 0)
      BY <1>6, <2>3 DEF Started
    <3>2. todo'[c].op # "reload"
      <4>1. todo' = [todo EXCEPT ![c] = Idle]
            \/ \E rules : todo' = [todo EXCEPT ![c] =
                 [op |-> "write", file |-> todo[c].file, rules |-> rules,
                  at |-> 1, row |-> 1]]
        BY <1>6 DEF SaveGet
      <4>2. QED
        BY <1>1, <1>2, <4>1
    <3>3. ctl[c].command.name # "reload" => ~ ctl[c].changed
      BY <1>1, <2>1 DEF Accounted
    <3>4. QED
      BY <2>1, <2>2, <3>1, <3>2, <3>3 DEF GoesOn
  <2>4. CASE code # "continue"
    <3>1. Goes(c, "done", 1) /\ todo'[c] = Idle
      BY <1>1, <1>6, <2>4 DEF Started, SaveGet
    <3>2. QED
      BY <2>1, <2>2, <3>1 DEF Ends
  <2>5. QED
    BY <2>3, <2>4
<1>7. CASE (FillBuffer(c) \/ LoadLine(c)) /\ Goes(c, "dispatch", 0)
  <2>1. LibStep(c)
    BY <1>7 DEF LibStep, Proceed
  <2>2. todo[c].op = "load" /\ UNCHANGED library
    BY <1>7 DEF FillBuffer, LoadLine, Reading
  <2>3. todo'[c].op = "load"
    <3>1. todo[c] \in LoadRecord
      BY <1>1, <2>2, TodoKinds
    <3>2. QED
      BY <1>1, <1>7, <2>2, <3>1 DEF FillBuffer, LoadLine, LoadRecord
  <2>4. QED
    BY <1>7, <2>1, <2>2, <2>3 DEF GoesOn
<1>8. CASE (EndLoad(c) \/ EndSave(c)) /\ Goes(c, "done", 0)
  <2>1. LibStep(c)
    BY <1>8 DEF LibStep, Proceed
  <2>2. todo'[c] = Idle
    BY <1>1, <1>8 DEF EndLoad, EndSave
  <2>3. QED
    BY <1>8, <2>1, <2>2 DEF Ends
<1>9. CASE SaveLine(c) /\ Goes(c, "dispatch", 0)
  <2>1. LibStep(c)
    BY <1>9 DEF LibStep, Proceed
  <2>2. todo[c].op = "write" /\ UNCHANGED <<library, driver>>
    BY <1>9 DEF SaveLine, Saving
  <2>3. todo'[c].op = "write"
    <3>1. todo[c] \in WriteRecord
      BY <1>1, <2>2, TodoKinds
    <3>2. QED
      BY <1>1, <1>9, <2>2, <3>1 DEF SaveLine, WriteRecord
  <2>4. ctl[c].command.name # "reload" => ~ ctl[c].changed
    BY <1>1, <1>9, <2>2 DEF Accounted
  <2>5. QED
    BY <1>9, <2>1, <2>2, <2>3, <2>4 DEF GoesOn
<1>10. QED
  BY <1>3, <1>4, <1>5, <1>6, <1>7, <1>8, <1>9 DEF LoadAndSave

\* The entries of processes that main has begun.
Begun(c) ==
  [stage : {"dispatch", "done"}, command : Commands[c], status : {0, 1}, changed : {FALSE}]

\* main, up to the dispatch of the command.
LEMMA MainKeeps ==
  ASSUME CtlInv, NEW c \in Clients, Main(c)
  PROVE  /\ LibStep(c)
         /\ todo'[c] = Idle
         /\ \E entry \in Begun(c) :
              /\ ctl' = [ctl EXCEPT ![c] = entry]
              /\ entry.stage = "dispatch" => library'[c].initialized
<1>1. /\ todo[c] \in Todo /\ library \in [Clients -> LibraryState]
      /\ ctl[c].stage = "none" /\ library[c] = Fresh
  BY TypeOKIsTyped DEF CtlInv, CtlTypeOK, LibInv, VariablesTyped, Main
<1>2. todo[c] = Idle
  BY <1>1 DEF CtlInv, CtlTypeOK
<1>3. ASSUME NEW command \in Commands[c], NEW stage \in {"dispatch", "done"},
             NEW status \in {0, 1}
      PROVE  LET entry == [NotRunning EXCEPT !.command = command, !.status = status,
                                             !.stage = stage]
             IN  entry \in Begun(c) /\ entry.stage = stage
  BY DEF NotRunning, Begun
<1>4. PICK command \in Commands[c] :
        \/ /\ command = NoCommand
           /\ ctl' = [ctl EXCEPT ![c] = [NotRunning EXCEPT !.stage = "done", !.status = 1]]
           /\ UNCHANGED <<supported, library, driver, file, todo, owner>>
        \/ /\ command # NoCommand
           /\ \E code \in {"SUCCESS", "DEVICE_ERROR"} :
                /\ InitLibrary(c, code)
                /\ ctl' = [ctl EXCEPT ![c] =
                     [NotRunning EXCEPT !.command = command, !.status = ExitOf(code),
                        !.stage = IF code = "SUCCESS" THEN "dispatch" ELSE "done"]]
  BY DEF Main
<1>5. CASE /\ command = NoCommand
           /\ ctl' = [ctl EXCEPT ![c] = [NotRunning EXCEPT !.stage = "done", !.status = 1]]
           /\ UNCHANGED <<supported, library, driver, file, todo, owner>>
  <2> DEFINE entry == [NotRunning EXCEPT !.stage = "done", !.status = 1]
  <2>1. entry \in Begun(c) /\ entry.stage = "done"
    BY <1>5 DEF NotRunning, Begun
  <2>2. ctl' = [ctl EXCEPT ![c] = entry]
    BY <1>5
  <2> HIDE DEF entry
  <2>3. LibStep(c)
    BY <1>5 DEF LibStep
  <2>4. QED
    BY <1>2, <1>5, <2>1, <2>2, <2>3
<1>6. ASSUME NEW code \in {"SUCCESS", "DEVICE_ERROR"},
             InitLibrary(c, code),
             ctl' = [ctl EXCEPT ![c] =
               [NotRunning EXCEPT !.command = command, !.status = ExitOf(code),
                  !.stage = IF code = "SUCCESS" THEN "dispatch" ELSE "done"]]
      PROVE  /\ LibStep(c)
             /\ todo'[c] = Idle
             /\ \E entry \in Begun(c) :
                  /\ ctl' = [ctl EXCEPT ![c] = entry]
                  /\ entry.stage = "dispatch" => library'[c].initialized
  <2> DEFINE stage  == IF code = "SUCCESS" THEN "dispatch" ELSE "done"
             status == ExitOf(code)
  <2>1. stage \in {"dispatch", "done"} /\ status \in {0, 1}
    BY DEF ExitOf
  <2> DEFINE entry == [NotRunning EXCEPT !.command = command, !.status = status,
                                         !.stage = stage]
  <2>2. ctl' = [ctl EXCEPT ![c] = entry] /\ entry \in Begun(c) /\ entry.stage = stage
    <3>1. ctl' = [ctl EXCEPT ![c] = entry]
      BY <1>6
    <3> HIDE DEF status, stage
    <3>2. QED
      BY <1>3, <2>1, <3>1
  <2>3. ASSUME stage = "dispatch" PROVE library'[c].initialized
    <3> DEFINE configured == [library[c] EXCEPT !.interface = library[c].interface,
                                                !.rule_file = library[c].rule_file]
    <3>1. code = "SUCCESS" /\ ~ library[c].initialized
      BY <1>1, <2>3 DEF Fresh
    <3>2. library' = [library EXCEPT ![c] =
                        [configured EXCEPT !.open = TRUE, !.initialized = TRUE]]
      BY <1>6, <3>1 DEF InitLibrary, InitWithConfig
    <3>3. configured \in LibraryState
      BY <1>1 DEF LibraryState
    <3> HIDE DEF configured
    <3>4. QED
      BY <1>1, <3>2, <3>3 DEF LibraryState
  <2>4. LibStep(c)
    <3>1. library[c].interface \in InterfaceNames /\ library[c].rule_file \in Files
      BY <1>1 DEF LibraryState
    <3>2. QED
      BY <1>6, <3>1 DEF InitLibrary, LibStep
  <2>5. todo'[c] = Idle
    BY <1>2, <1>6 DEF InitLibrary, InitWithConfig
  <2> HIDE DEF stage, status, entry
  <2>6. QED
    BY <2>1, <2>2, <2>3, <2>4, <2>5
<1>7. CASE \E code \in {"SUCCESS", "DEVICE_ERROR"} :
             /\ InitLibrary(c, code)
             /\ ctl' = [ctl EXCEPT ![c] =
                  [NotRunning EXCEPT !.command = command, !.status = ExitOf(code),
                     !.stage = IF code = "SUCCESS" THEN "dispatch" ELSE "done"]]
  BY <1>6, <1>7
<1>8. QED
  BY <1>4, <1>5, <1>7

\* What a process does.
CtlStep(c) ==
  \/ Main(c)
  \/ ctl[c].stage = "dispatch" /\ Dispatch(c)
  \/ Return(c)
  \/ Kill(c)

\* It is a step of the library.
LEMMA CtlStepIsLibStep ==
  ASSUME CtlInv, NEW c \in Clients, CtlStep(c)
  PROVE  LibStep(c)
<1>1. CASE Main(c)
  BY <1>1, MainKeeps
<1>2. CASE ctl[c].stage = "dispatch" /\ Dispatch(c)
  BY <1>2, AskEnds, RuleCommandEnds, SettingCommandEnds, FileCommandGoesOn DEF Dispatch
<1>3. CASE Return(c) \/ Kill(c)
  BY <1>3 DEF Return, Kill, Gone, LibStep
<1>4. QED
  BY <1>1, <1>2, <1>3 DEF CtlStep

\* What CtlTypeOK says of one process.
CtlTyped(c) ==
  /\ ctl[c] \in [stage : {"none", "dispatch", "done"},
                 command : Commands[c] \cup {NoCommand}, status : {0, 1},
                 changed : BOOLEAN]
  /\ ctl[c].stage = "none" => library[c] = Fresh
  /\ ctl[c].stage = "dispatch" => library[c].initialized
  /\ todo[c] # Idle => ctl[c].stage = "dispatch"

\* Goes writes one entry.
LEMMA GoesTyped ==
  ASSUME CtlInv, NEW c \in Clients, NEW stage \in {"dispatch", "done"}, NEW status \in {0, 1},
         Goes(c, stage, status)
  PROVE  /\ ctl' = [d \in Clients |-> ctl'[d]]
         /\ \A d \in Clients : d # c => ctl'[d] = ctl[d]
         /\ ctl'[c] \in [stage : {"none", "dispatch", "done"},
                         command : Commands[c] \cup {NoCommand}, status : {0, 1},
                         changed : BOOLEAN]
         /\ ctl'[c].stage = stage /\ ctl'[c].status = status
         /\ ctl'[c].command = ctl[c].command
         /\ ctl'[c].changed = (ctl[c].changed \/ driver'.rules # driver.rules)
<1>1. /\ ctl = [d \in Clients |-> ctl[d]]
      /\ ctl[c] \in [stage : {"none", "dispatch", "done"},
                     command : Commands[c] \cup {NoCommand}, status : {0, 1},
                     changed : BOOLEAN]
  BY DEF CtlInv, CtlTypeOK
<1>2. ctl' = [ctl EXCEPT ![c].stage = stage, ![c].status = status,
                         ![c].changed = @ \/ driver'.rules # driver.rules]
  BY DEF Goes
<1> DEFINE entry == [ctl[c] EXCEPT !.stage = stage, !.status = status,
                                   !.changed = ctl[c].changed \/ driver'.rules # driver.rules]
<1>3. ctl'[c] = entry /\ \A d \in Clients : d # c => ctl'[d] = ctl[d]
  BY <1>1, <1>2
<1>4. ctl' = [d \in Clients |-> ctl'[d]]
  BY <1>1, <1>2
<1>5. QED
  BY <1>1, <1>3, <1>4

\* The process that does a step stays accounted for.
LEMMA OwnStepKeeps ==
  ASSUME CtlInv, LibInv', NEW c \in Clients, CtlStep(c)
  PROVE  /\ ctl' = [d \in Clients |-> ctl'[d]]
         /\ \A d \in Clients : d # c => ctl'[d] = ctl[d]
         /\ CtlTyped(c)' /\ Accounted(c)'
<1>1. /\ ctl = [d \in Clients |-> ctl[d]]
      /\ todo \in [Clients -> Todo] /\ todo' \in [Clients -> Todo]
      /\ library \in [Clients -> LibraryState]
      /\ CtlTyped(c) /\ Accounted(c)
      /\ Idle.op = "none"
  <2>1. ctl = [d \in Clients |-> ctl[d]] /\ CtlTyped(c) /\ Accounted(c)
    BY DEF CtlInv, CtlTypeOK, CtlTyped
  <2>2. todo \in [Clients -> Todo] /\ library \in [Clients -> LibraryState]
    BY TypeOKIsTyped DEF CtlInv, LibInv, VariablesTyped
  <2>3. todo' \in [Clients -> Todo]
    BY DEF LibInv, TypeOK
  <2>4. QED
    BY <2>1, <2>2, <2>3, IdleIsTodo
<1>2. CASE Main(c)
  <2>1. PICK entry \in Begun(c) :
          /\ ctl' = [ctl EXCEPT ![c] = entry]
          /\ entry.stage = "dispatch" => library'[c].initialized
    BY <1>2, MainKeeps
  <2>2. todo'[c] = Idle
    BY <1>2, MainKeeps
  <2>3. ctl'[c] = entry /\ ctl'[c].changed = FALSE
    BY <1>1, <2>1 DEF Begun
  <2>4. /\ ctl' = [d \in Clients |-> ctl'[d]]
        /\ \A d \in Clients : d # c => ctl'[d] = ctl[d]
    BY <1>1, <2>1
  <2>5. CtlTyped(c)'
    <3>1. ctl'[c] \in [stage : {"none", "dispatch", "done"},
                       command : Commands[c] \cup {NoCommand}, status : {0, 1},
                       changed : BOOLEAN]
      BY <2>1, <2>3 DEF Begun
    <3>2. ctl'[c].stage # "none" /\ (ctl'[c].stage = "dispatch" => library'[c].initialized)
      BY <2>1, <2>3 DEF Begun
    <3>3. QED
      BY <2>2, <3>1, <3>2 DEF CtlTyped
  <2>6. Accounted(c)'
    BY <1>1, <2>2, <2>3 DEF Accounted
  <2>7. QED
    BY <2>4, <2>5, <2>6
<1>3. CASE ctl[c].stage = "dispatch" /\ Ends(c)
  <2>1. PICK status \in {0, 1} :
          /\ Goes(c, "done", status)
          /\ todo'[c] = Idle
          /\ status = 1 /\ ctl[c].command.name # "reload" =>
               driver'.rules = driver.rules /\ todo[c].op # "load"
    BY <1>3 DEF Ends
  <2>2. /\ ctl' = [d \in Clients |-> ctl'[d]]
        /\ \A d \in Clients : d # c => ctl'[d] = ctl[d]
        /\ ctl'[c] \in [stage : {"none", "dispatch", "done"},
                        command : Commands[c] \cup {NoCommand}, status : {0, 1},
                        changed : BOOLEAN]
        /\ ctl'[c].stage = "done" /\ ctl'[c].status = status
        /\ ctl'[c].command = ctl[c].command
        /\ ctl'[c].changed = (ctl[c].changed \/ driver'.rules # driver.rules)
    BY <2>1, GoesTyped
  <2>3. CtlTyped(c)'
    BY <2>1, <2>2 DEF CtlTyped
  <2>4. Accounted(c)'
    BY <1>1, <1>3, <2>1, <2>2 DEF Accounted
  <2>5. QED
    BY <2>2, <2>3, <2>4
<1>4. CASE ctl[c].stage = "dispatch" /\ GoesOn(c)
  <2>1. /\ Goes(c, "dispatch", 0)
        /\ library' = library
        /\ todo'[c].op = "reload" => ctl[c].command.name = "reload"
        /\ ctl[c].command.name # "reload" /\ (ctl[c].changed \/ driver'.rules # driver.rules) =>
             todo'[c].op = "load"
    BY <1>4 DEF GoesOn
  <2>2. /\ ctl' = [d \in Clients |-> ctl'[d]]
        /\ \A d \in Clients : d # c => ctl'[d] = ctl[d]
        /\ ctl'[c] \in [stage : {"none", "dispatch", "done"},
                        command : Commands[c] \cup {NoCommand}, status : {0, 1},
                        changed : BOOLEAN]
        /\ ctl'[c].stage = "dispatch" /\ ctl'[c].status = 0
        /\ ctl'[c].command = ctl[c].command
        /\ ctl'[c].changed = (ctl[c].changed \/ driver'.rules # driver.rules)
    BY <2>1, GoesTyped
  <2>3. CtlTyped(c)'
    BY <1>1, <1>4, <2>1, <2>2 DEF CtlTyped
  <2>4. Accounted(c)'
    BY <2>1, <2>2 DEF Accounted
  <2>5. QED
    BY <2>2, <2>3, <2>4
<1>5. CASE Return(c) \/ Kill(c)
  <2>1. Die(c) /\ ctl' = [ctl EXCEPT ![c] = NotRunning]
    BY <1>5 DEF Return, Kill, Gone
  <2>2. library'[c] = Fresh /\ todo'[c] = Idle
    BY <1>1, <2>1 DEF Die
  <2>3. /\ ctl'[c] = NotRunning
        /\ ctl' = [d \in Clients |-> ctl'[d]]
        /\ \A d \in Clients : d # c => ctl'[d] = ctl[d]
    BY <1>1, <2>1
  <2>4. CtlTyped(c)'
    BY <2>2, <2>3 DEF CtlTyped, NotRunning
  <2>5. Accounted(c)'
    BY <1>1, <2>2, <2>3 DEF Accounted, NotRunning
  <2>6. QED
    BY <2>3, <2>4, <2>5
<1>6. CASE ctl[c].stage = "dispatch" /\ Dispatch(c)
  <2>1. Ends(c) \/ GoesOn(c)
    BY <1>6, AskEnds, RuleCommandEnds, SettingCommandEnds, FileCommandGoesOn DEF Dispatch
  <2>2. QED
    BY <1>3, <1>4, <1>6, <2>1
<1>7. QED
  BY <1>2, <1>5, <1>6 DEF CtlStep

\* A step of the command line tool keeps its invariant.
LEMMA CtlStepKeeps ==
  ASSUME CtlInv, NEW c \in Clients, CtlStep(c), Disturb({c})
  PROVE  CtlInv'
<1>1. LibStep(c)
  BY CtlStepIsLibStep
<1>2. LibInv'
  BY <1>1, LibStepKeeps DEF CtlInv
<1>3. /\ ctl' = [d \in Clients |-> ctl'[d]]
      /\ \A d \in Clients : d # c => ctl'[d] = ctl[d]
      /\ CtlTyped(c)' /\ Accounted(c)'
  BY <1>2, OwnStepKeeps
<1>4. ASSUME NEW d \in Clients, d # c PROVE CtlTyped(d)' /\ Accounted(d)'
  <2>1. todo'[d] = todo[d] /\ library'[d] = library[d]
    BY <1>1, <1>4, OthersStay DEF CtlInv
  <2>2. ctl'[d] = ctl[d]
    BY <1>3, <1>4
  <2>3. CtlTyped(d) /\ Accounted(d)
    BY DEF CtlInv, CtlTypeOK, CtlTyped
  <2>4. QED
    BY <2>1, <2>2, <2>3 DEF CtlTyped, Accounted
<1>5. \A d \in Clients : CtlTyped(d)' /\ Accounted(d)'
  BY <1>3, <1>4
<1>6. QED
  BY <1>2, <1>3, <1>5 DEF CtlInv, CtlTypeOK, CtlTyped, LibInv

\* A process of the tool does nothing else, and the module may be loaded anew.
LEMMA CtlNextIsStep ==
  ASSUME CtlNext
  PROVE  \/ \E c \in Clients : CtlStep(c) /\ Disturb({c})
         \/ Restart /\ UNCHANGED ctl /\ Disturb({})
BY DEF CtlNext, CtlStep

\* The invariant of the command line tool.
LEMMA CtlInvariant == CtlSpec => []CtlInv
<1>1. CtlInit => CtlInv
  <2> SUFFICES ASSUME CtlInit PROVE CtlInv
    OBVIOUS
  <2>1. LibInv
    BY InitIsLibInv DEF CtlInit
  <2>2. /\ ctl = [c \in Clients |-> NotRunning]
        /\ \A c \in Clients : library[c] = Fresh /\ todo[c] = Idle
    BY DEF CtlInit, Init
  <2>3. \A c \in Clients : CtlTyped(c) /\ Accounted(c)
    BY <2>2 DEF CtlTyped, Accounted, NotRunning, Idle
  <2>4. QED
    BY <2>1, <2>2, <2>3 DEF CtlInv, CtlTypeOK, CtlTyped, LibInv
<1>2. CtlInv /\ [CtlNext]_ctlVars => CtlInv'
  <2> SUFFICES ASSUME CtlInv, [CtlNext]_ctlVars PROVE CtlInv'
    OBVIOUS
  <2>1. CASE \E c \in Clients : CtlStep(c) /\ Disturb({c})
    BY <2>1, CtlStepKeeps
  <2>2. CASE Restart /\ UNCHANGED ctl /\ Disturb({})
    <3>1. LibInv'
      BY <2>2, RestartKeeps DEF CtlInv
    <3>2. UNCHANGED <<library, todo, ctl>>
      BY <2>2 DEF Restart
    <3>3. QED
      BY <3>1, <3>2 DEF CtlInv, CtlTypeOK, Accounted, LibInv
  <2>3. CASE UNCHANGED ctlVars
    <3>1. UNCHANGED vars /\ UNCHANGED ctl
      BY <2>3 DEF ctlVars
    <3>2. LibInv'
      BY <3>1, StutterKeeps DEF CtlInv
    <3>3. UNCHANGED <<library, todo, ctl>>
      BY <3>1 DEF vars
    <3>4. QED
      BY <3>2, <3>3 DEF CtlInv, CtlTypeOK, Accounted, LibInv
  <2>4. QED
    BY <2>1, <2>2, <2>3, CtlNextIsStep
<1>3. QED
  BY <1>1, <1>2, PTL DEF CtlSpec

-----------------------------------------------------------------------------
(* What is proved of the command line tool.                                *)

\* The state of every process is one main can be in: none without a command,
\* an initialised library while a command runs, nothing left over after it.
THEOREM CtlTypesHold == CtlSpec => []CtlTypeOK
<1>1. CtlInv => CtlTypeOK
  BY DEF CtlInv
<1>2. QED
  BY <1>1, CtlInvariant, PTL

\* A command that exits with 1, and is no "reload", changed no rules.
THEOREM FailuresHold == CtlSpec => []FailureChangesNothing
<1>1. CtlInv => FailureChangesNothing
  BY DEF CtlInv, Accounted, FailureChangesNothing, CtlTypeOK, Idle
<1>2. QED
  BY <1>1, CtlInvariant, PTL

\* With any command lines in any order, and any number of processes, too, a
\* load nobody meddles with is exact ...
THEOREM CtlLoadHolds == CtlSpec => []LoadIsExact
<1>1. CtlInv => LoadIsExact
  BY InvIsExact DEF CtlInv
<1>2. QED
  BY <1>1, CtlInvariant, PTL

\* ... and a save leaves a file that loads again.
THEOREM CtlSaveHolds == CtlSpec => SaveCanBeLoaded
<1>1. CtlInv /\ [CtlNext]_ctlVars => [\A c \in Clients : SavedWell(c)]_vars
  <2> SUFFICES ASSUME CtlInv, [CtlNext]_ctlVars
               PROVE  UNCHANGED vars \/ \A c \in Clients : SavedWell(c)
    OBVIOUS
  <2>1. CASE \E c \in Clients : CtlStep(c) /\ Disturb({c})
    BY <2>1, CtlStepIsLibStep, StepSavesWell DEF CtlInv
  <2>2. CASE Restart
    BY <2>2, IdleIsTodo DEF Restart, SavedWell, Leaves
  <2>3. CASE UNCHANGED ctlVars
    BY <2>3 DEF ctlVars
  <2>4. QED
    BY <2>1, <2>2, <2>3, CtlNextIsStep
<1>2. CtlSpec => [][\A c \in Clients : SavedWell(c)]_vars
  BY <1>1, CtlInvariant, PTL DEF CtlSpec
<1>3. QED
  BY <1>2 DEF SaveCanBeLoaded, SavedWell

\* The settings agree with the driver under the tool as well.
THEOREM CtlSettingsHold == CtlSpec => []SettingsAgree
<1>1. CtlInv => SettingsAgree
  BY DEF CtlInv, LibInv
<1>2. QED
  BY <1>1, CtlInvariant, PTL

=============================================================================
