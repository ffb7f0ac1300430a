----------------------------- MODULE ListLemmas -----------------------------
(* What the list operations of the kernel modules return, element by       *)
(* element.                                                                *)
EXTENDS Lists, FiniteSetTheorems, SequenceTheorems, WellFoundedInduction, TLAPS

\* A non-empty set of natural numbers has a least element.
LEMMA LeastElement ==
  ASSUME NEW T \in SUBSET Nat, T # {}
  PROVE  \E x \in T : \A y \in T : x <= y
<1>1. IsWellFoundedOn(OpToRel(<, Nat), Nat)
  BY NatLessThanWellFounded
<1>2. PICK x \in T : \A y \in T : ~ (<<y, x>> \in OpToRel(<, Nat))
  BY <1>1, WFMin
<1>3. \A y \in T : ~ (y < x)
  BY <1>2 DEF OpToRel
<1>4. \A y \in T : x <= y
  BY <1>3
<1>5. QED
  BY <1>4

\* The positions of a list of n nodes are finite in number, and there are n.
LEMMA PositionsAreCounted ==
  ASSUME NEW n \in Nat
  PROVE  IsFiniteSet(1 .. n) /\ Cardinality(1 .. n) = n
<1>1. /\ IsFiniteSet(1 .. n)
      /\ Cardinality(1 .. n) = IF 1 > n THEN 0 ELSE n - 1 + 1
  <2>1. 1 \in Int /\ n \in Int
    OBVIOUS
  <2>2. QED
    BY <2>1, FS_Interval
<1>2. (IF 1 > n THEN 0 ELSE n - 1 + 1) = n
  OBVIOUS
<1>3. QED
  BY <1>1, <1>2

\* The list after list_add_tail of a node at position i.
LEMMA InsertAtProperties ==
  ASSUME NEW S, NEW s \in Seq(S), NEW i \in 1 .. Len(s) + 1, NEW e \in S
  PROVE  /\ InsertAt(s, i, e) \in Seq(S)
         /\ Len(InsertAt(s, i, e)) = Len(s) + 1
         /\ \A k \in 1 .. Len(s) + 1 :
              InsertAt(s, i, e)[k] = IF k < i THEN s[k]
                                     ELSE IF k = i THEN e ELSE s[k - 1]
<1> DEFINE before == SubSeq(s, 1, i - 1)
           middle == <<e>>
           after  == SubSeq(s, i, Len(s))
<1>0. Len(s) \in Nat /\ i \in Int
  BY LenProperties
<1>1. /\ before \in Seq(S)
      /\ Len(before) = i - 1
      /\ \A k \in 1 .. i - 1 : before[k] = s[k]
  <2>1. \A k \in 1 .. i - 1 : s[k] \in S
    BY <1>0, ElementOfSeq
  <2>2. QED
    BY <1>0, <2>1, SubSeqProperties
<1>2. /\ after \in Seq(S)
      /\ Len(after) = Len(s) - i + 1
      /\ \A k \in 1 .. Len(s) - i + 1 : after[k] = s[i + k - 1]
  <2>1. \A k \in i .. Len(s) : s[k] \in S
    BY <1>0, ElementOfSeq
  <2>2. QED
    BY <1>0, <2>1, SubSeqProperties
<1>3. middle \in Seq(S) /\ Len(middle) = 1 /\ middle[1] = e
  OBVIOUS
<1> HIDE DEF before, middle, after
<1>4. /\ before \o middle \in Seq(S)
      /\ Len(before \o middle) = i
      /\ \A k \in 1 .. i : (before \o middle)[k] = IF k < i THEN s[k] ELSE e
  <2>1. /\ before \o middle \in Seq(S)
        /\ Len(before \o middle) = Len(before) + Len(middle)
        /\ \A k \in 1 .. Len(before) + Len(middle) : (before \o middle)[k] =
              IF k <= Len(before) THEN before[k] ELSE middle[k - Len(before)]
    BY <1>1, <1>3, ConcatProperties
  <2>2. QED
    BY <1>0, <1>1, <1>3, <2>1
<1>5. /\ (before \o middle) \o after \in Seq(S)
      /\ Len((before \o middle) \o after) = Len(s) + 1
      /\ \A k \in 1 .. Len(s) + 1 :
           ((before \o middle) \o after)[k] =
             IF k <= i THEN (before \o middle)[k] ELSE after[k - i]
  <2> DEFINE front == before \o middle
  <2> HIDE DEF front
  <2>1. /\ front \o after \in Seq(S)
        /\ Len(front \o after) = Len(front) + Len(after)
        /\ \A k \in 1 .. Len(front) + Len(after) : (front \o after)[k] =
              IF k <= Len(front) THEN front[k] ELSE after[k - Len(front)]
    <3>1. front \in Seq(S)
      BY <1>4 DEF front
    <3>2. QED
      BY <1>2, <3>1, ConcatProperties
  <2>2. Len(front) = i
    BY <1>4 DEF front
  <2>3. Len(front) + Len(after) = Len(s) + 1
    BY <1>0, <1>2, <2>2
  <2>4. QED
    BY <2>1, <2>2, <2>3 DEF front
<1>6. InsertAt(s, i, e) = (before \o middle) \o after
  BY DEF InsertAt, before, middle, after
<1>7. QED
  BY <1>0, <1>2, <1>4, <1>5, <1>6

\* The list after list_del of the node at position i.
LEMMA RemoveAtProperties ==
  ASSUME NEW S, NEW s \in Seq(S), NEW i \in 1 .. Len(s)
  PROVE  /\ RemoveAt(s, i) \in Seq(S)
         /\ Len(RemoveAt(s, i)) = Len(s) - 1
         /\ \A k \in 1 .. Len(s) - 1 :
              RemoveAt(s, i)[k] = IF k < i THEN s[k] ELSE s[k + 1]
<1> DEFINE before == SubSeq(s, 1, i - 1)
           after  == SubSeq(s, i + 1, Len(s))
<1>0. Len(s) \in Nat /\ i \in Int
  BY LenProperties
<1>1. /\ before \in Seq(S)
      /\ Len(before) = i - 1
      /\ \A k \in 1 .. i - 1 : before[k] = s[k]
  <2>1. \A k \in 1 .. i - 1 : s[k] \in S
    BY <1>0, ElementOfSeq
  <2>2. QED
    BY <1>0, <2>1, SubSeqProperties
<1>2. /\ after \in Seq(S)
      /\ Len(after) = Len(s) - i
      /\ \A k \in 1 .. Len(s) - i : after[k] = s[i + k]
  <2>1. \A k \in i + 1 .. Len(s) : s[k] \in S
    BY <1>0, ElementOfSeq
  <2>2. QED
    BY <1>0, <2>1, SubSeqProperties
<1> HIDE DEF before, after
<1>3. /\ before \o after \in Seq(S)
      /\ Len(before \o after) = Len(s) - 1
      /\ \A k \in 1 .. Len(s) - 1 :
           (before \o after)[k] = IF k <= i - 1 THEN before[k] ELSE after[k - (i - 1)]
  <2>1. /\ before \o after \in Seq(S)
        /\ Len(before \o after) = Len(before) + Len(after)
        /\ \A k \in 1 .. Len(before) + Len(after) : (before \o after)[k] =
              IF k <= Len(before) THEN before[k] ELSE after[k - Len(before)]
    BY <1>1, <1>2, ConcatProperties
  <2>2. Len(before) + Len(after) = Len(s) - 1
    BY <1>0, <1>1, <1>2
  <2>3. QED
    BY <1>1, <2>1, <2>2
<1>4. RemoveAt(s, i) = before \o after
  BY DEF RemoveAt, before, after
<1>5. ASSUME NEW k \in 1 .. Len(s) - 1
      PROVE  (before \o after)[k] = IF k < i THEN s[k] ELSE s[k + 1]
  <2>1. CASE k < i
    BY <1>0, <1>1, <1>3, <2>1
  <2>2. CASE ~ (k < i)
    <3>1. k - (i - 1) \in 1 .. Len(s) - i /\ i + (k - (i - 1)) = k + 1
      BY <1>0, <2>2
    <3>2. QED
      BY <1>0, <1>2, <1>3, <2>2, <3>1
  <2>3. QED
    BY <2>1, <2>2
<1>6. QED
  BY <1>3, <1>4, <1>5

-----------------------------------------------------------------------------
(* Elements of lists without repetition.                                   *)

\* The elements of a list, by position.
LEMMA RangeOfList ==
  ASSUME NEW S, NEW s \in Seq(S)
  PROVE  /\ Range(s) = {s[k] : k \in 1 .. Len(s)}
         /\ Range(s) \subseteq S
         /\ DOMAIN s = 1 .. Len(s)
<1>1. DOMAIN s = 1 .. Len(s) /\ \A k \in 1 .. Len(s) : s[k] \in S
  BY LenProperties, ElementOfSeq
<1>2. QED
  BY <1>1 DEF Range

\* The empty list has no elements.
LEMMA EmptyList == Range(<<>>) = {} /\ IsInjective(<<>>) /\ Len(<<>>) = 0
BY DEF Range, IsInjective

\* Adding an element at the tail.
LEMMA AppendElements ==
  ASSUME NEW S, NEW s \in Seq(S), NEW e \in S
  PROVE  /\ Append(s, e) \in Seq(S)
         /\ Len(Append(s, e)) = Len(s) + 1
         /\ \A k \in 1 .. Len(s) + 1 :
              Append(s, e)[k] = IF k <= Len(s) THEN s[k] ELSE e
         /\ Range(Append(s, e)) = Range(s) \cup {e}
         /\ IsInjective(s) /\ e \notin Range(s) => IsInjective(Append(s, e))
<1>0. Len(s) \in Nat
  BY LenProperties
<1> DEFINE r == Append(s, e)
<1>1. /\ r \in Seq(S)
      /\ Len(r) = Len(s) + 1
      /\ \A k \in 1 .. Len(s) + 1 : r[k] = IF k <= Len(s) THEN s[k] ELSE e
  OBVIOUS
<1> HIDE DEF r
<1>2. /\ Range(s) = {s[k] : k \in 1 .. Len(s)} /\ DOMAIN s = 1 .. Len(s)
      /\ Range(r) = {r[k] : k \in 1 .. Len(s) + 1} /\ DOMAIN r = 1 .. Len(s) + 1
  BY <1>1, RangeOfList
<1>3. Range(r) = Range(s) \cup {e}
  <2>1. Range(r) \subseteq Range(s) \cup {e}
    BY <1>0, <1>1, <1>2
  <2>2. Range(s) \subseteq Range(r)
    BY <1>0, <1>1, <1>2
  <2>3. e \in Range(r)
    <3>1. Len(s) + 1 \in 1 .. Len(s) + 1 /\ r[Len(s) + 1] = e
      BY <1>0, <1>1
    <3>2. QED
      BY <1>2, <3>1
  <2>4. QED
    BY <2>1, <2>2, <2>3
<1>4. ASSUME IsInjective(s), e \notin Range(s)
      PROVE  IsInjective(r)
  <2>1. SUFFICES ASSUME NEW a \in 1 .. Len(s) + 1, NEW b \in 1 .. Len(s) + 1,
                        r[a] = r[b]
                 PROVE  a = b
    BY <1>2 DEF IsInjective
  <2>2. CASE a <= Len(s) /\ b <= Len(s)
    BY <1>0, <1>1, <1>2, <1>4, <2>1, <2>2 DEF IsInjective
  <2>3. CASE a = Len(s) + 1 /\ b = Len(s) + 1
    BY <2>3
  <2>4. CASE a <= Len(s) /\ b = Len(s) + 1
    BY <1>0, <1>1, <1>2, <1>4, <2>1, <2>4
  <2>5. CASE a = Len(s) + 1 /\ b <= Len(s)
    BY <1>0, <1>1, <1>2, <1>4, <2>1, <2>5
  <2>6. QED
    BY <1>0, <2>2, <2>3, <2>4, <2>5
<1>5. QED
  BY <1>1, <1>3, <1>4 DEF r

\* Adding an element anywhere.
LEMMA InsertAtElements ==
  ASSUME NEW S, NEW s \in Seq(S), NEW i \in 1 .. Len(s) + 1, NEW e \in S
  PROVE  /\ Range(InsertAt(s, i, e)) = Range(s) \cup {e}
         /\ IsInjective(s) /\ e \notin Range(s) =>
              IsInjective(InsertAt(s, i, e))
<1>0. Len(s) \in Nat /\ i \in Int
  BY LenProperties
<1> DEFINE r == InsertAt(s, i, e)
<1>1. /\ r \in Seq(S)
      /\ Len(r) = Len(s) + 1
      /\ \A k \in 1 .. Len(s) + 1 :
           r[k] = IF k < i THEN s[k] ELSE IF k = i THEN e ELSE s[k - 1]
  BY InsertAtProperties
<1> HIDE DEF r
<1>2. /\ Range(s) = {s[k] : k \in 1 .. Len(s)} /\ DOMAIN s = 1 .. Len(s)
      /\ Range(r) = {r[k] : k \in 1 .. Len(s) + 1} /\ DOMAIN r = 1 .. Len(s) + 1
  BY <1>1, RangeOfList
<1>3. \A k \in 1 .. Len(s) + 1 :
        \/ k < i /\ k \in 1 .. Len(s) /\ r[k] = s[k]
        \/ k = i /\ r[k] = e
        \/ k > i /\ k - 1 \in 1 .. Len(s) /\ r[k] = s[k - 1]
  BY <1>0, <1>1
<1>4. Range(r) = Range(s) \cup {e}
  <2>1. Range(r) \subseteq Range(s) \cup {e}
    BY <1>2, <1>3
  <2>2. ASSUME NEW k \in 1 .. Len(s)
        PROVE  s[k] \in Range(r)
    <3>1. CASE k < i
      <4>1. k \in 1 .. Len(s) + 1 /\ r[k] = s[k]
        BY <1>0, <1>1, <3>1
      <4>2. QED
        BY <1>2, <4>1
    <3>2. CASE ~ (k < i)
      <4>1. k + 1 \in 1 .. Len(s) + 1 /\ r[k + 1] = s[k]
        BY <1>0, <1>1, <3>2
      <4>2. QED
        BY <1>2, <4>1
    <3>3. QED
      BY <3>1, <3>2
  <2>3. e \in Range(r)
    BY <1>0, <1>1, <1>2
  <2>4. QED
    BY <1>2, <2>1, <2>2, <2>3
<1>5. ASSUME IsInjective(s), e \notin Range(s)
      PROVE  IsInjective(r)
  <2>1. SUFFICES ASSUME NEW a \in 1 .. Len(s) + 1, NEW b \in 1 .. Len(s) + 1,
                        r[a] = r[b]
                 PROVE  a = b
    BY <1>2 DEF IsInjective
  <2>2. \A k, l \in 1 .. Len(s) : s[k] = s[l] => k = l
    BY <1>2, <1>5 DEF IsInjective
  <2>3. \A k \in 1 .. Len(s) : s[k] # e
    BY <1>2, <1>5
  <2>4. CASE r[a] = e
    BY <1>3, <2>1, <2>3, <2>4
  <2>5. CASE r[a] # e
    BY <1>0, <1>3, <2>1, <2>2, <2>5
  <2>6. QED
    BY <2>4, <2>5
<1>6. QED
  BY <1>4, <1>5 DEF r

\* Removing the element at a position.
LEMMA RemoveAtElements ==
  ASSUME NEW S, NEW s \in Seq(S), NEW i \in 1 .. Len(s), IsInjective(s)
  PROVE  /\ Range(RemoveAt(s, i)) = Range(s) \ {s[i]}
         /\ IsInjective(RemoveAt(s, i))
<1>0. Len(s) \in Nat /\ i \in Int
  BY LenProperties
<1> DEFINE r == RemoveAt(s, i)
<1>1. /\ r \in Seq(S)
      /\ Len(r) = Len(s) - 1
      /\ \A k \in 1 .. Len(s) - 1 : r[k] = IF k < i THEN s[k] ELSE s[k + 1]
  BY RemoveAtProperties
<1> HIDE DEF r
<1>2. /\ Range(s) = {s[k] : k \in 1 .. Len(s)} /\ DOMAIN s = 1 .. Len(s)
      /\ Range(r) = {r[k] : k \in 1 .. Len(s) - 1} /\ DOMAIN r = 1 .. Len(s) - 1
  BY <1>1, RangeOfList
<1>3. \A k, l \in 1 .. Len(s) : s[k] = s[l] => k = l
  BY <1>2 DEF IsInjective
<1>4. \A k \in 1 .. Len(s) - 1 :
        \/ k < i /\ k \in 1 .. Len(s) /\ r[k] = s[k]
        \/ k >= i /\ k + 1 \in 1 .. Len(s) /\ r[k] = s[k + 1]
  BY <1>0, <1>1
<1>5. Range(r) = Range(s) \ {s[i]}
  <2>1. Range(r) \subseteq Range(s)
    BY <1>2, <1>4
  <2>2. s[i] \notin Range(r)
    <3>1. ASSUME NEW k \in 1 .. Len(s) - 1
          PROVE  r[k] # s[i]
      BY <1>0, <1>3, <1>4
    <3>2. QED
      BY <1>2, <3>1
  <2>3. ASSUME NEW k \in 1 .. Len(s), k # i
        PROVE  s[k] \in Range(r)
    <3>1. CASE k < i
      <4>1. k \in 1 .. Len(s) - 1 /\ r[k] = s[k]
        BY <1>0, <1>1, <3>1
      <4>2. QED
        BY <1>2, <4>1
    <3>2. CASE k > i
      <4>1. k - 1 \in 1 .. Len(s) - 1 /\ r[k - 1] = s[k]
        BY <1>0, <1>1, <3>2
      <4>2. QED
        BY <1>2, <4>1
    <3>3. QED
      BY <1>0, <2>3, <3>1, <3>2
  <2>4. QED
    BY <1>2, <2>1, <2>2, <2>3
<1>6. IsInjective(r)
  <2>1. SUFFICES ASSUME NEW a \in 1 .. Len(s) - 1, NEW b \in 1 .. Len(s) - 1,
                        r[a] = r[b]
                 PROVE  a = b
    BY <1>2 DEF IsInjective
  <2>2. QED
    BY <1>0, <1>3, <1>4, <2>1
<1>7. QED
  BY <1>5, <1>6 DEF r

\* Taking the first element off.
LEMMA TailElements ==
  ASSUME NEW S, NEW s \in Seq(S), s # <<>>, IsInjective(s)
  PROVE  /\ Head(s) \in Range(s)
         /\ Range(Tail(s)) = Range(s) \ {Head(s)}
         /\ IsInjective(Tail(s))
<1>0. Len(s) \in Nat /\ Len(s) > 0
  BY EmptySeq, LenProperties
<1>1. Head(s) = s[1]
  OBVIOUS
<1>2. Tail(s) = RemoveAt(s, 1)
  <2>1. \A k \in 1 .. Len(Tail(s)) : Tail(s)[k] = s[k + 1]
    BY HeadTailProperties
  <2>2. Len(Tail(s)) = Len(s) - 1 /\ Tail(s) \in Seq(S)
    BY HeadTailProperties
  <2>3. /\ RemoveAt(s, 1) \in Seq(S)
        /\ Len(RemoveAt(s, 1)) = Len(s) - 1
        /\ \A k \in 1 .. Len(s) - 1 :
             RemoveAt(s, 1)[k] = IF k < 1 THEN s[k] ELSE s[k + 1]
    BY <1>0, RemoveAtProperties
  <2>4. \A k \in 1 .. Len(Tail(s)) : Tail(s)[k] = RemoveAt(s, 1)[k]
    BY <1>0, <2>1, <2>2, <2>3
  <2>5. QED
    BY <2>2, <2>3, <2>4, SeqEqual
<1>3. 1 \in 1 .. Len(s)
  BY <1>0
<1>4. Head(s) \in Range(s)
  BY <1>1, <1>3, RangeOfList
<1>5. QED
  BY <1>1, <1>2, <1>3, <1>4, RemoveAtElements

\* The first elements of a list, and one more.
LEMMA OneMoreElement ==
  ASSUME NEW S, NEW s \in Seq(S), NEW m \in 1 .. Len(s)
  PROVE  /\ SubSeq(s, 1, m - 1) \in Seq(S)
         /\ SubSeq(s, 1, m) = Append(SubSeq(s, 1, m - 1), s[m])
<1>1. Len(s) \in Nat /\ \A k \in 1 .. m - 1 : s[k] \in S
  BY LenProperties, ElementOfSeq
<1>2. SubSeq(s, 1, m - 1) \in Seq(S) /\ s[m] \in S
  BY <1>1, SubSeqProperties, ElementOfSeq
<1>3. SubSeq(s, 1, m) = SubSeq(s, 1, m - 1) \o <<s[m]>>
  BY <1>1, SubSeqRecursiveSecond
<1>4. QED
  BY <1>2, <1>3, AppendIsConcat

\* The last elements of a list that grew.
LEMMA LastOfAppend ==
  ASSUME NEW S, NEW s \in Seq(S), NEW e \in S, NEW m \in 1 .. Len(s) + 1
  PROVE  /\ SubSeq(s, m, Len(s)) \in Seq(S)
         /\ SubSeq(Append(s, e), m, Len(s) + 1) = Append(SubSeq(s, m, Len(s)), e)
<1> DEFINE n    == Len(s)
           r    == Append(s, e)
           last == SubSeq(s, m, n)
           more == SubSeq(r, m, n + 1)
<1>1. n \in Nat /\ m \in Int /\ \A k \in 1 .. n : s[k] \in S
  BY LenProperties, ElementOfSeq
<1>2. /\ r \in Seq(S) /\ Len(r) = n + 1
      /\ \A k \in 1 .. n + 1 : r[k] = IF k <= n THEN s[k] ELSE e
  BY AppendElements
<1> HIDE DEF n, r
<1>3. /\ last \in Seq(S) /\ Len(last) = n - m + 1
      /\ \A k \in 1 .. n - m + 1 : last[k] = s[m + k - 1]
  BY <1>1, SubSeqProperties DEF n
<1>4. /\ more \in Seq(S) /\ Len(more) = n - m + 2
      /\ \A k \in 1 .. n - m + 2 : more[k] = r[m + k - 1]
  <2>1. \A k \in m .. n + 1 : r[k] \in S
    BY <1>1, <1>2
  <2>2. /\ more \in Seq(S)
        /\ Len(more) = IF m <= n + 1 THEN (n + 1) - m + 1 ELSE 0
        /\ \A k \in 1 .. (n + 1) - m + 1 : more[k] = r[m + k - 1]
    BY <1>1, <1>2, <2>1, SubSeqProperties
  <2>3. QED
    BY <1>1, <2>2 DEF n
<1> HIDE DEF last, more
<1>5. /\ Append(last, e) \in Seq(S)
      /\ Len(Append(last, e)) = n - m + 2
      /\ \A k \in 1 .. n - m + 2 :
           Append(last, e)[k] = IF k <= n - m + 1 THEN last[k] ELSE e
  <2>1. n - m + 1 \in Nat
    BY <1>1 DEF n
  <2>2. /\ Append(last, e) \in Seq(S)
        /\ Len(Append(last, e)) = Len(last) + 1
        /\ \A k \in 1 .. Len(last) + 1 :
             Append(last, e)[k] = IF k <= Len(last) THEN last[k] ELSE e
    BY <1>3, AppendElements
  <2>3. QED
    BY <1>1, <1>3, <2>1, <2>2
<1>6. ASSUME NEW k \in 1 .. n - m + 2 PROVE more[k] = Append(last, e)[k]
  <2>1. m + k - 1 \in 1 .. n + 1 /\ more[k] = r[m + k - 1]
    BY <1>1, <1>4 DEF n
  <2>2. CASE k <= n - m + 1
    <3>1. m + k - 1 <= n /\ k \in 1 .. n - m + 1
      BY <1>1, <2>2
    <3>2. QED
      BY <1>2, <1>3, <1>5, <2>1, <2>2, <3>1
  <2>3. CASE k = n - m + 2
    BY <1>1, <1>2, <1>5, <2>1, <2>3
  <2>4. k <= n - m + 1 \/ k = n - m + 2
    <3>1. n \in Int /\ m \in Int /\ k \in 1 .. n - m + 2
      BY <1>1
    <3>2. QED
      BY <3>1
  <2>5. QED
    BY <2>2, <2>3, <2>4
<1>7. more = Append(last, e)
  BY <1>4, <1>5, <1>6, SeqEqual
<1>8. QED
  BY <1>3, <1>7 DEF n, r, last, more

-----------------------------------------------------------------------------
(* Folds.                                                                  *)

\* Induction, of a set of numbers.
LEMMA InductionOnNat ==
  ASSUME NEW T, 0 \in T, \A n \in Nat : n \in T => n + 1 \in T
  PROVE  Nat \subseteq T
<1> SUFFICES ASSUME Nat \ T # {} PROVE FALSE
  OBVIOUS
<1>1. PICK x \in Nat \ T : \A y \in Nat \ T : x <= y
  BY LeastElement
<1>2. x # 0 /\ x - 1 \in Nat
  BY <1>1
<1>3. x - 1 \in T
  BY <1>1, <1>2
<1>4. QED
  BY <1>1, <1>2, <1>3

\* pick takes an element out of every non-empty subset of S.
Picks(pick, S) ==
  /\ pick \in [(SUBSET S) \ {{}} -> S]
  /\ \A s \in (SUBSET S) \ {{}} : pick[s] \in s

\* f folds what is picked of a set into what the rest gives.
IsFold(f, sets, base, pick, step) ==
  \A s \in sets :
    f[s] = IF s = {} THEN base ELSE step[<<pick[s], f[s \ {pick[s]}]>>]

\* A fold over the subsets of a finite set is a function: what is picked of
\* a set is folded into what the rest gives.
LEMMA FoldExists ==
  ASSUME NEW S, IsFiniteSet(S), NEW V, NEW base \in V,
         NEW pick, Picks(pick, S), NEW step \in [S \X V -> V]
  PROVE  \E f \in [SUBSET S -> V] : IsFold(f, SUBSET S, base, pick, step)
<1>0. /\ pick \in [(SUBSET S) \ {{}} -> S]
      /\ \A s \in (SUBSET S) \ {{}} : pick[s] \in s
  BY DEF Picks
<1> DEFINE UpTo(n) == {s \in SUBSET S : Cardinality(s) <= n}
           Folds(f, n) == \A s \in UpTo(n) :
             f[s] = IF s = {} THEN base ELSE step[<<pick[s], f[s \ {pick[s]}]>>]
           T == {n \in Nat : \E f \in [UpTo(n) -> V] : Folds(f, n)}
<1>1. \A s \in SUBSET S : IsFiniteSet(s) /\ Cardinality(s) \in Nat
                          /\ (Cardinality(s) = 0 <=> s = {})
  BY FS_Subset, FS_CardinalityType, FS_EmptySet
<1>2. 0 \in T
  <2> DEFINE g == [s \in UpTo(0) |-> base]
  <2>1. g \in [UpTo(0) -> V] /\ Folds(g, 0)
    BY <1>1
  <2>2. QED
    BY <2>1
<1>3. ASSUME NEW n \in Nat, n \in T PROVE n + 1 \in T
  <2>1. PICK f \in [UpTo(n) -> V] : Folds(f, n)
    BY <1>3
  <2>2. ASSUME NEW s \in UpTo(n + 1), s # {}
        PROVE  pick[s] \in s /\ pick[s] \in S /\ s \ {pick[s]} \in UpTo(n)
    <3>1. pick[s] \in s /\ pick[s] \in S /\ IsFiniteSet(s)
      BY <1>0, <1>1, <2>2
    <3>2. Cardinality(s \ {pick[s]}) = Cardinality(s) - 1
      <4> DEFINE x == pick[s]
      <4> HIDE DEF x
      <4>1. x \in s
        BY <3>1 DEF x
      <4>2. Cardinality(s \ {x}) = Cardinality(s) - 1
        BY <3>1, <4>1, FS_RemoveElement
      <4>3. QED
        BY <4>2 DEF x
    <3>3. QED
      BY <1>1, <3>1, <3>2
  <2> DEFINE g == [s \in UpTo(n + 1) |->
                     IF s \in UpTo(n) THEN f[s] ELSE step[<<pick[s], f[s \ {pick[s]}]>>]]
  <2>3. UpTo(n) \subseteq UpTo(n + 1)
    BY <1>1
  <2>4. ASSUME NEW s \in UpTo(n + 1), s \notin UpTo(n) PROVE s # {}
    BY <1>1, <2>4
  <2>5. g \in [UpTo(n + 1) -> V]
    <3>1. ASSUME NEW s \in UpTo(n + 1) PROVE g[s] \in V
      <4>1. CASE s \in UpTo(n)
        BY <4>1
      <4>2. CASE s \notin UpTo(n)
        <5>1. pick[s] \in S /\ s \ {pick[s]} \in UpTo(n)
          BY <2>2, <2>4, <4>2
        <5> HIDE DEF UpTo
        <5>2. g[s] = step[<<pick[s], f[s \ {pick[s]}]>>]
          BY <4>2
        <5>3. f[s \ {pick[s]}] \in V
          BY <5>1
        <5>4. QED
          BY <5>1, <5>2, <5>3
      <4>3. QED
        BY <4>1, <4>2
    <3> HIDE DEF UpTo
    <3>2. QED
      BY <3>1
  <2>6. ASSUME NEW s \in UpTo(n + 1)
        PROVE  g[s] = IF s = {} THEN base ELSE step[<<pick[s], g[s \ {pick[s]}]>>]
    <3>1. CASE s = {}
      <4>1. s \in UpTo(n)
        BY <1>1, <3>1
      <4> HIDE DEF UpTo
      <4>2. g[s] = f[s] /\ f[s] = base
        BY <2>1, <3>1, <4>1
      <4>3. QED
        BY <3>1, <4>2
    <3>2. CASE s # {}
      <4>1. s \ {pick[s]} \in UpTo(n)
        BY <2>2, <3>2
      <4> HIDE DEF UpTo
      <4>2. g[s \ {pick[s]}] = f[s \ {pick[s]}]
        BY <2>3, <4>1
      <4>3. g[s] = step[<<pick[s], f[s \ {pick[s]}]>>]
        BY <2>1, <3>2
      <4>4. QED
        BY <3>2, <4>2, <4>3
    <3>3. QED
      BY <3>1, <3>2
  <2> HIDE DEF g
  <2>7. Folds(g, n + 1)
    BY <2>6
  <2> HIDE DEF Folds, UpTo
  <2>8. \E h \in [UpTo(n + 1) -> V] : Folds(h, n + 1)
    BY <2>5, <2>7
  <2>9. QED
    BY <2>8
<1>4. Cardinality(S) \in T
  <2> HIDE DEF T
  <2>1. QED
    BY <1>1, <1>2, <1>3, InductionOnNat
<1>5. UpTo(Cardinality(S)) = SUBSET S
  BY FS_Subset
<1>6. PICK f \in [UpTo(Cardinality(S)) -> V] : Folds(f, Cardinality(S))
  BY <1>4
<1>7. IsFold(f, SUBSET S, base, pick, step)
  BY <1>5, <1>6 DEF IsFold
<1>8. QED
  BY <1>5, <1>6, <1>7

\* The greatest of some positions of a list.
LEMMA GreatestElement ==
  ASSUME NEW n \in Nat, NEW U \in SUBSET (1 .. n), U # {}
  PROVE  Max(U) \in U /\ \A y \in U : y <= Max(U)
<1> DEFINE below == {n - y : y \in U}
<1>1. PICK z \in below : \A y \in below : z <= y
  <2>1. \A y \in U : n - y \in Nat
    OBVIOUS
  <2>2. below \in SUBSET Nat /\ below # {}
    BY <2>1
  <2>3. QED
    BY <2>2, LeastElement
<1>2. PICK x \in U : z = n - x
  BY <1>1
<1>3. ASSUME NEW y \in U PROVE x >= y
  <2>1. z <= n - y
    BY <1>1
  <2>2. x \in 1 .. n /\ y \in 1 .. n
    BY <1>2
  <2>3. QED
    BY <1>2, <2>1, <2>2
<1>4. QED
  BY <1>3 DEF Max

\* The greatest of the first positions.
LEMMA GreatestOfInterval ==
  ASSUME NEW m \in Nat \ {0}
  PROVE  Max(1 .. m) = m /\ (1 .. m) \ {m} = 1 .. m - 1
<1>1. Max(1 .. m) \in 1 .. m /\ \A y \in 1 .. m : y <= Max(1 .. m)
  <2>1. 1 .. m \in SUBSET (1 .. m) /\ 1 .. m # {}
    OBVIOUS
  <2>2. QED
    BY <2>1, GreatestElement
<1>2. QED
  BY <1>1

\* g folds sets of positions, the greatest of them last, where it gives values.
FoldsLast(g, n, V, base, step) ==
  /\ g[{}] = base
  /\ \A s \in (SUBSET (1 .. n)) \ {{}} :
       g[s \ {Max(s)}] \in V => g[s] = step[<<Max(s), g[s \ {Max(s)}]>>]

\* g gives a value for the first positions, one position at a time.
InOrder(g, n, V, base, step) ==
  /\ g[1 .. 0] = base
  /\ \A m \in 0 .. n : g[1 .. m] \in V
  /\ \A m \in 1 .. n : g[1 .. m] = step[<<m, g[1 .. m - 1]>>]

\* A fold of a list takes the elements in their order: what the fold of the
\* community modules is of the first m positions.
LEMMA FoldInOrder ==
  ASSUME NEW n \in Nat, NEW V, NEW base \in V, NEW step \in [(1 .. n) \X V -> V],
         NEW g, FoldsLast(g, n, V, base, step)
  PROVE  InOrder(g, n, V, base, step)
<1> USE DEF FoldsLast
<1> DEFINE T == {m \in Nat : m <= n => g[1 .. m] \in V}
<1>1. 0 \in T /\ g[1 .. 0] = base
  BY 1 .. 0 = {}
<1>2. ASSUME NEW m \in 1 .. n, g[1 .. m - 1] \in V
      PROVE  g[1 .. m] = step[<<m, g[1 .. m - 1]>>] /\ g[1 .. m] \in V
  <2>1. 1 .. m \in (SUBSET (1 .. n)) \ {{}}
    OBVIOUS
  <2>2. Max(1 .. m) = m /\ (1 .. m) \ {m} = 1 .. m - 1
    BY GreatestOfInterval
  <2>3. QED
    BY <1>2, <2>1, <2>2
<1>3. ASSUME NEW m \in Nat, m \in T PROVE m + 1 \in T
  <2>1. CASE m + 1 <= n
    <3>1. m + 1 \in 1 .. n /\ g[1 .. m] \in V
      BY <1>3, <2>1
    <3>2. (m + 1) - 1 = m
      OBVIOUS
    <3>3. g[1 .. (m + 1) - 1] \in V
      BY <3>1, <3>2
    <3>4. g[1 .. m + 1] \in V
      BY <1>2, <3>1, <3>3
    <3>5. QED
      BY <3>4
  <2>2. CASE ~ (m + 1 <= n)
    BY <2>2
  <2>3. QED
    BY <2>1, <2>2
<1>4. Nat \subseteq T
  <2> HIDE DEF T
  <2>1. QED
    BY <1>1, <1>3, InductionOnNat
<1>5. \A m \in 0 .. n : g[1 .. m] \in V
  BY <1>4
<1>6. QED
  BY <1>1, <1>2, <1>5 DEF InOrder

\* ... and there is such a function.
LEMMA FoldOfPositions ==
  ASSUME NEW n \in Nat, NEW V, NEW base \in V, NEW step \in [(1 .. n) \X V -> V]
  PROVE  \E g \in [SUBSET (1 .. n) -> V] :
           IsFold(g, SUBSET (1 .. n), base, [s \in (SUBSET (1 .. n)) \ {{}} |-> Max(s)], step)
<1> DEFINE S    == 1 .. n
           pick == [s \in (SUBSET S) \ {{}} |-> Max(s)]
<1>1. IsFiniteSet(S)
  BY PositionsAreCounted
<1>2. \A s \in (SUBSET S) \ {{}} : Max(s) \in s
  BY GreatestElement
<1>3. pick \in [(SUBSET S) \ {{}} -> S] /\ \A s \in (SUBSET S) \ {{}} : pick[s] \in s
  BY <1>2
<1>4. \E f \in [SUBSET S -> V] : IsFold(f, SUBSET S, base, pick, step)
  <2>1. Picks(pick, S)
    BY <1>3 DEF Picks
  <2> HIDE DEF S, pick
  <2>2. step \in [S \X V -> V]
    BY DEF S
  <2>3. QED
    BY <1>1, <2>1, <2>2, FoldExists
<1>5. QED
  BY <1>4

-----------------------------------------------------------------------------
(* Selections.                                                             *)

\* What is kept of the first elements of a list in a selection.
Keeps(kept, s, T) ==
  /\ kept[0] = <<>>
  /\ \A m \in 1 .. Len(s) :
       kept[m] = IF s[m] \in T THEN Append(kept[m - 1], s[m]) ELSE kept[m - 1]
  /\ Selection(s, T) = kept[Len(s)]

\* A selection is made an element at a time.
LEMMA SelectionSteps ==
  ASSUME NEW S, NEW s \in Seq(S), NEW T
  PROVE  \E kept \in [0 .. Len(s) -> Seq(S)] : Keeps(kept, s, T)
<1> DEFINE n == Len(s)
           Folded(g) == g = [U \in SUBSET (1 .. n) |->
             IF U = {} THEN <<>>
             ELSE IF s[Max(U)] \in T
                  THEN Append(g[U \ {Max(U)}], s[Max(U)])
                  ELSE g[U \ {Max(U)}]]
           step == [p \in (1 .. n) \X Seq(S) |->
                      IF s[p[1]] \in T THEN Append(p[2], s[p[1]]) ELSE p[2]]
           f == CHOOSE g : Folded(g)
<1>1. n \in Nat /\ DOMAIN s = 1 .. n /\ \A m \in 1 .. n : s[m] \in S
  BY LenProperties, ElementOfSeq
<1>2. Selection(s, T) = f[1 .. n]
  BY <1>1 DEF Selection, FoldLeft, MapThenFoldSet
<1>3. step \in [(1 .. n) \X Seq(S) -> Seq(S)] /\ <<>> \in Seq(S)
  <2>1. ASSUME NEW p \in (1 .. n) \X Seq(S) PROVE step[p] \in Seq(S)
    <3>1. p[1] \in 1 .. n /\ p[2] \in Seq(S) /\ s[p[1]] \in S
      BY <1>1
    <3>2. QED
      BY <3>1
  <2>2. QED
    BY <2>1
<1>4. \A m \in 1 .. n, k \in Seq(S) :
        step[<<m, k>>] = IF s[m] \in T THEN Append(k, s[m]) ELSE k
  OBVIOUS
<1>5. \A U \in (SUBSET (1 .. n)) \ {{}} : Max(U) \in U /\ Max(U) \in 1 .. n
  BY <1>1, GreatestElement
<1>6. \E g : Folded(g)
  <2> HIDE DEF step
  <2> DEFINE last == [U \in (SUBSET (1 .. n)) \ {{}} |-> Max(U)]
  <2>0. PICK g \in [SUBSET (1 .. n) -> Seq(S)] :
          IsFold(g, SUBSET (1 .. n), <<>>, last, step)
    <3> HIDE DEF n
    <3>1. QED
      BY <1>1, <1>3, FoldOfPositions
  <2>1. \A U \in SUBSET (1 .. n) :
          g[U] = IF U = {} THEN <<>> ELSE step[<<Max(U), g[U \ {Max(U)}]>>]
    BY <2>0 DEF IsFold
  <2>2. ASSUME NEW U \in SUBSET (1 .. n), U # {}
        PROVE  step[<<Max(U), g[U \ {Max(U)}]>>] =
                 IF s[Max(U)] \in T
                 THEN Append(g[U \ {Max(U)}], s[Max(U)])
                 ELSE g[U \ {Max(U)}]
    <3>1. Max(U) \in 1 .. n /\ U \ {Max(U)} \in SUBSET (1 .. n)
      BY <1>5, <2>2
    <3>2. g[U \ {Max(U)}] \in Seq(S)
      BY <2>1, <3>1
    <3>3. QED
      BY <1>4, <3>1, <3>2
  <2>3. \A U \in SUBSET (1 .. n) :
          g[U] = IF U = {} THEN <<>>
                 ELSE IF s[Max(U)] \in T
                      THEN Append(g[U \ {Max(U)}], s[Max(U)])
                      ELSE g[U \ {Max(U)}]
    <3> HIDE DEF last
    <3>1. QED
      BY <2>1, <2>2
  <2> HIDE DEF last
  <2>4. Folded(g)
    BY <2>3
  <2>5. QED
    BY <2>4
<1>7. Folded(f)
  <2> HIDE DEF Folded
  <2>1. QED
    BY <1>6
<1> HIDE DEF f
<1>8. f[{}] = <<>>
  BY <1>7
<1>9. ASSUME NEW U \in (SUBSET (1 .. n)) \ {{}}, f[U \ {Max(U)}] \in Seq(S)
      PROVE  f[U] = step[<<Max(U), f[U \ {Max(U)}]>>]
  BY <1>4, <1>5, <1>7, <1>9
<1>10. /\ f[1 .. 0] = <<>>
       /\ \A m \in 0 .. n : f[1 .. m] \in Seq(S)
       /\ \A m \in 1 .. n : f[1 .. m] = step[<<m, f[1 .. m - 1]>>]
  <2>1. FoldsLast(f, n, Seq(S), <<>>, step)
    <3> HIDE DEF step, Folded, n
    <3>1. QED
      BY <1>8, <1>9 DEF FoldsLast
  <2> HIDE DEF n, step, Folded
  <2>2. InOrder(f, n, Seq(S), <<>>, step)
    BY <1>1, <1>3, <2>1, FoldInOrder
  <2>3. QED
    BY <2>2 DEF InOrder
<1> DEFINE kept == [m \in 0 .. n |-> f[1 .. m]]
<1>11. kept \in [0 .. n -> Seq(S)] /\ kept[0] = <<>> /\ Selection(s, T) = kept[n]
  BY <1>1, <1>2, <1>10
<1>12. ASSUME NEW m \in 1 .. n
       PROVE  kept[m] = IF s[m] \in T THEN Append(kept[m - 1], s[m]) ELSE kept[m - 1]
  <2> HIDE DEF n, step
  <2>1. m \in 0 .. n /\ m - 1 \in 0 .. n
    BY <1>1
  <2>2. kept[m] = f[1 .. m] /\ kept[m - 1] = f[1 .. m - 1] /\ f[1 .. m - 1] \in Seq(S)
    BY <1>10, <2>1
  <2>3. QED
    BY <1>4, <1>10, <2>2, ZenonT(60)
<1> HIDE DEF kept
<1>13. Keeps(kept, s, T)
  BY <1>11, <1>12 DEF Keeps
<1>14. QED
  BY <1>11, <1>13

\* A selection has some of the elements, all of them from the set.
LEMMA SelectionProperties ==
  ASSUME NEW S, NEW s \in Seq(S), NEW T
  PROVE  /\ Selection(s, T) \in Seq(S)
         /\ Len(Selection(s, T)) <= Len(s)
         /\ \A i \in DOMAIN Selection(s, T) : Selection(s, T)[i] \in T
<1>0. PICK kept \in [0 .. Len(s) -> Seq(S)] : Keeps(kept, s, T)
  BY SelectionSteps
<1>1. /\ kept[0] = <<>>
      /\ \A m \in 1 .. Len(s) :
           kept[m] = IF s[m] \in T THEN Append(kept[m - 1], s[m]) ELSE kept[m - 1]
      /\ Selection(s, T) = kept[Len(s)]
  BY <1>0 DEF Keeps
<1> DEFINE Good(m) == Len(kept[m]) <= m /\ \A i \in DOMAIN kept[m] : kept[m][i] \in T
           G == {m \in Nat : m <= Len(s) => Good(m)}
<1>2. Len(s) \in Nat /\ \A m \in 1 .. Len(s) : s[m] \in S
  BY LenProperties, ElementOfSeq
<1>3. 0 \in G
  BY <1>1
<1>4. ASSUME NEW m \in Nat, m \in G PROVE m + 1 \in G
  <2>1. SUFFICES ASSUME m + 1 <= Len(s) PROVE Good(m + 1)
    OBVIOUS
  <2>2. m \in 0 .. Len(s) /\ m + 1 \in 1 .. Len(s) /\ Good(m) /\ (m + 1) - 1 = m
    BY <1>2, <1>4, <2>1
  <2>3. kept[m] \in Seq(S) /\ Len(kept[m]) \in Nat
    BY <1>1, <2>2
  <2>4. kept[m + 1] = IF s[m + 1] \in T THEN Append(kept[m], s[m + 1]) ELSE kept[m]
    BY <1>1, <2>2
  <2>5. CASE s[m + 1] \in T
    <3>1. s[m + 1] \in S
      BY <1>2, <2>2
    <3>2. /\ kept[m + 1] \in Seq(S)
          /\ Len(kept[m + 1]) = Len(kept[m]) + 1
          /\ \A i \in 1 .. Len(kept[m]) + 1 :
               kept[m + 1][i] = IF i <= Len(kept[m]) THEN kept[m][i] ELSE s[m + 1]
      BY <2>3, <2>4, <2>5, <3>1, AppendElements
    <3>3. DOMAIN kept[m + 1] = 1 .. Len(kept[m]) + 1 /\ DOMAIN kept[m] = 1 .. Len(kept[m])
      BY <2>3, <3>2
    <3>4. QED
      BY <2>2, <2>3, <2>5, <3>2, <3>3
  <2>6. CASE s[m + 1] \notin T
    BY <2>2, <2>3, <2>4, <2>6
  <2>7. QED
    BY <2>5, <2>6
<1>5. Nat \subseteq G
  <2> HIDE DEF G
  <2>1. QED
    BY <1>3, <1>4, InductionOnNat
<1>6. Len(s) \in 0 .. Len(s) /\ Good(Len(s))
  BY <1>2, <1>5
<1>7. QED
  BY <1>1, <1>6

\* Nothing is selected of nothing.
LEMMA SelectionOfNothing == ASSUME NEW T PROVE Selection(<<>>, T) = <<>>
<1>1. <<>> \in Seq({}) /\ Len(<<>>) = 0
  OBVIOUS
<1>2. Selection(<<>>, T) \in Seq({}) /\ Len(Selection(<<>>, T)) <= 0
  BY <1>1, SelectionProperties
<1>3. QED
  BY <1>2

\* An element at the tail is selected or not, whatever is before it.
LEMMA SelectionOfAppend ==
  ASSUME NEW S, NEW s \in Seq(S), NEW e \in S, NEW T
  PROVE  Selection(Append(s, e), T) =
           IF e \in T THEN Append(Selection(s, T), e) ELSE Selection(s, T)
<1> DEFINE r == Append(s, e)
           n == Len(s)
<1>0. PICK kept \in [0 .. Len(s) -> Seq(S)] : Keeps(kept, s, T)
  BY SelectionSteps
<1>1. /\ kept \in [0 .. n -> Seq(S)]
      /\ kept[0] = <<>>
      /\ \A m \in 1 .. n :
           kept[m] = IF s[m] \in T THEN Append(kept[m - 1], s[m]) ELSE kept[m - 1]
      /\ Selection(s, T) = kept[n]
  BY <1>0 DEF Keeps
<1>2. /\ r \in Seq(S) /\ Len(r) = n + 1 /\ n \in Nat
      /\ \A k \in 1 .. n : r[k] = s[k]
      /\ r[n + 1] = e
  OBVIOUS
<1> HIDE DEF r
<1>3. PICK more \in [0 .. n + 1 -> Seq(S)] :
        /\ more[0] = <<>>
        /\ \A m \in 1 .. n + 1 :
             more[m] = IF r[m] \in T THEN Append(more[m - 1], r[m]) ELSE more[m - 1]
        /\ Selection(r, T) = more[n + 1]
  <2>1. PICK more \in [0 .. Len(r) -> Seq(S)] : Keeps(more, r, T)
    BY <1>2, SelectionSteps
  <2>2. QED
    BY <1>2, <2>1 DEF Keeps
<1> HIDE DEF n
<1> DEFINE G == {m \in Nat : m <= n => more[m] = kept[m]}
<1>4. 0 \in G
  BY <1>1, <1>3
<1>5. ASSUME NEW m \in Nat, m \in G PROVE m + 1 \in G
  <2>1. SUFFICES ASSUME m + 1 <= n PROVE more[m + 1] = kept[m + 1]
    OBVIOUS
  <2>2. m + 1 \in 1 .. n /\ m + 1 \in 1 .. n + 1 /\ (m + 1) - 1 = m /\ more[m] = kept[m]
    BY <1>2, <1>5, <2>1
  <2>3. r[m + 1] = s[m + 1]
    BY <1>2, <2>2
  <2>4. /\ more[m + 1] = IF r[m + 1] \in T THEN Append(more[m], r[m + 1]) ELSE more[m]
        /\ kept[m + 1] = IF s[m + 1] \in T THEN Append(kept[m], s[m + 1]) ELSE kept[m]
    BY <1>1, <1>3, <2>2
  <2>5. QED
    BY <2>2, <2>3, <2>4
<1>6. Nat \subseteq G
  <2> HIDE DEF G
  <2>1. QED
    BY <1>4, <1>5, InductionOnNat
<1>7. more[n] = kept[n]
  BY <1>2, <1>6
<1>8. n + 1 \in 1 .. n + 1 /\ (n + 1) - 1 = n
  BY <1>2
<1>9. more[n + 1] = IF r[n + 1] \in T THEN Append(more[n], r[n + 1]) ELSE more[n]
  BY <1>3, <1>8
<1>10. QED
  BY <1>1, <1>2, <1>3, <1>7, <1>9 DEF r

\* Where everything behind the first element is selected, and that is not,
\* the rest is.
LEMMA SelectionBehindHeader ==
  ASSUME NEW S, NEW s \in Seq(S), NEW e \in S, NEW T, e \notin T,
         \A i \in 1 .. Len(s) : s[i] \in T
  PROVE  Selection(<<e>> \o s, T) = s
<1> DEFINE r == <<e>> \o s
           n == Len(s)
<1>1. /\ r \in Seq(S) /\ Len(r) = n + 1 /\ n \in Nat
      /\ r[1] = e
      /\ \A k \in 1 .. n : r[k + 1] = s[k]
      /\ \A k \in 1 .. n : s[k] \in S
  OBVIOUS
<1>2. \A m \in 0 .. n : SubSeq(s, 1, m) \in Seq(S)
  BY <1>1
<1> HIDE DEF r
<1>3. PICK kept \in [0 .. n + 1 -> Seq(S)] :
        /\ kept[0] = <<>>
        /\ \A m \in 1 .. n + 1 :
             kept[m] = IF r[m] \in T THEN Append(kept[m - 1], r[m]) ELSE kept[m - 1]
        /\ Selection(r, T) = kept[n + 1]
  <2>1. PICK kept \in [0 .. Len(r) -> Seq(S)] : Keeps(kept, r, T)
    BY <1>1, SelectionSteps
  <2>2. QED
    BY <1>1, <2>1 DEF Keeps
<1> DEFINE G == {m \in Nat : m <= n => kept[m + 1] = SubSeq(s, 1, m)}
<1>4. 0 \in G
  <2>1. SubSeq(s, 1, 0) = <<>>
    BY SubSeqEmpty
  <2>2. 1 \in 1 .. n + 1 /\ 1 - 1 = 0 /\ 0 + 1 = 1
    BY <1>1
  <2>3. kept[1] = <<>>
    BY <1>1, <1>3, <2>2
  <2>4. QED
    BY <2>1, <2>2, <2>3
<1>5. ASSUME NEW m \in Nat, m \in G PROVE m + 1 \in G
  <2>1. SUFFICES ASSUME m + 1 <= n PROVE kept[(m + 1) + 1] = SubSeq(s, 1, m + 1)
    OBVIOUS
  <2>2. /\ m + 1 \in 1 .. n /\ (m + 1) + 1 \in 1 .. n + 1
        /\ ((m + 1) + 1) - 1 = m + 1
        /\ kept[m + 1] = SubSeq(s, 1, m)
    BY <1>1, <1>5, <2>1
  <2>3. r[(m + 1) + 1] = s[m + 1] /\ s[m + 1] \in T
    BY <1>1, <2>2
  <2>4. kept[(m + 1) + 1] = Append(SubSeq(s, 1, m), s[m + 1])
    BY <1>3, <2>2, <2>3
  <2>5. SubSeq(s, 1, m + 1) = Append(SubSeq(s, 1, m), s[m + 1])
    BY <1>1, <2>2
  <2>6. QED
    BY <2>4, <2>5
<1>6. Nat \subseteq G
  <2> HIDE DEF G
  <2>1. QED
    BY <1>4, <1>5, InductionOnNat
<1>7. kept[n + 1] = SubSeq(s, 1, n) /\ SubSeq(s, 1, n) = s
  BY <1>1, <1>6, SubSeqFull
<1>8. QED
  BY <1>3, <1>7 DEF r

\* A selection embeds into the list: h says where each element comes from.
Embeds(h, kept, s, T, n) ==
  /\ h \in [1 .. Len(kept) -> 1 .. n]
  /\ \A a, b \in 1 .. Len(kept) : a < b => h[a] < h[b]
  /\ \A a \in 1 .. Len(kept) : s[h[a]] \in T /\ kept[a] = s[h[a]]
  /\ \A i \in 1 .. n : s[i] \in T => \E a \in 1 .. Len(kept) : h[a] = i

\* A selection keeps the order of the list and leaves nothing of the set out.
LEMMA SelectionEmbedding ==
  ASSUME NEW S, NEW s \in Seq(S), NEW T
  PROVE  \E h : Embeds(h, Selection(s, T), s, T, Len(s))
<1>0. PICK kept \in [0 .. Len(s) -> Seq(S)] : Keeps(kept, s, T)
  BY SelectionSteps
<1>1. /\ kept[0] = <<>>
      /\ \A m \in 1 .. Len(s) :
           kept[m] = IF s[m] \in T THEN Append(kept[m - 1], s[m]) ELSE kept[m - 1]
      /\ Selection(s, T) = kept[Len(s)]
  BY <1>0 DEF Keeps
<1> DEFINE Good(m) == \E h : Embeds(h, kept[m], s, T, m)
           G == {m \in Nat : m <= Len(s) => Good(m)}
<1>2. Len(s) \in Nat /\ \A m \in 1 .. Len(s) : s[m] \in S
  BY LenProperties, ElementOfSeq
<1>3. 0 \in G
  <2>1. Len(kept[0]) = 0
    BY <1>1
  <2>2. Embeds([a \in 1 .. 0 |-> 0], kept[0], s, T, 0)
    BY <2>1 DEF Embeds
  <2>3. QED
    BY <2>2
<1>4. ASSUME NEW m \in Nat, m \in G PROVE m + 1 \in G
  <2>1. SUFFICES ASSUME m + 1 <= Len(s) PROVE Good(m + 1)
    OBVIOUS
  <2>2. m \in 0 .. Len(s) /\ m + 1 \in 1 .. Len(s) /\ Good(m) /\ (m + 1) - 1 = m
    BY <1>2, <1>4, <2>1
  <2>3. kept[m] \in Seq(S) /\ Len(kept[m]) \in Nat
    BY <1>1, <2>2
  <2>4. kept[m + 1] = IF s[m + 1] \in T THEN Append(kept[m], s[m + 1]) ELSE kept[m]
    BY <1>1, <2>2
  <2>5. PICK h : Embeds(h, kept[m], s, T, m)
    BY <2>2
  <2> DEFINE q == Len(kept[m])
  <2>6. /\ h \in [1 .. q -> 1 .. m]
        /\ \A a, b \in 1 .. q : a < b => h[a] < h[b]
        /\ \A a \in 1 .. q : s[h[a]] \in T /\ kept[m][a] = s[h[a]]
        /\ \A i \in 1 .. m : s[i] \in T => \E a \in 1 .. q : h[a] = i
    BY <2>5 DEF Embeds
  <2>11. \A a \in 1 .. q : h[a] \in 1 .. m
    BY <2>6
  <2>10. q \in Nat /\ q = Len(kept[m])
    BY <2>3
  <2> HIDE DEF q
  <2>7. CASE s[m + 1] \in T
    <3>1. s[m + 1] \in S
      BY <1>2, <2>2
    <3>2. /\ Len(kept[m + 1]) = q + 1
          /\ \A i \in 1 .. q + 1 :
               kept[m + 1][i] = IF i <= q THEN kept[m][i] ELSE s[m + 1]
      BY <2>3, <2>4, <2>7, <2>10, <3>1, AppendElements
    <3> DEFINE g == [a \in 1 .. q + 1 |-> IF a <= q THEN h[a] ELSE m + 1]
    <3>3. /\ g \in [1 .. q + 1 -> 1 .. m + 1]
          /\ \A a \in 1 .. q : a \in 1 .. q + 1 /\ g[a] = h[a] /\ h[a] \in 1 .. m
          /\ q + 1 \in 1 .. q + 1 /\ g[q + 1] = m + 1
      <4>1. \A a \in 1 .. q + 1 : g[a] = IF a <= q THEN h[a] ELSE m + 1
        OBVIOUS
      <4>2. DOMAIN g = 1 .. q + 1 /\ g = [a \in DOMAIN g |-> g[a]]
        OBVIOUS
      <4>3. \A a \in 1 .. q + 1 : a \in 1 .. q \/ a = q + 1
        BY <2>10
      <4> HIDE DEF g
      <4>4. \A a \in 1 .. q : a \in 1 .. q + 1 /\ g[a] = h[a] /\ h[a] \in 1 .. m
        BY <2>10, <2>11, <4>1
      <4>5. q + 1 \in 1 .. q + 1 /\ g[q + 1] = m + 1
        BY <2>10, <4>1
      <4>6. \A a \in 1 .. q + 1 : g[a] \in 1 .. m + 1
        BY <2>10, <4>3, <4>4, <4>5
      <4>7. QED
        BY <4>2, <4>4, <4>5, <4>6
    <3> HIDE DEF g
    <3>4. \A a, b \in 1 .. q + 1 : a < b => g[a] < g[b]
      <4>1. \A a \in 1 .. q + 1 : a \in 1 .. q \/ a = q + 1
        BY <2>10
      <4>2. \A a \in 1 .. q : h[a] \in Nat /\ h[a] <= m
        BY <2>6
      <4>3. SUFFICES ASSUME NEW a \in 1 .. q + 1, NEW b \in 1 .. q + 1, a < b
                     PROVE  g[a] < g[b]
        OBVIOUS
      <4>4. a \in 1 .. q
        BY <2>10, <4>1, <4>3
      <4>5. g[a] = h[a] /\ h[a] \in Nat /\ h[a] <= m
        BY <3>3, <4>2, <4>4
      <4>6. CASE b \in 1 .. q
        <5>1. g[b] = h[b]
          BY <3>3, <4>6
        <5>2. h[a] < h[b]
          BY <2>6, <4>3, <4>4, <4>6
        <5>3. QED
          BY <4>5, <5>1, <5>2
      <4>7. CASE b = q + 1
        <5>1. g[b] = m + 1
          BY <3>3, <4>7
        <5>2. QED
          BY <4>5, <5>1, <2>2
      <4>8. QED
        BY <4>1, <4>6, <4>7
    <3>5. \A a \in 1 .. q + 1 : s[g[a]] \in T /\ kept[m + 1][a] = s[g[a]]
      BY <2>6, <2>7, <2>10, <3>2, <3>3
    <3>6. \A i \in 1 .. m + 1 : s[i] \in T => \E a \in 1 .. q + 1 : g[a] = i
      <4>1. \A i \in 1 .. m + 1 : i \in 1 .. m \/ i = m + 1
        OBVIOUS
      <4>2. QED
        BY <2>6, <3>3, <4>1
    <3>7. Embeds(g, kept[m + 1], s, T, m + 1)
      BY <3>2, <3>3, <3>4, <3>5, <3>6 DEF Embeds
    <3>8. QED
      BY <3>7
  <2>8. CASE s[m + 1] \notin T
    <3>1. kept[m + 1] = kept[m]
      BY <2>4, <2>8
    <3>2. h \in [1 .. q -> 1 .. m + 1]
      BY <2>6, <2>10
    <3>3. \A i \in 1 .. m + 1 : s[i] \in T => \E a \in 1 .. q : h[a] = i
      <4>1. \A i \in 1 .. m + 1 : i \in 1 .. m \/ i = m + 1
        OBVIOUS
      <4>2. QED
        BY <2>6, <2>8, <4>1
    <3>4. Embeds(h, kept[m + 1], s, T, m + 1)
      BY <2>6, <2>10, <3>1, <3>2, <3>3 DEF Embeds
    <3>5. QED
      BY <3>4
  <2>9. QED
    BY <2>7, <2>8
<1>5. Nat \subseteq G
  <2> HIDE DEF G
  <2>1. QED
    BY <1>3, <1>4, InductionOnNat
<1>6. Good(Len(s))
  BY <1>2, <1>5
<1>7. QED
  BY <1>1, <1>6

-----------------------------------------------------------------------------
(* Sums.                                                                   *)

\* What a sum takes first out of a set.
First(s) == CHOOSE x \in s : TRUE

\* g sums f over the subsets of S.
IsSum(g, f, S) ==
  /\ g \in [SUBSET S -> Nat]
  /\ g[{}] = 0
  /\ \A s \in SUBSET S : s # {} => g[s] = f[First(s)] + g[s \ {First(s)}]

\* An element to take first is one of the set.
LEMMA FirstOfSet == \A s : s # {} => First(s) \in s
BY DEF First

\* Induction over the subsets of a finite set, in the order of a sum.
LEMMA SubsetInduction ==
  ASSUME NEW S, IsFiniteSet(S), NEW G, {} \in G,
         \A s \in SUBSET S : s # {} /\ s \ {First(s)} \in G => s \in G
  PROVE  SUBSET S \subseteq G
<1> DEFINE T == {n \in Nat : \A s \in SUBSET S : Cardinality(s) = n => s \in G}
<1>1. \A s \in SUBSET S : /\ IsFiniteSet(s) /\ Cardinality(s) \in Nat
                          /\ Cardinality(s) = 0 <=> s = {}
  BY FS_Subset, FS_CardinalityType, FS_EmptySet
<1>2. 0 \in T
  BY <1>1
<1>3. ASSUME NEW n \in Nat, n \in T PROVE n + 1 \in T
  <2>1. SUFFICES ASSUME NEW s \in SUBSET S, Cardinality(s) = n + 1 PROVE s \in G
    OBVIOUS
  <2>2. s # {} /\ First(s) \in s /\ s \ {First(s)} \in SUBSET S
    BY <1>1, <2>1, FirstOfSet
  <2>3. Cardinality(s \ {First(s)}) = n
    <3> DEFINE x == First(s)
    <3>1. x \in s /\ IsFiniteSet(s)
      BY <1>1, <2>2
    <3> HIDE DEF x
    <3>2. Cardinality(s \ {x}) = Cardinality(s) - 1
      BY <3>1, FS_RemoveElement
    <3>3. QED
      BY <2>1, <3>2 DEF x
  <2>4. QED
    BY <1>3, <2>2, <2>3
<1>4. Nat \subseteq T
  <2> HIDE DEF T
  <2>1. QED
    BY <1>2, <1>3, InductionOnNat
<1>5. QED
  BY <1>1, <1>4

\* A sum adds up an element at a time.
LEMMA SumSteps ==
  ASSUME NEW S, IsFiniteSet(S), NEW f \in [S -> Nat]
  PROVE  \E g : IsSum(g, f, S) /\ SumFunction(f) = g[S]
<1> DEFINE Folded(g) == g = [s \in SUBSET S |->
             IF s = {} THEN 0
             ELSE f[CHOOSE x \in s : TRUE] + g[s \ {CHOOSE x \in s : TRUE}]]
           pick == [s \in (SUBSET S) \ {{}} |-> First(s)]
           step == [p \in S \X Nat |-> f[p[1]] + p[2]]
           sum  == CHOOSE g : Folded(g)
<1>1. DOMAIN f = S
  OBVIOUS
<1>2. SumFunction(f) = sum[S]
  BY <1>1 DEF SumFunction, SumFunctionOnSet, FoldFunctionOnSet, MapThenFoldSet
<1>3. /\ pick \in [(SUBSET S) \ {{}} -> S]
      /\ \A s \in (SUBSET S) \ {{}} : pick[s] = First(s) /\ First(s) \in s /\ First(s) \in S
  BY FirstOfSet
<1>4. step \in [S \X Nat -> Nat] /\ \A x \in S, m \in Nat : step[<<x, m>>] = f[x] + m
  <2>1. ASSUME NEW p \in S \X Nat PROVE f[p[1]] + p[2] \in Nat
    <3>1. p[1] \in S /\ p[2] \in Nat
      OBVIOUS
    <3>2. f[p[1]] \in Nat
      BY <3>1
    <3>3. QED
      BY <3>1, <3>2
  <2>2. QED
    BY <2>1
<1>5. PICK g \in [SUBSET S -> Nat] : IsFold(g, SUBSET S, 0, pick, step)
  <2>1. Picks(pick, S)
    BY <1>3 DEF Picks
  <2> HIDE DEF pick, step
  <2>2. QED
    BY <1>4, <2>1, FoldExists
<1> HIDE DEF step
<1>6. \A s \in SUBSET S :
        g[s] = IF s = {} THEN 0 ELSE f[First(s)] + g[s \ {First(s)}]
  <2>1. SUFFICES ASSUME NEW s \in SUBSET S
                 PROVE  g[s] = IF s = {} THEN 0 ELSE f[First(s)] + g[s \ {First(s)}]
    OBVIOUS
  <2>2. g[s] = IF s = {} THEN 0 ELSE step[<<pick[s], g[s \ {pick[s]}]>>]
    BY <1>5 DEF IsFold
  <2>3. CASE s = {}
    BY <2>2, <2>3
  <2>4. CASE s # {}
    <3>1. pick[s] = First(s) /\ First(s) \in S /\ s \ {First(s)} \in SUBSET S
      BY <1>3, <2>4
    <3> HIDE DEF pick
    <3>2. g[s \ {First(s)}] \in Nat
      BY <3>1
    <3>3. QED
      BY <1>4, <2>2, <2>4, <3>1, <3>2
  <2>5. QED
    BY <2>3, <2>4
<1> HIDE DEF pick
<1>7. Folded(g)
  <2>1. g = [s \in SUBSET S |-> g[s]]
    OBVIOUS
  <2>2. QED
    BY <1>6, <2>1 DEF First
<1>8. Folded(sum)
  <2> HIDE DEF Folded
  <2>1. QED
    BY <1>7
<1> HIDE DEF sum
<1>9. sum = g
  <2>1. \A s \in SUBSET S :
          sum[s] = IF s = {} THEN 0 ELSE f[First(s)] + sum[s \ {First(s)}]
    BY <1>8 DEF First
  <2> DEFINE G == {s \in SUBSET S : sum[s] = g[s]}
  <2>2. {} \in G
    BY <1>6, <2>1
  <2>3. \A s \in SUBSET S : s # {} /\ s \ {First(s)} \in G => s \in G
    BY <1>6, <2>1
  <2>4. SUBSET S \subseteq G
    <3> HIDE DEF G
    <3>1. QED
      BY <2>2, <2>3, SubsetInduction
  <2>5. sum = [s \in SUBSET S |-> sum[s]]
    BY <1>8
  <2>6. QED
    BY <2>4, <2>5
<1>10. IsSum(g, f, S)
  BY <1>6 DEF IsSum
<1>11. QED
  BY <1>2, <1>9, <1>10

\* A sum of nothing, and of one element.
LEMMA SumOfNone == ASSUME NEW f \in [{} -> Nat] PROVE SumFunction(f) = 0
<1>1. IsFiniteSet({})
  BY FS_EmptySet
<1>2. QED
  BY <1>1, SumSteps DEF IsSum

\* ... and a sum of one element is what it gives.
LEMMA SumOfOne ==
  ASSUME NEW x, NEW f \in [{x} -> Nat]
  PROVE  SumFunction(f) = f[x]
<1>1. IsFiniteSet({x})
  BY FS_Singleton
<1>2. PICK g : IsSum(g, f, {x}) /\ SumFunction(f) = g[{x}]
  BY <1>1, SumSteps
<1>3. First({x}) = x /\ {x} \ {x} = {} /\ {x} # {}
  BY FirstOfSet
<1>4. g[{x}] = f[x] + 0
  BY <1>2, <1>3 DEF IsSum
<1>5. QED
  BY <1>2, <1>4

\* ... which is a number.
LEMMA SumIsNat ==
  ASSUME NEW S, IsFiniteSet(S), NEW f \in [S -> Nat]
  PROVE  SumFunction(f) \in Nat
<1>1. PICK g : IsSum(g, f, S) /\ SumFunction(f) = g[S]
  BY SumSteps
<1>2. g \in [SUBSET S -> Nat] /\ S \in SUBSET S
  BY <1>1 DEF IsSum
<1>3. QED
  BY <1>1, <1>2

\* Where one element changes, so does the sum.
LEMMA SumChanges ==
  ASSUME NEW S, IsFiniteSet(S), NEW f \in [S -> Nat], NEW h \in [S -> Nat],
         NEW t \in S, \A u \in S \ {t} : h[u] = f[u]
  PROVE  SumFunction(h) - h[t] = SumFunction(f) - f[t]
<1>1. PICK a : IsSum(a, f, S) /\ SumFunction(f) = a[S]
  BY SumSteps
<1>2. PICK b : IsSum(b, h, S) /\ SumFunction(h) = b[S]
  BY SumSteps
<1>3. /\ a \in [SUBSET S -> Nat] /\ b \in [SUBSET S -> Nat] /\ a[{}] = 0 /\ b[{}] = 0
      /\ \A s \in SUBSET S : s # {} => /\ a[s] = f[First(s)] + a[s \ {First(s)}]
                                       /\ b[s] = h[First(s)] + b[s \ {First(s)}]
  BY <1>1, <1>2 DEF IsSum
<1> DEFINE Good(s) == IF t \in s THEN b[s] - h[t] = a[s] - f[t] ELSE b[s] = a[s]
           G == {s \in SUBSET S : Good(s)}
<1>4. {} \in G
  BY <1>3
<1>5. ASSUME NEW s \in SUBSET S, s # {}, s \ {First(s)} \in G PROVE s \in G
  <2> DEFINE x == First(s)
             r == s \ {x}
  <2>1. x \in s /\ x \in S /\ r \in SUBSET S /\ Good(r)
    BY <1>5, FirstOfSet
  <2>2. a[s] = f[x] + a[r] /\ b[s] = h[x] + b[r]
    BY <1>3, <1>5
  <2>3. /\ a[r] \in Nat /\ b[r] \in Nat /\ f[x] \in Nat /\ h[x] \in Nat
        /\ f[t] \in Nat /\ h[t] \in Nat
    BY <1>3, <2>1
  <2>4. t \in r <=> (t \in s /\ t # x)
    OBVIOUS
  <2>5. x # t => h[x] = f[x]
    BY <2>1
  <2> HIDE DEF x, r
  <2>6. Good(s)
    <3>1. CASE x = t
      BY <2>1, <2>2, <2>3, <2>4, <3>1
    <3>2. CASE x # t /\ t \in s
      BY <2>1, <2>2, <2>3, <2>4, <2>5, <3>2
    <3>3. CASE t \notin s
      BY <2>1, <2>2, <2>3, <2>4, <2>5, <3>3
    <3>4. QED
      BY <3>1, <3>2, <3>3
  <2>7. QED
    BY <2>6
<1>6. SUBSET S \subseteq G
  <2> HIDE DEF G
  <2>1. QED
    BY <1>4, <1>5, SubsetInduction
<1>7. Good(S)
  BY <1>6
<1>8. QED
  BY <1>1, <1>2, <1>7

\* Two sums to which each element of a set gives one at most, and the
\* others nothing.
LEMMA SumsAreBounded ==
  ASSUME NEW S, IsFiniteSet(S), NEW f \in [S -> Nat], NEW h \in [S -> Nat],
         NEW Q \in SUBSET S,
         \A u \in S : f[u] + h[u] <= IF u \in Q THEN 1 ELSE 0
  PROVE  SumFunction(f) + SumFunction(h) <= Cardinality(Q)
<1>1. PICK a : IsSum(a, f, S) /\ SumFunction(f) = a[S]
  BY SumSteps
<1>2. PICK b : IsSum(b, h, S) /\ SumFunction(h) = b[S]
  BY SumSteps
<1>3. /\ a \in [SUBSET S -> Nat] /\ b \in [SUBSET S -> Nat] /\ a[{}] = 0 /\ b[{}] = 0
      /\ \A s \in SUBSET S : s # {} => /\ a[s] = f[First(s)] + a[s \ {First(s)}]
                                       /\ b[s] = h[First(s)] + b[s \ {First(s)}]
  BY <1>1, <1>2 DEF IsSum
<1> DEFINE Good(s) == a[s] + b[s] <= Cardinality(s \cap Q)
           G == {s \in SUBSET S : Good(s)}
<1>4. {} \in G
  <2>1. {} \cap Q = {}
    OBVIOUS
  <2>2. Cardinality({}) = 0
    BY FS_EmptySet
  <2>3. QED
    BY <1>3, <2>1, <2>2
<1>5. ASSUME NEW s \in SUBSET S, s # {}, s \ {First(s)} \in G PROVE s \in G
  <2> DEFINE x == First(s)
             r == s \ {x}
  <2>1. x \in s /\ x \in S /\ r \in SUBSET S /\ Good(r)
    BY <1>5, FirstOfSet
  <2>2. a[s] = f[x] + a[r] /\ b[s] = h[x] + b[r]
    BY <1>3, <1>5
  <2>3. a[r] \in Nat /\ b[r] \in Nat /\ f[x] \in Nat /\ h[x] \in Nat
    BY <1>3, <2>1
  <2>4. f[x] + h[x] <= IF x \in Q THEN 1 ELSE 0
    BY <2>1
  <2>5. /\ x \in Q => /\ x \in s \cap Q /\ r \cap Q = (s \cap Q) \ {x}
        /\ x \notin Q => r \cap Q = s \cap Q
    BY <2>1
  <2>6. IsFiniteSet(s \cap Q) /\ Cardinality(s \cap Q) \in Nat
    BY FS_Subset, FS_CardinalityType
  <2> HIDE DEF x, r
  <2>7. x \in Q => Cardinality(r \cap Q) = Cardinality(s \cap Q) - 1
    <3> DEFINE U == s \cap Q
    <3>1. IsFiniteSet(U) /\ (x \in Q => x \in U /\ r \cap Q = U \ {x})
      BY <2>5, <2>6
    <3> HIDE DEF U
    <3>2. x \in Q => Cardinality(U \ {x}) = Cardinality(U) - 1
      BY <3>1, FS_RemoveElement
    <3>3. QED
      BY <3>1, <3>2 DEF U
  <2>8. Cardinality(r \cap Q) \in Nat
    BY <2>1, FS_Subset, FS_CardinalityType
  <2>9. Good(s)
    <3>1. CASE x \in Q
      BY <2>1, <2>2, <2>3, <2>4, <2>6, <2>7, <2>8, <3>1
    <3>2. CASE x \notin Q
      <4>1. f[x] + h[x] <= 0
        BY <2>4, <3>2
      <4>2. f[x] = 0 /\ h[x] = 0
        BY <2>3, <4>1
      <4>3. Cardinality(r \cap Q) = Cardinality(s \cap Q)
        BY <2>5, <3>2
      <4>4. a[r] + b[r] <= Cardinality(s \cap Q)
        BY <2>1, <4>3
      <4>5. a[s] = a[r] /\ b[s] = b[r]
        BY <2>2, <2>3, <4>2
      <4>6. QED
        BY <4>4, <4>5
    <3>3. QED
      BY <3>1, <3>2
  <2>10. QED
    BY <2>9
<1>6. SUBSET S \subseteq G
  <2> HIDE DEF G
  <2>1. QED
    BY <1>4, <1>5, SubsetInduction
<1>7. Good(S) /\ S \cap Q = Q
  BY <1>6
<1>8. QED
  BY <1>1, <1>2, <1>7

=============================================================================
