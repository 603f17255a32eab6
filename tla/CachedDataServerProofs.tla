----------------------- MODULE CachedDataServerProofs -----------------------
(***************************************************************************)
(* Proofs about CachedDataServer, for every set of fields, every choice of *)
(* subscriptions and limits, any number of records and of connections      *)
(* lost.                                                                   *)
(***************************************************************************)
EXTENDS CachedDataServer, SequenceTheorems, FiniteSetTheorems, WellFoundedInduction, TLAPS

Rising(list) == \A i, j \in DOMAIN list : i < j => list[i].ts < list[j].ts

Before(S, T) == \A r \in S, s \in T : r.ts < s.ts

\* What a message under way has of a field.
Carried(i, f) == ToSet(replies[i].data[f])

\* The newest timestamp that is cached.
Top(list) == IF list = <<>> THEN 0 ELSE Newest(list)

\* Where a conversation is: before its subscription has been handled nothing
\* is requested, nor has anything been sent.
PhaseInv ==
  /\ \A f \in Field : f \in requested <=> sent_ts[f] # NONE
  /\ reader = "connecting" => requests = <<>> /\ replies = <<>> /\ handler = "receiving"
  /\ \A i \in DOMAIN requests : requests[i] = "subscribe" =>
       Len(requests) = 1 /\ replies = <<>> /\ handler = "receiving"
  /\ (reader = "connecting" \/ \E i \in DOMAIN requests : requests[i] = "subscribe") =>
       got = Nothing /\ requested = {}

\* Who names fields has one message under way and is never told that nothing
\* matches.
TurnInv ==
  ~subscription.pattern =>
    /\ handler # "pausing"
    /\ Len(requests) + Len(replies) <= 1
    /\ (replies # <<>> \/ \E i \in DOMAIN requests : requests[i] = "ready") => requested # {}

\* What was sent last is no later than what was cached last.
CursorInv ==
  \A f \in Field : Rising(cache[f]) /\ (sent_ts[f] # NONE => sent_ts[f] <= Top(cache[f]))

\* The reader's records, those of the messages under way, one after the
\* other, and those still to be sent follow each other.
FlowInv ==
  \A f \in Field :
    /\ Rising(got[f])
    /\ \A i \in DOMAIN replies : Rising(replies[i].data[f]) /\ Before(ToSet(got[f]), Carried(i, f))
    /\ \A i, j \in DOMAIN replies : i < j => Before(Carried(i, f), Carried(j, f))
    /\ \A r \in Delivered(f) : sent_ts[f] # NONE /\ r.ts <= sent_ts[f]

\* What is still to be sent is asked for, and what was asked for and is
\* cached has been sent or is still to be.
AskedInv ==
  ~subscription.pattern =>
    \A f \in Field : sent_ts[f] # NONE =>
      \A r \in ToSet(cache[f]) : r.ts > sent_ts[f] => r \in due[f]

-----------------------------------------------------------------------------
(***************************************************************************)
(* Least and greatest elements, and sets in ascending order.               *)
(***************************************************************************)
\* Sets of natural numbers have a least element.
LEMMA LeastIsLeast ==
  ASSUME NEW S \in SUBSET Nat, S # {}
  PROVE  Least(S) \in S /\ \A j \in S : Least(S) <= j
<1>1. PICK R : /\ \A i, j \in Nat : <<j, i>> \notin R => i <= j
               /\ IsWellFoundedOn(R, Nat)
  <2>1. \A i, j \in Nat : <<j, i>> \notin OpToRel(<, Nat) => ~(j < i)
    BY Zenon DEF OpToRel
  <2>2. \A i, j \in Nat : ~(j < i) => i <= j
    OBVIOUS
  <2>3. QED
    BY <2>1, <2>2, NatLessThanWellFounded, Zenon
<1>2. PICK i \in S : \A j \in S : <<j, i>> \notin R
  BY <1>1, WFMin
<1>3. \A j \in S : i <= j
  BY <1>1, <1>2
<1>4. QED
  BY <1>3 DEF Least

\* Sets of natural numbers that are bounded have a greatest element: the
\* least of their bounds is in them.
LEMMA GreatestIsGreatest ==
  ASSUME NEW S \in SUBSET Nat, S # {}, NEW u \in Nat, \A i \in S : i <= u
  PROVE  Greatest(S) \in S /\ \A i \in S : i <= Greatest(S)
<1> DEFINE Bounds == {b \in Nat : \A i \in S : i <= b}
           g == Least(Bounds)
<1>1. g \in Bounds /\ \A b \in Bounds : g <= b
  BY LeastIsLeast
<1> HIDE DEF g
<1>2. g \in S
  <2>1. SUFFICES ASSUME g \notin S PROVE FALSE
    OBVIOUS
  <2>2. g \in Nat /\ \A i \in S : i <= g - 1
    BY <1>1, <2>1
  <2>3. g - 1 \in Nat
    <3>1. PICK i \in S : TRUE
      OBVIOUS
    <3>2. i \in Nat /\ i <= g - 1
      BY <2>2
    <3>3. QED
      BY <2>2, <3>2
  <2>4. g - 1 \in Bounds
    BY <2>2, <2>3
  <2>5. QED
    BY <1>1, <2>2, <2>4
<1>3. QED
  BY <1>1, <1>2 DEF Greatest

Enumerates(a, n, S) ==
  /\ a \in [1..n -> S]
  /\ \A i, j \in 1..n : i < j => a[i] < a[j]
  /\ \A x \in S : \E i \in 1..n : a[i] = x

\* By the least bound of a set that could not be enumerated.
LEMMA CanBeEnumerated ==
  ASSUME NEW S \in SUBSET Nat, NEW u \in Nat, \A i \in S : i <= u
  PROVE  \E n \in Nat : \E a : Enumerates(a, n, S)
<1> DEFINE Listed(T) == \E n \in Nat : \E a : Enumerates(a, n, T)
           Bad == {b \in Nat : \E T \in SUBSET Nat : (\A i \in T : i < b) /\ ~Listed(T)}
<1>1. Listed({})
  <2>1. Enumerates(<<>>, 0, {})
    BY DEF Enumerates
  <2>2. QED
    BY <2>1
<1>2. Bad = {}
  <2>1. SUFFICES ASSUME Bad # {} PROVE FALSE
    OBVIOUS
  <2>2. Bad \in SUBSET Nat
    OBVIOUS
  <2> DEFINE b == Least(Bad)
  <2>3. b \in Bad /\ \A c \in Bad : b <= c
    BY <2>1, <2>2, LeastIsLeast
  <2> HIDE DEF b
  <2>4. PICK T \in SUBSET Nat : (\A i \in T : i < b) /\ ~Listed(T)
    BY <2>3
  <2>5. PICK x \in T : TRUE
    BY <1>1, <2>4
  <2>6. b \in Nat /\ b - 1 \in Nat /\ b - 1 \notin Bad
    <3>1. b \in Nat /\ x \in Nat /\ x < b
      BY <2>3, <2>4, <2>5
    <3>2. ~(b <= b - 1) /\ b - 1 \in Nat
      BY <3>1
    <3>3. QED
      BY <2>3, <3>1, <3>2
  <2> DEFINE R == T \ {b - 1}
  <2>7. R \in SUBSET Nat /\ \A i \in R : i < b - 1
    BY <2>4, <2>6
  <2>8. Listed(R)
    BY <2>6, <2>7
  <2>9. PICK n \in Nat : \E a : Enumerates(a, n, R)
    BY <2>8
  <2>10. PICK a : Enumerates(a, n, R)
    BY <2>9
  <2>11. CASE b - 1 \notin T
    <3>1. R = T
      BY <2>11
    <3>2. QED
      BY <2>4, <2>10, <3>1
  <2>12. CASE b - 1 \in T
    <3> DEFINE c == [i \in 1..(n + 1) |-> IF i = n + 1 THEN b - 1 ELSE a[i]]
    <3>1. c \in [1..(n + 1) -> T]
      BY <2>10, <2>12 DEF Enumerates
    <3>2. \A i, j \in 1..(n + 1) : i < j => c[i] < c[j]
      <4>1. SUFFICES ASSUME NEW i \in 1..(n + 1), NEW j \in 1..(n + 1), i < j
                     PROVE  c[i] < c[j]
        OBVIOUS
      <4>2. i \in 1..n /\ c[i] = a[i] /\ a[i] \in R
        BY <2>10, <4>1 DEF Enumerates
      <4>3. CASE j = n + 1
        BY <2>7, <4>2, <4>3
      <4>4. CASE j # n + 1
        <5>1. j \in 1..n /\ c[j] = a[j]
          BY <4>4
        <5>2. QED
          BY <2>10, <4>1, <4>2, <5>1 DEF Enumerates
      <4>5. QED
        BY <4>3, <4>4
    <3>3. \A y \in T : \E i \in 1..(n + 1) : c[i] = y
      <4>1. SUFFICES ASSUME NEW y \in T PROVE \E i \in 1..(n + 1) : c[i] = y
        OBVIOUS
      <4>2. CASE y = b - 1
        BY <4>2
      <4>3. CASE y # b - 1
        <5>1. PICK i \in 1..n : a[i] = y
          BY <2>10, <4>3 DEF Enumerates
        <5>2. i \in 1..(n + 1) /\ c[i] = y
          BY <5>1
        <5>3. QED
          BY <5>2
      <4>4. QED
        BY <4>2, <4>3
    <3>4. Enumerates(c, n + 1, T)
      BY <3>1, <3>2, <3>3 DEF Enumerates
    <3>5. QED
      BY <2>4, <3>4
  <2>13. QED
    BY <2>11, <2>12
<1>3. u + 1 \in Nat /\ \A i \in S : i < u + 1
  OBVIOUS
<1>4. QED
  BY <1>2, <1>3

\* What Ascending chooses is an enumeration.
LEMMA AscendingEnumerates ==
  ASSUME NEW S \in SUBSET Nat, NEW u \in Nat, \A i \in S : i <= u
  PROVE  /\ Cardinality(S) \in Nat
         /\ Enumerates(Ascending(S), Cardinality(S), S)
<1> DEFINE Up(a, n) == \A i, j \in 1..n : i < j => a[i] < a[j]
<1>1. IsFiniteSet(S) /\ Cardinality(S) \in Nat
  BY FS_BoundedSetOfNaturals, FS_CardinalityType
<1>2. \A n \in Nat : \A a \in [1..n -> S] : Up(a, n) => a \in Injection(1..n, S)
  <2>1. SUFFICES ASSUME NEW n \in Nat, NEW a \in [1..n -> S], Up(a, n),
                        NEW i \in 1..n, NEW j \in 1..n, a[i] = a[j], i # j
                 PROVE  FALSE
    BY DEF Injection, IsInjective
  <2>2. a[i] \in Nat /\ a[j] \in Nat
    BY <2>1
  <2>3. i < j \/ j < i
    BY <2>1
  <2>4. QED
    BY <2>1, <2>2, <2>3
<1>3. PICK n \in Nat : \E a : Enumerates(a, n, S)
  BY CanBeEnumerated
<1>4. PICK a : Enumerates(a, n, S)
  BY <1>3
<1>5. n = Cardinality(S)
  <2>1. a \in Injection(1..n, S) /\ a \in Surjection(1..n, S)
    BY <1>2, <1>4 DEF Enumerates, Surjection
  <2>2. ExistsBijection(1..n, S)
    BY <2>1 DEF ExistsBijection, Bijection
  <2>3. QED
    BY <2>2, FS_CountingElements
<1>6. ASSUME NEW k \in 1..n PROVE Cardinality({j \in S : j < a[k]}) = k - 1
  <2> DEFINE T == {j \in S : j < a[k]}
             b == [i \in 1..(k - 1) |-> a[i]]
  <2>1. k - 1 \in Nat /\ \A i \in 1..(k - 1) : i \in 1..n /\ i < k
    OBVIOUS
  <2>2. b \in [1..(k - 1) -> T]
    BY <1>4, <2>1 DEF Enumerates
  <2>3. b \in Injection(1..(k - 1), T)
    <3>1. T \in SUBSET Nat /\ \A i, j \in 1..(k - 1) : i < j => b[i] < b[j]
      BY <1>4, <2>1 DEF Enumerates
    <3>2. SUFFICES ASSUME NEW i \in 1..(k - 1), NEW j \in 1..(k - 1), b[i] = b[j], i # j
                   PROVE  FALSE
      BY <2>2 DEF Injection, IsInjective
    <3>3. (i < j \/ j < i) /\ b[i] \in Nat /\ b[j] \in Nat
      BY <2>2, <3>1, <3>2
    <3>4. QED
      BY <3>1, <3>2, <3>3
  <2>4. b \in Surjection(1..(k - 1), T)
    <3>1. SUFFICES ASSUME NEW x \in T PROVE \E i \in 1..(k - 1) : b[i] = x
      BY <2>2 DEF Surjection
    <3>2. PICK i \in 1..n : a[i] = x
      BY <1>4 DEF Enumerates
    <3>3. a[i] \in Nat /\ a[k] \in Nat /\ a[i] < a[k]
      BY <1>4, <3>2 DEF Enumerates
    <3>4. ~(k <= i)
      BY <1>4, <3>3 DEF Enumerates
    <3>5. QED
      BY <3>2, <3>4
  <2>5. ExistsBijection(1..(k - 1), T)
    BY <2>3, <2>4 DEF ExistsBijection, Bijection
  <2>6. QED
    BY <2>1, <2>5, FS_CountingElements
<1>7. ASSUME NEW k \in 1..n PROVE Ascending(S)[k] = a[k]
  <2>1. a[k] \in S
    BY <1>4 DEF Enumerates
  <2>2. ASSUME NEW x \in S, Cardinality({j \in S : j < x}) = k - 1
        PROVE  x = a[k]
    <3>1. PICK i \in 1..n : a[i] = x
      BY <1>4 DEF Enumerates
    <3>2. i - 1 = k - 1
      BY <1>6, <2>2, <3>1
    <3>3. QED
      BY <3>1, <3>2
  <2>3. Ascending(S)[k] = CHOOSE x \in S : Cardinality({j \in S : j < x}) = k - 1
    BY <1>5 DEF Ascending
  <2>4. QED
    BY <1>6, <2>1, <2>2, <2>3
<1>8. Ascending(S) = a
  <2>1. Ascending(S) = [k \in 1..n |-> Ascending(S)[k]]
    BY <1>5 DEF Ascending
  <2>2. a = [k \in 1..n |-> a[k]]
    BY <1>4 DEF Enumerates
  <2>3. QED
    BY <1>7, <2>1, <2>2
<1>9. QED
  BY <1>1, <1>4, <1>5, <1>8
-----------------------------------------------------------------------------
(***************************************************************************)
(* What a field's records become on their way.                             *)
(***************************************************************************)
LEMMA RecordTypes ==
  ASSUME NEW list \in Seq(Record)
  PROVE  /\ Len(list) \in Nat /\ DOMAIN list = 1..Len(list)
         /\ \A i \in 1..Len(list) : list[i] \in Record /\ list[i].ts \in 1..TimeBound
         /\ ToSet(list) = {list[i] : i \in 1..Len(list)}
         /\ list # <<>> => Len(list) \in 1..Len(list)
         /\ list # <<>> => Newest(list) \in 1..TimeBound
<1>1. Len(list) \in Nat /\ DOMAIN list = 1..Len(list)
  OBVIOUS
<1>2. \A i \in 1..Len(list) : list[i] \in Record /\ list[i].ts \in 1..TimeBound
  <2>1. \A r \in Record : r.ts \in 1..TimeBound
    BY DEF Record
  <2>2. \A i \in 1..Len(list) : list[i] \in Record
    OBVIOUS
  <2>3. QED
    BY <2>1, <2>2
<1>3. ToSet(list) = {list[i] : i \in 1..Len(list)}
  BY <1>1 DEF ToSet
<1>4. list # <<>> => Len(list) \in 1..Len(list)
  OBVIOUS
<1>5. QED
  BY <1>1, <1>2, <1>3, <1>4 DEF Newest

\* Records that are chosen stay in their order; the last one stays the last.
LEMMA ChosenKeepsOrder ==
  ASSUME NEW list \in Seq(Record), NEW S \in SUBSET (1..Len(list))
  PROVE  /\ Chosen(list, S) \in Seq(Record)
         /\ ToSet(Chosen(list, S)) = {list[i] : i \in S}
         /\ Rising(list) => Rising(Chosen(list, S))
         /\ Len(list) \in S => Chosen(list, S) # <<>> /\ Newest(Chosen(list, S)) = Newest(list)
<1> DEFINE n == Cardinality(S)
           a == Ascending(S)
           c == Chosen(list, S)
<1>1. Len(list) \in Nat /\ S \in SUBSET Nat /\ \A i \in S : i <= Len(list)
  OBVIOUS
<1>2. n \in Nat /\ Enumerates(a, n, S)
  BY <1>1, AscendingEnumerates
<1> HIDE DEF n, a
<1>3. c = [k \in 1..n |-> list[a[k]]] /\ \A k \in 1..n : a[k] \in S
  BY <1>2 DEF Chosen, Enumerates, n, a
<1> HIDE DEF c
<1>4. c \in Seq(Record) /\ Len(c) = n /\ DOMAIN c = 1..n
  <2>1. \A k \in 1..n : list[a[k]] \in Record
    BY <1>3, RecordTypes
  <2>2. QED
    BY <1>2, <1>3, <2>1
<1>5. ToSet(c) = {list[i] : i \in S}
  BY <1>2, <1>3, <1>4 DEF ToSet, Enumerates
<1>6. ASSUME Rising(list) PROVE Rising(c)
  <2>1. SUFFICES ASSUME NEW i \in 1..n, NEW j \in 1..n, i < j PROVE c[i].ts < c[j].ts
    BY <1>4 DEF Rising
  <2>2. a[i] < a[j] /\ a[i] \in DOMAIN list /\ a[j] \in DOMAIN list
    BY <1>2, <1>3, <2>1, RecordTypes DEF Enumerates
  <2>3. list[a[i]].ts < list[a[j]].ts
    BY <1>6, <2>2 DEF Rising
  <2>4. QED
    BY <1>3, <2>3
<1>7. ASSUME Len(list) \in S PROVE c # <<>> /\ Newest(c) = Newest(list)
  <2>1. PICK i \in 1..n : a[i] = Len(list)
    BY <1>2, <1>7 DEF Enumerates
  <2>2. n \in 1..n /\ a[n] \in S /\ (i = n \/ a[i] < a[n])
    BY <1>2, <1>3, <2>1 DEF Enumerates
  <2>3. a[n] = Len(list)
    <3>1. a[n] \in Nat /\ a[n] <= Len(list)
      BY <1>1, <2>2
    <3>2. QED
      BY <1>1, <2>1, <2>2, <3>1
  <2>4. QED
    BY <1>3, <1>4, <2>2, <2>3 DEF Newest
<1>8. QED
  BY <1>4, <1>5, <1>6, <1>7 DEF c

\* What is sent of a list, and when nothing is.
LEMMA LaterIsLater ==
  ASSUME NEW list \in Seq(Record), NEW ts \in Nat
  PROVE  /\ LaterThan(list, ts) \in Seq(Record)
         /\ \A r \in ToSet(LaterThan(list, ts)) : r \in ToSet(list) /\ r.ts > ts
         /\ Rising(list) =>
              /\ Rising(LaterThan(list, ts))
              /\ \A r \in ToSet(list) : r.ts > ts => r \in ToSet(LaterThan(list, ts))
              /\ LaterThan(list, ts) # <<>> => Newest(LaterThan(list, ts)) = Newest(list)
<1> DEFINE S == {i \in 1..Len(list) : list[i].ts > ts}
<1>1. CASE list = <<>> \/ ~(Newest(list) > ts)
  <2>1. LaterThan(list, ts) = <<>>
    BY <1>1 DEF LaterThan, HasNews
  <2>2. ToSet(<<>>) = {} /\ Rising(<<>>) /\ <<>> \in Seq(Record)
    BY DEF ToSet, Rising
  <2>3. Rising(list) => \A r \in ToSet(list) : ~(r.ts > ts)
    <3>1. SUFFICES ASSUME Rising(list), NEW i \in 1..Len(list) PROVE ~(list[i].ts > ts)
      BY RecordTypes
    <3>2. list # <<>> /\ (i = Len(list) \/ list[i].ts < Newest(list))
      BY <3>1, RecordTypes DEF Rising, Newest
    <3>3. list[i].ts <= Newest(list)
      BY <3>2, RecordTypes DEF Newest
    <3>4. QED
      BY <1>1, <3>2, <3>3, RecordTypes
  <2>4. QED
    BY <2>1, <2>2, <2>3
<1>2. CASE list # <<>> /\ Newest(list) > ts
  <2>1. LaterThan(list, ts) = Chosen(list, S)
    BY <1>2, RecordTypes DEF LaterThan, HasNews
  <2>2. Len(list) \in S
    BY <1>2, RecordTypes DEF Newest
  <2>3. ToSet(Chosen(list, S)) = {list[i] : i \in S}
    BY ChosenKeepsOrder
  <2>4. ToSet(list) = {list[i] : i \in 1..Len(list)}
    BY RecordTypes
  <2>5. \A r \in ToSet(Chosen(list, S)) : r \in ToSet(list) /\ r.ts > ts
    BY <2>3, <2>4
  <2>6. \A r \in ToSet(list) : r.ts > ts => r \in ToSet(Chosen(list, S))
    BY <2>3, <2>4
  <2>7. QED
    BY <2>1, <2>2, <2>5, <2>6, ChosenKeepsOrder
<1>3. QED
  BY <1>1, <1>2

\* What the reader makes of what it is sent: records of later and later
\* times, and if they were so already, the same.
LEMMA CollatedInOrder ==
  ASSUME NEW list \in Seq(Record)
  PROVE  /\ Collated(list) \in Seq(Record)
         /\ Rising(Collated(list))
         /\ ToSet(Collated(list)) \subseteq ToSet(list)
         /\ Rising(list) => ToSet(Collated(list)) = ToSet(list)
<1> DEFINE times == {list[i].ts : i \in 1..Len(list)}
           At(t) == {i \in 1..Len(list) : list[i].ts = t}
           n == Cardinality(times)
           a == Ascending(times)
           c == Collated(list)
<1>1. times \in SUBSET Nat /\ TimeBound \in Nat /\ \A t \in times : t <= TimeBound
  BY RecordTypes, ServerAssumption
<1>2. n \in Nat /\ Enumerates(a, n, times)
  BY <1>1, AscendingEnumerates
<1>3. \A t \in times : Greatest(At(t)) \in At(t)
  <2>1. SUFFICES ASSUME NEW t \in times PROVE Greatest(At(t)) \in At(t)
    OBVIOUS
  <2>2. At(t) \in SUBSET Nat /\ At(t) # {} /\ Len(list) \in Nat /\ \A i \in At(t) : i <= Len(list)
    OBVIOUS
  <2>3. QED
    BY <2>2, GreatestIsGreatest
<1>4. c = [k \in 1..n |-> list[Greatest(At(a[k]))]]
  BY DEF Collated
<1> HIDE DEF n, a, c
<1>5. \A k \in 1..n : /\ a[k] \in times
                      /\ Greatest(At(a[k])) \in 1..Len(list)
                      /\ c[k] = list[Greatest(At(a[k]))]
                      /\ c[k] \in Record /\ c[k] \in ToSet(list) /\ c[k].ts = a[k]
  <2>1. \A k \in 1..n : a[k] \in times
    BY <1>2 DEF Enumerates
  <2>2. QED
    BY <1>3, <1>4, <2>1, RecordTypes
<1>6. c \in Seq(Record) /\ DOMAIN c = 1..n /\ Len(c) = n
  BY <1>2, <1>4, <1>5
<1>7. Rising(c)
  <2>1. SUFFICES ASSUME NEW i \in 1..n, NEW j \in 1..n, i < j PROVE c[i].ts < c[j].ts
    BY <1>6 DEF Rising
  <2>2. a[i] < a[j]
    BY <1>2, <2>1 DEF Enumerates
  <2>3. QED
    BY <1>5, <2>2
<1>8. ToSet(c) \subseteq ToSet(list)
  BY <1>5, <1>6 DEF ToSet
<1>9. ASSUME Rising(list), NEW i \in 1..Len(list) PROVE list[i] \in ToSet(c)
  <2>1. PICK k \in 1..n : a[k] = list[i].ts
    BY <1>2 DEF Enumerates
  <2>2. PICK j \in 1..Len(list) : c[k] = list[j] /\ list[j].ts = list[i].ts
    BY <1>5, <2>1
  <2>3. j = i
    BY SMTT(30), <1>9, <2>2, RecordTypes DEF Rising
  <2>4. QED
    BY <1>6, <2>2, <2>3 DEF ToSet
<1>10. Rising(list) => ToSet(list) \subseteq ToSet(c)
  BY <1>9, RecordTypes
<1>11. QED
  BY <1>6, <1>7, <1>8, <1>10 DEF c

\* Where a subscription begins is a time that is cached, or 0.
LEMMA BeginsInCache ==
  ASSUME NEW list \in Seq(Record), NEW spec \in Subscription, NEW t \in Int
  PROVE  /\ InitialTimestamp(list, spec, t) \in 0..TimeBound
         /\ Rising(list) => InitialTimestamp(list, spec, t) <= Top(list)
<1> DEFINE ts == InitialTimestamp(list, spec, t)
           old == TooOld(list, spec, t)
<1>1. spec.seconds \in Nat \cup {-1} /\ spec.back_records \in Nat
  BY DEF Subscription
<1>2. Len(list) \in Nat /\ TimeBound \in Nat \ {0}
  BY ServerAssumption
<1>3. ASSUME NEW i \in 1..Len(list)
      PROVE  /\ list[i].ts \in 0..TimeBound
             /\ Rising(list) => list[i].ts <= Top(list)
  <2>1. list # <<>> /\ list[i].ts \in 1..TimeBound /\ Newest(list) \in 1..TimeBound
    BY RecordTypes
  <2>2. Rising(list) => i = Len(list) \/ list[i].ts < list[Len(list)].ts
    BY <2>1, RecordTypes DEF Rising
  <2>3. QED
    BY <2>1, <2>2 DEF Top, Newest
<1>4. ts = 0 \/ \E i \in 1..Len(list) : ts = list[i].ts
  <2>1. CASE list = <<>>
    BY <2>1 DEF InitialTimestamp
  <2>2. CASE list # <<>>
    <3>1. Len(list) \in 1..Len(list)
      BY <2>2, RecordTypes
    <3>2. CASE spec.seconds = 0
      BY <2>2, <3>1, <3>2 DEF InitialTimestamp, Newest
    <3>3. CASE spec.seconds = -1
      <4>1. ts = IF Len(list) > 1 THEN list[Len(list) - 1].ts ELSE 0
        BY <2>2, <3>3 DEF InitialTimestamp
      <4>2. Len(list) > 1 => Len(list) - 1 \in 1..Len(list)
        BY <3>1
      <4>3. QED
        BY <4>1, <4>2
    <3>4. CASE spec.seconds # 0 /\ spec.seconds # -1
      <4>1. ts = IF old = {} THEN 0
                 ELSE LET i == Greatest(old) IN IF i = 1 THEN Newest(list) ELSE list[i - 1].ts
        BY <2>2, <3>4 DEF InitialTimestamp
      <4>2. CASE old = {}
        BY <4>1, <4>2
      <4>3. CASE old # {}
        <5>1. old \in SUBSET Nat /\ \A i \in old : i \in 1..Len(list)
          BY <1>1, <1>2 DEF TooOld
        <5>2. Greatest(old) \in 1..Len(list)
          <6> HIDE DEF old
          <6>1. \A i \in old : i <= Len(list)
            BY <1>2, <5>1
          <6>2. Greatest(old) \in old
            BY <1>2, <4>3, <5>1, <6>1, GreatestIsGreatest
          <6>3. QED
            BY <5>1, <6>2
        <5>3. Greatest(old) # 1 => Greatest(old) - 1 \in 1..Len(list)
          BY <1>2, <5>2
        <5>4. QED
          BY <3>1, <4>1, <4>3, <5>2, <5>3 DEF Newest
      <4>4. QED
        BY <4>2, <4>3
    <3>5. QED
      BY <3>2, <3>3, <3>4
  <2>3. QED
    BY <2>1, <2>2
<1>5. 0 \in 0..TimeBound /\ (Rising(list) => 0 <= Top(list))
  BY <1>2, RecordTypes DEF Top
<1> HIDE DEF ts
<1>6. ts \in 0..TimeBound /\ (Rising(list) => ts <= Top(list))
  BY <1>3, <1>4, <1>5
<1>7. QED
  BY <1>6 DEF ts

\* Whatever the limit, cleanup keeps the newest record.
LEMMA NewestIsKept ==
  ASSUME NEW list \in Seq(Record), NEW limit \in Int
  PROVE  /\ CleanedUp(list, limit) \in Seq(Record)
         /\ ToSet(CleanedUp(list, limit)) \subseteq ToSet(list)
         /\ CleanedUp(list, limit) = <<>> <=> list = <<>>
         /\ Top(CleanedUp(list, limit)) = Top(list)
         /\ Rising(list) => Rising(CleanedUp(list, limit))
<1> DEFINE kept  == Truncated(list)
           young == Young(kept, limit)
           first == IF young = {} THEN Len(kept) - MinBack ELSE Least(young)
           c     == CleanedUp(list, limit)
<1> USE CleanupAssumption
<1>1. CASE Len(list) <= MinBack
  BY <1>1 DEF CleanedUp
<1>2. CASE Len(list) > MinBack
  <2>1. PICK off \in 0..(Len(list) - 1) :
          /\ kept = SubSeq(list, off + 1, Len(list))
          /\ Len(kept) = Len(list) - off /\ Len(kept) > MinBack
    <3>1. CASE MaxRecords > MinBack /\ Len(list) > MaxRecords
      <4> DEFINE o == Len(list) - MaxRecords
      <4>1. o \in 0..(Len(list) - 1) /\ Len(list) - MaxRecords + 1 = o + 1 /\ Len(list) - o = MaxRecords
        BY <3>1
      <4>2. kept = SubSeq(list, o + 1, Len(list))
        BY <3>1, <4>1 DEF Truncated, LastOf
      <4>3. Len(kept) = Len(list) - o
        BY SMTT(30), <4>1, <4>2
      <4>4. QED
        BY <3>1, <4>1, <4>2, <4>3
    <3>2. CASE ~(MaxRecords > MinBack /\ Len(list) > MaxRecords)
      <4>1. kept = list /\ list = SubSeq(list, 0 + 1, Len(list))
        BY <3>2 DEF Truncated
      <4>2. 0 \in 0..(Len(list) - 1) /\ Len(kept) = Len(list) - 0 /\ Len(kept) > MinBack
        BY <1>2, <4>1
      <4>3. QED
        BY <4>1, <4>2
    <3>3. QED
      BY <3>1, <3>2
  <2>2. kept \in Seq(Record) /\ Len(kept) \in Nat
    BY <2>1
  <2>3. first \in 1..Len(kept)
    <3>1. young \in SUBSET Nat /\ \A i \in young : i \in 1..Len(kept)
      BY <2>2 DEF Young
    <3>2. young # {} => Least(young) \in young
      BY <3>1, LeastIsLeast
    <3>3. QED
      BY <2>1, <2>2, <3>1, <3>2
  <2>4. c = SubSeq(kept, first, Len(kept))
    <3>1. ~(Len(list) <= MinBack)
      BY <1>2
    <3>2. QED
      BY <3>1 DEF CleanedUp
  <2> HIDE DEF c, first, young, kept
  <2> DEFINE gone == off + first - 1
  <2>5. gone \in 0..(Len(list) - 1) /\ c = SubSeq(list, gone + 1, Len(list))
    BY <2>1, <2>3, <2>4
  <2> HIDE DEF gone
  <2>6. /\ c \in Seq(Record) /\ Len(c) = Len(list) - gone
        /\ \A i \in 1..Len(c) : gone + i \in 1..Len(list) /\ c[i] = list[gone + i]
    BY <2>5
  <2>7. ToSet(c) \subseteq ToSet(list)
    BY <2>6, RecordTypes
  <2>8. c # <<>> /\ list # <<>> /\ Newest(c) = Newest(list)
    <3>1. Len(c) \in 1..Len(c) /\ gone + Len(c) = Len(list) /\ Len(list) # 0
      BY <2>5, <2>6
    <3>2. c[Len(c)] = list[Len(list)]
      BY <2>6, <3>1
    <3>3. QED
      BY <3>1, <3>2 DEF Newest
  <2>9. ASSUME Rising(list), NEW i \in 1..Len(c), NEW j \in 1..Len(c), i < j
        PROVE  c[i].ts < c[j].ts
    <3>1. gone + i < gone + j
      BY <2>5, <2>9
    <3>2. QED
      BY <2>6, <2>9, <3>1, RecordTypes DEF Rising
  <2>10. Rising(list) => Rising(c)
    BY <2>6, <2>9 DEF Rising
  <2>11. QED
    BY <2>6, <2>7, <2>8, <2>10 DEF Top, c
<1>3. QED
  BY <1>1, <1>2

-----------------------------------------------------------------------------
(***************************************************************************)
(* The invariants that hold whatever the order of the timestamps is.       *)
(***************************************************************************)
Replies == [kind : {"subscribed", "no match", "data"}, data : [Field -> Seq(Record)]]

Talking == TypeOK /\ PhaseInv /\ TurnInv

LEMMA EmptyIsTyped ==
  /\ <<>> \in Seq(Record) /\ Nothing \in [Field -> Seq(Record)]
  /\ Reply("subscribed", Nothing) \in Replies /\ Reply("no match", Nothing) \in Replies
  /\ \A f \in Field : ToSet(Nothing[f]) = {} /\ Rising(Nothing[f])
BY DEF Nothing, Reply, Replies, ToSet, Rising

LEMMA Limits ==
  /\ BackSeconds \in Nat /\ RecordBound \in Nat /\ LossBound \in Nat
  /\ TimeBound \in Nat \ {0}
BY ServerAssumption

LEMMA Counters ==
  ASSUME TypeOK
  PROVE  now \in 1..TimeBound /\ now \in Int /\ made \in 0..RecordBound /\ losses \in 0..LossBound
<1>1. now \in 1..TimeBound /\ made \in 0..RecordBound /\ losses \in 0..LossBound
  BY DEF TypeOK
<1>2. QED
  BY <1>1

\* Types: the records', and the conversation's.
LEMMA Lists ==
  TypeOK => /\ cache \in [Field -> Seq(Record)] /\ got \in [Field -> Seq(Record)]
            /\ due \in [Field -> SUBSET Record]
            /\ requests \in Seq({"subscribe", "ready"}) /\ replies \in Seq(Replies)
            /\ sent_ts \in [Field -> 0..TimeBound \cup {NONE}]
BY DEF TypeOK, Replies

LEMMA NoneIsNoTime ==
  /\ NONE \notin Int
  /\ TypeOK => \A f \in Field : sent_ts[f] # NONE => sent_ts[f] \in 0..TimeBound
BY ServerAssumption DEF TypeOK

\* The first message, and the others.
LEMMA RepliesInTurn ==
  ASSUME TypeOK, replies # <<>>
  PROVE  /\ Head(replies) \in Replies /\ Head(replies) = replies[1]
         /\ Tail(replies) \in Seq(Replies)
         /\ Len(Tail(replies)) = Len(replies) - 1
         /\ Len(replies) \in Nat \ {0} /\ 1 \in DOMAIN replies
         /\ \A i \in DOMAIN Tail(replies) : i + 1 \in DOMAIN replies /\ Tail(replies)[i] = replies[i + 1]
<1>1. replies \in Seq(Replies)
  BY DEF TypeOK, Replies
<1> HIDE DEF Replies
<1>2. /\ Len(replies) \in Nat \ {0} /\ 1 \in DOMAIN replies
      /\ Head(replies) = replies[1] /\ Head(replies) \in Replies
  BY <1>1
<1>3. Tail(replies) \in Seq(Replies) /\ Len(Tail(replies)) = Len(replies) - 1
  BY <1>1
<1>4. \A i \in DOMAIN Tail(replies) : i + 1 \in DOMAIN replies /\ Tail(replies)[i] = replies[i + 1]
  BY <1>1, <1>2, <1>3
<1>5. QED
  BY <1>2, <1>3, <1>4

\* A subscription is the only request, so that what is left is none.
LEMMA RequestsInTurn ==
  ASSUME Talking, NEW q, Receive(q)
  PROVE  /\ q \in {"subscribe", "ready"}
         /\ requests' \in Seq({"subscribe", "ready"})
         /\ Len(requests') = Len(requests) - 1
         /\ \A i \in DOMAIN requests' : requests'[i] = "ready"
         /\ q = "subscribe" => requests' = <<>> /\ replies = <<>> /\ got = Nothing /\ requested = {}
         /\ q = "ready" => \E i \in DOMAIN requests : requests[i] = "ready"
         /\ reader # "connecting" /\ handler = "receiving"
<1>1. /\ requests \in Seq({"subscribe", "ready"}) /\ requests # <<>>
      /\ requests[1] = q /\ 1 \in DOMAIN requests /\ requests' = Tail(requests)
      /\ handler = "receiving"
  <2>1. requests \in Seq({"subscribe", "ready"}) /\ requests # <<>> /\ Head(requests) = q
        /\ requests' = Tail(requests) /\ handler = "receiving"
    BY DEF Talking, TypeOK, Receive
  <2>2. Head(requests) = requests[1] /\ 1 \in DOMAIN requests
    BY <2>1
  <2>3. QED
    BY <2>1, <2>2
<1>2. q \in {"subscribe", "ready"} /\ requests' \in Seq({"subscribe", "ready"})
      /\ Len(requests') = Len(requests) - 1
      /\ \A i \in DOMAIN requests' : i + 1 \in DOMAIN requests /\ requests'[i] = requests[i + 1]
  BY <1>1
<1>3. ASSUME NEW i \in DOMAIN requests' PROVE requests'[i] = "ready"
  <2>1. Len(requests) # 1
    BY <1>1, <1>2, <1>3
  <2>2. requests[i + 1] # "subscribe" /\ requests[i + 1] \in {"subscribe", "ready"}
    BY <1>1, <1>2, <1>3, <2>1 DEF Talking, PhaseInv
  <2>3. QED
    BY <1>2, <1>3, <2>2
<1>4. ASSUME q = "subscribe"
      PROVE  requests' = <<>> /\ replies = <<>> /\ got = Nothing /\ requested = {}
  <2>1. Len(requests) = 1 /\ replies = <<>> /\ got = Nothing /\ requested = {}
    BY <1>1, <1>4 DEF Talking, PhaseInv
  <2>2. QED
    BY <1>1, <1>2, <2>1
<1>5. reader # "connecting"
  BY <1>1 DEF Talking, PhaseInv
<1>6. QED
  BY <1>1, <1>2, <1>3, <1>4, <1>5

\* What a message with data carries, and the cursors after it.
LEMMA DataIsSent ==
  ASSUME Talking, SendData
  PROVE  \E results \in [Field -> Seq(Record)] :
           /\ results = [f \in Field |-> IF f \in requested THEN Later(f) ELSE <<>>]
           /\ Reply("data", results) \in Replies
           /\ replies' = Append(replies, Reply("data", results))
           /\ sent_ts' = [f \in Field |-> IF results[f] = <<>> THEN sent_ts[f] ELSE Newest(results[f])]
           /\ sent_ts' \in [Field -> 0..TimeBound \cup {NONE}]
           /\ \A f \in Field : sent_ts'[f] = NONE <=> sent_ts[f] = NONE
           /\ \A f \in Field : sent_ts[f] = NONE => results[f] = <<>>
           /\ handler' = "napping"
<1> DEFINE results == [f \in Field |-> IF f \in requested THEN Later(f) ELSE <<>>]
<1>1. \A f \in Field : f \in requested => cache[f] \in Seq(Record) /\ sent_ts[f] \in Nat
  <2>1. SUFFICES ASSUME NEW f \in Field, f \in requested
                 PROVE  cache[f] \in Seq(Record) /\ sent_ts[f] \in Nat
    OBVIOUS
  <2>2. sent_ts[f] \in 0..TimeBound
    BY <2>1, NoneIsNoTime DEF Talking, PhaseInv
  <2>3. cache[f] \in Seq(Record)
    BY DEF Talking, TypeOK
  <2>4. sent_ts[f] \in Nat
    BY <2>2
  <2>5. QED
    BY <2>3, <2>4
<1>2. results \in [Field -> Seq(Record)]
  BY <1>1, LaterIsLater, EmptyIsTyped DEF Later
<1>3. /\ replies' = Append(replies, Reply("data", results))
      /\ sent_ts' = [f \in Field |-> IF results[f] = <<>> THEN sent_ts[f] ELSE Newest(results[f])]
      /\ handler' = "napping"
  BY DEF SendData, Send
<1>4. \A f \in Field : sent_ts[f] = NONE => results[f] = <<>>
  BY DEF Talking, PhaseInv
<1> HIDE DEF results
<1>5. Reply("data", results) \in Replies
  BY <1>2 DEF Reply, Replies
<1>6. \A f \in Field : results[f] # <<>> => Newest(results[f]) \in 0..TimeBound /\ Newest(results[f]) # NONE
  BY <1>2, RecordTypes, NoneIsNoTime
<1>7. sent_ts' \in [Field -> 0..TimeBound \cup {NONE}]
  BY <1>3, <1>6 DEF Talking, TypeOK
<1>8. \A f \in Field : sent_ts'[f] = NONE <=> sent_ts[f] = NONE
  BY <1>3, <1>4, <1>6
<1>9. QED
  BY <1>2, <1>3, <1>4, <1>5, <1>7, <1>8 DEF results

\* A new connection.
ConversationTyped ==
  /\ requests \in Seq({"subscribe", "ready"}) /\ replies \in Seq(Replies)
  /\ got \in [Field -> Seq(Record)] /\ due \in [Field -> SUBSET Record]
  /\ sent_ts \in [Field -> 0..TimeBound \cup {NONE}]

LEMMA ConnectionIsNew == NoConnection => PhaseInv /\ TurnInv /\ ConversationTyped
<1> SUFFICES ASSUME NoConnection PROVE PhaseInv /\ TurnInv /\ ConversationTyped
  OBVIOUS
<1>1. PhaseInv
  BY DEF NoConnection, PhaseInv
<1>2. TurnInv
  BY DEF NoConnection, TurnInv
<1>3. requests \in Seq({"subscribe", "ready"}) /\ replies \in Seq(Replies)
  BY DEF NoConnection
<1>4. /\ got \in [Field -> Seq(Record)] /\ due \in [Field -> SUBSET Record]
      /\ sent_ts \in [Field -> 0..TimeBound \cup {NONE}]
  BY EmptyIsTyped DEF NoConnection
<1>5. QED
  BY <1>1, <1>2, <1>3, <1>4 DEF ConversationTyped

LEMMA TalkingStarts == Init => Talking
<1> SUFFICES ASSUME Init PROVE Talking
  OBVIOUS
<1>1. NoConnection /\ TimeBound \in Nat \ {0} /\ RecordBound \in Nat /\ LossBound \in Nat
  BY ServerAssumption DEF Init
<1>2. cache \in [Field -> Seq(Record)] /\ subscription \in Subscriptions
  BY EmptyIsTyped DEF Init
<1>3. now \in 1..TimeBound /\ made \in 0..RecordBound /\ losses \in 0..LossBound
  BY Limits DEF Init
<1>4. TypeOK
  BY <1>1, <1>2, <1>3, ConnectionIsNew DEF TypeOK, NoConnection, Replies, ConversationTyped
<1>5. QED
  BY <1>1, <1>4, ConnectionIsNew DEF Talking

\* The cache and the clock, which the conversation does not depend on.
LEMMA CacheKeepsTalking ==
  ASSUME Talking, CacheRecord \/ Tick \/ \E f \in Field : Cleanup(f)
  PROVE  Talking'
<1>1. /\ UNCHANGED <<reader, requests, replies, handler, requested, sent_ts, subscription, losses, got>>
  BY DEF CacheRecord, Tick, Cleanup, serverVars, linkVars, historyVars
<1>2. PhaseInv' /\ TurnInv'
  BY <1>1 DEF Talking, PhaseInv, TurnInv
<1>3. ASSUME CacheRecord
      PROVE  cache' \in [Field -> Seq(Record)] /\ due' \in [Field -> SUBSET Record]
             /\ now' = now /\ made' \in 0..RecordBound
  <2>1. PICK fields \in SUBSET Field \ {{}}, ts \in 1..now :
          LET r == [id |-> made + 1, ts |-> ts] IN
          /\ cache' = [f \in Field |-> IF f \in fields THEN Append(cache[f], r) ELSE cache[f]]
          /\ due' = [f \in Field |-> IF f \in fields /\ sent_ts[f] # NONE
                                     THEN due[f] \cup {r} ELSE due[f]]
    BY <1>3 DEF CacheRecord
  <2> DEFINE r == [id |-> made + 1, ts |-> ts]
  <2>2. made < RecordBound /\ made' = made + 1 /\ now' = now
    BY <1>3 DEF CacheRecord
  <2>3. made + 1 \in 1..RecordBound /\ made + 1 \in 0..RecordBound /\ ts \in 1..TimeBound
    BY <2>2, Limits, Counters DEF Talking
  <2>4. r \in Record
    BY <2>3 DEF Record
  <2> HIDE DEF r
  <2>5. cache' \in [Field -> Seq(Record)]
    <3>1. cache' = [f \in Field |-> IF f \in fields THEN Append(cache[f], r) ELSE cache[f]]
      BY <2>1 DEF r
    <3>2. cache \in [Field -> Seq(Record)]
      BY Lists DEF Talking
    <3>3. QED
      BY <2>4, <3>1, <3>2
  <2>6. due' \in [Field -> SUBSET Record]
    <3>1. due' = [f \in Field |-> IF f \in fields /\ sent_ts[f] # NONE THEN due[f] \cup {r} ELSE due[f]]
      BY <2>1 DEF r
    <3>2. due \in [Field -> SUBSET Record]
      BY Lists DEF Talking
    <3>3. QED
      BY <2>4, <3>1, <3>2
  <2>7. QED
    BY <2>2, <2>3, <2>5, <2>6
<1>4. ASSUME NEW f \in Field, Cleanup(f)
      PROVE  cache' \in [Field -> Seq(Record)] /\ due' = due /\ now' = now /\ made' = made
  <2>1. cache' = [cache EXCEPT ![f] = CleanedUp(@, now - BackSeconds)] /\ due' = due /\ now' = now
        /\ made' = made
    BY <1>4 DEF Cleanup, historyVars
  <2>2. now - BackSeconds \in Int
    BY Limits, Counters DEF Talking
  <2>3. cache[f] \in Seq(Record) /\ cache \in [Field -> Seq(Record)]
    BY DEF Talking, TypeOK
  <2>4. CleanedUp(cache[f], now - BackSeconds) \in Seq(Record)
    BY <2>2, <2>3, NewestIsKept
  <2>5. QED
    BY <2>1, <2>3, <2>4
<1>5. ASSUME Tick
      PROVE  cache' = cache /\ due' = due /\ now' \in 1..TimeBound /\ made' = made
  <2>1. now < TimeBound /\ now' = now + 1 /\ cache' = cache /\ due' = due /\ made' = made
    BY <1>5 DEF Tick, historyVars
  <2>2. QED
    BY <2>1, Limits, Counters DEF Talking
<1>6. TypeOK'
  BY <1>1, <1>3, <1>4, <1>5 DEF Talking, TypeOK
<1>7. QED
  BY <1>2, <1>6 DEF Talking

LEMMA ReaderKeepsTalking ==
  ASSUME Talking, Connect \/ ReadReply \/ LoseConnection
  PROVE  Talking'
<1> USE DEF cacheVars, serverVars, linkVars, historyVars
<1>1. CASE Connect
  <2>1. /\ reader = "connecting" /\ reader' = "subscribing"
        /\ requests' = Append(requests, "subscribe")
        /\ UNCHANGED <<cache, now, made, replies, handler, requested, sent_ts, subscription, losses,
                       got, due>>
    BY <1>1 DEF Connect
  <2>2. requests = <<>> /\ replies = <<>> /\ handler = "receiving" /\ got = Nothing /\ requested = {}
    BY <2>1 DEF Talking, PhaseInv
  <2>3. requests' = <<"subscribe">>
    BY <2>1, <2>2
  <2>4. TypeOK'
    <3>1. requests' \in Seq({"subscribe", "ready"})
      BY <2>3
    <3>2. QED
      BY <2>1, <3>1 DEF Talking, TypeOK
  <2>5. PhaseInv'
    BY <2>1, <2>2, <2>3 DEF Talking, PhaseInv
  <2>6. TurnInv'
    <3>1. Len(requests') + Len(replies') = 1
      BY <2>1, <2>2, <2>3
    <3>2. replies' = <<>> /\ \A i \in DOMAIN requests' : requests'[i] = "subscribe"
      BY <2>1, <2>2, <2>3
    <3>3. QED
      BY <2>1, <2>2, <3>1, <3>2 DEF TurnInv
  <2>7. QED
    BY <2>4, <2>5, <2>6 DEF Talking
<1>2. CASE ReadReply
  <2> DEFINE data == Head(replies).data
  <2>1. /\ replies # <<>> /\ replies' = Tail(replies)
        /\ got' = [f \in Field |-> got[f] \o Collated(data[f])]
        /\ reader' = "reading" /\ requests' = Append(requests, "ready")
        /\ UNCHANGED <<cache, now, made, handler, requested, sent_ts, subscription, losses, due>>
    BY <1>2 DEF ReadReply
  <2>2. data \in [Field -> Seq(Record)]
    BY <2>1, RepliesInTurn DEF Talking, Replies
  <2>3. got' \in [Field -> Seq(Record)]
    <3>1. got \in [Field -> Seq(Record)]
      BY Lists DEF Talking
    <3>2. \A f \in Field : Collated(data[f]) \in Seq(Record)
      BY <2>2, CollatedInOrder
    <3> HIDE DEF data
    <3>3. QED
      BY <2>1, <3>1, <3>2
  <2>4. requests \in Seq({"subscribe", "ready"}) /\ requests' \in Seq({"subscribe", "ready"})
    BY <2>1, Lists DEF Talking
  <2>5. \A i \in DOMAIN requests : requests[i] = "ready"
    BY <2>1, <2>4 DEF Talking, PhaseInv
  <2>6. \A i \in DOMAIN requests' : requests'[i] = "ready"
    BY <2>1, <2>4, <2>5
  <2>7. TypeOK'
    BY <2>1, <2>3, <2>4, RepliesInTurn DEF Talking, TypeOK, Replies
  <2>8. PhaseInv'
    BY <2>1, <2>6 DEF Talking, PhaseInv
  <2>9. TurnInv'
    <3>1. Len(requests') = Len(requests) + 1 /\ Len(replies') = Len(replies) - 1
          /\ Len(requests) \in Nat /\ Len(replies) \in Nat
      BY <2>1, <2>4, RepliesInTurn DEF Talking
    <3>2. QED
      BY <2>1, <3>1 DEF Talking, TurnInv
  <2>10. QED
    BY <2>7, <2>8, <2>9 DEF Talking
<1>3. CASE LoseConnection
  <2>1. NoConnection' /\ TimeBound \in Nat
    BY <1>3, ServerAssumption DEF LoseConnection, NoConnection
  <2>2. UNCHANGED <<cache, now, made, subscription>> /\ losses' \in 0..LossBound
    <3>1. UNCHANGED <<cache, now, made, subscription>> /\ losses < LossBound /\ losses' = losses + 1
      BY <1>3 DEF LoseConnection
    <3>2. QED
      BY <3>1, Limits, Counters DEF Talking
  <2>3. PhaseInv' /\ TurnInv' /\ ConversationTyped'
    BY <2>1, ConnectionIsNew, PTL
  <2>4. TypeOK'
    BY <2>1, <2>2, <2>3 DEF Talking, TypeOK, NoConnection, Replies, ConversationTyped
  <2>5. QED
    BY <2>3, <2>4 DEF Talking
<1>4. QED
  BY <1>1, <1>2, <1>3

LEMMA SubscribeKeepsTalking ==
  ASSUME Talking, HandleSubscribe
  PROVE  Talking'
<1> USE DEF cacheVars, serverVars, linkVars, historyVars
<1> DEFINE first(f) == IF subscription.pattern THEN 0 ELSE InitialTs(cache[f])
<1>1. /\ Receive("subscribe") /\ requested' = Matching
      /\ sent_ts' = [f \in Field |-> IF f \notin Matching THEN NONE ELSE first(f)]
      /\ due' = [f \in Field |-> IF f \in Matching THEN Promised(cache[f]) ELSE {}]
      /\ replies' = Append(replies, Reply("subscribed", Nothing))
      /\ UNCHANGED <<cache, now, made, reader, handler, subscription, losses, got>>
  BY DEF HandleSubscribe, Send
<1>2. /\ requests' = <<>> /\ replies = <<>> /\ got = Nothing
      /\ reader # "connecting" /\ handler = "receiving"
  BY <1>1, RequestsInTurn
<1>3. replies' \in Seq(Replies) /\ Len(replies') = 1 /\ requests' \in Seq({"subscribe", "ready"})
  <2> DEFINE answer == Reply("subscribed", Nothing)
  <2>1. answer \in Replies
    BY EmptyIsTyped
  <2>2. replies' = Append(<<>>, answer)
    BY <1>1, <1>2
  <2> HIDE DEF answer
  <2>3. QED
    BY <1>2, <2>1, <2>2
<1>4. /\ subscription \in Subscription
      /\ subscription.fields \in SUBSET Field /\ subscription.fields # {}
  <2>1. subscription \in Subscriptions
    BY DEF Talking, TypeOK
  <2>2. subscription \in Subscription /\ subscription.fields # {}
    BY <2>1, ServerAssumption
  <2>3. QED
    BY <2>2 DEF Subscription
<1>5. Matching \in SUBSET subscription.fields
  BY DEF Matching
<1>6. ASSUME NEW f \in Field PROVE first(f) \in 0..TimeBound
  <2>1. cache[f] \in Seq(Record) /\ now \in Int /\ TimeBound \in Nat
    BY Lists, Counters, Limits DEF Talking
  <2>2. QED
    BY <1>4, <2>1, BeginsInCache DEF InitialTs
<1>7. ASSUME NEW f \in Field PROVE Promised(cache[f]) \in SUBSET Record
  BY Lists, RecordTypes DEF Talking, Promised
<1> HIDE DEF first
<1>8. sent_ts' \in [Field -> 0..TimeBound \cup {NONE}] /\ due' \in [Field -> SUBSET Record]
  BY <1>1, <1>6, <1>7
<1>9. \A f \in Field : f \in requested' <=> sent_ts'[f] # NONE
  BY <1>1, <1>6, NoneIsNoTime
<1>10. TypeOK'
  BY <1>1, <1>2, <1>3, <1>5, <1>8 DEF Talking, TypeOK, Replies
<1>11. PhaseInv'
  BY <1>1, <1>2, <1>9 DEF PhaseInv
<1>12. TurnInv'
  <2>1. ~subscription.pattern => requested' # {}
    BY <1>1, <1>4 DEF Matching
  <2>2. Len(requests') + Len(replies') = 1
    BY <1>2, <1>3
  <2>3. QED
    BY <1>1, <1>2, <2>1, <2>2 DEF TurnInv
<1>13. QED
  BY <1>10, <1>11, <1>12 DEF Talking

LEMMA ReadyKeepsTalking ==
  ASSUME Talking, HandleReady \/ HandleReadyInVain \/ SendAfterPause \/ NapEnds
  PROVE  Talking'
<1> USE DEF cacheVars, serverVars, linkVars, historyVars
<1>1. UNCHANGED <<cache, now, made, reader, requested, subscription, losses, got, due>>
  BY DEF HandleReady, HandleReadyInVain, SendAfterPause, NapEnds
<1>2. CASE HandleReady
  <2>1. Receive("ready") /\ SendData
    BY <1>2 DEF HandleReady
  <2>2. PICK results \in [Field -> Seq(Record)] :
          /\ Reply("data", results) \in Replies
          /\ replies' = Append(replies, Reply("data", results))
          /\ sent_ts' \in [Field -> 0..TimeBound \cup {NONE}]
          /\ \A f \in Field : sent_ts'[f] = NONE <=> sent_ts[f] = NONE
          /\ handler' = "napping"
    BY <2>1, DataIsSent
  <2>3. /\ requests' \in Seq({"subscribe", "ready"}) /\ Len(requests') = Len(requests) - 1
        /\ \A i \in DOMAIN requests' : requests'[i] = "ready"
        /\ \E i \in DOMAIN requests : requests[i] = "ready"
        /\ reader # "connecting"
    BY <2>1, RequestsInTurn
  <2>4. replies' \in Seq(Replies) /\ Len(replies') = Len(replies) + 1
        /\ Len(replies) \in Nat /\ Len(requests) \in Nat
    BY <2>2, Lists DEF Talking
  <2>5. TypeOK'
    BY <1>1, <2>2, <2>3, <2>4 DEF Talking, TypeOK, Replies
  <2>6. PhaseInv'
    BY <1>1, <2>2, <2>3 DEF Talking, PhaseInv
  <2>7. TurnInv'
    BY <1>1, <2>2, <2>3, <2>4 DEF Talking, TurnInv
  <2>8. QED
    BY <2>5, <2>6, <2>7 DEF Talking
<1>3. CASE HandleReadyInVain
  <2>1. /\ Receive("ready") /\ sent_ts' = sent_ts /\ sent_ts = [f \in Field |-> NONE]
        /\ replies' = Append(replies, Reply("no match", Nothing)) /\ handler' = "pausing"
    BY <1>3 DEF HandleReadyInVain, Send
  <2>2. /\ requests' \in Seq({"subscribe", "ready"}) /\ Len(requests') = Len(requests) - 1
        /\ \A i \in DOMAIN requests' : requests'[i] = "ready"
        /\ \E i \in DOMAIN requests : requests[i] = "ready"
        /\ reader # "connecting"
    BY <2>1, RequestsInTurn
  <2>3. replies' \in Seq(Replies)
    <3> DEFINE answer == Reply("no match", Nothing)
    <3>1. answer \in Replies /\ replies \in Seq(Replies)
      BY EmptyIsTyped, Lists DEF Talking
    <3>2. replies' = Append(replies, answer)
      BY <2>1
    <3> HIDE DEF answer
    <3>3. QED
      BY <3>1, <3>2
  <2>4. TypeOK'
    BY <1>1, <2>1, <2>2, <2>3 DEF Talking, TypeOK, Replies
  <2>5. PhaseInv'
    BY <1>1, <2>1, <2>2 DEF Talking, PhaseInv
  <2>6. subscription.pattern
    <3>1. requested = {}
      <4>1. requested \in SUBSET Field
        BY ServerAssumption DEF Talking, TypeOK, Subscription
      <4>2. QED
        BY <2>1, <4>1 DEF Talking, PhaseInv
    <3>2. QED
      BY <2>2, <3>1 DEF Talking, TurnInv
  <2>7. TurnInv'
    BY <1>1, <2>6 DEF TurnInv
  <2>8. QED
    BY <2>4, <2>5, <2>7 DEF Talking
<1>4. CASE SendAfterPause
  <2>1. SendData /\ handler = "pausing" /\ requests' = requests
    BY <1>4 DEF SendAfterPause
  <2>2. PICK results \in [Field -> Seq(Record)] :
          /\ Reply("data", results) \in Replies
          /\ replies' = Append(replies, Reply("data", results))
          /\ sent_ts' \in [Field -> 0..TimeBound \cup {NONE}]
          /\ \A f \in Field : sent_ts'[f] = NONE <=> sent_ts[f] = NONE
          /\ handler' = "napping"
    BY <2>1, DataIsSent
  <2>3. replies' \in Seq(Replies)
    BY <2>2, Lists DEF Talking
  <2>4. TypeOK'
    BY <1>1, <2>1, <2>2, <2>3 DEF Talking, TypeOK, Replies
  <2>5. /\ \A i \in DOMAIN requests : requests[i] # "subscribe"
        /\ reader # "connecting"
    BY <2>1 DEF Talking, PhaseInv
  <2>6. PhaseInv'
    BY <1>1, <2>1, <2>2, <2>5 DEF Talking, PhaseInv
  <2>7. TurnInv'
    BY <1>1, <2>1 DEF Talking, TurnInv
  <2>8. QED
    BY <2>4, <2>6, <2>7 DEF Talking
<1>5. CASE NapEnds
  <2>1. handler = "napping" /\ handler' = "receiving" /\ UNCHANGED <<requests, replies, sent_ts>>
    BY <1>5 DEF NapEnds
  <2>2. QED
    BY <1>1, <2>1 DEF Talking, TypeOK, PhaseInv, TurnInv
<1>6. QED
  BY <1>2, <1>3, <1>4, <1>5

LEMMA StaysTalking == Talking /\ UNCHANGED vars => Talking'
BY DEF vars, cacheVars, serverVars, linkVars, historyVars, Talking, TypeOK, PhaseInv, TurnInv

LEMMA StepKeepsTalking == Talking /\ [Next]_vars => Talking'
BY CacheKeepsTalking, ReaderKeepsTalking, SubscribeKeepsTalking, ReadyKeepsTalking, StaysTalking
   DEF Next, Reader, Server

LEMMA TalksAlways == Spec => []Talking
BY TalkingStarts, StepKeepsTalking, PTL DEF Spec

\* The types, and that at any time one message is under way at most to or
\* from a reader that names its fields: whatever the timestamps are.
THEOREM OneMessageAtATime == Spec => [](TypeOK /\ OneUnderWay)
<1>1. Talking => TypeOK /\ OneUnderWay
  <2>1. SUFFICES ASSUME Talking, ~subscription.pattern
                 PROVE  Len(requests) + Len(replies) + (IF handler = "pausing" THEN 1 ELSE 0) <= 1
    BY DEF Talking, OneUnderWay
  <2>2. /\ handler # "pausing" /\ Len(requests) + Len(replies) <= 1
        /\ Len(requests) \in Nat /\ Len(replies) \in Nat
    BY <2>1, Lists DEF Talking, TurnInv
  <2>3. QED
    BY <2>2
<1>2. QED
  BY <1>1, TalksAlways, PTL

-----------------------------------------------------------------------------
(***************************************************************************)
(* When each field gets later and later timestamps.                        *)
(***************************************************************************)
LEMMA AppendedRises ==
  ASSUME NEW list \in Seq(Record), NEW r \in Record,
         Rising(list), list # <<>> => Newest(list) < r.ts
  PROVE  /\ Rising(Append(list, r)) /\ Top(Append(list, r)) = r.ts /\ Top(list) < r.ts
         /\ ToSet(Append(list, r)) = ToSet(list) \cup {r}
<1> DEFINE longer == Append(list, r)
<1>1. /\ longer \in Seq(Record) /\ Len(longer) = Len(list) + 1 /\ longer # <<>>
      /\ Len(list) \in Nat
      /\ \A i \in 1..Len(list) : longer[i] = list[i]
      /\ longer[Len(list) + 1] = r
  <2>1. /\ longer \in Seq(Record) /\ Len(longer) = Len(list) + 1 /\ Len(list) \in Nat
        /\ longer[Len(list) + 1] = r
    OBVIOUS
  <2>2. longer # <<>>
    BY <2>1
  <2>3. \A i \in 1..Len(list) : longer[i] = list[i]
    OBVIOUS
  <2>4. QED
    BY <2>1, <2>2, <2>3
<1>2. DOMAIN longer = 1..(Len(list) + 1) /\ r.ts \in Nat /\ 0 < r.ts
  <2>1. r.ts \in 1..TimeBound
    BY DEF Record
  <2>2. QED
    BY <1>1, <2>1
<1> HIDE DEF longer
<1>3. Top(longer) = r.ts /\ Top(list) < r.ts
  BY <1>1, <1>2 DEF Top, Newest
<1>4. ASSUME NEW i \in 1..Len(list) PROVE list[i].ts < r.ts
  <2>1. list # <<>> /\ Newest(list) \in Nat /\ list[i].ts \in Nat
    BY RecordTypes
  <2>2. i = Len(list) \/ list[i].ts < list[Len(list)].ts
    BY <1>1, <2>1, RecordTypes DEF Rising
  <2>3. QED
    BY <1>2, <2>1, <2>2 DEF Newest
<1>5. Rising(longer)
  <2>1. SUFFICES ASSUME NEW i \in 1..(Len(list) + 1), NEW j \in 1..(Len(list) + 1), i < j
                 PROVE  longer[i].ts < longer[j].ts
    BY <1>2 DEF Rising
  <2>2. i \in 1..Len(list) /\ longer[i] = list[i]
    BY <1>1, <2>1
  <2>3. CASE j = Len(list) + 1
    BY <1>1, <1>4, <2>2, <2>3
  <2>4. CASE j # Len(list) + 1
    <3>1. j \in 1..Len(list) /\ longer[j] = list[j]
      BY <1>1, <2>4
    <3>2. QED
      BY <2>1, <2>2, <3>1, RecordTypes DEF Rising
  <2>5. QED
    BY <2>3, <2>4
<1>6. ToSet(longer) = ToSet(list) \cup {r}
  <2>1. ToSet(longer) = {longer[i] : i \in 1..(Len(list) + 1)}
    BY <1>2 DEF ToSet
  <2>2. 1..(Len(list) + 1) = (1..Len(list)) \cup {Len(list) + 1}
    BY <1>1
  <2>3. QED
    BY SMTT(30), <1>1, <2>1, <2>2, RecordTypes
<1>7. QED
  BY <1>3, <1>5, <1>6 DEF longer

LEMMA JoinedRises ==
  ASSUME NEW s \in Seq(Record), NEW t \in Seq(Record)
  PROVE  /\ ToSet(s \o t) = ToSet(s) \cup ToSet(t)
         /\ Rising(s) /\ Rising(t) /\ Before(ToSet(s), ToSet(t)) => Rising(s \o t)
<1> DEFINE both == s \o t
           n == Len(s)
           m == Len(t)
<1>1. /\ n \in Nat /\ m \in Nat /\ Len(both) = n + m /\ DOMAIN both = 1..(n + m)
      /\ \A i \in 1..(n + m) : both[i] = IF i <= n THEN s[i] ELSE t[i - n]
  OBVIOUS
<1> HIDE DEF both, n, m
<1>2. ToSet(s) = {s[i] : i \in 1..n} /\ ToSet(t) = {t[i] : i \in 1..m}
  BY RecordTypes DEF n, m
<1>3. ToSet(both) = {both[i] : i \in 1..(n + m)}
  BY <1>1 DEF ToSet
<1>4. ToSet(both) = ToSet(s) \cup ToSet(t)
  <2>1. ToSet(both) \subseteq ToSet(s) \cup ToSet(t)
    <3>1. SUFFICES ASSUME NEW i \in 1..(n + m) PROVE both[i] \in ToSet(s) \cup ToSet(t)
      BY <1>3
    <3>2. IF i <= n THEN i \in 1..n ELSE i - n \in 1..m
      BY <1>1
    <3>3. QED
      BY <1>1, <1>2, <3>2
  <2>2. \A i \in 1..n : i \in 1..(n + m) /\ both[i] = s[i]
    BY <1>1
  <2>3. \A i \in 1..m : i + n \in 1..(n + m) /\ both[i + n] = t[i]
    BY <1>1
  <2>4. QED
    BY <1>2, <1>3, <2>1, <2>2, <2>3
<1>5. ASSUME Rising(s), Rising(t), Before(ToSet(s), ToSet(t)),
             NEW i \in 1..(n + m), NEW j \in 1..(n + m), i < j
      PROVE  both[i].ts < both[j].ts
  <2>1. CASE j <= n
    <3>1. i \in 1..n /\ j \in 1..n
      BY <1>1, <1>5, <2>1
    <3>2. both[i] = s[i] /\ both[j] = s[j]
      BY <1>1, <3>1
    <3>3. DOMAIN s = 1..n
      BY RecordTypes DEF n
    <3>4. QED
      BY <1>5, <3>1, <3>2, <3>3 DEF Rising
  <2>2. CASE i > n
    <3>1. i - n \in 1..m /\ j - n \in 1..m /\ i - n < j - n /\ ~(i <= n) /\ ~(j <= n)
      BY <1>1, <1>5, <2>2
    <3>2. both[i] = t[i - n] /\ both[j] = t[j - n]
      BY <1>1, <3>1
    <3>3. DOMAIN t = 1..m
      BY RecordTypes DEF m
    <3>4. QED
      BY <1>5, <3>1, <3>2, <3>3 DEF Rising
  <2>3. CASE i <= n /\ ~(j <= n)
    <3>1. i \in 1..n /\ j - n \in 1..m
      BY <1>1, <2>3
    <3>2. both[i] = s[i] /\ both[j] = t[j - n]
      BY <1>1, <2>3, <3>1
    <3>3. s[i] \in ToSet(s) /\ t[j - n] \in ToSet(t)
      BY <1>2, <3>1
    <3>4. QED
      BY <1>5, <3>2, <3>3 DEF Before
  <2>4. QED
    BY <1>1, <2>1, <2>2, <2>3
<1>6. Rising(s) /\ Rising(t) /\ Before(ToSet(s), ToSet(t)) => Rising(both)
  BY <1>1, <1>5 DEF Rising
<1>7. QED
  BY <1>4, <1>6 DEF both

LEMMA CursorStarts == Init => CursorInv
BY DEF Init, NoConnection, Nothing, CursorInv, Rising

LEMMA CacheKeepsCursor ==
  ASSUME InOrder, Talking, CursorInv, CacheRecord \/ Tick \/ \E f \in Field : Cleanup(f)
  PROVE  CursorInv'
<1>1. /\ sent_ts' = sent_ts /\ Talking' /\ cache \in [Field -> Seq(Record)]
      /\ cache' \in [Field -> Seq(Record)]
  <2>1. Talking'
    BY CacheKeepsTalking
  <2>2. cache' \in [Field -> Seq(Record)]
    BY <2>1 DEF Talking, TypeOK
  <2>3. QED
    BY <2>1, <2>2, Lists DEF Talking, CacheRecord, Tick, Cleanup, serverVars
<1>2. ASSUME NEW f \in Field
      PROVE  Rising(cache[f])' /\ Top(cache[f]) <= Top(cache[f])'
  <2>1. cache[f] \in Seq(Record) /\ cache'[f] \in Seq(Record) /\ Rising(cache[f])
    BY <1>1 DEF CursorInv
  <2>2. Top(cache[f]) \in Nat
    BY <2>1, RecordTypes DEF Top
  <2>3. CASE cache'[f] = cache[f]
    BY <2>1, <2>2, <2>3
  <2>4. CASE CacheRecord /\ cache'[f] # cache[f]
    <3>1. PICK ts \in 1..now :
            /\ cache'[f] = Append(cache[f], [id |-> made + 1, ts |-> ts])
            /\ cache[f] # <<>> => Newest(cache[f]) < ts
            /\ made < RecordBound
      BY <2>4 DEF CacheRecord
    <3> DEFINE r == [id |-> made + 1, ts |-> ts]
    <3>2. made + 1 \in 1..RecordBound /\ ts \in 1..TimeBound
      BY <3>1, Limits, Counters DEF Talking
    <3>3. r \in Record /\ r.ts = ts
      BY <3>2 DEF Record
    <3> HIDE DEF r
    <3>4. cache'[f] = Append(cache[f], r) /\ (cache[f] # <<>> => Newest(cache[f]) < r.ts)
      BY <3>1, <3>3 DEF r
    <3>5. /\ Rising(Append(cache[f], r)) /\ Top(Append(cache[f], r)) = r.ts
          /\ Top(cache[f]) < r.ts
      BY <2>1, <3>3, <3>4, AppendedRises
    <3>6. QED
      BY <2>2, <3>2, <3>3, <3>4, <3>5
  <2>5. CASE \E g \in Field : Cleanup(g) /\ cache'[f] # cache[f]
    <3>1. cache'[f] = CleanedUp(cache[f], now - BackSeconds)
      BY <1>1, <2>5 DEF Cleanup
    <3>2. now - BackSeconds \in Int
      BY Limits, Counters DEF Talking
    <3>3. Top(cache'[f]) = Top(cache[f]) /\ Rising(cache'[f])
      BY <2>1, <3>1, <3>2, NewestIsKept
    <3>4. QED
      BY <2>2, <3>3
  <2>6. CASE Tick
    BY <2>3, <2>6 DEF Tick
  <2>7. QED
    BY <2>3, <2>4, <2>5, <2>6
<1>3. \A f \in Field : sent_ts[f] # NONE =>
        sent_ts[f] \in Int /\ Top(cache[f]) \in Int /\ Top(cache[f])' \in Int
  <2>1. \A list \in Seq(Record) : Top(list) \in Int
    BY RecordTypes DEF Top
  <2>2. QED
    BY <1>1, <2>1, NoneIsNoTime DEF Talking
<1>4. QED
  BY <1>1, <1>2, <1>3 DEF CursorInv

LEMMA ReaderKeepsCursor ==
  CursorInv /\ (Connect \/ ReadReply \/ LoseConnection \/ HandleReadyInVain \/ NapEnds) => CursorInv'
BY DEF Connect, ReadReply, LoseConnection, HandleReadyInVain, NapEnds, cacheVars, serverVars, CursorInv

LEMMA SubscribeKeepsCursor ==
  ASSUME Talking, CursorInv, HandleSubscribe
  PROVE  CursorInv'
<1>1. UNCHANGED cache
  BY DEF HandleSubscribe, cacheVars
<1>2. ASSUME NEW f \in Field, sent_ts'[f] # NONE PROVE sent_ts'[f] <= Top(cache[f])
  <2>1. sent_ts'[f] = 0 \/ sent_ts'[f] = InitialTimestamp(cache[f], subscription, now)
    BY <1>2 DEF HandleSubscribe, InitialTs
  <2>2. cache[f] \in Seq(Record) /\ now \in Int /\ Rising(cache[f])
    BY Lists, Counters DEF Talking, CursorInv
  <2>3. subscription \in Subscription
    BY ServerAssumption DEF Talking, TypeOK
  <2>4. 0 <= Top(cache[f])
    BY <2>2, RecordTypes DEF Top
  <2>5. QED
    BY <2>1, <2>2, <2>3, <2>4, BeginsInCache
<1>3. QED
  BY <1>1, <1>2 DEF CursorInv

\* What a message with data carries follows all that was sent, and the
\* cursor follows what it carries.
LEMMA DataFollows ==
  ASSUME Talking, CursorInv, SendData, UNCHANGED cache
  PROVE  /\ CursorInv'
         /\ \E results \in [Field -> Seq(Record)] :
              /\ replies' = Append(replies, Reply("data", results))
              /\ Reply("data", results) \in Replies
              /\ \A f \in Field :
                   /\ Rising(results[f])
                   /\ \A r \in ToSet(results[f]) : /\ r \in ToSet(cache[f]) /\ r \in Record
                                                  /\ sent_ts[f] # NONE /\ sent_ts'[f] # NONE
                                                  /\ sent_ts[f] < r.ts /\ r.ts <= sent_ts'[f]
                   /\ sent_ts[f] # NONE <=> sent_ts'[f] # NONE
                   /\ sent_ts[f] # NONE => sent_ts[f] <= sent_ts'[f]
                   /\ \A r \in ToSet(cache[f]) : sent_ts[f] # NONE /\ r.ts > sent_ts[f]
                                                => r \in ToSet(results[f])
<1>1. PICK results \in [Field -> Seq(Record)] :
        /\ results = [f \in Field |-> IF f \in requested THEN Later(f) ELSE <<>>]
        /\ Reply("data", results) \in Replies
        /\ replies' = Append(replies, Reply("data", results))
        /\ sent_ts' = [f \in Field |-> IF results[f] = <<>> THEN sent_ts[f] ELSE Newest(results[f])]
        /\ \A f \in Field : sent_ts'[f] = NONE <=> sent_ts[f] = NONE
        /\ \A f \in Field : sent_ts[f] = NONE => results[f] = <<>>
  BY DataIsSent
<1>2. ASSUME NEW f \in Field, sent_ts[f] = NONE
      PROVE  results[f] = <<>> /\ ToSet(results[f]) = {} /\ sent_ts'[f] = NONE /\ Rising(results[f])
  BY <1>1, <1>2 DEF ToSet, Rising
<1>3. ASSUME NEW f \in Field, sent_ts[f] # NONE
      PROVE  /\ Rising(results[f])
             /\ \A r \in ToSet(results[f]) : /\ r \in ToSet(cache[f]) /\ r \in Record
                                            /\ sent_ts[f] < r.ts /\ r.ts <= sent_ts'[f]
             /\ sent_ts'[f] # NONE /\ sent_ts[f] <= sent_ts'[f] /\ sent_ts'[f] <= Top(cache[f])
             /\ \A r \in ToSet(cache[f]) : r.ts > sent_ts[f] => r \in ToSet(results[f])
  <2> DEFINE list == cache[f]
             new  == LaterThan(list, sent_ts[f])
  <2>1. list \in Seq(Record) /\ Rising(list) /\ sent_ts[f] \in Nat /\ sent_ts[f] <= Top(list)
    <3>1. sent_ts[f] \in 0..TimeBound
      BY <1>3, NoneIsNoTime DEF Talking
    <3>2. list \in Seq(Record)
      BY Lists DEF Talking
    <3>3. QED
      BY <1>3, <3>1, <3>2 DEF CursorInv
  <2>2. results[f] = new
    BY <1>1, <1>3 DEF Later, Talking, PhaseInv
  <2> HIDE DEF list
  <2>3. /\ new \in Seq(Record) /\ Rising(new)
        /\ \A r \in ToSet(new) : r \in ToSet(list) /\ r.ts > sent_ts[f]
        /\ \A r \in ToSet(list) : r.ts > sent_ts[f] => r \in ToSet(new)
        /\ new # <<>> => Newest(new) = Newest(list)
    BY <2>1, LaterIsLater
  <2> HIDE DEF new
  <2>4. ASSUME NEW i \in 1..Len(new) PROVE new[i].ts <= Newest(new) /\ new # <<>>
    <3>1. new # <<>> /\ (i = Len(new) \/ new[i].ts < Newest(new))
      BY SMTT(30), <2>3, RecordTypes DEF Rising, Newest
    <3>2. QED
      BY <2>3, <3>1, RecordTypes DEF Newest
  <2>5. /\ ToSet(new) = {new[i] : i \in 1..Len(new)} /\ ToSet(new) \subseteq Record
    BY <2>3, RecordTypes
  <2>6. sent_ts'[f] = IF new = <<>> THEN sent_ts[f] ELSE Newest(new)
    BY <1>1, <2>2
  <2>7. new # <<>> => Newest(new) \in Nat /\ sent_ts[f] < Newest(new) /\ Newest(new) = Top(list)
    <3>1. SUFFICES ASSUME new # <<>> PROVE Newest(new) \in Nat /\ sent_ts[f] < Newest(new)
                                           /\ Newest(new) = Top(list)
      OBVIOUS
    <3>2. Len(new) \in 1..Len(new) /\ Newest(new) \in Nat
      BY <2>3, <3>1, RecordTypes
    <3>3. new[Len(new)] \in ToSet(new)
      BY <2>5, <3>2
    <3>4. new[Len(new)] \in ToSet(list)
      BY <2>3, <3>3
    <3>5. list # <<>>
      BY <3>4 DEF ToSet
    <3>6. QED
      BY <2>3, <3>1, <3>2, <3>3, <3>5 DEF Top, Newest
  <2>8. \A r \in ToSet(new) : r \in Record /\ r.ts <= sent_ts'[f]
    BY <2>4, <2>5, <2>6
  <2>9. sent_ts'[f] # NONE /\ sent_ts[f] <= sent_ts'[f] /\ sent_ts'[f] <= Top(list)
    BY <1>3, <2>1, <2>6, <2>7, NoneIsNoTime
  <2>10. QED
    BY <2>2, <2>3, <2>8, <2>9 DEF list
<1>4. CursorInv'
  BY <1>2, <1>3 DEF CursorInv
<1>5. QED
  BY <1>1, <1>2, <1>3, <1>4

\* A further message under way.
LEMMA ReplyAppended ==
  ASSUME Talking, NEW m \in Replies, replies' = Append(replies, m)
  PROVE  /\ Len(replies) \in Nat /\ DOMAIN replies = 1..Len(replies)
         /\ DOMAIN replies' = 1..(Len(replies) + 1)
         /\ \A i \in DOMAIN replies : i \in DOMAIN replies' /\ replies'[i] = replies[i]
         /\ replies'[Len(replies) + 1] = m
<1>1. replies \in Seq(Replies)
  BY Lists DEF Talking
<1>2. /\ Len(replies) \in Nat /\ DOMAIN replies = 1..Len(replies)
      /\ DOMAIN replies' = 1..(Len(replies) + 1)
  BY <1>1
<1>3. \A i \in DOMAIN replies : i \in DOMAIN replies' /\ replies'[i] = replies[i]
  BY <1>1, <1>2
<1>4. replies'[Len(replies) + 1] = m
  BY <1>1
<1>5. QED
  BY <1>2, <1>3, <1>4

LEMMA DeliveredIs ==
  \A f, r : r \in Delivered(f) <=> r \in ToSet(got[f]) \/ \E i \in DOMAIN replies : r \in Carried(i, f)
BY DEF Delivered, UnderWay, Carried

LEMMA DeliveredTyped ==
  ASSUME TypeOK, NEW f \in Field
  PROVE  /\ \A r \in ToSet(got[f]) : r \in Record
         /\ \A i \in DOMAIN replies : replies[i].data[f] \in Seq(Record)
                                   /\ \A r \in Carried(i, f) : r \in Record
<1>1. got[f] \in Seq(Record)
  BY Lists
<1>2. ASSUME NEW i \in DOMAIN replies PROVE replies[i].data[f] \in Seq(Record)
  <2>1. replies[i] \in Replies
    BY Lists
  <2>2. QED
    BY <2>1 DEF Replies
<1>3. \A list \in Seq(Record) : \A r \in ToSet(list) : r \in Record
  BY RecordTypes
<1>4. QED
  BY <1>1, <1>2, <1>3 DEF Carried

LEMMA TimesAreNumbers == \A r \in Record : r.ts \in Nat
<1>1. \A r \in Record : r.ts \in 1..TimeBound
  BY DEF Record
<1>2. QED
  BY <1>1

LEMMA FlowStarts == NoConnection => FlowInv
<1> SUFFICES ASSUME NoConnection PROVE FlowInv
  OBVIOUS
<1>1. /\ got = Nothing /\ replies = <<>> /\ DOMAIN replies = {}
  BY DEF NoConnection
<1>2. ASSUME NEW f \in Field PROVE ToSet(got[f]) = {} /\ Rising(got[f])
  BY <1>1, EmptyIsTyped
<1>3. QED
  BY <1>1, <1>2, DeliveredIs DEF FlowInv

LEMMA SameFlow ==
  FlowInv /\ UNCHANGED <<got, replies, sent_ts>> => FlowInv'
BY DEF FlowInv, Delivered, UnderWay, Carried

\* The reader puts the first message after all that it has.
LEMMA ReadKeepsFlow ==
  ASSUME Talking, FlowInv, ReadReply
  PROVE  /\ FlowInv'
         /\ \A f \in Field : \A r : r \in Delivered(f)' <=> r \in Delivered(f)
<1> DEFINE data == Head(replies).data
<1>1. /\ replies # <<>> /\ replies' = Tail(replies) /\ sent_ts' = sent_ts
      /\ got' = [f \in Field |-> got[f] \o Collated(data[f])]
  BY DEF ReadReply, serverVars
<1>2. /\ data = replies[1].data /\ data \in [Field -> Seq(Record)]
      /\ Len(replies') = Len(replies) - 1 /\ Len(replies) \in Nat /\ 1 \in DOMAIN replies
      /\ DOMAIN replies = 1..Len(replies) /\ DOMAIN replies' = 1..Len(replies')
      /\ \A i \in DOMAIN replies' : i + 1 \in DOMAIN replies /\ replies'[i] = replies[i + 1]
  <2>1. replies \in Seq(Replies) /\ replies' \in Seq(Replies)
    BY <1>1, Lists, RepliesInTurn DEF Talking
  <2>2. DOMAIN replies = 1..Len(replies) /\ DOMAIN replies' = 1..Len(replies')
    BY <2>1
  <2>3. QED
    BY <1>1, <2>2, RepliesInTurn DEF Talking, Replies
<1> HIDE DEF data
<1>3. ASSUME NEW f \in Field
      PROVE  /\ ToSet(got'[f]) = ToSet(got[f]) \cup Carried(1, f)
             /\ Rising(got'[f])
  <2>1. got[f] \in Seq(Record) /\ data[f] \in Seq(Record) /\ Carried(1, f) = ToSet(data[f])
    BY <1>2, Lists DEF Talking, Carried
  <2>2. Rising(got[f]) /\ Rising(data[f]) /\ Before(ToSet(got[f]), ToSet(data[f]))
    BY <1>2, <2>1 DEF FlowInv
  <2> DEFINE c == Collated(data[f])
  <2>3. c \in Seq(Record) /\ Rising(c) /\ ToSet(c) = ToSet(data[f])
    BY <2>1, <2>2, CollatedInOrder
  <2>4. got'[f] = got[f] \o c
    BY <1>1
  <2> HIDE DEF c
  <2>5. QED
    BY <2>1, <2>2, <2>3, <2>4, JoinedRises
<1>4. ASSUME NEW f \in Field, NEW i \in DOMAIN replies'
      PROVE  Carried(i, f)' = Carried(i + 1, f) /\ replies'[i].data[f] = replies[i + 1].data[f]
  BY <1>2 DEF Carried
<1>5. ASSUME NEW f \in Field, NEW r
      PROVE  r \in Delivered(f)' <=> r \in Delivered(f)
  <2>1. r \in Delivered(f)' <=> r \in ToSet(got'[f]) \/ \E i \in DOMAIN replies' : r \in Carried(i, f)'
    BY DEF Delivered, UnderWay, Carried
  <2>2. (\E i \in DOMAIN replies : r \in Carried(i, f))
          <=> r \in Carried(1, f) \/ \E i \in DOMAIN replies' : r \in Carried(i + 1, f)
    <3>1. \A i \in DOMAIN replies : i = 1 \/ (i - 1 \in DOMAIN replies' /\ (i - 1) + 1 = i)
      BY <1>2
    <3>2. QED
      BY <1>2, <3>1
  <2>3. QED
    BY <1>3, <1>4, <2>1, <2>2, DeliveredIs
<1>6. ASSUME NEW f \in Field, NEW i \in DOMAIN replies'
      PROVE  Rising(replies'[i].data[f]) /\ Before(ToSet(got'[f]), Carried(i, f)')
  <2>1. 1 < i + 1 /\ i + 1 \in DOMAIN replies
    BY <1>2
  <2>2. /\ Rising(replies[i + 1].data[f]) /\ Before(ToSet(got[f]), Carried(i + 1, f))
        /\ Before(Carried(1, f), Carried(i + 1, f))
    BY <1>2, <2>1 DEF FlowInv
  <2>3. QED
    BY <1>3, <1>4, <2>2 DEF Before
<1>7. ASSUME NEW f \in Field, NEW i \in DOMAIN replies', NEW j \in DOMAIN replies', i < j
      PROVE  Before(Carried(i, f)', Carried(j, f)')
  <2>1. i + 1 < j + 1 /\ i + 1 \in DOMAIN replies /\ j + 1 \in DOMAIN replies
    BY <1>2, <1>7
  <2>2. Before(Carried(i + 1, f), Carried(j + 1, f))
    BY <2>1 DEF FlowInv
  <2>3. QED
    BY <1>4, <2>2
<1>8. ASSUME NEW f \in Field, NEW r \in Delivered(f)'
      PROVE  sent_ts'[f] # NONE /\ r.ts <= sent_ts'[f]
  BY <1>1, <1>5, <1>8 DEF FlowInv
<1>9. FlowInv'
  BY <1>3, <1>6, <1>7, <1>8 DEF FlowInv
<1>10. QED
  BY <1>5, <1>9

\* A message without records changes nothing of it.
LEMMA EmptyReplyKeepsFlow ==
  ASSUME Talking, FlowInv, NEW m \in Replies, replies' = Append(replies, m),
         m.data = Nothing, UNCHANGED got,
         \/ UNCHANGED sent_ts
         \/ replies = <<>> /\ got = Nothing
  PROVE  /\ FlowInv'
         /\ \A f \in Field : \A r : r \in Delivered(f)' <=> r \in Delivered(f)
<1>0. PICK n \in Nat : n = Len(replies) + 1
  BY Lists DEF Talking
<1>1. /\ DOMAIN replies = 1..Len(replies) /\ DOMAIN replies' = 1..n /\ Len(replies) \in Nat
      /\ \A i \in DOMAIN replies : i \in DOMAIN replies' /\ replies'[i] = replies[i]
      /\ replies'[n] = m
  BY <1>0, ReplyAppended
<1>2. \A i \in DOMAIN replies' : i \in DOMAIN replies \/ i = n
  BY <1>0, <1>1
<1>3. ASSUME NEW f \in Field
      PROVE  /\ \A i \in DOMAIN replies : Carried(i, f)' = Carried(i, f)
             /\ Carried(n, f)' = {} /\ Rising(replies'[n].data[f])
  BY <1>1, EmptyIsTyped DEF Carried
<1>4. ASSUME NEW f \in Field, NEW r PROVE r \in Delivered(f)' <=> r \in Delivered(f)
  <2>1. r \in Delivered(f)' <=> r \in ToSet(got[f]) \/ \E i \in DOMAIN replies' : r \in Carried(i, f)'
    BY DEF Delivered, UnderWay, Carried
  <2>2. QED
    BY <1>1, <1>2, <1>3, <2>1, DeliveredIs
<1>5. ASSUME NEW f \in Field, NEW r \in Delivered(f)'
      PROVE  sent_ts'[f] # NONE /\ r.ts <= sent_ts'[f]
  <2>1. r \in Delivered(f)
    BY <1>4, <1>5
  <2>2. ~(replies = <<>> /\ got = Nothing)
    <3>1. SUFFICES ASSUME replies = <<>>, got = Nothing PROVE FALSE
      OBVIOUS
    <3>2. DOMAIN replies = {}
      BY <3>1
    <3>3. ToSet(got[f]) = {}
      BY <3>1, EmptyIsTyped, Zenon
    <3>4. QED
      BY <2>1, <3>2, <3>3, DeliveredIs
  <2>3. QED
    BY <2>1, <2>2 DEF FlowInv
<1>6. ASSUME NEW f \in Field, NEW i \in DOMAIN replies'
      PROVE  Rising(replies'[i].data[f]) /\ Before(ToSet(got'[f]), Carried(i, f)')
  <2>1. CASE i \in DOMAIN replies
    BY <1>1, <1>3, <2>1 DEF FlowInv
  <2>2. CASE i = n
    BY <1>3, <2>2 DEF Before
  <2>3. QED
    BY <1>2, <2>1, <2>2
<1>7. ASSUME NEW f \in Field, NEW i \in DOMAIN replies', NEW j \in DOMAIN replies', i < j
      PROVE  Before(Carried(i, f)', Carried(j, f)')
  <2>1. CASE i = n \/ j = n
    BY <1>3, <2>1 DEF Before
  <2>2. CASE i \in DOMAIN replies /\ j \in DOMAIN replies
    BY <1>3, <1>7, <2>2 DEF FlowInv
  <2>3. QED
    BY <1>2, <2>1, <2>2
<1>8. ASSUME NEW f \in Field PROVE Rising(got'[f])
  BY DEF FlowInv
<1>9. FlowInv'
  BY <1>5, <1>6, <1>7, <1>8 DEF FlowInv
<1>10. QED
  BY <1>4, <1>9

\* A message with data comes after all that was sent before.
LEMMA DataKeepsFlow ==
  ASSUME Talking, CursorInv, FlowInv, SendData, UNCHANGED <<cache, got>>
  PROVE  /\ FlowInv'
         /\ \A f \in Field : \A r : r \in Delivered(f)' <=>
              \/ r \in Delivered(f)
              \/ r \in ToSet(cache[f]) /\ sent_ts[f] # NONE /\ r.ts > sent_ts[f]
<1>0. PICK n \in Nat : n = Len(replies) + 1
  BY Lists DEF Talking
<1>1. PICK results \in [Field -> Seq(Record)] :
        /\ replies' = Append(replies, Reply("data", results))
        /\ Reply("data", results) \in Replies
        /\ \A f \in Field :
             /\ Rising(results[f])
             /\ \A r \in ToSet(results[f]) : /\ r \in ToSet(cache[f]) /\ r \in Record
                                            /\ sent_ts[f] # NONE /\ sent_ts'[f] # NONE
                                            /\ sent_ts[f] < r.ts /\ r.ts <= sent_ts'[f]
             /\ sent_ts[f] # NONE <=> sent_ts'[f] # NONE
             /\ sent_ts[f] # NONE => sent_ts[f] <= sent_ts'[f]
             /\ \A r \in ToSet(cache[f]) : sent_ts[f] # NONE /\ r.ts > sent_ts[f]
                                          => r \in ToSet(results[f])
  BY DataFollows
<1>2. /\ DOMAIN replies = 1..Len(replies) /\ DOMAIN replies' = 1..n /\ Len(replies) \in Nat
      /\ \A i \in DOMAIN replies : i \in DOMAIN replies' /\ replies'[i] = replies[i]
      /\ replies'[n] = Reply("data", results)
  BY <1>0, <1>1, ReplyAppended
<1>3. /\ \A i \in DOMAIN replies' : i \in DOMAIN replies \/ i = n
      /\ \A i, j \in DOMAIN replies' : i < j => i \in DOMAIN replies
      /\ n \in DOMAIN replies'
  BY <1>0, <1>2
<1>4. ASSUME NEW f \in Field
      PROVE  /\ \A i \in DOMAIN replies : Carried(i, f)' = Carried(i, f)
             /\ Carried(n, f)' = ToSet(results[f]) /\ replies'[n].data[f] = results[f]
  BY <1>2 DEF Carried, Reply
<1>5. ASSUME NEW f \in Field, NEW r \in Delivered(f)
      PROVE  sent_ts[f] # NONE /\ r.ts <= sent_ts[f] /\ sent_ts[f] \in Nat /\ r.ts \in Nat
  <2>1. sent_ts[f] # NONE /\ r.ts <= sent_ts[f]
    BY <1>5 DEF FlowInv
  <2>2. r \in Record
    BY <1>5, DeliveredTyped, DeliveredIs DEF Talking
  <2>3. sent_ts[f] \in 0..TimeBound
    BY <2>1, NoneIsNoTime DEF Talking
  <2>4. QED
    BY <2>1, <2>2, <2>3, TimesAreNumbers
<1>6. ASSUME NEW f \in Field, NEW r \in Delivered(f), NEW s \in ToSet(results[f])
      PROVE  r.ts < s.ts
  <2>1. s.ts \in Nat /\ sent_ts[f] < s.ts
    BY <1>1, <1>6, TimesAreNumbers
  <2>2. QED
    BY <1>5, <1>6, <2>1
<1>7. ASSUME NEW f \in Field, NEW r
      PROVE  r \in Delivered(f)' <=> r \in Delivered(f) \/ r \in ToSet(results[f])
  <2>1. r \in Delivered(f)' <=> r \in ToSet(got[f]) \/ \E i \in DOMAIN replies' : r \in Carried(i, f)'
    BY DEF Delivered, UnderWay, Carried
  <2>2. QED
    BY <1>2, <1>3, <1>4, <2>1, DeliveredIs
<1>8. ASSUME NEW f \in Field, NEW r \in Delivered(f)'
      PROVE  sent_ts'[f] # NONE /\ r.ts <= sent_ts'[f]
  <2>1. CASE r \in ToSet(results[f])
    BY <1>1, <2>1
  <2>2. CASE r \in Delivered(f)
    <3>1. sent_ts'[f] # NONE /\ sent_ts[f] <= sent_ts'[f]
      BY <1>1, <1>5, <2>2
    <3>2. sent_ts'[f] \in 0..TimeBound
      <4>1. sent_ts' \in [Field -> 0..TimeBound \cup {NONE}]
        BY DataIsSent
      <4>2. QED
        BY <3>1, <4>1
    <3>3. QED
      BY <1>5, <2>2, <3>1, <3>2
  <2>3. QED
    BY <1>7, <1>8, <2>1, <2>2
<1>9. ASSUME NEW f \in Field, NEW i \in DOMAIN replies'
      PROVE  Rising(replies'[i].data[f]) /\ Before(ToSet(got'[f]), Carried(i, f)')
  <2>1. CASE i \in DOMAIN replies
    BY <1>2, <1>4, <2>1 DEF FlowInv
  <2>2. CASE i = n
    BY <1>1, <1>4, <1>6, <2>2, DeliveredIs DEF Before
  <2>3. QED
    BY <1>3, <2>1, <2>2
<1>10. ASSUME NEW f \in Field, NEW i \in DOMAIN replies', NEW j \in DOMAIN replies', i < j
       PROVE  Before(Carried(i, f)', Carried(j, f)')
  <2>1. i \in DOMAIN replies
    BY <1>3, <1>10
  <2>2. CASE j \in DOMAIN replies
    BY <1>4, <1>10, <2>1, <2>2 DEF FlowInv
  <2>3. CASE j = n
    BY <1>4, <1>6, <2>1, <2>3, DeliveredIs DEF Before
  <2>4. QED
    BY <1>3, <2>2, <2>3
<1>11. ASSUME NEW f \in Field PROVE Rising(got'[f])
  BY DEF FlowInv
<1>12. FlowInv'
  BY <1>8, <1>9, <1>10, <1>11 DEF FlowInv
<1>13. ASSUME NEW f \in Field, NEW r
       PROVE  r \in ToSet(results[f]) <=> r \in ToSet(cache[f]) /\ sent_ts[f] # NONE /\ r.ts > sent_ts[f]
  <2>1. ASSUME r \in ToSet(results[f])
        PROVE  r \in ToSet(cache[f]) /\ sent_ts[f] # NONE /\ r.ts > sent_ts[f]
    BY <1>1, <2>1
  <2>2. QED
    BY <1>1, <2>1
<1>14. QED
  BY <1>7, <1>12, <1>13

InOrderInv == Talking /\ CursorInv /\ FlowInv

LEMMA SubscribeKeepsFlow ==
  ASSUME InOrderInv, HandleSubscribe
  PROVE  /\ FlowInv'
         /\ replies = <<>> /\ got = Nothing
         /\ \A f \in Field : \A r : r \notin Delivered(f)'
<1> DEFINE m == Reply("subscribed", Nothing)
<1>1. /\ replies' = Append(replies, m) /\ m \in Replies /\ m.data = Nothing /\ UNCHANGED got
      /\ replies = <<>> /\ got = Nothing
  BY EmptyIsTyped, RequestsInTurn DEF InOrderInv, HandleSubscribe, Send, Reply
<1> HIDE DEF m
<1>2. FlowInv' /\ \A f \in Field : \A r : r \in Delivered(f)' <=> r \in Delivered(f)
  BY <1>1, EmptyReplyKeepsFlow DEF InOrderInv
<1>3. DOMAIN replies = {}
  BY <1>1
<1>4. \A f \in Field : ToSet(got[f]) = {}
  BY <1>1, EmptyIsTyped, Zenon
<1>5. QED
  BY <1>1, <1>2, <1>3, <1>4, DeliveredIs

LEMMA VainKeepsFlow ==
  ASSUME InOrderInv, HandleReadyInVain
  PROVE  FlowInv' /\ \A f \in Field : \A r : r \in Delivered(f)' <=> r \in Delivered(f)
<1> DEFINE m == Reply("no match", Nothing)
<1>1. /\ replies' = Append(replies, m) /\ m \in Replies /\ m.data = Nothing
      /\ UNCHANGED <<got, sent_ts>>
  BY EmptyIsTyped DEF HandleReadyInVain, Send, Reply, historyVars
<1> HIDE DEF m
<1>2. QED
  BY <1>1, EmptyReplyKeepsFlow DEF InOrderInv

LEMMA StepKeepsOrder == InOrder => (InOrderInv /\ [Next]_vars => InOrderInv')
<1> SUFFICES ASSUME InOrder, InOrderInv, [Next]_vars PROVE InOrderInv'
  OBVIOUS
<1>1. Talking'
  BY StepKeepsTalking DEF InOrderInv
<1>2. CASE CacheRecord \/ Tick \/ \E f \in Field : Cleanup(f)
  <2>1. UNCHANGED <<got, replies, sent_ts>>
    BY <1>2 DEF CacheRecord, Tick, Cleanup, serverVars, historyVars
  <2>2. CursorInv'
    BY <1>2, CacheKeepsCursor DEF InOrderInv
  <2>3. FlowInv'
    BY <2>1, SameFlow DEF InOrderInv
  <2>4. QED
    BY <1>1, <2>2, <2>3 DEF InOrderInv
<1>3. CASE Connect \/ NapEnds
  <2>1. UNCHANGED <<got, replies, sent_ts>>
    BY <1>3 DEF Connect, NapEnds, serverVars, historyVars
  <2>2. QED
    BY <1>1, <1>3, <2>1, ReaderKeepsCursor, SameFlow DEF InOrderInv
<1>4. CASE ReadReply
  BY <1>1, <1>4, ReaderKeepsCursor, ReadKeepsFlow DEF InOrderInv
<1>5. CASE LoseConnection
  <2>1. NoConnection'
    BY <1>5 DEF LoseConnection, NoConnection
  <2>2. FlowInv'
    BY <2>1, FlowStarts, PTL
  <2>3. QED
    BY <1>1, <1>5, <2>2, ReaderKeepsCursor DEF InOrderInv
<1>6. CASE HandleSubscribe
  BY <1>1, <1>6, SubscribeKeepsCursor, SubscribeKeepsFlow DEF InOrderInv
<1>7. CASE HandleReady \/ SendAfterPause
  <2>1. SendData /\ UNCHANGED <<cache, got>>
    BY <1>7 DEF HandleReady, SendAfterPause, cacheVars, historyVars
  <2>2. QED
    BY <1>1, <2>1, DataFollows, DataKeepsFlow DEF InOrderInv
<1>8. CASE HandleReadyInVain
  BY <1>1, <1>8, ReaderKeepsCursor, VainKeepsFlow DEF InOrderInv
<1>9. CASE UNCHANGED vars
  <2>1. UNCHANGED <<got, replies, sent_ts, cache>>
    BY <1>9 DEF vars, cacheVars, serverVars, historyVars
  <2>2. QED
    BY <1>1, <2>1, SameFlow DEF InOrderInv, CursorInv
<1>10. QED
  BY <1>2, <1>3, <1>4, <1>5, <1>6, <1>7, <1>8, <1>9 DEF Next, Reader, Server

LEMMA OrderStarts == Init => InOrderInv
BY TalkingStarts, CursorStarts, FlowStarts DEF Init, InOrderInv

LEMMA AlwaysInOrder == InOrder => (Spec => []InOrderInv)
<1> SUFFICES ASSUME InOrder PROVE Spec => []InOrderInv
  OBVIOUS
<1>1. InOrderInv /\ [Next]_vars => InOrderInv'
  BY StepKeepsOrder
<1>2. QED
  BY <1>1, OrderStarts, PTL DEF Spec

LEMMA InOrderOnceFollows == InOrderInv => InOrderOnce
<1> SUFFICES ASSUME InOrderInv, NEW f \in Field
             PROVE  /\ \A i, j \in DOMAIN got[f] : i < j => got[f][i].ts < got[f][j].ts
                    /\ ToSet(got[f]) \cap UnderWay(f) = {}
  BY DEF InOrderOnce
<1>1. \A i, j \in DOMAIN got[f] : i < j => got[f][i].ts < got[f][j].ts
  BY DEF InOrderInv, FlowInv, Rising
<1>2. ASSUME NEW r \in ToSet(got[f]), r \in UnderWay(f) PROVE FALSE
  <2>1. PICK i \in DOMAIN replies : r \in Carried(i, f)
    BY <1>2 DEF UnderWay, Carried
  <2>2. r.ts < r.ts
    BY <1>2, <2>1 DEF InOrderInv, FlowInv, Before
  <2>3. r.ts \in Nat
    BY <1>2, DeliveredTyped, TimesAreNumbers DEF InOrderInv, Talking
  <2>4. QED
    BY <2>2, <2>3
<1>3. QED
  BY <1>1, <1>2

\* If each field gets later and later timestamps, no record reaches a reader
\* twice on one connection, and a field's records reach it in their order,
\* whatever is subscribed to, cleaned up, lost and under way.
THEOREM ServerIsSafe == InOrder => (Spec => []ServerSafe)
<1> SUFFICES ASSUME InOrder PROVE Spec => []ServerSafe
  OBVIOUS
<1>1. TypeOK /\ OneUnderWay /\ InOrderOnce => ServerSafe
  BY DEF ServerSafe
<1>2. QED
  BY <1>1, AlwaysInOrder, InOrderOnceFollows, OneMessageAtATime, PTL

-----------------------------------------------------------------------------
(***************************************************************************)
(* That what is sent is what is asked for, when who names fields asks for  *)
(* the latest record or for none of the past.  (With other subscriptions   *)
(* the server begins at another record than is documented.)                *)
(***************************************************************************)
AsksForLatest ==
  \A s \in Subscriptions : s.pattern \/ (s.seconds \in {0, -1} /\ s.back_records = 0)

AskedAllInv == InOrderInv /\ AskedInv /\ ExactlyAsked

LEMMA CursorTyped ==
  ASSUME Talking, CursorInv, NEW f \in Field, sent_ts[f] # NONE
  PROVE  /\ sent_ts[f] \in Nat /\ Top(cache[f]) \in Nat /\ sent_ts[f] <= Top(cache[f])
         /\ cache[f] \in Seq(Record) /\ \A r \in ToSet(cache[f]) : r \in Record /\ r.ts \in Nat
<1>1. sent_ts[f] \in 0..TimeBound
  BY NoneIsNoTime DEF Talking
<1>2. cache[f] \in Seq(Record)
  BY Lists DEF Talking
<1>3. Top(cache[f]) \in Nat
  BY <1>2, RecordTypes DEF Top
<1>4. \A r \in ToSet(cache[f]) : r \in Record /\ r.ts \in Nat
  BY <1>2, RecordTypes, TimesAreNumbers
<1>5. QED
  BY <1>1, <1>2, <1>3, <1>4 DEF CursorInv

LEMMA AskedStarts == NoConnection => AskedInv /\ ExactlyAsked
<1> SUFFICES ASSUME NoConnection PROVE AskedInv /\ ExactlyAsked
  OBVIOUS
<1>1. \A f \in Field : sent_ts[f] = NONE
  BY DEF NoConnection
<1>2. got = Nothing /\ replies = <<>>
  BY DEF NoConnection
<1>3. DOMAIN replies = {}
  BY <1>2
<1>4. \A f \in Field : ToSet(got[f]) = {}
  BY <1>2, EmptyIsTyped, Zenon
<1>5. \A f \in Field : \A r : r \notin Delivered(f)
  BY <1>3, <1>4, DeliveredIs
<1>6. QED
  BY <1>1, <1>5 DEF AskedInv, ExactlyAsked, NothingPassedOver, NothingUnasked

\* A record that is cached is later than all that was sent.
LEMMA CachedIsAsked ==
  ASSUME InOrder, AskedAllInv, CacheRecord
  PROVE  AskedInv' /\ ExactlyAsked'
<1>1. PICK fields \in SUBSET Field, ts \in 1..now :
        LET r == [id |-> made + 1, ts |-> ts] IN
        /\ made < RecordBound
        /\ \A f \in fields : cache[f] # <<>> => Newest(cache[f]) < ts
        /\ cache' = [f \in Field |-> IF f \in fields THEN Append(cache[f], r) ELSE cache[f]]
        /\ due' = [f \in Field |-> IF f \in fields /\ sent_ts[f] # NONE
                                   THEN due[f] \cup {r} ELSE due[f]]
  BY DEF CacheRecord
<1> DEFINE r == [id |-> made + 1, ts |-> ts]
<1>2. UNCHANGED <<got, replies, sent_ts, subscription>>
  BY DEF CacheRecord, serverVars, linkVars
<1>3. r \in Record /\ r.ts = ts
  <2>1. made + 1 \in 1..RecordBound /\ ts \in 1..TimeBound
    BY <1>1, Limits, Counters DEF AskedAllInv, InOrderInv, Talking
  <2>2. QED
    BY <2>1 DEF Record
<1> HIDE DEF r
<1>4. ASSUME NEW f \in Field
      PROVE  \/ cache'[f] = cache[f] /\ due'[f] = due[f]
             \/ /\ f \in fields /\ cache'[f] = Append(cache[f], r)
                /\ due'[f] = IF sent_ts[f] # NONE THEN due[f] \cup {r} ELSE due[f]
  BY <1>1 DEF r
<1>5. ASSUME NEW f \in fields, sent_ts[f] # NONE
      PROVE  ToSet(Append(cache[f], r)) = ToSet(cache[f]) \cup {r} /\ r.ts > sent_ts[f]
  <2>1. /\ sent_ts[f] \in Nat /\ Top(cache[f]) \in Nat /\ sent_ts[f] <= Top(cache[f])
        /\ cache[f] \in Seq(Record) /\ Rising(cache[f])
    BY <1>5, CursorTyped DEF AskedAllInv, InOrderInv, CursorInv
  <2>2. cache[f] # <<>> => Newest(cache[f]) < r.ts
    BY <1>1, <1>3, <1>5
  <2>3. Top(cache[f]) < r.ts /\ ToSet(Append(cache[f], r)) = ToSet(cache[f]) \cup {r}
    BY <1>3, <2>1, <2>2, AppendedRises
  <2>4. QED
    BY <1>3, <2>1, <2>3, TimesAreNumbers
<1>6. ASSUME NEW f \in Field PROVE Delivered(f)' = Delivered(f)
  BY <1>2 DEF Delivered, UnderWay
<1>7. AskedInv'
  BY <1>2, <1>4, <1>5 DEF AskedAllInv, AskedInv
<1>8. NothingPassedOver'
  <2> SUFFICES ASSUME NEW f \in Field, sent_ts[f] # NONE,
                      NEW r0 \in due'[f] \cap ToSet(cache'[f])
               PROVE  r0 \in Delivered(f) \/ r0.ts > sent_ts[f]
    BY <1>2, <1>6 DEF NothingPassedOver
  <2>1. CASE r0 \in due[f] \cap ToSet(cache[f])
    BY <2>1 DEF AskedAllInv, ExactlyAsked, NothingPassedOver
  <2>2. CASE f \in fields /\ r0 = r
    BY <1>5, <2>2
  <2>3. \/ due'[f] \cap ToSet(cache'[f]) \subseteq due[f] \cap ToSet(cache[f])
        \/ /\ f \in fields
           /\ due'[f] \cap ToSet(cache'[f]) \subseteq (due[f] \cap ToSet(cache[f])) \cup {r}
    <3>1. CASE cache'[f] = cache[f] /\ due'[f] = due[f]
      BY <3>1
    <3>2. CASE f \in fields /\ cache'[f] = Append(cache[f], r) /\ due'[f] = due[f] \cup {r}
      <4>1. ToSet(cache'[f]) = ToSet(cache[f]) \cup {r}
        BY <1>5, <3>2
      <4>2. QED
        BY <3>2, <4>1
    <3>3. QED
      BY <1>4, <3>1, <3>2
  <2>4. QED
    BY <2>1, <2>2, <2>3
<1>9. NothingUnasked'
  BY <1>2, <1>4, <1>6 DEF AskedAllInv, ExactlyAsked, NothingUnasked
<1>10. QED
  BY <1>7, <1>8, <1>9 DEF ExactlyAsked

LEMMA CleanupKeepsAsked ==
  ASSUME AskedAllInv, NEW g \in Field, Cleanup(g)
  PROVE  AskedInv' /\ ExactlyAsked'
<1>1. /\ UNCHANGED <<got, replies, sent_ts, subscription, due>>
      /\ cache' = [cache EXCEPT ![g] = CleanedUp(@, now - BackSeconds)]
  BY DEF Cleanup, serverVars, linkVars, historyVars
<1>2. ASSUME NEW f \in Field PROVE ToSet(cache'[f]) \subseteq ToSet(cache[f])
  <2>1. cache \in [Field -> Seq(Record)] /\ now - BackSeconds \in Int
    BY SMTT(30), Lists, Limits, Counters DEF AskedAllInv, InOrderInv, Talking
  <2>2. CASE f = g
    <3>1. cache'[f] = CleanedUp(cache[f], now - BackSeconds)
      BY <1>1, <2>1, <2>2
    <3>2. QED
      BY <2>1, <3>1, NewestIsKept
  <2>3. CASE f # g
    BY <1>1, <2>1, <2>3
  <2>4. QED
    BY <2>2, <2>3
<1>3. ASSUME NEW f \in Field PROVE Delivered(f)' = Delivered(f)
  BY <1>1 DEF Delivered, UnderWay
<1>4. AskedInv'
  BY <1>1, <1>2 DEF AskedAllInv, AskedInv
<1>5. NothingPassedOver' /\ NothingUnasked'
  BY <1>1, <1>2, <1>3 DEF AskedAllInv, ExactlyAsked, NothingPassedOver, NothingUnasked
<1>6. QED
  BY <1>4, <1>5 DEF ExactlyAsked

\* What arrives was under way before.
LEMMA SameDelivered ==
  ASSUME AskedAllInv, UNCHANGED <<cache, sent_ts, subscription, due>>,
         \A f \in Field : \A r : r \in Delivered(f)' <=> r \in Delivered(f)
  PROVE  AskedInv' /\ ExactlyAsked'
<1>1. AskedInv'
  BY DEF AskedAllInv, AskedInv
<1>2. NothingPassedOver'
  BY DEF AskedAllInv, ExactlyAsked, NothingPassedOver
<1>3. NothingUnasked'
  BY DEF AskedAllInv, ExactlyAsked, NothingUnasked
<1>4. QED
  BY <1>1, <1>2, <1>3 DEF ExactlyAsked

\* The first cursor of a field that is named: what is later is the latest
\* record, if that is asked for.
LEMMA BeginsAtLatest ==
  ASSUME NEW list \in Seq(Record), Rising(list), NEW spec \in Subscription, NEW t \in Int,
         spec.seconds \in {0, -1}, spec.back_records = 0
  PROVE  LET ts == InitialTimestamp(list, spec, t)
             promised == {list[i] : i \in {k \in 1..Len(list) :
                            \/ k > Len(list) - spec.back_records
                            \/ spec.seconds > 0 /\ t - list[k].ts <= spec.seconds
                            \/ spec.seconds = -1 /\ k = Len(list)}}
         IN  \A r \in ToSet(list) : r.ts > ts <=> r \in promised
<1> DEFINE ts == InitialTimestamp(list, spec, t)
           n == Len(list)
           promised == {list[i] : i \in {k \in 1..n :
                          \/ k > n - spec.back_records
                          \/ spec.seconds > 0 /\ t - list[k].ts <= spec.seconds
                          \/ spec.seconds = -1 /\ k = n}}
<1>1. n \in Nat /\ \A i \in 1..n : list[i] \in ToSet(list) /\ list[i].ts \in Nat /\ 0 < list[i].ts
  <2>1. \A i \in 1..n : list[i] \in ToSet(list) /\ list[i].ts \in 1..TimeBound
    BY RecordTypes
  <2>2. QED
    BY <2>1
<1>2. \A i, j \in 1..n : i < j => list[i].ts < list[j].ts
  BY RecordTypes DEF Rising
<1>3. ToSet(list) = {list[i] : i \in 1..n}
  BY RecordTypes
<1>4. promised = {list[i] : i \in {k \in 1..n : spec.seconds = -1 /\ k = n}}
  <2>1. \A k \in 1..n : /\ ~(k > n - spec.back_records)
                       /\ ~(spec.seconds > 0 /\ t - list[k].ts <= spec.seconds)
    BY <1>1
  <2>2. QED
    BY <2>1
<1> HIDE DEF promised, ts, n
<1>5. ASSUME NEW i \in 1..n PROVE list[i].ts > ts <=> (spec.seconds = -1 /\ i = n)
  <2>1. list # <<>> /\ n \in 1..n
    BY <1>1, <1>5 DEF n
  <2>2. CASE spec.seconds = 0
    <3>1. ts = list[n].ts
      BY <2>1, <2>2 DEF ts, n, InitialTimestamp, Newest
    <3>2. i = n \/ list[i].ts < list[n].ts
      BY <1>2, <2>1
    <3>3. QED
      BY <1>1, <2>1, <2>2, <3>1, <3>2
  <2>3. CASE spec.seconds = -1
    <3>1. ts = IF n > 1 THEN list[n - 1].ts ELSE 0
      BY <2>1, <2>3 DEF ts, n, InitialTimestamp
    <3>2. CASE n = 1
      BY <1>1, <2>1, <2>3, <3>1, <3>2
    <3>3. CASE n > 1
      <4>1. n - 1 \in 1..n /\ n - 1 < n /\ (i = n \/ i = n - 1 \/ i < n - 1)
        BY <1>1, <3>3
      <4>2. list[n - 1].ts < list[n].ts /\ (i = n \/ i = n - 1 \/ list[i].ts < list[n - 1].ts)
        BY <1>2, <2>1, <4>1
      <4>3. QED
        BY <1>1, <2>1, <2>3, <3>1, <3>3, <4>1, <4>2
    <3>4. QED
      BY <1>1, <2>1, <3>2, <3>3
  <2>4. QED
    BY <2>2, <2>3
<1>6. ASSUME NEW i \in 1..n PROVE list[i] \in promised <=> (spec.seconds = -1 /\ i = n)
  <2>1. ASSUME NEW j \in 1..n, list[i] = list[j] PROVE i = j
    BY <1>1, <1>2, <2>1
  <2>2. QED
    BY <1>4, <2>1
<1>7. \A r \in ToSet(list) : r.ts > ts <=> r \in promised
  BY <1>3, <1>5, <1>6
<1>8. QED
  BY <1>7 DEF promised, ts, n

LEMMA SubscribedIsAsked ==
  ASSUME AsksForLatest, AskedAllInv, HandleSubscribe
  PROVE  AskedInv' /\ ExactlyAsked'
<1>1. /\ UNCHANGED <<cache, subscription>>
      /\ sent_ts' = [f \in Field |-> IF f \notin Matching THEN NONE
                                     ELSE IF subscription.pattern THEN 0 ELSE InitialTs(cache[f])]
      /\ due' = [f \in Field |-> IF f \in Matching THEN Promised(cache[f]) ELSE {}]
  BY DEF HandleSubscribe, cacheVars, linkVars
<1>2. \A f \in Field : \A r : r \notin Delivered(f)'
  BY SubscribeKeepsFlow DEF AskedAllInv
<1>3. NothingUnasked'
  BY <1>2 DEF NothingUnasked
<1>4. subscription \in Subscription
      /\ (~subscription.pattern => subscription.seconds \in {0, -1} /\ subscription.back_records = 0)
  <2>1. subscription \in Subscriptions
    BY DEF AskedAllInv, InOrderInv, Talking, TypeOK
  <2>2. QED
    BY <2>1, ServerAssumption DEF AsksForLatest
<1>5. ASSUME NEW f \in Field PROVE cache[f] \in Seq(Record) /\ Rising(cache[f]) /\ now \in Int
  BY Lists, Counters DEF AskedAllInv, InOrderInv, Talking, CursorInv
<1>6. ASSUME ~subscription.pattern, NEW f \in Field, sent_ts'[f] # NONE
      PROVE  \A r \in ToSet(cache[f]) : r.ts > sent_ts'[f] <=> r \in due'[f]
  <2>1. sent_ts'[f] = InitialTimestamp(cache[f], subscription, now) /\ due'[f] = Promised(cache[f])
    BY <1>1, <1>6 DEF InitialTs
  <2>2. QED
    BY <1>4, <1>5, <1>6, <2>1, BeginsAtLatest DEF Promised
<1>7. AskedInv'
  BY <1>1, <1>6 DEF AskedInv
<1>8. ASSUME subscription.pattern, NEW f \in Field, sent_ts'[f] # NONE
      PROVE  \A r \in ToSet(cache[f]) : r.ts > sent_ts'[f]
  <2>1. sent_ts'[f] = 0
    BY <1>1, <1>8
  <2>2. \A r \in ToSet(cache[f]) : r.ts \in 1..TimeBound
    BY <1>5, RecordTypes
  <2>3. QED
    BY <2>1, <2>2
<1>9. NothingPassedOver'
  BY <1>1, <1>6, <1>8 DEF NothingPassedOver
<1>10. QED
  BY <1>3, <1>7, <1>9 DEF ExactlyAsked

LEMMA SentIsAsked ==
  ASSUME AskedAllInv, SendData, UNCHANGED <<cache, got, subscription, due>>
  PROVE  AskedInv' /\ ExactlyAsked'
<1>1. \A f \in Field : \A r : r \in Delivered(f)' <=>
        \/ r \in Delivered(f)
        \/ r \in ToSet(cache[f]) /\ sent_ts[f] # NONE /\ r.ts > sent_ts[f]
  BY DataKeepsFlow DEF AskedAllInv, InOrderInv
<1>2. ASSUME NEW f \in Field, sent_ts'[f] # NONE
      PROVE  /\ sent_ts[f] # NONE
             /\ \A r \in ToSet(cache[f]) : r.ts > sent_ts'[f] => r.ts > sent_ts[f]
  <2>1. sent_ts[f] # NONE /\ sent_ts[f] <= sent_ts'[f]
    BY <1>2, DataFollows DEF AskedAllInv, InOrderInv
  <2>2. sent_ts' \in [Field -> 0..TimeBound \cup {NONE}]
    BY DataIsSent DEF AskedAllInv, InOrderInv
  <2>3. sent_ts'[f] \in 0..TimeBound
    BY <1>2, <2>2
  <2>4. sent_ts[f] \in Nat /\ \A r \in ToSet(cache[f]) : r.ts \in Nat
    BY <2>1, CursorTyped DEF AskedAllInv, InOrderInv
  <2>5. QED
    BY <2>1, <2>3, <2>4
<1>3. AskedInv'
  BY <1>2 DEF AskedAllInv, AskedInv
<1>4. NothingPassedOver'
  BY <1>1, <1>2 DEF AskedAllInv, ExactlyAsked, NothingPassedOver
<1>5. NothingUnasked'
  BY <1>1 DEF AskedAllInv, AskedInv, ExactlyAsked, NothingUnasked
<1>6. QED
  BY <1>3, <1>4, <1>5 DEF ExactlyAsked

LEMMA StepKeepsAsked == InOrder /\ AsksForLatest => (AskedAllInv /\ [Next]_vars => AskedAllInv')
<1> SUFFICES ASSUME InOrder, AsksForLatest, AskedAllInv, [Next]_vars PROVE AskedAllInv'
  OBVIOUS
<1>1. InOrderInv'
  BY StepKeepsOrder DEF AskedAllInv
<1>2. CASE CacheRecord
  BY <1>1, <1>2, CachedIsAsked DEF AskedAllInv
<1>3. CASE \E f \in Field : Cleanup(f)
  BY <1>1, <1>3, CleanupKeepsAsked DEF AskedAllInv
<1>4. CASE Tick \/ Connect \/ NapEnds \/ UNCHANGED vars
  <2>1. UNCHANGED <<cache, sent_ts, subscription, due, got, replies>>
    BY <1>4 DEF Tick, Connect, NapEnds, vars, cacheVars, serverVars, linkVars, historyVars
  <2>2. \A f \in Field : \A r : r \in Delivered(f)' <=> r \in Delivered(f)
    BY <2>1 DEF Delivered, UnderWay
  <2>3. QED
    BY <1>1, <2>1, <2>2, SameDelivered DEF AskedAllInv
<1>5. CASE ReadReply
  <2>1. UNCHANGED <<cache, sent_ts, subscription, due>>
    BY <1>5 DEF ReadReply, cacheVars, serverVars, linkVars
  <2>2. \A f \in Field : \A r : r \in Delivered(f)' <=> r \in Delivered(f)
    BY <1>5, ReadKeepsFlow DEF AskedAllInv, InOrderInv
  <2>3. QED
    BY <1>1, <2>1, <2>2, SameDelivered DEF AskedAllInv
<1>6. CASE LoseConnection
  <2>1. NoConnection'
    BY <1>6 DEF LoseConnection, NoConnection
  <2>2. AskedInv' /\ ExactlyAsked'
    BY <2>1, AskedStarts, PTL
  <2>3. QED
    BY <1>1, <2>2 DEF AskedAllInv
<1>7. CASE HandleSubscribe
  BY <1>1, <1>7, SubscribedIsAsked DEF AskedAllInv
<1>8. CASE HandleReady \/ SendAfterPause
  <2>1. SendData /\ UNCHANGED <<cache, got, subscription, due>>
    BY <1>8 DEF HandleReady, SendAfterPause, cacheVars, linkVars, historyVars
  <2>2. QED
    BY <1>1, <2>1, SentIsAsked DEF AskedAllInv
<1>9. CASE HandleReadyInVain
  <2>1. UNCHANGED <<cache, sent_ts, subscription, due>>
    BY <1>9 DEF HandleReadyInVain, cacheVars, linkVars, historyVars
  <2>2. \A f \in Field : \A r : r \in Delivered(f)' <=> r \in Delivered(f)
    BY <1>9, VainKeepsFlow DEF AskedAllInv
  <2>3. QED
    BY <1>1, <2>1, <2>2, SameDelivered DEF AskedAllInv
<1>10. QED
  BY <1>2, <1>3, <1>4, <1>5, <1>6, <1>7, <1>8, <1>9 DEF Next, Reader, Server

\* A reader of fields with later and later timestamps is sent exactly what
\* it asked for: all that matches its pattern, or of the fields it names the
\* records to come, with or without the latest one there is.
THEOREM SentAsAsked == InOrder /\ AsksForLatest => (Spec => []ExactlyAsked)
<1> SUFFICES ASSUME InOrder, AsksForLatest PROVE Spec => []ExactlyAsked
  OBVIOUS
<1>1. Init => AskedAllInv
  BY OrderStarts, AskedStarts DEF Init, AskedAllInv
<1>2. AskedAllInv /\ [Next]_vars => AskedAllInv'
  BY StepKeepsAsked
<1>3. AskedAllInv => ExactlyAsked
  BY DEF AskedAllInv
<1>4. QED
  BY <1>1, <1>2, <1>3, PTL DEF Spec
=============================================================================
