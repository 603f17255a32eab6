---------------------------- MODULE PagesProofs ----------------------------
(***************************************************************************)
(* Proofs about the pages, the console of WebConsole and the pages of      *)
(* WidgetPage as MCPages puts them side by side, for all their constants.  *)
(*                                                                         *)
(* The argument is the same for both.  The records of a field that a page  *)
(* has been given, those in the message under way and those later than the *)
(* server's timestamp of the field follow each other, so that what arrives *)
(* is later than what is there.  ConsoleInv says this of the lines of the  *)
(* console's windows, GivenInv of what a page of widgets was given; what a *)
(* widget shows is then a function of what was given, by lemmas on lists:  *)
(* the end of a list that a timeline keeps, with more after it, is trimmed *)
(* where the whole list is.                                                *)
(***************************************************************************)
EXTENDS MCPages, SequenceTheorems, FiniteSetTheorems, TLAPS

Timed(R) == \A r \in R : r.ts \in Nat

Rising(list) == \A i, j \in 1..Len(list) : i < j => list[i].ts < list[j].ts

\* Every record of one list is earlier than every record of another.
Precedes(s, t) == \A i \in 1..Len(s), j \in 1..Len(t) : s[i].ts < t[j].ts

\* No record of a list is later than ts.
UpTo(list, ts) == \A i \in 1..Len(list) : list[i].ts <= ts

(***************************************************************************)
(* The invariant of the console.                                           *)
(***************************************************************************)
ValuesOf(f) ==
  CASE f = "definition" -> Definitions
    [] f = "mode"       -> Modes
    [] f = "status"     -> Statuses
    [] OTHER            -> {f}

Rec(f) == [ts : 1..ClockBound, val : ValuesOf(f)]

Requests == {Ready} \cup [type : {"subscribe"}, fields : UNION {[F -> FieldSpec] : F \in SUBSET Field}]

Replies ==
  [type : {"subscribe", "data"},
   data : UNION {[F -> UNION {Seq(Rec(f)) : f \in Field}] : F \in SUBSET Field}]

\* The cache's lists, and those of the messages under way, are in order, and
\* none of their records is later than the clock.
ListOK(list, f) == list \in Seq(Rec(f)) /\ Rising(list) /\ UpTo(list, clock)

FeedInv ==
  /\ clock \in 0..ClockBound /\ link \in {"closed", "open"} /\ losses \in 0..LossBound
  /\ \A f \in Field : ListOK(cache[f], f)
  /\ sent_ts \in [Field -> 0..ClockBound \cup {NONE}]
  /\ requests \in Seq(Requests) /\ replies \in Seq(Replies)
  /\ \A i \in 1..Len(replies) : \A f \in DOMAIN replies[i].data :
       ListOK(replies[i].data[f], f) /\ replies[i].data[f] # <<>>
  /\ link = "closed" => requests = <<>> /\ replies = <<>> /\ \A f \in Field : sent_ts[f] = NONE

WindowsInv ==
  /\ button \in [Logger -> Buttons \cup {NONE}]
  /\ window \in [Logger -> Seq(1..ClockBound)]
  /\ \A l \in Logger \ Loggers : window[l] = <<>>
  /\ manager \in Seq(1..ClockBound)
  /\ mode_shown \in Modes \cup {NONE}
  /\ {last_cruise, last_mode, last_status} \subseteq 0..clock
  /\ timer \in BOOLEAN /\ offered \in BOOLEAN
  /\ resubs \in Nat
  /\ KeepsAsking

\* The lines of logger l that are shown, those of each message under way and
\* those to be sent follow each other.
FlowInv(l) ==
  /\ \A i, j \in 1..Len(window[l]) : i < j => window[l][i] < window[l][j]
  /\ \A i \in 1..Len(replies) : l \in DOMAIN replies[i].data =>
       /\ \A a \in 1..Len(window[l]), b \in 1..Len(replies[i].data[l]) :
            window[l][a] < replies[i].data[l][b].ts
       /\ sent_ts[l] # NONE /\ UpTo(replies[i].data[l], sent_ts[l])
  /\ \A i, j \in 1..Len(replies) :
       i < j /\ l \in DOMAIN replies[i].data /\ l \in DOMAIN replies[j].data =>
         Precedes(replies[i].data[l], replies[j].data[l])
  /\ sent_ts[l] = NONE => window[l] = <<>>
  /\ sent_ts[l] # NONE => \A a \in 1..Len(window[l]) : window[l][a] <= sent_ts[l]

Listed(active) ==
  \E m \in 1..Len(cache["definition"]) : DOMAIN cache["definition"][m].val.active = active

\* On the first connection, while all definitions have the same loggers: the
\* page lists no loggers, and has not subscribed to any, or lists those and
\* has subscribed once to them.
OnceInv ==
  /\ \A i \in 1..Len(replies) : "definition" \in DOMAIN replies[i].data =>
       \A n \in 1..Len(replies[i].data["definition"]) :
         Listed(DOMAIN replies[i].data["definition"][n].val.active)
  /\ Loggers # {} => Listed(Loggers)
  /\ Loggers = {} <=> resubs = 0
  /\ link = "closed" => Loggers = {}
  /\ \A i \in 1..Len(requests) : requests[i].type = "subscribe" =>
       /\ \A l \in Logger : sent_ts[l] = NONE
       /\ Loggers = {} => \A l \in Logger : l \notin DOMAIN requests[i].fields
       /\ \A j \in 1..Len(requests) : requests[j].type = "subscribe" => i = j
  /\ Loggers = {} => \A l \in Logger : sent_ts[l] = NONE
  /\ \A l \in Logger : FlowInv(l)

ConsoleInv == FeedInv /\ WindowsInv /\ (losses = 0 /\ SameLoggers => OnceInv)

(***************************************************************************)
(* The invariant of the pages of widgets.                                  *)
(***************************************************************************)
PageRec == [ts : 1..PageClockBound, val : PageField \cup {NONE}]

PageData == UNION {[F -> Seq(PageRec)] : F \in SUBSET PageField}

PageRequests == {P!Ready} \cup [type : {"subscribe"}, fields : {P!DataRequest}]

PageReplies == [type : {"subscribe", "data"}, data : PageData]

PageListOK(list) == list \in Seq(PageRec) /\ Rising(list) /\ UpTo(list, p_clock)

PageFeedInv ==
  /\ p_clock \in 0..PageClockBound /\ p_link \in {"closed", "open"} /\ p_losses \in 0..LossBound
  /\ \A f \in PageField : PageListOK(p_cache[f])
  /\ p_sent_ts \in [PageField -> 0..PageClockBound \cup {NONE}]
  /\ p_requests \in Seq(PageRequests) /\ p_replies \in Seq(PageReplies)
  /\ \A i \in 1..Len(p_replies) : \A f \in DOMAIN p_replies[i].data :
       PageListOK(p_replies[i].data[f]) /\ p_replies[i].data[f] # <<>>
  /\ p_page \in Pages /\ p_threw \in BOOLEAN
  /\ p_link = "closed" => p_requests = <<>> /\ p_replies = <<>> /\ \A f \in PageField : p_sent_ts[f] = NONE
  /\ p_link = "closed" /\ p_losses = 0 => ~p_threw
  /\ p_link = "open" => Len(p_requests) + Len(p_replies) = IF p_threw THEN 0 ELSE 1
  /\ \A i \in 1..Len(p_requests) : p_requests[i].type = "subscribe" =>
       \A f \in PageField : p_sent_ts[f] = NONE

ShownInv ==
  /\ DOMAIN p_shown = DOMAIN p_page
  /\ \A i \in DOMAIN p_page :
       /\ DOMAIN p_shown[i] = DOMAIN p_page[i].fields
       /\ \A k \in DOMAIN p_page[i].fields :
            /\ p_page[i].kind = "map" => p_shown[i][k] \in Seq(PageRec)
            /\ p_page[i].kind \in {"text", "dial", "d3_dial"} => Len(p_shown[i][k]) <= 1
  /\ p_got \in [PageField -> Seq(PageRec)]

\* What was given, what is under way and what will be sent follow each other.
GivenInv ==
  \A f \in PageField :
    /\ Rising(p_got[f])
    /\ \A i \in 1..Len(p_replies) : f \in DOMAIN p_replies[i].data =>
         /\ Precedes(p_got[f], p_replies[i].data[f])
         /\ p_sent_ts[f] # NONE /\ UpTo(p_replies[i].data[f], p_sent_ts[f])
    /\ p_sent_ts[f] = NONE => p_got[f] = <<>>
    /\ p_sent_ts[f] # NONE => UpTo(p_got[f], p_sent_ts[f])

SameTimes(s, t) == Len(s) = Len(t) /\ \A i \in 1..Len(s) : s[i].ts = t[i].ts

AlikeFields(f, g) ==
  /\ f \in P!PageFields /\ g \in P!PageFields
  /\ \A S \in Together : f \in S <=> g \in S
  /\ P!DataRequest[f] = P!DataRequest[g]

AlikeInv ==
  \A f, g \in PageField : AlikeFields(f, g) =>
    /\ SameTimes(p_cache[f], p_cache[g])
    /\ p_sent_ts[f] = p_sent_ts[g]
    /\ \A i \in 1..Len(p_replies) :
         /\ f \in DOMAIN p_replies[i].data <=> g \in DOMAIN p_replies[i].data
         /\ f \in DOMAIN p_replies[i].data => SameTimes(p_replies[i].data[f], p_replies[i].data[g])

\* The coordinates of a map's markers.
MapsInv ==
  \A i \in P!Of({"map"}) : P!Alike(i) =>
    \A k, m \in DOMAIN p_page[i].fields : SameTimes(p_shown[i][k], p_shown[i][m])

PageInv ==
  /\ PageFeedInv /\ ShownInv /\ (p_losses = 0 => GivenInv) /\ AlikeInv
  /\ P!LatestShown /\ P!TimelineExact /\ MapsInv

-----------------------------------------------------------------------------
(***************************************************************************)
(* Sets in ascending order.                                                *)
(***************************************************************************)
Enumerates(a, n, S) ==
  /\ a \in [1..n -> S]
  /\ \A i, j \in 1..n : i < j => a[i] < a[j]
  /\ \A x \in S : \E i \in 1..n : a[i] = x

\* Indices.
LEMMA IndicesAreFinite ==
  ASSUME NEW n \in Int, NEW S, \A i \in S : i \in 1..n
  PROVE  S \in SUBSET Int /\ IsFiniteSet(S)
<1>1. S \in SUBSET (1..n) /\ IsFiniteSet(1..n)
  BY FS_Interval
<1>2. IsFiniteSet(S)
  BY <1>1, FS_Subset
<1>. QED  BY <1>2

\* Of an enumeration the k-th element is the one that k - 1 are less than.
LEMMA OneEnumeration ==
  ASSUME NEW S \in SUBSET Int, NEW n \in Nat, NEW a, Enumerates(a, n, S)
  PROVE  n = Cardinality(S) /\ a = Ascending(S)
<1>0. a \in [1..n -> Int]
  BY DEF Enumerates
<1>1. ASSUME NEW k \in 0..n, NEW T \in SUBSET S,
             \A i \in 1..k : a[i] \in T, \A x \in T : \E i \in 1..k : a[i] = x
      PROVE  Cardinality(T) = k
  <2>. DEFINE b == [i \in 1..k |-> a[i]]
  <2>1. b \in [1..k -> T]
    BY <1>1
  <2>2. \A i, j \in 1..k : b[i] = b[j] => i = j
    <3>1. SUFFICES ASSUME NEW i \in 1..k, NEW j \in 1..k, a[i] = a[j]
                   PROVE  i = j
      OBVIOUS
    <3>2. i \in 1..n /\ j \in 1..n /\ a[i] \in Int
      BY <1>0, <3>1
    <3>3. ~(i < j) /\ ~(j < i)
      BY <3>1, <3>2 DEF Enumerates
    <3>. QED  BY <3>2, <3>3
  <2>3. b \in Injection(1..k, T) /\ b \in Surjection(1..k, T)
    BY <1>1, <2>1, <2>2 DEF Injection, Surjection, IsInjective
  <2>4. ExistsBijection(1..k, T)
    BY <2>3 DEF ExistsBijection, Bijection
  <2>. QED  BY <2>4, FS_CountingElements
<1>2. n = Cardinality(S)
  BY <1>1 DEF Enumerates
<1>3. ASSUME NEW k \in 1..n, NEW x \in S
      PROVE  Cardinality({j \in S : j < x}) = k - 1 <=> x = a[k]
  <2>1. PICK i \in 1..n : a[i] = x
    BY DEF Enumerates
  <2>. DEFINE T == {j \in S : j < x}
  <2>2. \A j \in 1..(i - 1) : a[j] \in T
    <3>1. \A j \in 1..(i - 1) : j \in 1..n /\ j < i
      OBVIOUS
    <3>. QED  BY <2>1, <3>1 DEF Enumerates
  <2>3. \A y \in T : \E j \in 1..(i - 1) : a[j] = y
    <3>1. SUFFICES ASSUME NEW y \in T
                   PROVE  \E j \in 1..(i - 1) : a[j] = y
      OBVIOUS
    <3>2. PICK j \in 1..n : a[j] = y
      BY DEF Enumerates
    <3>3. ~(i <= j)
      BY <1>0, <2>1, <3>2 DEF Enumerates
    <3>. QED  BY <3>2, <3>3
  <2>4. Cardinality(T) = i - 1
    <3>1. i - 1 \in 0..n /\ T \in SUBSET S
      OBVIOUS
    <3>. HIDE DEF T
    <3>. QED  BY <1>1, <2>2, <2>3, <3>1
  <2>5. i = k <=> a[i] = a[k]
    <3>1. i = k \/ i < k \/ k < i
      OBVIOUS
    <3>2. (i < k => a[i] < a[k]) /\ (k < i => a[k] < a[i])
      BY DEF Enumerates
    <3>3. a[i] \in Int /\ a[k] \in Int
      BY <1>0
    <3>. QED  BY <3>1, <3>2, <3>3
  <2>. QED  BY <2>1, <2>4, <2>5
<1>4. ASSUME NEW k \in 1..n
      PROVE  a[k] = CHOOSE i \in S : Cardinality({j \in S : j < i}) = k - 1
  <2>1. a[k] \in S
    BY DEF Enumerates
  <2>. QED  BY <1>3, <2>1
<1>5. a = [k \in 1..n |-> a[k]]
  BY DEF Enumerates
<1>. QED  BY <1>2, <1>4, <1>5 DEF Ascending

\* A finite set of numbers can be enumerated: how many are less than each
\* differs, and is a number less than that of them all.
LEMMA AscendingEnumerates ==
  ASSUME NEW S \in SUBSET Int, IsFiniteSet(S)
  PROVE  Cardinality(S) \in Nat /\ Enumerates(Ascending(S), Cardinality(S), S)
<1>. DEFINE n == Cardinality(S)
            Less(x) == {j \in S : j < x}
            rank == [x \in S |-> Cardinality(Less(x)) + 1]
<1>1. n \in Nat
  BY FS_CardinalityType
<1>2. ASSUME NEW T \in SUBSET S, NEW x \in S, x \notin T
      PROVE  Cardinality(T) \in Nat /\ Cardinality(T) < n
  <2>1. IsFiniteSet(T) /\ Cardinality(T) <= n /\ Cardinality(T) # n
    BY <1>1, <1>2, FS_Subset
  <2>2. Cardinality(T) \in Nat
    BY <2>1, FS_CardinalityType
  <2>. QED  BY <1>1, <2>1, <2>2
<1>3. ASSUME NEW x \in S, NEW y \in S, x < y
      PROVE  rank[x] < rank[y]
  <2>1. Less(x) \in SUBSET Less(y) /\ x \in Less(y) /\ x \notin Less(x)
    <3>1. x \in Int /\ y \in Int /\ \A j \in S : j \in Int
      OBVIOUS
    <3>2. ~(x < x) /\ \A j \in S : j < x => j < y
      BY <1>3, <3>1
    <3>. QED  BY <1>3, <3>2, Zenon
  <2>2. IsFiniteSet(Less(x)) /\ IsFiniteSet(Less(y))
    BY <1>1, FS_Subset
  <2>3. Cardinality(Less(x)) <= Cardinality(Less(y)) /\ Cardinality(Less(x)) # Cardinality(Less(y))
    BY <2>1, <2>2, FS_Subset
  <2>4. Cardinality(Less(x)) \in Nat /\ Cardinality(Less(y)) \in Nat
    BY <2>2, FS_CardinalityType
  <2>. QED  BY <2>3, <2>4
<1>4. rank \in [S -> 1..n]
  <2>1. ASSUME NEW x \in S PROVE Cardinality(Less(x)) + 1 \in 1..n
    <3>1. Less(x) \in SUBSET S /\ x \notin Less(x)
      OBVIOUS
    <3>. QED  BY <1>1, <1>2, <3>1
  <2>. QED  BY <2>1
<1>5. rank \in Injection(S, 1..n)
  <2>1. ASSUME NEW x \in S, NEW y \in S, rank[x] = rank[y]
        PROVE  x = y
    <3>1. rank[x] \in Nat /\ x \in Int /\ y \in Int
      BY <1>4
    <3>. QED  BY <1>3, <2>1, <3>1
  <2>. QED  BY <1>4, <2>1 DEF Injection, IsInjective
<1>6. rank \in Surjection(S, 1..n)
  <2>1. IsFiniteSet(1..n) /\ Cardinality(1..n) = n
    BY <1>1, FS_Interval
  <2>. QED  BY <1>5, <2>1, FS_Injection
<1>. HIDE DEF rank
<1>7. ASSUME NEW k \in 1..n
      PROVE  Ascending(S)[k] \in S /\ rank[Ascending(S)[k]] = k
  <2>1. PICK x \in S : rank[x] = k
    BY <1>6 DEF Surjection
  <2>2. \A y \in S : rank[y] = k <=> Cardinality(Less(y)) = k - 1
    <3>1. \A y \in S : Cardinality(Less(y)) \in Nat
      BY <1>1, FS_Subset, FS_CardinalityType
    <3>. QED  BY <3>1 DEF rank
  <2>3. Ascending(S)[k] = CHOOSE i \in S : Cardinality(Less(i)) = k - 1
    BY DEF Ascending
  <2>. HIDE DEF Less
  <2>4. Ascending(S)[k] \in S /\ Cardinality(Less(Ascending(S)[k])) = k - 1
    BY <2>1, <2>2, <2>3
  <2>. QED  BY <2>2, <2>4
<1>8. DOMAIN Ascending(S) = 1..n /\ Ascending(S) = [k \in 1..n |-> Ascending(S)[k]]
  <2>. DEFINE kth(k) == CHOOSE i \in S : Cardinality(Less(i)) = k - 1
  <2>1. Ascending(S) = [k \in 1..n |-> kth(k)]
    BY DEF Ascending
  <2>. HIDE DEF kth, n, Less
  <2>. QED  BY <2>1
<1>9. \A i, j \in 1..n : i < j => Ascending(S)[i] < Ascending(S)[j]
  <2>1. SUFFICES ASSUME NEW i \in 1..n, NEW j \in 1..n, i < j
                 PROVE  Ascending(S)[i] < Ascending(S)[j]
    OBVIOUS
  <2>. DEFINE x == Ascending(S)[i]
              y == Ascending(S)[j]
  <2>2. x \in S /\ y \in S /\ rank[x] = i /\ rank[y] = j
    BY <1>7
  <2>. HIDE DEF x, y
  <2>3. x # y /\ ~(y < x)
    BY <1>3, <2>1, <2>2
  <2>4. x \in Int /\ y \in Int
    BY <2>2
  <2>5. x < y
    BY <2>3, <2>4
  <2>. QED  BY <2>5 DEF x, y
<1>10. \A x \in S : \E i \in 1..n : Ascending(S)[i] = x
  <2>1. SUFFICES ASSUME NEW x \in S
                 PROVE  Ascending(S)[rank[x]] = x
    BY <1>4
  <2>2. rank[x] \in 1..n
    BY <1>4
  <2>. DEFINE y == Ascending(S)[rank[x]]
  <2>3. y \in S /\ rank[y] = rank[x]
    BY <1>7, <2>2
  <2>. HIDE DEF y
  <2>4. y = x
    BY <1>5, <2>3 DEF Injection, IsInjective
  <2>. QED  BY <2>4 DEF y
<1>. QED  BY <1>1, <1>7, <1>8, <1>9, <1>10 DEF Enumerates

\* The numbers of an interval.
LEMMA AscendingInterval ==
  ASSUME NEW m \in Nat, NEW n \in Nat, m <= n + 1
  PROVE  /\ Cardinality(m..n) = n - m + 1
         /\ \A k \in 1..(n - m + 1) : Ascending(m..n)[k] = m + k - 1
<1>. DEFINE c == n - m + 1
            a == [k \in 1..c |-> m + k - 1]
<1>1. c \in Nat /\ m..n \in SUBSET Int
  OBVIOUS
<1>2. Enumerates(a, c, m..n)
  <2>1. a \in [1..c -> m..n] /\ \A i, j \in 1..c : i < j => a[i] < a[j]
    OBVIOUS
  <2>2. \A x \in m..n : x - m + 1 \in 1..c /\ a[x - m + 1] = x
    OBVIOUS
  <2>. QED  BY <2>1, <2>2 DEF Enumerates
<1>3. c = Cardinality(m..n) /\ a = Ascending(m..n)
  BY <1>1, <1>2, OneEnumeration
<1>. QED  BY <1>3

\* The greatest of a finite set of numbers is the last in ascending order.
LEMMA GreatestIsIn ==
  ASSUME NEW S \in SUBSET Int, S # {}, IsFiniteSet(S)
  PROVE  Greatest(S) \in S /\ \A i \in S : i <= Greatest(S)
<1>. DEFINE n == Cardinality(S)
            a == Ascending(S)
<1>1. n \in Nat /\ Enumerates(a, n, S)
  BY AscendingEnumerates
<1>. HIDE DEF n, a
<1>2. n \in 1..n
  <2>1. \E i \in 1..n : TRUE
    BY <1>1 DEF Enumerates
  <2>. QED  BY <1>1, <2>1
<1>3. a[n] \in S
  BY <1>1, <1>2 DEF Enumerates
<1>4. ASSUME NEW i \in S
      PROVE  i <= a[n]
  <2>1. PICK k \in 1..n : a[k] = i
    BY <1>1 DEF Enumerates
  <2>2. k = n \/ k < n
    BY <1>1
  <2>3. i = a[n] \/ i < a[n]
    BY <1>1, <1>2, <2>1, <2>2 DEF Enumerates
  <2>4. i \in Int /\ a[n] \in Int
    BY <1>3
  <2>. QED  BY <2>3, <2>4
<1>. QED  BY <1>3, <1>4 DEF Greatest

-----------------------------------------------------------------------------
(***************************************************************************)
(* Lists of records, which have times.                                     *)
(***************************************************************************)
LEMMA ListFacts ==
  ASSUME NEW R, NEW list \in Seq(R)
  PROVE  /\ Len(list) \in Nat /\ DOMAIN list = 1..Len(list)
         /\ \A i \in 1..Len(list) : list[i] \in R
         /\ list # <<>> => Len(list) \in 1..Len(list)
         /\ list = <<>> <=> Len(list) = 0
OBVIOUS

LEMMA RisingToNewest ==
  ASSUME NEW R, Timed(R), NEW list \in Seq(R), Rising(list), list # <<>>
  PROVE  Newest(list) \in Nat /\ UpTo(list, Newest(list))
<1>1. /\ Len(list) \in 1..Len(list) /\ Len(list) \in Nat
      /\ \A i \in 1..Len(list) : list[i].ts \in Nat
  BY ListFacts DEF Timed
<1>2. SUFFICES ASSUME NEW i \in 1..Len(list)
               PROVE  list[i].ts <= Newest(list)
  BY <1>1 DEF Newest, UpTo
<1>3. i = Len(list) \/ i < Len(list)
  BY <1>1
<1>. QED  BY <1>1, <1>3 DEF Rising, Newest

\* A later record is added.
LEMMA AppendRises ==
  ASSUME NEW R, Timed(R), NEW list \in Seq(R), Rising(list), NEW r \in R,
         \A i \in 1..Len(list) : list[i].ts < r.ts
  PROVE  Append(list, r) \in Seq(R) /\ Rising(Append(list, r))
<1>. DEFINE longer == Append(list, r)
<1>1. /\ longer \in Seq(R) /\ Len(longer) = Len(list) + 1 /\ Len(list) \in Nat
      /\ \A i \in 1..(Len(list) + 1) : longer[i] = IF i <= Len(list) THEN list[i] ELSE r
  BY AppendProperties, ListFacts
<1>. HIDE DEF longer
<1>2. ASSUME NEW i \in 1..(Len(list) + 1), NEW j \in 1..(Len(list) + 1), i < j
      PROVE  longer[i].ts < longer[j].ts
  <2>1. i \in 1..Len(list) /\ longer[i] = list[i]
    BY <1>1, <1>2
  <2>2. CASE j <= Len(list)
    <3>1. j \in 1..Len(list) /\ longer[j] = list[j]
      BY <1>1, <2>2
    <3>. QED  BY <1>2, <2>1, <3>1 DEF Rising
  <2>3. CASE ~(j <= Len(list))
    <3>1. longer[j] = r
      BY <1>1, <2>3
    <3>. QED  BY <2>1, <3>1
  <2>. QED  BY <2>2, <2>3
<1>. QED  BY <1>1, <1>2 DEF Rising, longer

\* Two lists, of which the second is later, make one.
LEMMA JoinRises ==
  ASSUME NEW R, NEW s \in Seq(R), NEW t \in Seq(R), Rising(s), Rising(t), Precedes(s, t)
  PROVE  Rising(s \o t)
<1>. DEFINE both == s \o t
<1>1. /\ Len(s) \in Nat /\ Len(t) \in Nat /\ Len(both) = Len(s) + Len(t)
      /\ \A i \in 1..(Len(s) + Len(t)) : both[i] = IF i <= Len(s) THEN s[i] ELSE t[i - Len(s)]
  BY ConcatProperties, ListFacts
<1>. HIDE DEF both
<1>2. ASSUME NEW i \in 1..(Len(s) + Len(t)), NEW j \in 1..(Len(s) + Len(t)), i < j
      PROVE  both[i].ts < both[j].ts
  <2>1. CASE j <= Len(s)
    <3>1. i \in 1..Len(s) /\ j \in 1..Len(s) /\ both[i] = s[i] /\ both[j] = s[j]
      BY <1>1, <1>2, <2>1
    <3>. QED  BY <1>2, <3>1 DEF Rising
  <2>2. CASE ~(i <= Len(s))
    <3>1. /\ i - Len(s) \in 1..Len(t) /\ j - Len(s) \in 1..Len(t) /\ i - Len(s) < j - Len(s)
          /\ ~(j <= Len(s))
      BY <1>1, <1>2, <2>2
    <3>2. both[i] = t[i - Len(s)] /\ both[j] = t[j - Len(s)]
      BY <1>1, <2>2, <3>1
    <3>. QED  BY <3>1, <3>2 DEF Rising
  <2>3. CASE i <= Len(s) /\ ~(j <= Len(s))
    <3>1. i \in 1..Len(s) /\ j - Len(s) \in 1..Len(t)
      BY <1>1, <2>3
    <3>2. both[i] = s[i] /\ both[j] = t[j - Len(s)]
      BY <1>1, <2>3, <3>1
    <3>. QED  BY <3>1, <3>2 DEF Precedes
  <2>. QED  BY <1>1, <2>1, <2>2, <2>3
<1>. QED  BY <1>1, <1>2 DEF Rising, both

\* Records that are chosen stay in their order; the last one stays the last.
LEMMA ChosenInOrder ==
  ASSUME NEW R, NEW list \in Seq(R), NEW S \in SUBSET (1..Len(list))
  PROVE  /\ Chosen(list, S) \in Seq(R)
         /\ Len(Chosen(list, S)) = Cardinality(S)
         /\ \A k \in 1..Len(Chosen(list, S)) :
              Ascending(S)[k] \in S /\ Chosen(list, S)[k] = list[Ascending(S)[k]]
         /\ \A i \in S : \E k \in 1..Len(Chosen(list, S)) : Chosen(list, S)[k] = list[i]
         /\ Rising(list) => Rising(Chosen(list, S))
         /\ Len(list) \in S => Chosen(list, S) # <<>> /\ Newest(Chosen(list, S)) = Newest(list)
<1>. DEFINE n == Cardinality(S)
            a == Ascending(S)
            c == Chosen(list, S)
<1>1. Len(list) \in Nat /\ S \in SUBSET Int /\ IsFiniteSet(S)
  <2>1. Len(list) \in Int /\ \A i \in S : i \in 1..Len(list)
    BY ListFacts
  <2>. QED  BY <2>1, ListFacts, IndicesAreFinite
<1>2. n \in Nat /\ Enumerates(a, n, S)
  BY <1>1, AscendingEnumerates
<1>3. c = [k \in 1..n |-> list[a[k]]]
  BY DEF Chosen
<1>. HIDE DEF n, a, c
<1>4. \A k \in 1..n : a[k] \in S /\ a[k] \in 1..Len(list) /\ a[k] \in Nat
  <2>1. \A k \in 1..n : a[k] \in S
    BY <1>2 DEF Enumerates
  <2>2. \A i \in S : i \in 1..Len(list) /\ i \in Nat
    OBVIOUS
  <2>. QED  BY <2>1, <2>2
<1>5. c \in Seq(R) /\ Len(c) = n /\ \A k \in 1..n : c[k] = list[a[k]]
  <2>1. \A k \in 1..n : list[a[k]] \in R
    BY <1>4, ListFacts
  <2>. QED  BY <1>2, <1>3, <2>1
<1>6. ASSUME Rising(list), NEW i \in 1..n, NEW j \in 1..n, i < j
      PROVE  c[i].ts < c[j].ts
  <2>1. a[i] < a[j]
    BY <1>2, <1>6 DEF Enumerates
  <2>. QED  BY <1>4, <1>5, <1>6, <2>1 DEF Rising
<1>7. ASSUME Len(list) \in S
      PROVE  c # <<>> /\ Newest(c) = Newest(list)
  <2>1. PICK k \in 1..n : a[k] = Len(list)
    BY <1>2, <1>7 DEF Enumerates
  <2>2. n \in 1..n /\ (k = n \/ k < n)
    BY <1>2
  <2>3. k = n \/ a[k] < a[n]
    BY <1>2, <2>2 DEF Enumerates
  <2>4. a[n] = Len(list)
    BY <1>1, <1>4, <2>1, <2>2, <2>3
  <2>5. c # <<>>
    BY <1>2, <1>5, <2>2
  <2>. QED  BY <1>5, <2>2, <2>4, <2>5 DEF Newest
<1>8. \A i \in S : \E k \in 1..n : c[k] = list[i]
  BY <1>2, <1>5 DEF Enumerates
<1>. QED  BY <1>4, <1>5, <1>6, <1>7, <1>8 DEF Rising, c, n, a

\* What is sent of a list: what is later than ts.
LEMMA LaterIsLater ==
  ASSUME NEW R, Timed(R), NEW list \in Seq(R), NEW ts \in Nat, Rising(list), HasNews(list, ts)
  PROVE  LET later == LaterThan(list, ts) IN
         /\ later \in Seq(R) /\ later # <<>> /\ Newest(later) = Newest(list) /\ Rising(later)
         /\ \A k \in 1..Len(later) :
              later[k].ts > ts /\ \E i \in 1..Len(list) : later[k] = list[i]
<1>. DEFINE S == {i \in 1..Len(list) : list[i].ts > ts}
<1>1. LaterThan(list, ts) = Chosen(list, S)
  BY DEF LaterThan
<1>2. S \in SUBSET (1..Len(list)) /\ Len(list) \in S
  BY ListFacts DEF HasNews, Newest
<1>3. \A i \in S : i \in 1..Len(list) /\ list[i].ts > ts
  OBVIOUS
<1>. HIDE DEF S
<1>. DEFINE c == Chosen(list, S)
<1>4. /\ c \in Seq(R) /\ c # <<>> /\ Newest(c) = Newest(list) /\ Rising(c)
      /\ \A k \in 1..Len(c) : \E i \in S : c[k] = list[i]
  BY <1>2, ChosenInOrder
<1>. HIDE DEF c
<1>. QED  BY <1>1, <1>3, <1>4 DEF c

\* Where a subscription begins is the time of a record, or 0.
LEMMA BeginsInList ==
  ASSUME NEW R, NEW list \in Seq(R), NEW spec \in FieldSpec, NEW now
  PROVE  LET ts == InitialTimestamp(list, spec, now) IN
         ts = 0 \/ \E i \in 1..Len(list) : ts = list[i].ts
<1>. DEFINE old == TooOld(list, spec, now)
            ts == InitialTimestamp(list, spec, now)
<1>1. Len(list) \in Nat /\ spec.back_records \in Nat
  BY ListFacts DEF FieldSpec
<1>2. CASE list = <<>>
  BY <1>2 DEF InitialTimestamp
<1>3. CASE list # <<>>
  <2>1. Len(list) \in 1..Len(list)
    BY <1>3, ListFacts
  <2>2. CASE spec.seconds = 0
    BY <1>3, <2>1, <2>2 DEF InitialTimestamp, Newest
  <2>3. CASE spec.seconds = -1
    <3>1. ts = IF Len(list) > 1 THEN list[Len(list) - 1].ts ELSE 0
      BY <1>3, <2>3 DEF InitialTimestamp
    <3>2. Len(list) > 1 => Len(list) - 1 \in 1..Len(list)
      BY <2>1
    <3>. QED  BY <3>1, <3>2
  <2>4. CASE spec.seconds # 0 /\ spec.seconds # -1
    <3>1. ts = IF old = {} THEN 0
               ELSE LET i == Greatest(old) IN IF i = 1 THEN Newest(list) ELSE list[i - 1].ts
      BY <1>3, <2>4 DEF InitialTimestamp
    <3>2. CASE old # {}
      <4>1. \A i \in old : i \in 1..Len(list)
        BY <1>1 DEF TooOld
      <4>. HIDE DEF old
      <4>2. Greatest(old) \in 1..Len(list)
        <5>1. old \in SUBSET Int /\ IsFiniteSet(old)
          BY <1>1, <4>1, IndicesAreFinite
        <5>2. Greatest(old) \in old
          BY <3>2, <5>1, GreatestIsIn
        <5>. QED  BY <4>1, <5>2
      <4>3. Greatest(old) # 1 => Greatest(old) - 1 \in 1..Len(list)
        BY <1>1, <4>2
      <4>. QED  BY <2>1, <3>1, <3>2, <4>2, <4>3 DEF Newest
    <3>. QED  BY <3>1, <3>2
  <2>. QED  BY <2>2, <2>3, <2>4
<1>. QED  BY <1>2, <1>3

-----------------------------------------------------------------------------
(***************************************************************************)
(* The console's end of the feed.                                          *)
(***************************************************************************)
LEMMA RecTimed ==
  ASSUME NEW f
  PROVE  /\ Timed(Rec(f))
         /\ \A list \in Seq(Rec(f)) : \A i \in 1..Len(list) :
              /\ list[i].ts \in 1..ClockBound /\ list[i].ts \in Nat
              /\ list[i].val \in ValuesOf(f)
<1>1. \A r \in Rec(f) : r.ts \in 1..ClockBound /\ r.val \in ValuesOf(f)
  BY DEF Rec
<1>2. \A r \in Rec(f) : r.ts \in Nat
  BY <1>1, ConsoleAssumption
<1>3. \A list \in Seq(Rec(f)) : \A i \in 1..Len(list) : list[i] \in Rec(f)
  BY ListFacts
<1>. QED  BY <1>1, <1>2, <1>3 DEF Timed

LEMMA RepliesTyped ==
  ASSUME NEW list \in Seq(Replies), NEW i \in 1..Len(list)
  PROVE  list[i] \in Replies /\ DOMAIN list[i].data \subseteq Field
<1>. DEFINE r == list[i]
<1>1. r \in Replies
  BY ListFacts
<1>. HIDE DEF r
<1>2. r.data \in UNION {[F -> UNION {Seq(Rec(f)) : f \in Field}] : F \in SUBSET Field}
  BY <1>1 DEF Replies
<1>3. PICK F \in SUBSET Field : r.data \in [F -> UNION {Seq(Rec(f)) : f \in Field}]
  BY <1>2
<1>4. DOMAIN r.data = F
  BY <1>3
<1>. QED  BY <1>1, <1>4 DEF r

\* What is sent of a field, and what becomes of its timestamp.
LEMMA SentOfField ==
  ASSUME FeedInv, NEW f \in Field, sent_ts[f] # NONE, HasNews(cache[f], sent_ts[f])
  PROVE  LET later == LaterThan(cache[f], sent_ts[f]) IN
         /\ ListOK(later, f) /\ later # <<>> /\ Newest(later) \in 0..ClockBound
         /\ UpTo(later, Newest(later)) /\ Newest(later) > sent_ts[f]
         /\ \A k \in 1..Len(later) :
              later[k].ts > sent_ts[f] /\ \E i \in 1..Len(cache[f]) : later[k] = cache[f][i]
<1>1. Timed(Rec(f)) /\ cache[f] \in Seq(Rec(f)) /\ Rising(cache[f]) /\ UpTo(cache[f], clock)
  BY RecTimed DEF FeedInv, ListOK
<1>2. sent_ts[f] \in Nat
  BY ConsoleAssumption DEF FeedInv
<1>. DEFINE later == LaterThan(cache[f], sent_ts[f])
<1>3. /\ later \in Seq(Rec(f)) /\ later # <<>> /\ Newest(later) = Newest(cache[f]) /\ Rising(later)
      /\ \A k \in 1..Len(later) :
           later[k].ts > sent_ts[f] /\ \E i \in 1..Len(cache[f]) : later[k] = cache[f][i]
  BY <1>1, <1>2, LaterIsLater
<1>. HIDE DEF later
<1>4. UpTo(later, clock)
  BY <1>1, <1>3 DEF UpTo
<1>5. UpTo(later, Newest(later)) /\ Newest(later) \in Nat
  BY <1>1, <1>3, RisingToNewest
<1>6. Newest(later) \in 1..ClockBound
  <2>1. Len(later) \in 1..Len(later)
    BY <1>3, ListFacts
  <2>. QED  BY <1>3, <2>1, RecTimed DEF Newest
<1>7. Newest(later) > sent_ts[f]
  BY <1>3 DEF HasNews
<1>. QED  BY <1>1, <1>3, <1>4, <1>5, <1>6, <1>7 DEF ListOK, later

LEMMA PublishKeepsFeed ==
  ASSUME FeedInv, NEW values, Publishes(values), \A f \in DOMAIN values : values[f] \in ValuesOf(f)
  PROVE  /\ FeedInv'
         /\ clock <= clock'
         /\ \A f \in Field : /\ Len(cache[f]) <= Len(cache'[f])
                             /\ \A i \in 1..Len(cache[f]) : cache'[f][i] = cache[f][i]
<1>1. /\ clock \in Nat /\ ClockBound \in Nat /\ clock' = clock + 1 /\ clock' \in 0..ClockBound
      /\ clock' \in 1..ClockBound
  BY ConsoleAssumption DEF FeedInv, Publishes
<1>2. ASSUME NEW f \in Field, NEW list, ListOK(list, f)
      PROVE  ListOK(list, f)'
  <2>1. \A i \in 1..Len(list) : list[i].ts <= clock /\ list[i].ts \in Nat
    BY <1>2, RecTimed DEF ListOK, UpTo
  <2>. QED  BY <1>1, <1>2, <2>1 DEF ListOK, UpTo
<1>3. ASSUME NEW f \in Field
      PROVE  /\ ListOK(cache[f], f)' /\ Len(cache[f]) <= Len(cache'[f])
             /\ \A i \in 1..Len(cache[f]) : cache'[f][i] = cache[f][i]
  <2>. DEFINE list == cache[f]
  <2>1. list \in Seq(Rec(f)) /\ Rising(list) /\ Len(list) \in Nat
        /\ \A i \in 1..Len(list) : list[i].ts <= clock /\ list[i].ts \in Nat
    BY RecTimed, ListFacts DEF FeedInv, ListOK, UpTo
  <2>2. CASE f \notin DOMAIN values
    <3>1. cache'[f] = list
      BY <2>2 DEF Publishes
    <3>. QED  BY <1>2, <2>1, <3>1 DEF FeedInv
  <2>3. CASE f \in DOMAIN values
    <3>. DEFINE r == [ts |-> clock', val |-> values[f]]
    <3>1. cache'[f] = Append(list, r)
      BY <2>3 DEF Publishes
    <3>2. r \in Rec(f)
      BY <1>1, <2>3 DEF Rec
    <3>. HIDE DEF list
    <3>3. r.ts = clock'
      OBVIOUS
    <3>. HIDE DEF r
    <3>4. \A i \in 1..Len(list) : list[i].ts < r.ts
      BY <1>1, <2>1, <3>3
    <3>5. Append(list, r) \in Seq(Rec(f)) /\ Rising(Append(list, r))
      BY <2>1, <3>2, <3>4, RecTimed, AppendRises
    <3>6. /\ Len(Append(list, r)) = Len(list) + 1
          /\ \A i \in 1..Len(list) : Append(list, r)[i] = list[i]
          /\ Append(list, r)[Len(list) + 1] = r
      BY <2>1, <3>2, AppendProperties
    <3>7. UpTo(Append(list, r), clock')
      <4>1. SUFFICES ASSUME NEW i \in 1..(Len(list) + 1)
                     PROVE  Append(list, r)[i].ts <= clock'
        BY <3>6 DEF UpTo
      <4>2. i \in 1..Len(list) \/ i = Len(list) + 1
        BY <2>1
      <4>. QED  BY <1>1, <2>1, <3>3, <3>6, <4>2
    <3>. QED  BY <2>1, <3>1, <3>5, <3>6, <3>7 DEF ListOK, list
  <2>. QED  BY <2>2, <2>3
<1>4. \A i \in 1..Len(replies') : \A f \in DOMAIN replies'[i].data :
        ListOK(replies[i].data[f], f)' /\ replies'[i].data[f] # <<>>
  <2>1. SUFFICES ASSUME NEW i \in 1..Len(replies), NEW f \in DOMAIN replies[i].data
                 PROVE  ListOK(replies[i].data[f], f)' /\ replies[i].data[f] # <<>>
    BY DEF Publishes
  <2>2. replies[i] \in Replies /\ f \in Field
    BY RepliesTyped DEF FeedInv
  <2>3. ListOK(replies[i].data[f], f) /\ replies[i].data[f] # <<>>
    BY DEF FeedInv
  <2>4. replies' = replies
    BY DEF Publishes
  <2>. DEFINE list == replies[i].data[f]
  <2>5. list' = list
    BY <2>4
  <2>. QED  BY <1>2, <2>2, <2>3, <2>5 DEF ListOK
<1>. QED  BY <1>1, <1>3, <1>4 DEF FeedInv, Publishes

\* Requests and replies leave from the front and come at the end.
LEMMA Queued ==
  ASSUME NEW S, NEW list \in Seq(S), NEW more \in Seq(S)
  PROVE  /\ list \o more \in Seq(S) /\ Len(list \o more) = Len(list) + Len(more)
         /\ \A i \in 1..Len(list \o more) :
              \/ i \in 1..Len(list) /\ (list \o more)[i] = list[i]
              \/ i > Len(list) /\ i - Len(list) \in 1..Len(more) /\ (list \o more)[i] = more[i - Len(list)]
<1>. DEFINE both == list \o more
<1>1. /\ both \in Seq(S) /\ Len(both) = Len(list) + Len(more)
      /\ \A i \in 1..(Len(list) + Len(more)) :
           both[i] = IF i <= Len(list) THEN list[i] ELSE more[i - Len(list)]
  BY ConcatProperties
<1>2. Len(list) \in Nat /\ Len(more) \in Nat
  BY ListFacts
<1>. HIDE DEF both
<1>. QED  BY <1>1, <1>2 DEF both

LEMMA Dequeued ==
  ASSUME NEW S, NEW list \in Seq(S), list # <<>>
  PROVE  /\ Head(list) = list[1] /\ Head(list) \in S /\ 1 \in 1..Len(list)
         /\ Tail(list) \in Seq(S) /\ Len(Tail(list)) = Len(list) - 1
         /\ \A i \in 1..Len(Tail(list)) : i + 1 \in 1..Len(list) /\ Tail(list)[i] = list[i + 1]
<1>1. Len(list) \in Nat \ {0}
  BY ListFacts
<1>. QED  BY <1>1, HeadTailProperties

LEMMA Enqueued ==
  ASSUME NEW S, NEW list \in Seq(S), NEW e \in S
  PROVE  /\ Append(list, e) \in Seq(S) /\ Len(Append(list, e)) = Len(list) + 1
         /\ \A i \in 1..Len(Append(list, e)) :
              \/ i \in 1..Len(list) /\ Append(list, e)[i] = list[i]
              \/ i = Len(list) + 1 /\ Append(list, e)[i] = e
<1>1. Len(list) \in Nat
  BY ListFacts
<1>. QED  BY <1>1, AppendProperties

\* A reply with what has been sent.
LEMMA ReplyKeepsFeed ==
  ASSUME FeedInv, NEW type \in {"subscribe", "data"}, NEW data, Sends(type, data),
         DOMAIN data \subseteq Field,
         data = [f \in DOMAIN data |-> data[f]],
         \A f \in DOMAIN data : ListOK(data[f], f) /\ data[f] # <<>>,
         requests # <<>>, requests' = Tail(requests),
         sent_ts' \in [Field -> 0..ClockBound \cup {NONE}],
         UNCHANGED <<cache, clock, link, losses>>
  PROVE  FeedInv'
<1>. DEFINE r == [type |-> type, data |-> data]
            Lists == UNION {Seq(Rec(f)) : f \in Field}
<1>1. r \in Replies
  <2>1. \A f \in DOMAIN data : data[f] \in Lists
    BY DEF ListOK
  <2>2. data \in [DOMAIN data -> Lists]
    BY <2>1
  <2>. HIDE DEF Lists
  <2>3. data \in UNION {[F -> Lists] : F \in SUBSET Field}
    BY <2>2
  <2>. QED  BY <2>3 DEF Replies, Lists
<1>2. requests' \in Seq(Requests)
  BY Dequeued DEF FeedInv
<1>3. replies' = Append(replies, r) /\ replies \in Seq(Replies)
  BY DEF Sends, FeedInv
<1>4. /\ replies' \in Seq(Replies)
      /\ \A i \in 1..Len(replies') :
           (i \in 1..Len(replies) /\ replies'[i] = replies[i]) \/ replies'[i] = r
  BY <1>1, <1>3, Enqueued
<1>5. ASSUME NEW i \in 1..Len(replies'), NEW f \in DOMAIN replies'[i].data
      PROVE  ListOK(replies'[i].data[f], f) /\ replies'[i].data[f] # <<>>
  <2>1. CASE i \in 1..Len(replies) /\ replies'[i] = replies[i]
    BY <1>5, <2>1 DEF FeedInv
  <2>2. CASE replies'[i] = r
    BY <1>5, <2>2
  <2>. QED  BY <1>4, <2>1, <2>2
<1>6. link' = "open"
  BY DEF FeedInv
<1>. HIDE DEF r
<1>. QED  BY <1>2, <1>4, <1>5, <1>6 DEF FeedInv, ListOK

LEMMA SubscribeKeepsFeed ==
  ASSUME FeedInv, HandleSubscribe
  PROVE  FeedInv'
<1>1. requests # <<>> /\ requests' = Tail(requests) /\ Head(requests).type = "subscribe"
  BY DEF HandleSubscribe, Receives
<1>. DEFINE fields == Head(requests).fields
            Fields == UNION {[F -> FieldSpec] : F \in SUBSET Field}
<1>2. fields \in Fields
  <2>1. Head(requests) \in Requests
    BY <1>1, Dequeued DEF FeedInv
  <2>. QED  BY <1>1, <2>1 DEF Requests, Ready
<1>3. \A f \in DOMAIN fields : fields[f] \in FieldSpec
  <2>1. PICK F \in SUBSET Field : fields \in [F -> FieldSpec]
    BY <1>2
  <2>. QED  BY <2>1
<1>4. sent_ts' = [f \in Field |-> IF f \notin DOMAIN fields THEN NONE
                                   ELSE InitialTimestamp(cache[f], fields[f], clock)]
  BY DEF HandleSubscribe
<1>. HIDE DEF fields
<1>5. ASSUME NEW f \in Field, f \in DOMAIN fields
      PROVE  InitialTimestamp(cache[f], fields[f], clock) \in 0..ClockBound
  <2>. DEFINE ts == InitialTimestamp(cache[f], fields[f], clock)
  <2>1. cache[f] \in Seq(Rec(f))
    BY DEF FeedInv, ListOK
  <2>2. ts = 0 \/ \E i \in 1..Len(cache[f]) : ts = cache[f][i].ts
    BY <1>3, <1>5, <2>1, BeginsInList
  <2>. HIDE DEF ts
  <2>3. ts \in 0..ClockBound
    BY <2>1, <2>2, RecTimed, ConsoleAssumption
  <2>. QED  BY <2>3 DEF ts
<1>6. sent_ts' \in [Field -> 0..ClockBound \cup {NONE}]
  BY <1>4, <1>5
<1>7. Sends("subscribe", Nothing) /\ UNCHANGED <<cache, clock, link, losses>>
  BY DEF HandleSubscribe
<1>8. DOMAIN Nothing = {} /\ Nothing = [f \in DOMAIN Nothing |-> Nothing[f]]
  BY DEF Nothing
<1>. HIDE DEF Nothing
<1>. QED  BY <1>1, <1>6, <1>7, <1>8, ReplyKeepsFeed

LEMMA ReadyKeepsFeed ==
  ASSUME FeedInv, HandleReady
  PROVE  FeedInv'
<1>. DEFINE new == {f \in Field : sent_ts[f] # NONE /\ HasNews(cache[f], sent_ts[f])}
            data == [f \in new |-> LaterThan(cache[f], sent_ts[f])]
<1>1. /\ requests # <<>> /\ requests' = Tail(requests)
      /\ sent_ts' = [f \in Field |-> IF f \in new THEN Newest(data[f]) ELSE sent_ts[f]]
      /\ Sends("data", data) /\ UNCHANGED <<cache, clock, link, losses>>
  BY DEF HandleReady, Receives
<1>2. ASSUME NEW f \in new
      PROVE  ListOK(data[f], f) /\ data[f] # <<>> /\ Newest(data[f]) \in 0..ClockBound
  BY SentOfField
<1>3. DOMAIN data = new /\ data = [f \in DOMAIN data |-> data[f]] /\ new \subseteq Field
  OBVIOUS
<1>. HIDE DEF new, data
<1>4. sent_ts' \in [Field -> 0..ClockBound \cup {NONE}]
  BY <1>1, <1>2 DEF FeedInv
<1>. QED  BY <1>1, <1>2, <1>3, <1>4, ReplyKeepsFeed

LEMMA LossKeepsFeed ==
  ASSUME FeedInv, Loses
  PROVE  FeedInv'
<1>1. ASSUME NEW f \in Field
      PROVE  ListOK(cache[f], f)'
  <2>1. cache' = cache \/ cache'[f] = <<>>
    BY DEF Loses
  <2>2. <<>> \in Seq(Rec(f)) /\ Rising(<<>>) /\ UpTo(<<>>, clock)
    BY DEF Rising, UpTo
  <2>. QED  BY <2>1, <2>2 DEF FeedInv, ListOK, Loses
<1>2. /\ link' = "closed" /\ requests' = <<>> /\ replies' = <<>> /\ Len(replies') = 0
      /\ \A f \in Field : sent_ts'[f] = NONE
      /\ sent_ts' \in [Field -> 0..ClockBound \cup {NONE}]
      /\ requests' \in Seq(Requests) /\ replies' \in Seq(Replies)
  BY DEF Loses
<1>3. losses' \in 0..LossBound
  BY ConsoleAssumption DEF Loses, FeedInv
<1>. QED  BY <1>1, <1>2, <1>3 DEF FeedInv, Loses

LEMMA OpensKeepsFeed ==
  ASSUME FeedInv, NEW fields, Opens(fields), Subscribe(fields) \in Requests
  PROVE  FeedInv'
<1>1. requests' \in Seq(Requests)
  BY DEF Opens
<1>. QED  BY <1>1 DEF FeedInv, Opens, ListOK

LEMMA TakesKeepsFeed ==
  ASSUME FeedInv, NEW answers \in Seq(Requests), Takes(answers)
  PROVE  FeedInv'
<1>1. /\ replies # <<>> /\ replies' = Tail(replies) /\ requests' = requests \o answers
      /\ UNCHANGED <<cache, clock, link, sent_ts, losses>>
  BY DEF Takes
<1>2. requests' \in Seq(Requests)
  BY <1>1, Queued DEF FeedInv
<1>3. /\ replies' \in Seq(Replies)
      /\ \A i \in 1..Len(replies') : i + 1 \in 1..Len(replies) /\ replies'[i] = replies[i + 1]
  BY <1>1, Dequeued DEF FeedInv
<1>4. \A i \in 1..Len(replies') : \A f \in DOMAIN replies'[i].data :
        ListOK(replies'[i].data[f], f) /\ replies'[i].data[f] # <<>>
  BY <1>3 DEF FeedInv
<1>5. link' = "open"
  BY <1>1 DEF FeedInv
<1>. QED  BY <1>1, <1>2, <1>3, <1>4, <1>5 DEF FeedInv, ListOK

-----------------------------------------------------------------------------
(***************************************************************************)
(* What the console shows.                                                 *)
(***************************************************************************)
LEMMA Values ==
  /\ ValuesOf("definition") = Definitions /\ ValuesOf("mode") = Modes
  /\ ValuesOf("status") = Statuses
  /\ \A f \in Logger \cup {"file_update", "manager"} : ValuesOf(f) = {f}
  /\ {"definition", "mode", "status", "file_update", "manager"} \subseteq Field
  /\ Logger \subseteq Field
BY ConsoleAssumption DEF ValuesOf

LEMMA DataFacts ==
  ASSUME FeedInv, replies # <<>>
  PROVE  LET data == Head(replies).data IN
         /\ Head(replies) = replies[1] /\ 1 \in 1..Len(replies)
         /\ DOMAIN data \subseteq Field
         /\ \A f \in DOMAIN data :
              /\ ListOK(data[f], f) /\ data[f] # <<>>
              /\ Len(data[f]) \in 1..Len(data[f])
              /\ Newest(data[f]) \in 1..clock
              /\ Val(data, f) \in ValuesOf(f)
              /\ Lines(data, f) \in Seq(1..ClockBound) /\ Len(Lines(data, f)) = Len(data[f])
              /\ \A i \in 1..Len(data[f]) : Lines(data, f)[i] = data[f][i].ts
<1>. DEFINE r == Head(replies)
<1>1. r = replies[1] /\ 1 \in 1..Len(replies)
  BY Dequeued DEF FeedInv
<1>2. DOMAIN r.data \subseteq Field
  BY <1>1, RepliesTyped DEF FeedInv
<1>3. ASSUME NEW f \in DOMAIN r.data
      PROVE  ListOK(r.data[f], f) /\ r.data[f] # <<>>
  BY <1>1 DEF FeedInv
<1>. HIDE DEF r
<1>4. ASSUME NEW f \in DOMAIN r.data
      PROVE  /\ Len(r.data[f]) \in 1..Len(r.data[f])
             /\ Newest(r.data[f]) \in 1..clock
             /\ Val(r.data, f) \in ValuesOf(f)
             /\ Lines(r.data, f) \in Seq(1..ClockBound) /\ Len(Lines(r.data, f)) = Len(r.data[f])
             /\ \A i \in 1..Len(r.data[f]) : Lines(r.data, f)[i] = r.data[f][i].ts
  <2>. DEFINE list == r.data[f]
  <2>1. list \in Seq(Rec(f)) /\ list # <<>> /\ UpTo(list, clock)
    BY <1>3 DEF ListOK
  <2>2. Len(list) \in 1..Len(list) /\ DOMAIN list = 1..Len(list) /\ Len(list) \in Nat
    BY <2>1, ListFacts
  <2>3. Lines(r.data, f) = [i \in 1..Len(list) |-> list[i].ts]
    BY <2>2 DEF Lines
  <2>4. Val(r.data, f) = list[Len(list)].val
    BY DEF Val, Last
  <2>. HIDE DEF list
  <2>5. \A i \in 1..Len(list) : list[i].ts \in 1..ClockBound /\ list[i].val \in ValuesOf(f)
    BY <2>1, RecTimed
  <2>6. Newest(list) \in 1..clock
    <3>1. clock \in Nat
      BY ConsoleAssumption DEF FeedInv
    <3>. QED  BY <2>1, <2>2, <2>5, <3>1 DEF UpTo, Newest
  <2>. QED  BY <2>2, <2>3, <2>4, <2>5, <2>6 DEF list
<1>. QED  BY <1>1, <1>2, <1>3, <1>4 DEF r

LEMMA ConfigsShown ==
  /\ \A d \in Definitions : \A l \in DOMAIN d.active : d.active[l] \in Configs
  /\ \A s \in Statuses : \A l \in DOMAIN s : s[l] \in Configs
<1>1. ASSUME NEW d \in Definitions, NEW l \in DOMAIN d.active
      PROVE  d.active[l] \in Configs
  <2>1. d.active[l] \in Range(d.active)
    BY DEF Range
  <2>. QED  BY <2>1 DEF Configs
<1>2. ASSUME NEW s \in Statuses, NEW l \in DOMAIN s
      PROVE  s[l] \in Configs
  <2>1. s[l] \in Range(s)
    BY DEF Range
  <2>. QED  BY <2>1 DEF Configs
<1>. QED  BY <1>1, <1>2

\* Which loggers a message leaves, and what their buttons show.
LEMMA UpdatedFacts ==
  ASSUME FeedInv, WindowsInv, replies # <<>>
  PROVE  LET data == Head(replies).data IN
         /\ Updated(data) \in [Logger -> Buttons \cup {NONE}]
         /\ {l \in Logger : Updated(data)[l] # NONE}
              = IF Defines(data) THEN DOMAIN Val(data, "definition").active ELSE Loggers
         /\ Defines(data) => /\ Val(data, "definition") \in Definitions
                             /\ "definition" \in DOMAIN data
                             /\ DOMAIN Val(data, "definition").active \subseteq Logger
<1>. DEFINE data == Head(replies).data
            d == Val(data, "definition")
            s == Val(data, "status")
<1>1. Defines(data) => /\ d \in Definitions /\ "definition" \in DOMAIN data
                       /\ DOMAIN d.active \subseteq Logger
                       /\ \A l \in DOMAIN d.active : d.active[l] \in Configs
  <2>1. Defines(data) => "definition" \in DOMAIN data
    BY DEF Defines, Newer
  <2>2. Defines(data) => d \in Definitions
    BY <2>1, DataFacts, Values
  <2>. HIDE DEF d
  <2>3. d \in Definitions => DOMAIN d.active \subseteq Logger
    BY ConsoleAssumption
  <2>4. d \in Definitions => \A l \in DOMAIN d.active : d.active[l] \in Configs
    BY ConfigsShown
  <2>. QED  BY <2>1, <2>2, <2>3, <2>4
<1>2. Newer(data, "status", last_status) => \A l \in DOMAIN s : s[l] \in Configs
  <2>1. Newer(data, "status", last_status) => "status" \in DOMAIN data
    BY DEF Newer
  <2>2. Newer(data, "status", last_status) => s \in Statuses
    BY <2>1, DataFacts, Values
  <2>. HIDE DEF s
  <2>. QED  BY <2>2, ConfigsShown
<1>3. \A c \in Configs, b \in BOOLEAN :
        [config |-> c, flagged |-> b] \in Buttons /\ [config |-> c, flagged |-> b] # NONE
  BY ConsoleAssumption DEF Buttons
<1>4. /\ Defined(data) \in [Logger -> Buttons \cup {NONE}]
      /\ \A l \in Logger : Defined(data)[l] # NONE <=>
           IF Defines(data) THEN l \in DOMAIN d.active ELSE l \in Loggers
  <2>1. CASE ~Defines(data)
    BY <2>1 DEF Defined, WindowsInv, Loggers
  <2>2. CASE Defines(data)
    <3>. DEFINE b(l) == ~Rebuilds(data) /\ button[l].flagged
    <3>1. Defined(data) = [l \in Logger |-> IF l \notin DOMAIN d.active THEN NONE
                                            ELSE [config |-> d.active[l], flagged |-> b(l)]]
      BY <2>2 DEF Defined
    <3>2. ASSUME NEW l \in Logger, l \in DOMAIN d.active
          PROVE  b(l) \in BOOLEAN
      OBVIOUS
    <3>. HIDE DEF b, d, data
    <3>. QED  BY <1>1, <1>3, <2>2, <3>1, <3>2
  <2>. QED  BY <2>1, <2>2
<1>5. /\ Updated(data) \in [Logger -> Buttons \cup {NONE}]
      /\ \A l \in Logger : Updated(data)[l] # NONE <=> Defined(data)[l] # NONE
  <2>1. CASE ~Newer(data, "status", last_status)
    BY <1>4, <2>1 DEF Updated
  <2>2. CASE Newer(data, "status", last_status)
    <3>1. Updated(data) = [l \in Logger |-> IF l \in DOMAIN s /\ Defined(data)[l] # NONE
                                            THEN [config |-> s[l], flagged |-> FALSE]
                                            ELSE Defined(data)[l]]
      BY <2>2 DEF Updated
    <3>2. \A l \in DOMAIN s : [config |-> s[l], flagged |-> FALSE] \in Buttons
                              /\ [config |-> s[l], flagged |-> FALSE] # NONE
      BY <1>2, <1>3, <2>2
    <3>. HIDE DEF s, data
    <3>3. \A l \in Logger : Updated(data)[l] = IF l \in DOMAIN s /\ Defined(data)[l] # NONE
                                              THEN [config |-> s[l], flagged |-> FALSE]
                                              ELSE Defined(data)[l]
      BY <3>1
    <3>4. ASSUME NEW l \in Logger
          PROVE  /\ Updated(data)[l] \in Buttons \cup {NONE}
                 /\ Updated(data)[l] # NONE <=> Defined(data)[l] # NONE
      <4>1. CASE l \in DOMAIN s /\ Defined(data)[l] # NONE
        <5>1. Updated(data)[l] = [config |-> s[l], flagged |-> FALSE]
          BY <3>3, <4>1
        <5>. QED  BY <3>2, <4>1, <5>1
      <4>2. CASE ~(l \in DOMAIN s /\ Defined(data)[l] # NONE)
        <5>1. Updated(data)[l] = Defined(data)[l]
          BY <3>3, <4>2
        <5>. QED  BY <1>4, <5>1
      <4>. QED  BY <4>1, <4>2
    <3>5. Updated(data) = [l \in Logger |-> Updated(data)[l]]
      BY <3>1
    <3>. QED  BY <3>4, <3>5
  <2>. QED  BY <2>1, <2>2
<1>. HIDE DEF d, data
<1>6. {l \in Logger : Updated(data)[l] # NONE} = IF Defines(data) THEN DOMAIN d.active ELSE Loggers
  BY <1>1, <1>4, <1>5 DEF Loggers
<1>. QED  BY <1>1, <1>5, <1>6 DEF d, data

LEMMA SubscriptionsTyped ==
  /\ Subscribe(Initial) \in Requests
  /\ \A loggers \in SUBSET Logger : Subscribe(NewFields(loggers)) \in Requests
  /\ Ready \in Requests
<1>. DEFINE Fields == UNION {[F -> FieldSpec] : F \in SUBSET Field}
<1>1. Seconds(-1, 0) \in FieldSpec /\ Seconds(0, 0) \in FieldSpec
      /\ Seconds(3600, 0) \in FieldSpec /\ Seconds(3600, 100) \in FieldSpec
  BY DEF Seconds, FieldSpec
<1>2. Initial \in Fields
  <2>1. Initial \in [{"definition", "mode", "status", "file_update", "manager"} -> FieldSpec]
    BY <1>1 DEF Initial
  <2>. QED  BY <2>1, Values
<1>3. ASSUME NEW loggers \in SUBSET Logger
      PROVE  NewFields(loggers) \in Fields
  <2>. DEFINE F == {"definition", "mode", "status", "file_update", "manager"} \cup loggers
  <2>1. NewFields(loggers) \in [F -> FieldSpec]
    BY <1>1 DEF NewFields
  <2>2. F \in SUBSET Field
    BY Values
  <2>. QED  BY <2>1, <2>2
<1>4. \A x \in Fields : Subscribe(x) \in Requests
  BY DEF Subscribe, Requests
<1>. HIDE DEF Fields
<1>. QED  BY <1>2, <1>3, <1>4 DEF Requests

LEMMA ConnectsKeepsWindows ==
  ASSUME FeedInv, WindowsInv, Connects
  PROVE  WindowsInv'
<1>1. replies' = <<>> /\ Len(requests') = 1 /\ Len(replies') = 0 /\ resubs' = 0
  BY DEF Connects, Opens, FeedInv
<1>2. KeepsAsking'
  BY <1>1 DEF KeepsAsking
<1>3. Loggers' = Loggers
  BY DEF Connects, Loggers
<1>. QED  BY <1>1, <1>2, <1>3 DEF WindowsInv, Connects, Opens

LEMMA MessageKeepsWindows ==
  ASSUME FeedInv, WindowsInv, OnMessage
  PROVE  WindowsInv' /\ FeedInv'
<1>. DEFINE data == Head(replies).data
            active == DOMAIN Val(data, "definition").active
<1>1. /\ replies # <<>> /\ ProcessDataMessage(data) /\ Takes(Answers(data))
      /\ resubs' = IF Rebuilds(data) THEN resubs + 1 ELSE resubs
  BY DEF OnMessage
<1>2. Rebuilds(data) => active \in SUBSET Logger /\ Defines(data)
  <2>1. Rebuilds(data) => Defines(data)
    BY DEF Rebuilds
  <2>2. Defines(data) => active \in SUBSET Logger
    BY <1>1, UpdatedFacts
  <2>. QED  BY <2>1, <2>2
<1>3. /\ Answers(data) \in Seq(Requests)
      /\ Len(Answers(data)) = IF Rebuilds(data) THEN 2 ELSE 1
  <2>1. CASE Rebuilds(data)
    <3>1. Answers(data) = <<Subscribe(NewFields(active)), Ready>>
      BY <2>1 DEF Answers
    <3>2. Subscribe(NewFields(active)) \in Requests /\ Ready \in Requests
      BY <1>2, <2>1, SubscriptionsTyped
    <3>. HIDE DEF active, data
    <3>. QED  BY <2>1, <3>1, <3>2
  <2>2. CASE ~Rebuilds(data)
    <3>1. Answers(data) = <<Ready>>
      BY <2>2 DEF Answers
    <3>2. Ready \in Requests
      BY SubscriptionsTyped
    <3>. HIDE DEF active, data
    <3>. QED  BY <2>2, <3>1, <3>2
  <2>. QED  BY <2>1, <2>2
<1>4. FeedInv'
  BY <1>1, <1>3, TakesKeepsFeed
<1>5. UNCHANGED <<cache, clock, link, sent_ts, losses>>
      /\ requests' = requests \o Answers(data) /\ replies' = Tail(replies)
  BY <1>1 DEF Takes
<1>6. /\ Len(requests') = Len(requests) + Len(Answers(data)) /\ Len(replies') = Len(replies) - 1
      /\ Len(requests) \in Nat /\ Len(replies) \in Nat
  BY <1>1, <1>3, <1>5, Queued, Dequeued, ListFacts DEF FeedInv
<1>7. resubs' \in Nat /\ KeepsAsking'
  <2>1. link = "open"
    BY <1>1 DEF FeedInv
  <2>2. Len(requests) + Len(replies) = 1 + resubs /\ resubs \in Nat
    BY <2>1 DEF WindowsInv, KeepsAsking
  <2>. HIDE DEF data
  <2>3. resubs' = resubs + (Len(Answers(data)) - 1)
    BY <1>1, <1>3, <2>2
  <2>4. resubs' \in Nat
    BY <1>1, <2>2
  <2>5. Len(requests') + Len(replies') = 1 + resubs'
    BY <1>3, <1>6, <2>2, <2>3
  <2>. QED  BY <2>4, <2>5 DEF KeepsAsking
<1>8. \A f \in Field : f \in DOMAIN data => Lines(data, f) \in Seq(1..ClockBound)
  BY <1>1, DataFacts
<1>9. \A f \in Field : Lines(data, f) \in Seq(1..ClockBound)
  <2>1. \A f \in Field : f \notin DOMAIN data => Lines(data, f) = <<>>
    BY DEF Lines
  <2>2. <<>> \in Seq(1..ClockBound)
    OBVIOUS
  <2>. HIDE DEF data
  <2>. QED  BY <1>8, <2>1, <2>2
<1>10. window' = WindowsWith(data) /\ button' = Updated(data)
  BY <1>1 DEF ProcessDataMessage
<1>11. window' \in [Logger -> Seq(1..ClockBound)]
  <2>1. ASSUME NEW l \in Logger
        PROVE  window[l] \o Lines(data, l) \in Seq(1..ClockBound)
    <3>1. window[l] \in Seq(1..ClockBound) /\ Lines(data, l) \in Seq(1..ClockBound)
      BY <1>9, Values DEF WindowsInv
    <3>. QED  BY <3>1, ConcatProperties
  <2>2. <<>> \in Seq(1..ClockBound)
    OBVIOUS
  <2>. HIDE DEF data
  <2>. QED  BY <1>10, <2>1, <2>2 DEF WindowsWith
<1>12. \A l \in Logger \ Loggers' : window'[l] = <<>>
  <2>1. SUFFICES ASSUME NEW l \in Logger, l \notin Loggers', ~Rebuilds(data), l \in Loggers
                 PROVE  FALSE
    BY <1>10 DEF WindowsWith
  <2>2. Loggers' = Loggers
    BY <1>1, <1>10, <2>1, UpdatedFacts DEF Rebuilds, Loggers
  <2>. QED  BY <2>1, <2>2
<1>13. button' \in [Logger -> Buttons \cup {NONE}]
  BY <1>1, <1>10, UpdatedFacts
<1>14. manager' \in Seq(1..ClockBound)
  BY <1>1, <1>9, Values, ConcatProperties DEF ProcessDataMessage, WindowsInv
<1>15. mode_shown' \in Modes \cup {NONE}
  <2>1. Newer(data, "mode", last_mode) => Val(data, "mode") \in Modes
    BY <1>1, DataFacts, Values DEF Newer
  <2>2. Defines(data) => Val(data, "definition").active_mode \in Modes \cup {NONE}
    BY <1>1, UpdatedFacts, ConsoleAssumption
  <2>3. mode_shown' = ModeAfter(data)
    BY <1>1 DEF ProcessDataMessage
  <2>. HIDE DEF data
  <2>. QED  BY <2>1, <2>2, <2>3 DEF ModeAfter, WindowsInv
<1>16. {last_cruise', last_mode', last_status'} \subseteq 0..clock'
  <2>1. \A f \in {"definition", "mode", "status"} : \A ts \in 0..clock : Advanced(data, f, ts) \in 0..clock
    <3>1. \A f \in DOMAIN data : Newest(data[f]) \in 1..clock
      BY <1>1, DataFacts
    <3>. HIDE DEF data
    <3>. QED  BY <3>1 DEF Advanced, Newer
  <2>2. /\ last_cruise' = Advanced(data, "definition", last_cruise)
        /\ last_mode' = Advanced(data, "mode", last_mode)
        /\ last_status' = Advanced(data, "status", last_status)
    BY <1>1 DEF ProcessDataMessage
  <2>3. last_cruise \in 0..clock /\ last_mode \in 0..clock /\ last_status \in 0..clock
    BY DEF WindowsInv
  <2>. HIDE DEF data
  <2>4. last_cruise' \in 0..clock /\ last_mode' \in 0..clock /\ last_status' \in 0..clock
    BY <2>1, <2>2, <2>3
  <2>. QED  BY <1>5, <2>4
<1>17. timer' \in BOOLEAN /\ offered' \in BOOLEAN
  BY <1>1 DEF ProcessDataMessage, WindowsInv
<1>. HIDE DEF data
<1>. QED  BY <1>4, <1>7, <1>11, <1>12, <1>13, <1>14, <1>15, <1>16, <1>17 DEF WindowsInv

LEMMA FlaggedFacts ==
  ASSUME WindowsInv
  PROVE  /\ Flagged \in [Logger -> Buttons \cup {NONE}]
         /\ \A l \in Logger : Flagged[l] # NONE <=> button[l] # NONE
<1>1. ASSUME NEW l \in Logger, button[l] # NONE
      PROVE  /\ [button[l] EXCEPT !.flagged = TRUE] \in Buttons
             /\ [button[l] EXCEPT !.flagged = TRUE] # NONE
  <2>1. button[l] \in Buttons
    BY <1>1 DEF WindowsInv
  <2>2. [button[l] EXCEPT !.flagged = TRUE] \in Buttons
    BY <2>1 DEF Buttons
  <2>. QED  BY <2>2, ConsoleAssumption
<1>. QED  BY <1>1 DEF Flagged

LEMMA TimeoutKeepsWindows ==
  ASSUME FeedInv, WindowsInv, StatusTimeout
  PROVE  WindowsInv' /\ FeedInv' /\ Loggers' = Loggers
<1>1. /\ button' = Flagged
      /\ UNCHANGED <<feedVars, window, manager, mode_shown, last_cruise, last_mode, last_status,
                     timer, offered, resubs>>
  BY DEF StatusTimeout
<1>2. FeedInv'
  BY <1>1 DEF feedVars, FeedInv, ListOK
<1>3. Loggers' = Loggers
  BY <1>1, FlaggedFacts DEF Loggers
<1>4. KeepsAsking'
  BY <1>1 DEF feedVars, WindowsInv, KeepsAsking
<1>5. button' \in [Logger -> Buttons \cup {NONE}]
  BY <1>1, FlaggedFacts
<1>. QED  BY <1>1, <1>2, <1>3, <1>4, <1>5 DEF feedVars, WindowsInv

\* What the console does not do leaves what it shows.
LEMMA OthersKeepWindows ==
  ASSUME FeedInv, WindowsInv, UNCHANGED pageVars, clock' \in Nat, clock <= clock', KeepsAsking'
  PROVE  WindowsInv'
<1>1. Loggers' = Loggers
  BY DEF pageVars, Loggers
<1>2. {last_cruise, last_mode, last_status} \subseteq 0..clock'
  <2>1. clock \in Nat
    BY ConsoleAssumption DEF FeedInv
  <2>. QED  BY <2>1 DEF WindowsInv
<1>. QED  BY <1>1, <1>2 DEF WindowsInv, pageVars

LEMMA ServesKeepsWindows ==
  ASSUME FeedInv, WindowsInv, Serves
  PROVE  WindowsInv' /\ FeedInv'
<1>1. PICK r : replies' = Append(replies, r)
  BY DEF Serves, Serving, HandleSubscribe, HandleReady, Sends
<1>2. /\ requests # <<>> /\ requests' = Tail(requests) /\ UNCHANGED <<cache, clock, link, losses>>
      /\ UNCHANGED pageVars
  BY DEF Serves, Serving, HandleSubscribe, HandleReady, Receives
<1>3. FeedInv'
  BY SubscribeKeepsFeed, ReadyKeepsFeed DEF Serves, Serving
<1>4. Len(requests') = Len(requests) - 1 /\ Len(replies') = Len(replies) + 1
      /\ Len(requests) \in Nat /\ Len(replies) \in Nat
  <2>1. Len(requests') = Len(requests) - 1 /\ Len(requests) \in Nat /\ Len(replies) \in Nat
    BY <1>2, Dequeued, ListFacts DEF FeedInv
  <2>2. Len(Append(replies, r)) = Len(replies) + 1
    <3>1. replies \in Seq(Replies \cup {r}) /\ r \in Replies \cup {r}
      BY DEF FeedInv
    <3>. QED  BY <3>1, Enqueued
  <2>. QED  BY <1>1, <2>1, <2>2
<1>5. KeepsAsking'
  <2>1. Len(requests') + Len(replies') = Len(requests) + Len(replies)
    BY <1>4
  <2>. QED  BY <1>2, <2>1 DEF WindowsInv, KeepsAsking, pageVars
<1>6. clock' \in Nat /\ clock <= clock'
  BY <1>2, ConsoleAssumption DEF FeedInv
<1>. QED  BY <1>2, <1>3, <1>5, <1>6, OthersKeepWindows

LEMMA PublishingKeepsWindows ==
  ASSUME FeedInv, WindowsInv, PublishesSomething
  PROVE  /\ WindowsInv' /\ FeedInv'
         /\ \A f \in Field : /\ Len(cache[f]) <= Len(cache'[f])
                             /\ \A i \in 1..Len(cache[f]) : cache'[f][i] = cache[f][i]
<1>1. PICK values : Publishes(values) /\ \A f \in DOMAIN values : values[f] \in ValuesOf(f)
  <2>1. CASE \E d \in Definitions : Publishes([f \in {"definition"} |-> d])
    BY <2>1, Values
  <2>2. CASE \E m \in Modes : Publishes([f \in {"mode"} |-> m])
    BY <2>2, Values
  <2>3. CASE \E s \in Statuses : Publishes([f \in {"status"} |-> s])
    BY <2>3, Values
  <2>4. CASE \E l \in Logger \cup {"manager", "file_update"} : Publishes([f \in {l} |-> l])
    BY <2>4, Values
  <2>. QED  BY <2>1, <2>2, <2>3, <2>4 DEF PublishesSomething
<1>2. /\ FeedInv' /\ clock <= clock'
      /\ \A f \in Field : /\ Len(cache[f]) <= Len(cache'[f])
                          /\ \A i \in 1..Len(cache[f]) : cache'[f][i] = cache[f][i]
  BY <1>1, PublishKeepsFeed
<1>3. UNCHANGED <<link, requests, replies, sent_ts, losses>> /\ UNCHANGED pageVars
  BY <1>1 DEF Publishes, PublishesSomething
<1>4. KeepsAsking'
  BY <1>3 DEF WindowsInv, KeepsAsking, pageVars
<1>5. clock' \in Nat
  BY <1>2, ConsoleAssumption DEF FeedInv
<1>. QED  BY <1>2, <1>3, <1>4, <1>5, OthersKeepWindows

LEMMA BreaksKeepsWindows ==
  ASSUME FeedInv, WindowsInv, Breaks
  PROVE  WindowsInv' /\ FeedInv'
<1>1. FeedInv'
  BY LossKeepsFeed DEF Breaks
<1>2. KeepsAsking' /\ UNCHANGED pageVars /\ clock' = clock
  BY DEF Breaks, Loses, KeepsAsking
<1>3. clock' \in Nat /\ clock <= clock'
  BY <1>2, ConsoleAssumption DEF FeedInv
<1>. QED  BY <1>1, <1>2, <1>3, OthersKeepWindows

LEMMA ConsoleStartsTyped == Init => FeedInv /\ WindowsInv
<1>. SUFFICES ASSUME Init
              PROVE  FeedInv /\ WindowsInv
  OBVIOUS
<1>1. \A f \in Field : ListOK(cache[f], f)
  BY DEF Init, FeedInit, ListOK, Rising, UpTo
<1>2. FeedInv
  <2>1. clock = 0 /\ losses = 0 /\ link = "closed" /\ requests = <<>> /\ replies = <<>>
        /\ sent_ts = [f \in Field |-> NONE]
    BY DEF Init, FeedInit, NotConnected
  <2>2. clock \in 0..ClockBound /\ losses \in 0..LossBound
    BY <2>1, ConsoleAssumption
  <2>3. requests \in Seq(Requests) /\ replies \in Seq(Replies) /\ Len(replies) = 0
    BY <2>1
  <2>. QED  BY <1>1, <2>1, <2>2, <2>3 DEF FeedInv
<1>3. WindowsInv
  <2>1. KeepsAsking
    BY DEF Init, FeedInit, NotConnected, KeepsAsking
  <2>2. window \in [Logger -> Seq(1..ClockBound)] /\ manager \in Seq(1..ClockBound)
    BY DEF Init
  <2>3. {last_cruise, last_mode, last_status} \subseteq 0..clock
    BY DEF Init, FeedInit
  <2>. QED  BY <2>1, <2>2, <2>3 DEF Init, WindowsInv
<1>. QED  BY <1>2, <1>3

LEMMA StepKeepsWindows ==
  FeedInv /\ WindowsInv /\ [Next]_vars => FeedInv' /\ WindowsInv'
<1>. SUFFICES ASSUME FeedInv, WindowsInv, [Next]_vars
              PROVE  FeedInv' /\ WindowsInv'
  OBVIOUS
<1>1. CASE Connects
  <2>1. FeedInv'
    BY <1>1, SubscriptionsTyped, OpensKeepsFeed DEF Connects
  <2>. QED  BY <1>1, <2>1, ConnectsKeepsWindows
<1>2. CASE OnMessage
  BY <1>2, MessageKeepsWindows
<1>3. CASE StatusTimeout
  BY <1>3, TimeoutKeepsWindows
<1>4. CASE PublishesSomething
  BY <1>4, PublishingKeepsWindows
<1>5. CASE Serves
  BY <1>5, ServesKeepsWindows
<1>6. CASE Breaks
  BY <1>6, BreaksKeepsWindows
<1>7. CASE UNCHANGED vars
  <2>1. Loggers' = Loggers /\ KeepsAsking' = KeepsAsking
    BY <1>7 DEF vars, feedVars, pageVars, Loggers, KeepsAsking
  <2>. QED  BY <1>7, <2>1 DEF vars, feedVars, pageVars, FeedInv, WindowsInv, ListOK
<1>. QED  BY <1>1, <1>2, <1>3, <1>4, <1>5, <1>6, <1>7 DEF Next

-----------------------------------------------------------------------------
(***************************************************************************)
(* Each line once and in its place, on the first connection.               *)
(***************************************************************************)
LEMMA SameAsListed ==
  ASSUME FeedInv, SameLoggers, NEW a, NEW b, Listed(a), Listed(b)
  PROVE  a = b
<1>1. DOMAIN cache["definition"] = 1..Len(cache["definition"])
  BY Values, ListFacts DEF FeedInv, ListOK
<1>. QED  BY <1>1 DEF SameLoggers, Listed

\* The definitions only become more.
LEMMA MoreListed ==
  ASSUME FeedInv, FeedInv',
         Len(cache["definition"]) <= Len(cache'["definition"]),
         \A i \in 1..Len(cache["definition"]) : cache'["definition"][i] = cache["definition"][i]
  PROVE  /\ SameLoggers' => SameLoggers
         /\ \A a : Listed(a) => Listed(a)'
<1>. DEFINE n == Len(cache["definition"])
            m == Len(cache'["definition"])
<1>1. DOMAIN cache["definition"] = 1..n /\ n \in Nat
  BY Values, ListFacts DEF FeedInv, ListOK
<1>2. DOMAIN cache'["definition"] = 1..m /\ m \in Nat
  BY Values, ListFacts DEF FeedInv, ListOK
<1>3. \A i \in 1..n : i \in 1..m
  BY <1>1, <1>2
<1>4. SameLoggers' => SameLoggers
  BY SMTT(30), <1>1, <1>2, <1>3 DEF SameLoggers
<1>5. \A a : Listed(a) => Listed(a)'
  BY <1>3 DEF Listed
<1>. QED  BY <1>4, <1>5

LEMMA NothingFlows ==
  ASSUME NEW l, sent_ts[l] = NONE, FlowInv(l)
  PROVE  window[l] = <<>> /\ \A i \in 1..Len(replies) : l \notin DOMAIN replies[i].data
BY DEF FlowInv

LEMMA OnceStarts == Init => OnceInv
<1>. SUFFICES ASSUME Init
              PROVE  OnceInv
  OBVIOUS
<1>1. /\ replies = <<>> /\ requests = <<>> /\ Len(replies) = 0 /\ Len(requests) = 0
      /\ \A l \in Logger : window[l] = <<>> /\ Len(window[l]) = 0
      /\ \A f \in Field : sent_ts[f] = NONE
      /\ resubs = 0 /\ Loggers = {}
  BY DEF Init, FeedInit, NotConnected, Loggers
<1>2. \A l \in Logger : FlowInv(l)
  BY <1>1, Values DEF FlowInv
<1>. QED  BY <1>1, <1>2, Values DEF OnceInv

LEMMA ConnectsKeepsOnce ==
  ASSUME FeedInv, WindowsInv, OnceInv, Connects
  PROVE  OnceInv'
<1>1. /\ link = "closed" /\ requests' = <<Subscribe(Initial)>> /\ resubs' = 0 /\ link' = "open"
      /\ UNCHANGED <<cache, replies, sent_ts, button, window>>
  BY DEF Connects, Opens
<1>2. /\ Loggers = {} /\ Loggers' = Loggers /\ replies = <<>> /\ Len(replies) = 0
      /\ \A l \in Logger : sent_ts[l] = NONE
  BY <1>1, Values DEF OnceInv, FeedInv, Loggers
<1>3. /\ Len(requests') = 1 /\ requests'[1] = Subscribe(Initial)
      /\ \A i \in 1..Len(requests') : i = 1
  BY <1>1
<1>4. \A l \in Logger : l \notin DOMAIN requests'[1].fields
  BY <1>3, ConsoleAssumption DEF Subscribe, Initial
<1>5. \A l \in Logger : FlowInv(l)'
  BY <1>1 DEF OnceInv, FlowInv
<1>. QED  BY <1>1, <1>2, <1>3, <1>4, <1>5 DEF OnceInv, Listed

\* The windows and what is under way after a message is shown.
LEMMA ShownKeepsFlow ==
  ASSUME FeedInv, WindowsInv, replies # <<>>, NEW l \in Logger, FlowInv(l),
         replies' = Tail(replies), UNCHANGED sent_ts,
         window'[l] = <<>> \/ window'[l] = window[l] \o Lines(Head(replies).data, l)
  PROVE  FlowInv(l)'
<1>. DEFINE data == Head(replies).data
            w == window[l]
<1>1. /\ \A i \in 1..Len(replies') : i + 1 \in 1..Len(replies) /\ replies'[i] = replies[i + 1]
      /\ data = replies[1].data /\ 1 \in 1..Len(replies) /\ Len(replies) \in Nat /\ Len(replies') \in Nat
  <2>1. /\ \A i \in 1..Len(replies') : i + 1 \in 1..Len(replies) /\ replies'[i] = replies[i + 1]
        /\ Head(replies) = replies[1] /\ 1 \in 1..Len(replies) /\ replies' \in Seq(Replies)
    BY Dequeued DEF FeedInv
  <2>2. Len(replies) \in Nat /\ Len(replies') \in Nat
    BY <2>1, ListFacts DEF FeedInv
  <2>. QED  BY <2>1, <2>2
<1>2. \A i, j \in 1..Len(replies') :
        i < j /\ l \in DOMAIN replies'[i].data /\ l \in DOMAIN replies'[j].data =>
          Precedes(replies'[i].data[l], replies'[j].data[l])
  <2>1. \A i, j \in 1..Len(replies') : i < j => i + 1 < j + 1
    BY <1>1
  <2>. HIDE DEF data
  <2>. QED  BY <1>1, <2>1 DEF FlowInv
<1>3. \A i \in 1..Len(replies') : l \in DOMAIN replies'[i].data =>
        sent_ts[l] # NONE /\ UpTo(replies'[i].data[l], sent_ts[l])
  BY <1>1 DEF FlowInv
<1>4. CASE window'[l] = <<>>
  <2>1. Len(window'[l]) = 0
    BY <1>4
  <2>. HIDE DEF data
  <2>. QED  BY <1>2, <1>3, <1>4, <2>1 DEF FlowInv
<1>5. CASE l \notin DOMAIN data /\ window'[l] = window[l] \o Lines(data, l)
  <2>1. Lines(data, l) = <<>>
    BY <1>5 DEF Lines
  <2>2. window'[l] = window[l]
    <3>1. window[l] \in Seq(1..ClockBound)
      BY DEF WindowsInv
    <3>. HIDE DEF data
    <3>. QED  BY <1>5, <2>1, <3>1, ConcatEmptySeq
  <2>. HIDE DEF data
  <2>3. \A i \in 1..Len(replies') : l \in DOMAIN replies'[i].data =>
          \A a \in 1..Len(window[l]), b \in 1..Len(replies'[i].data[l]) :
            window[l][a] < replies'[i].data[l][b].ts
    <3>1. SUFFICES ASSUME NEW i \in 1..Len(replies'), l \in DOMAIN replies'[i].data
                   PROVE  \A a \in 1..Len(window[l]), b \in 1..Len(replies'[i].data[l]) :
                            window[l][a] < replies'[i].data[l][b].ts
      OBVIOUS
    <3>2. PICK j \in 1..Len(replies) : replies'[i] = replies[j]
      BY <1>1
    <3>. QED  BY <3>1, <3>2 DEF FlowInv
  <2>4. /\ \A i, j \in 1..Len(window'[l]) : i < j => window'[l][i] < window'[l][j]
        /\ sent_ts[l] = NONE => window'[l] = <<>>
        /\ sent_ts[l] # NONE => \A a \in 1..Len(window'[l]) : window'[l][a] <= sent_ts[l]
    BY <2>2 DEF FlowInv
  <2>. QED  BY <1>2, <1>3, <2>2, <2>3, <2>4 DEF FlowInv
<1>6. CASE l \in DOMAIN data /\ window'[l] = window[l] \o Lines(data, l)
  <2>. DEFINE list == data[l]
              t == Lines(data, l)
              u == w \o t
  <2>1. /\ t \in Seq(1..ClockBound) /\ Len(t) = Len(list) /\ list \in Seq(Rec(l)) /\ Rising(list)
        /\ \A i \in 1..Len(list) : t[i] = list[i].ts
    BY <1>6, DataFacts DEF ListOK
  <2>2. /\ w \in Seq(1..ClockBound) /\ Len(w) \in Nat /\ Len(list) \in Nat
        /\ \A i \in 1..Len(list) : list[i].ts \in Nat
        /\ \A i \in 1..Len(w) : w[i] \in Nat
    <3>1. w \in Seq(1..ClockBound) /\ ClockBound \in Nat
      BY ConsoleAssumption DEF WindowsInv
    <3>. HIDE DEF list, t, w, data
    <3>2. Len(w) \in Nat /\ \A i \in 1..Len(w) : w[i] \in 1..ClockBound
      BY <3>1, ListFacts
    <3>3. Len(list) \in Nat /\ \A i \in 1..Len(list) : list[i] \in Rec(l)
      BY <2>1, ListFacts
    <3>4. \A i \in 1..Len(list) : list[i].ts \in Nat
      BY <3>1, <3>3 DEF Rec
    <3>5. \A i \in 1..Len(w) : w[i] \in Nat
      BY <3>1, <3>2
    <3>. QED  BY <3>1, <3>2, <3>3, <3>4, <3>5
  <2>3. /\ \A i, j \in 1..Len(w) : i < j => w[i] < w[j]
        /\ \A a \in 1..Len(w), b \in 1..Len(list) : w[a] < list[b].ts
        /\ sent_ts[l] # NONE /\ UpTo(list, sent_ts[l])
        /\ \A a \in 1..Len(w) : w[a] <= sent_ts[l]
    BY <1>1, <1>6 DEF FlowInv
  <2>4. \A i \in 1..Len(replies') : l \in DOMAIN replies'[i].data =>
          /\ \A a \in 1..Len(w), b \in 1..Len(replies'[i].data[l]) : w[a] < replies'[i].data[l][b].ts
          /\ Precedes(list, replies'[i].data[l])
    <3>1. \A i \in 1..Len(replies') : 1 < i + 1
      BY <1>1
    <3>. QED  BY <1>1, <1>6, <3>1 DEF FlowInv
  <2>. HIDE DEF list, t, w, data
  <2>5. /\ Len(u) = Len(w) + Len(list)
        /\ \A i \in 1..Len(u) :
             \/ i \in 1..Len(w) /\ u[i] = w[i]
             \/ i > Len(w) /\ i - Len(w) \in 1..Len(list) /\ u[i] = list[i - Len(w)].ts
    <3>1. /\ Len(u) = Len(w) + Len(t)
          /\ \A i \in 1..Len(u) :
               \/ i \in 1..Len(w) /\ u[i] = w[i]
               \/ i > Len(w) /\ i - Len(w) \in 1..Len(t) /\ u[i] = t[i - Len(w)]
      <4>. DEFINE S == 1..ClockBound
      <4>1. w \in Seq(S) /\ t \in Seq(S)
        BY <2>1, <2>2
      <4>. HIDE DEF S
      <4>. QED  BY <4>1, Queued
    <3>. HIDE DEF u
    <3>. QED  BY <2>1, <3>1
  <2>. HIDE DEF u
  <2>6. \A i, j \in 1..Len(u) : i < j => u[i] < u[j]
    <3>1. SUFFICES ASSUME NEW i \in 1..Len(u), NEW j \in 1..Len(u), i < j
                   PROVE  u[i] < u[j]
      OBVIOUS
    <3>2. CASE i \in 1..Len(w) /\ u[i] = w[i] /\ j \in 1..Len(w) /\ u[j] = w[j]
      BY <2>3, <3>1, <3>2
    <3>3. CASE /\ i \in 1..Len(w) /\ u[i] = w[i]
               /\ j - Len(w) \in 1..Len(list) /\ u[j] = list[j - Len(w)].ts
      BY <2>3, <3>3
    <3>4. CASE /\ i - Len(w) \in 1..Len(list) /\ u[i] = list[i - Len(w)].ts
               /\ j - Len(w) \in 1..Len(list) /\ u[j] = list[j - Len(w)].ts
      <4>1. i - Len(w) < j - Len(w)
        BY <2>2, <2>5, <3>1
      <4>. QED  BY <2>1, <3>4, <4>1 DEF Rising
    <3>5. ~(i > Len(w) /\ j \in 1..Len(w))
      BY <2>2, <3>1
    <3>. QED  BY <2>5, <3>2, <3>3, <3>4, <3>5
  <2>7. \A a \in 1..Len(u) : u[a] <= sent_ts[l]
    BY <2>3, <2>5 DEF UpTo
  <2>8. \A i \in 1..Len(replies') : l \in DOMAIN replies'[i].data =>
          \A a \in 1..Len(u), b \in 1..Len(replies'[i].data[l]) : u[a] < replies'[i].data[l][b].ts
    BY ZenonT(60), <2>4, <2>5 DEF Precedes
  <2>9. window'[l] = u
    BY <1>6 DEF u, w, t
  <2>. QED  BY <1>2, <1>3, <2>3, <2>6, <2>7, <2>8, <2>9 DEF FlowInv
<1>. QED  BY <1>4, <1>5, <1>6

\* What OnceInv takes after a step that leaves the cache.
LEMMA RepliesListed ==
  ASSUME UNCHANGED cache,
         \A i \in 1..Len(replies') : "definition" \in DOMAIN replies'[i].data =>
           \A n \in 1..Len(replies'[i].data["definition"]) :
             Listed(DOMAIN replies'[i].data["definition"][n].val.active),
         Loggers' # {} => Listed(Loggers)',
         Loggers' = {} <=> resubs' = 0,
         link' = "closed" => Loggers' = {},
         \A i \in 1..Len(requests') : requests'[i].type = "subscribe" =>
           /\ \A l \in Logger : sent_ts'[l] = NONE
           /\ Loggers' = {} => \A l \in Logger : l \notin DOMAIN requests'[i].fields
           /\ \A j \in 1..Len(requests') : requests'[j].type = "subscribe" => i = j,
         Loggers' = {} => \A l \in Logger : sent_ts'[l] = NONE,
         \A l \in Logger : FlowInv(l)'
  PROVE  OnceInv'
BY DEF OnceInv, Listed

LEMMA MessageKeepsOnce ==
  ASSUME FeedInv, WindowsInv, SameLoggers, OnceInv, OnMessage
  PROVE  OnceInv'
<1>. DEFINE data == Head(replies).data
            active == DOMAIN Val(data, "definition").active
<1>1. /\ replies # <<>> /\ ProcessDataMessage(data) /\ Takes(Answers(data))
      /\ resubs' = IF Rebuilds(data) THEN resubs + 1 ELSE resubs
  BY DEF OnMessage
<1>2. /\ UNCHANGED <<cache, link, sent_ts>> /\ replies' = Tail(replies)
      /\ requests' = requests \o Answers(data)
      /\ window' = WindowsWith(data) /\ button' = Updated(data)
      /\ link = "open"
  BY <1>1 DEF Takes, ProcessDataMessage, FeedInv
<1>3. /\ Loggers' = IF Defines(data) THEN active ELSE Loggers
      /\ Defines(data) => "definition" \in DOMAIN data /\ active \subseteq Logger
  BY <1>1, <1>2, UpdatedFacts DEF Loggers
<1>4. /\ \A i \in 1..Len(replies') : i + 1 \in 1..Len(replies) /\ replies'[i] = replies[i + 1]
      /\ Len(replies') = Len(replies) - 1 /\ Len(replies) \in Nat /\ Len(requests) \in Nat
      /\ data = replies[1].data /\ 1 \in 1..Len(replies)
  BY <1>1, <1>2, Dequeued, ListFacts DEF FeedInv
<1>5. /\ Defines(data) => Listed(active)
      /\ resubs \in Nat /\ Len(requests) + Len(replies) = 1 + resubs
  <2>1. Defines(data) => /\ Len(data["definition"]) \in 1..Len(data["definition"])
                         /\ Val(data, "definition") = data["definition"][Len(data["definition"])]
                                                        .val
    BY <1>1, <1>3, DataFacts DEF Val, Last
  <2>2. resubs \in Nat /\ Len(requests) + Len(replies) = 1 + resubs
    BY <1>2 DEF WindowsInv, KeepsAsking
  <2>. QED  BY <1>3, <1>4, <2>1, <2>2 DEF OnceInv
<1>6. \A i \in 1..Len(replies') : "definition" \in DOMAIN replies'[i].data =>
        \A n \in 1..Len(replies'[i].data["definition"]) :
          Listed(DOMAIN replies'[i].data["definition"][n].val.active)
  <2>1. SUFFICES ASSUME NEW i \in 1..Len(replies'), "definition" \in DOMAIN replies'[i].data
                 PROVE  \A n \in 1..Len(replies'[i].data["definition"]) :
                          Listed(DOMAIN replies'[i].data["definition"][n].val.active)
    OBVIOUS
  <2>2. PICK j \in 1..Len(replies) : replies'[i] = replies[j]
    BY SMTT(30), <1>4
  <2>. QED  BY <2>1, <2>2 DEF OnceInv
<1>. HIDE DEF data, active
<1>7. \A l \in Logger : FlowInv(l)'
  <2>1. SUFFICES ASSUME NEW l \in Logger
                 PROVE  FlowInv(l)'
    OBVIOUS
  <2>2. window'[l] = <<>> \/ window'[l] = window[l] \o Lines(data, l)
    BY <1>2 DEF WindowsWith
  <2>3. FlowInv(l)
    BY DEF OnceInv
  <2>. QED  BY <1>1, <1>2, <2>2, <2>3, ShownKeepsFlow DEF data
<1>8. CASE Rebuilds(data)
  <2>1. Defines(data) /\ active # Loggers
    BY <1>8 DEF Rebuilds, active
  <2>2. Loggers = {} /\ active # {} /\ resubs = 0
    <3>1. Loggers # {} => active = Loggers
      BY <1>5, <2>1, SameAsListed DEF OnceInv
    <3>. QED  BY <2>1, <3>1 DEF OnceInv
  <2>3. requests = <<>> /\ Len(requests) = 0
    <3>1. Len(requests) = 0
      BY <1>4, <1>5, <2>2
    <3>. QED  BY <3>1, ListFacts DEF FeedInv
  <2>4. requests' = <<Subscribe(NewFields(active)), Ready>>
    BY <1>2, <1>8, <2>3 DEF Answers, active
  <2>5. /\ Len(requests') = 2 /\ requests'[2] = Ready
        /\ \A i \in 1..Len(requests') : i = 1 \/ i = 2
    BY <2>4
  <2>6. Ready.type # "subscribe"
    BY DEF Ready
  <2>7. \A i \in 1..Len(requests') : requests'[i].type = "subscribe" => i = 1
    BY <2>5, <2>6
  <2>8. \A l \in Logger : sent_ts'[l] = NONE
    BY <1>2, <2>2 DEF OnceInv
  <2>9. Loggers' = active /\ Listed(Loggers)' /\ Loggers' # {} /\ resubs' = 1
    BY <1>1, <1>2, <1>3, <1>5, <1>8, <2>1, <2>2 DEF Listed
  <2>. QED  BY <1>2, <1>6, <1>7, <2>7, <2>8, <2>9, RepliesListed
<1>9. CASE ~Rebuilds(data)
  <2>1. Loggers' = Loggers /\ resubs' = resubs
    BY <1>1, <1>3, <1>9 DEF Rebuilds, active
  <2>2. requests' = requests \o <<Ready>>
    BY <1>2, <1>9 DEF Answers
  <2>3. \A i \in 1..Len(requests') : requests'[i].type = "subscribe" =>
          i \in 1..Len(requests) /\ requests'[i] = requests[i]
    <3>1. <<Ready>> \in Seq(Requests) /\ Len(<<Ready>>) = 1
      BY SubscriptionsTyped
    <3>2. \A i \in 1..Len(requests') :
            \/ i \in 1..Len(requests) /\ requests'[i] = requests[i]
            \/ i - Len(requests) \in 1..1 /\ requests'[i] = <<Ready>>[i - Len(requests)]
      BY <2>2, <3>1, Queued DEF FeedInv
    <3>3. <<Ready>>[1].type # "subscribe"
      BY DEF Ready
    <3>. QED  BY <3>2, <3>3
  <2>4. Listed(Loggers)' = Listed(Loggers)
    BY <1>2, <2>1 DEF Listed
  <2>5. \A i \in 1..Len(requests') : requests'[i].type = "subscribe" =>
          /\ \A l \in Logger : sent_ts'[l] = NONE
          /\ Loggers' = {} => \A l \in Logger : l \notin DOMAIN requests'[i].fields
          /\ \A j \in 1..Len(requests') : requests'[j].type = "subscribe" => i = j
    BY <1>2, <2>1, <2>3 DEF OnceInv
  <2>6. /\ Loggers' # {} => Listed(Loggers)'
        /\ Loggers' = {} <=> resubs' = 0
        /\ link' = "closed" => Loggers' = {}
        /\ Loggers' = {} => \A l \in Logger : sent_ts'[l] = NONE
    BY <1>2, <2>1, <2>4 DEF OnceInv
  <2>. QED  BY <1>2, <1>6, <1>7, <2>5, <2>6, RepliesListed
<1>. QED  BY <1>8, <1>9

\* Of what leaves the windows, the cache and what is under way.
LEMMA TimeoutKeepsOnce ==
  ASSUME FeedInv, WindowsInv, OnceInv, StatusTimeout
  PROVE  OnceInv'
<1>1. UNCHANGED <<cache, link, requests, replies, sent_ts, window, resubs>> /\ button' = Flagged
  BY DEF StatusTimeout, feedVars
<1>2. Loggers' = Loggers
  BY <1>1, FlaggedFacts DEF Loggers
<1>3. \A l \in Logger : FlowInv(l)'
  BY <1>1 DEF OnceInv, FlowInv
<1>. QED  BY SMTT(30), <1>1, <1>2, <1>3 DEF OnceInv, Listed

LEMMA PublishingKeepsOnce ==
  ASSUME FeedInv, WindowsInv, OnceInv, PublishesSomething
  PROVE  OnceInv' /\ (SameLoggers' => SameLoggers)
<1>1. UNCHANGED <<link, requests, replies, sent_ts, window, resubs, button>>
  BY DEF PublishesSomething, Publishes, pageVars
<1>2. FeedInv' /\ Len(cache["definition"]) <= Len(cache'["definition"])
      /\ \A i \in 1..Len(cache["definition"]) : cache'["definition"][i] = cache["definition"][i]
  BY PublishingKeepsWindows, Values
<1>3. (SameLoggers' => SameLoggers) /\ \A a : Listed(a) => Listed(a)'
  BY <1>2, MoreListed
<1>4. Loggers' = Loggers
  BY <1>1 DEF Loggers
<1>5. \A l \in Logger : FlowInv(l)'
  BY SMTT(30), <1>1 DEF OnceInv, FlowInv
<1>. QED  BY <1>1, <1>3, <1>4, <1>5 DEF OnceInv

LEMMA SubscribeKeepsOnce ==
  ASSUME FeedInv, WindowsInv, OnceInv, HandleSubscribe, UNCHANGED pageVars
  PROVE  OnceInv'
<1>. DEFINE fields == Head(requests).fields
            r == [type |-> "subscribe", data |-> Nothing]
<1>1. /\ requests # <<>> /\ requests' = Tail(requests) /\ Head(requests).type = "subscribe"
      /\ sent_ts' = [f \in Field |-> IF f \notin DOMAIN fields THEN NONE
                                     ELSE InitialTimestamp(cache[f], fields[f], clock)]
      /\ replies' = Append(replies, r) /\ UNCHANGED <<cache, link>>
      /\ UNCHANGED <<button, window, resubs>> /\ Loggers' = Loggers
  BY DEF HandleSubscribe, Receives, Sends, pageVars, Loggers
<1>2. /\ Head(requests) = requests[1] /\ 1 \in 1..Len(requests)
      /\ \A i \in 1..Len(requests') :
           i + 1 \in 1..Len(requests) /\ i + 1 # 1 /\ requests'[i] = requests[i + 1]
  <2>1. /\ Head(requests) = requests[1] /\ 1 \in 1..Len(requests)
        /\ \A i \in 1..Len(requests') : i + 1 \in 1..Len(requests) /\ requests'[i] = requests[i + 1]
    BY <1>1, Dequeued DEF FeedInv
  <2>2. \A i \in 1..Len(requests') : i + 1 # 1
    OBVIOUS
  <2>. QED  BY <2>1, <2>2
<1>3. /\ \A l \in Logger : sent_ts[l] = NONE
      /\ Loggers = {} => \A l \in Logger : l \notin DOMAIN fields
      /\ \A i \in 1..Len(requests') : requests'[i].type # "subscribe"
  BY <1>1, <1>2 DEF OnceInv
<1>. HIDE DEF fields
<1>4. \A l \in Logger : window[l] = <<>> /\ \A i \in 1..Len(replies) : l \notin DOMAIN replies[i].data
  BY <1>3, NothingFlows DEF OnceInv
<1>5. \A i \in 1..Len(replies') :
        (i \in 1..Len(replies) /\ replies'[i] = replies[i]) \/ DOMAIN replies'[i].data = {}
  <2>1. DOMAIN r.data = {}
    BY DEF Nothing
  <2>. HIDE DEF r
  <2>2. replies \in Seq(Replies \cup {r}) /\ r \in Replies \cup {r}
    BY DEF FeedInv
  <2>. QED  BY <1>1, <2>1, <2>2, Enqueued
<1>6. \A l \in Logger : \A i \in 1..Len(replies') : l \notin DOMAIN replies'[i].data
  BY <1>4, <1>5
<1>7. \A l \in Logger : FlowInv(l)'
  <2>1. \A l \in Logger : window'[l] = <<>> /\ Len(window'[l]) = 0
    BY <1>1, <1>4
  <2>. QED  BY <1>6, <2>1 DEF FlowInv
<1>8. Loggers = {} => \A l \in Logger : sent_ts'[l] = NONE
  BY <1>1, <1>3, Values
<1>9. \A i \in 1..Len(replies') : "definition" \in DOMAIN replies'[i].data =>
        \A n \in 1..Len(replies'[i].data["definition"]) :
          Listed(DOMAIN replies'[i].data["definition"][n].val.active)
  BY <1>5 DEF OnceInv
<1>10. /\ Loggers' # {} => Listed(Loggers)'
       /\ Loggers' = {} <=> resubs' = 0
       /\ link' = "closed" => Loggers' = {}
  BY <1>1 DEF OnceInv, Listed
<1>. QED  BY <1>1, <1>3, <1>7, <1>8, <1>9, <1>10, RepliesListed

LEMMA ReadyKeepsFlow ==
  ASSUME FeedInv, WindowsInv, NEW l \in Logger, FlowInv(l), UNCHANGED window,
         NEW r, replies' = Append(replies, r),
         sent_ts'[l] = IF l \in DOMAIN r.data THEN Newest(r.data[l]) ELSE sent_ts[l],
         l \in DOMAIN r.data =>
           sent_ts[l] # NONE /\ HasNews(cache[l], sent_ts[l])
             /\ r.data[l] = LaterThan(cache[l], sent_ts[l])
  PROVE  FlowInv(l)'
<1>1. /\ Len(replies') = Len(replies) + 1 /\ Len(replies) \in Nat
      /\ \A i \in 1..Len(replies') :
           \/ i \in 1..Len(replies) /\ replies'[i] = replies[i]
           \/ i = Len(replies) + 1 /\ replies'[i] = r
  <2>1. replies \in Seq(Replies \cup {r}) /\ r \in Replies \cup {r}
    BY DEF FeedInv
  <2>. QED  BY <2>1, Enqueued, ListFacts
<1>2. CASE l \notin DOMAIN r.data
  <2>1. sent_ts'[l] = sent_ts[l]
    BY <1>2
  <2>2. \A i \in 1..Len(replies') : l \in DOMAIN replies'[i].data =>
          i \in 1..Len(replies) /\ replies'[i] = replies[i]
    BY <1>1, <1>2
  <2>3. \A i, j \in 1..Len(replies') :
          i < j /\ l \in DOMAIN replies'[i].data /\ l \in DOMAIN replies'[j].data =>
            Precedes(replies'[i].data[l], replies'[j].data[l])
    BY <2>2 DEF FlowInv
  <2>4. \A i \in 1..Len(replies') : l \in DOMAIN replies'[i].data =>
          /\ \A a \in 1..Len(window[l]), b \in 1..Len(replies'[i].data[l]) :
               window[l][a] < replies'[i].data[l][b].ts
          /\ sent_ts[l] # NONE /\ UpTo(replies'[i].data[l], sent_ts[l])
    <3>1. SUFFICES ASSUME NEW i \in 1..Len(replies'), l \in DOMAIN replies'[i].data
                   PROVE  /\ \A a \in 1..Len(window[l]), b \in 1..Len(replies'[i].data[l]) :
                               window[l][a] < replies'[i].data[l][b].ts
                          /\ sent_ts[l] # NONE /\ UpTo(replies'[i].data[l], sent_ts[l])
      OBVIOUS
    <3>2. i \in 1..Len(replies) /\ replies'[i] = replies[i]
      BY <2>2, <3>1
    <3>. QED  BY <3>1, <3>2 DEF FlowInv
  <2>5. /\ \A i, j \in 1..Len(window[l]) : i < j => window[l][i] < window[l][j]
        /\ sent_ts[l] = NONE => window[l] = <<>>
        /\ sent_ts[l] # NONE => \A a \in 1..Len(window[l]) : window[l][a] <= sent_ts[l]
    BY DEF FlowInv
  <2>. QED  BY <2>1, <2>3, <2>4, <2>5 DEF FlowInv
<1>3. CASE l \in DOMAIN r.data
  <2>. DEFINE later == r.data[l]
              was == sent_ts[l]
              is == sent_ts'[l]
  <2>1. /\ UpTo(later, is) /\ is > was /\ is \in 0..ClockBound /\ was # NONE
        /\ \A k \in 1..Len(later) : later[k].ts > was /\ later[k].ts \in Nat
        /\ later \in Seq(Rec(l))
    <3>1. l \in Field
      BY Values
    <3>2. later = LaterThan(cache[l], was) /\ is = Newest(later) /\ was # NONE
      BY <1>3
    <3>3. /\ UpTo(later, is) /\ is > was /\ is \in 0..ClockBound /\ later \in Seq(Rec(l))
          /\ \A k \in 1..Len(later) : later[k].ts > was
      BY <1>3, <3>1, <3>2, SentOfField DEF ListOK
    <3>. HIDE DEF later, was, is
    <3>. QED  BY <3>2, <3>3, RecTimed
  <2>2. was \in Nat /\ is \in Nat /\ is # NONE
    <3>1. l \in Field /\ ClockBound \in Nat /\ NONE \notin Nat
      BY Values, ConsoleAssumption
    <3>2. sent_ts[l] \in 0..ClockBound
      BY <2>1, <3>1 DEF FeedInv
    <3>3. is \in Nat
      BY <2>1, <3>1
    <3>. QED  BY <3>1, <3>2, <3>3
  <2>3. /\ Len(window[l]) \in Nat /\ \A a \in 1..Len(window[l]) : window[l][a] \in Nat
        /\ \A a \in 1..Len(window[l]) : window[l][a] <= was
        /\ \A i, j \in 1..Len(window[l]) : i < j => window[l][i] < window[l][j]
    <3>1. window[l] \in Seq(1..ClockBound)
      BY DEF WindowsInv
    <3>2. Len(window[l]) \in Nat /\ \A a \in 1..Len(window[l]) : window[l][a] \in 1..ClockBound
      BY <3>1, ListFacts
    <3>3. \A a \in 1..Len(window[l]) : window[l][a] \in Nat
      BY <3>2, ConsoleAssumption
    <3>. QED  BY <2>1, <3>2, <3>3 DEF FlowInv
  <2>4. \A i \in 1..Len(replies) : l \in DOMAIN replies[i].data =>
          \A b \in 1..Len(replies[i].data[l]) :
            replies[i].data[l][b].ts \in Nat /\ replies[i].data[l][b].ts <= was
    <3>1. \A i \in 1..Len(replies) : l \in DOMAIN replies[i].data =>
            replies[i].data[l] \in Seq(Rec(l)) /\ UpTo(replies[i].data[l], was)
      BY DEF FeedInv, ListOK, FlowInv
    <3>. QED  BY <3>1, RecTimed DEF UpTo
  <2>5. l \in DOMAIN r.data
    BY <1>3
  <2>6. \A i \in 1..Len(replies') : l \in DOMAIN replies'[i].data =>
          /\ \A a \in 1..Len(window[l]), b \in 1..Len(replies'[i].data[l]) :
               window[l][a] < replies'[i].data[l][b].ts
          /\ UpTo(replies'[i].data[l], is)
    <3>1. SUFFICES ASSUME NEW i \in 1..Len(replies'), l \in DOMAIN replies'[i].data
                   PROVE  /\ \A a \in 1..Len(window[l]), b \in 1..Len(replies'[i].data[l]) :
                               window[l][a] < replies'[i].data[l][b].ts
                          /\ UpTo(replies'[i].data[l], is)
      OBVIOUS
    <3>2. CASE i \in 1..Len(replies) /\ replies'[i] = replies[i]
      <4>1. \A a \in 1..Len(window[l]), b \in 1..Len(replies'[i].data[l]) :
              window[l][a] < replies'[i].data[l][b].ts
        BY <3>1, <3>2 DEF FlowInv
      <4>2. \A b \in 1..Len(replies'[i].data[l]) : replies'[i].data[l][b].ts <= is
        <5>. HIDE DEF was, is
        <5>1. \A x \in Nat : x <= was => x <= is
          BY <2>1, <2>2
        <5>. QED  BY <2>4, <3>1, <3>2, <5>1
      <4>. QED  BY <4>1, <4>2 DEF UpTo
    <3>3. CASE replies'[i] = r
      <4>1. replies'[i].data[l] = later
        BY <3>3
      <4>. HIDE DEF was, is, later
      <4>. QED  BY SMTT(30), <2>1, <2>2, <2>3, <4>1
    <3>. QED  BY <1>1, <3>2, <3>3
  <2>7. \A i, j \in 1..Len(replies') :
          i < j /\ l \in DOMAIN replies'[i].data /\ l \in DOMAIN replies'[j].data =>
            Precedes(replies'[i].data[l], replies'[j].data[l])
    <3>1. SUFFICES ASSUME NEW i \in 1..Len(replies'), NEW j \in 1..Len(replies'), i < j,
                          l \in DOMAIN replies'[i].data, l \in DOMAIN replies'[j].data
                   PROVE  Precedes(replies'[i].data[l], replies'[j].data[l])
      OBVIOUS
    <3>2. i \in 1..Len(replies) /\ replies'[i] = replies[i]
      BY <1>1, <3>1
    <3>3. CASE j \in 1..Len(replies) /\ replies'[j] = replies[j]
      BY <3>1, <3>2, <3>3 DEF FlowInv
    <3>4. CASE replies'[j] = r
      <4>1. replies'[j].data[l] = later
        BY <3>4
      <4>. HIDE DEF was, is, later
      <4>. QED  BY SMTT(30), <2>1, <2>2, <2>4, <3>1, <3>2, <4>1 DEF Precedes
    <3>. QED  BY <1>1, <3>3, <3>4
  <2>8. \A a \in 1..Len(window[l]) : window[l][a] <= is
    <3>. HIDE DEF was, is
    <3>. QED  BY <2>1, <2>2, <2>3
  <2>. QED  BY <2>2, <2>3, <2>6, <2>7, <2>8 DEF FlowInv
<1>. QED  BY <1>2, <1>3

LEMMA ReadyKeepsOnce ==
  ASSUME FeedInv, WindowsInv, OnceInv, HandleReady, UNCHANGED pageVars
  PROVE  OnceInv'
<1>. DEFINE new == {f \in Field : sent_ts[f] # NONE /\ HasNews(cache[f], sent_ts[f])}
            data == [f \in new |-> LaterThan(cache[f], sent_ts[f])]
            r == [type |-> "data", data |-> data]
<1>1. /\ requests # <<>> /\ requests' = Tail(requests)
      /\ sent_ts' = [f \in Field |-> IF f \in new THEN Newest(data[f]) ELSE sent_ts[f]]
      /\ replies' = Append(replies, r) /\ UNCHANGED <<cache, link>>
      /\ UNCHANGED <<button, window, resubs>> /\ Loggers' = Loggers
  BY DEF HandleReady, Receives, Sends, pageVars, Loggers
<1>2. /\ r.data = data /\ DOMAIN data = new
      /\ \A f \in new : /\ f \in Field /\ sent_ts[f] # NONE /\ HasNews(cache[f], sent_ts[f])
                        /\ data[f] = LaterThan(cache[f], sent_ts[f])
  OBVIOUS
<1>3. \A i \in 1..Len(requests') : i + 1 \in 1..Len(requests) /\ requests'[i] = requests[i + 1]
  BY <1>1, Dequeued DEF FeedInv
<1>. HIDE DEF new, data, r
<1>4. \A l \in Logger : sent_ts[l] = NONE => sent_ts'[l] = NONE
  BY <1>1, <1>2, Values
<1>5. \A l \in Logger : FlowInv(l)'
  BY <1>1, <1>2, Values, ReadyKeepsFlow DEF OnceInv
<1>6. \A i \in 1..Len(replies') : "definition" \in DOMAIN replies'[i].data =>
        \A n \in 1..Len(replies'[i].data["definition"]) :
          Listed(DOMAIN replies'[i].data["definition"][n].val.active)
  <2>1. SUFFICES ASSUME NEW i \in 1..Len(replies'), "definition" \in DOMAIN replies'[i].data
                 PROVE  \A n \in 1..Len(replies'[i].data["definition"]) :
                          Listed(DOMAIN replies'[i].data["definition"][n].val.active)
    OBVIOUS
  <2>2. (i \in 1..Len(replies) /\ replies'[i] = replies[i]) \/ replies'[i] = r
    <3>1. replies \in Seq(Replies \cup {r}) /\ r \in Replies \cup {r}
      BY DEF FeedInv
    <3>. QED  BY <1>1, <3>1, Enqueued
  <2>3. CASE i \in 1..Len(replies) /\ replies'[i] = replies[i]
    BY <2>1, <2>3 DEF OnceInv
  <2>4. CASE replies'[i] = r
    <3>1. "definition" \in new /\ replies'[i].data = data
      BY <1>2, <2>1, <2>4
    <3>2. \A n \in 1..Len(data["definition"]) :
            \E m \in 1..Len(cache["definition"]) : data["definition"][n] = cache["definition"][m]
      BY <1>2, <3>1, SentOfField
    <3>. QED  BY <3>1, <3>2 DEF Listed
  <2>. QED  BY <2>2, <2>3, <2>4
<1>7. /\ Loggers' # {} => Listed(Loggers)'
      /\ Loggers' = {} <=> resubs' = 0
      /\ link' = "closed" => Loggers' = {}
  BY <1>1 DEF OnceInv, Listed
<1>8. \A i \in 1..Len(requests') : requests'[i].type = "subscribe" =>
        /\ \A l \in Logger : sent_ts'[l] = NONE
        /\ Loggers' = {} => \A l \in Logger : l \notin DOMAIN requests'[i].fields
        /\ \A j \in 1..Len(requests') : requests'[j].type = "subscribe" => i = j
  <2>1. SUFFICES ASSUME NEW i \in 1..Len(requests'), requests'[i].type = "subscribe"
                 PROVE  /\ \A l \in Logger : sent_ts'[l] = NONE
                        /\ Loggers' = {} => \A l \in Logger : l \notin DOMAIN requests'[i].fields
                        /\ \A j \in 1..Len(requests') : requests'[j].type = "subscribe" => i = j
    OBVIOUS
  <2>2. PICK a \in 1..Len(requests) : a = i + 1 /\ requests'[i] = requests[a]
    BY <1>3
  <2>3. /\ \A l \in Logger : sent_ts[l] = NONE
        /\ Loggers = {} => \A l \in Logger : l \notin DOMAIN requests[a].fields
        /\ \A b \in 1..Len(requests) : requests[b].type = "subscribe" => a = b
    BY <2>1, <2>2 DEF OnceInv
  <2>4. \A j \in 1..Len(requests') : requests'[j].type = "subscribe" => i + 1 = j + 1
    BY <1>3, <2>2, <2>3
  <2>5. \A j \in 1..Len(requests') : i + 1 = j + 1 => i = j
    OBVIOUS
  <2>. QED  BY <1>1, <1>4, <2>2, <2>3, <2>4, <2>5
<1>9. Loggers' = {} => \A l \in Logger : sent_ts'[l] = NONE
  BY <1>1, <1>4 DEF OnceInv
<1>. QED  BY <1>1, <1>5, <1>6, <1>7, <1>8, <1>9, RepliesListed

\* Once a connection is lost there is nothing to show.
LEMMA StepKeepsOnce ==
  ASSUME FeedInv, WindowsInv, losses = 0 /\ SameLoggers => OnceInv, [Next]_vars
  PROVE  losses' = 0 /\ SameLoggers' => OnceInv'
<1>1. SUFFICES ASSUME losses' = 0, SameLoggers'
               PROVE  OnceInv'
  OBVIOUS
<1>2. CASE Connects
  <2>1. UNCHANGED <<cache, losses>>
    BY <1>2 DEF Connects, Opens
  <2>2. OnceInv
    BY <1>1, <2>1 DEF SameLoggers
  <2>. QED  BY <1>2, <2>2, ConnectsKeepsOnce
<1>3. CASE OnMessage
  <2>1. UNCHANGED <<cache, losses>>
    BY <1>3 DEF OnMessage, Takes
  <2>2. OnceInv /\ SameLoggers
    BY <1>1, <2>1 DEF SameLoggers
  <2>. QED  BY <1>3, <2>2, MessageKeepsOnce
<1>4. CASE StatusTimeout
  <2>1. UNCHANGED <<cache, losses>>
    BY <1>4 DEF StatusTimeout, feedVars
  <2>2. OnceInv
    BY <1>1, <2>1 DEF SameLoggers
  <2>. QED  BY <1>4, <2>2, TimeoutKeepsOnce
<1>5. CASE PublishesSomething
  <2>1. UNCHANGED losses
    BY <1>5 DEF PublishesSomething, Publishes
  <2>2. FeedInv' /\ Len(cache["definition"]) <= Len(cache'["definition"])
        /\ \A i \in 1..Len(cache["definition"]) : cache'["definition"][i] = cache["definition"][i]
    BY <1>5, PublishingKeepsWindows, Values
  <2>3. OnceInv
    BY <1>1, <2>1, <2>2, MoreListed
  <2>. QED  BY <1>5, <2>3, PublishingKeepsOnce
<1>6. CASE Serves
  <2>1. UNCHANGED <<cache, losses>> /\ UNCHANGED pageVars /\ (HandleSubscribe \/ HandleReady)
    BY <1>6 DEF Serves, Serving, HandleSubscribe, HandleReady
  <2>2. OnceInv
    BY <1>1, <2>1 DEF SameLoggers
  <2>. QED  BY <2>1, <2>2, SubscribeKeepsOnce, ReadyKeepsOnce
<1>7. CASE Breaks
  <2>1. losses' # 0
    <3>1. losses \in Nat /\ losses' = losses + 1
      BY <1>7, ConsoleAssumption DEF Breaks, Loses, FeedInv
    <3>. QED  BY <3>1
  <2>. QED  BY <1>1, <2>1
<1>8. CASE UNCHANGED vars
  <2>1. UNCHANGED <<cache, link, requests, replies, sent_ts, losses, window, resubs, button>>
    BY <1>8 DEF vars, feedVars, pageVars
  <2>2. OnceInv
    BY <1>1, <2>1 DEF SameLoggers
  <2>3. Loggers' = Loggers /\ \A l \in Logger : FlowInv(l)'
    BY <2>1, <2>2 DEF Loggers, OnceInv, FlowInv
  <2>. QED  BY <2>1, <2>2, <2>3 DEF OnceInv, Listed
<1>. QED  BY <1>2, <1>3, <1>4, <1>5, <1>6, <1>7, <1>8 DEF Next

-----------------------------------------------------------------------------
LEMMA ConsoleStarts == Init => ConsoleInv
BY ConsoleStartsTyped, OnceStarts DEF ConsoleInv

LEMMA ConsoleSteps == ConsoleInv /\ [Next]_vars => ConsoleInv'
BY StepKeepsWindows, StepKeepsOnce DEF ConsoleInv

\* The invariant of the console holds whatever the server sends and whenever
\* its connection breaks: cds_websocket.js and the handlers of index.html.js
\* keep it in each of their steps.
THEOREM ConsoleInvariant == Spec => []ConsoleInv
BY ConsoleStarts, ConsoleSteps, PTL DEF Spec

LEMMA FeedTyped == FeedInv => FeedTypeOK
<1>. SUFFICES ASSUME FeedInv
              PROVE  FeedTypeOK
  OBVIOUS
<1>1. \A f \in Field : \A i \in DOMAIN cache[f] : cache[f][i].ts \in 1..clock
  <2>1. ASSUME NEW f \in Field, NEW i \in DOMAIN cache[f]
        PROVE  cache[f][i].ts \in 1..clock
    <3>1. cache[f] \in Seq(Rec(f)) /\ UpTo(cache[f], clock)
      BY DEF FeedInv, ListOK
    <3>2. i \in 1..Len(cache[f])
      BY <3>1, ListFacts
    <3>3. cache[f][i].ts \in 1..ClockBound /\ cache[f][i].ts <= clock
      BY <3>1, <3>2, RecTimed DEF UpTo
    <3>. QED  BY <3>3, ConsoleAssumption DEF FeedInv
  <2>. QED  BY <2>1
<1>2. ASSUME NEW i \in DOMAIN requests
      PROVE  \/ requests[i] = Ready
             \/ /\ requests[i].type = "subscribe"
                /\ DOMAIN requests[i].fields \subseteq Field
                /\ \A f \in DOMAIN requests[i].fields : requests[i].fields[f] \in FieldSpec
  <2>. DEFINE r == requests[i]
  <2>1. r \in Requests
    BY ListFacts DEF FeedInv
  <2>. HIDE DEF r
  <2>2. CASE r # Ready
    <3>1. r.type = "subscribe" /\ r.fields \in UNION {[F -> FieldSpec] : F \in SUBSET Field}
      BY <2>1, <2>2 DEF Requests
    <3>2. PICK F \in SUBSET Field : r.fields \in [F -> FieldSpec]
      BY <3>1
    <3>3. DOMAIN r.fields \subseteq Field /\ \A f \in DOMAIN r.fields : r.fields[f] \in FieldSpec
      BY <3>2
    <3>. QED  BY <3>1, <3>3 DEF r
  <2>. QED  BY <2>2 DEF r
<1>3. ASSUME NEW i \in DOMAIN replies
      PROVE  /\ replies[i].type \in {"subscribe", "data"}
             /\ DOMAIN replies[i].data \subseteq Field
             /\ \A f \in DOMAIN replies[i].data : replies[i].data[f] # <<>>
  <2>1. replies \in Seq(Replies) /\ i \in 1..Len(replies)
    BY ListFacts DEF FeedInv
  <2>2. replies[i] \in Replies /\ DOMAIN replies[i].data \subseteq Field
    BY <2>1, RepliesTyped
  <2>3. replies[i].type \in {"subscribe", "data"}
    BY <2>2 DEF Replies
  <2>. QED  BY <2>1, <2>2, <2>3 DEF FeedInv
<1>. QED  BY <1>1, <1>2, <1>3 DEF FeedInv, FeedTypeOK

\* The windows' lines in their order.
LEMMA ConsoleSafe == ConsoleInv => TypeOK /\ KeepsAsking /\ LinesInOrderOnce
<1>. SUFFICES ASSUME ConsoleInv
              PROVE  TypeOK /\ KeepsAsking /\ LinesInOrderOnce
  OBVIOUS
<1>1. TypeOK
  BY FeedTyped DEF ConsoleInv, WindowsInv, TypeOK
<1>2. KeepsAsking
  BY DEF ConsoleInv, WindowsInv
<1>3. LinesInOrderOnce
  <2>1. SUFFICES ASSUME OnceInv, NEW l \in Logger
                 PROVE  \A i, j \in DOMAIN window[l] : i < j => window[l][i] < window[l][j]
    BY DEF LinesInOrderOnce, ConsoleInv
  <2>2. window[l] \in Seq(1..ClockBound)
    BY DEF ConsoleInv, WindowsInv
  <2>3. DOMAIN window[l] = 1..Len(window[l])
    BY <2>2, ListFacts
  <2>. QED  BY <2>1, <2>3 DEF OnceInv, FlowInv
<1>. QED  BY <1>1, <1>2, <1>3

\* On an open connection of the console, a message is under way: each answer
\* is answered with `ready`, whatever the handlers sent before it.
THEOREM ConsoleKeepsAsking == Spec => [](TypeOK /\ KeepsAsking)
BY ConsoleInvariant, ConsoleSafe, PTL

\* Until its connection is lost, and while every definition has the same
\* loggers, the console's stderr windows show each line once, and in order.
THEOREM ConsoleLinesInOrderOnce == Spec => []LinesInOrderOnce
BY ConsoleInvariant, ConsoleSafe, PTL

-----------------------------------------------------------------------------
(***************************************************************************)
(* The ends of lists, which timelines show.                                *)
(***************************************************************************)
From(list, a) == SubSeq(list, a, Len(list))

LEMMA FromFacts ==
  ASSUME NEW R, NEW list \in Seq(R), NEW a \in 1..(Len(list) + 1)
  PROVE  /\ From(list, a) \in Seq(R) /\ Len(From(list, a)) = Len(list) - a + 1
         /\ \A i \in 1..(Len(list) - a + 1) : a + i - 1 \in 1..Len(list) /\ From(list, a)[i] = list[a + i - 1]
         /\ From(list, a) # <<>> => Newest(From(list, a)) = Newest(list)
         /\ From(list, a) = <<>> <=> a = Len(list) + 1
         /\ Rising(list) => Rising(From(list, a))
<1>. DEFINE n == Len(list)
            u == From(list, a)
<1>1. n \in Nat /\ a \in 1..(n + 1) /\ \A i \in 1..n : list[i] \in R
  BY ListFacts
<1>2. \A i \in a..n : list[i] \in R
  BY <1>1
<1>3. /\ u \in Seq(R) /\ Len(u) = IF a <= n THEN n - a + 1 ELSE 0
      /\ \A i \in 1..(n - a + 1) : u[i] = list[a + i - 1]
  <2>. HIDE DEF n
  <2>1. a \in Int /\ n \in Int
    BY <1>1
  <2>. QED  BY <1>2, <2>1, SubSeqProperties DEF From, n
<1>. HIDE DEF n, u
<1>4. Len(u) = n - a + 1 /\ n - a + 1 \in Nat
  BY <1>1, <1>3
<1>5. \A i \in 1..(n - a + 1) : a + i - 1 \in 1..n
  BY <1>1
<1>6. u = <<>> <=> a = n + 1
  BY <1>1, <1>3, <1>4
<1>7. u # <<>> => Newest(u) = Newest(list)
  <2>1. SUFFICES ASSUME u # <<>>
                 PROVE  u[Len(u)].ts = list[n].ts
    BY DEF Newest, n
  <2>2. Len(u) \in 1..(n - a + 1) /\ a + Len(u) - 1 = n
    BY <1>1, <1>4, <1>6, <2>1
  <2>3. u[Len(u)] = list[a + Len(u) - 1]
    BY <1>3, <2>2
  <2>. QED  BY <2>2, <2>3
<1>8. ASSUME Rising(list), NEW i \in 1..Len(u), NEW j \in 1..Len(u), i < j
      PROVE  u[i].ts < u[j].ts
  <2>1. a + i - 1 \in 1..n /\ a + j - 1 \in 1..n /\ a + i - 1 < a + j - 1
    BY <1>1, <1>4, <1>5, <1>8
  <2>2. u[i] = list[a + i - 1] /\ u[j] = list[a + j - 1]
    BY <1>3, <1>4
  <2>. QED  BY <1>8, <2>1, <2>2 DEF Rising, n
<1>. QED  BY <1>3, <1>4, <1>5, <1>6, <1>7, <1>8 DEF Rising, n, u

\* An end of an end, and an end with more after it.
LEMMA FromFrom ==
  ASSUME NEW R, NEW list \in Seq(R), NEW a \in 1..(Len(list) + 1),
         NEW b \in 1..(Len(From(list, a)) + 1)
  PROVE  a + b - 1 \in 1..(Len(list) + 1) /\ From(From(list, a), b) = From(list, a + b - 1)
<1>. DEFINE n == Len(list)
            u == From(list, a)
            v == From(u, b)
            w == From(list, a + b - 1)
<1>1. /\ n \in Nat /\ a \in 1..(n + 1) /\ u \in Seq(R) /\ Len(u) = n - a + 1
      /\ \A i \in 1..(n - a + 1) : u[i] = list[a + i - 1]
  BY ListFacts, FromFacts
<1>2. b \in 1..(n - a + 2) /\ a + b - 1 \in 1..(n + 1)
  BY <1>1
<1>3. /\ v \in Seq(R) /\ Len(v) = Len(u) - b + 1
      /\ \A i \in 1..(Len(u) - b + 1) : b + i - 1 \in 1..Len(u) /\ v[i] = u[b + i - 1]
  <2>. HIDE DEF u
  <2>. QED  BY <1>1, FromFacts DEF u
<1>4. /\ w \in Seq(R) /\ Len(w) = n - (a + b - 1) + 1
      /\ \A i \in 1..(n - (a + b - 1) + 1) : w[i] = list[(a + b - 1) + i - 1]
  BY <1>2, FromFacts
<1>. HIDE DEF n, u, v, w
<1>5. Len(v) = Len(w) /\ Len(v) = n - a - b + 2
  BY <1>1, <1>2, <1>3, <1>4
<1>6. ASSUME NEW i \in 1..Len(v)
      PROVE  v[i] = w[i]
  <2>1. i \in 1..(Len(u) - b + 1) /\ i \in 1..(n - (a + b - 1) + 1)
    BY <1>1, <1>2, <1>3, <1>4, <1>5
  <2>2. v[i] = u[b + i - 1] /\ b + i - 1 \in 1..(n - a + 1)
    BY <1>1, <1>3, <2>1
  <2>3. v[i] = list[a + (b + i - 1) - 1]
    BY <1>1, <2>2
  <2>4. w[i] = list[(a + b - 1) + i - 1]
    BY <1>4, <2>1
  <2>5. a + (b + i - 1) - 1 = (a + b - 1) + i - 1
    BY <1>1, <1>2, <2>1
  <2>. QED  BY <2>3, <2>4, <2>5
<1>7. v = w
  BY <1>3, <1>4, <1>5, <1>6, SeqEqual
<1>. QED  BY <1>2, <1>7 DEF n, u, v, w

LEMMA FromJoin ==
  ASSUME NEW R, NEW s \in Seq(R), NEW t \in Seq(R), NEW a \in 1..(Len(s) + 1)
  PROVE  a \in 1..(Len(s \o t) + 1) /\ From(s, a) \o t = From(s \o t, a)
<1>. DEFINE n == Len(s)
            m == Len(t)
            st == s \o t
            u == From(s, a)
            v == u \o t
            w == From(st, a)
<1>1. /\ n \in Nat /\ m \in Nat /\ a \in 1..(n + 1) /\ u \in Seq(R) /\ Len(u) = n - a + 1
      /\ \A i \in 1..(n - a + 1) : u[i] = s[a + i - 1]
  BY ListFacts, FromFacts
<1>2. /\ st \in Seq(R) /\ Len(st) = n + m
      /\ \A i \in 1..(n + m) : st[i] = IF i <= n THEN s[i] ELSE t[i - n]
  BY ConcatProperties
<1>3. /\ v \in Seq(R) /\ Len(v) = Len(u) + m
      /\ \A i \in 1..(Len(u) + m) : v[i] = IF i <= Len(u) THEN u[i] ELSE t[i - Len(u)]
  <2>. HIDE DEF u
  <2>. QED  BY <1>1, ConcatProperties
<1>. HIDE DEF st
<1>4. a \in 1..(Len(st) + 1)
  BY <1>1, <1>2
<1>5. /\ w \in Seq(R) /\ Len(w) = Len(st) - a + 1
      /\ \A i \in 1..(Len(st) - a + 1) : a + i - 1 \in 1..Len(st) /\ w[i] = st[a + i - 1]
  BY ZenonT(60), <1>2, <1>4, FromFacts
<1>. HIDE DEF n, m, u, v, w
<1>6. Len(v) = Len(w) /\ Len(v) = n + m - a + 1
  BY <1>1, <1>2, <1>3, <1>5
<1>7. ASSUME NEW i \in 1..Len(v)
      PROVE  v[i] = w[i]
  <2>1. w[i] = st[a + i - 1] /\ a + i - 1 \in 1..(n + m) /\ i \in 1..(Len(u) + m)
    BY <1>2, <1>3, <1>5, <1>6
  <2>2. CASE i <= Len(u)
    <3>1. v[i] = s[a + i - 1]
      BY <1>1, <1>3, <2>1, <2>2
    <3>2. a + i - 1 <= n
      BY <1>1, <2>1, <2>2
    <3>. QED  BY <1>2, <2>1, <3>1, <3>2
  <2>3. CASE ~(i <= Len(u))
    <3>1. v[i] = t[i - Len(u)]
      BY <1>3, <2>1, <2>3
    <3>2. ~(a + i - 1 <= n) /\ (a + i - 1) - n = i - Len(u)
      BY <1>1, <2>1, <2>3
    <3>3. st[a + i - 1] = t[(a + i - 1) - n]
      BY <1>2, <2>1, <3>2
    <3>. QED  BY <2>1, <3>1, <3>2, <3>3
  <2>. QED  BY <2>2, <2>3
<1>8. v = w
  BY <1>3, <1>5, <1>6, <1>7, SeqEqual
<1>. QED  BY <1>4, <1>8 DEF v, w, u, st

LEMMA SameCardinality == \A S : P!Cardinality(S) = Cardinality(S)
BY DEF P!Cardinality, Cardinality

LEMMA SameAscending ==
  ASSUME NEW S
  PROVE  P!Ascending(S) = Ascending(S)
<1>. DEFINE less(i) == {j \in S : j < i}
<1>1. P!Ascending(S) = [k \in 1..P!Cardinality(S) |-> CHOOSE i \in S : P!Cardinality(less(i)) = k - 1]
  BY DEF P!Ascending
<1>2. Ascending(S) = [k \in 1..Cardinality(S) |-> CHOOSE i \in S : Cardinality(less(i)) = k - 1]
  BY DEF Ascending
<1>3. \A i : P!Cardinality(less(i)) = Cardinality(less(i))
  BY SameCardinality, Zenon
<1>. HIDE DEF less
<1>4. \A k : (CHOOSE i \in S : P!Cardinality(less(i)) = k - 1)
               = CHOOSE i \in S : Cardinality(less(i)) = k - 1
  BY <1>3
<1>5. P!Cardinality(S) = Cardinality(S)
  BY SameCardinality, Zenon
<1>. QED  BY <1>1, <1>2, <1>4, <1>5

\* The definitions of the pages' module are those of the console's.
LEMMA SameOperators ==
  /\ P!FieldSpec = FieldSpec
  /\ \A list : P!Newest(list) = Newest(list)
  /\ \A S : P!Greatest(S) = Greatest(S) /\ P!Ascending(S) = Ascending(S)
  /\ \A list, S : P!Chosen(list, S) = Chosen(list, S)
  /\ \A list, ts : (P!HasNews(list, ts) <=> HasNews(list, ts)) /\ P!LaterThan(list, ts) = LaterThan(list, ts)
  /\ \A list, spec, now : P!InitialTimestamp(list, spec, now) = InitialTimestamp(list, spec, now)
<1>1. /\ P!FieldSpec = FieldSpec /\ \A list : P!Newest(list) = Newest(list)
      /\ \A S : P!Greatest(S) = Greatest(S) /\ P!Ascending(S) = Ascending(S)
  <2>1. P!FieldSpec = FieldSpec
    BY DEF P!FieldSpec, FieldSpec
  <2>2. \A list : P!Newest(list) = Newest(list)
    BY DEF P!Newest, Newest
  <2>3. \A S : P!Greatest(S) = Greatest(S)
    BY DEF P!Greatest, Greatest
  <2>4. \A S : P!Ascending(S) = Ascending(S)
    BY SameAscending
  <2>. QED  BY <2>1, <2>2, <2>3, <2>4
<1>2. \A list, S : P!Chosen(list, S) = Chosen(list, S)
  <2>1. SUFFICES ASSUME NEW list, NEW S
                 PROVE  P!Chosen(list, S) = Chosen(list, S)
    OBVIOUS
  <2>2. P!Chosen(list, S) = [k \in 1..P!Cardinality(S) |-> list[P!Ascending(S)[k]]]
    BY DEF P!Chosen
  <2>3. Chosen(list, S) = [k \in 1..Cardinality(S) |-> list[Ascending(S)[k]]]
    BY DEF Chosen
  <2>4. P!Cardinality(S) = Cardinality(S)
    BY SameCardinality, Zenon
  <2>. QED  BY <2>2, <2>3, <2>4, SameAscending
<1>3. \A list, ts : P!HasNews(list, ts) <=> HasNews(list, ts)
  BY <1>1 DEF P!HasNews, HasNews
<1>4. \A list, ts : P!LaterThan(list, ts) = LaterThan(list, ts)
  BY <1>2, <1>3 DEF P!LaterThan, LaterThan
<1>5. \A list, spec, now : P!TooOld(list, spec, now) = TooOld(list, spec, now)
  BY DEF P!TooOld, TooOld
<1>6. \A list, spec, now : P!InitialTimestamp(list, spec, now) = InitialTimestamp(list, spec, now)
  BY <1>1, <1>5 DEF P!InitialTimestamp, InitialTimestamp
<1>. QED  BY <1>1, <1>2, <1>3, <1>4, <1>6

LEMMA LastOnesFrom ==
  ASSUME NEW R, NEW list \in Seq(R), NEW n \in Nat \ {0}
  PROVE  LET a == IF Len(list) <= n THEN 1 ELSE Len(list) - n + 1 IN
         a \in 1..(Len(list) + 1) /\ P!LastOnes(list, n) = From(list, a)
<1>1. Len(list) \in Nat
  BY ListFacts
<1>2. CASE Len(list) <= n
  <2>1. From(list, 1) = list
    BY SubSeqFull DEF From
  <2>. QED  BY <1>1, <1>2, <2>1 DEF P!LastOnes
<1>3. CASE ~(Len(list) <= n)
  BY <1>1, <1>3 DEF P!LastOnes, From
<1>. QED  BY <1>2, <1>3

\* Does the i-th record belong to the last seconds of a list?
InTime(list, seconds, i) == seconds = 0 \/ list[i].ts >= Newest(list) - seconds

\* From a on the records of a list are in time.
CutAt(list, seconds, a) ==
  a \in 1..(Len(list) + 1) /\ \A i \in 1..Len(list) : i >= a <=> InTime(list, seconds, i)

LEMMA CutExists ==
  ASSUME NEW R, Timed(R), NEW list \in Seq(R), Rising(list), NEW seconds \in Nat
  PROVE  \E a \in 1..(Len(list) + 1) : CutAt(list, seconds, a) /\ (list # <<>> => a <= Len(list))
<1>1. /\ Len(list) \in Nat /\ \A i \in 1..Len(list) : list[i].ts \in Nat
      /\ list = <<>> <=> Len(list) = 0
  BY ListFacts DEF Timed
<1>. DEFINE n == Len(list)
            S == {i \in 1..n : InTime(list, seconds, i)}
<1>2. CASE n = 0
  BY <1>1, <1>2 DEF CutAt
<1>3. CASE n # 0
  <2>1. n \in S
    <3>1. InTime(list, seconds, n)
      BY <1>1, <1>3 DEF InTime, Newest
    <3>. QED  BY <1>1, <1>3, <3>1
  <2>2. \A i \in S : i \in 1..n
    OBVIOUS
  <2>3. \A i \in S, j \in 1..n : i < j => j \in S
    <3>1. SUFFICES ASSUME NEW i \in S, NEW j \in 1..n, i < j
                   PROVE  InTime(list, seconds, j)
      OBVIOUS
    <3>2. list[i].ts < list[j].ts /\ i \in 1..n /\ InTime(list, seconds, i)
      BY <3>1 DEF Rising
    <3>3. Newest(list) \in Nat
      BY <1>1, <1>3 DEF Newest
    <3>. QED  BY <1>1, <3>2, <3>3 DEF InTime
  <2>4. \A i \in 1..n : i \in S <=> InTime(list, seconds, i)
    OBVIOUS
  <2>. HIDE DEF S
  <2>5. S \in SUBSET Int /\ IsFiniteSet(S)
    BY <1>1, <2>2, IndicesAreFinite
  <2>. DEFINE c == Cardinality(S)
              asc == Ascending(S)
  <2>6. c \in Nat /\ Enumerates(asc, c, S)
    BY <2>5, AscendingEnumerates
  <2>. HIDE DEF c, asc
  <2>7. 1 \in 1..c
    BY <2>1, <2>6 DEF Enumerates
  <2>8. asc[1] \in S /\ \A i \in S : asc[1] <= i
    <3>1. asc[1] \in S
      BY <2>6, <2>7 DEF Enumerates
    <3>2. ASSUME NEW i \in S
          PROVE  asc[1] <= i
      <4>1. PICK k \in 1..c : asc[k] = i
        BY <2>6 DEF Enumerates
      <4>2. k = 1 \/ 1 < k
        BY <2>6
      <4>3. asc[1] = i \/ asc[1] < i
        BY <2>6, <2>7, <4>1, <4>2 DEF Enumerates
      <4>4. asc[1] \in 1..n /\ i \in 1..n
        BY <2>2, <3>1
      <4>. QED  BY <1>1, <4>3, <4>4
    <3>. QED  BY <3>1, <3>2
  <2>9. asc[1] \in 1..n
    BY <2>2, <2>8
  <2>10. \A i \in 1..n : i >= asc[1] <=> i \in S
    <3>1. \A i \in 1..n : i >= asc[1] => i = asc[1] \/ asc[1] < i
      BY <1>1, <2>9
    <3>2. \A i \in 1..n : i \in S => i >= asc[1]
      BY <1>1, <2>8, <2>9
    <3>. QED  BY <2>3, <2>8, <3>1, <3>2
  <2>. QED  BY <1>1, <2>4, <2>9, <2>10 DEF CutAt
<1>. QED  BY <1>2, <1>3

\* Both what a timeline keeps and what it should show begin there.
LEMMA CutIsWithin ==
  ASSUME NEW R, Timed(R), NEW list \in Seq(R), Rising(list), NEW seconds \in Nat,
         NEW a, CutAt(list, seconds, a)
  PROVE  /\ P!Within(list, seconds) = From(list, a)
         /\ P!Trimmed(list, seconds) = From(list, a)
<1>. DEFINE n == Len(list)
<1>1. /\ n \in Nat /\ DOMAIN list = 1..n /\ \A i \in 1..n : list[i].ts \in Nat
      /\ (list = <<>> <=> n = 0) /\ a \in 1..(n + 1) /\ a \in Nat
  <2>1. a \in 1..(n + 1) /\ n \in Nat
    BY ListFacts DEF CutAt
  <2>2. a \in Nat
    BY <2>1
  <2>. QED  BY <2>1, <2>2, ListFacts DEF Timed
<1>2. \A i \in 1..n : i >= a <=> InTime(list, seconds, i)
  BY DEF CutAt
<1>3. CASE seconds = 0
  <2>1. a = 1 \/ n = 0
    <3>1. n # 0 => 1 \in 1..n /\ 1 >= a
      BY <1>1, <1>2, <1>3 DEF InTime
    <3>. QED  BY <1>1, <3>1
  <2>2. a = 1
    BY <1>1, <2>1
  <2>3. From(list, 1) = list
    BY SubSeqFull DEF From
  <2>. QED  BY <1>3, <2>2, <2>3 DEF P!Within, P!Trimmed
<1>4. CASE seconds # 0
  <2>. DEFINE S == {i \in 1..n : list[i].ts >= Newest(list) - seconds}
  <2>1. S = a..n
    <3>1. \A i \in 1..n : list[i].ts >= Newest(list) - seconds <=> i >= a
      BY <1>2, <1>4 DEF InTime
    <3>. HIDE DEF n
    <3>2. ASSUME NEW i
          PROVE  i \in S <=> i \in a..n
      <4>1. i \in a..n <=> i \in 1..n /\ i >= a
        BY <1>1
      <4>. QED  BY <3>1, <4>1
    <3>. QED  BY <3>2
  <2>2. P!Within(list, seconds) = From(list, a)
    <3>1. P!Within(list, seconds) = Chosen(list, S)
      <4>1. P!Within(list, seconds)
              = P!Chosen(list, {i \in DOMAIN list : list[i].ts >= P!Newest(list) - seconds})
        BY <1>4 DEF P!Within
      <4>2. {i \in DOMAIN list : list[i].ts >= P!Newest(list) - seconds} = S
        BY <1>1, SameOperators
      <4>. HIDE DEF S
      <4>. QED  BY <4>1, <4>2, SameOperators
    <3>. HIDE DEF S
    <3>2. /\ Cardinality(a..n) = n - a + 1
          /\ \A k \in 1..(n - a + 1) : Ascending(a..n)[k] = a + k - 1
      <4>. HIDE DEF n
      <4>1. a \in Nat /\ n \in Nat /\ a <= n + 1
        BY <1>1
      <4>. QED  BY <4>1, AscendingInterval
    <3>3. Chosen(list, a..n) = [k \in 1..(n - a + 1) |-> list[a + k - 1]]
      BY <3>2 DEF Chosen
    <3>4. From(list, a) = [k \in 1..(n - a + 1) |-> From(list, a)[k]]
      <4>1. From(list, a) \in Seq(R) /\ Len(From(list, a)) = n - a + 1
        BY <1>1, FromFacts
      <4>. QED  BY <4>1
    <3>5. \A k \in 1..(n - a + 1) : From(list, a)[k] = list[a + k - 1]
      BY <1>1, FromFacts
    <3>. QED  BY <2>1, <3>1, <3>3, <3>4, <3>5
  <2>3. CASE n = 0
    <3>1. a = Len(list) + 1 /\ list = <<>>
      BY <1>1, <2>3
    <3>2. From(list, a) = <<>>
      BY <1>1, <3>1, FromFacts
    <3>. QED  BY <2>2, <3>1, <3>2 DEF P!Trimmed
  <2>4. CASE n # 0
    <3>1. n \in S
      BY <1>1, <1>4, <2>4 DEF Newest
    <3>. DEFINE kept == {i \in DOMAIN list : list[i].ts >= P!Newest(list) - seconds}
    <3>2. P!Trimmed(list, seconds)
            = SubSeq(list, CHOOSE i \in kept : \A j \in kept : i <= j, Len(list))
      BY <1>1, <1>4, <2>4 DEF P!Trimmed
    <3>3. kept = S
      BY <1>1, SameOperators
    <3>. HIDE DEF kept, S
    <3>4. kept = a..n /\ a \in a..n
      BY <1>1, <2>1, <3>1, <3>3
    <3>5. (CHOOSE i \in kept : \A j \in kept : i <= j) = a
      <4>. HIDE DEF n
      <4>1. \A i \in kept : (\A j \in kept : i <= j) <=> i = a
        BY <1>1, <3>4
      <4>. QED  BY <3>4, <4>1
    <3>. QED  BY <2>2, <3>2, <3>5 DEF From
  <2>. QED  BY <2>2, <2>3, <2>4
<1>. QED  BY <1>3, <1>4

\* An end of a list is cut where the list is, or not at all.
LEMMA CutOfEnd ==
  ASSUME NEW R, Timed(R), NEW list \in Seq(R), Rising(list), NEW seconds \in Nat,
         NEW a, CutAt(list, seconds, a), NEW p \in 1..Len(list)
  PROVE  LET b == IF a <= p THEN 1 ELSE a - p + 1 IN
         /\ CutAt(From(list, p), seconds, b)
         /\ From(From(list, p), b) = From(list, IF a <= p THEN p ELSE a)
<1>. DEFINE n == Len(list)
            b == IF a <= p THEN 1 ELSE a - p + 1
            u == From(list, p)
<1>1. /\ n \in Nat /\ a \in 1..(n + 1) /\ p \in 1..n /\ p \in 1..(n + 1)
      /\ \A i \in 1..n : i >= a <=> InTime(list, seconds, i)
  BY ListFacts DEF CutAt
<1>2. /\ u \in Seq(R) /\ Len(u) = n - p + 1
      /\ \A i \in 1..(n - p + 1) : p + i - 1 \in 1..n /\ u[i] = list[p + i - 1]
      /\ u # <<>> /\ Newest(u) = Newest(list)
  <2>1. p # n + 1
    BY <1>1
  <2>. QED  BY <1>1, <2>1, FromFacts
<1>. HIDE DEF u, n
<1>3. b \in 1..(Len(u) + 1)
  BY <1>1, <1>2
<1>4. ASSUME NEW i \in 1..Len(u)
      PROVE  i >= b <=> InTime(u, seconds, i)
  <2>1. p + i - 1 \in 1..n /\ u[i] = list[p + i - 1]
    BY <1>2
  <2>2. InTime(u, seconds, i) <=> InTime(list, seconds, p + i - 1)
    BY <1>2, <2>1 DEF InTime
  <2>3. p + i - 1 >= a <=> i >= b
    BY <1>1, <1>2, <1>3
  <2>. QED  BY <1>1, <2>1, <2>2, <2>3
<1>5. From(u, b) = From(list, p + b - 1)
  BY <1>1, <1>2, <1>3, FromFrom DEF u, n
<1>6. p + b - 1 = IF a <= p THEN p ELSE a
  BY <1>1
<1>. QED  BY <1>3, <1>4, <1>5, <1>6 DEF CutAt, u

\* With more records the cut moves on.
LEMMA CutMovesOn ==
  ASSUME NEW R, Timed(R), NEW s \in Seq(R), NEW t \in Seq(R), Rising(s \o t), NEW seconds \in Nat,
         NEW a, CutAt(s, seconds, a), NEW b, CutAt(s \o t, seconds, b)
  PROVE  a <= b
<1>. DEFINE st == s \o t
            n == Len(s)
            m == Len(st)
<1>1. /\ n \in Nat /\ m \in Nat /\ n <= m /\ a \in 1..(n + 1) /\ b \in 1..(m + 1)
      /\ \A i \in 1..n : i \in 1..m /\ st[i] = s[i]
      /\ st \in Seq(R) /\ \A i \in 1..m : st[i].ts \in Nat
  <2>1. /\ st \in Seq(R) /\ Len(s) \in Nat /\ Len(t) \in Nat /\ m = Len(s) + Len(t)
        /\ \A i \in 1..(Len(s) + Len(t)) : st[i] = IF i <= Len(s) THEN s[i] ELSE t[i - Len(s)]
    BY ConcatProperties, ListFacts
  <2>2. a \in 1..(n + 1) /\ b \in 1..(m + 1)
    BY DEF CutAt
  <2>. HIDE DEF st
  <2>3. \A i \in 1..m : st[i].ts \in Nat
    BY <2>1, ListFacts DEF Timed
  <2>. QED  BY <2>1, <2>2, <2>3
<1>. HIDE DEF st, n, m
<1>2. SUFFICES ASSUME b < a
               PROVE  FALSE
  BY <1>1
<1>3. b \in 1..n /\ b \in 1..m
  BY <1>1, <1>2
<1>4. InTime(st, seconds, b) /\ ~InTime(s, seconds, b)
  BY <1>1, <1>2, <1>3 DEF CutAt, st, n, m
<1>5. Newest(s) <= Newest(st) /\ Newest(s) \in Nat /\ Newest(st) \in Nat
  <2>1. n \in 1..m /\ m \in 1..m /\ n \in 1..n /\ (n = m \/ n < m)
    BY <1>1, <1>3
  <2>2. st[n].ts = st[m].ts \/ st[n].ts < st[m].ts
    BY <2>1 DEF Rising, st, m
  <2>3. st[n] = s[n] /\ Newest(s) = s[n].ts /\ Newest(st) = st[m].ts
    BY <1>1, <2>1 DEF Newest, n, m
  <2>4. st[n].ts \in Nat /\ st[m].ts \in Nat
    BY <1>1, <2>1
  <2>. QED  BY <2>2, <2>3, <2>4
<1>6. st[b] = s[b] /\ st[b].ts \in Nat
  BY <1>1, <1>3
<1>. QED  BY <1>4, <1>5, <1>6 DEF InTime

\* What a timeline keeps of what it showed and what comes is what it should
\* show of it all.
LEMMA LineStep ==
  ASSUME NEW R, Timed(R), NEW G \in Seq(R), NEW N \in Seq(R), Rising(G), Rising(G \o N),
         NEW seconds \in Nat
  PROVE  P!Trimmed(P!Within(G, seconds) \o N, seconds) = P!Within(G \o N, seconds)
<1>. DEFINE GN == G \o N
<1>1. /\ GN \in Seq(R) /\ Len(GN) = Len(G) + Len(N) /\ Len(G) \in Nat /\ Len(N) \in Nat
      /\ Rising(GN)
  BY ConcatProperties, ListFacts
<1>2. PICK a \in 1..(Len(G) + 1) : CutAt(G, seconds, a) /\ (G # <<>> => a <= Len(G))
  BY CutExists
<1>3. /\ P!Within(G, seconds) = From(G, a) /\ a \in 1..(Len(GN) + 1)
      /\ From(G, a) \o N = From(GN, a)
  BY <1>2, CutIsWithin, FromJoin
<1>. HIDE DEF GN
<1>4. PICK b \in 1..(Len(GN) + 1) : CutAt(GN, seconds, b)
  BY <1>1, CutExists
<1>5. P!Within(GN, seconds) = From(GN, b) /\ P!Trimmed(GN, seconds) = From(GN, b)
  BY <1>1, <1>4, CutIsWithin
<1>6. a <= b
  BY <1>1, <1>2, <1>4, CutMovesOn DEF GN
<1>7. CASE a \in 1..Len(GN)
  <2>. DEFINE c == IF b <= a THEN 1 ELSE b - a + 1
              u == From(GN, a)
  <2>1. CutAt(u, seconds, c) /\ From(u, c) = From(GN, IF b <= a THEN a ELSE b)
    BY <1>1, <1>4, <1>7, CutOfEnd
  <2>2. u \in Seq(R) /\ Rising(u)
    BY <1>1, <1>3, FromFacts
  <2>3. (IF b <= a THEN a ELSE b) = b
    BY <1>1, <1>3, <1>6
  <2>. HIDE DEF u, c
  <2>4. P!Trimmed(u, seconds) = From(GN, b)
    BY <2>1, <2>2, <2>3, CutIsWithin
  <2>. QED  BY <1>3, <1>5, <2>4 DEF u, GN
<1>8. CASE a = Len(GN) + 1
  <2>1. Len(G) = 0 /\ Len(N) = 0
    <3>1. G = <<>>
      BY <1>1, <1>2, <1>8
    <3>. QED  BY <1>1, <1>2, <1>8, <3>1
  <2>2. GN = <<>>
    BY <1>1, <2>1
  <2>3. From(GN, a) = GN
    BY <1>1, <1>3, <1>8, <2>2, FromFacts
  <2>. QED  BY <1>3, <1>5, <2>3 DEF GN
<1>. QED  BY <1>1, <1>3, <1>7, <1>8

\* So too of one that shows the last n at most.
LEMMA LastLineStep ==
  ASSUME NEW R, Timed(R), NEW G \in Seq(R), NEW N \in Seq(R), Rising(G), Rising(G \o N),
         N # <<>>, NEW seconds \in Nat, NEW n \in Nat \ {0}
  PROVE  P!LastOnes(P!Trimmed(P!LastOnes(P!Within(G, seconds), n) \o N, seconds), n)
           = P!LastOnes(P!Within(G \o N, seconds), n)
<1>. DEFINE GN == G \o N
            l == Len(G)
            L == Len(GN)
            Begin(m) == IF m <= n THEN 1 ELSE m - n + 1
<1>1. GN \in Seq(R) /\ Rising(GN) /\ l \in Nat /\ L \in Nat /\ l < L
  <2>1. GN \in Seq(R) /\ L = l + Len(N) /\ Len(G) \in Nat /\ Len(N) \in Nat /\ Len(N) # 0
    BY ConcatProperties, ListFacts
  <2>. HIDE DEF GN
  <2>. QED  BY <2>1 DEF GN
<1>2. PICK a \in 1..(l + 1) : CutAt(G, seconds, a)
  BY CutExists
<1>. DEFINE W == From(G, a)
            e == Begin(Len(W))
            p == a + e - 1
<1>3. P!Within(G, seconds) = W /\ W \in Seq(R) /\ Len(W) = l - a + 1
  BY <1>2, CutIsWithin, FromFacts
<1>4. e \in 1..(Len(W) + 1) /\ P!LastOnes(W, n) = From(W, e)
  <2>. HIDE DEF W
  <2>. QED  BY <1>3, LastOnesFrom
<1>5. p \in 1..(l + 1) /\ From(W, e) = From(G, p)
  <2>. HIDE DEF e
  <2>. QED  BY <1>2, <1>4, FromFrom
<1>6. From(G, p) \o N = From(GN, p)
  <2>. HIDE DEF p
  <2>. QED  BY <1>5, FromJoin
<1>7. P!LastOnes(P!Within(G, seconds), n) \o N = From(GN, p)
  BY <1>3, <1>4, <1>5, <1>6
<1>8. PICK b \in 1..(L + 1) : CutAt(GN, seconds, b)
  <2>. HIDE DEF GN
  <2>. QED  BY <1>1, CutExists
<1>9. a <= b
  BY <1>2, <1>8, CutMovesOn
<1>. DEFINE c == IF b <= p THEN p ELSE b
            u == From(GN, p)
<1>10. p \in 1..L
  BY <1>1, <1>5
<1>11. P!Within(GN, seconds) = From(GN, b) /\ P!Trimmed(u, seconds) = From(GN, c)
  <2>. HIDE DEF GN, p
  <2>. DEFINE d == IF b <= p THEN 1 ELSE b - p + 1
  <2>1. CutAt(u, seconds, d) /\ From(u, d) = From(GN, c)
    BY <1>1, <1>8, <1>10, CutOfEnd
  <2>2. p \in 1..(Len(GN) + 1)
    BY <1>1, <1>10
  <2>3. u \in Seq(R) /\ Rising(u)
    BY <1>1, <2>2, FromFacts
  <2>. HIDE DEF u, d, c
  <2>4. P!Trimmed(u, seconds) = From(GN, c)
    BY <2>1, <2>3, CutIsWithin
  <2>. QED  BY <1>1, <1>8, <2>4, CutIsWithin
<1>12. ASSUME NEW q \in 1..(L + 1)
       PROVE  P!LastOnes(From(GN, q), n) = From(GN, q + Begin(L - q + 1) - 1)
  <2>. HIDE DEF GN
  <2>. DEFINE v == From(GN, q)
  <2>1. v \in Seq(R) /\ Len(v) = L - q + 1
    BY <1>1, <1>12, FromFacts
  <2>2. Begin(Len(v)) \in 1..(Len(v) + 1) /\ P!LastOnes(v, n) = From(v, Begin(Len(v)))
    <3>. HIDE DEF v
    <3>. QED  BY <2>1, LastOnesFrom
  <2>. HIDE DEF Begin
  <2>3. From(v, Begin(Len(v))) = From(GN, q + Begin(Len(v)) - 1)
    BY <1>1, <1>12, <2>2, FromFrom
  <2>. QED  BY <2>1, <2>2, <2>3
<1>13. c \in 1..(L + 1)
  BY <1>8, <1>10
<1>14. c + Begin(L - c + 1) - 1 = b + Begin(L - b + 1) - 1
  <2>1. e = Begin(l - a + 1)
    BY <1>3
  <2>2. a \in Nat /\ b \in Nat /\ l \in Nat /\ L \in Nat /\ n \in Nat \ {0} /\ l < L
    BY <1>1, <1>2, <1>8
  <2>3. p = IF l - a + 1 <= n THEN a ELSE l - n + 1
    <3>. HIDE DEF l, L, W, GN
    <3>. QED  BY <1>3, <2>1, <2>2
  <2>. HIDE DEF p, l, L, W, GN, e
  <2>. QED  BY <1>9, <2>2, <2>3
<1>. HIDE DEF c, u, p, Begin
<1>15. P!LastOnes(From(GN, c), n) = P!LastOnes(From(GN, b), n)
  BY <1>8, <1>12, <1>13, <1>14
<1>. QED  BY <1>7, <1>11, <1>15 DEF u

\* The latest record that was given.
LEMMA LastOneStep ==
  ASSUME NEW R, NEW s \in Seq(R), NEW t \in Seq(R), t # <<>>
  PROVE  P!LastOnes(s \o t, 1) = <<P!Last(t)>>
<1>. DEFINE st == s \o t
            m == Len(st)
<1>1. /\ st \in Seq(R) /\ m = Len(s) + Len(t) /\ Len(s) \in Nat /\ Len(t) \in Nat /\ Len(t) # 0
      /\ \A i \in 1..(Len(s) + Len(t)) : st[i] = IF i <= Len(s) THEN s[i] ELSE t[i - Len(s)]
  BY ConcatProperties, ListFacts
<1>. HIDE DEF st
<1>2. m \in 1..m /\ m \in Nat /\ st[m] = t[Len(t)]
  <2>1. m \in 1..(Len(s) + Len(t)) /\ ~(m <= Len(s)) /\ m - Len(s) = Len(t)
    BY <1>1
  <2>. QED  BY <1>1, <2>1
<1>3. P!LastOnes(st, 1) = From(st, m)
  <2>. DEFINE a == IF m <= 1 THEN 1 ELSE m - 1 + 1
  <2>1. 1 \in Nat \ {0}
    OBVIOUS
  <2>2. P!LastOnes(st, 1) = From(st, a)
    BY <1>1, <2>1, LastOnesFrom
  <2>. HIDE DEF m
  <2>3. a = m
    BY <1>2
  <2>. QED  BY <2>2, <2>3
<1>4. /\ From(st, m) \in Seq(R) /\ Len(From(st, m)) = 1 /\ From(st, m)[1] = st[m]
  <2>1. m \in 1..(m + 1) /\ m - m + 1 = 1 /\ m + 1 - 1 = m /\ 1 \in 1..1
    BY <1>2
  <2>2. /\ From(st, m) \in Seq(R) /\ Len(From(st, m)) = m - m + 1
        /\ \A i \in 1..(m - m + 1) : From(st, m)[i] = st[m + i - 1]
    BY <1>1, <2>1, FromFacts
  <2>. QED  BY <2>1, <2>2
<1>5. From(st, m) = <<t[Len(t)]>>
  BY <1>2, <1>4
<1>. QED  BY <1>3, <1>5 DEF P!Last, st

\* The numbers of two lists.
LEMMA PointsJoin ==
  ASSUME NEW R, NEW s \in Seq(R), NEW t \in Seq(R)
  PROVE  /\ P!Points(s \o t) = P!Points(s) \o P!Points(t)
         /\ P!Points(s) \in Seq(R)
         /\ Rising(s) => Rising(P!Points(s))
<1>. DEFINE st == s \o t
            n == Len(s)
            m == Len(t)
            A == {i \in 1..n : P!IsNumber(s[i])}
            B == {i \in 1..m : P!IsNumber(t[i])}
            C == {i \in 1..(n + m) : P!IsNumber(st[i])}
<1>1. /\ st \in Seq(R) /\ Len(st) = n + m /\ n \in Nat /\ m \in Nat
      /\ \A i \in 1..(n + m) : st[i] = IF i <= n THEN s[i] ELSE t[i - n]
      /\ DOMAIN s = 1..n /\ DOMAIN t = 1..m /\ DOMAIN st = 1..(n + m)
  <2>1. st \in Seq(R) /\ Len(st) = n + m /\ n \in Nat /\ m \in Nat
      /\ \A i \in 1..(n + m) : st[i] = IF i <= n THEN s[i] ELSE t[i - n]
    BY ConcatProperties, ListFacts
  <2>. HIDE DEF st, n, m
  <2>2. DOMAIN s = 1..n /\ DOMAIN t = 1..m /\ DOMAIN st = 1..(n + m)
    BY <2>1, ListFacts DEF n, m
  <2>. QED  BY <2>1, <2>2
<1>. HIDE DEF st
<1>2. /\ P!Points(s) = Chosen(s, A) /\ P!Points(t) = Chosen(t, B) /\ P!Points(st) = Chosen(st, C)
  <2>1. /\ P!Points(s) = P!Chosen(s, A) /\ P!Points(t) = P!Chosen(t, B)
        /\ P!Points(st) = P!Chosen(st, C)
    BY <1>1 DEF P!Points
  <2>. HIDE DEF A, B, C
  <2>. QED  BY <2>1, SameOperators
<1>3. A \in SUBSET (1..n) /\ B \in SUBSET (1..m) /\ C \in SUBSET (1..(n + m))
  OBVIOUS
<1>4. /\ \A i \in 1..(n + m) : i \in C <=> IF i <= n THEN i \in A ELSE i - n \in B
  <2>1. \A i \in 1..(n + m) : IF i <= n THEN i \in 1..n /\ st[i] = s[i]
                                        ELSE i - n \in 1..m /\ st[i] = t[i - n]
    BY <1>1
  <2>. QED  BY <2>1
<1>5. \A i \in A : i \in 1..n
  OBVIOUS
<1>6. \A i \in B : i \in 1..m
  OBVIOUS
<1>. HIDE DEF A, B, C, n, m
<1>. DEFINE p == Cardinality(A)
            q == Cardinality(B)
            a == Ascending(A)
            b == Ascending(B)
            c == [k \in 1..(p + q) |-> IF k <= p THEN a[k] ELSE n + b[k - p]]
<1>7. p \in Nat /\ Enumerates(a, p, A) /\ q \in Nat /\ Enumerates(b, q, B)
  <2>1. A \in SUBSET Int /\ IsFiniteSet(A)
    BY <1>1, <1>5, IndicesAreFinite
  <2>2. B \in SUBSET Int /\ IsFiniteSet(B)
    BY <1>1, <1>6, IndicesAreFinite
  <2>. QED  BY <2>1, <2>2, AscendingEnumerates
<1>8. \A k \in 1..(p + q) : c[k] = IF k <= p THEN a[k] ELSE n + b[k - p]
  OBVIOUS
<1>9. c = [k \in 1..(p + q) |-> c[k]]
  OBVIOUS
<1>. HIDE DEF p, q, a, b, c
<1>10. /\ \A k \in 1..p : a[k] \in A /\ a[k] \in 1..n
       /\ \A k \in 1..q : b[k] \in B /\ b[k] \in 1..m
  BY <1>5, <1>6, <1>7 DEF Enumerates
<1>11. \A k \in 1..(p + q) :
         \/ k \in 1..p /\ c[k] = a[k] /\ c[k] \in 1..n
         \/ k - p \in 1..q /\ k > p /\ c[k] = n + b[k - p] /\ c[k] \in (n + 1)..(n + m)
  <2>1. SUFFICES ASSUME NEW k \in 1..(p + q)
                 PROVE  \/ k \in 1..p /\ c[k] = a[k] /\ c[k] \in 1..n
                        \/ /\ k - p \in 1..q /\ k > p /\ c[k] = n + b[k - p]
                           /\ c[k] \in (n + 1)..(n + m)
    OBVIOUS
  <2>2. CASE k <= p
    <3>1. k \in 1..p
      BY <1>7, <2>2
    <3>. QED  BY <1>8, <1>10, <2>2, <3>1
  <2>3. CASE ~(k <= p)
    <3>1. k - p \in 1..q /\ k > p
      BY <1>7, <2>3
    <3>2. b[k - p] \in 1..m
      BY <1>10, <3>1
    <3>3. n + b[k - p] \in (n + 1)..(n + m)
      BY <1>1, <3>2
    <3>. QED  BY <1>8, <2>3, <3>1, <3>3
  <2>. QED  BY <2>2, <2>3
<1>12. \A k \in 1..(p + q) : c[k] \in C
  <2>1. SUFFICES ASSUME NEW k \in 1..(p + q)
                 PROVE  c[k] \in C
    OBVIOUS
  <2>2. CASE k \in 1..p /\ c[k] = a[k] /\ c[k] \in 1..n
    <3>1. c[k] \in 1..(n + m) /\ c[k] <= n /\ c[k] \in A
      BY <1>1, <1>10, <2>2
    <3>. QED  BY <1>4, <3>1
  <2>3. CASE k - p \in 1..q /\ c[k] = n + b[k - p] /\ c[k] \in (n + 1)..(n + m)
    <3>1. b[k - p] \in B /\ b[k - p] \in 1..m
      BY <1>10, <2>3
    <3>2. c[k] \in 1..(n + m) /\ ~(c[k] <= n) /\ c[k] - n = b[k - p]
      BY SMTT(30), <1>1, <2>3, <3>1
    <3>. QED  BY <1>4, <3>1, <3>2
  <2>. QED  BY <1>11, <2>2, <2>3
<1>13. \A i, j \in 1..(p + q) : i < j => c[i] < c[j]
  <2>1. SUFFICES ASSUME NEW i \in 1..(p + q), NEW j \in 1..(p + q), i < j
                 PROVE  c[i] < c[j]
    OBVIOUS
  <2>2. CASE i \in 1..p /\ c[i] = a[i] /\ j \in 1..p /\ c[j] = a[j]
    BY <1>7, <2>1, <2>2 DEF Enumerates
  <2>3. CASE i \in 1..p /\ c[i] \in 1..n /\ c[j] \in (n + 1)..(n + m)
    BY <1>1, <2>3
  <2>4. CASE i - p \in 1..q /\ c[i] = n + b[i - p] /\ j - p \in 1..q /\ c[j] = n + b[j - p]
    <3>1. i - p < j - p
      BY <1>7, <2>1
    <3>2. b[i - p] < b[j - p] /\ b[i - p] \in 1..m /\ b[j - p] \in 1..m
      BY <1>7, <1>10, <2>4, <3>1 DEF Enumerates
    <3>. QED  BY <1>1, <2>4, <3>2
  <2>5. ~(i > p /\ j \in 1..p)
    BY <1>7, <2>1
  <2>. QED  BY <1>11, <2>2, <2>3, <2>4, <2>5
<1>14. \A x \in C : \E k \in 1..(p + q) : c[k] = x
  <2>1. SUFFICES ASSUME NEW x \in C
                 PROVE  \E k \in 1..(p + q) : c[k] = x
    OBVIOUS
  <2>2. x \in 1..(n + m) /\ (IF x <= n THEN x \in A ELSE x - n \in B)
    BY <1>3, <1>4
  <2>3. CASE x <= n
    <3>1. PICK k \in 1..p : a[k] = x
      BY <1>7, <2>2, <2>3 DEF Enumerates
    <3>2. k \in 1..(p + q) /\ k <= p
      BY <1>7, <3>1
    <3>. QED  BY <1>8, <3>1, <3>2
  <2>4. CASE ~(x <= n)
    <3>1. PICK k \in 1..q : b[k] = x - n
      BY <1>7, <2>2, <2>4 DEF Enumerates
    <3>2. p + k \in 1..(p + q) /\ ~(p + k <= p) /\ (p + k) - p = k
      BY <1>7, <3>1
    <3>3. c[p + k] = n + (x - n)
      BY <1>8, <3>1, <3>2
    <3>4. n + (x - n) = x
      BY <1>1, <2>2
    <3>. QED  BY <3>2, <3>3, <3>4
  <2>. QED  BY <2>3, <2>4
<1>15. Cardinality(C) = p + q /\ Ascending(C) = c
  <2>1. C \in SUBSET Int /\ p + q \in Nat
    BY <1>1, <1>3, <1>7
  <2>2. Enumerates(c, p + q, C)
    BY <1>9, <1>12, <1>13, <1>14 DEF Enumerates
  <2>. QED  BY <2>1, <2>2, OneEnumeration
<1>16. /\ Chosen(s, A) \in Seq(R) /\ Len(Chosen(s, A)) = p
       /\ \A k \in 1..p : Chosen(s, A)[k] = s[a[k]]
       /\ Rising(s) => Rising(Chosen(s, A))
  BY <1>3, ChosenInOrder DEF n, p, a
<1>17. /\ Chosen(t, B) \in Seq(R) /\ Len(Chosen(t, B)) = q
       /\ \A k \in 1..q : Chosen(t, B)[k] = t[b[k]]
  BY <1>3, ChosenInOrder DEF m, q, b
<1>18. /\ Chosen(st, C) \in Seq(R) /\ Len(Chosen(st, C)) = p + q
       /\ \A k \in 1..(p + q) : Chosen(st, C)[k] = st[c[k]]
  <2>1. C \in SUBSET (1..Len(st))
    BY <1>1, <1>3
  <2>. QED  BY SMTT(30), <1>1, <1>15, <2>1, ChosenInOrder
<1>. DEFINE x == Chosen(s, A)
            y == Chosen(t, B)
            z == Chosen(st, C)
<1>19. /\ x \o y \in Seq(R) /\ Len(x \o y) = p + q
       /\ \A k \in 1..(p + q) : (x \o y)[k] = IF k <= p THEN x[k] ELSE y[k - p]
  <2>1. x \in Seq(R) /\ Len(x) = p /\ y \in Seq(R) /\ Len(y) = q
    BY <1>16, <1>17
  <2>. HIDE DEF x, y, z
  <2>2. /\ x \o y \in Seq(R) /\ Len(x \o y) = Len(x) + Len(y)
        /\ \A k \in 1..(Len(x) + Len(y)) :
             (x \o y)[k] = IF k <= Len(x) THEN x[k] ELSE y[k - Len(x)]
    BY <2>1, ConcatProperties
  <2>. QED  BY <2>1, <2>2
<1>. HIDE DEF x, y, z
<1>20. ASSUME NEW k \in 1..(p + q)
       PROVE  z[k] = (x \o y)[k]
  <2>1. z[k] = st[c[k]]
    BY <1>18 DEF z
  <2>2. CASE k \in 1..p /\ c[k] = a[k] /\ c[k] \in 1..n
    <3>1. c[k] \in 1..(n + m) /\ c[k] <= n /\ k <= p
      BY <1>1, <1>7, <2>2
    <3>2. st[c[k]] = s[a[k]] /\ (x \o y)[k] = x[k] /\ x[k] = s[a[k]]
      BY <1>1, <1>16, <1>19, <2>2, <3>1 DEF x
    <3>. QED  BY <2>1, <3>2
  <2>3. CASE k - p \in 1..q /\ k > p /\ c[k] = n + b[k - p] /\ c[k] \in (n + 1)..(n + m)
    <3>1. n \in Nat /\ m \in Nat /\ b[k - p] \in 1..m
      BY <1>1, <1>10, <2>3
    <3>2. c[k] \in 1..(n + m) /\ ~(c[k] <= n) /\ c[k] - n = b[k - p]
      <4>1. c[k] = n + b[k - p]
        BY <2>3
      <4>. QED  BY <3>1, <4>1
    <3>3. p \in Nat /\ ~(k <= p)
      BY <1>7, <2>3
    <3>4. (x \o y)[k] = y[k - p]
      BY <1>19, <3>3
    <3>5. y[k - p] = t[b[k - p]]
      BY <1>17, <2>3 DEF y
    <3>6. st[c[k]] = t[b[k - p]]
      BY <1>1, <3>2
    <3>. QED  BY <2>1, <3>4, <3>5, <3>6
  <2>. QED  BY <1>11, <2>2, <2>3
<1>21. z = x \o y
  <2>1. z \in Seq(R) /\ Len(z) = p + q
    BY <1>18 DEF z
  <2>. QED  BY <1>19, <1>20, <2>1, SeqEqual
<1>. QED  BY <1>2, <1>16, <1>21 DEF x, y, z, st

-----------------------------------------------------------------------------
(***************************************************************************)
(* Lists whose records have the same times.                                *)
(***************************************************************************)
LEMMA TimesNews ==
  ASSUME NEW R, Timed(R), NEW s \in Seq(R), NEW t \in Seq(R), SameTimes(s, t)
  PROVE  /\ s = <<>> <=> t = <<>>
         /\ s # <<>> => Newest(s) = Newest(t)
         /\ \A ts : HasNews(s, ts) <=> HasNews(t, ts)
<1>1. /\ Len(s) \in Nat /\ (s = <<>> <=> Len(s) = 0) /\ (t = <<>> <=> Len(t) = 0)
      /\ Len(s) = Len(t) /\ \A i \in 1..Len(s) : s[i].ts = t[i].ts
      /\ s # <<>> => Len(s) \in 1..Len(s)
  BY ListFacts DEF SameTimes
<1>2. (s = <<>> <=> t = <<>>) /\ (s # <<>> => Newest(s) = Newest(t))
  BY <1>1 DEF Newest
<1>. QED  BY <1>2 DEF HasNews

LEMMA TimesLater ==
  ASSUME NEW R, Timed(R), NEW s \in Seq(R), NEW t \in Seq(R), SameTimes(s, t), NEW ts
  PROVE  SameTimes(LaterThan(s, ts), LaterThan(t, ts))
<1>1. HasNews(s, ts) <=> HasNews(t, ts)
  BY TimesNews
<1>2. CASE ~HasNews(s, ts)
  BY <1>1, <1>2 DEF LaterThan, SameTimes
<1>3. CASE HasNews(s, ts)
  <2>. DEFINE S == {i \in 1..Len(s) : s[i].ts > ts}
  <2>1. S = {i \in 1..Len(t) : t[i].ts > ts}
    BY DEF SameTimes
  <2>2. LaterThan(s, ts) = Chosen(s, S) /\ LaterThan(t, ts) = Chosen(t, S)
    BY <1>1, <1>3, <2>1 DEF LaterThan
  <2>3. S \in SUBSET (1..Len(s)) /\ S \in SUBSET (1..Len(t))
    BY <2>1
  <2>. HIDE DEF S
  <2>4. /\ Len(Chosen(s, S)) = Cardinality(S)
        /\ \A k \in 1..Len(Chosen(s, S)) : Ascending(S)[k] \in S /\ Chosen(s, S)[k] = s[Ascending(S)[k]]
    BY <2>3, ChosenInOrder
  <2>5. /\ Len(Chosen(t, S)) = Cardinality(S)
        /\ \A k \in 1..Len(Chosen(t, S)) : Chosen(t, S)[k] = t[Ascending(S)[k]]
    BY <2>3, ChosenInOrder
  <2>6. \A i \in S : s[i].ts = t[i].ts
    BY <2>3 DEF SameTimes
  <2>. QED  BY <2>2, <2>4, <2>5, <2>6 DEF SameTimes
<1>. QED  BY <1>2, <1>3

LEMMA TimesInitial ==
  ASSUME NEW R, Timed(R), NEW s \in Seq(R), NEW t \in Seq(R), SameTimes(s, t),
         NEW spec \in FieldSpec, NEW now
  PROVE  InitialTimestamp(s, spec, now) = InitialTimestamp(t, spec, now)
<1>1. (s = <<>> <=> t = <<>>) /\ (s # <<>> => Newest(s) = Newest(t)) /\ Len(s) = Len(t)
      /\ Len(s) \in Nat /\ \A i \in 1..Len(s) : s[i].ts = t[i].ts
  BY TimesNews, ListFacts DEF SameTimes
<1>2. CASE s = <<>>
  BY <1>1, <1>2 DEF InitialTimestamp
<1>3. CASE s # <<>>
  <2>. DEFINE old == TooOld(s, spec, now)
  <2>1. old = TooOld(t, spec, now) /\ \A i \in old : i \in 1..Len(s)
    <3>1. spec.back_records \in Nat
      BY DEF FieldSpec
    <3>2. \A i \in 1..(Len(s) - spec.back_records) : i \in 1..Len(s)
      BY <1>1, <3>1
    <3>. QED  BY <1>1, <3>2 DEF TooOld
  <2>2. CASE spec.seconds = 0
    BY <1>1, <1>3, <2>2 DEF InitialTimestamp
  <2>3. CASE spec.seconds = -1
    <3>1. InitialTimestamp(s, spec, now) = IF Len(s) > 1 THEN s[Len(s) - 1].ts ELSE 0
      BY <1>3, <2>3 DEF InitialTimestamp
    <3>2. InitialTimestamp(t, spec, now) = IF Len(t) > 1 THEN t[Len(t) - 1].ts ELSE 0
      BY <1>1, <1>3, <2>3 DEF InitialTimestamp
    <3>3. Len(s) > 1 => Len(s) - 1 \in 1..Len(s)
      BY <1>1
    <3>. QED  BY <1>1, <3>1, <3>2, <3>3
  <2>4. CASE spec.seconds # 0 /\ spec.seconds # -1
    <3>1. InitialTimestamp(s, spec, now)
            = IF old = {} THEN 0
              ELSE LET i == Greatest(old) IN IF i = 1 THEN Newest(s) ELSE s[i - 1].ts
      BY <1>3, <2>4 DEF InitialTimestamp
    <3>2. InitialTimestamp(t, spec, now)
            = IF old = {} THEN 0
              ELSE LET i == Greatest(old) IN IF i = 1 THEN Newest(t) ELSE t[i - 1].ts
      BY <1>1, <1>3, <2>1, <2>4 DEF InitialTimestamp
    <3>. HIDE DEF old
    <3>3. CASE old # {}
      <4>1. Greatest(old) \in 1..Len(s)
        <5>1. old \in SUBSET Int /\ IsFiniteSet(old)
          BY <1>1, <2>1, IndicesAreFinite
        <5>2. Greatest(old) \in old
          BY <3>3, <5>1, GreatestIsIn
        <5>. QED  BY <2>1, <5>2
      <4>2. Greatest(old) # 1 => Greatest(old) - 1 \in 1..Len(s)
        BY <1>1, <4>1
      <4>. QED  BY <1>1, <1>3, <3>1, <3>2, <4>2
    <3>. QED  BY <3>1, <3>2, <3>3
  <2>. QED  BY <2>2, <2>3, <2>4
<1>. QED  BY <1>2, <1>3

LEMMA TimesJoin ==
  ASSUME NEW R, NEW s \in Seq(R), NEW t \in Seq(R), NEW u \in Seq(R), NEW v \in Seq(R),
         SameTimes(s, t), SameTimes(u, v)
  PROVE  SameTimes(s \o u, t \o v)
<1>. DEFINE su == s \o u
            tv == t \o v
<1>1. /\ Len(su) = Len(s) + Len(u) /\ Len(s) \in Nat /\ Len(u) \in Nat
      /\ \A i \in 1..(Len(s) + Len(u)) : su[i] = IF i <= Len(s) THEN s[i] ELSE u[i - Len(s)]
  BY ConcatProperties, ListFacts
<1>2. /\ Len(tv) = Len(t) + Len(v)
      /\ \A i \in 1..(Len(t) + Len(v)) : tv[i] = IF i <= Len(t) THEN t[i] ELSE v[i - Len(t)]
  BY ConcatProperties
<1>. HIDE DEF su, tv
<1>3. Len(t) = Len(s) /\ Len(v) = Len(u)
  BY DEF SameTimes
<1>4. ASSUME NEW i \in 1..Len(su)
      PROVE  su[i].ts = tv[i].ts
  <2>1. (i <= Len(s) => i \in 1..Len(s)) /\ (~(i <= Len(s)) => i - Len(s) \in 1..Len(u))
    BY <1>1
  <2>. QED  BY <1>1, <1>2, <1>3, <2>1 DEF SameTimes
<1>. QED  BY <1>1, <1>2, <1>3, <1>4 DEF SameTimes, su, tv

-----------------------------------------------------------------------------
(***************************************************************************)
(* The pages of widgets: their data, and what they ask for.                *)
(***************************************************************************)
LEMMA PageConstants ==
  /\ Together \subseteq SUBSET PageField /\ MaxPoints \in Nat \ {0}
  /\ PageClockBound \in Nat /\ LossBound \in Nat /\ NONE \notin Nat /\ NONE \notin PageField
  /\ Pages \subseteq Seq(P!Widget)
BY PageAssumption DEF P!PageAssumption

LEMMA PageRecTimed ==
  /\ Timed(PageRec)
  /\ \A list \in Seq(PageRec) : \A i \in 1..Len(list) :
       list[i] \in PageRec /\ list[i].ts \in 1..PageClockBound /\ list[i].ts \in Nat
<1>1. \A r \in PageRec : r.ts \in 1..PageClockBound /\ r.ts \in Nat
  BY PageConstants DEF PageRec
<1>2. \A list \in Seq(PageRec) : \A i \in 1..Len(list) : list[i] \in PageRec
  BY ListFacts
<1>. QED  BY <1>1, <1>2 DEF Timed

LEMMA PageFacts ==
  ASSUME p_page \in Pages
  PROVE  /\ p_page \in Seq(P!Widget) /\ Len(p_page) \in Nat /\ DOMAIN p_page = 1..Len(p_page)
         /\ \A i \in DOMAIN p_page :
              /\ p_page[i].kind \in {"text", "append", "dial", "line", "d3_dial", "d3_line", "map"}
              /\ p_page[i].fields \in Seq(PageField)
              /\ DOMAIN p_page[i].fields = 1..Len(p_page[i].fields)
              /\ p_page[i].seconds \in Nat /\ p_page[i].back_records \in Nat
              /\ \A k \in DOMAIN p_page[i].fields :
                   p_page[i].fields[k] \in PageField /\ p_page[i].fields[k] \in P!PageFields
<1>1. p_page \in Seq(P!Widget)
  BY PageConstants
<1>2. Len(p_page) \in Nat /\ DOMAIN p_page = 1..Len(p_page)
      /\ \A i \in 1..Len(p_page) : p_page[i] \in P!Widget
  BY <1>1, ListFacts
<1>3. ASSUME NEW i \in DOMAIN p_page
      PROVE  /\ p_page[i].kind \in {"text", "append", "dial", "line", "d3_dial", "d3_line", "map"}
             /\ p_page[i].fields \in Seq(PageField)
             /\ p_page[i].seconds \in Nat /\ p_page[i].back_records \in Nat
  <2>1. p_page[i] \in P!Widget
    BY <1>2
  <2>. QED  BY <2>1 DEF P!Widget
<1>4. ASSUME NEW i \in DOMAIN p_page
      PROVE  /\ DOMAIN p_page[i].fields = 1..Len(p_page[i].fields)
             /\ \A k \in DOMAIN p_page[i].fields :
                  p_page[i].fields[k] \in PageField /\ p_page[i].fields[k] \in P!PageFields
  <2>1. DOMAIN p_page[i].fields = 1..Len(p_page[i].fields)
        /\ \A k \in DOMAIN p_page[i].fields : p_page[i].fields[k] \in PageField
    BY <1>3, ListFacts
  <2>2. \A k \in DOMAIN p_page[i].fields : i \in P!WidgetsOf(p_page[i].fields[k])
    BY DEF P!WidgetsOf, P!Range
  <2>. QED  BY <2>1, <2>2 DEF P!PageFields
<1>. QED  BY <1>1, <1>2, <1>3, <1>4

\* The greatest of the widgets' numbers is one of them.
LEMMA DataRequestTyped ==
  ASSUME p_page \in Pages
  PROVE  P!DataRequest \in [P!PageFields -> FieldSpec] /\ P!PageFields \subseteq PageField
<1>1. P!PageFields \subseteq PageField
  BY DEF P!PageFields
<1>2. ASSUME NEW S, S # {}, \A i \in S : i \in DOMAIN p_page,
             NEW g, \A i \in S : g[i] \in Int, g = [i \in S |-> g[i]]
      PROVE  \E i \in S : P!Greatest({g[j] : j \in S}) = g[i]
  <2>. DEFINE T == {g[j] : j \in S}
  <2>1. IsFiniteSet(S)
    <3>1. Len(p_page) \in Int /\ \A i \in S : i \in 1..Len(p_page)
      BY <1>2, PageFacts
    <3>. QED  BY <3>1, IndicesAreFinite
  <2>2. g \in Surjection(S, T)
    BY <1>2 DEF Surjection
  <2>3. T \in SUBSET Int /\ T # {}
    BY <1>2
  <2>4. \A x \in T : \E i \in S : x = g[i]
    OBVIOUS
  <2>. HIDE DEF T
  <2>5. Greatest(T) \in T
    BY <2>1, <2>2, <2>3, FS_Surjection, GreatestIsIn
  <2>. QED  BY <2>4, <2>5, SameOperators DEF T
<1>3. ASSUME NEW f \in P!PageFields
      PROVE  P!DataRequest[f] \in FieldSpec
  <2>. DEFINE S == P!WidgetsOf(f)
              asked == [i \in S |-> P!Asked(i)]
              back == [i \in S |-> p_page[i].back_records]
  <2>1. S # {} /\ \A i \in S : i \in DOMAIN p_page
    BY DEF P!PageFields, P!WidgetsOf
  <2>2. \A i \in S : asked[i] \in Nat \cup {-1} /\ asked[i] \in Int
    BY <2>1, PageFacts DEF P!Asked
  <2>3. \A i \in S : back[i] \in Nat /\ back[i] \in Int
    BY <2>1, PageFacts
  <2>4. {P!Asked(i) : i \in S} = {asked[i] : i \in S}
        /\ {p_page[i].back_records : i \in S} = {back[i] : i \in S}
    OBVIOUS
  <2>5. asked = [i \in S |-> asked[i]] /\ back = [i \in S |-> back[i]]
    OBVIOUS
  <2>6. P!DataRequest[f] = [seconds |-> P!Greatest({P!Asked(i) : i \in S}),
                            back_records |-> P!Greatest({p_page[i].back_records : i \in S})]
    BY DEF P!DataRequest
  <2>. HIDE DEF S, asked, back
  <2>7. P!Greatest({asked[i] : i \in S}) \in Nat \cup {-1}
    BY <1>2, <2>1, <2>2, <2>5
  <2>8. P!Greatest({back[i] : i \in S}) \in Nat
    BY <1>2, <2>1, <2>3, <2>5
  <2>. DEFINE a == P!Greatest({asked[i] : i \in S})
              b == P!Greatest({back[i] : i \in S})
  <2>9. P!DataRequest[f] = [seconds |-> a, back_records |-> b]
    BY <2>4, <2>6, Zenon
  <2>. HIDE DEF a, b
  <2>10. a \in Nat \cup {-1} /\ b \in Nat
    BY <2>7, <2>8 DEF a, b
  <2>. QED  BY <2>9, <2>10 DEF FieldSpec
<1>4. P!DataRequest = [f \in P!PageFields |-> P!DataRequest[f]]
  BY DEF P!DataRequest
<1>. QED  BY <1>1, <1>3, <1>4

\* The page stays what it is, and so does what it asks for.
LEMMA SamePage ==
  ASSUME p_page' = p_page
  PROVE  /\ P!DataRequest' = P!DataRequest /\ P!PageFields' = P!PageFields
         /\ PageRequests' = PageRequests
         /\ \A f, g : AlikeFields(f, g)' <=> AlikeFields(f, g)
         /\ \A i : P!Alike(i)' <=> P!Alike(i)
<1>1. \A f : P!WidgetsOf(f)' = P!WidgetsOf(f)
  BY DEF P!WidgetsOf
<1>2. \A i : P!Asked(i)' = P!Asked(i)
  BY DEF P!Asked
<1>3. P!PageFields' = P!PageFields
  BY <1>1 DEF P!PageFields
<1>4. P!DataRequest' = P!DataRequest
  BY DEF P!DataRequest, P!PageFields, P!WidgetsOf, P!Asked
<1>5. PageRequests' = PageRequests
  BY <1>4 DEF PageRequests
<1>6. \A f, g : AlikeFields(f, g)' <=> AlikeFields(f, g)
  BY <1>3, <1>4 DEF AlikeFields
<1>7. \A i : P!Alike(i)' <=> P!Alike(i)
  BY <1>4 DEF P!Alike
<1>. QED  BY <1>3, <1>4, <1>5, <1>6, <1>7

\* One message is under way at a time: here, one to the page.
LEMMA OneReply ==
  ASSUME PageFeedInv, p_replies # <<>>
  PROVE  LET data == Head(p_replies).data IN
         /\ p_link = "open" /\ ~p_threw /\ p_requests = <<>> /\ Len(p_replies) = 1
         /\ p_replies[1].data = data /\ Tail(p_replies) = <<>>
         /\ Head(p_replies) \in PageReplies
         /\ DOMAIN data \subseteq PageField
         /\ \A f \in DOMAIN data : PageListOK(data[f]) /\ data[f] # <<>>
         /\ \A f : P!New(data, f) = IF f \in DOMAIN data THEN data[f] ELSE <<>>
         /\ \A f : P!New(data, f) \in Seq(PageRec)
<1>1. /\ p_replies \in Seq(PageReplies) /\ p_requests \in Seq(PageRequests)
      /\ Len(p_replies) \in Nat /\ Len(p_requests) \in Nat
      /\ Len(p_replies) # 0 /\ (p_requests = <<>> <=> Len(p_requests) = 0)
  BY ListFacts DEF PageFeedInv
<1>2. p_link = "open"
  BY DEF PageFeedInv
<1>3. Len(p_requests) + Len(p_replies) = IF p_threw THEN 0 ELSE 1
  BY <1>2 DEF PageFeedInv
<1>4. ~p_threw /\ p_requests = <<>> /\ Len(p_replies) = 1
  BY <1>1, <1>3
<1>5. /\ Head(p_replies) = p_replies[1] /\ Head(p_replies) \in PageReplies
      /\ Tail(p_replies) \in Seq(PageReplies) /\ Len(Tail(p_replies)) = 0
  BY <1>1, <1>4, Dequeued
<1>6. Tail(p_replies) = <<>>
  BY <1>5, ListFacts
<1>. DEFINE r == p_replies[1]
<1>7. DOMAIN r.data \subseteq PageField
  <2>1. r \in PageReplies
    BY <1>5
  <2>. HIDE DEF r
  <2>2. PICK F \in SUBSET PageField : r.data \in [F -> Seq(PageRec)]
    BY <2>1 DEF PageReplies, PageData
  <2>. QED  BY <2>2
<1>8. \A f \in DOMAIN r.data : PageListOK(r.data[f]) /\ r.data[f] # <<>>
  BY <1>4 DEF PageFeedInv
<1>9. \A f : P!New(r.data, f) = IF f \in DOMAIN r.data THEN r.data[f] ELSE <<>>
  BY DEF P!New
<1>. HIDE DEF r
<1>10. \A f : P!New(r.data, f) \in Seq(PageRec)
  <2>1. <<>> \in Seq(PageRec)
    OBVIOUS
  <2>2. \A f \in DOMAIN r.data : r.data[f] \in Seq(PageRec)
    BY <1>8 DEF PageListOK
  <2>. QED  BY <1>9, <2>1, <2>2, Zenon
<1>. QED  BY <1>2, <1>4, <1>5, <1>6, <1>7, <1>8, <1>9, <1>10 DEF r

LEMMA OneRequest ==
  ASSUME PageFeedInv, p_requests # <<>>
  PROVE  /\ p_link = "open" /\ ~p_threw /\ p_replies = <<>> /\ Len(p_requests) = 1
         /\ p_requests[1] = Head(p_requests) /\ Tail(p_requests) = <<>>
         /\ Head(p_requests) \in PageRequests
         /\ Head(p_requests).type = "subscribe" => /\ Head(p_requests).fields = P!DataRequest
                                                   /\ \A f \in PageField : p_sent_ts[f] = NONE
<1>1. /\ p_replies \in Seq(PageReplies) /\ p_requests \in Seq(PageRequests)
      /\ Len(p_replies) \in Nat /\ Len(p_requests) \in Nat
      /\ Len(p_requests) # 0 /\ (p_replies = <<>> <=> Len(p_replies) = 0)
  BY ListFacts DEF PageFeedInv
<1>2. p_link = "open"
  BY DEF PageFeedInv
<1>3. Len(p_requests) + Len(p_replies) = IF p_threw THEN 0 ELSE 1
  BY <1>2 DEF PageFeedInv
<1>4. ~p_threw /\ p_replies = <<>> /\ Len(p_requests) = 1
  <2>1. ~p_threw
    BY <1>1, <1>3
  <2>2. Len(p_replies) = 0 /\ Len(p_requests) = 1
    <3>. DEFINE m == Len(p_requests)
                n == Len(p_replies)
    <3>1. m \in Nat /\ n \in Nat /\ m # 0 /\ m + n = 1
      BY <1>1, <1>3, <2>1
    <3>. HIDE DEF m, n
    <3>2. n = 0 /\ m = 1
      BY <3>1
    <3>. QED  BY <3>2 DEF m, n
  <2>. QED  BY <1>1, <2>1, <2>2
<1>5. /\ Head(p_requests) = p_requests[1] /\ Head(p_requests) \in PageRequests
      /\ Tail(p_requests) \in Seq(PageRequests) /\ Len(Tail(p_requests)) = 0
  BY <1>1, <1>4, Dequeued
<1>6. Tail(p_requests) = <<>>
  BY <1>5, ListFacts
<1>7. Head(p_requests).type = "subscribe" =>
        Head(p_requests).fields = P!DataRequest /\ \A f \in PageField : p_sent_ts[f] = NONE
  <2>1. Head(p_requests).type = "subscribe" => Head(p_requests).fields = P!DataRequest
    BY <1>5 DEF PageRequests, P!Ready
  <2>2. Head(p_requests).type = "subscribe" => \A f \in PageField : p_sent_ts[f] = NONE
    BY <1>4, <1>5 DEF PageFeedInv
  <2>. QED  BY <2>1, <2>2
<1>. QED  BY <1>2, <1>4, <1>5, <1>6, <1>7

\* What PageFeedInv takes after a step that keeps the cache and the page.
PageKept ==
  /\ p_clock \in 0..PageClockBound /\ p_losses \in 0..LossBound /\ p_page \in Pages
  /\ \A f \in PageField : PageListOK(p_cache[f])
  /\ UNCHANGED <<p_clock, p_losses, p_page, p_cache>>

LEMMA PageFeedFrom ==
  ASSUME PageKept, p_link' = "open", p_threw' \in BOOLEAN,
         p_sent_ts' \in [PageField -> 0..PageClockBound \cup {NONE}],
         p_requests' \in Seq(PageRequests'), p_replies' \in Seq(PageReplies),
         \A i \in 1..Len(p_replies') : \A f \in DOMAIN p_replies'[i].data :
           PageListOK(p_replies[i].data[f])' /\ p_replies'[i].data[f] # <<>>,
         Len(p_requests') + Len(p_replies') = IF p_threw' THEN 0 ELSE 1,
         \A i \in 1..Len(p_requests') : p_requests'[i].type = "subscribe" =>
           \A f \in PageField : p_sent_ts'[f] = NONE
  PROVE  PageFeedInv'
<1>1. (\A f \in PageField : PageListOK(p_cache[f]))'
  BY DEF PageKept, PageListOK
<1>. QED  BY <1>1 DEF PageFeedInv, PageKept

\* One message to the page, and none to the server.
PageReply(data) ==
  /\ DOMAIN data \subseteq PageField
  /\ data = [f \in DOMAIN data |-> data[f]]
  /\ \A f \in DOMAIN data : PageListOK(data[f]) /\ data[f] # <<>>

LEMMA PagePublishes ==
  ASSUME P!PublishesSomething
  PROVE  /\ UNCHANGED <<p_page, p_shown, p_threw, p_got>>
         /\ \E values : /\ P!Publishes(values)
                        /\ DOMAIN values \in Together \cup {{}}
                        /\ \A f \in DOMAIN values : values[f] \in PageField \cup {NONE}
<1>1. ASSUME NEW S \in Together, NEW values, values = [f \in S |-> f] \/ values = [f \in S |-> NONE]
      PROVE  /\ DOMAIN values \in Together \cup {{}}
             /\ \A f \in DOMAIN values : values[f] \in PageField \cup {NONE}
  <2>1. S \subseteq PageField
    BY PageConstants
  <2>. QED  BY <1>1, <2>1
<1>2. DOMAIN P!Nothing = {}
  BY DEF P!Nothing
<1>3. UNCHANGED <<p_page, p_shown, p_threw, p_got>>
  BY DEF P!PublishesSomething, P!pageVars
<1>4. CASE \E S \in Together : P!Publishes([f \in S |-> f]) \/ P!Publishes([f \in S |-> NONE])
  <2>1. PICK S \in Together : P!Publishes([f \in S |-> f]) \/ P!Publishes([f \in S |-> NONE])
    BY <1>4
  <2>. DEFINE a == [f \in S |-> f]
              b == [f \in S |-> NONE]
  <2>2. DOMAIN a \in Together \cup {{}} /\ \A f \in DOMAIN a : a[f] \in PageField \cup {NONE}
    BY <1>1
  <2>3. DOMAIN b \in Together \cup {{}} /\ \A f \in DOMAIN b : b[f] \in PageField \cup {NONE}
    BY <1>1
  <2>4. P!Publishes(a) \/ P!Publishes(b)
    BY <2>1
  <2>. HIDE DEF a, b
  <2>. QED  BY <1>3, <2>2, <2>3, <2>4, Zenon
<1>5. CASE P!Publishes(P!Nothing)
  BY <1>2, <1>3, <1>5, Zenon
<1>. QED  BY <1>4, <1>5, Zenon DEF P!PublishesSomething

LEMMA PagePublishKeepsFeed ==
  ASSUME PageFeedInv, NEW values, P!Publishes(values),
         \A f \in DOMAIN values : values[f] \in PageField \cup {NONE},
         UNCHANGED <<p_page, p_shown, p_threw, p_got>>
  PROVE  PageFeedInv'
<1>1. /\ p_clock \in Nat /\ p_clock' = p_clock + 1
      /\ p_clock' \in 0..PageClockBound /\ p_clock' \in 1..PageClockBound
      /\ UNCHANGED <<p_link, p_requests, p_replies, p_sent_ts, p_losses>>
  BY PageConstants DEF PageFeedInv, P!Publishes
<1>2. ASSUME NEW list, PageListOK(list)
      PROVE  list \in Seq(PageRec) /\ Rising(list) /\ UpTo(list, p_clock')
  <2>1. \A i \in 1..Len(list) : list[i].ts <= p_clock /\ list[i].ts \in Nat
    BY <1>2, PageRecTimed DEF PageListOK, UpTo
  <2>. QED  BY <1>1, <1>2, <2>1 DEF PageListOK, UpTo
<1>3. ASSUME NEW f \in PageField
      PROVE  p_cache'[f] \in Seq(PageRec) /\ Rising(p_cache'[f]) /\ UpTo(p_cache'[f], p_clock')
  <2>. DEFINE list == p_cache[f]
  <2>1. list \in Seq(PageRec) /\ Rising(list) /\ Len(list) \in Nat /\ PageListOK(list)
        /\ \A i \in 1..Len(list) : list[i].ts <= p_clock /\ list[i].ts \in Nat
    BY PageRecTimed, ListFacts DEF PageFeedInv, PageListOK, UpTo
  <2>2. CASE f \notin DOMAIN values
    <3>1. p_cache'[f] = list
      BY <2>2 DEF P!Publishes
    <3>. QED  BY <1>2, <2>1, <3>1
  <2>3. CASE f \in DOMAIN values
    <3>. DEFINE r == [ts |-> p_clock', val |-> values[f]]
    <3>1. p_cache'[f] = Append(list, r)
      BY <2>3 DEF P!Publishes
    <3>2. r \in PageRec
      BY <1>1, <2>3 DEF PageRec
    <3>. HIDE DEF list
    <3>3. r.ts = p_clock'
      OBVIOUS
    <3>. HIDE DEF r
    <3>4. \A i \in 1..Len(list) : list[i].ts < r.ts
      BY <1>1, <2>1, <3>3
    <3>5. Append(list, r) \in Seq(PageRec) /\ Rising(Append(list, r))
      BY <2>1, <3>2, <3>4, PageRecTimed, AppendRises
    <3>6. /\ Len(Append(list, r)) = Len(list) + 1
          /\ \A i \in 1..Len(Append(list, r)) :
               \/ i \in 1..Len(list) /\ Append(list, r)[i] = list[i]
               \/ i = Len(list) + 1 /\ Append(list, r)[i] = r
      BY <2>1, <3>2, Enqueued
    <3>7. UpTo(Append(list, r), p_clock')
      <4>1. SUFFICES ASSUME NEW i \in 1..Len(Append(list, r))
                     PROVE  Append(list, r)[i].ts <= p_clock'
        BY DEF UpTo
      <4>. QED  BY <1>1, <2>1, <3>3, <3>6
    <3>. QED  BY <3>1, <3>5, <3>7
  <2>. QED  BY <2>2, <2>3
<1>4. \A i \in 1..Len(p_replies') : \A f \in DOMAIN p_replies'[i].data :
        PageListOK(p_replies[i].data[f]) /\ p_replies[i].data[f] # <<>>
  BY <1>1 DEF PageFeedInv
<1>5. \A i \in 1..Len(p_replies') : \A f \in DOMAIN p_replies'[i].data :
        /\ p_replies'[i].data[f] \in Seq(PageRec) /\ Rising(p_replies'[i].data[f])
        /\ UpTo(p_replies'[i].data[f], p_clock') /\ p_replies'[i].data[f] # <<>>
  BY <1>1, <1>2, <1>4
<1>6. p_requests' \in Seq(PageRequests')
  BY <1>1, SamePage DEF PageFeedInv
<1>. QED  BY <1>1, <1>3, <1>5, <1>6 DEF PageFeedInv, PageListOK

LEMMA PageOpensKeepsFeed ==
  ASSUME PageFeedInv, P!Connects
  PROVE  PageFeedInv'
<1>1. /\ p_link = "closed" /\ p_link' = "open" /\ p_requests' = <<P!Subscribe(P!DataRequest)>>
      /\ UNCHANGED <<p_cache, p_clock, p_replies, p_sent_ts, p_losses, p_page>> /\ p_threw' = FALSE
  BY DEF P!Connects, P!Opens
<1>2. p_replies' = <<>> /\ Len(p_replies') = 0 /\ \A f \in PageField : p_sent_ts'[f] = NONE
  BY <1>1 DEF PageFeedInv
<1>3. p_requests' \in Seq(PageRequests')
  <2>1. P!Subscribe(P!DataRequest) \in PageRequests
    BY DEF P!Subscribe, PageRequests
  <2>2. <<P!Subscribe(P!DataRequest)>> \in Seq(PageRequests)
    BY <2>1
  <2>. QED  BY <1>1, <2>2, SamePage
<1>4. Len(p_requests') = 1
  BY <1>1
<1>5. PageKept /\ p_sent_ts' \in [PageField -> 0..PageClockBound \cup {NONE}]
      /\ p_replies' \in Seq(PageReplies) /\ p_threw' \in BOOLEAN
  BY <1>1 DEF PageFeedInv, PageKept
<1>6. Len(p_requests') + Len(p_replies') = IF p_threw' THEN 0 ELSE 1
  BY <1>1, <1>2, <1>4
<1>7. \A i \in 1..Len(p_replies') : \A f \in DOMAIN p_replies'[i].data :
        PageListOK(p_replies[i].data[f])' /\ p_replies'[i].data[f] # <<>>
  BY <1>2
<1>. QED  BY <1>1, <1>2, <1>3, <1>5, <1>6, <1>7, PageFeedFrom

LEMMA PageMessageKeepsFeed ==
  ASSUME PageFeedInv, P!OnMessage
  PROVE  /\ PageFeedInv' /\ p_replies # <<>> /\ p_replies' = <<>>
         /\ UNCHANGED <<p_cache, p_clock, p_link, p_sent_ts, p_losses, p_page>>
<1>1. /\ p_replies # <<>> /\ p_replies' = Tail(p_replies)
      /\ UNCHANGED <<p_cache, p_clock, p_link, p_sent_ts, p_losses, p_page>>
      /\ p_requests' = p_requests \o (IF p_threw' THEN <<>> ELSE <<P!Ready>>)
      /\ p_threw' \in BOOLEAN
  BY DEF P!OnMessage, P!Takes
<1>2. p_replies' = <<>> /\ p_requests = <<>> /\ p_link' = "open" /\ Len(p_replies') = 0
  BY <1>1, OneReply
<1>3. p_requests' = IF p_threw' THEN <<>> ELSE <<P!Ready>>
  <2>1. <<P!Ready>> \in Seq({P!Ready}) /\ <<>> \in Seq({P!Ready})
    OBVIOUS
  <2>. QED  BY <1>1, <1>2, <2>1, ConcatEmptySeq
<1>4. p_requests' \in Seq(PageRequests') /\ Len(p_requests') = IF p_threw' THEN 0 ELSE 1
  <2>1. P!Ready \in PageRequests
    BY DEF PageRequests
  <2>2. p_requests' \in Seq(PageRequests)
    BY <1>3, <2>1
  <2>3. Len(p_requests') = IF p_threw' THEN 0 ELSE 1
    BY <1>3
  <2>. QED  BY <1>1, <2>2, <2>3, SamePage
<1>5. \A i \in 1..Len(p_requests') : p_requests'[i].type # "subscribe"
  BY <1>3 DEF P!Ready
<1>6. PageKept /\ p_sent_ts' \in [PageField -> 0..PageClockBound \cup {NONE}]
  BY <1>1 DEF PageFeedInv, PageKept
<1>7. p_replies' \in Seq(PageReplies) /\ Len(p_requests') + Len(p_replies') = IF p_threw' THEN 0 ELSE 1
  <2>1. p_replies' \in Seq(PageReplies)
    BY <1>2
  <2>. QED  BY <1>2, <1>4, <2>1
<1>8. \A i \in 1..Len(p_replies') : \A f \in DOMAIN p_replies'[i].data :
        PageListOK(p_replies[i].data[f])' /\ p_replies'[i].data[f] # <<>>
  BY <1>2
<1>9. PageFeedInv'
  BY <1>1, <1>2, <1>4, <1>5, <1>6, <1>7, <1>8, PageFeedFrom
<1>. QED  BY <1>1, <1>2, <1>9

\* A reply with what has been sent.
LEMMA PageReplyKeepsFeed ==
  ASSUME PageFeedInv, NEW type \in {"subscribe", "data"}, NEW data, PageReply(data),
         p_requests # <<>>, p_requests' = Tail(p_requests),
         p_replies' = Append(p_replies, [type |-> type, data |-> data]),
         p_sent_ts' \in [PageField -> 0..PageClockBound \cup {NONE}],
         UNCHANGED <<p_cache, p_clock, p_link, p_losses, p_page, p_shown, p_threw, p_got>>
  PROVE  /\ PageFeedInv'
         /\ Len(p_replies') = 1 /\ p_replies'[1].data = data
<1>. DEFINE r == [type |-> type, data |-> data]
<1>1. /\ p_link' = "open" /\ ~p_threw' /\ p_requests' = <<>> /\ p_replies' = <<r>>
      /\ Len(p_replies') = 1 /\ p_replies'[1] = r /\ Len(p_requests') = 0
      /\ \A i \in 1..Len(p_replies') : p_replies'[i] = r
  BY OneRequest
<1>2. r \in PageReplies
  <2>1. data \in [DOMAIN data -> Seq(PageRec)]
    BY DEF PageReply, PageListOK
  <2>2. data \in PageData
    BY <2>1 DEF PageReply, PageData
  <2>. QED  BY <2>2 DEF PageReplies
<1>3. p_replies' \in Seq(PageReplies) /\ p_requests' \in Seq(PageRequests')
  <2>. HIDE DEF r
  <2>1. p_replies' \in Seq(PageReplies)
    <3>1. <<r>> \in Seq(PageReplies)
      BY <1>2
    <3>. QED  BY <1>1, <3>1
  <2>2. p_requests' \in Seq(PageRequests)
    <3>1. <<>> \in Seq(PageRequests)
      BY EmptySeq
    <3>. QED  BY <1>1, <3>1, Zenon
  <2>. QED  BY <2>1, <2>2, SamePage
<1>4. r.data = data
  OBVIOUS
<1>. HIDE DEF r
<1>5. \A i \in 1..Len(p_replies') : \A f \in DOMAIN p_replies'[i].data :
        PageListOK(p_replies[i].data[f])' /\ p_replies'[i].data[f] # <<>>
  BY <1>1, <1>4 DEF PageReply, PageListOK
<1>6. PageKept /\ p_threw' \in BOOLEAN
  BY DEF PageFeedInv, PageKept
<1>7. PageFeedInv'
  BY <1>1, <1>3, <1>5, <1>6, PageFeedFrom
<1>. QED  BY <1>1, <1>4, <1>7

LEMMA PageSubscribeKeepsFeed ==
  ASSUME PageFeedInv, P!HandleSubscribe, UNCHANGED <<p_page, p_shown, p_threw, p_got>>
  PROVE  /\ PageFeedInv'
         /\ UNCHANGED <<p_cache, p_link, p_losses>>
         /\ p_requests # <<>> /\ Head(p_requests).type = "subscribe"
         /\ Len(p_replies') = 1 /\ DOMAIN p_replies'[1].data = {}
         /\ \A f \in PageField :
              p_sent_ts'[f] = IF f \notin P!PageFields THEN NONE
                              ELSE InitialTimestamp(p_cache[f], P!DataRequest[f], p_clock)
<1>1. /\ p_requests # <<>> /\ p_requests' = Tail(p_requests) /\ Head(p_requests).type = "subscribe"
      /\ p_replies' = Append(p_replies, [type |-> "subscribe", data |-> P!Nothing])
      /\ UNCHANGED <<p_cache, p_clock, p_link, p_losses>>
      /\ p_sent_ts' = [f \in PageField |->
                         IF f \notin DOMAIN Head(p_requests).fields THEN NONE
                         ELSE P!InitialTimestamp(p_cache[f], Head(p_requests).fields[f], p_clock)]
  BY DEF P!HandleSubscribe, P!Receives, P!Sends
<1>2. Head(p_requests).fields = P!DataRequest
  BY <1>1, OneRequest
<1>3. DOMAIN P!DataRequest = P!PageFields
      /\ \A f \in P!PageFields : P!DataRequest[f] \in FieldSpec
  BY DataRequestTyped DEF PageFeedInv
<1>4. p_sent_ts' = [f \in PageField |->
                      IF f \notin P!PageFields THEN NONE
                      ELSE InitialTimestamp(p_cache[f], P!DataRequest[f], p_clock)]
  BY <1>1, <1>2, <1>3, SameOperators
<1>5. ASSUME NEW f \in PageField, f \in P!PageFields
      PROVE  InitialTimestamp(p_cache[f], P!DataRequest[f], p_clock) \in 0..PageClockBound
  <2>. DEFINE ts == InitialTimestamp(p_cache[f], P!DataRequest[f], p_clock)
  <2>1. p_cache[f] \in Seq(PageRec)
    BY DEF PageFeedInv, PageListOK
  <2>2. ts = 0 \/ \E i \in 1..Len(p_cache[f]) : ts = p_cache[f][i].ts
    BY <1>3, <1>5, <2>1, BeginsInList
  <2>. HIDE DEF ts
  <2>3. ts \in 0..PageClockBound
    BY <2>1, <2>2, PageRecTimed, PageConstants
  <2>. QED  BY <2>3 DEF ts
<1>6. p_sent_ts' \in [PageField -> 0..PageClockBound \cup {NONE}]
  BY <1>4, <1>5
<1>7. PageReply(P!Nothing) /\ DOMAIN P!Nothing = {}
  BY DEF P!Nothing, PageReply
<1>8. PageFeedInv' /\ Len(p_replies') = 1 /\ p_replies'[1].data = P!Nothing
  BY <1>1, <1>6, <1>7, PageReplyKeepsFeed
<1>. QED  BY <1>1, <1>4, <1>7, <1>8

\* What is sent of a field, and what becomes of its timestamp.
LEMMA PageSentOfField ==
  ASSUME PageFeedInv, NEW f \in PageField, p_sent_ts[f] # NONE, HasNews(p_cache[f], p_sent_ts[f])
  PROVE  LET later == LaterThan(p_cache[f], p_sent_ts[f]) IN
         /\ PageListOK(later) /\ later # <<>> /\ Newest(later) \in 0..PageClockBound
         /\ UpTo(later, Newest(later)) /\ Newest(later) > p_sent_ts[f]
         /\ Newest(later) = Newest(p_cache[f])
         /\ \A k \in 1..Len(later) : later[k].ts > p_sent_ts[f]
<1>1. Timed(PageRec) /\ p_cache[f] \in Seq(PageRec) /\ Rising(p_cache[f]) /\ UpTo(p_cache[f], p_clock)
  BY PageRecTimed DEF PageFeedInv, PageListOK
<1>2. p_sent_ts[f] \in Nat
  BY PageConstants DEF PageFeedInv
<1>. DEFINE later == LaterThan(p_cache[f], p_sent_ts[f])
<1>3. /\ later \in Seq(PageRec) /\ later # <<>> /\ Newest(later) = Newest(p_cache[f])
      /\ Rising(later)
      /\ \A k \in 1..Len(later) :
           later[k].ts > p_sent_ts[f] /\ \E i \in 1..Len(p_cache[f]) : later[k] = p_cache[f][i]
  BY <1>1, <1>2, LaterIsLater
<1>. HIDE DEF later
<1>4. UpTo(later, p_clock)
  BY <1>1, <1>3 DEF UpTo
<1>5. UpTo(later, Newest(later)) /\ Newest(later) \in Nat
  BY <1>1, <1>3, RisingToNewest
<1>6. Newest(later) \in 1..PageClockBound
  <2>1. Len(later) \in 1..Len(later)
    BY <1>3, ListFacts
  <2>. QED  BY <1>3, <2>1, PageRecTimed DEF Newest
<1>7. Newest(later) > p_sent_ts[f]
  BY <1>3 DEF HasNews
<1>. QED  BY <1>1, <1>3, <1>4, <1>5, <1>6, <1>7 DEF PageListOK, later

LEMMA PageReadyKeepsFeed ==
  ASSUME PageFeedInv, P!HandleReady, UNCHANGED <<p_page, p_shown, p_threw, p_got>>
  PROVE  /\ PageFeedInv'
         /\ UNCHANGED <<p_cache, p_link, p_losses>>
         /\ Len(p_replies') = 1
         /\ \A f \in PageField :
              LET data == p_replies'[1].data
                  news == p_sent_ts[f] # NONE /\ HasNews(p_cache[f], p_sent_ts[f])
              IN /\ f \in DOMAIN data <=> news
                 /\ news => data[f] = LaterThan(p_cache[f], p_sent_ts[f])
                 /\ p_sent_ts'[f] = IF news THEN Newest(data[f]) ELSE p_sent_ts[f]
<1>. DEFINE new == {f \in PageField : p_sent_ts[f] # NONE /\ HasNews(p_cache[f], p_sent_ts[f])}
            data == [f \in new |-> LaterThan(p_cache[f], p_sent_ts[f])]
<1>1. /\ p_requests # <<>> /\ p_requests' = Tail(p_requests)
      /\ p_sent_ts' = [f \in PageField |-> IF f \in new THEN Newest(data[f]) ELSE p_sent_ts[f]]
      /\ p_replies' = Append(p_replies, [type |-> "data", data |-> data])
      /\ UNCHANGED <<p_cache, p_clock, p_link, p_losses>>
  <2>. DEFINE pnew == {f \in PageField : p_sent_ts[f] # NONE /\ P!HasNews(p_cache[f], p_sent_ts[f])}
              pdata == [f \in pnew |-> P!LaterThan(p_cache[f], p_sent_ts[f])]
  <2>1. /\ p_requests # <<>> /\ p_requests' = Tail(p_requests)
        /\ p_sent_ts' = [f \in PageField |-> IF f \in pnew THEN P!Newest(pdata[f]) ELSE p_sent_ts[f]]
        /\ p_replies' = Append(p_replies, [type |-> "data", data |-> pdata])
        /\ UNCHANGED <<p_cache, p_clock, p_link, p_losses>>
    BY DEF P!HandleReady, P!Receives, P!Sends
  <2>2. pnew = new
    BY SameOperators
  <2>3. pdata = data
    <3>. HIDE DEF pnew, new
    <3>. QED  BY <2>2, SameOperators
  <2>. HIDE DEF pnew, new, pdata, data
  <2>. QED  BY <2>1, <2>2, <2>3, SameOperators
<1>2. ASSUME NEW f \in new
      PROVE  PageListOK(data[f]) /\ data[f] # <<>> /\ Newest(data[f]) \in 0..PageClockBound
  BY PageSentOfField
<1>3. DOMAIN data = new /\ data = [f \in DOMAIN data |-> data[f]] /\ new \subseteq PageField
      /\ \A f \in new : data[f] = LaterThan(p_cache[f], p_sent_ts[f])
  OBVIOUS
<1>4. \A f \in PageField : f \in new <=> p_sent_ts[f] # NONE /\ HasNews(p_cache[f], p_sent_ts[f])
  OBVIOUS
<1>. HIDE DEF new, data
<1>5. PageReply(data)
  BY <1>2, <1>3 DEF PageReply
<1>6. p_sent_ts' \in [PageField -> 0..PageClockBound \cup {NONE}]
  BY <1>1, <1>2 DEF PageFeedInv
<1>7. PageFeedInv' /\ Len(p_replies') = 1 /\ p_replies'[1].data = data
  BY <1>1, <1>5, <1>6, PageReplyKeepsFeed
<1>. QED  BY <1>1, <1>3, <1>4, <1>7

LEMMA PageLossKeepsFeed ==
  ASSUME PageFeedInv, P!Loses, UNCHANGED <<p_page, p_shown, p_threw, p_got>>
  PROVE  /\ PageFeedInv' /\ p_losses' # 0 /\ p_replies' = <<>> /\ Len(p_replies') = 0
         /\ \A f \in PageField : p_sent_ts'[f] = NONE
         /\ p_cache' = p_cache \/ \A f \in PageField : p_cache'[f] = <<>>
<1>1. /\ p_link' = "closed" /\ p_requests' = <<>> /\ p_replies' = <<>> /\ Len(p_replies') = 0
      /\ \A f \in PageField : p_sent_ts'[f] = NONE
      /\ p_sent_ts' \in [PageField -> 0..PageClockBound \cup {NONE}]
      /\ p_requests' \in Seq(PageRequests') /\ p_replies' \in Seq(PageReplies)
      /\ Len(p_requests') = 0 /\ p_clock' = p_clock
  BY DEF P!Loses
<1>2. p_losses' \in 0..LossBound /\ p_losses' # 0
  BY PageConstants DEF P!Loses, PageFeedInv
<1>3. p_cache' = p_cache \/ \A f \in PageField : p_cache'[f] = <<>>
  BY DEF P!Loses
<1>4. ASSUME NEW f \in PageField
      PROVE  PageListOK(p_cache[f])'
  <2>1. <<>> \in Seq(PageRec) /\ Rising(<<>>) /\ UpTo(<<>>, p_clock)
    BY DEF Rising, UpTo
  <2>. QED  BY <1>1, <1>3, <2>1 DEF PageFeedInv, PageListOK
<1>. QED  BY <1>1, <1>2, <1>3, <1>4 DEF PageFeedInv

-----------------------------------------------------------------------------
(***************************************************************************)
(* What the page has been given.                                           *)
(***************************************************************************)
LEMMA GivenRises ==
  ASSUME PageFeedInv, ShownInv, GivenInv, p_replies # <<>>, NEW f \in PageField
  PROVE  LET new == P!New(Head(p_replies).data, f) IN
         /\ p_got[f] \in Seq(PageRec) /\ new \in Seq(PageRec)
         /\ p_got[f] \o new \in Seq(PageRec)
         /\ Rising(p_got[f]) /\ Rising(new) /\ Rising(p_got[f] \o new)
         /\ p_sent_ts[f] = NONE => p_got[f] \o new = <<>>
         /\ p_sent_ts[f] # NONE => UpTo(p_got[f] \o new, p_sent_ts[f])
<1>. DEFINE data == Head(p_replies).data
            new == P!New(data, f)
            got == p_got[f]
<1>1. /\ Len(p_replies) = 1 /\ p_replies[1].data = data
      /\ new = IF f \in DOMAIN data THEN data[f] ELSE <<>>
      /\ new \in Seq(PageRec) /\ got \in Seq(PageRec)
      /\ f \in DOMAIN data => PageListOK(data[f])
  BY OneReply DEF ShownInv
<1>. HIDE DEF data
<1>2. /\ Rising(got)
      /\ f \in DOMAIN data =>
           Precedes(got, data[f]) /\ p_sent_ts[f] # NONE /\ UpTo(data[f], p_sent_ts[f])
      /\ p_sent_ts[f] = NONE => got = <<>>
      /\ p_sent_ts[f] # NONE => UpTo(got, p_sent_ts[f])
  <2>1. 1 \in 1..Len(p_replies)
    BY <1>1
  <2>. QED  BY <1>1, <2>1 DEF GivenInv
<1>3. Rising(new) /\ Precedes(got, new)
  BY <1>1, <1>2 DEF PageListOK, Rising, Precedes
<1>. HIDE DEF new, got
<1>4. Rising(got \o new) /\ got \o new \in Seq(PageRec)
  BY <1>1, <1>2, <1>3, PageRecTimed, JoinRises, ConcatProperties
<1>5. p_sent_ts[f] = NONE => got \o new = <<>>
  <2>1. SUFFICES ASSUME p_sent_ts[f] = NONE
                 PROVE  got \o new = <<>>
    OBVIOUS
  <2>2. got = <<>> /\ new = <<>>
    BY <1>1, <1>2, <2>1
  <2>. QED  BY <1>1, <2>2, ConcatEmptySeq
<1>6. p_sent_ts[f] # NONE => UpTo(got \o new, p_sent_ts[f])
  <2>1. SUFFICES ASSUME p_sent_ts[f] # NONE, NEW i \in 1..Len(got \o new)
                 PROVE  (got \o new)[i].ts <= p_sent_ts[f]
    BY DEF UpTo
  <2>2. \/ i \in 1..Len(got) /\ (got \o new)[i] = got[i]
        \/ i - Len(got) \in 1..Len(new) /\ (got \o new)[i] = new[i - Len(got)]
    BY <1>1, Queued
  <2>3. new = <<>> \/ UpTo(new, p_sent_ts[f])
    BY <1>1, <1>2
  <2>4. UpTo(new, p_sent_ts[f])
    BY <2>3 DEF UpTo
  <2>. QED  BY <1>2, <2>1, <2>2, <2>4 DEF UpTo
<1>. QED  BY <1>1, <1>2, <1>3, <1>4, <1>5, <1>6 DEF got, new, data

LEMMA MessageKeepsGiven ==
  ASSUME PageFeedInv, ShownInv, GivenInv, P!OnMessage
  PROVE  GivenInv'
<1>1. /\ p_replies # <<>> /\ p_replies' = <<>> /\ Len(p_replies') = 0 /\ UNCHANGED p_sent_ts
      /\ \A f \in PageField : p_got'[f] = p_got[f] \o P!New(Head(p_replies).data, f)
  BY PageMessageKeepsFeed DEF P!OnMessage
<1>2. ASSUME NEW f \in PageField
      PROVE  /\ Rising(p_got'[f])
             /\ p_sent_ts'[f] = NONE => p_got'[f] = <<>>
             /\ p_sent_ts'[f] # NONE => UpTo(p_got'[f], p_sent_ts'[f])
  BY <1>1, GivenRises
<1>. QED  BY <1>1, <1>2 DEF GivenInv

LEMMA SubscribeKeepsGiven ==
  ASSUME PageFeedInv, ShownInv, GivenInv, P!HandleSubscribe,
         UNCHANGED <<p_page, p_shown, p_threw, p_got>>
  PROVE  GivenInv'
<1>1. /\ Len(p_replies') = 1 /\ DOMAIN p_replies'[1].data = {}
      /\ \A f \in PageField : p_sent_ts[f] = NONE
  BY PageSubscribeKeepsFeed, OneRequest
<1>2. \A f \in PageField : p_got'[f] = <<>> /\ Len(p_got'[f]) = 0
  BY <1>1 DEF GivenInv
<1>3. \A i \in 1..Len(p_replies') : i = 1
  BY <1>1
<1>. QED  BY <1>1, <1>2, <1>3 DEF GivenInv, Rising, UpTo

LEMMA ReadyKeepsGiven ==
  ASSUME PageFeedInv, ShownInv, GivenInv, P!HandleReady,
         UNCHANGED <<p_page, p_shown, p_threw, p_got>>
  PROVE  GivenInv'
<1>. DEFINE data == p_replies'[1].data
<1>1. /\ Len(p_replies') = 1 /\ \A i \in 1..Len(p_replies') : i = 1
      /\ \A f \in PageField :
           LET news == p_sent_ts[f] # NONE /\ HasNews(p_cache[f], p_sent_ts[f])
           IN /\ f \in DOMAIN data <=> news
              /\ news => data[f] = LaterThan(p_cache[f], p_sent_ts[f])
              /\ p_sent_ts'[f] = IF news THEN Newest(data[f]) ELSE p_sent_ts[f]
  BY SMTT(30), PageReadyKeepsFeed
<1>. HIDE DEF data
<1>2. ASSUME NEW f \in PageField
      PROVE  /\ Rising(p_got'[f])
             /\ f \in DOMAIN data => /\ Precedes(p_got'[f], data[f])
                                     /\ p_sent_ts'[f] # NONE /\ UpTo(data[f], p_sent_ts'[f])
             /\ p_sent_ts'[f] = NONE => p_got'[f] = <<>>
             /\ p_sent_ts'[f] # NONE => UpTo(p_got'[f], p_sent_ts'[f])
  <2>1. /\ p_got' = p_got /\ Rising(p_got[f])
        /\ p_sent_ts[f] = NONE => p_got[f] = <<>>
        /\ p_sent_ts[f] # NONE => UpTo(p_got[f], p_sent_ts[f])
    BY DEF GivenInv
  <2>2. CASE ~(p_sent_ts[f] # NONE /\ HasNews(p_cache[f], p_sent_ts[f]))
    <3>1. f \notin DOMAIN data /\ p_sent_ts'[f] = p_sent_ts[f]
      BY <1>1, <2>2
    <3>. QED  BY <2>1, <3>1
  <2>3. CASE p_sent_ts[f] # NONE /\ HasNews(p_cache[f], p_sent_ts[f])
    <3>. DEFINE was == p_sent_ts[f]
                is == p_sent_ts'[f]
                later == data[f]
                got == p_got[f]
    <3>1. /\ PageListOK(later) /\ UpTo(later, is) /\ is > was /\ is \in 0..PageClockBound
          /\ \A k \in 1..Len(later) : later[k].ts > was
      BY <1>1, <2>3, PageSentOfField
    <3>2. was \in Nat /\ is \in Nat /\ is # NONE
      <4>1. p_sent_ts[f] \in 0..PageClockBound /\ PageClockBound \in Nat /\ NONE \notin Nat
        BY <2>3, PageConstants DEF PageFeedInv
      <4>2. is \in Nat
        BY <3>1, <4>1
      <4>. QED  BY <4>1, <4>2
    <3>3. /\ got \in Seq(PageRec) /\ \A a \in 1..Len(got) : got[a].ts \in Nat /\ got[a].ts <= was
      BY <2>1, <2>3, PageRecTimed DEF ShownInv, UpTo
    <3>4. \A k \in 1..Len(later) : later[k].ts \in Nat
      BY <3>1, PageRecTimed DEF PageListOK
    <3>. HIDE DEF was, is, later, got
    <3>5. Precedes(got, later) /\ UpTo(got, is)
      BY <3>1, <3>2, <3>3, <3>4 DEF Precedes, UpTo
    <3>. QED  BY <1>1, <2>1, <3>1, <3>2, <3>5 DEF was, is, later, got
  <2>. QED  BY <2>2, <2>3
<1>3. \A i \in 1..Len(p_replies') : p_replies'[i].data = data
  BY <1>1 DEF data
<1>. QED  BY <1>2, <1>3 DEF GivenInv

-----------------------------------------------------------------------------
(***************************************************************************)
(* Fields that come in the same records and are asked for alike.           *)
(***************************************************************************)
LEMMA PublishingKeepsAlike ==
  ASSUME PageFeedInv, AlikeInv, NEW values, P!Publishes(values),
         DOMAIN values \in Together \cup {{}}, UNCHANGED <<p_page, p_shown, p_threw, p_got>>
  PROVE  AlikeInv'
<1>1. UNCHANGED <<p_replies, p_sent_ts>>
      /\ p_cache' = [f \in PageField |-> IF f \notin DOMAIN values THEN p_cache[f]
                       ELSE Append(p_cache[f], [ts |-> p_clock', val |-> values[f]])]
  BY DEF P!Publishes
<1>2. ASSUME NEW f \in PageField, NEW g \in PageField, AlikeFields(f, g)
      PROVE  SameTimes(p_cache'[f], p_cache'[g])
  <2>1. SameTimes(p_cache[f], p_cache[g])
    BY <1>2 DEF AlikeInv
  <2>2. f \in DOMAIN values <=> g \in DOMAIN values
    BY <1>2 DEF AlikeFields
  <2>3. CASE f \notin DOMAIN values
    BY <1>1, <2>1, <2>2, <2>3
  <2>4. CASE f \in DOMAIN values
    <3>. DEFINE x == [ts |-> p_clock', val |-> values[f]]
                y == [ts |-> p_clock', val |-> values[g]]
                s == p_cache[f]
                t == p_cache[g]
    <3>1. p_cache'[f] = Append(s, x) /\ p_cache'[g] = Append(t, y) /\ x.ts = y.ts
      BY <1>1, <2>2, <2>4
    <3>2. s \in Seq(PageRec) /\ t \in Seq(PageRec)
      BY DEF PageFeedInv, PageListOK
    <3>. HIDE DEF x, y, s, t
    <3>3. s \in Seq(PageRec \cup {x, y}) /\ t \in Seq(PageRec \cup {x, y})
          /\ x \in PageRec \cup {x, y} /\ y \in PageRec \cup {x, y}
      BY <3>2, SeqMonotonic
    <3>. HIDE <3>2
    <3>4. /\ Len(Append(s, x)) = Len(s) + 1
          /\ \A i \in 1..Len(Append(s, x)) :
               (i \in 1..Len(s) /\ Append(s, x)[i] = s[i]) \/ (i = Len(s) + 1 /\ Append(s, x)[i] = x)
      BY <3>3, Enqueued
    <3>5. /\ Len(Append(t, y)) = Len(t) + 1 /\ Len(t) \in Nat
          /\ \A i \in 1..Len(Append(t, y)) :
               (i \in 1..Len(t) /\ Append(t, y)[i] = t[i]) \/ (i = Len(t) + 1 /\ Append(t, y)[i] = y)
      BY <3>3, Enqueued, ListFacts
    <3>6. Len(s) = Len(t) /\ \A i \in 1..Len(s) : s[i].ts = t[i].ts
      BY <2>1 DEF SameTimes, s, t
    <3>7. \A i \in 1..Len(t) : i # Len(t) + 1
      BY <3>5
    <3>8. SameTimes(Append(s, x), Append(t, y))
      BY <3>1, <3>4, <3>5, <3>6, <3>7 DEF SameTimes
    <3>. QED  BY <3>1, <3>8
  <2>. QED  BY <2>3, <2>4
<1>. QED  BY <1>1, <1>2, SamePage DEF AlikeInv

LEMMA SubscribeKeepsAlike ==
  ASSUME PageFeedInv, AlikeInv, P!HandleSubscribe, UNCHANGED <<p_page, p_shown, p_threw, p_got>>
  PROVE  AlikeInv'
<1>1. /\ UNCHANGED p_cache /\ \A i \in 1..Len(p_replies') : DOMAIN p_replies'[i].data = {}
      /\ \A f \in PageField :
           p_sent_ts'[f] = IF f \notin P!PageFields THEN NONE
                           ELSE InitialTimestamp(p_cache[f], P!DataRequest[f], p_clock)
  <2>1. Len(p_replies') = 1 /\ DOMAIN p_replies'[1].data = {}
    BY PageSubscribeKeepsFeed
  <2>2. \A i \in 1..Len(p_replies') : i = 1
    BY <2>1
  <2>. QED  BY <2>1, <2>2, PageSubscribeKeepsFeed
<1>2. ASSUME NEW f \in PageField, NEW g \in PageField, AlikeFields(f, g)
      PROVE  SameTimes(p_cache[f], p_cache[g]) /\ p_sent_ts'[f] = p_sent_ts'[g]
  <2>1. SameTimes(p_cache[f], p_cache[g])
    BY <1>2 DEF AlikeInv
  <2>2. /\ f \in P!PageFields /\ g \in P!PageFields
        /\ P!DataRequest[f] = P!DataRequest[g] /\ P!DataRequest[f] \in FieldSpec
    BY <1>2, DataRequestTyped DEF AlikeFields, PageFeedInv
  <2>3. p_cache[f] \in Seq(PageRec) /\ p_cache[g] \in Seq(PageRec)
    BY DEF PageFeedInv, PageListOK
  <2>4. InitialTimestamp(p_cache[f], P!DataRequest[f], p_clock)
          = InitialTimestamp(p_cache[g], P!DataRequest[f], p_clock)
    BY <2>1, <2>2, <2>3, PageRecTimed, TimesInitial
  <2>. QED  BY <1>1, <2>1, <2>2, <2>4
<1>. QED  BY <1>1, <1>2, SamePage DEF AlikeInv

LEMMA ReadyKeepsAlike ==
  ASSUME PageFeedInv, AlikeInv, P!HandleReady, UNCHANGED <<p_page, p_shown, p_threw, p_got>>
  PROVE  AlikeInv'
<1>. DEFINE data == p_replies'[1].data
            News(f) == p_sent_ts[f] # NONE /\ HasNews(p_cache[f], p_sent_ts[f])
<1>1. /\ UNCHANGED p_cache /\ Len(p_replies') = 1
      /\ \A f \in PageField :
           /\ f \in DOMAIN data <=> News(f)
           /\ News(f) => data[f] = LaterThan(p_cache[f], p_sent_ts[f])
           /\ p_sent_ts'[f] = IF News(f) THEN Newest(data[f]) ELSE p_sent_ts[f]
  BY PageReadyKeepsFeed
<1>2. \A i \in 1..Len(p_replies') : p_replies'[i].data = data
  <2>1. \A i \in 1..Len(p_replies') : i = 1
    BY <1>1
  <2>. QED  BY <2>1
<1>. HIDE DEF data
<1>3. ASSUME NEW f \in PageField, NEW g \in PageField, AlikeFields(f, g)
      PROVE  /\ SameTimes(p_cache[f], p_cache[g]) /\ p_sent_ts'[f] = p_sent_ts'[g]
             /\ f \in DOMAIN data <=> g \in DOMAIN data
             /\ f \in DOMAIN data => SameTimes(data[f], data[g])
  <2>1. SameTimes(p_cache[f], p_cache[g]) /\ p_sent_ts[f] = p_sent_ts[g]
    BY <1>3 DEF AlikeInv
  <2>2. p_cache[f] \in Seq(PageRec) /\ p_cache[g] \in Seq(PageRec)
    BY DEF PageFeedInv, PageListOK
  <2>3. News(f) <=> News(g)
    BY <2>1, <2>2, PageRecTimed, TimesNews
  <2>4. SameTimes(LaterThan(p_cache[f], p_sent_ts[f]), LaterThan(p_cache[g], p_sent_ts[f]))
    BY <2>1, <2>2, PageRecTimed, TimesLater
  <2>5. News(f) => SameTimes(data[f], data[g])
    BY <1>1, <2>1, <2>3, <2>4
  <2>6. News(f) => Newest(data[f]) = Newest(data[g])
    <3>1. SUFFICES ASSUME News(f)
                   PROVE  Newest(data[f]) = Newest(data[g])
      OBVIOUS
    <3>2. /\ PageListOK(data[f]) /\ data[f] # <<>> /\ PageListOK(data[g])
      BY <1>1, <2>3, <3>1, PageSentOfField
    <3>. QED  BY <2>5, <3>1, <3>2, PageRecTimed, TimesNews DEF PageListOK
  <2>. HIDE DEF News
  <2>. QED  BY <1>1, <2>1, <2>3, <2>5, <2>6
<1>. QED  BY <1>1, <1>2, <1>3, SamePage DEF AlikeInv

\* Of the other steps.
LEMMA OthersKeepAlike ==
  ASSUME AlikeInv, p_page' = p_page, \A i \in 1..Len(p_replies') : p_replies'[i] = p_replies[i],
         p_replies' = p_replies \/ Len(p_replies') = 0,
         p_sent_ts' = p_sent_ts \/ \A f \in PageField : p_sent_ts'[f] = NONE,
         p_cache' = p_cache \/ \A f \in PageField : p_cache'[f] = <<>>
  PROVE  AlikeInv'
<1>1. SameTimes(<<>>, <<>>)
  BY DEF SameTimes
<1>2. ASSUME NEW f \in PageField, NEW g \in PageField, AlikeFields(f, g)
      PROVE  SameTimes(p_cache'[f], p_cache'[g]) /\ p_sent_ts'[f] = p_sent_ts'[g]
  BY <1>1, <1>2 DEF AlikeInv
<1>3. ASSUME NEW f \in PageField, NEW g \in PageField, AlikeFields(f, g), NEW i \in 1..Len(p_replies')
      PROVE  /\ f \in DOMAIN p_replies'[i].data <=> g \in DOMAIN p_replies'[i].data
             /\ f \in DOMAIN p_replies'[i].data => SameTimes(p_replies'[i].data[f], p_replies'[i].data[g])
  <2>1. p_replies' = p_replies
    OBVIOUS
  <2>. QED  BY <1>3, <2>1 DEF AlikeInv
<1>. QED  BY <1>2, <1>3, SamePage DEF AlikeInv

-----------------------------------------------------------------------------
(***************************************************************************)
(* What the widgets show.                                                  *)
(***************************************************************************)
LEMMA MessageShows ==
  ASSUME PageFeedInv, ShownInv, P!OnMessage
  PROVE  LET data == Head(p_replies).data IN
         /\ DOMAIN p_shown' = DOMAIN p_page
         /\ \A i \in DOMAIN p_page :
              /\ DOMAIN p_shown'[i] = DOMAIN p_page[i].fields
              /\ \A k \in DOMAIN p_page[i].fields :
                   p_shown'[i][k] = IF P!Reached(i, k, data) THEN P!ShownAfter(i, k, data) ELSE p_shown[i][k]
         /\ p_got' \in [PageField -> Seq(PageRec)]
         /\ \A f \in PageField : p_got'[f] = p_got[f] \o P!New(data, f)
         /\ ~p_threw' => \A i, k : P!Reached(i, k, data)
<1>. DEFINE data == Head(p_replies).data
<1>1. /\ p_shown' = [i \in DOMAIN p_page |-> [k \in DOMAIN p_page[i].fields |->
                       IF P!Reached(i, k, data) THEN P!ShownAfter(i, k, data) ELSE p_shown[i][k]]]
      /\ p_threw' = \E i \in DOMAIN p_page : \E k \in DOMAIN p_page[i].fields : P!Throws(i, k, data)
      /\ p_got' = [f \in PageField |-> p_got[f] \o P!New(data, f)]
      /\ p_replies # <<>>
  BY DEF P!OnMessage
<1>2. \A f : P!New(data, f) \in Seq(PageRec)
  BY <1>1, OneReply
<1>3. \A f \in PageField : p_got[f] \o P!New(data, f) \in Seq(PageRec)
  BY <1>2, ConcatProperties DEF ShownInv
<1>4. ~p_threw' => \A i, k : P!Reached(i, k, data)
  BY <1>1 DEF P!Reached
<1>. HIDE DEF data
<1>. QED  BY <1>1, <1>3, <1>4 DEF data

\* A widget with no Highcharts timeline before it sees every message.
LEMMA SparedIsReached ==
  ASSUME PageFeedInv, ShownInv, P!OnMessage, NEW i \in DOMAIN p_page, p_page[i].kind # "line",
         P!Spared(i)'
  PROVE  P!Spared(i) /\ \A k : P!Reached(i, k, Head(p_replies).data)
<1>1. /\ p_page' = p_page /\ p_losses' = p_losses /\ ~p_threw
      /\ ~p_threw' => \A k : P!Reached(i, k, Head(p_replies).data)
  BY PageMessageKeepsFeed, MessageShows, OneReply
<1>2. CASE p_losses' = 0 /\ ~p_threw'
  BY <1>1, <1>2 DEF P!Spared
<1>3. CASE \A j \in 1..(i - 1) : p_page[j].kind # "line"
  <2>1. ASSUME NEW k, NEW j \in DOMAIN p_page, NEW m, P!Throws(j, m, Head(p_replies).data),
               j < i \/ (j = i /\ m <= k)
        PROVE  FALSE
    <3>1. p_page[j].kind = "line"
      BY <2>1 DEF P!Throws
    <3>2. j \in 1..Len(p_page) /\ i \in 1..Len(p_page) /\ Len(p_page) \in Nat
      BY PageFacts DEF PageFeedInv
    <3>3. j \notin 1..(i - 1) /\ j # i
      BY <1>3, <3>1
    <3>. QED  BY <2>1, <3>2, <3>3
  <2>2. \A k : P!Reached(i, k, Head(p_replies).data)
    BY <2>1 DEF P!Reached
  <2>. QED  BY <1>3, <2>2 DEF P!Spared
<1>. QED  BY <1>1, <1>2, <1>3 DEF P!Spared

LEMMA MessageKeepsShown ==
  ASSUME PageFeedInv, ShownInv, P!OnMessage
  PROVE  ShownInv'
<1>. DEFINE data == Head(p_replies).data
<1>1. /\ DOMAIN p_shown' = DOMAIN p_page /\ p_page' = p_page
      /\ \A i \in DOMAIN p_page :
           /\ DOMAIN p_shown'[i] = DOMAIN p_page[i].fields
           /\ \A k \in DOMAIN p_page[i].fields :
                p_shown'[i][k] = IF P!Reached(i, k, data) THEN P!ShownAfter(i, k, data) ELSE p_shown[i][k]
      /\ p_got' \in [PageField -> Seq(PageRec)]
  BY MessageShows, PageMessageKeepsFeed
<1>2. \A f : P!New(data, f) \in Seq(PageRec)
  BY PageMessageKeepsFeed, OneReply
<1>. HIDE DEF data
<1>3. ASSUME NEW i \in DOMAIN p_page, NEW k \in DOMAIN p_page[i].fields, p_page[i].kind = "map"
      PROVE  p_shown'[i][k] \in Seq(PageRec)
  <2>1. p_shown[i][k] \in Seq(PageRec)
    BY <1>3 DEF ShownInv
  <2>2. P!ShownAfter(i, k, data) = p_shown[i][k] \o P!New(data, p_page[i].fields[k])
    BY <1>3 DEF P!ShownAfter
  <2>3. P!ShownAfter(i, k, data) \in Seq(PageRec)
    BY <1>2, <2>1, <2>2, ConcatProperties
  <2>. QED  BY <1>1, <2>1, <2>3
<1>4. ASSUME NEW i \in DOMAIN p_page, NEW k \in DOMAIN p_page[i].fields,
             p_page[i].kind \in {"text", "dial", "d3_dial"}
      PROVE  Len(p_shown'[i][k]) <= 1
  <2>1. Len(p_shown[i][k]) <= 1 /\ \A r : Len(<<r>>) <= 1
    <3>1. \A r : Len(<<r>>) <= 1
      OBVIOUS
    <3>. QED  BY <1>4, <3>1 DEF ShownInv
  <2>2. CASE p_page[i].kind \in {"text", "dial"}
    <3>1. P!ShownAfter(i, k, data) = P!Replaced(p_shown[i][k], P!New(data, p_page[i].fields[k]))
      BY <2>2 DEF P!ShownAfter
    <3>2. P!ShownAfter(i, k, data) = p_shown[i][k] \/ \E r : P!ShownAfter(i, k, data) = <<r>>
      BY <3>1 DEF P!Replaced
    <3>3. p_shown'[i][k] = p_shown[i][k] \/ \E r : p_shown'[i][k] = <<r>>
      BY <1>1, <3>2
    <3>. QED  BY <2>1, <3>3, Zenon
  <2>3. CASE p_page[i].kind = "d3_dial"
    <3>1. P!ShownAfter(i, k, data) = P!Pointed(i, k, data)
      BY <2>3 DEF P!ShownAfter
    <3>2. P!Pointed(i, k, data) = p_shown[i][k] \/ \E r : P!Pointed(i, k, data) = <<r>>
      BY DEF P!Pointed
    <3>3. p_shown'[i][k] = p_shown[i][k] \/ \E r : p_shown'[i][k] = <<r>>
      BY <1>1, <3>1, <3>2
    <3>. QED  BY <2>1, <3>3, Zenon
  <2>. QED  BY <1>4, <2>2, <2>3
<1>. QED  BY <1>1, <1>3, <1>4 DEF ShownInv

\* The fields of a widget that are alike come together or not at all.
LEMMA AlikeComeTogether ==
  ASSUME PageFeedInv, AlikeInv, p_replies # <<>>, NEW i \in DOMAIN p_page, P!Alike(i),
         NEW k \in DOMAIN p_page[i].fields, NEW m \in DOMAIN p_page[i].fields
  PROVE  LET data == Head(p_replies).data
             f    == p_page[i].fields[k]
             g    == p_page[i].fields[m]
         IN /\ f \in DOMAIN data <=> g \in DOMAIN data
            /\ SameTimes(P!New(data, f), P!New(data, g))
<1>. DEFINE data == Head(p_replies).data
            f    == p_page[i].fields[k]
            g    == p_page[i].fields[m]
<1>1. /\ Len(p_replies) = 1 /\ p_replies[1].data = data
      /\ P!New(data, f) = IF f \in DOMAIN data THEN data[f] ELSE <<>>
      /\ P!New(data, g) = IF g \in DOMAIN data THEN data[g] ELSE <<>>
  BY OneReply
<1>2. f \in PageField /\ g \in PageField /\ f \in P!PageFields /\ g \in P!PageFields
  BY PageFacts DEF PageFeedInv
<1>3. f \in P!Range(p_page[i].fields) /\ g \in P!Range(p_page[i].fields)
  BY DEF P!Range
<1>. HIDE DEF f, g
<1>4. AlikeFields(f, g)
  BY <1>2, <1>3 DEF P!Alike, AlikeFields
<1>5. 1 \in 1..Len(p_replies)
  BY <1>1
<1>6. /\ f \in DOMAIN data <=> g \in DOMAIN data
      /\ f \in DOMAIN data => SameTimes(data[f], data[g])
  BY <1>1, <1>2, <1>4, <1>5 DEF AlikeInv
<1>7. SameTimes(<<>>, <<>>)
  BY DEF SameTimes
<1>. HIDE DEF data
<1>. QED  BY <1>1, <1>6, <1>7 DEF data, f, g

\* What the k-th pointer of such a dial of D3 shows is of the k-th field.
LEMMA PointedAlike ==
  ASSUME PageFeedInv, AlikeInv, p_replies # <<>>, NEW i \in DOMAIN p_page, P!Alike(i),
         NEW k \in DOMAIN p_page[i].fields
  PROVE  LET data == Head(p_replies).data
             new  == P!New(data, p_page[i].fields[k])
         IN P!Pointed(i, k, data) = P!Replaced(p_shown[i][k], new)
<1>. DEFINE data   == Head(p_replies).data
            fields == p_page[i].fields
            come   == {m \in DOMAIN fields : fields[m] \in DOMAIN data}
            n      == Len(fields)
<1>1. /\ DOMAIN fields = 1..n /\ n \in Nat /\ k \in 1..n
      /\ P!New(data, fields[k]) = IF fields[k] \in DOMAIN data THEN data[fields[k]] ELSE <<>>
      /\ fields[k] \in DOMAIN data => data[fields[k]] # <<>>
  BY PageFacts, OneReply, ListFacts DEF PageFeedInv
<1>2. \A m \in DOMAIN fields : fields[m] \in DOMAIN data <=> fields[k] \in DOMAIN data
  BY AlikeComeTogether
<1>3. P!Pointed(i, k, data) = IF k <= Cardinality(come) THEN <<P!Last(data[fields[Ascending(come)[k]]])>>
                              ELSE p_shown[i][k]
  <2>1. P!Pointed(i, k, data) = IF k <= P!Cardinality(come)
                                THEN <<P!Last(data[fields[P!Ascending(come)[k]]])>> ELSE p_shown[i][k]
    BY DEF P!Pointed
  <2>2. P!Cardinality(come) = Cardinality(come) /\ P!Ascending(come) = Ascending(come)
    <3>1. P!Cardinality(come) = Cardinality(come)
      BY SameCardinality, Zenon
    <3>2. P!Ascending(come) = Ascending(come)
      BY SameAscending
    <3>. QED  BY <3>1, <3>2
  <2>. HIDE DEF come
  <2>. QED  BY <2>1, <2>2
<1>4. CASE fields[k] \in DOMAIN data
  <2>1. come = 1..n
    BY <1>1, <1>2, <1>4
  <2>. HIDE DEF come, n, fields, data
  <2>2. Cardinality(1..n) = n /\ Ascending(1..n)[k] = k
    <3>1. 1 \in Nat /\ 1 <= n + 1 /\ n - 1 + 1 = n /\ 1 + k - 1 = k
      BY <1>1
    <3>. QED  BY <1>1, <3>1, AscendingInterval
  <2>3. k <= n
    BY <1>1
  <2>. QED  BY <1>1, <1>3, <1>4, <2>1, <2>2, <2>3 DEF P!Replaced, fields, data
<1>5. CASE fields[k] \notin DOMAIN data
  <2>1. come = {}
    BY <1>2, <1>5
  <2>. HIDE DEF come, n, fields, data
  <2>2. Cardinality({}) = 0
    BY FS_EmptySet
  <2>3. ~(k <= 0)
    BY <1>1
  <2>. QED  BY <1>1, <1>3, <1>5, <2>1, <2>2, <2>3 DEF P!Replaced, fields, data
<1>. QED  BY <1>4, <1>5

LEMMA MessageKeepsLatest ==
  ASSUME PageFeedInv, ShownInv, AlikeInv, P!LatestShown, P!OnMessage
  PROVE  P!LatestShown'
<1>. DEFINE data == Head(p_replies).data
<1>1. /\ p_page' = p_page /\ p_replies # <<>> /\ \A i : P!Alike(i)' <=> P!Alike(i)
      /\ P!Of({"text", "dial", "d3_dial"})' = P!Of({"text", "dial", "d3_dial"})
      /\ P!Of({"text", "dial", "d3_dial"}) = {i \in DOMAIN p_page : p_page[i].kind \in {"text", "dial", "d3_dial"}}
  <2>1. p_page' = p_page /\ p_replies # <<>>
    BY PageMessageKeepsFeed
  <2>. QED  BY <2>1, SamePage DEF P!Of
<1>2. ASSUME NEW i \in DOMAIN p_page, p_page[i].kind \in {"text", "dial", "d3_dial"}, P!Spared(i)',
             p_page[i].kind = "d3_dial" => P!Alike(i), NEW k \in DOMAIN p_page[i].fields
      PROVE  p_shown'[i][k] = P!LastOnes(p_got'[p_page[i].fields[k]], 1)
  <2>. DEFINE f   == p_page[i].fields[k]
              new == P!New(data, f)
              got == p_got[f]
              old == p_shown[i][k]
  <2>1. P!Spared(i) /\ P!Reached(i, k, data)
    BY <1>2, SparedIsReached
  <2>2. old = P!LastOnes(got, 1)
    BY <1>1, <1>2, <2>1 DEF P!LatestShown
  <2>3. f \in PageField
    BY PageFacts DEF PageFeedInv
  <2>4. p_shown'[i][k] = P!ShownAfter(i, k, data) /\ p_got'[f] = got \o new
    BY <2>1, <2>3, MessageShows
  <2>5. P!ShownAfter(i, k, data) = P!Replaced(old, new)
    <3>1. CASE p_page[i].kind \in {"text", "dial"}
      BY <3>1 DEF P!ShownAfter
    <3>2. CASE p_page[i].kind = "d3_dial"
      <4>1. P!ShownAfter(i, k, data) = P!Pointed(i, k, data)
        BY <3>2 DEF P!ShownAfter
      <4>. QED  BY <1>1, <1>2, <3>2, <4>1, PointedAlike
    <3>. QED  BY <1>2, <3>1, <3>2
  <2>6. got \in Seq(PageRec) /\ new \in Seq(PageRec)
    BY <1>1, <2>3, OneReply DEF ShownInv
  <2>. HIDE DEF f, new, got, old
  <2>7. P!Replaced(old, new) = P!LastOnes(got \o new, 1)
    <3>1. CASE new = <<>>
      <4>1. got \o new = got
        BY <2>6, <3>1, ConcatEmptySeq
      <4>. QED  BY <2>2, <3>1, <4>1 DEF P!Replaced
    <3>2. CASE new # <<>>
      BY <2>6, <3>2, LastOneStep DEF P!Replaced
    <3>. QED  BY <3>1, <3>2
  <2>. QED  BY <2>4, <2>5, <2>7 DEF f
<1>. HIDE DEF data
<1>. QED  BY <1>1, <1>2 DEF P!LatestShown

LEMMA MessageKeepsTimelines ==
  ASSUME PageFeedInv, ShownInv, p_losses = 0 => GivenInv, P!TimelineExact, P!OnMessage
  PROVE  P!TimelineExact'
<1>. DEFINE data == Head(p_replies).data
<1>1. /\ p_page' = p_page /\ p_losses' = p_losses /\ p_replies # <<>> /\ ~p_threw
      /\ P!Of({"line"})' = P!Of({"line"}) /\ P!Of({"d3_line"})' = P!Of({"d3_line"})
      /\ P!Of({"line"}) = {i \in DOMAIN p_page : p_page[i].kind = "line"}
      /\ P!Of({"d3_line"}) = {i \in DOMAIN p_page : p_page[i].kind = "d3_line"}
  <2>1. p_page' = p_page /\ p_losses' = p_losses /\ p_replies # <<>> /\ ~p_threw
    BY PageMessageKeepsFeed, OneReply
  <2>. QED  BY <2>1 DEF P!Of
<1>2. SUFFICES ASSUME p_losses' = 0, ~p_threw'
               PROVE  /\ \A i \in P!Of({"line"}) : \A k \in DOMAIN p_page[i].fields :
                           p_shown'[i][k] = P!Within(P!Points(p_got'[p_page[i].fields[k]]), p_page[i].seconds)
                      /\ \A i \in P!Of({"d3_line"}) : \A k \in DOMAIN p_page[i].fields :
                           p_shown'[i][k] = P!LastOnes(P!Within(p_got'[p_page[i].fields[k]], p_page[i].seconds),
                                                       MaxPoints)
  BY <1>1 DEF P!TimelineExact
<1>3. GivenInv
  BY SMTT(30), <1>1, <1>2
<1>4. ASSUME NEW i \in DOMAIN p_page, NEW k \in DOMAIN p_page[i].fields
      PROVE  LET f == p_page[i].fields[k] IN
             /\ f \in PageField /\ p_page[i].seconds \in Nat
             /\ p_shown'[i][k] = P!ShownAfter(i, k, data) /\ p_got'[f] = p_got[f] \o P!New(data, f)
             /\ p_got[f] \in Seq(PageRec) /\ P!New(data, f) \in Seq(PageRec)
             /\ Rising(p_got[f]) /\ Rising(p_got[f] \o P!New(data, f))
             /\ P!New(data, f) = <<>> => p_got[f] \o P!New(data, f) = p_got[f]
  <2>. DEFINE f == p_page[i].fields[k]
              new == P!New(data, f)
  <2>1. f \in PageField /\ p_page[i].seconds \in Nat
    BY PageFacts DEF PageFeedInv
  <2>2. p_shown'[i][k] = P!ShownAfter(i, k, data) /\ p_got'[f] = p_got[f] \o new
    BY <1>2, <2>1, MessageShows
  <2>3. /\ p_got[f] \in Seq(PageRec) /\ new \in Seq(PageRec)
        /\ Rising(p_got[f]) /\ Rising(p_got[f] \o new)
    BY <1>1, <1>3, <2>1, GivenRises
  <2>. HIDE DEF f, new
  <2>4. new = <<>> => p_got[f] \o new = p_got[f]
    BY <2>3, ConcatEmptySeq
  <2>. QED  BY <2>1, <2>2, <2>3, <2>4 DEF f, new
<1>5. ASSUME NEW i \in DOMAIN p_page, NEW k \in DOMAIN p_page[i].fields, p_page[i].kind = "line"
      PROVE  p_shown'[i][k] = P!Within(P!Points(p_got'[p_page[i].fields[k]]), p_page[i].seconds)
  <2>. DEFINE f   == p_page[i].fields[k]
              new == P!New(data, f)
              got == p_got[f]
              old == p_shown[i][k]
              s   == p_page[i].seconds
  <2>1. /\ s \in Nat /\ p_shown'[i][k] = P!ShownAfter(i, k, data) /\ p_got'[f] = got \o new
        /\ got \in Seq(PageRec) /\ new \in Seq(PageRec) /\ Rising(got) /\ Rising(got \o new)
        /\ new = <<>> => got \o new = got
    BY <1>4
  <2>2. old = P!Within(P!Points(got), s)
    BY <1>1, <1>2, <1>5 DEF P!TimelineExact
  <2>3. P!ShownAfter(i, k, data) = IF new = <<>> THEN old ELSE P!Trimmed(old \o P!Points(new), s)
    BY <1>5 DEF P!ShownAfter, P!Plotted
  <2>. HIDE DEF f, new, got, old, s
  <2>4. /\ P!Points(got \o new) = P!Points(got) \o P!Points(new)
        /\ P!Points(got) \in Seq(PageRec) /\ Rising(P!Points(got))
    BY <2>1, PointsJoin
  <2>5. P!Points(new) \in Seq(PageRec)
    BY <2>1, PointsJoin
  <2>6. Rising(P!Points(got \o new))
    <3>. DEFINE all == got \o new
    <3>1. all \in Seq(PageRec) /\ Rising(all)
      BY <2>1, ConcatProperties
    <3>. HIDE DEF all
    <3>2. Rising(P!Points(all))
      BY <3>1, PointsJoin
    <3>. QED  BY <3>2 DEF all
  <2>7. P!Trimmed(old \o P!Points(new), s) = P!Within(P!Points(got \o new), s)
    BY <2>1, <2>2, <2>4, <2>5, <2>6, PageRecTimed, LineStep
  <2>. QED  BY <2>1, <2>2, <2>3, <2>7 DEF f, s
<1>6. ASSUME NEW i \in DOMAIN p_page, NEW k \in DOMAIN p_page[i].fields, p_page[i].kind = "d3_line"
      PROVE  p_shown'[i][k] = P!LastOnes(P!Within(p_got'[p_page[i].fields[k]], p_page[i].seconds), MaxPoints)
  <2>. DEFINE f   == p_page[i].fields[k]
              new == P!New(data, f)
              got == p_got[f]
              old == p_shown[i][k]
              s   == p_page[i].seconds
  <2>1. /\ s \in Nat /\ p_shown'[i][k] = P!ShownAfter(i, k, data) /\ p_got'[f] = got \o new
        /\ got \in Seq(PageRec) /\ new \in Seq(PageRec) /\ Rising(got) /\ Rising(got \o new)
        /\ new = <<>> => got \o new = got
    BY <1>4
  <2>2. old = P!LastOnes(P!Within(got, s), MaxPoints)
    BY <1>1, <1>2, <1>6 DEF P!TimelineExact
  <2>3. P!ShownAfter(i, k, data) = IF new = <<>> THEN old ELSE P!LastOnes(P!Trimmed(old \o new, s), MaxPoints)
    BY <1>6 DEF P!ShownAfter
  <2>. HIDE DEF f, new, got, old, s
  <2>4. new # <<>> => P!LastOnes(P!Trimmed(old \o new, s), MaxPoints)
                        = P!LastOnes(P!Within(got \o new, s), MaxPoints)
    BY <2>1, <2>2, PageRecTimed, PageConstants, LastLineStep
  <2>. QED  BY <2>1, <2>2, <2>3, <2>4 DEF f, s
<1>. QED  BY <1>1, <1>5, <1>6

LEMMA MessageKeepsMaps ==
  ASSUME PageFeedInv, ShownInv, AlikeInv, MapsInv, P!OnMessage
  PROVE  MapsInv'
<1>. DEFINE data == Head(p_replies).data
<1>1. /\ p_page' = p_page /\ p_replies # <<>> /\ \A i : P!Alike(i)' <=> P!Alike(i)
      /\ P!Of({"map"})' = P!Of({"map"})
      /\ P!Of({"map"}) = {i \in DOMAIN p_page : p_page[i].kind = "map"}
  <2>1. p_page' = p_page /\ p_replies # <<>>
    BY PageMessageKeepsFeed
  <2>. QED  BY <2>1, SamePage DEF P!Of
<1>2. ASSUME NEW i \in DOMAIN p_page, p_page[i].kind = "map", P!Alike(i),
             NEW k \in DOMAIN p_page[i].fields, NEW m \in DOMAIN p_page[i].fields
      PROVE  SameTimes(p_shown'[i][k], p_shown'[i][m])
  <2>. DEFINE f == p_page[i].fields[k]
              g == p_page[i].fields[m]
              s == p_shown[i][k]
              t == p_shown[i][m]
              u == P!New(data, f)
              v == P!New(data, g)
  <2>1. SameTimes(s, t)
    BY <1>1, <1>2 DEF MapsInv
  <2>2. SameTimes(u, v)
    BY <1>1, <1>2, AlikeComeTogether
  <2>3. P!ShownAfter(i, k, data) = s \o u /\ P!ShownAfter(i, m, data) = t \o v
    BY <1>2 DEF P!ShownAfter
  <2>4. s \in Seq(PageRec) /\ t \in Seq(PageRec) /\ u \in Seq(PageRec) /\ v \in Seq(PageRec)
    <3>1. s \in Seq(PageRec) /\ t \in Seq(PageRec)
      BY <1>2 DEF ShownInv
    <3>2. u \in Seq(PageRec) /\ v \in Seq(PageRec)
      BY <1>1, OneReply
    <3>. QED  BY <3>1, <3>2
  <2>5. /\ p_shown'[i][k] = IF P!Reached(i, k, data) THEN s \o u ELSE s
        /\ p_shown'[i][m] = IF P!Reached(i, m, data) THEN t \o v ELSE t
    BY <2>3, MessageShows
  <2>6. P!Reached(i, k, data) <=> P!Reached(i, m, data)
    <3>1. \A n : P!Reached(i, n, data) <=>
            ~ \E j \in DOMAIN p_page : \E q \in DOMAIN p_page[j].fields : P!Throws(j, q, data) /\ j < i
      <4>1. \A q : ~P!Throws(i, q, data)
        BY <1>2 DEF P!Throws
      <4>. HIDE DEF data
      <4>. QED  BY <4>1 DEF P!Reached
    <3>. QED  BY <3>1
  <2>. HIDE DEF f, g, s, t, u, v, data
  <2>7. SameTimes(s \o u, t \o v)
    BY <2>1, <2>2, <2>4, TimesJoin
  <2>. QED  BY <2>1, <2>5, <2>6, <2>7
<1>. HIDE DEF data
<1>. QED  BY <1>1, <1>2 DEF MapsInv

\* The other steps.
LEMMA OthersKeepShown ==
  ASSUME ShownInv, P!LatestShown, P!TimelineExact, MapsInv, UNCHANGED <<p_page, p_shown, p_got>>,
         p_losses' = 0 /\ ~p_threw' => p_losses = 0 /\ ~p_threw
  PROVE  ShownInv' /\ P!LatestShown' /\ P!TimelineExact' /\ MapsInv'
<1>1. /\ \A kinds : P!Of(kinds)' = P!Of(kinds)
      /\ \A i : (P!Alike(i)' <=> P!Alike(i)) /\ (P!Spared(i)' => P!Spared(i))
  BY SamePage DEF P!Of, P!Spared
<1>2. ShownInv'
  BY DEF ShownInv
<1>3. P!LatestShown'
  BY <1>1 DEF P!LatestShown
<1>4. P!TimelineExact'
  BY <1>1 DEF P!TimelineExact
<1>5. MapsInv'
  BY <1>1 DEF MapsInv
<1>. QED  BY <1>2, <1>3, <1>4, <1>5

LEMMA OthersKeepGiven ==
  ASSUME p_losses = 0 => GivenInv, UNCHANGED <<p_got, p_replies, p_sent_ts, p_losses>>
  PROVE  p_losses' = 0 => GivenInv'
BY DEF GivenInv

LEMMA PageStarts == P!Init => PageInv
<1>. SUFFICES ASSUME P!Init
              PROVE  PageInv
  OBVIOUS
<1>1. /\ p_cache = [f \in PageField |-> <<>>] /\ p_clock = 0 /\ p_losses = 0 /\ p_link = "closed"
      /\ p_requests = <<>> /\ p_replies = <<>> /\ p_sent_ts = [f \in PageField |-> NONE]
      /\ p_page \in Pages /\ p_threw = FALSE /\ p_got = [f \in PageField |-> <<>>]
      /\ p_shown = [i \in DOMAIN p_page |-> [k \in DOMAIN p_page[i].fields |-> <<>>]]
  BY DEF P!Init, P!FeedInit, P!NotConnected
<1>2. <<>> \in Seq(PageRec) /\ Len(<<>>) = 0
  OBVIOUS
<1>3. /\ \A f \in PageField : p_cache[f] = <<>> /\ p_got[f] = <<>> /\ p_sent_ts[f] = NONE
      /\ DOMAIN p_shown = DOMAIN p_page
      /\ \A i \in DOMAIN p_page : /\ DOMAIN p_shown[i] = DOMAIN p_page[i].fields
                                  /\ \A k \in DOMAIN p_page[i].fields : p_shown[i][k] = <<>>
  BY <1>1
<1>4. \A i \in DOMAIN p_page : /\ p_page[i].seconds \in Nat
                               /\ \A k \in DOMAIN p_page[i].fields : p_page[i].fields[k] \in PageField
  BY <1>1, PageFacts
<1>5. PageFeedInv
  <2>1. PageListOK(<<>>)
    BY <1>2 DEF PageListOK, Rising, UpTo
  <2>2. <<>> \in Seq(PageRequests) /\ <<>> \in Seq(PageReplies)
    BY EmptySeq
  <2>3. 0 \in 0..PageClockBound /\ 0 \in 0..LossBound
    BY PageConstants
  <2>4. p_requests \in Seq(PageRequests) /\ p_replies \in Seq(PageReplies)
    BY <1>1, <2>2, Zenon
  <2>5. p_sent_ts \in [PageField -> 0..PageClockBound \cup {NONE}]
    BY <1>1
  <2>6. Len(p_replies) = 0 /\ Len(p_requests) = 0 /\ \A f \in PageField : PageListOK(p_cache[f])
    BY <1>1, <1>2, <1>3, <2>1, Zenon
  <2>7. p_clock \in 0..PageClockBound /\ p_losses \in 0..LossBound /\ p_threw \in BOOLEAN
    BY <1>1, <2>3
  <2>. QED  BY <1>1, <1>3, <2>4, <2>5, <2>6, <2>7 DEF PageFeedInv
<1>6. ShownInv
  <2>1. p_got \in [PageField -> Seq(PageRec)]
    BY <1>1, <1>2
  <2>2. ASSUME NEW i \in DOMAIN p_page, NEW k \in DOMAIN p_page[i].fields
        PROVE  p_shown[i][k] \in Seq(PageRec) /\ Len(p_shown[i][k]) <= 1
    <3>1. p_shown[i][k] = <<>>
      BY <1>3
    <3>2. <<>> \in Seq(PageRec) /\ Len(<<>>) <= 1
      OBVIOUS
    <3>. QED  BY <3>1, <3>2, Zenon
  <2>. QED  BY <1>3, <2>1, <2>2 DEF ShownInv
<1>7. GivenInv
  BY <1>1, <1>2, <1>3 DEF GivenInv, Rising
<1>8. AlikeInv /\ MapsInv
  BY <1>1, <1>2, <1>3 DEF AlikeInv, MapsInv, SameTimes, P!Of
<1>9. \A n \in Nat \ {0} : P!LastOnes(<<>>, n) = <<>>
  BY <1>2 DEF P!LastOnes
<1>10. P!Points(<<>>) = <<>> /\ \A s \in Nat : P!Within(<<>>, s) = <<>>
  <2>1. P!Chosen(<<>>, {}) = <<>>
    <3>1. Chosen(<<>>, {}) = [k \in 1..Cardinality({}) |-> <<>>[Ascending({})[k]]]
      BY DEF Chosen
    <3>2. Cardinality({}) = 0
      BY FS_EmptySet
    <3>3. Chosen(<<>>, {}) = <<>>
      BY <3>1, <3>2
    <3>. QED  BY <3>3, SameOperators
  <2>2. \A S : S \subseteq {} => S = {}
    OBVIOUS
  <2>3. DOMAIN <<>> = {}
    OBVIOUS
  <2>4. P!Points(<<>>) = P!Chosen(<<>>, {})
    BY <2>3 DEF P!Points
  <2>5. \A s \in Nat : P!Within(<<>>, s) = <<>> \/ P!Within(<<>>, s) = P!Chosen(<<>>, {})
    BY <2>3 DEF P!Within
  <2>. QED  BY <2>1, <2>4, <2>5
<1>11. P!LatestShown
  BY <1>3, <1>4, <1>9 DEF P!LatestShown, P!Of
<1>12. P!TimelineExact
  <2>1. ASSUME NEW i \in DOMAIN p_page, NEW k \in DOMAIN p_page[i].fields
        PROVE  /\ p_shown[i][k] = P!Within(P!Points(p_got[p_page[i].fields[k]]), p_page[i].seconds)
               /\ p_shown[i][k] = P!LastOnes(P!Within(p_got[p_page[i].fields[k]], p_page[i].seconds), MaxPoints)
    <3>1. p_got[p_page[i].fields[k]] = <<>> /\ p_shown[i][k] = <<>> /\ p_page[i].seconds \in Nat
      BY <1>3, <1>4
    <3>. QED  BY <1>9, <1>10, <3>1, PageConstants
  <2>. QED  BY <2>1 DEF P!TimelineExact, P!Of
<1>. QED  BY <1>5, <1>6, <1>7, <1>8, <1>11, <1>12 DEF PageInv

LEMMA PageSteps ==
  ASSUME PageInv, [P!Next]_(P!vars)
  PROVE  PageInv'
<1>1. /\ PageFeedInv /\ ShownInv /\ (p_losses = 0 => GivenInv) /\ AlikeInv
      /\ P!LatestShown /\ P!TimelineExact /\ MapsInv
  BY DEF PageInv
<1>2. CASE P!Connects
  <2>1. /\ UNCHANGED <<p_page, p_shown, p_got, p_cache, p_replies, p_sent_ts, p_losses>>
        /\ p_threw' = FALSE /\ p_link = "closed"
    BY <1>2 DEF P!Connects, P!Opens
  <2>2. p_losses' = 0 /\ ~p_threw' => p_losses = 0 /\ ~p_threw
    BY <1>1, <2>1 DEF PageFeedInv
  <2>3. PageFeedInv'
    BY <1>1, <1>2, PageOpensKeepsFeed
  <2>4. AlikeInv'
    BY <1>1, <2>1, OthersKeepAlike
  <2>5. p_losses' = 0 => GivenInv'
    BY <1>1, <2>1, OthersKeepGiven
  <2>6. ShownInv' /\ P!LatestShown' /\ P!TimelineExact' /\ MapsInv'
    BY <1>1, <2>1, <2>2, OthersKeepShown
  <2>. QED  BY <2>3, <2>4, <2>5, <2>6 DEF PageInv
<1>3. CASE P!OnMessage
  <2>1. /\ PageFeedInv' /\ p_replies' = <<>> /\ p_page' = p_page /\ p_losses' = p_losses
        /\ UNCHANGED <<p_cache, p_sent_ts>>
    BY <1>1, <1>3, PageMessageKeepsFeed
  <2>2. ShownInv' /\ P!LatestShown' /\ P!TimelineExact' /\ MapsInv'
    BY <1>1, <1>3, MessageKeepsShown, MessageKeepsLatest, MessageKeepsTimelines, MessageKeepsMaps
  <2>3. p_losses' = 0 => GivenInv'
    BY <1>1, <1>3, <2>1, MessageKeepsGiven
  <2>4. AlikeInv'
    <3>1. Len(p_replies') = 0 /\ \A i \in 1..Len(p_replies') : p_replies'[i] = p_replies[i]
      BY <2>1
    <3>. QED  BY <1>1, <2>1, <3>1, OthersKeepAlike
  <2>. QED  BY <2>1, <2>2, <2>3, <2>4 DEF PageInv
<1>4. CASE P!PublishesSomething
  <2>1. /\ UNCHANGED <<p_page, p_shown, p_threw, p_got>>
        /\ \E values : /\ P!Publishes(values) /\ DOMAIN values \in Together \cup {{}}
                       /\ \A f \in DOMAIN values : values[f] \in PageField \cup {NONE}
    BY <1>4, PagePublishes
  <2>2. PICK values : /\ P!Publishes(values) /\ DOMAIN values \in Together \cup {{}}
                      /\ \A f \in DOMAIN values : values[f] \in PageField \cup {NONE}
    BY <2>1
  <2>3. UNCHANGED <<p_replies, p_sent_ts, p_losses>>
    BY <2>2 DEF P!Publishes
  <2>4. PageFeedInv'
    BY <1>1, <2>1, <2>2, PagePublishKeepsFeed
  <2>5. AlikeInv'
    BY <1>1, <2>1, <2>2, PublishingKeepsAlike
  <2>6. p_losses' = 0 => GivenInv'
    BY <1>1, <2>1, <2>3, OthersKeepGiven
  <2>7. ShownInv' /\ P!LatestShown' /\ P!TimelineExact' /\ MapsInv'
    BY <1>1, <2>1, <2>3, OthersKeepShown
  <2>. QED  BY <2>4, <2>5, <2>6, <2>7 DEF PageInv
<1>5. CASE P!Serves
  <2>1. UNCHANGED <<p_page, p_shown, p_threw, p_got>> /\ (P!HandleSubscribe \/ P!HandleReady)
    BY <1>5 DEF P!Serves, P!Serving, P!pageVars
  <2>2. PageFeedInv' /\ p_losses' = p_losses
    BY <1>1, <2>1, PageSubscribeKeepsFeed, PageReadyKeepsFeed
  <2>3. AlikeInv'
    BY <1>1, <2>1, SubscribeKeepsAlike, ReadyKeepsAlike
  <2>4. p_losses' = 0 => GivenInv'
    BY <1>1, <2>1, <2>2, SubscribeKeepsGiven, ReadyKeepsGiven
  <2>5. ShownInv' /\ P!LatestShown' /\ P!TimelineExact' /\ MapsInv'
    BY <1>1, <2>1, <2>2, OthersKeepShown
  <2>. QED  BY <2>2, <2>3, <2>4, <2>5 DEF PageInv
<1>6. CASE P!Breaks
  <2>1. P!Loses /\ UNCHANGED <<p_page, p_shown, p_threw, p_got>>
    BY <1>6 DEF P!Breaks, P!pageVars
  <2>2. /\ PageFeedInv' /\ p_losses' # 0 /\ p_replies' = <<>> /\ Len(p_replies') = 0
        /\ \A f \in PageField : p_sent_ts'[f] = NONE
        /\ p_cache' = p_cache \/ \A f \in PageField : p_cache'[f] = <<>>
    BY <1>1, <2>1, PageLossKeepsFeed
  <2>3. AlikeInv'
    <3>1. \A i \in 1..Len(p_replies') : p_replies'[i] = p_replies[i]
      BY <2>2
    <3>. QED  BY <1>1, <2>1, <2>2, <3>1, OthersKeepAlike
  <2>4. ShownInv' /\ P!LatestShown' /\ P!TimelineExact' /\ MapsInv'
    BY <1>1, <2>1, <2>2, OthersKeepShown
  <2>. QED  BY <2>2, <2>3, <2>4 DEF PageInv
<1>7. CASE UNCHANGED P!vars
  <2>1. UNCHANGED <<p_cache, p_clock, p_link, p_requests, p_replies, p_sent_ts, p_losses,
                    p_page, p_shown, p_threw, p_got>>
    BY <1>7 DEF P!vars, P!feedVars, P!pageVars
  <2>2. PageFeedInv'
    <3>1. PageRequests' = PageRequests /\ \A list : PageListOK(list)' <=> PageListOK(list)
      BY <2>1, SamePage DEF PageListOK
    <3>2. p_requests' \in Seq(PageRequests')
      BY <1>1, <2>1, <3>1 DEF PageFeedInv
    <3>. QED  BY <1>1, <2>1, <3>2 DEF PageFeedInv, PageListOK
  <2>3. AlikeInv'
    BY <1>1, <2>1, OthersKeepAlike
  <2>4. p_losses' = 0 => GivenInv'
    BY <1>1, <2>1, OthersKeepGiven
  <2>5. ShownInv' /\ P!LatestShown' /\ P!TimelineExact' /\ MapsInv'
    BY <1>1, <2>1, OthersKeepShown
  <2>. QED  BY <2>2, <2>3, <2>4, <2>5 DEF PageInv
<1>. QED  BY <1>2, <1>3, <1>4, <1>5, <1>6, <1>7 DEF P!Next, P!Waits

LEMMA PageTyped == PageInv => P!TypeOK /\ P!OneUnderWay /\ P!MarkersComplete
<1>. SUFFICES ASSUME PageInv
              PROVE  P!TypeOK /\ P!OneUnderWay /\ P!MarkersComplete
  OBVIOUS
<1>1. PageFeedInv /\ ShownInv /\ MapsInv
  BY DEF PageInv
<1>2. P!FeedTypeOK
  <2>1. ASSUME NEW f \in PageField, NEW i \in DOMAIN p_cache[f]
        PROVE  p_cache[f][i].ts \in 1..p_clock
    <3>1. PageListOK(p_cache[f])
      BY <1>1 DEF PageFeedInv
    <3>2. i \in 1..Len(p_cache[f])
      BY <2>1, <3>1, ListFacts DEF PageListOK
    <3>3. p_cache[f][i].ts \in 1..PageClockBound /\ p_cache[f][i].ts <= p_clock /\ p_clock \in Nat
      BY <1>1, <3>1, <3>2, PageRecTimed, PageConstants DEF PageListOK, UpTo, PageFeedInv
    <3>. QED  BY <3>3, PageConstants
  <2>2. ASSUME NEW i \in DOMAIN p_requests
        PROVE  \/ p_requests[i] = P!Ready
               \/ /\ p_requests[i].type = "subscribe"
                  /\ DOMAIN p_requests[i].fields \subseteq PageField
                  /\ \A f \in DOMAIN p_requests[i].fields : p_requests[i].fields[f] \in P!FieldSpec
    <3>1. p_requests[i] \in PageRequests
      BY <1>1, ListFacts DEF PageFeedInv
    <3>2. p_requests[i] = P!Ready \/ (p_requests[i].type = "subscribe" /\ p_requests[i].fields = P!DataRequest)
      BY <3>1 DEF PageRequests
    <3>3. P!DataRequest \in [P!PageFields -> P!FieldSpec] /\ P!PageFields \subseteq PageField
      BY <1>1, DataRequestTyped, SameOperators DEF PageFeedInv
    <3>. QED  BY <3>2, <3>3
  <2>3. ASSUME NEW i \in DOMAIN p_replies
        PROVE  /\ p_replies[i].type \in {"subscribe", "data"}
               /\ DOMAIN p_replies[i].data \subseteq PageField
               /\ \A f \in DOMAIN p_replies[i].data : p_replies[i].data[f] # <<>>
    <3>1. p_replies[i] \in PageReplies /\ i \in 1..Len(p_replies)
      BY <1>1, <2>3, ListFacts DEF PageFeedInv
    <3>2. p_replies[i].type \in {"subscribe", "data"} /\ p_replies[i].data \in PageData
      BY <3>1 DEF PageReplies
    <3>3. DOMAIN p_replies[i].data \subseteq PageField
      <4>1. PICK F \in SUBSET PageField : p_replies[i].data \in [F -> Seq(PageRec)]
        BY <3>2 DEF PageData
      <4>. QED  BY <4>1
    <3>. QED  BY <1>1, <3>1, <3>2, <3>3 DEF PageFeedInv
  <2>4. /\ p_clock \in 0..PageClockBound /\ p_link \in {"closed", "open"} /\ p_losses \in 0..LossBound
        /\ p_sent_ts \in [PageField -> 0..PageClockBound \cup {NONE}]
    BY <1>1 DEF PageFeedInv
  <2>. QED  BY <2>1, <2>2, <2>3, <2>4 DEF P!FeedTypeOK
<1>3. P!TypeOK
  <2>1. p_page \in Pages /\ p_threw \in BOOLEAN
    BY <1>1 DEF PageFeedInv
  <2>. QED  BY <1>1, <1>2, <2>1 DEF P!TypeOK, ShownInv
<1>4. P!OneUnderWay
  BY <1>1 DEF P!OneUnderWay, PageFeedInv
<1>5. P!MarkersComplete
  <2>1. ASSUME NEW i \in DOMAIN p_page, p_page[i].kind = "map", P!Alike(i),
               NEW k \in DOMAIN p_page[i].fields, NEW m \in DOMAIN p_page[i].fields
        PROVE  [n \in DOMAIN p_shown[i][k] |-> p_shown[i][k][n].ts]
                 = [n \in DOMAIN p_shown[i][m] |-> p_shown[i][m][n].ts]
    <3>. DEFINE s == p_shown[i][k]
                t == p_shown[i][m]
    <3>1. s \in Seq(PageRec) /\ t \in Seq(PageRec)
      BY <1>1, <2>1 DEF ShownInv
    <3>2. SameTimes(s, t)
      BY <1>1, <2>1 DEF MapsInv, P!Of
    <3>. HIDE DEF s, t
    <3>3. DOMAIN s = 1..Len(s) /\ DOMAIN t = 1..Len(t)
      BY <3>1, ListFacts
    <3>4. [n \in DOMAIN s |-> s[n].ts] = [n \in DOMAIN t |-> t[n].ts]
      BY <3>2, <3>3 DEF SameTimes
    <3>. QED  BY <3>4 DEF s, t
  <2>. QED  BY <2>1 DEF P!MarkersComplete, P!Of
<1>. QED  BY <1>3, <1>4, <1>5

-----------------------------------------------------------------------------
(***************************************************************************)
(* The two side by side.                                                   *)
(***************************************************************************)
\* A page of widgets by itself: what widget_server.js and the widgets do keeps
\* what was given, what is under way and what will be sent in order, and what
\* is shown with it.
THEOREM WidgetPageInvariant == P!Spec => []PageInv
BY PageStarts, PageSteps, PTL DEF P!Spec

LEMMA PagesStart == PagesInit => ConsoleInv /\ PageInv
BY ConsoleStarts, PageStarts DEF PagesInit

\* A step of the one page leaves the other as it is.
LEMMA PagesSteps == ConsoleInv /\ PageInv /\ [PagesNext]_allvars => (ConsoleInv /\ PageInv)'
<1>1. [PagesNext]_allvars => [Next]_vars /\ [P!Next]_(P!vars)
  <2>1. UNCHANGED pvars => UNCHANGED P!vars
    BY DEF pvars, P!vars, P!feedVars, P!pageVars
  <2>2. ASSUME ConsoleDoes(Next)
        PROVE  Next /\ UNCHANGED pvars
    BY <2>2 DEF ConsoleDoes
  <2>3. ASSUME PageDoes(P!Next)
        PROVE  P!Next /\ UNCHANGED vars
    BY <2>3 DEF PageDoes
  <2>4. UNCHANGED allvars => UNCHANGED pvars /\ UNCHANGED vars
    BY DEF allvars
  <2>. QED  BY <2>1, <2>2, <2>3, <2>4 DEF PagesNext
<1>. QED  BY <1>1, ConsoleSteps, PageSteps

\* The invariants of both hold together.
THEOREM PagesInvariant == PagesSpec => [](ConsoleInv /\ PageInv)
BY PagesStart, PagesSteps, PTL DEF PagesSpec

\* Both pages keep their conversation with the server going, one message at
\* a time, for any loggers, configurations, fields and widgets: as onmessage
\* of cds_websocket.js and widget_server.js answers a message with `ready`
\* unless a widget has thrown.
THEOREM BothPagesSafe == PagesSpec => []PagesSafe
<1>1. ConsoleInv /\ PageInv => PagesSafe
  BY ConsoleSafe, PageTyped DEF PagesSafe
<1>. QED  BY <1>1, PagesInvariant, PTL

\* What widgets show is what the page was given, for any page: texts and
\* dials the latest value, timelines the window that process_message trims
\* them to, maps complete markers.
THEOREM WidgetsShowWhatIsGiven == PagesSpec => []WidgetsExact
<1>1. PageInv => WidgetsExact
  BY PageTyped DEF PageInv, WidgetsExact
<1>. QED  BY <1>1, PagesInvariant, PTL
=============================================================================
