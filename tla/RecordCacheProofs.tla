-------------------------- MODULE RecordCacheProofs --------------------------
(***************************************************************************)
(* Proofs about RecordCache, for every set of fields and of threads, every *)
(* choice of limits, any number of records and of restarts.                *)
(***************************************************************************)
EXTENDS RecordCache, SequenceTheorems, FiniteSetTheorems, WellFoundedInduction, TLAPS

\* Two threads bring records of f.
Contested(f) == \E v, w \in Writer : v # w /\ f \in Feeds[v] \cap Feeds[w]

\* What the theorems suppose of the start: a field that two threads may see
\* for the first time at once has a file, and so a lock from the beginning.
LockedFromTheStart ==
  \A f \in Field : Contested(f) => DiskCache /\ \A files \in InitialDisk : files[f] # NONE

\* Where each writer is, and what it has seen there.
WriterInv ==
  \A w \in Writer :
    /\ at[w] \in {"idle", "next", "make", "look", "wait", "create", "append"}
    /\ todo[w] \subseteq Feeds[w]
    /\ at[w] \notin {"idle", "next"} => field[w] \in todo[w]
    /\ at[w] = "make" => locks[field[w]] = NONE
    /\ at[w] = "create" => data[field[w]] = NONE
    /\ at[w] = "append" => data[field[w]] # NONE

\* The same of the cleaner.
CleanerInv ==
  /\ at[Cleaner] \in {"idle", "clean", "replace", "save", "write"}
  /\ todo[Cleaner] \subseteq Keys
  /\ at[Cleaner] \in {"replace", "write"} => field[Cleaner] \in todo[Cleaner]
  /\ at[Cleaner] = "replace" => view = data[field[Cleaner]]
  /\ at[Cleaner] \in {"save", "write"} => DiskCache

\* A lock that somebody has looked up is the field's only one.
LockInv ==
  /\ \A f \in Field : Contested(f) => locks[f] # NONE /\ disk[f] # NONE /\ DiskCache
  /\ \A f \in Keys : locks[f] # NONE
  /\ \A t \in Thread :
       /\ at[t] \in {"look", "wait"} \cup Inside => locks[field[t]] # NONE
       /\ at[t] \in {"wait"} \cup Inside => lock[t] = locks[field[t]]

\* s is the end of t.
EndOf(s, t) ==
  /\ Len(s) <= Len(t)
  /\ \A i \in 1..Len(s) : s[i] = t[Len(t) - Len(s) + i]

LongEnough(s) == Len(s) >= MinBack /\ Len(s) >= 1

ListInv ==
  \A f \in Field :
    /\ data[f] = NONE => appended[f] = <<>>
    /\ data[f] # NONE => EndOf(data[f], appended[f])
                         /\ (LongEnough(data[f]) \/ data[f] = appended[f])

DiskInv ==
  \A f \in Field : \/ Loaded(disk)[f] = saved[f]
                   \/ f \in failed
                   \/ at[Cleaner] = "write" /\ field[Cleaner] = f

IInv ==
  TypeOK /\ WriterInv /\ CleanerInv /\ LockInv /\ ExclusiveField /\ ListInv /\ DiskInv

-----------------------------------------------------------------------------
(***************************************************************************)
(* Sequences, and what cleanup leaves of one.                              *)
(***************************************************************************)
\* Sets of natural numbers have a least element.
LEMMA LeastIsLeast ==
  ASSUME NEW S \in SUBSET Nat, S # {}
  PROVE  Least(S) \in S /\ \A j \in S : Least(S) <= j
<1>1. PICK R : /\ \A i, j \in Nat : <<j, i>> \notin R => i <= j
               /\ IsWellFoundedOn(R, Nat)
  <2>1. \A i, j \in Nat : <<j, i>> \notin OpToRel(<, Nat) => ~(j < i)
    BY Zenon DEF OpToRel
  <2>2. \A i, j \in Nat : ~(j < i) => i <= j
    OBVIOUS
  <2>3. QED
    BY <2>1, <2>2, NatLessThanWellFounded, Zenon
<1>2. PICK i \in S : \A j \in S : <<j, i>> \notin R
  BY <1>1, WFMin
<1>3. \A j \in S : i <= j
  BY <1>1, <1>2
<1>4. QED
  BY <1>3 DEF Least

LEMMA EndIsSuffix ==
  ASSUME NEW T, NEW s \in Seq(T), NEW t \in Seq(T), EndOf(s, t)
  PROVE  IsSuffix(s, t)
<1>1. /\ Reverse(s) \in Seq(T) /\ Len(Reverse(s)) = Len(s)
      /\ Reverse(t) \in Seq(T) /\ Len(Reverse(t)) = Len(t)
  BY DEF Reverse
<1>2. Len(s) <= Len(t) /\ \A i \in 1..Len(s) : Reverse(s)[i] = Reverse(t)[i]
  BY DEF Reverse, EndOf
<1>3. SubSeq(Reverse(s), 1, Len(s)) = SubSeq(Reverse(t), 1, Len(s))
  BY <1>1, <1>2
<1>4. QED
  BY <1>1, <1>2, <1>3 DEF IsSuffix, IsPrefix

\* Both lists grow by the same record.
LEMMA EndGrows ==
  ASSUME NEW T, NEW s \in Seq(T), NEW t \in Seq(T), NEW r \in T, EndOf(s, t)
  PROVE  EndOf(Append(s, r), Append(t, r))
  BY SMTT(30), AppendProperties DEF EndOf

\* Where cleanup cuts, and that it spares what it must.
LEMMA CleanupCuts ==
  ASSUME NEW list \in Seq(Record), NEW limit \in Int
  PROVE  \E gone \in 0..Len(list) :
           /\ CleanedUp(list, limit) = SubSeq(list, gone + 1, Len(list))
           /\ gone = 0 \/ (Len(list) - gone >= MinBack /\ Len(list) - gone >= 1)
           /\ \A i \in 1..gone : \/ list[i].ts <= limit
                                 \/ MaxRecords > MinBack /\ i <= Len(list) - MaxRecords
<1> USE CleanupAssumption
<1> DEFINE kept  == Truncated(list)
           off   == Len(list) - Len(kept)
           young == Young(kept, limit)
           first == IF young = {} THEN Len(kept) - MinBack ELSE Least(young)
<1>1. CASE Len(list) <= MinBack
  <2>1. CleanedUp(list, limit) = list
    BY <1>1 DEF CleanedUp
  <2>2. list = SubSeq(list, 0 + 1, Len(list)) /\ 0 \in 0..Len(list) /\ 1..0 = {}
    BY SubSeqFull
  <2>3. QED
    BY <2>1, <2>2, Zenon
<1>2. CASE Len(list) > MinBack
  <2>1. /\ kept \in Seq(Record) /\ Len(kept) > MinBack /\ off \in 0..Len(list)
        /\ off = 0 \/ (MaxRecords > MinBack /\ off = Len(list) - MaxRecords)
        /\ \A i \in 1..Len(kept) : kept[i] = list[off + i]
    <3>1. CASE MaxRecords > MinBack /\ Len(list) > MaxRecords
      <4>1. kept = SubSeq(list, Len(list) - MaxRecords + 1, Len(list))
        BY <3>1 DEF Truncated, LastOf
      <4> HIDE DEF kept
      <4>2. kept \in Seq(Record) /\ Len(kept) = MaxRecords
        BY <3>1, <4>1
      <4>3. \A i \in 1..Len(kept) : kept[i] = list[Len(list) - MaxRecords + i]
        BY <3>1, <4>1, <4>2
      <4>4. QED
        BY <3>1, <4>2, <4>3
    <3>2. CASE ~(MaxRecords > MinBack /\ Len(list) > MaxRecords)
      <4>1. kept = list
        BY <3>2 DEF Truncated
      <4> HIDE DEF kept
      <4>2. QED
        BY <1>2, <4>1
    <3>3. QED
      BY <3>1, <3>2
  <2>2. /\ first \in 1..(Len(kept) - MinBack)
        /\ \A i \in 1..(first - 1) : kept[i].ts <= limit
    <3>1. CASE young = {}
      <4>1. ASSUME NEW i \in 1..(first - 1)
            PROVE  kept[i].ts <= limit
        <5>1. i \in 1..(Len(kept) - MinBack) /\ i \notin young
          BY <2>1, <3>1
        <5>2. kept[i] \in Record
          BY <2>1, <5>1
        <5>3. QED
          BY <5>1, <5>2 DEF Young, Record
      <4>2. QED
        BY <2>1, <3>1, <4>1
    <3>2. CASE young # {}
      <4>1. young \in SUBSET Nat
        BY <2>1 DEF Young
      <4>2. first \in young /\ \A j \in young : first <= j
        BY <3>2, <4>1, LeastIsLeast
      <4>3. first \in 1..(Len(kept) - MinBack)
        BY <4>2 DEF Young
      <4>4. ASSUME NEW i \in 1..(first - 1)
            PROVE  kept[i].ts <= limit
        <5>0. first \in Nat /\ \A j \in young : ~(j < first)
          BY <4>1, <4>2
        <5> HIDE DEF first, young, kept
        <5>1. i \in 1..(Len(kept) - MinBack) /\ i \notin young
          BY <2>1, <4>3, <5>0
        <5> USE DEF young
        <5>2. kept[i] \in Record
          BY <2>1, <5>1
        <5>3. QED
          BY <5>1, <5>2 DEF Young, Record
      <4>5. QED
        BY <4>3, <4>4
    <3>3. QED
      BY <3>1, <3>2
  <2>3. CleanedUp(list, limit) = SubSeq(kept, first, Len(kept))
    <3>1. ~(Len(list) <= MinBack)
      BY <1>2
    <3>2. QED
      BY <3>1, Zenon DEF CleanedUp
  <2> HIDE DEF kept, young, first
  <2> DEFINE gone == off + first - 1
  <2>4. /\ gone \in 0..Len(list) /\ Len(list) - gone = Len(kept) - first + 1
        /\ Len(list) - gone >= MinBack /\ Len(list) - gone >= 1
    BY <2>1, <2>2
  <2>5. SubSeq(kept, first, Len(kept)) = SubSeq(list, gone + 1, Len(list))
    <3>1. \A i \in 1..(Len(kept) - first + 1) : kept[first + i - 1] = list[gone + i]
      BY <2>1, <2>2
    <3>2. SubSeq(kept, first, Len(kept)) = [i \in 1..(Len(kept) - first + 1) |-> kept[first + i - 1]]
      BY <2>1, <2>2
    <3>3. SubSeq(list, gone + 1, Len(list)) = [i \in 1..(Len(list) - gone) |-> list[gone + i]]
      BY <2>4
    <3>4. QED
      BY <2>4, <3>1, <3>2, <3>3
  <2>6. ASSUME NEW i \in 1..gone
        PROVE  list[i].ts <= limit \/ (MaxRecords > MinBack /\ i <= Len(list) - MaxRecords)
    <3>1. CASE i <= off
      BY <2>1, <3>1
    <3>2. CASE i > off
      <4>1. i - off \in 1..(first - 1) /\ i - off \in 1..Len(kept) /\ off + (i - off) = i
        BY <2>1, <2>2, <3>2
      <4>2. QED
        BY <2>1, <2>2, <4>1
    <3>3. QED
      BY <2>1, <3>1, <3>2
  <2>7. QED
    BY <2>3, <2>4, <2>5, <2>6
<1>3. QED
  BY SMTT(30), <1>1, <1>2

\* What cleanup leaves is an end of the list, long enough, or all of it.
LEMMA CleanupLeavesEnd ==
  ASSUME NEW list \in Seq(Record), NEW limit \in Int, NEW all \in Seq(Record),
         EndOf(list, all), LongEnough(list) \/ list = all
  PROVE  LET left == CleanedUp(list, limit) IN
           /\ left \in Seq(Record) /\ EndOf(left, all)
           /\ LongEnough(left) \/ left = all
<1>1. PICK gone \in 0..Len(list) :
        /\ CleanedUp(list, limit) = SubSeq(list, gone + 1, Len(list))
        /\ gone = 0 \/ (Len(list) - gone >= MinBack /\ Len(list) - gone >= 1)
  BY CleanupCuts
<1> DEFINE left == CleanedUp(list, limit)
<1>2. /\ left \in Seq(Record) /\ Len(left) = Len(list) - gone
      /\ \A i \in 1..Len(left) : left[i] = list[gone + i]
  BY SMTT(30), <1>1
<1>3. CASE gone = 0
  <2>1. left = list
    BY <1>1, <1>3, SubSeqFull
  <2>2. QED
    BY <2>1
<1>4. CASE gone # 0
  <2>1. LongEnough(left)
    BY <1>1, <1>2, <1>4 DEF LongEnough
  <2> HIDE DEF left
  <2>2. EndOf(left, all)
    BY <1>2 DEF EndOf
  <2> USE DEF left
  <2>3. QED
    BY <1>2, <2>1, <2>2
<1>5. QED
  BY <1>3, <1>4

USE CacheAssumption, CleanupAssumption

-----------------------------------------------------------------------------
(***************************************************************************)
(* The inductive invariant.                                                *)
(***************************************************************************)
LEMMA Lengths ==
  ASSUME NEW s \in Seq(Record)
  PROVE  Len(s) \in Nat /\ s # NONE /\ s # TORN /\ EndOf(s, s) /\ EndOf(<<>>, <<>>)
  BY DEF EndOf, Lists

LEMMA EmptyIsList == <<>> \in Seq(Record) /\ <<>> # NONE
<1>1. <<>> \in Seq(Record)
  OBVIOUS
<1>2. QED
  BY <1>1, Lengths

LEMMA ListOrNone ==
  ASSUME NEW s \in Lists, s # NONE
  PROVE  s \in Seq(Record)
  BY DEF Lists

\* What a constructor makes of the files it finds.
LEMMA LoadedHolds ==
  ASSUME disk \in [Field -> Lists \cup {TORN}],
         \A f \in Field : Contested(f) => disk[f] # NONE /\ DiskCache
  PROVE  /\ Loaded(disk) \in [Field -> Lists]
         /\ LoadedLocks(disk) \in [Field -> {Loader, NONE}]
         /\ AsCached(Loaded(disk)) \in [Field -> Seq(Record)]
         /\ \A f \in Field :
              /\ Contested(f) => LoadedLocks(disk)[f] # NONE
              /\ Loaded(disk)[f] # NONE => LoadedLocks(disk)[f] # NONE
              /\ Loaded(disk)[f] = NONE => AsCached(Loaded(disk))[f] = <<>>
              /\ Loaded(disk)[f] # NONE => AsCached(Loaded(disk))[f] = Loaded(disk)[f]
<1>1. Loaded(disk) \in [Field -> Lists]
  BY DEF Loaded, Lists
<1>2. LoadedLocks(disk) \in [Field -> {Loader, NONE}]
  BY DEF LoadedLocks
<1>3. AsCached(Loaded(disk)) \in [Field -> Seq(Record)]
  BY <1>1 DEF AsCached, Lists
<1>4. ASSUME NEW f \in Field
      PROVE  /\ Contested(f) => LoadedLocks(disk)[f] # NONE
             /\ Loaded(disk)[f] # NONE => LoadedLocks(disk)[f] # NONE
             /\ Loaded(disk)[f] = NONE => AsCached(Loaded(disk))[f] = <<>>
             /\ Loaded(disk)[f] # NONE => AsCached(Loaded(disk))[f] = Loaded(disk)[f]
  <2>1. /\ Loaded(disk)[f] = IF ~DiskCache \/ disk[f] = TORN THEN NONE ELSE disk[f]
        /\ LoadedLocks(disk)[f] = IF ~DiskCache \/ disk[f] = NONE THEN NONE ELSE Loader
        /\ AsCached(Loaded(disk))[f] = IF Loaded(disk)[f] = NONE THEN <<>> ELSE Loaded(disk)[f]
    BY DEF Loaded, LoadedLocks, AsCached
  <2>2. QED
    BY <2>1
<1>5. QED
  BY <1>1, <1>2, <1>3, <1>4

\* A process that has just been started: nobody is at work.
Fresh ==
  /\ disk \in [Field -> Lists \cup {TORN}]
  /\ \A f \in Field : Contested(f) => disk[f] # NONE /\ DiskCache
  /\ data = Loaded(disk) /\ locks = LoadedLocks(disk) /\ failed = {}
  /\ at = [t \in Thread |-> "idle"] /\ todo = [t \in Thread |-> {}]
  /\ field = Unset /\ lock = Unset /\ item = [w \in Writer |-> NoItem]
  /\ view = <<>> /\ oldest = 0
  /\ now \in 0..TimeBound /\ made \in 0..RecordBound /\ crashes \in 0..CrashBound
  /\ appended = AsCached(data) /\ saved = data

LEMMA FreshStart == Fresh => IInv
<1> SUFFICES ASSUME Fresh
             PROVE  IInv
  OBVIOUS
<1> USE DEF Fresh
<1>1. TypeOK
  <2>1. NoItem \in Record
    BY DEF NoItem, Record
  <2>2. /\ data \in [Field -> Lists] /\ saved \in [Field -> Lists]
        /\ locks \in [Field -> Writer \cup {Loader, NONE}]
        /\ appended \in [Field -> Seq(Record)]
    BY LoadedHolds
  <2>3. /\ at \in [Thread -> {"idle", "next", "make", "look", "wait", "clean", "save"} \cup Inside]
        /\ todo \in [Thread -> SUBSET Field]
        /\ field \in [Thread -> Field \cup {NONE}]
        /\ lock \in [Thread -> Writer \cup {Loader, NONE}]
        /\ item \in [Writer -> Record]
    BY <2>1 DEF Unset
  <2>4. QED
    BY <2>2, <2>3 DEF TypeOK
<1>2. \A t \in Thread : at[t] = "idle" /\ todo[t] = {}
  OBVIOUS
<1>3. WriterInv /\ CleanerInv /\ ExclusiveField
  BY <1>2 DEF WriterInv, CleanerInv, ExclusiveField, Thread, Holds, Inside
<1>4. LockInv
  BY <1>2, LoadedHolds DEF LockInv, Keys, Inside
<1>5. ListInv
  BY LoadedHolds, Lengths DEF ListInv, Lists
<1>6. DiskInv
  BY DEF DiskInv
<1>7. QED
  BY <1>1, <1>3, <1>4, <1>5, <1>6 DEF IInv

LEMMA InitHolds == LockedFromTheStart /\ Init => IInv
<1> SUFFICES ASSUME LockedFromTheStart, Init
             PROVE  IInv
  OBVIOUS
<1>1. disk \in [Field -> Lists \cup {TORN}]
  BY DEF Init
<1>2. \A f \in Field : Contested(f) => disk[f] # NONE /\ DiskCache
  BY DEF Init, LockedFromTheStart
<1>3. 0 \in 0..TimeBound /\ 0 \in 0..RecordBound /\ 0 \in 0..CrashBound
  OBVIOUS
<1>4. QED
  BY <1>1, <1>2, <1>3, FreshStart DEF Init, Fresh

LEMMA RestartHolds ==
  ASSUME IInv, Restart
  PROVE  IInv'
<1>1. Fresh'
  <2>1. UNCHANGED <<disk, now, made>> /\ crashes' \in 0..CrashBound
    BY DEF Restart, IInv, TypeOK
  <2>2. /\ disk \in [Field -> Lists \cup {TORN}]
        /\ \A f \in Field : Contested(f) => disk[f] # NONE /\ DiskCache
        /\ now \in 0..TimeBound /\ made \in 0..RecordBound
    BY DEF IInv, TypeOK, LockInv
  <2>3. /\ data' = Loaded(disk)' /\ locks' = LoadedLocks(disk)' /\ failed' = {}
        /\ at' = [t \in Thread |-> "idle"] /\ todo' = [t \in Thread |-> {}]
        /\ field' = Unset /\ lock' = Unset /\ item' = [w \in Writer |-> NoItem]
        /\ view' = <<>> /\ oldest' = 0
        /\ appended' = AsCached(data') /\ saved' = data'
    BY <2>1 DEF Restart, Loaded, LoadedLocks
  <2>4. QED
    BY <2>1, <2>2, <2>3 DEF Fresh, Unset, Contested
<1>2. Fresh' => IInv'
  BY FreshStart, PTL
<1>3. QED
  BY <1>1, <1>2

\* A writer that only moves: the cache, its locks and the files stay.
LEMMA WriterMovesHolds ==
  ASSUME IInv, NEW w \in Writer, Receives(w) \/ Looks(w) \/ LooksUp(w) \/ Enters(w)
  PROVE  IInv'
<1>1. /\ UNCHANGED <<data, locks, disk, failed, appended, saved, view, now, crashes, oldest>>
      /\ w \in Thread /\ w # Cleaner
      /\ \A t \in Thread \ {w} :
           at'[t] = at[t] /\ todo'[t] = todo[t] /\ field'[t] = field[t] /\ lock'[t] = lock[t]
  BY DEF Receives, Looks, LooksUp, Enters, Moves, historyVars, IInv, TypeOK, Thread
<1>2. TypeOK'
  <2>1. CASE Receives(w)
    <3>1. \A ts \in 0..now : [id |-> made + 1, ts |-> ts] \in Record
      BY <2>1 DEF Receives, IInv, TypeOK, Record
    <3>2. QED
      BY <1>1, <2>1, <3>1 DEF Receives, Moves, IInv, TypeOK
  <2>2. CASE Looks(w)
    BY <1>1, <2>2 DEF Looks, Moves, IInv, TypeOK
  <2>3. CASE LooksUp(w)
    <3>1. field[w] \in Field
      BY <2>3 DEF LooksUp, IInv, WriterInv, TypeOK
    <3>2. QED
      BY <1>1, <2>3, <3>1 DEF LooksUp, Moves, IInv, TypeOK
  <2>4. CASE Enters(w)
    BY <1>1, <2>4 DEF Enters, Moves, IInv, TypeOK, Inside
  <2>5. QED
    BY <2>1, <2>2, <2>3, <2>4
<1>3. /\ at'[w] \in {"next", "make", "look", "wait", "create", "append"}
      /\ todo'[w] \subseteq Feeds[w]
      /\ at'[w] # "next" => field'[w] \in todo'[w]
      /\ at'[w] = "make" => locks[field'[w]] = NONE
      /\ at'[w] = "create" => data[field'[w]] = NONE
      /\ at'[w] = "append" => data[field'[w]] # NONE
      /\ at'[w] \in {"look", "wait", "create", "append"} => locks[field'[w]] # NONE
      /\ at'[w] \in {"wait", "create", "append"} => lock'[w] = locks[field'[w]]
  <2>1. CASE Receives(w)
    BY <1>1, <2>1 DEF Receives, Moves, IInv, TypeOK
  <2>2. CASE Looks(w)
    BY <1>1, <2>2 DEF Looks, Moves, IInv, TypeOK, WriterInv
  <2>3. CASE LooksUp(w)
    BY ZenonT(60), <1>1, <2>3 DEF LooksUp, Moves, IInv, TypeOK, WriterInv, LockInv
  <2>4. CASE Enters(w)
    BY ZenonT(60), <1>1, <2>4 DEF Enters, Moves, IInv, TypeOK, WriterInv, LockInv
  <2>5. QED
    BY <2>1, <2>2, <2>3, <2>4
<1>4. WriterInv'
  BY <1>1, <1>3 DEF IInv, WriterInv, Thread
<1>5. CleanerInv'
  BY <1>1 DEF IInv, CleanerInv, Keys, Thread
<1>6. LockInv'
  BY <1>1, <1>3 DEF IInv, LockInv, Keys, Inside, Contested
<1>7. ExclusiveField'
  <2>1. CASE Enters(w)
    <3>1. \A u \in Thread \ {w} : Holds(u) => field[u] # field[w]
      BY <1>1, <2>1 DEF Enters, MayEnter, IInv, LockInv, Holds, Inside
    <3>2. field'[w] = field[w]
      BY <2>1 DEF Enters
    <3>3. QED
      BY <1>1, <3>1, <3>2 DEF IInv, ExclusiveField, Holds
  <2>2. CASE Receives(w) \/ Looks(w) \/ LooksUp(w)
    <3>1. at'[w] \in {"next", "make", "look", "wait"}
      BY <2>2 DEF Receives, Looks, LooksUp, Moves, IInv, TypeOK, Thread
    <3>2. QED
      BY <1>1, <3>1 DEF IInv, ExclusiveField, Holds, Inside
  <2>3. QED
    BY <2>1, <2>2
<1>8. ListInv' /\ DiskInv'
  BY ZenonT(60), <1>1 DEF IInv, ListInv, DiskInv, EndOf, LongEnough, Loaded, Thread
<1>9. QED
  BY <1>2, <1>4, <1>5, <1>6, <1>7, <1>8 DEF IInv

\* A lock that is made is the first of its field.
LEMMA MakesLockHolds ==
  ASSUME IInv, NEW w \in Writer, MakesLock(w)
  PROVE  IInv'
<1> DEFINE f == field[w]
<1>1. /\ UNCHANGED <<data, disk, failed, appended, saved, view, now, crashes, oldest, todo,
                     field, lock, item, made>>
      /\ w \in Thread /\ w # Cleaner /\ f \in Field /\ f \in Feeds[w]
      /\ at[w] = "make" /\ at' = [at EXCEPT ![w] = "look"]
      /\ locks[f] = NONE /\ locks' = [locks EXCEPT ![f] = w] /\ w # NONE
  BY DEF MakesLock, Moves, historyVars, IInv, TypeOK, Thread, WriterInv
<1> HIDE DEF f
<1>2. ~Contested(f)
  BY <1>1 DEF IInv, LockInv
<1>3. TypeOK'
  BY <1>1 DEF IInv, TypeOK
<1>4. \A v \in Writer : v # w /\ at[v] = "make" => field[v] # f
  BY <1>1, <1>2 DEF IInv, WriterInv, Contested
<1>5. \A g \in Field : locks[g] # NONE => locks'[g] = locks[g] /\ locks'[g] # NONE
  BY <1>1 DEF IInv, TypeOK
<1>6. \A v \in Writer : at[v] = "make" => field[v] \in Field
  BY DEF IInv, WriterInv, TypeOK
<1>7. WriterInv'
  BY <1>1, <1>4, <1>6 DEF IInv, WriterInv, TypeOK, f
<1>8. CleanerInv'
  BY <1>1 DEF IInv, CleanerInv, Keys, TypeOK
<1>9. LockInv'
  <2>1. \A t \in Thread : at[t] \in {"look", "wait"} \cup Inside => field[t] \in Field
    BY ZenonT(60) DEF IInv, WriterInv, CleanerInv, TypeOK, Inside, Thread
  <2>2. locks'[field'[w]] # NONE
    BY <1>1 DEF IInv, TypeOK, f
  <2>3. QED
    BY <1>1, <1>5, <2>1, <2>2 DEF IInv, LockInv, Keys, Inside, Contested, TypeOK
<1>10. ExclusiveField'
  BY <1>1 DEF IInv, ExclusiveField, Holds, Inside, TypeOK
<1>11. ListInv' /\ DiskInv'
  BY <1>1 DEF IInv, ListInv, DiskInv, EndOf, LongEnough, Loaded, Thread, TypeOK
<1>12. QED
  BY <1>3, <1>7, <1>8, <1>9, <1>10, <1>11 DEF IInv

\* The list of a field is changed by a thread that has its lock: whoever
\* else holds a lock holds another field's.
LEMMA OthersElsewhere ==
  ASSUME IInv, NEW t \in Thread, Holds(t)
  PROVE  \A u \in Thread \ {t} : Holds(u) => field[u] # field[t]
  BY DEF IInv, ExclusiveField

LEMMA CreatesListHolds ==
  ASSUME IInv, NEW w \in Writer, CreatesList(w)
  PROVE  IInv'
<1> DEFINE f == field[w]
<1>1. /\ UNCHANGED <<locks, disk, failed, appended, saved, view, now, crashes, oldest, todo,
                     field, lock, item, made>>
      /\ w \in Thread /\ w # Cleaner /\ f \in Field /\ f \in todo[w]
      /\ at[w] = "create" /\ at' = [at EXCEPT ![w] = "append"]
      /\ data[f] = NONE /\ data' = [data EXCEPT ![f] = <<>>] /\ <<>> # NONE
      /\ Holds(w) /\ locks[f] # NONE
  <2>1. w \in Thread /\ w # Cleaner /\ at[w] = "create" /\ Holds(w)
    BY DEF CreatesList, Thread, Holds, Inside
  <2>2. f \in Field /\ f \in todo[w] /\ data[f] = NONE /\ locks[f] # NONE
    BY <2>1 DEF IInv, TypeOK, WriterInv, LockInv, Inside
  <2>3. QED
    BY <2>1, <2>2, EmptyIsList DEF CreatesList, Moves, historyVars
<1>2. \A u \in Thread \ {w} : Holds(u) => field[u] # f
  BY <1>1, OthersElsewhere
<1> HIDE DEF f
<1>3. TypeOK'
  BY <1>1 DEF IInv, TypeOK, Lists, Inside
<1>4. WriterInv'
  <2>1. ASSUME NEW v \in Writer, v # w
        PROVE  /\ at[v] = "create" => data'[field[v]] = NONE
               /\ at[v] = "append" => data'[field[v]] # NONE
    <3>1. at[v] \in {"create", "append"} => field[v] \in Field /\ field[v] # f
      BY <1>2, <2>1 DEF IInv, WriterInv, TypeOK, Thread, Holds, Inside
    <3>2. QED
      BY <1>1, <3>1 DEF IInv, WriterInv, TypeOK
  <2>2. at'[w] = "append" /\ data'[f] # NONE /\ f = field'[w]
    BY <1>1 DEF IInv, TypeOK, f
  <2>3. \A v \in Writer : v # w => at'[v] = at[v]
    BY <1>1 DEF IInv, TypeOK
  <2>4. QED
    BY <1>1, <2>1, <2>2, <2>3 DEF IInv, WriterInv
<1>5. \A g \in Field : g # f => data'[g] = data[g]
  BY <1>1 DEF IInv, TypeOK
<1>6. CleanerInv'
  <2>1. at'[Cleaner] = at[Cleaner] /\ Keys \subseteq Keys'
    BY <1>1, <1>5 DEF IInv, TypeOK, Keys
  <2>2. at[Cleaner] = "replace" => field[Cleaner] \in Field /\ field[Cleaner] # f
    BY <1>2, <1>1 DEF IInv, CleanerInv, TypeOK, Thread, Holds, Inside
  <2>3. QED
    BY <1>1, <1>5, <2>1, <2>2 DEF IInv, CleanerInv
<1>7. LockInv' /\ ExclusiveField'
  BY <1>1, <1>5 DEF IInv, LockInv, Keys, Inside, Contested, TypeOK, ExclusiveField, Holds
<1>8. ListInv'
  <2>1. appended[f] = <<>> /\ data'[f] = <<>>
    BY <1>1 DEF IInv, ListInv, TypeOK
  <2>2. EndOf(<<>>, <<>>)
    BY EmptyIsList, Lengths
  <2>3. QED
    BY <1>1, <1>5, <2>1, <2>2 DEF IInv, ListInv
<1>9. DiskInv'
  BY <1>1 DEF IInv, DiskInv, Loaded, TypeOK
<1>10. QED
  BY <1>3, <1>4, <1>6, <1>7, <1>8, <1>9 DEF IInv

LEMMA AppendsHolds ==
  ASSUME IInv, NEW w \in Writer, Appends(w)
  PROVE  IInv'
<1> DEFINE f == field[w]
<1>1. /\ UNCHANGED <<locks, disk, failed, saved, view, now, crashes, oldest, made>>
      /\ w \in Thread /\ w # Cleaner /\ f \in Field /\ f \in todo[w]
      /\ at[w] = "append" /\ at' \in {[at EXCEPT ![w] = "idle"], [at EXCEPT ![w] = "next"]}
      /\ data[f] \in Seq(Record) /\ item[w] \in Record /\ appended[f] \in Seq(Record)
      /\ data' = [data EXCEPT ![f] = Append(@, item[w])]
      /\ appended' = [appended EXCEPT ![f] = Append(@, item[w])]
      /\ todo' = [todo EXCEPT ![w] = @ \ {f}]
      /\ field' = [field EXCEPT ![w] = NONE] /\ lock' = [lock EXCEPT ![w] = NONE]
      /\ item' = item \/ item' = [item EXCEPT ![w] = NoItem]
      /\ Holds(w)
  <2>1. w \in Thread /\ w # Cleaner /\ at[w] = "append" /\ Holds(w)
    BY DEF Appends, Thread, Holds, Inside
  <2>2. /\ f \in Field /\ f \in todo[w] /\ data[f] \in Seq(Record)
        /\ item[w] \in Record /\ appended[f] \in Seq(Record)
    <3>1. f \in Field /\ f \in todo[w] /\ data[f] \in Lists /\ data[f] # NONE
      BY <2>1 DEF IInv, TypeOK, WriterInv
    <3>2. item[w] \in Record /\ appended[f] \in Seq(Record)
      BY <3>1 DEF IInv, TypeOK
    <3>3. QED
      BY <3>1, <3>2, ListOrNone
  <2>3. QED
    BY <2>1, <2>2 DEF Appends, Leaves, Moves
<1>2. \A u \in Thread \ {w} : Holds(u) => field[u] # f
  BY <1>1, OthersElsewhere
<1>3. Append(data[f], item[w]) \in Seq(Record) /\ Append(data[f], item[w]) # NONE
      /\ Append(appended[f], item[w]) \in Seq(Record)
      /\ Len(Append(data[f], item[w])) = Len(data[f]) + 1
  <2>1. /\ Append(data[f], item[w]) \in Seq(Record)
        /\ Append(appended[f], item[w]) \in Seq(Record)
        /\ Len(Append(data[f], item[w])) = Len(data[f]) + 1
    BY <1>1, AppendProperties
  <2>2. QED
    BY <2>1, Lengths
<1> HIDE DEF f
<1>4. TypeOK'
  <2>1. NoItem \in Record
    BY DEF NoItem, Record
  <2>2. data' \in [Field -> Lists]
    BY <1>1, <1>3 DEF IInv, TypeOK, Lists
  <2>3. appended' \in [Field -> Seq(Record)]
    BY <1>1, <1>3 DEF IInv, TypeOK
  <2>4. item' \in [Writer -> Record]
    BY ZenonT(60), <1>1, <2>1 DEF IInv, TypeOK
  <2>5. QED
    BY <1>1, <2>2, <2>3, <2>4 DEF IInv, TypeOK
<1>5. \A g \in Field : g # f => data'[g] = data[g] /\ appended'[g] = appended[g]
  BY <1>1 DEF IInv, TypeOK
<1>6. \A t \in Thread : t # w =>
        at'[t] = at[t] /\ todo'[t] = todo[t] /\ field'[t] = field[t] /\ lock'[t] = lock[t]
  BY <1>1 DEF IInv, TypeOK
<1>7. at'[w] \in {"idle", "next"} /\ todo'[w] \subseteq todo[w]
      /\ data'[f] = Append(data[f], item[w])
  BY <1>1 DEF IInv, TypeOK
<1>8. WriterInv'
  <2>1. ASSUME NEW v \in Writer, v # w
        PROVE  /\ at[v] = "create" => data'[field[v]] = NONE
               /\ at[v] = "append" => data'[field[v]] # NONE
    <3>1. at[v] \in {"create", "append"} => field[v] \in Field /\ field[v] # f
      BY <1>2, <2>1 DEF IInv, WriterInv, TypeOK, Thread, Holds, Inside
    <3>2. QED
      BY <1>5, <3>1 DEF IInv, WriterInv
  <2>2. QED
    BY <1>1, <1>6, <1>7, <2>1 DEF IInv, WriterInv, Thread
<1>9. CleanerInv'
  <2>1. Cleaner \in Thread /\ Keys \subseteq Keys'
    BY <1>1, <1>3, <1>5, <1>7 DEF IInv, TypeOK, Keys, Thread
  <2>2. at[Cleaner] = "replace" => field[Cleaner] \in Field /\ field[Cleaner] # f
    BY <1>2, <1>1 DEF IInv, CleanerInv, TypeOK, Thread, Holds, Inside
  <2>3. QED
    BY <1>1, <1>5, <1>6, <2>1, <2>2 DEF IInv, CleanerInv
<1>10. LockInv'
  <2>1. Keys' = Keys
    BY <1>1, <1>3, <1>5, <1>7, Lengths DEF IInv, TypeOK, Keys
  <2>2. QED
    BY <1>1, <1>6, <1>7, <2>1 DEF IInv, LockInv, Inside, Contested
<1>11. ExclusiveField'
  BY <1>6, <1>7 DEF IInv, ExclusiveField, Holds, Inside
<1>12. ListInv'
  <2>1. /\ EndOf(data[f], appended[f])
        /\ LongEnough(data[f]) \/ data[f] = appended[f]
        /\ Len(data[f]) \in Nat
    BY <1>1, Lengths DEF IInv, ListInv
  <2>2. EndOf(Append(data[f], item[w]), Append(appended[f], item[w]))
    BY <1>1, <2>1, EndGrows, Lengths
  <2>3. \/ LongEnough(Append(data[f], item[w]))
        \/ Append(data[f], item[w]) = Append(appended[f], item[w])
    BY <1>3, <2>1 DEF LongEnough
  <2>4. appended'[f] = Append(appended[f], item[w])
    BY <1>1 DEF IInv, TypeOK
  <2>5. QED
    BY <1>3, <1>5, <1>7, <2>2, <2>3, <2>4 DEF IInv, ListInv
<1>13. DiskInv'
  BY <1>1, <1>6 DEF IInv, DiskInv, Loaded, Thread
<1>14. QED
  BY <1>4, <1>8, <1>9, <1>10, <1>11, <1>12, <1>13 DEF IInv

\* A step of the cleaner that leaves the lists alone.
LEMMA CleanerMovesHolds ==
  ASSUME IInv,
         \/ Wakes \/ CleanEnds \/ SaveWrites \/ SaveFails \/ SaveEnds
         \/ \E f \in Field : CleanReads(f) \/ SaveOpens(f) \/ SaveRefused(f)
  PROVE  IInv'
<1> DEFINE c == Cleaner
<1>1. /\ UNCHANGED <<data, locks, appended, item, now, made, crashes>>
      /\ c \in Thread /\ c \notin Writer
      /\ \A t \in Writer : t \in Thread /\ at'[t] = at[t] /\ todo'[t] = todo[t]
                           /\ field'[t] = field[t] /\ lock'[t] = lock[t]
  BY DEF Wakes, CleanEnds, SaveWrites, SaveFails, SaveEnds, CleanReads, SaveOpens, SaveRefused,
         Leaves, Moves, historyVars, Thread, IInv, TypeOK
<1>2. TypeOK'
  <2>1. CASE Wakes \/ CleanEnds \/ SaveEnds
    <3>1. oldest' \in Int
      BY <2>1 DEF Wakes, CleanEnds, SaveEnds, IInv, TypeOK
    <3>2. todo' \in [Thread -> SUBSET Field]
      BY <2>1, <1>1 DEF Wakes, CleanEnds, SaveEnds, IInv, TypeOK, Keys
    <3>3. at' \in [Thread -> {"idle", "next", "make", "look", "wait", "clean", "save"} \cup Inside]
      BY <2>1, <1>1 DEF Wakes, CleanEnds, SaveEnds, Moves, IInv, TypeOK
    <3>4. QED
      BY <2>1, <1>1, <3>1, <3>2, <3>3 DEF Wakes, CleanEnds, SaveEnds, historyVars, IInv, TypeOK
  <2>2. CASE SaveWrites \/ SaveFails
    <3>1. field[c] \in Field
      <4>1. at[c] = "write"
        BY <2>2 DEF SaveWrites, SaveFails
      <4>2. QED
        BY <4>1, <1>1 DEF IInv, CleanerInv, TypeOK
    <3>2. disk' \in [Field -> Lists \cup {TORN}] /\ saved' \in [Field -> Lists]
          /\ failed' \in SUBSET Field
      BY ZenonT(60), <2>2, <3>1 DEF SaveWrites, SaveFails, historyVars, IInv, TypeOK
    <3>3. /\ todo' = [todo EXCEPT ![c] = @ \ {field[c]}]
          /\ field' = [field EXCEPT ![c] = NONE] /\ lock' = [lock EXCEPT ![c] = NONE]
          /\ at' = [at EXCEPT ![c] = "save"]
      BY <2>2 DEF SaveWrites, SaveFails, Leaves, Moves
    <3>4. UNCHANGED <<view, oldest>>
      BY <2>2 DEF SaveWrites, SaveFails
    <3>5. QED
      BY <1>1, <3>2, <3>3, <3>4 DEF IInv, TypeOK
  <2>3. CASE \E f \in Field : CleanReads(f) \/ SaveOpens(f) \/ SaveRefused(f)
    <3>1. PICK f \in Field : CleanReads(f) \/ SaveOpens(f) \/ SaveRefused(f)
      BY <2>3
    <3>2. CASE CleanReads(f)
      <4>1. data[f] \in Seq(Record)
        BY <3>2, ListOrNone DEF CleanReads, IInv, CleanerInv, Keys, TypeOK
      <4>2. QED
        BY <3>2, <4>1, <1>1 DEF CleanReads, Moves, historyVars, IInv, TypeOK, Inside
    <3>3. CASE SaveOpens(f)
      BY <3>3, <1>1 DEF SaveOpens, Moves, historyVars, IInv, TypeOK, Inside
    <3>4. CASE SaveRefused(f)
      BY <3>4, <1>1 DEF SaveRefused, historyVars, IInv, TypeOK
    <3>5. QED
      BY <3>1, <3>2, <3>3, <3>4
  <2>4. QED
    BY <2>1, <2>2, <2>3
<1>3. WriterInv'
  BY <1>1 DEF IInv, WriterInv
<1>4. CleanerInv'
  <2>1. Keys' = Keys
    BY <1>1 DEF Keys
  <2>2. CASE Wakes \/ CleanEnds \/ SaveEnds \/ SaveWrites \/ SaveFails
    BY <2>1, <2>2, <1>1 DEF Wakes, CleanEnds, SaveEnds, SaveWrites, SaveFails, Leaves, Moves,
                            IInv, CleanerInv, TypeOK
  <2>3. CASE \E f \in Field : CleanReads(f) \/ SaveOpens(f) \/ SaveRefused(f)
    BY <2>1, <2>3, <1>1 DEF CleanReads, SaveOpens, SaveRefused, Moves, IInv, CleanerInv, TypeOK
  <2>4. QED
    BY <2>2, <2>3
<1>5. \A f \in Field : disk'[f] = NONE => disk[f] = NONE \/ data[f] = NONE
  BY DEF Wakes, CleanEnds, SaveWrites, SaveFails, SaveEnds, CleanReads, SaveOpens, SaveRefused,
         historyVars, IInv, TypeOK, Lists
<1>6. LockInv'
  <2>1. \A f \in Field : Contested(f) => disk'[f] # NONE
    <3>1. CASE SaveWrites
      <4>1. data[field[c]] # NONE
        BY <3>1 DEF SaveWrites, IInv, CleanerInv, Keys
      <4>2. QED
        BY <3>1, <4>1 DEF SaveWrites, IInv, LockInv, TypeOK
    <3>2. CASE ~SaveWrites
      BY <3>2 DEF Wakes, CleanEnds, SaveFails, SaveEnds, CleanReads, SaveOpens, SaveRefused,
                  historyVars, IInv, LockInv, TypeOK, Lists
    <3>3. QED
      BY <3>1, <3>2
  <2>2. /\ at'[c] \in {"look", "wait"} \cup Inside => locks[field'[c]] # NONE
        /\ at'[c] \in {"wait"} \cup Inside => lock'[c] = locks[field'[c]]
    <3>1. CASE Wakes \/ CleanEnds \/ SaveEnds \/ SaveWrites \/ SaveFails
      BY <3>1, <1>1 DEF Wakes, CleanEnds, SaveEnds, SaveWrites, SaveFails, Leaves, Moves,
                        IInv, TypeOK, Inside
    <3>2. CASE \E f \in Field : CleanReads(f) \/ SaveOpens(f) \/ SaveRefused(f)
      BY <3>2, <1>1 DEF CleanReads, SaveOpens, SaveRefused, Moves, IInv, TypeOK, Inside,
                        CleanerInv, LockInv, Keys
    <3>3. QED
      BY <3>1, <3>2
  <2>3. QED
    BY <1>1, <2>1, <2>2 DEF IInv, LockInv, Keys, Contested, Thread
<1>7. ExclusiveField'
  <2>1. ASSUME NEW w \in Writer, at'[c] \in Inside, at[w] \in Inside
        PROVE  field'[c] # field[w]
    <3>1. PICK f \in Field : CleanReads(f) \/ SaveOpens(f) \/ SaveRefused(f)
      BY <2>1, <1>1 DEF Wakes, CleanEnds, SaveEnds, SaveWrites, SaveFails, Leaves, Moves,
                        IInv, TypeOK, Inside
    <3>2. at[c] \notin Inside
      BY <3>1 DEF CleanReads, SaveOpens, SaveRefused, Inside
    <3>3. CleanReads(f) \/ SaveOpens(f)
      BY <2>1, <3>1, <3>2 DEF SaveRefused
    <3>4. field'[c] = f /\ ~(field[w] = f /\ lock[w] = locks[f])
      BY <1>1, <2>1, <3>3 DEF CleanReads, SaveOpens, Holds, IInv, TypeOK
    <3>5. lock[w] = locks[field[w]]
      BY <1>1, <2>1 DEF IInv, LockInv
    <3>6. QED
      BY <3>4, <3>5
  <2>2. QED
    BY <1>1, <2>1 DEF IInv, ExclusiveField, Holds, Thread
<1>8. ListInv'
  BY <1>1 DEF IInv, ListInv
<1>9. DiskInv'
  <2>1. CASE Wakes \/ CleanEnds \/ SaveEnds
    BY <2>1, <1>1 DEF Wakes, CleanEnds, SaveEnds, Moves, historyVars, IInv, DiskInv, Loaded, TypeOK
  <2>2. CASE SaveWrites
    <3>1. field[c] \in Field /\ data[field[c]] # TORN /\ DiskCache
      <4>1. at[c] = "write"
        BY <2>2 DEF SaveWrites
      <4>2. field[c] \in Field /\ DiskCache
        BY <4>1, <1>1 DEF IInv, CleanerInv, TypeOK
      <4>3. QED
        BY <4>2 DEF IInv, TypeOK
    <3>2. /\ Loaded(disk)'[field[c]] = saved'[field[c]]
          /\ \A f \in Field : f # field[c] => Loaded(disk)'[f] = Loaded(disk)[f]
                                              /\ saved'[f] = saved[f]
      BY <2>2, <3>1 DEF SaveWrites, Loaded, IInv, TypeOK
    <3>3. QED
      BY <2>2, <3>2 DEF SaveWrites, IInv, DiskInv
  <2>3. CASE SaveFails
    BY <2>3 DEF SaveFails, historyVars, IInv, DiskInv, Loaded
  <2>4. CASE \E f \in Field : CleanReads(f) \/ SaveOpens(f) \/ SaveRefused(f)
    BY <2>4, <1>1 DEF CleanReads, SaveOpens, SaveRefused, Moves, historyVars, IInv, DiskInv,
                      Loaded, TypeOK
  <2>5. QED
    BY <2>1, <2>2, <2>3, <2>4
<1>10. QED
  BY <1>2, <1>3, <1>4, <1>6, <1>7, <1>8, <1>9 DEF IInv

\* Nobody has changed the list since cleanup read it, and what cleanup puts
\* in its place is an end of it.
LEMMA CleanReplacesHolds ==
  ASSUME IInv, CleanReplaces
  PROVE  IInv'
<1> DEFINE f    == field[Cleaner]
           left == CleanedUp(view, oldest)
<1>1. /\ UNCHANGED <<locks, disk, failed, item, oldest, now, made, crashes, appended, saved>>
      /\ Cleaner \in Thread /\ Cleaner \notin Writer /\ f \in Field /\ f \in Keys
      /\ at[Cleaner] = "replace" /\ at' = [at EXCEPT ![Cleaner] = "clean"]
      /\ data' = [data EXCEPT ![f] = left] /\ view' = <<>> /\ Holds(Cleaner)
      /\ todo' = [todo EXCEPT ![Cleaner] = @ \ {f}]
      /\ field' = [field EXCEPT ![Cleaner] = NONE] /\ lock' = [lock EXCEPT ![Cleaner] = NONE]
      /\ view = data[f] /\ view \in Seq(Record) /\ oldest \in Int /\ appended[f] \in Seq(Record)
  BY DEF CleanReplaces, Leaves, Moves, historyVars, Thread, Holds, Inside, IInv, TypeOK,
         CleanerInv, Keys
<1>2. \A u \in Thread \ {Cleaner} : Holds(u) => field[u] # f
  BY <1>1, OthersElsewhere
<1>3. /\ left \in Seq(Record) /\ left # NONE /\ EndOf(left, appended[f])
      /\ LongEnough(left) \/ left = appended[f]
  <2>1. EndOf(view, appended[f]) /\ (LongEnough(view) \/ view = appended[f])
    BY <1>1 DEF IInv, ListInv, Keys
  <2>2. QED
    BY <1>1, <2>1, CleanupLeavesEnd, Lengths
<1> HIDE DEF f, left
<1>4. /\ data'[f] = left /\ \A g \in Field : g # f => data'[g] = data[g]
      /\ \A t \in Writer : t \in Thread /\ at'[t] = at[t] /\ todo'[t] = todo[t]
                           /\ field'[t] = field[t] /\ lock'[t] = lock[t]
      /\ at'[Cleaner] = "clean" /\ todo'[Cleaner] \subseteq todo[Cleaner]
  BY <1>1 DEF IInv, TypeOK, Thread
<1>5. TypeOK'
  <2>1. data' \in [Field -> Lists]
    BY <1>1, <1>3 DEF IInv, TypeOK, Lists
  <2>2. QED
    BY <1>1, <2>1 DEF IInv, TypeOK
<1>6. Keys' = Keys
  BY <1>1, <1>3, <1>4 DEF Keys
<1>7. WriterInv'
  <2>1. \A w \in Writer : at[w] \in {"create", "append"} => field[w] \in Field /\ field[w] # f
    BY <1>1, <1>2, <1>4 DEF IInv, WriterInv, TypeOK, Holds, Inside
  <2>2. QED
    BY <1>1, <1>4, <2>1 DEF IInv, WriterInv
<1>8. CleanerInv'
  BY <1>4, <1>6 DEF IInv, CleanerInv
<1>9. LockInv' /\ ExclusiveField'
  BY <1>1, <1>4, <1>6 DEF IInv, LockInv, ExclusiveField, Contested, Holds, Inside, Thread
<1>10. ListInv'
  BY <1>1, <1>3, <1>4 DEF IInv, ListInv
<1>11. DiskInv'
  BY <1>1, <1>4 DEF IInv, DiskInv, Loaded
<1>12. QED
  BY <1>5, <1>7, <1>8, <1>9, <1>10, <1>11 DEF IInv

LEMMA StaysHolds ==
  ASSUME IInv, Tick \/ UNCHANGED vars
  PROVE  IInv'
<1>1. /\ UNCHANGED <<data, locks, disk, failed, threadVars, made, crashes, historyVars>>
      /\ now' \in 0..TimeBound
  BY DEF Tick, vars, IInv, TypeOK
<1>2. TypeOK' /\ WriterInv' /\ CleanerInv'
  BY <1>1 DEF threadVars, historyVars, IInv, TypeOK, WriterInv, CleanerInv, Keys
<1>3. LockInv' /\ ExclusiveField' /\ DiskInv'
  BY <1>1 DEF threadVars, historyVars, IInv, LockInv, ExclusiveField, Contested, Holds, Keys,
              DiskInv, Loaded
<1>4. ListInv'
  BY <1>1 DEF historyVars, IInv, ListInv
<1>5. QED
  BY <1>2, <1>3, <1>4 DEF IInv

LEMMA NextHolds == IInv /\ [Next]_vars => IInv'
<1> SUFFICES ASSUME IInv, [Next]_vars
             PROVE  IInv'
  OBVIOUS
<1>1. ASSUME NEW w \in Writer, Receives(w) \/ CacheRecord(w)
      PROVE  IInv'
  BY <1>1, WriterMovesHolds, MakesLockHolds, CreatesListHolds, AppendsHolds DEF CacheRecord
<1>2. CASE CleanupLoop
  BY <1>2, CleanerMovesHolds, CleanReplacesHolds DEF CleanupLoop
<1>3. CASE Restart
  BY <1>3, RestartHolds
<1>4. CASE Tick \/ UNCHANGED vars
  BY <1>4, StaysHolds
<1>5. QED
  BY <1>1, <1>2, <1>3, <1>4 DEF Next

LEMMA InvHolds == LockedFromTheStart => (Spec => []IInv)
<1> SUFFICES ASSUME LockedFromTheStart
             PROVE  Spec => []IInv
  OBVIOUS
<1>1. Init => IInv
  BY InitHolds
<1>2. IInv /\ [Next]_vars => IInv'
  BY NextHolds
<1>3. QED
  BY <1>1, <1>2, PTL DEF Spec

-----------------------------------------------------------------------------
(***************************************************************************)
(* The theorems.                                                           *)
(***************************************************************************)
\* At every step of cache_record, cleanup and save_to_disk every variable has
\* its type: a field has no list or one of records, a lock is a writer's or
\* the loader's, and cleanup works on a list.
THEOREM TypeCorrect == LockedFromTheStart => (Spec => []TypeOK)
<1>1. IInv => TypeOK
  BY DEF IInv
<1>2. QED
  BY <1>1, InvHolds, PTL

\* `with self.locks[field]` keeps two threads from working on the list of a
\* field at once, although the locks themselves are made without one.
THEOREM FieldIsExclusive == LockedFromTheStart => (Spec => []ExclusiveField)
<1>1. IInv => ExclusiveField
  BY DEF IInv
<1>2. QED
  BY <1>1, InvHolds, PTL

\* No record that cache_record has cached is lost but by cleanup, from the
\* old end and never below min_back_records, however cleanup, saving and
\* several writers interleave.
THEOREM LatestIsCached == LockedFromTheStart => (Spec => []CacheIsLatest)
<1>1. IInv => CacheIsLatest
  <2> SUFFICES ASSUME IInv, NEW f \in Keys
               PROVE  /\ IsSuffix(data[f], appended[f])
                      /\ \/ Len(data[f]) >= MinBack /\ Len(data[f]) >= 1
                         \/ data[f] = appended[f]
    BY DEF CacheIsLatest
  <2>1. data[f] \in Seq(Record) /\ appended[f] \in Seq(Record)
    BY ListOrNone DEF IInv, TypeOK, Keys
  <2>2. EndOf(data[f], appended[f]) /\ (LongEnough(data[f]) \/ data[f] = appended[f])
    BY DEF IInv, ListInv, Keys
  <2>3. QED
    BY <2>1, <2>2, EndIsSuffix DEF LongEnough
<1>2. QED
  BY <1>1, InvHolds, PTL

\* The three together: the cache is sound at every step of every thread.
THEOREM CacheIsSafe == LockedFromTheStart => (Spec => []CacheSafe)
<1>1. TypeOK /\ ExclusiveField /\ CacheIsLatest => CacheSafe
  BY DEF CacheSafe
<1>2. QED
  BY <1>1, TypeCorrect, FieldIsExclusive, LatestIsCached, PTL

\* What a step may take from a list, while the process lives.
StepKeepsYoung ==
  crashes' = crashes =>
    \A f \in Keys : LET gone == Len(data[f]) - Len(data'[f]) IN
      \A i \in 1..gone : \/ data[f][i].ts <= oldest
                         \/ MaxRecords > MinBack /\ i <= Len(data[f]) - MaxRecords

LEMMA AnyStepKeepsYoung ==
  ASSUME IInv, [Next]_vars
  PROVE  StepKeepsYoung
<1> SUFFICES ASSUME crashes' = crashes, NEW f \in Keys, NEW i \in 1..(Len(data[f]) - Len(data'[f]))
             PROVE  \/ data[f][i].ts <= oldest
                    \/ MaxRecords > MinBack /\ i <= Len(data[f]) - MaxRecords
  BY DEF StepKeepsYoung
<1>1. f \in Field /\ data[f] \in Seq(Record) /\ Len(data[f]) \in Nat
  BY ListOrNone DEF IInv, TypeOK, Keys
<1>2. CASE CleanReplaces
  <2>1. /\ field[Cleaner] \in Field /\ oldest \in Int /\ view = data[field[Cleaner]]
        /\ data' = [data EXCEPT ![field[Cleaner]] = CleanedUp(view, oldest)]
    BY <1>2 DEF CleanReplaces, IInv, CleanerInv, TypeOK, Thread
  <2>2. CASE f = field[Cleaner]
    <3>1. PICK gone \in 0..Len(data[f]) :
            /\ CleanedUp(data[f], oldest) = SubSeq(data[f], gone + 1, Len(data[f]))
            /\ \A j \in 1..gone : \/ data[f][j].ts <= oldest
                                  \/ MaxRecords > MinBack /\ j <= Len(data[f]) - MaxRecords
      BY <1>1, <2>1, CleanupCuts
    <3>2. data'[f] = SubSeq(data[f], gone + 1, Len(data[f]))
      BY <1>1, <2>1, <2>2, <3>1 DEF IInv, TypeOK
    <3>3. Len(data[f]) - Len(data'[f]) = gone
      BY <1>1, <3>1, <3>2
    <3>4. QED
      BY <3>1, <3>3
  <2>3. CASE f # field[Cleaner]
    BY <1>1, <2>1, <2>3 DEF IInv, TypeOK
  <2>4. QED
    BY <2>2, <2>3
<1>3. ASSUME NEW w \in Writer, Appends(w)
      PROVE  FALSE
  <2>1. w \in Thread /\ field[w] \in Field /\ item[w] \in Record
        /\ data' = [data EXCEPT ![field[w]] = Append(@, item[w])]
    BY <1>3 DEF Appends, IInv, WriterInv, TypeOK, Thread
  <2>2. Len(data'[f]) >= Len(data[f]) /\ Len(data'[f]) \in Nat
    BY <1>1, <2>1, AppendProperties DEF IInv, TypeOK
  <2>3. QED
    BY <1>1, <2>2
<1>4. ASSUME data'[f] = data[f]
      PROVE  FALSE
  BY <1>1, <1>4
<1>5. CASE UNCHANGED data
  BY <1>4, <1>5
<1>6. ASSUME NEW w \in Writer, CreatesList(w)
      PROVE  FALSE
  <2>1. w \in Thread /\ field[w] \in Field /\ data[field[w]] = NONE
        /\ data' = [data EXCEPT ![field[w]] = <<>>]
    BY <1>6 DEF CreatesList, IInv, WriterInv, TypeOK, Thread
  <2>2. QED
    BY <1>1, <1>4, <2>1 DEF IInv, TypeOK, Keys
<1>7. CASE Restart
  BY <1>7 DEF Restart, IInv, TypeOK
<1>8. QED
  BY <1>2, <1>3, <1>5, <1>6, <1>7
     DEF Next, CacheRecord, CleanupLoop, vars, Receives, Looks, MakesLock, LooksUp, Enters, Wakes,
         CleanEnds, CleanReads, SaveOpens, SaveRefused, SaveWrites, SaveFails, SaveEnds, Tick

\* cleanup drops only records older than back_seconds, or beyond max_records:
\* no other step of any thread takes a record from a list.
THEOREM YoungRecordsAreKept == LockedFromTheStart => (Spec => YoungAreKept)
<1> SUFFICES ASSUME LockedFromTheStart
             PROVE  Spec => YoungAreKept
  OBVIOUS
<1>1. Spec => []IInv
  BY InvHolds
<1>2. IInv /\ [Next]_vars => [StepKeepsYoung]_vars
  BY AnyStepKeepsYoung
<1>3. Spec => [][StepKeepsYoung]_vars
  BY <1>1, <1>2, PTL DEF Spec
<1>4. QED
  BY <1>3 DEF YoungAreKept, StepKeepsYoung

\* What a step that restarts the process finds.
StepLosesTorn ==
  crashes' # crashes =>
    \A f \in Field : \/ data'[f] = saved[f]
                     \/ f \in failed
                     \/ at[Cleaner] = "write" /\ field[Cleaner] = f

\* A restart finds in every field what save_to_disk last wrote, unless it was
\* writing the file at that moment, or had failed to.
THEOREM OnlyTornFilesAreLost == LockedFromTheStart => (Spec => OnlyTornIsLost)
<1> SUFFICES ASSUME LockedFromTheStart
             PROVE  Spec => OnlyTornIsLost
  OBVIOUS
<1>1. Spec => []IInv
  BY InvHolds
<1>2. IInv /\ [Next]_vars => [StepLosesTorn]_vars
  <2> SUFFICES ASSUME IInv, Next, crashes' # crashes
               PROVE  StepLosesTorn
    BY DEF StepLosesTorn, vars
  <2>1. Restart
    BY DEF Next, CacheRecord, CleanupLoop, Receives, Looks, MakesLock, LooksUp, Enters,
           CreatesList, Appends, Wakes, CleanReads, CleanReplaces, CleanEnds, SaveOpens,
           SaveRefused, SaveWrites, SaveFails, SaveEnds, Tick
  <2>2. \A f \in Field : data'[f] = Loaded(disk)[f]
    BY <2>1 DEF Restart
  <2>3. QED
    BY <2>2 DEF StepLosesTorn, IInv, DiskInv
<1>3. Spec => [][StepLosesTorn]_vars
  BY <1>1, <1>2, PTL DEF Spec
<1>4. QED
  BY <1>3 DEF OnlyTornIsLost, StepLosesTorn

=============================================================================
