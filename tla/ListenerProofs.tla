--------------------------- MODULE ListenerProofs ---------------------------
(***************************************************************************)
(* Proofs about Listener, for any number of readers and of writers, any    *)
(* supply of records, any choice of calls that raise and of records that   *)
(* are filtered, and any number of failures.                               *)
(***************************************************************************)
EXTENDS Listener, SequenceTheorems, TLAPS

-----------------------------------------------------------------------------
(***************************************************************************)
(* The readers: what their threads and read() keep between them.           *)
(***************************************************************************)
\* A reader that has given its EOF has given all its records, and read()
\* pops only what is there, as nobody else takes from the queue.
ReaderInv ==
  /\ R!TypeOK
  /\ \A i \in R!Reader : calls[i] <= Supply[i] /\ (eof[i] => calls[i] = Supply[i])
  /\ R!InOrderOnce
  /\ R!NoMissedWakeup
  /\ caller = "popping" => queue # <<>>

USE ListenerAssumption DEF R!ReaderAssumption, W!WriterAssumption

LEMMA Records ==
  /\ NONE \notin Record /\ Raising \subseteq Record
  /\ \A r \in Record : r = <<r[1], r[2]>> /\ r[1] \in R!Reader /\ r[2] \in 1..Supply[r[1]]
  /\ \A i \in R!Reader : \A n \in 1..Supply[i] : <<i, n>> \in Record
  /\ \A i, n : <<i, n>> \in Record => i \in R!Reader /\ n \in 1..Supply[i]
<1>1. \A r : r \in Record <=> \E i \in R!Reader : \E n \in 1..Supply[i] : r = <<i, n>>
  BY DEF Record, R!Record
<1>2. \A i \in R!Reader : \A n \in 1..Supply[i] : <<i, n>> \in Record
  BY <1>1
<1>3. \A r \in Record : r = <<r[1], r[2]>> /\ r[1] \in R!Reader /\ r[2] \in 1..Supply[r[1]]
  BY <1>1
<1>4. \A i, n : <<i, n>> \in Record => i \in R!Reader /\ n \in 1..Supply[i]
  BY <1>1
<1>5. QED
  BY <1>2, <1>3, <1>4 DEF Record

\* read() moves the oldest record of the queue to the records it returned.
LEMMA PopKeepsFlow ==
  ASSUME NEW s \in Seq(Record), NEW q \in Seq(Record), q # <<>>
  PROVE  /\ Append(s, Head(q)) \o Tail(q) = s \o q
         /\ Head(q) \in Record /\ Tail(q) \in Seq(Record) /\ Append(s, Head(q)) \in Seq(Record)
<1>1. /\ Head(q) \in Record /\ Tail(q) \in Seq(Record) /\ Len(Tail(q)) = Len(q) - 1
      /\ \A i \in 1..Len(Tail(q)) : Tail(q)[i] = q[i + 1]
      /\ Head(q) = q[1] /\ Len(q) \in Nat \ {0} /\ Len(s) \in Nat
  BY HeadTailProperties, EmptySeq
<1>2. /\ Append(s, Head(q)) \in Seq(Record) /\ Len(Append(s, Head(q))) = Len(s) + 1
      /\ \A i \in 1..Len(s) : Append(s, Head(q))[i] = s[i]
      /\ Append(s, Head(q))[Len(s) + 1] = q[1]
  BY <1>1, AppendProperties
<1> DEFINE a == Append(s, Head(q))  t == Tail(q)
<1> HIDE DEF a, t
<1>3. /\ a \o t \in Seq(Record) /\ Len(a \o t) = Len(s) + Len(q)
      /\ \A i \in 1..(Len(s) + Len(q)) :
           (a \o t)[i] = IF i <= Len(s) + 1 THEN a[i] ELSE t[i - (Len(s) + 1)]
  BY <1>1, <1>2, ConcatProperties DEF a, t
<1>4. /\ s \o q \in Seq(Record) /\ Len(s \o q) = Len(s) + Len(q)
      /\ \A i \in 1..(Len(s) + Len(q)) : (s \o q)[i] = IF i <= Len(s) THEN s[i] ELSE q[i - Len(s)]
  BY ConcatProperties
<1>5. \A i \in 1..(Len(s) + Len(q)) : (a \o t)[i] = (s \o q)[i]
  BY <1>1, <1>2, <1>3, <1>4 DEF a, t
<1>6. a \o t = s \o q
  BY <1>3, <1>4, <1>5, SeqEqual
<1>7. QED
  BY <1>1, <1>2, <1>6 DEF a, t

\* A thread adds its record behind all the others.
LEMMA AddGrowsFlow ==
  ASSUME NEW s \in Seq(Record), NEW q \in Seq(Record), NEW r \in Record
  PROVE  s \o Append(q, r) = Append(s \o q, r)
<1>1. Append(q, r) = q \o <<r>> /\ <<r>> \in Seq(Record)
  BY AppendIsConcat
<1>2. s \o q \in Seq(Record) /\ Append(s \o q, r) = (s \o q) \o <<r>>
  BY ConcatProperties, AppendIsConcat
<1>3. QED
  BY <1>1, <1>2, ConcatAssociative

LEMMA ReaderInit == R!Init => ReaderInv
<1> SUFFICES ASSUME R!Init
             PROVE  ReaderInv
  OBVIOUS
<1>1. <<>> \in Seq(Record) /\ <<>> \o <<>> = <<>>
  BY EmptySeq, ConcatEmptySeq
<1>2. R!TypeOK
  <2>1. queue \in Seq(R!Record) /\ returned \in Seq(R!Record)
    BY <1>1 DEF R!Init, Record
  <2>2. index \in 1..(NumReaders + 1)
    BY DEF R!Init
  <2>3. QED
    BY <2>1, <2>2 DEF R!Init, R!TypeOK
<1>3. R!InOrderOnce
  BY <1>1 DEF R!Init, R!InOrderOnce, R!Flow, R!Given, R!ToSet
<1>4. QED
  BY <1>2, <1>3 DEF ReaderInv, R!Init, R!NoMissedWakeup

\* Nothing has moved: the invariant's parts hold as before.
LEMMA SameFlow ==
  ASSUME ReaderInv, UNCHANGED <<calls, hand>>, returned' \o queue' = returned \o queue
  PROVE  R!InOrderOnce'
BY DEF ReaderInv, R!InOrderOnce, R!Flow, R!Given

\* A step of read().
LEMMA CallerHolds ==
  ASSUME ReaderInv, R!ReadBegins \/ R!Calling
  PROVE  ReaderInv'
<1>1. UNCHANGED <<eof, calls, hand>>
  BY DEF R!ReadBegins, R!Calling, R!Pops, R!StartsThread, R!ThreadsStarted, R!SetsNeeds, R!Loops,
         R!LooksForRecord, R!WaitEnds, R!threadVars
<1>2. /\ queue \in Seq(Record) /\ returned \in Seq(Record)
  BY DEF ReaderInv, R!TypeOK, Record
<1>3. CASE R!Pops \/ (R!LooksForRecord /\ queue # <<>>)
  <2>1. /\ queue # <<>> /\ queue' = Tail(queue) /\ result' = Head(queue)
        /\ returned' = Append(returned, Head(queue)) /\ caller' = "idle"
        /\ UNCHANGED <<needs, thread, index>> /\ has' \in BOOLEAN
    <3>1. queue # <<>>
      BY <1>3 DEF ReaderInv, R!Pops
    <3>2. Head(queue) # NONE
      BY <1>2, <3>1, PopKeepsFlow, Records
    <3>3. QED
      BY <1>3, <3>1, <3>2 DEF R!Pops, R!LooksForRecord, R!Returns, R!Goes, R!threadVars,
                              ReaderInv, R!TypeOK
  <2>2. /\ returned' \o queue' = returned \o queue
        /\ queue' \in Seq(Record) /\ returned' \in Seq(Record) /\ result' \in Record
    BY <1>2, <2>1, PopKeepsFlow
  <2>3. R!TypeOK'
    BY <1>1, <2>1, <2>2 DEF ReaderInv, R!TypeOK, Record
  <2>4. R!InOrderOnce'
    BY <1>1, <2>2, SameFlow
  <2>5. QED
    BY <1>1, <2>1, <2>3, <2>4 DEF ReaderInv, R!NoMissedWakeup
<1>4. CASE ~(R!Pops \/ (R!LooksForRecord /\ queue # <<>>))
  <2>1. UNCHANGED <<queue, returned>>
    BY <1>4 DEF R!ReadBegins, R!Calling, R!StartsThread, R!ThreadsStarted, R!SetsNeeds, R!Loops,
                R!LooksForRecord, R!WaitEnds, R!threadVars, R!Returns
  <2>2. R!TypeOK'
    <3>1. CASE R!ReadBegins \/ R!ThreadsStarted \/ R!SetsNeeds \/ R!WaitEnds
      <4>1. /\ caller' \in {"popping", "starting", "setting", "looping"}
            /\ index' \in {1, index} /\ UNCHANGED <<has, thread, result>>
        BY <3>1 DEF R!ReadBegins, R!ThreadsStarted, R!SetsNeeds, R!WaitEnds, R!Goes, R!threadVars
      <4>2. index' \in 1..(NumReaders + 1)
        BY <4>1 DEF ReaderInv, R!TypeOK
      <4>3. needs' \in BOOLEAN
        BY <3>1 DEF R!ReadBegins, R!ThreadsStarted, R!SetsNeeds, R!WaitEnds, ReaderInv, R!TypeOK
      <4>4. QED
        BY <1>1, <2>1, <4>1, <4>2, <4>3 DEF ReaderInv, R!TypeOK
    <3>2. CASE R!Loops \/ R!LooksForRecord
      BY <1>1, <1>4, <2>1, <3>2 DEF R!Loops, R!LooksForRecord, R!Goes, R!Returns, R!threadVars,
                                    ReaderInv, R!TypeOK
    <3>3. CASE R!StartsThread
      <4>1. /\ UNCHANGED <<has, needs, caller, result>> /\ index' \in 1..(NumReaders + 1)
            /\ \/ UNCHANGED thread
               \/ /\ index \in R!Reader /\ thread[index] = "none"
                  /\ thread' = [thread EXCEPT ![index] = "waiting"]
        BY <3>3 DEF R!StartsThread, R!Reader, ReaderInv, R!TypeOK
      <4>2. QED
        BY ZenonT(60), <1>1, <2>1, <4>1 DEF ReaderInv, R!TypeOK
    <3>4. QED
      BY <1>4, <3>1, <3>2, <3>3 DEF R!Calling
  <2>3. R!InOrderOnce'
    BY <1>1, <2>1, SameFlow
  <2>4. R!NoMissedWakeup' /\ (caller' = "popping" => queue' # <<>>)
    BY <1>4, <2>1 DEF R!ReadBegins, R!Calling, R!StartsThread, R!ThreadsStarted, R!SetsNeeds,
                      R!Loops, R!LooksForRecord, R!WaitEnds, R!Goes, R!Returns, R!threadVars,
                      ReaderInv, R!NoMissedWakeup
  <2>5. QED
    BY <1>1, <2>2, <2>3, <2>4 DEF ReaderInv
<1>5. QED
  BY <1>3, <1>4

\* A thread that moves, and one whose reader is at its end: no record moves.
LEMMA ThreadMovesHolds ==
  ASSUME ReaderInv, NEW i \in R!Reader,
         R!WakesUp(i) \/ R!TimesOut(i) \/ R!Ends(i) \/ R!ReadsNone(i) \/ R!ClearsNeeds(i)
  PROVE  ReaderInv'
<1>1. /\ UNCHANGED <<queue, has, calls, hand, caller, index, result, returned>>
      /\ thread[i] # "adding" /\ needs' \in BOOLEAN
      /\ \E s \in {"none", "waiting", "reading", "leaving"} : thread' = [thread EXCEPT ![i] = s]
  BY DEF R!WakesUp, R!TimesOut, R!Ends, R!ReadsNone, R!ClearsNeeds, R!Becomes, R!callerVars,
         ReaderInv, R!TypeOK
<1>2. /\ eof' \in [R!Reader -> BOOLEAN]
      /\ \A j \in R!Reader : eof'[j] => calls[j] = Supply[j]
  BY DEF R!WakesUp, R!TimesOut, R!Ends, R!ReadsNone, R!ClearsNeeds, ReaderInv, R!TypeOK
<1>3. R!TypeOK'
  BY ZenonT(60), <1>1, <1>2 DEF ReaderInv, R!TypeOK
<1>4. R!InOrderOnce'
  BY <1>1, SameFlow
<1>5. QED
  BY <1>1, <1>2, <1>3, <1>4 DEF ReaderInv, R!NoMissedWakeup

\* A reader returns a record, or raises an exception.
LEMMA ReadHolds ==
  ASSUME ReaderInv, NEW i \in R!Reader, R!Reads(i) \/ R!ReadRaises(i)
  PROVE  ReaderInv'
<1> DEFINE n == calls[i] + 1
<1>1. /\ UNCHANGED <<queue, eof, has, needs, caller, index, result, returned>>
      /\ thread[i] = "reading" /\ <<i, n>> \in Record
      /\ calls' = [calls EXCEPT ![i] = n]
      /\ \/ /\ <<i, n>> \notin Raising /\ hand' = [hand EXCEPT ![i] = <<i, n>>]
            /\ thread' = [thread EXCEPT ![i] = "adding"]
         \/ /\ <<i, n>> \in Raising /\ UNCHANGED hand
            /\ thread' = [thread EXCEPT ![i] = "leaving"]
  BY Records DEF R!Reads, R!ReadRaises, R!Becomes, R!callerVars, Record
<1>2. n \in 1..Supply[i] /\ n \in Nat /\ ~eof[i] /\ hand[i] = NONE /\ calls[i] \in Nat
  <2>1. n \in 1..Supply[i] /\ hand[i] = NONE /\ calls[i] \in Nat
    BY <1>1, Records DEF ReaderInv, R!TypeOK
  <2>2. QED
    BY <2>1 DEF ReaderInv
<1> HIDE DEF n
<1>3. R!TypeOK'
  <2>1. hand' \in [R!Reader -> Record \cup {NONE}] /\ calls' \in [R!Reader -> Nat]
    <3>1. hand \in [R!Reader -> Record \cup {NONE}] /\ calls \in [R!Reader -> Nat]
      BY DEF ReaderInv, R!TypeOK, Record
    <3>2. hand' \in [R!Reader -> Record \cup {NONE}]
      BY <1>1, <3>1
    <3>3. calls' \in [R!Reader -> Nat]
      BY <1>1, <1>2, <3>1
    <3>4. QED
      BY <3>2, <3>3
  <2>2. \A j \in R!Reader : hand'[j] # NONE <=> thread'[j] = "adding"
    BY ZenonT(60), <1>1, <1>2, Records DEF ReaderInv, R!TypeOK
  <2>3. QED
    BY <1>1, <2>1, <2>2 DEF ReaderInv, R!TypeOK, Record
<1>4. \A j \in R!Reader : calls'[j] <= Supply[j] /\ (eof'[j] => calls'[j] = Supply[j])
  BY <1>1, <1>2 DEF ReaderInv, R!TypeOK
<1>5. \A j \in R!Reader : j # i => R!Given(j)' = R!Given(j) /\ hand'[j] = hand[j] /\ calls'[j] = calls[j]
  BY <1>1 DEF R!Given, ReaderInv, R!TypeOK
<1>6. /\ R!Given(i)' \ {hand'[i]} = R!Given(i) \ {hand[i]}
      /\ hand'[i] # NONE => hand'[i] \in R!Given(i)' /\ hand'[i] = <<i, calls'[i]>>
  <2>1. calls'[i] = n /\ 1..n = 1..calls[i] \cup {n} /\ n \notin 1..calls[i]
    BY <1>1, <1>2 DEF ReaderInv, R!TypeOK, n
  <2>2. {<<i, k>> : k \in 1..n} = {<<i, k>> : k \in 1..calls[i]} \cup {<<i, n>>}
    BY <2>1
  <2>3. <<i, n>> \notin {<<i, k>> : k \in 1..calls[i]}
    BY <2>1
  <2>4. NONE \notin R!Given(i)
    <3>1. \A k \in 1..calls[i] : <<i, k>> \in Record
      BY <1>2, Records DEF n
    <3>2. QED
      BY <3>1, Records DEF R!Given
  <2>5. \/ hand'[i] = <<i, n>> /\ <<i, n>> \notin Raising
        \/ hand'[i] = NONE /\ <<i, n>> \in Raising
    BY <1>1, <1>2 DEF ReaderInv, R!TypeOK
  <2>6. R!Given(i)' = {<<i, k>> : k \in 1..n} \ Raising
    BY <2>1 DEF R!Given
  <2>7. QED
    BY <1>2, <2>1, <2>2, <2>3, <2>4, <2>5, <2>6 DEF R!Given
<1>7. R!InOrderOnce'
  <2>1. UNCHANGED R!Flow
    BY <1>1 DEF R!Flow
  <2>2. QED
    BY <1>5, <1>6, <2>1 DEF ReaderInv, R!InOrderOnce
<1>8. QED
  BY <1>1, <1>3, <1>4, <1>7 DEF ReaderInv, R!NoMissedWakeup

\* The record that leaves the hand of a thread is the last of its reader.
LEMMA AddsHolds ==
  ASSUME ReaderInv, NEW i \in R!Reader, R!Adds(i)
  PROVE  ReaderInv'
<1> DEFINE r    == hand[i]
           flow == R!Flow
<1>1. /\ UNCHANGED <<eof, needs, calls, caller, index, result, returned>>
      /\ thread[i] = "adding" /\ thread' = [thread EXCEPT ![i] = "clearing"]
      /\ queue' = Append(queue, r) /\ has' = TRUE /\ hand' = [hand EXCEPT ![i] = NONE]
  BY DEF R!Adds, R!Becomes, R!callerVars
<1>2. /\ queue \in Seq(Record) /\ returned \in Seq(Record) /\ r \in Record /\ r # NONE
      /\ r \in R!Given(i) /\ r = <<i, calls[i]>>
  BY <1>1 DEF ReaderInv, R!TypeOK, R!InOrderOnce, Record
<1> HIDE DEF r
<1>3. /\ flow \in Seq(Record) /\ R!Flow' = Append(flow, r)
      /\ Append(queue, r) \in Seq(Record)
  BY <1>1, <1>2, AddGrowsFlow, ConcatProperties, AppendProperties DEF R!Flow
<1>4. /\ \A p, q \in DOMAIN flow : p < q /\ flow[p][1] = flow[q][1] => flow[p][2] < flow[q][2]
      /\ \A j \in R!Reader : /\ {x \in R!ToSet(flow) : x[1] = j} = R!Given(j) \ {hand[j]}
                             /\ hand[j] # NONE => hand[j] \in R!Given(j) /\ hand[j] = <<j, calls[j]>>
  BY DEF ReaderInv, R!InOrderOnce
<1> HIDE DEF flow
<1>5. /\ Len(flow) \in Nat /\ DOMAIN flow = 1..Len(flow)
      /\ DOMAIN Append(flow, r) = 1..(Len(flow) + 1)
      /\ \A p \in 1..Len(flow) : Append(flow, r)[p] = flow[p]
      /\ Append(flow, r)[Len(flow) + 1] = r
  BY <1>2, <1>3, AppendProperties, LenProperties
<1>6. R!ToSet(Append(flow, r)) = R!ToSet(flow) \cup {r}
  <2>1. \A x : x \in R!ToSet(flow) <=> \E p \in 1..Len(flow) : x = flow[p]
    BY <1>5 DEF R!ToSet
  <2>2. \A x : x \in R!ToSet(Append(flow, r)) <=> \E p \in 1..(Len(flow) + 1) : x = Append(flow, r)[p]
    BY <1>5 DEF R!ToSet
  <2>3. 1..(Len(flow) + 1) = 1..Len(flow) \cup {Len(flow) + 1}
    BY <1>5
  <2>4. QED
    BY <1>5, <2>1, <2>2, <2>3
<1>7. \A j \in R!Reader : R!Given(j)' = R!Given(j)
  BY <1>1 DEF R!Given
<1>8. \A p \in 1..Len(flow) : flow[p][1] = i => flow[p][2] < r[2]
  <2> SUFFICES ASSUME NEW p \in 1..Len(flow), flow[p][1] = i
               PROVE  flow[p][2] < r[2]
    OBVIOUS
  <2>1. flow[p] \in R!Given(i) /\ flow[p] # r
    BY <1>4, <1>5 DEF R!ToSet, r
  <2>2. PICK k \in 1..calls[i] : flow[p] = <<i, k>>
    BY <2>1 DEF R!Given
  <2>3. calls[i] \in Nat
    BY DEF ReaderInv, R!TypeOK
  <2>4. QED
    BY <1>2, <2>1, <2>2, <2>3
<1>9. \A p, q \in 1..(Len(flow) + 1) :
        p < q /\ Append(flow, r)[p][1] = Append(flow, r)[q][1]
          => Append(flow, r)[p][2] < Append(flow, r)[q][2]
  <2> SUFFICES ASSUME NEW p \in 1..(Len(flow) + 1), NEW q \in 1..(Len(flow) + 1), p < q,
                      Append(flow, r)[p][1] = Append(flow, r)[q][1]
               PROVE  Append(flow, r)[p][2] < Append(flow, r)[q][2]
    OBVIOUS
  <2>1. CASE q = Len(flow) + 1
    <3>1. p \in 1..Len(flow) /\ r[1] = i
      BY <1>2, <1>5, <2>1
    <3>2. QED
      BY <1>5, <1>8, <2>1, <3>1
  <2>2. CASE q # Len(flow) + 1
    <3>1. p \in 1..Len(flow) /\ q \in 1..Len(flow)
      BY <1>5, <2>2
    <3>2. QED
      BY <1>4, <1>5, <3>1
  <2>3. QED
    BY <2>1, <2>2
<1>10. \A j \in R!Reader :
         /\ {x \in R!ToSet(flow) \cup {r} : x[1] = j} = R!Given(j) \ {hand'[j]}
         /\ hand'[j] # NONE => hand'[j] \in R!Given(j) /\ hand'[j] = <<j, calls[j]>>
  <2> SUFFICES ASSUME NEW j \in R!Reader
               PROVE  /\ {x \in R!ToSet(flow) \cup {r} : x[1] = j} = R!Given(j) \ {hand'[j]}
                      /\ hand'[j] # NONE => hand'[j] \in R!Given(j) /\ hand'[j] = <<j, calls[j]>>
    OBVIOUS
  <2>1. CASE j = i
    <3>1. hand'[i] = NONE /\ hand[i] = r
      BY <1>1 DEF ReaderInv, R!TypeOK, r
    <3>2. NONE \notin R!Given(i)
      <4>1. \A k \in 1..calls[i] : <<i, k>> \in Record
        BY Records DEF ReaderInv, R!TypeOK
      <4>2. QED
        BY <4>1, Records DEF R!Given
    <3>3. r[1] = i
      BY <1>2
    <3>4. {x \in R!ToSet(flow) \cup {r} : x[1] = i} = {x \in R!ToSet(flow) : x[1] = i} \cup {r}
      BY <3>3
    <3>5. {x \in R!ToSet(flow) : x[1] = i} = R!Given(i) \ {r}
      BY <1>4, <3>1
    <3>6. (R!Given(i) \ {r}) \cup {r} = R!Given(i) \ {NONE}
      BY <1>2, <3>2
    <3>7. {x \in R!ToSet(flow) \cup {r} : x[1] = i} = R!Given(i) \ {hand'[i]}
      BY <3>1, <3>4, <3>5, <3>6
    <3>8. QED
      BY <2>1, <3>1, <3>7
  <2>2. CASE j # i
    <3>1. hand'[j] = hand[j] /\ r[1] # j
      BY <1>1, <1>2, <2>2 DEF ReaderInv, R!TypeOK
    <3>2. QED
      BY <1>4, <3>1
  <2>3. QED
    BY <2>1, <2>2
<1>11. R!InOrderOnce'
  BY <1>1, <1>3, <1>5, <1>6, <1>7, <1>9, <1>10 DEF R!InOrderOnce
<1>12. R!TypeOK'
  <2>1. queue' \in Seq(R!Record)
    BY <1>1, <1>3 DEF Record
  <2>2. hand' \in [R!Reader -> R!Record \cup {NONE}]
    BY <1>1 DEF ReaderInv, R!TypeOK
  <2>3. \A j \in R!Reader : hand'[j] # NONE <=> thread'[j] = "adding"
    BY <1>1 DEF ReaderInv, R!TypeOK
  <2>4. QED
    BY <1>1, <2>1, <2>2, <2>3 DEF ReaderInv, R!TypeOK
<1>13. queue' # <<>>
  BY <1>1, <1>2, AppendProperties
<1>14. QED
  BY <1>1, <1>11, <1>12, <1>13 DEF ReaderInv, R!NoMissedWakeup

LEMMA ReaderStaysHolds == ReaderInv /\ UNCHANGED readerVars => ReaderInv'
BY SMTT(30) DEF readerVars, ReaderInv, R!TypeOK, R!InOrderOnce, R!Flow, R!Given, R!NoMissedWakeup

\* What a step of the Listener is for the ComposedReader.
LEMMA ReaderSteps ==
  ASSUME [Next]_vars
  PROVE  R!ReadBegins \/ R!Calling \/ (\E i \in R!Reader : R!RunReader(i)) \/ UNCHANGED readerVars
BY DEF Next, Running, EndsLoop, BeginsRead, ReadsOn, SeesNone, BeginsWrite, WritesOn, EndsWrite,
       ReaderThread, WriterThread, Quit, Stopped, vars

LEMMA ReaderHolds == ReaderInv /\ [Next]_vars => ReaderInv'
<1> SUFFICES ASSUME ReaderInv, [Next]_vars
             PROVE  ReaderInv'
  OBVIOUS
<1>1. CASE R!ReadBegins \/ R!Calling
  BY <1>1, CallerHolds
<1>2. ASSUME NEW i \in R!Reader, R!RunReader(i)
      PROVE  ReaderInv'
  BY <1>2, ThreadMovesHolds, ReadHolds, AddsHolds DEF R!RunReader
<1>3. QED
  BY <1>1, <1>2, ReaderSteps, ReaderStaysHolds

-----------------------------------------------------------------------------
(***************************************************************************)
(* The writers.                                                            *)
(***************************************************************************)
Missing(w) == Filtered \cup skipped[w]

\* w has still to write the record.
Pending(w) == task[w] = "writing" \/ (writing = "starting" /\ next <= w)

\* run() writes the record that was read last.
RunInv ==
  /\ run = "writing" => result # NONE
  /\ run \in {"read", "writing"} /\ result # NONE =>
       returned # <<>> /\ result = returned[Len(returned)]

\* Where write() is for a writer.
WriterInv(w) ==
  /\ skipped[w] \subseteq ToSet(returned)
  /\ task[w] # "none" => writing # "idle"
  /\ writing = "starting" /\ next <= w => task[w] = "none"
  /\ run \in {"testing", "reading"} \/ (run = "read" /\ result = NONE) =>
       ~exceptions[w] /\ Follows(wrote[w], returned, Missing(w))
  /\ (run = "read" /\ result # NONE) \/ (writing # "idle" /\ Pending(w)) =>
       /\ ~exceptions[w] /\ result \notin skipped[w]
       /\ Follows(wrote[w], Front(returned), Missing(w))
  /\ writing # "idle" =>
       /\ record = result /\ record \notin Filtered
       /\ ~Pending(w) => exceptions[w] \/ Follows(wrote[w], returned, Missing(w))
  /\ run = "writing" /\ writing = "idle" /\ ~raised =>
       ~exceptions[w] /\ Follows(wrote[w], returned, Missing(w))

IInv == ReaderInv /\ TypeOK /\ RunInv /\ \A w \in W!Writer : WriterInv(w)

-----------------------------------------------------------------------------
\* A record that is not written to a writer, filtered or without a thread.
LEMMA FollowsWithout ==
  ASSUME NEW written \in Seq(Record), NEW read \in Seq(Record), NEW out, NEW r \in Record,
         Follows(written, read, out), r \notin ToSet(read)
  PROVE  Follows(written, Append(read, r), out \cup {r})
<1>1. /\ Len(read) \in Nat /\ DOMAIN read = 1..Len(read)
      /\ DOMAIN Append(read, r) = 1..(Len(read) + 1)
      /\ \A p \in 1..Len(read) : Append(read, r)[p] = read[p]
      /\ Append(read, r)[Len(read) + 1] = r
  BY AppendProperties, LenProperties
<1>2. ToSet(Append(read, r)) = ToSet(read) \cup {r}
  <2>1. \A x : x \in ToSet(read) <=> \E p \in 1..Len(read) : x = read[p]
    BY <1>1 DEF ToSet
  <2>2. \A x : x \in ToSet(Append(read, r)) <=> \E p \in 1..(Len(read) + 1) : x = Append(read, r)[p]
    BY <1>1 DEF ToSet
  <2>3. 1..(Len(read) + 1) = 1..Len(read) \cup {Len(read) + 1}
    BY <1>1
  <2>4. QED
    BY <1>1, <2>1, <2>2, <2>3
<1>3. \A a, b : Comes(read, a, b) => Comes(Append(read, r), a, b)
  BY <1>1 DEF Comes
<1>4. QED
  BY <1>2, <1>3 DEF Follows

\* A record that is written.
LEMMA FollowsWith ==
  ASSUME NEW written \in Seq(Record), NEW read \in Seq(Record), NEW out, NEW r \in Record,
         Follows(written, read, out), r \notin out
  PROVE  Follows(Append(written, r), Append(read, r), out)
<1>1. /\ Len(read) \in Nat /\ DOMAIN read = 1..Len(read)
      /\ DOMAIN Append(read, r) = 1..(Len(read) + 1)
      /\ \A p \in 1..Len(read) : Append(read, r)[p] = read[p]
      /\ Append(read, r)[Len(read) + 1] = r
  BY AppendProperties, LenProperties
<1>2. /\ Len(written) \in Nat /\ DOMAIN written = 1..Len(written)
      /\ DOMAIN Append(written, r) = 1..(Len(written) + 1)
      /\ \A p \in 1..Len(written) : Append(written, r)[p] = written[p]
      /\ Append(written, r)[Len(written) + 1] = r
  BY AppendProperties, LenProperties
<1>3. /\ \A x : x \in ToSet(read) <=> \E p \in 1..Len(read) : x = read[p]
      /\ \A x : x \in ToSet(Append(read, r)) <=> \E p \in 1..(Len(read) + 1) : x = Append(read, r)[p]
      /\ \A x : x \in ToSet(written) <=> \E p \in 1..Len(written) : x = written[p]
      /\ \A x : x \in ToSet(Append(written, r)) <=>
                \E p \in 1..(Len(written) + 1) : x = Append(written, r)[p]
  BY <1>1, <1>2 DEF ToSet
<1>4. ToSet(Append(read, r)) = ToSet(read) \cup {r}
  <2>1. 1..(Len(read) + 1) = 1..Len(read) \cup {Len(read) + 1}
    BY <1>1
  <2>2. QED
    BY <1>1, <1>3, <2>1
<1>5. ToSet(Append(written, r)) = ToSet(written) \cup {r}
  <2>1. 1..(Len(written) + 1) = 1..Len(written) \cup {Len(written) + 1}
    BY <1>2
  <2>2. QED
    BY <1>2, <1>3, <2>1
<1>6. \A a, b : Comes(read, a, b) => Comes(Append(read, r), a, b)
  BY <1>1 DEF Comes
<1>7. \A a \in ToSet(read) : Comes(Append(read, r), a, r)
  BY SMTT(30), <1>1, <1>3 DEF Comes
<1>8. ASSUME NEW p \in 1..(Len(written) + 1), NEW q \in 1..(Len(written) + 1), p < q
      PROVE  Comes(Append(read, r), Append(written, r)[p], Append(written, r)[q])
  <2>1. p \in 1..Len(written) /\ Append(written, r)[p] = written[p]
    BY <1>2, <1>8
  <2>2. CASE q = Len(written) + 1
    <3>1. written[p] \in ToSet(read)
      BY <1>3, <2>1 DEF Follows
    <3>2. QED
      BY <1>2, <1>7, <2>1, <2>2, <3>1
  <2>3. CASE q # Len(written) + 1
    <3>1. q \in 1..Len(written) /\ Append(written, r)[q] = written[q]
      BY <1>2, <2>3
    <3>2. Comes(read, written[p], written[q])
      BY <1>2, <1>8, <2>1, <3>1 DEF Follows
    <3>3. QED
      BY <1>6, <2>1, <3>1, <3>2
  <2>4. QED
    BY <2>2, <2>3
<1>9. QED
  BY <1>2, <1>4, <1>5, <1>8 DEF Follows

\* The record that was returned last, and the ones before it.
LastIsNew ==
  LET r == returned[Len(returned)]  before == Front(returned) IN
  /\ r \in Record /\ r # NONE /\ before \in Seq(Record) /\ returned = Append(before, r)
  /\ r \notin ToSet(before) /\ r \in ToSet(returned) /\ ToSet(before) \subseteq ToSet(returned)

LEMMA LastReturned == ReaderInv /\ returned # <<>> => LastIsNew
<1> SUFFICES ASSUME ReaderInv, returned # <<>>
             PROVE  LastIsNew
  OBVIOUS
<1> DEFINE n == Len(returned)
           r == returned[n]
           before == Front(returned)
<1>1. returned \in Seq(Record) /\ queue \in Seq(Record) /\ n \in Nat \ {0}
      /\ DOMAIN returned = 1..n
  BY EmptySeq, LenProperties DEF ReaderInv, R!TypeOK, Record
<1>2. /\ before \in Seq(Record) /\ Len(before) = n - 1 /\ DOMAIN before = 1..(n - 1)
      /\ \A i \in 1..(n - 1) : before[i] = returned[i]
  <2>1. before = SubSeq(returned, 1, n - 1)
    BY DEF Front
  <2>2. \A i \in 1..(n - 1) : returned[i] \in Record
    BY <1>1
  <2> HIDE DEF before, n
  <2>3. QED
    BY <1>1, <2>1, <2>2, SubSeqProperties, LenProperties
<1>3. r \in Record /\ r # NONE /\ r \in ToSet(returned)
  <2>1. n \in 1..n /\ r \in Record
    BY <1>1, ElementOfSeq
  <2>2. QED
    BY <1>1, <2>1, Records DEF ToSet
<1> HIDE DEF r, before
<1>4. returned = Append(before, r)
  <2>1. /\ Append(before, r) \in Seq(Record) /\ Len(Append(before, r)) = n
        /\ \A i \in 1..(n - 1) : Append(before, r)[i] = returned[i]
        /\ Append(before, r)[n] = r
    <3> HIDE DEF n
    <3>1. Len(before) + 1 = n
      BY <1>1, <1>2
    <3>2. QED
      BY <1>1, <1>2, <1>3, <3>1, AppendProperties
  <2>2. \A i \in 1..n : Append(before, r)[i] = returned[i]
    BY SMTT(30), <1>1, <2>1 DEF r
  <2> HIDE DEF n
  <2>3. QED
    BY <1>1, <2>1, <2>2, SeqEqual DEF n
<1>5. \A i \in 1..(n - 1) : returned[i] # r
  <2> SUFFICES ASSUME NEW i \in 1..(n - 1), returned[i] = r
               PROVE  FALSE
    OBVIOUS
  <2>1. /\ returned \o queue \in Seq(Record) /\ Len(queue) \in Nat
        /\ Len(returned \o queue) = n + Len(queue)
        /\ \A k \in 1..(n + Len(queue)) :
             (returned \o queue)[k] = IF k <= n THEN returned[k] ELSE queue[k - n]
    BY <1>1, ConcatProperties, LenProperties
  <2>2. i \in DOMAIN R!Flow /\ n \in DOMAIN R!Flow /\ R!Flow[i] = r /\ R!Flow[n] = r /\ i < n
    BY <1>1, <2>1, LenProperties DEF R!Flow, r
  <2>3. r[2] < r[2]
    BY <2>2 DEF ReaderInv, R!InOrderOnce
  <2>4. r[2] \in Nat
    BY <1>3, Records DEF ReaderInv
  <2>5. QED
    BY <2>3, <2>4
<1>6. r \notin ToSet(before)
  BY <1>2, <1>5 DEF ToSet
<1>7. ToSet(before) \subseteq ToSet(returned)
  BY <1>1, <1>2 DEF ToSet
<1>8. QED
  BY <1>2, <1>3, <1>4, <1>6, <1>7 DEF r, before, LastIsNew

LEMMA LastReturnedNext == ReaderInv' /\ returned' # <<>> => LastIsNew'
<1>1. (ReaderInv /\ returned # <<>> => LastIsNew)'
  BY LastReturned, PTL
<1>2. QED
  BY <1>1

-----------------------------------------------------------------------------
(***************************************************************************)
(* The steps of run(), and of the threads of write().                      *)
(***************************************************************************)
LEMMA InitHolds == Init => IInv
<1> SUFFICES ASSUME Init
             PROVE  IInv
  OBVIOUS
<1>1. ReaderInv
  BY ReaderInit DEF Init
<1>2. W!TypeOK
  <2>1. next \in 1..(NumWriters + 1) /\ fails \in 0..FailBound
    BY DEF Init, W!Init
  <2>2. <<>> \in Seq(Record)
    BY EmptySeq
  <2>3. QED
    BY <2>1, <2>2 DEF Init, W!Init, W!TypeOK, W!NoTasks
<1>3. TypeOK /\ RunInv
  BY <1>1, <1>2 DEF Init, R!Init, W!Init, TypeOK, RunInv, ReaderInv
<1>4. ASSUME NEW w \in W!Writer
      PROVE  WriterInv(w)
  <2>1. Follows(<<>>, <<>>, Filtered \cup {})
    BY DEF Follows, ToSet
  <2>2. wrote[w] = <<>> /\ skipped[w] = {} /\ task[w] = "none" /\ ~exceptions[w]
    BY DEF Init, W!Init, W!NoTasks
  <2>3. QED
    BY <2>1, <2>2 DEF Init, R!Init, W!Init, WriterInv, Pending, Missing
<1>5. QED
  BY <1>1, <1>3, <1>4 DEF IInv

\* The writers do not see a step that leaves run() and what was read alone.
LEMMA ElsewhereHolds ==
  ASSUME IInv, ReaderInv', UNCHANGED <<writerVars, run, result, returned, caller>>,
         quit_signalled' \in BOOLEAN
  PROVE  IInv'
<1>1. TypeOK' /\ RunInv'
  BY DEF IInv, ReaderInv, TypeOK, RunInv, writerVars, W!TypeOK
<1>2. \A w \in W!Writer : WriterInv(w)'
  BY DEF IInv, WriterInv, Pending, Missing, writerVars
<1>3. QED
  BY <1>1, <1>2 DEF IInv

\* What read() returns.
LEMMA CallerReturns ==
  ASSUME ReaderInv, R!Calling
  PROVE  /\ caller' # "idle" => UNCHANGED <<result, returned>>
         /\ caller' = "idle" => \/ result' = NONE /\ UNCHANGED returned
                                \/ result' \in Record /\ returned' = Append(returned, result')
<1>1. CASE R!Pops \/ (R!LooksForRecord /\ queue # <<>>)
  <2>1. queue # <<>> /\ queue \in Seq(Record) /\ returned \in Seq(Record)
    BY <1>1 DEF ReaderInv, R!TypeOK, R!Pops, Record
  <2>2. Head(queue) \in Record /\ Head(queue) # NONE
    BY <2>1, PopKeepsFlow, Records
  <2>3. QED
    BY <1>1, <2>2 DEF R!Pops, R!LooksForRecord, R!Returns, R!Goes
<1>2. CASE ~(R!Pops \/ (R!LooksForRecord /\ queue # <<>>))
  BY <1>2 DEF R!Calling, R!StartsThread, R!ThreadsStarted, R!SetsNeeds, R!Loops, R!LooksForRecord,
              R!WaitEnds, R!Returns, R!Goes
<1>3. QED
  BY <1>1, <1>2

LEMMA ReadingHolds ==
  ASSUME IInv, ReaderInv', BeginsRead \/ ReadsOn
  PROVE  IInv'
<1>1. /\ UNCHANGED <<writerVars, quit_signalled>> /\ writing = "idle"
      /\ run \in {"testing", "reading"} /\ run' = IF caller' = "idle" THEN "read" ELSE "reading"
      /\ caller' # "idle" => UNCHANGED <<result, returned>>
      /\ caller' = "idle" => \/ result' = NONE /\ UNCHANGED returned
                             \/ result' \in Record /\ returned' = Append(returned, result')
  <2>1. CASE BeginsRead
    BY <2>1 DEF BeginsRead, R!ReadBegins, R!Goes, IInv, TypeOK
  <2>2. CASE ReadsOn
    BY <2>2, CallerReturns DEF ReadsOn, IInv, TypeOK
  <2>3. QED
    BY <2>1, <2>2
<1>2. returned \in Seq(Record)
  BY DEF IInv, ReaderInv, R!TypeOK, Record
<1>3. TypeOK'
  BY <1>1 DEF IInv, ReaderInv, TypeOK, writerVars, W!TypeOK
<1>4. \A w \in W!Writer : /\ skipped[w] \subseteq ToSet(returned) /\ task[w] = "none"
                          /\ ~exceptions[w] /\ Follows(wrote[w], returned, Missing(w))
  BY <1>1 DEF IInv, TypeOK, W!TypeOK, WriterInv
<1>5. CASE UNCHANGED returned /\ (result' = NONE \/ run' = "reading")
  <2>1. RunInv'
    BY <1>1, <1>5 DEF RunInv
  <2>2. \A w \in W!Writer : WriterInv(w)'
    BY <1>1, <1>4, <1>5 DEF WriterInv, Pending, Missing, writerVars
  <2>3. QED
    BY <1>3, <2>1, <2>2 DEF IInv
<1>6. CASE run' = "read" /\ result' \in Record /\ returned' = Append(returned, result')
  <2>1. returned' # <<>> /\ Len(returned') = Len(returned) + 1
        /\ result' = returned'[Len(returned')]
    BY <1>2, <1>6, AppendProperties
  <2>2. /\ result' \notin ToSet(Front(returned')) /\ result' # NONE
        /\ Front(returned') \in Seq(Record)
        /\ returned' = Append(Front(returned'), result')
        /\ ToSet(Front(returned')) \subseteq ToSet(returned')
    BY <2>1, LastReturnedNext DEF LastIsNew
  <2>3. Front(returned') = returned
    BY <1>2, <1>6, <2>2, AppendInjective
  <2>4. RunInv'
    BY <1>6, <2>1 DEF RunInv
  <2>5. \A w \in W!Writer : WriterInv(w)'
    BY <1>1, <1>4, <1>6, <2>2, <2>3 DEF WriterInv, Pending, Missing, writerVars
  <2>6. QED
    BY <1>3, <2>4, <2>5 DEF IInv
<1>7. QED
  BY <1>1, <1>5, <1>6

\* run() goes on to its next record, or returns.
LEMMA TurnsHolds ==
  ASSUME IInv, ReaderInv', EndsLoop \/ SeesNone \/ EndsWrite
  PROVE  IInv'
<1>1. /\ UNCHANGED <<readerVars, writerVars, quit_signalled>> /\ writing = "idle" /\ caller = "idle"
      /\ \/ run' \in {"returned", "raised"}
         \/ run = "writing" /\ ~raised /\ run' = "testing"
  BY DEF EndsLoop, SeesNone, EndsWrite, IInv, TypeOK
<1>2. TypeOK'
  BY <1>1 DEF IInv, ReaderInv, TypeOK, readerVars, writerVars, W!TypeOK
<1>3. RunInv'
  BY <1>1 DEF RunInv
<1>4. \A w \in W!Writer : WriterInv(w)'
  BY <1>1 DEF IInv, WriterInv, Pending, Missing, writerVars, readerVars
<1>5. QED
  BY <1>2, <1>3, <1>4 DEF IInv

LEMMA BeginsWriteHolds ==
  ASSUME IInv, ReaderInv', BeginsWrite
  PROVE  IInv'
<1>1. /\ UNCHANGED <<readerVars, quit_signalled, task, exceptions, fails, wrote, skipped>>
      /\ run = "read" /\ run' = "writing" /\ result # NONE /\ writing = "idle" /\ caller = "idle"
      /\ \/ /\ result \in Filtered /\ raised' = FALSE /\ UNCHANGED <<writing, record, next>>
         \/ /\ result \notin Filtered /\ UNCHANGED raised
            /\ writing' = "starting" /\ record' = result /\ next' = 1
  BY DEF BeginsWrite, W!WriteBegins, IInv, TypeOK
<1>2. returned # <<>> /\ result = returned[Len(returned)] /\ LastIsNew
  BY <1>1, LastReturned DEF IInv, RunInv
<1>3. result \in Record
  BY <1>2 DEF LastIsNew
<1>4. W!TypeOK'
  <2>1. next' \in 1..(NumWriters + 1)
    BY <1>1 DEF IInv, TypeOK, W!TypeOK
  <2>2. QED
    BY <1>1, <1>3, <2>1 DEF IInv, TypeOK, W!TypeOK
<1>5. TypeOK' /\ RunInv'
  BY <1>1, <1>2, <1>4 DEF IInv, ReaderInv, TypeOK, RunInv, readerVars
<1>6. ASSUME NEW w \in W!Writer
      PROVE  WriterInv(w)'
  <2>1. /\ task[w] = "none" /\ ~exceptions[w] /\ skipped[w] \subseteq ToSet(returned)
        /\ result \notin skipped[w] /\ Follows(wrote[w], Front(returned), Missing(w))
    BY <1>1 DEF IInv, WriterInv
  <2>2. w >= 1
    BY DEF W!Writer
  <2>3. CASE result \notin Filtered
    BY <1>1, <2>1, <2>2, <2>3 DEF WriterInv, Pending, Missing, readerVars
  <2>4. CASE result \in Filtered
    <3>1. Follows(wrote[w], Append(Front(returned), result), Missing(w) \cup {result})
      BY <1>2, <2>1, FollowsWithout DEF LastIsNew, IInv, TypeOK, W!TypeOK
    <3>2. Missing(w) \cup {result} = Missing(w)
      BY <2>4 DEF Missing
    <3>3. Follows(wrote[w], returned, Missing(w))
      BY <1>2, <3>1, <3>2 DEF LastIsNew
    <3>4. QED
      BY <1>1, <2>1, <2>4, <3>3 DEF WriterInv, Pending, Missing, readerVars
  <2>5. QED
    BY <2>3, <2>4
<1>7. QED
  BY <1>5, <1>6 DEF IInv

\* What holds while write() is under way.
LEMMA WhileWriting ==
  ASSUME IInv, writing # "idle"
  PROVE  /\ run = "writing" /\ result # NONE /\ returned # <<>> /\ record = result
         /\ result = returned[Len(returned)] /\ LastIsNew /\ record \in Record
         /\ record \notin Filtered
<1>1. run = "writing" /\ result # NONE /\ returned # <<>> /\ result = returned[Len(returned)]
  BY DEF IInv, TypeOK, RunInv
<1>2. LastIsNew
  BY <1>1, LastReturned DEF IInv
<1>3. 1 \in W!Writer
  BY DEF W!Writer
<1>4. record = result /\ record \notin Filtered
  BY <1>3 DEF IInv, WriterInv
<1>5. QED
  BY <1>1, <1>2, <1>4 DEF LastIsNew

LEMMA StartsHolds ==
  ASSUME IInv, ReaderInv', WritesOn, W!StartsTask \/ W!StartFails \/ W!TasksStarted
  PROVE  IInv'
<1>1. /\ UNCHANGED <<readerVars, run, quit_signalled, record, exceptions, raised, wrote>>
      /\ writing = "starting"
      /\ \/ /\ next <= NumWriters /\ next' = next + 1 /\ writing' = "starting"
            /\ task' = [task EXCEPT ![next] = "writing"] /\ UNCHANGED <<fails, skipped>>
         \/ /\ next <= NumWriters /\ next' = next + 1 /\ writing' = "starting"
            /\ fails < FailBound /\ fails' = fails + 1
            /\ skipped' = [skipped EXCEPT ![next] = @ \cup {record}] /\ UNCHANGED task
         \/ /\ next > NumWriters /\ writing' = "joining" /\ UNCHANGED <<next, task, fails, skipped>>
  BY DEF WritesOn, W!StartsTask, W!StartFails, W!TasksStarted
<1>2. /\ run = "writing" /\ result # NONE /\ returned # <<>> /\ record = result
      /\ result = returned[Len(returned)] /\ LastIsNew /\ record \in Record /\ record \notin Filtered
  BY <1>1, WhileWriting
<1>3. next \in 1..(NumWriters + 1) /\ next' \in 1..(NumWriters + 1)
      /\ (next <= NumWriters => next \in W!Writer)
  BY <1>1 DEF IInv, TypeOK, W!TypeOK, W!Writer
<1>4. W!TypeOK'
  <2>1. /\ task' \in [W!Writer -> {"none", "writing", "done"}]
        /\ skipped' \in [W!Writer -> SUBSET Record]
    <3>1. CASE task' = [task EXCEPT ![next] = "writing"] /\ UNCHANGED skipped
      BY <3>1 DEF IInv, TypeOK, W!TypeOK
    <3>2. CASE skipped' = [skipped EXCEPT ![next] = @ \cup {record}] /\ UNCHANGED task
      BY <1>2, <3>2 DEF IInv, TypeOK, W!TypeOK
    <3>3. CASE UNCHANGED <<task, skipped>>
      BY <3>3 DEF IInv, TypeOK, W!TypeOK
    <3>4. QED
      BY <1>1, <3>1, <3>2, <3>3
  <2>2. fails' \in 0..FailBound
    BY <1>1 DEF IInv, TypeOK, W!TypeOK
  <2>3. QED
    BY <1>1, <1>3, <2>1, <2>2 DEF IInv, TypeOK, W!TypeOK
<1>5. TypeOK' /\ RunInv'
  BY <1>1, <1>2, <1>4 DEF IInv, ReaderInv, TypeOK, RunInv, readerVars
<1>6. ASSUME NEW w \in W!Writer
      PROVE  WriterInv(w)'
  <2>0. w \in 1..NumWriters
    BY DEF W!Writer
  <2>1. /\ skipped[w] \subseteq ToSet(returned) /\ (next <= w => task[w] = "none")
        /\ task[w] = "writing" \/ next <= w =>
             /\ ~exceptions[w] /\ result \notin skipped[w]
             /\ Follows(wrote[w], Front(returned), Missing(w))
        /\ ~(task[w] = "writing" \/ next <= w) =>
             exceptions[w] \/ Follows(wrote[w], returned, Missing(w))
    BY <1>1 DEF IInv, WriterInv, Pending
  <2>2. CASE w # next \/ next > NumWriters
    <3>1. task'[w] = task[w] /\ skipped'[w] = skipped[w]
      BY <1>1, <2>0, <2>2, <1>3 DEF IInv, TypeOK, W!TypeOK
    <3>2. writing' = "starting" => (next' <= w <=> next <= w)
      BY <1>1, <1>3, <2>0, <2>2
    <3>3. writing' = "joining" => ~(next <= w)
      BY <1>1, <1>3, <2>0
    <3>4. QED
      BY <1>1, <1>2, <2>1, <3>1, <3>2, <3>3 DEF WriterInv, Pending, Missing, readerVars
  <2>3. CASE w = next /\ next <= NumWriters
    <3>1. ~(next' <= w) /\ writing' = "starting"
      BY <1>1, <1>3, <2>3
    <3>2. CASE task' = [task EXCEPT ![next] = "writing"] /\ UNCHANGED <<fails, skipped>>
      <4>1. task'[w] = "writing"
        BY <2>3, <3>2 DEF IInv, TypeOK, W!TypeOK
      <4>2. QED
        BY <1>1, <1>2, <2>1, <2>3, <3>1, <3>2, <4>1, <1>3
           DEF WriterInv, Pending, Missing, readerVars
    <3>3. CASE skipped' = [skipped EXCEPT ![next] = @ \cup {record}] /\ UNCHANGED task
      <4>1. skipped'[w] = skipped[w] \cup {record} /\ task'[w] = "none"
        BY <1>3, <2>1, <2>3, <3>3 DEF IInv, TypeOK, W!TypeOK
      <4>2. Follows(wrote[w], Front(returned), Missing(w))
        BY <1>3, <2>1, <2>3
      <4>3. Follows(wrote[w], Append(Front(returned), record), Missing(w) \cup {record})
        BY <1>2, <4>2, FollowsWithout DEF LastIsNew, IInv, TypeOK, W!TypeOK
      <4>4. Follows(wrote[w], returned, Missing(w) \cup {record})
        BY <1>2, <4>3 DEF LastIsNew
      <4>5. Missing(w)' = Missing(w) \cup {record} /\ skipped'[w] \subseteq ToSet(returned)
        BY <1>2, <2>1, <4>1 DEF Missing, LastIsNew
      <4>6. QED
        BY <1>1, <1>2, <3>1, <4>1, <4>4, <4>5 DEF WriterInv, Pending, readerVars
    <3>4. QED
      BY <1>1, <2>3, <3>2, <3>3, <1>3
  <2>4. QED
    BY <1>3, <2>0, <2>2, <2>3
<1>7. QED
  BY <1>5, <1>6 DEF IInv

\* A thread writes the record, or fails to.
LEMMA TaskHolds ==
  ASSUME IInv, ReaderInv', NEW v \in W!Writer, WriterThread(v)
  PROVE  IInv'
<1>1. /\ UNCHANGED <<readerVars, run, quit_signalled, writing, record, next, raised, skipped>>
      /\ task[v] = "writing" /\ task' = [task EXCEPT ![v] = "done"]
      /\ \/ wrote' = [wrote EXCEPT ![v] = Append(@, record)] /\ UNCHANGED <<exceptions, fails>>
         \/ /\ fails < FailBound /\ fails' = fails + 1
            /\ exceptions' = [exceptions EXCEPT ![v] = TRUE] /\ UNCHANGED wrote
  BY DEF WriterThread, W!Task, W!Writes, W!WriteFails
<1>2. writing # "idle"
  BY <1>1 DEF IInv, WriterInv
<1>3. /\ run = "writing" /\ result # NONE /\ returned # <<>> /\ record = result
      /\ result = returned[Len(returned)] /\ LastIsNew /\ record \in Record /\ record \notin Filtered
  BY <1>2, WhileWriting
<1>4. wrote[v] \in Seq(Record) /\ Append(wrote[v], record) \in Seq(Record)
  BY <1>3, AppendProperties DEF IInv, TypeOK, W!TypeOK
<1>5. W!TypeOK'
  <2>1. fails' \in 0..FailBound
    BY <1>1 DEF IInv, TypeOK, W!TypeOK
  <2>2. wrote' \in [W!Writer -> Seq(Record)] /\ exceptions' \in [W!Writer -> BOOLEAN]
    BY <1>1, <1>4 DEF IInv, TypeOK, W!TypeOK
  <2>3. QED
    BY <1>1, <2>1, <2>2 DEF IInv, TypeOK, W!TypeOK
<1>6. TypeOK' /\ RunInv'
  BY <1>1, <1>3, <1>5 DEF IInv, ReaderInv, TypeOK, RunInv, readerVars
<1>7. ASSUME NEW w \in W!Writer, w # v
      PROVE  WriterInv(w)'
  <2>1. task'[w] = task[w] /\ wrote'[w] = wrote[w] /\ exceptions'[w] = exceptions[w]
    BY <1>1, <1>7 DEF IInv, TypeOK, W!TypeOK
  <2>2. QED
    BY <1>1, <2>1 DEF IInv, WriterInv, Pending, Missing, readerVars
<1>8. WriterInv(v)'
  <2>1. task'[v] = "done" /\ ~(writing = "starting" /\ next <= v)
    BY <1>1 DEF IInv, TypeOK, W!TypeOK, WriterInv
  <2>2. exceptions'[v] \/ Follows(wrote'[v], returned, Missing(v))
    <3>1. CASE exceptions' = [exceptions EXCEPT ![v] = TRUE]
      BY <3>1 DEF IInv, TypeOK, W!TypeOK
    <3>2. CASE wrote' = [wrote EXCEPT ![v] = Append(@, record)]
      <4>1. wrote'[v] = Append(wrote[v], record)
        BY <3>2 DEF IInv, TypeOK, W!TypeOK
      <4>2. record \notin Missing(v) /\ Follows(wrote[v], Front(returned), Missing(v))
        BY <1>1, <1>2, <1>3 DEF IInv, WriterInv, Pending, Missing
      <4>3. Follows(Append(wrote[v], record), Append(Front(returned), record), Missing(v))
        BY <1>3, <1>4, <4>2, FollowsWith DEF LastIsNew
      <4>4. QED
        BY <1>3, <4>1, <4>3 DEF LastIsNew
    <3>3. QED
      BY <1>1, <3>1, <3>2
  <2>3. QED
    BY <1>1, <1>2, <1>3, <2>1, <2>2 DEF IInv, WriterInv, Pending, Missing, readerVars
<1>9. QED
  BY <1>6, <1>7, <1>8 DEF IInv

\* write() has waited for all of them, and raises what one of them left.
LEMMA JoinsHolds ==
  ASSUME IInv, ReaderInv', WritesOn, W!Joins
  PROVE  IInv'
<1>1. /\ UNCHANGED <<readerVars, run, quit_signalled, next, exceptions, fails, wrote, skipped>>
      /\ writing = "joining" /\ \A w \in W!Writer : task[w] # "writing"
      /\ raised' = (\E w \in W!Writer : exceptions[w])
      /\ writing' = "idle" /\ record' = NONE /\ task' = W!NoTasks
  BY DEF WritesOn, W!Joins, W!Joined
<1>2. run = "writing" /\ result # NONE
  BY <1>1, WhileWriting
<1>3. W!TypeOK'
  <2>1. task' \in [W!Writer -> {"none", "writing", "done"}] /\ raised' \in BOOLEAN
    BY <1>1 DEF W!NoTasks
  <2>2. QED
    BY <1>1, <2>1 DEF IInv, TypeOK, W!TypeOK
<1>4. TypeOK' /\ RunInv'
  BY <1>1, <1>2, <1>3 DEF IInv, ReaderInv, TypeOK, RunInv, readerVars
<1>5. ASSUME NEW w \in W!Writer
      PROVE  WriterInv(w)'
  <2>1. task'[w] = "none" /\ (exceptions[w] => raised')
    BY <1>1 DEF W!NoTasks
  <2>2. exceptions[w] \/ Follows(wrote[w], returned, Missing(w))
    BY <1>1 DEF IInv, WriterInv, Pending
  <2>3. QED
    BY <1>1, <1>2, <2>1, <2>2 DEF IInv, WriterInv, Pending, Missing, readerVars
<1>6. QED
  BY <1>4, <1>5 DEF IInv

LEMMA NextHolds == IInv /\ [Next]_vars => IInv'
<1> SUFFICES ASSUME IInv, [Next]_vars
             PROVE  IInv'
  OBVIOUS
<1>1. ReaderInv'
  BY ReaderHolds DEF IInv
<1>2. CASE EndsLoop \/ SeesNone \/ EndsWrite
  BY <1>1, <1>2, TurnsHolds
<1>3. CASE BeginsRead \/ ReadsOn
  BY <1>1, <1>3, ReadingHolds
<1>4. CASE BeginsWrite
  BY <1>1, <1>4, BeginsWriteHolds
<1>5. CASE WritesOn
  BY <1>1, <1>5, StartsHolds, JoinsHolds DEF WritesOn, W!Running
<1>6. ASSUME NEW w \in W!Writer, WriterThread(w)
      PROVE  IInv'
  BY <1>1, <1>6, TaskHolds
<1>7. ASSUME NEW i \in R!Reader, ReaderThread(i)
      PROVE  IInv'
  <2>1. UNCHANGED <<writerVars, run, result, returned, caller, quit_signalled>>
    BY <1>7 DEF ReaderThread, R!RunReader, R!WakesUp, R!TimesOut, R!Ends, R!Reads, R!ReadsNone,
                R!ReadRaises, R!Adds, R!ClearsNeeds, R!callerVars
  <2>2. QED
    BY <1>1, <2>1, ElsewhereHolds DEF IInv, TypeOK
<1>8. CASE Quit \/ Stopped \/ UNCHANGED vars
  <2>1. /\ UNCHANGED <<writerVars, run, result, returned, caller>> /\ quit_signalled' \in BOOLEAN
    BY <1>8 DEF Quit, Stopped, vars, readerVars, IInv, TypeOK
  <2>2. QED
    BY <1>1, <2>1, ElsewhereHolds
<1>9. QED
  BY <1>2, <1>3, <1>4, <1>5, <1>6, <1>7, <1>8 DEF Next, Running

LEMMA InvHolds == Spec => []IInv
<1>1. Init => IInv
  BY InitHolds
<1>2. IInv /\ [Next]_vars => IInv'
  BY NextHolds
<1>3. QED
  BY <1>1, <1>2, PTL DEF Spec

-----------------------------------------------------------------------------
(***************************************************************************)
(* The theorems.                                                           *)
(***************************************************************************)
\* Every variable of the reader's threads, of read(), of write() and of run()
\* has its type at every step; run() is reading exactly while read() is
\* under way, and writing while write() is.
THEOREM TypeCorrect == Spec => []TypeOK
<1>1. IInv => TypeOK
  BY DEF IInv
<1>2. QED
  BY <1>1, InvHolds, PTL

\* No record that a reader has given is lost, doubled or out of its reader's
\* order between the threads of a ComposedReader, its queue and its caller,
\* and a read() that waits while there is a record is about to be woken.
THEOREM ReadIsSafe == Spec => []ReadSafe
<1>1. IInv => ReadSafe
  BY DEF IInv, ReaderInv, ReadSafe
<1>2. QED
  BY <1>1, InvHolds, PTL

\* Between two records every writer of a ComposedWriter has written what was
\* read before, once and in order, whatever its threads' interleaving, but
\* for what the transforms removed or a thread that could not be started.
THEOREM WritersDoAgree == Spec => []WritersAgree
<1>1. IInv => WritersAgree
  BY DEF IInv, WriterInv, WritersAgree, Missing
<1>2. QED
  BY <1>1, InvHolds, PTL

\* read() gives None only when every reader has given its EOF, so that no
\* reader has a record left to give.
THEOREM NoneDoesMeanEOF == Spec => NoneMeansEOF
<1>1. ReaderInv /\ [Next]_vars => [R!GivesNoneAtEOF]_vars
  <2> SUFFICES ASSUME ReaderInv, [Next]_vars, caller = "looping", caller' = "idle",
                      NEW i \in R!Reader
               PROVE  calls[i] = Supply[i]
    BY DEF R!GivesNoneAtEOF
  <2>1. R!Loops
    BY DEF Next, Running, EndsLoop, BeginsRead, ReadsOn, SeesNone, BeginsWrite, WritesOn, EndsWrite,
           ReaderThread, WriterThread, Quit, Stopped, vars, readerVars, R!ReadBegins, R!Calling,
           R!Pops, R!StartsThread, R!ThreadsStarted, R!SetsNeeds, R!LooksForRecord, R!WaitEnds,
           R!RunReader, R!WakesUp, R!TimesOut, R!Ends, R!Reads, R!ReadsNone, R!ReadRaises, R!Adds,
           R!ClearsNeeds, R!callerVars
  <2>2. eof[i]
    BY <2>1 DEF R!Loops, R!Goes
  <2>3. QED
    BY <2>2 DEF ReaderInv
<1>2. IInv => ReaderInv
  BY DEF IInv
<1>3. QED
  BY <1>1, <1>2, InvHolds, PTL DEF Spec, NoneMeansEOF

=============================================================================
