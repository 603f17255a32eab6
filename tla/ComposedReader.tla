--------------------------- MODULE ComposedReader ---------------------------
(***************************************************************************)
(* logger/readers/composed_reader.py: read() of a ComposedReader of at     *)
(* least two readers, with a thread for each of them that asks it for a    *)
(* record when one is needed.  (A single reader is called directly.)       *)
(*                                                                         *)
(* The n-th call of reader i's read() returns the record <<i, n>>, as long *)
(* as the reader has records; from then on it returns None, or, if it     *)
(* listens to a network, does not return.  Transforms work on a record     *)
(* that has left the queue; they are left out.  A thread is started only   *)
(* after the one before it has ended, so that the reader_locks are never   *)
(* waited for, and one state per reader is enough.                         *)
(***************************************************************************)
EXTENDS Integers, Sequences, FiniteSets, SequencesExt

CONSTANTS
  NumReaders,  \* len(readers)
  Supply,      \* how many records each reader has
  Blocking,    \* the readers that never return None
  Raising,     \* the calls <<i, n>> that raise an exception instead
  MayRace,     \* may a thread time out while read() is about to wake it?
  NONE         \* None

Reader == 1..NumReaders
Record == UNION {{<<i, n>> : n \in 1..Supply[i]} : i \in Reader}

\* Assumed by Listener, and by the theorems.
ReaderAssumption ==
  /\ NumReaders \in Nat \ {0, 1}
  /\ Supply \in [Reader -> Nat]
  /\ Blocking \subseteq Reader /\ Raising \subseteq Record
  /\ MayRace \in BOOLEAN
  /\ NONE \notin Record

VARIABLES
  queue,      \* self.queue
  eof,        \* reader_returned_eof
  has,        \* queue_has_record
  needs,      \* queue_needs_record
  thread,     \* each reader's thread
  calls,      \* how often each reader's read() was called
  hand,       \* the record each thread has just read
  caller,     \* where the caller of read() is
  index,      \* its loop over the readers
  result,     \* what read() returned last
  returned    \* history: the records read() has returned

threadVars == <<thread, calls, hand>>
callerVars == <<caller, index, result, returned>>
vars == <<queue, eof, has, needs, threadVars, callerVars>>

TypeOK ==
  /\ queue \in Seq(Record)
  /\ eof \in [Reader -> BOOLEAN]
  /\ has \in BOOLEAN /\ needs \in BOOLEAN
  /\ thread \in [Reader -> {"none", "waiting", "reading", "adding", "clearing", "leaving"}]
  /\ calls \in [Reader -> Nat]
  /\ hand \in [Reader -> Record \cup {NONE}]
  /\ \A i \in Reader : hand[i] # NONE <=> thread[i] = "adding"
  /\ caller \in {"idle", "popping", "starting", "setting", "looping", "locking", "waiting"}
  /\ index \in 1..(NumReaders + 1)
  /\ result \in Record \cup {NONE}
  /\ returned \in Seq(Record)

Init ==
  /\ queue = <<>>
  /\ eof = [i \in Reader |-> FALSE]
  /\ has = FALSE /\ needs = FALSE
  /\ thread = [i \in Reader |-> "none"]
  /\ calls = [i \in Reader |-> 0]
  /\ hand = [i \in Reader |-> NONE]
  /\ caller = "idle" /\ index = 1
  /\ result = NONE
  /\ returned = <<>>

\* queue_lock is held while a record is added, and needs cleared.
QueueIsFree == \A i \in Reader : thread[i] # "clearing"

-----------------------------------------------------------------------------
(***************************************************************************)
(* read().                                                                 *)
(***************************************************************************)
Goes(place) == caller' = place

\* `if self.queue`, without the lock.
ReadBegins ==
  /\ caller = "idle"
  /\ IF queue # <<>> THEN Goes("popping") /\ UNCHANGED index
     ELSE Goes("starting") /\ index' = 1
  /\ UNCHANGED <<queue, eof, has, needs, threadVars, result, returned>>

Returns(r) ==
  /\ result' = r
  /\ returned' = IF r = NONE THEN returned ELSE Append(returned, r)
  /\ Goes("idle")

Pops ==
  /\ caller = "popping" /\ QueueIsFree
  /\ queue' = Tail(queue)
  /\ Returns(Head(queue))
  /\ UNCHANGED <<eof, has, needs, threadVars, index>>

\* A thread that has ended is started again, unless its reader is at EOF.
StartsThread ==
  /\ caller = "starting" /\ index <= NumReaders
  /\ MayRace \/ thread[index] # "leaving"
  /\ IF thread[index] = "none" /\ ~eof[index]
     THEN thread' = [thread EXCEPT ![index] = "waiting"]
     ELSE UNCHANGED thread
  /\ index' = index + 1
  /\ UNCHANGED <<queue, eof, has, needs, calls, hand, caller, result, returned>>

ThreadsStarted ==
  /\ caller = "starting" /\ index > NumReaders
  /\ Goes("setting")
  /\ UNCHANGED <<queue, eof, has, needs, threadVars, index, result, returned>>

SetsNeeds ==
  /\ caller = "setting"
  /\ needs' = TRUE
  /\ Goes("looping")
  /\ UNCHANGED <<queue, eof, has, threadVars, index, result, returned>>

\* Mutant: the end of all readers is not noticed.
LoopsRegardless ==
  /\ caller = "looping"
  /\ Goes("locking")
  /\ UNCHANGED <<queue, eof, has, needs, threadVars, index, result, returned>>

\* `while False in self.reader_returned_eof`
Loops ==
  /\ caller = "looping"
  /\ IF \E i \in Reader : ~eof[i]
     THEN Goes("locking") /\ UNCHANGED <<result, returned>>
     ELSE Returns(NONE)
  /\ UNCHANGED <<queue, eof, has, needs, threadVars, index>>

\* Mutant: the record added last is taken.
LooksForNewest ==
  /\ caller = "locking" /\ QueueIsFree
  /\ IF queue # <<>>
     THEN /\ queue' = Front(queue)
          /\ has' = (Front(queue) # <<>> /\ has)
          /\ Returns(Last(queue))
     ELSE /\ has' = FALSE
          /\ Goes("waiting")
          /\ UNCHANGED <<queue, result, returned>>
  /\ UNCHANGED <<eof, needs, threadVars, index>>

\* Under queue_lock: the oldest record, or a wait for one.
LooksForRecord ==
  /\ caller = "locking" /\ QueueIsFree
  /\ IF queue # <<>>
     THEN /\ queue' = Tail(queue)
          /\ has' = (Tail(queue) # <<>> /\ has)
          /\ Returns(Head(queue))
     ELSE /\ has' = FALSE
          /\ Goes("waiting")
          /\ UNCHANGED <<queue, result, returned>>
  /\ UNCHANGED <<eof, needs, threadVars, index>>

\* The event is waited for, for a while.
WaitEnds ==
  /\ caller = "waiting"
  /\ Goes("looping")
  /\ UNCHANGED <<queue, eof, has, needs, threadVars, index, result, returned>>

-----------------------------------------------------------------------------
(***************************************************************************)
(* _run_reader(i).                                                         *)
(***************************************************************************)
Becomes(i, state) == thread' = [thread EXCEPT ![i] = state]

WakesUp(i) ==
  /\ thread[i] = "waiting" /\ needs
  /\ Becomes(i, "reading")
  /\ UNCHANGED <<queue, eof, has, needs, calls, hand, callerVars>>

\* Mutant: a thread that gives up waiting counts as EOF.
TimesOutAsEOF(i) ==
  /\ thread[i] = "waiting" /\ ~needs
  /\ MayRace \/ caller \notin {"starting", "setting"}
  /\ eof' = [eof EXCEPT ![i] = TRUE]
  /\ Becomes(i, "leaving")
  /\ UNCHANGED <<queue, has, needs, calls, hand, callerVars>>

\* The event is not set, after READER_TIMEOUT_WAIT, or not any more.
TimesOut(i) ==
  /\ thread[i] = "waiting" /\ ~needs
  /\ MayRace \/ caller \notin {"starting", "setting"}
  /\ Becomes(i, "leaving")
  /\ UNCHANGED <<queue, eof, has, needs, calls, hand, callerVars>>

Ends(i) ==
  /\ thread[i] = "leaving"
  /\ Becomes(i, "none")
  /\ UNCHANGED <<queue, eof, has, needs, calls, hand, callerVars>>

\* readers[i].read() returns a record, ...
Reads(i) ==
  LET r == <<i, calls[i] + 1>> IN
  /\ thread[i] = "reading"
  /\ r \in Record \ Raising
  /\ calls' = [calls EXCEPT ![i] = @ + 1]
  /\ hand' = [hand EXCEPT ![i] = r]
  /\ Becomes(i, "adding")
  /\ UNCHANGED <<queue, eof, has, needs, callerVars>>

\* ... or None, ...
ReadsNone(i) ==
  /\ thread[i] = "reading" /\ calls[i] = Supply[i] /\ i \notin Blocking
  /\ eof' = [eof EXCEPT ![i] = TRUE]
  /\ Becomes(i, "leaving")
  /\ UNCHANGED <<queue, has, needs, calls, hand, callerVars>>

\* ... or raises an exception, which ends the thread.
ReadRaises(i) ==
  /\ thread[i] = "reading" /\ <<i, calls[i] + 1>> \in Raising
  /\ calls' = [calls EXCEPT ![i] = @ + 1]
  /\ Becomes(i, "leaving")
  /\ UNCHANGED <<queue, eof, has, needs, hand, callerVars>>

\* Mutant: the record is not announced.
AddsSilently(i) ==
  /\ thread[i] = "adding" /\ QueueIsFree
  /\ queue' = Append(queue, hand[i])
  /\ hand' = [hand EXCEPT ![i] = NONE]
  /\ Becomes(i, "clearing")
  /\ UNCHANGED <<eof, has, needs, calls, callerVars>>

\* Mutant: the record stays in hand.
AddsAndKeeps(i) ==
  /\ thread[i] = "adding" /\ QueueIsFree
  /\ queue' = Append(queue, hand[i])
  /\ has' = TRUE
  /\ Becomes(i, "clearing")
  /\ UNCHANGED <<eof, needs, hand, calls, callerVars>>

\* Under queue_lock: the record is added and has set, ...
Adds(i) ==
  /\ thread[i] = "adding" /\ QueueIsFree
  /\ queue' = Append(queue, hand[i])
  /\ has' = TRUE
  /\ hand' = [hand EXCEPT ![i] = NONE]
  /\ Becomes(i, "clearing")
  /\ UNCHANGED <<eof, needs, calls, callerVars>>

\* ... and needs cleared.
ClearsNeeds(i) ==
  /\ thread[i] = "clearing"
  /\ needs' = FALSE
  /\ Becomes(i, "waiting")
  /\ UNCHANGED <<queue, eof, has, calls, hand, callerVars>>

-----------------------------------------------------------------------------
Calling ==
  \/ Pops \/ StartsThread \/ ThreadsStarted \/ SetsNeeds
  \/ Loops \/ LooksForRecord \/ WaitEnds

RunReader(i) ==
  \/ WakesUp(i) \/ TimesOut(i) \/ Ends(i)
  \/ Reads(i) \/ ReadsNone(i) \/ ReadRaises(i)
  \/ Adds(i) \/ ClearsNeeds(i)

Next == ReadBegins \/ Calling \/ \E i \in Reader : RunReader(i)

Spec == Init /\ [][Next]_vars

\* The caller and the threads run, and the readers' read() returns.
Fairness == WF_vars(Calling) /\ \A i \in Reader : WF_vars(RunReader(i))

FairSpec == Spec /\ Fairness

-----------------------------------------------------------------------------
(***************************************************************************)
(* Properties.                                                             *)
(***************************************************************************)
\* What has come out of the readers' threads, and what reader i has given.
Flow == returned \o queue
Given(i) == {<<i, n>> : n \in 1..calls[i]} \ Raising

\* Within a reader, records arrive in order (test_composed_reader.py), and
\* none is lost or doubled between the threads: what read() returned, the
\* queue and the thread's hand are all that the reader has given.
InOrderOnce ==
  /\ \A p, q \in DOMAIN Flow :
       p < q /\ Flow[p][1] = Flow[q][1] => Flow[p][2] < Flow[q][2]
  /\ \A i \in Reader :
       /\ {r \in ToSet(Flow) : r[1] = i} = Given(i) \ {hand[i]}
       /\ hand[i] # NONE => hand[i] \in Given(i) /\ hand[i] = <<i, calls[i]>>

\* A caller that waits while there is a record is about to be woken.
NoMissedWakeup == caller = "waiting" /\ queue # <<>> => has

\* read() returns None only if all readers have given an EOF.
GivesNoneAtEOF ==
  caller = "looping" /\ caller' = "idle" => \A i \in Reader : calls[i] = Supply[i]

NoneMeansEOF == [][GivesNoneAtEOF]_vars

\* A read() comes to an end, unless every reader that may have records has
\* lost its thread: to an exception, or to a wait that timed out just when
\* the thread was counted on.
Deserted ==
  LET open == {i \in Reader : ~eof[i]} IN
  open # {} /\ \A i \in open : thread[i] = "none"

ReadReturns == []<>(caller = "idle") \/ <>[]Deserted
=============================================================================
