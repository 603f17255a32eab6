------------------------------ MODULE Listener ------------------------------
(***************************************************************************)
(* logger/listener/listener.py: run() reads records from a ComposedReader  *)
(* and writes them with a ComposedWriter.  The pause between two reads has *)
(* no state; while it lasts run() is before its next step.                 *)
(***************************************************************************)
EXTENDS Integers, Sequences, FiniteSets, SequencesExt

CONSTANTS NumReaders, Supply, Blocking, Raising, MayRace,
          NumWriters, Filtered, FailBound, NONE

VARIABLES queue, eof, has, needs, thread, calls, hand, caller, index, result, returned,
          writing, record, next, task, exceptions, raised, fails, wrote, skipped,
          run,             \* run(): "testing", "reading", "read", "writing", "returned", "raised"
          quit_signalled   \* quit_signalled

R == INSTANCE ComposedReader

Record == R!Record

W == INSTANCE ComposedWriter

readerVars == <<queue, eof, has, needs, thread, calls, hand, caller, index, result,
                returned>>
writerVars == <<writing, record, next, task, exceptions, raised, fails, wrote, skipped>>
vars == <<readerVars, writerVars, run, quit_signalled>>

ASSUME ListenerAssumption == R!ReaderAssumption /\ W!WriterAssumption

TypeOK ==
  /\ R!TypeOK
  /\ W!TypeOK
  /\ run \in {"testing", "reading", "read", "writing", "returned", "raised"}
  /\ quit_signalled \in BOOLEAN
  /\ run = "reading" <=> caller # "idle"
  /\ writing # "idle" => run = "writing"

Init ==
  /\ R!Init
  /\ W!Init
  /\ run = "testing"
  /\ quit_signalled = FALSE

-----------------------------------------------------------------------------
\* The loop: after a quit() it is over, otherwise read() begins.
EndsLoop ==
  /\ run = "testing" /\ quit_signalled
  /\ run' = "returned"
  /\ UNCHANGED <<readerVars, writerVars, quit_signalled>>

BeginsRead ==
  /\ run = "testing" /\ ~quit_signalled
  /\ R!ReadBegins
  /\ run' = "reading"
  /\ UNCHANGED <<writerVars, quit_signalled>>

\* read() goes on, and returns.
ReadsOn ==
  /\ run = "reading"
  /\ R!Calling
  /\ run' = IF caller' = "idle" THEN "read" ELSE "reading"
  /\ UNCHANGED <<writerVars, quit_signalled>>

ReaderThread(i) ==
  /\ R!RunReader(i)
  /\ UNCHANGED <<writerVars, run, quit_signalled>>

\* Mutant: an EOF is taken for a pause.
SeesNothing ==
  /\ run = "read" /\ result = NONE
  /\ run' = "testing"
  /\ UNCHANGED <<readerVars, writerVars, quit_signalled>>

SeesNone ==
  /\ run = "read" /\ result = NONE
  /\ run' = "returned"
  /\ UNCHANGED <<readerVars, writerVars, quit_signalled>>

BeginsWrite ==
  /\ run = "read" /\ result # NONE
  /\ W!WriteBegins(result)
  /\ run' = "writing"
  /\ UNCHANGED <<readerVars, quit_signalled>>

WritesOn ==
  /\ W!Running
  /\ UNCHANGED <<readerVars, run, quit_signalled>>

WriterThread(w) ==
  /\ W!Task(w)
  /\ UNCHANGED <<readerVars, run, quit_signalled>>

\* An exception of write() ends run().
EndsWrite ==
  /\ run = "writing" /\ writing = "idle"
  /\ run' = IF raised THEN "raised" ELSE "testing"
  /\ UNCHANGED <<readerVars, writerVars, quit_signalled>>

\* quit(), from another thread
Quit ==
  /\ ~quit_signalled
  /\ quit_signalled' = TRUE
  /\ UNCHANGED <<readerVars, writerVars, run>>

\* The process goes on to exist; daemon threads may be all that is left.
Stopped == run \in {"returned", "raised"} /\ UNCHANGED vars

Running ==
  \/ EndsLoop \/ BeginsRead \/ ReadsOn \/ SeesNone \/ BeginsWrite \/ WritesOn \/ EndsWrite

Next ==
  \/ Running
  \/ \E i \in R!Reader : ReaderThread(i)
  \/ \E w \in W!Writer : WriterThread(w)
  \/ Quit
  \/ Stopped

Spec == Init /\ [][Next]_vars

\* The threads run; quit() need not be called.
FairSpec ==
  /\ Spec
  /\ WF_vars(Running)
  /\ \A i \in R!Reader : WF_vars(ReaderThread(i))
  /\ \A w \in W!Writer : WF_vars(WriterThread(w))

-----------------------------------------------------------------------------
(***************************************************************************)
(* Properties.                                                             *)
(***************************************************************************)

\* What a writer has written follows what was read, without some records:
\* it has each of the others once, in the same order.
Comes(s, a, b) == \E k, l \in DOMAIN s : k < l /\ s[k] = a /\ s[l] = b

Follows(written, read, without) ==
  /\ ToSet(written) = ToSet(read) \ without
  /\ \A p, q \in DOMAIN written : p < q => Comes(read, written[p], written[q])

\* Between two records, every writer has written exactly the records that
\* were read before, in that order, but for those the transforms removed
\* and those for which it got no thread.
WritersAgree ==
  run \in {"testing", "reading", "read"} =>
    LET before == IF run = "read" /\ result # NONE THEN Front(returned) ELSE returned IN
    \A w \in W!Writer : Follows(wrote[w], before, Filtered \cup skipped[w])

\* ComposedReader's properties hold with this caller, for which read() is
\* one of its steps: no record is lost, doubled or out of its reader's order
\* between the threads, no wake-up is missed, None means EOF, and read()
\* returns.
ReadSafe == TypeOK /\ R!InOrderOnce /\ R!NoMissedWakeup
NoneMeansEOF == [][R!GivesNoneAtEOF]_vars
ReadReturns == R!ReadReturns

\* All the records of all readers.
AllRead == Cardinality(Record) = Len(returned)

\* run() returns by itself only when all the readers' records are written.
EOFMeansAllRead == run = "returned" /\ ~quit_signalled => AllRead

\* A listener whose readers come to their end returns, unless a
\* read() was deserted by its threads.
RunEnds == <>(run \in {"returned", "raised"}) \/ <>[](run = "reading" /\ R!Deserted)
=============================================================================
