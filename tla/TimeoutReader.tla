---------------------------- MODULE TimeoutReader ----------------------------
(***************************************************************************)
(* logger/readers/timeout_reader.py: read() waits until its client reader  *)
(* has been silent for too long, or has given a record again; a thread     *)
(* reads from the client meanwhile and forgets what it reads.              *)
(*                                                                         *)
(* Time is counted in ticks since an event and capped.  The thread runs    *)
(* without delay, the caller of read() may be slow.  The client gives a    *)
(* record that counts, or nothing: what does not count is skipped by the   *)
(* inner loop.  timeout_lock is held for single steps only.                *)
(***************************************************************************)
EXTENDS Integers

CONSTANTS
  Timeout,  \* timeout
  NONE      \* None

\* Assumed by the module that runs it.
TimeoutAssumption == Timeout \in Nat \ {0} /\ NONE \notin {"timeout", "resume"}

VARIABLES
  keep_reading,  \* keep_reading
  timed_out,     \* timed_out
  age,           \* ticks since last_record
  thread,        \* the thread: "none", "testing", "reading", "stamping" or "ending"
  caller,        \* read(): "idle", "stamping", "starting", "looping", "checking", "sleeping"
  slept,         \* has its sleep lasted long enough?
  result,        \* what read() returned last
  arrived,       \* has the client a record to give?
  quiet,         \* history: ticks since the client gave a record, or read() began
  quit           \* history: has quit() been called during this read()?

vars == <<keep_reading, timed_out, age, thread, caller, slept, result, arrived, quiet, quit>>

Cap == Timeout + 1

TypeOK ==
  /\ keep_reading \in BOOLEAN /\ timed_out \in BOOLEAN /\ slept \in BOOLEAN
  /\ arrived \in BOOLEAN /\ quit \in BOOLEAN
  /\ age \in 0..Cap /\ quiet \in 0..Cap
  /\ thread \in {"none", "testing", "reading", "stamping", "ending"}
  /\ caller \in {"idle", "stamping", "starting", "looping", "checking", "sleeping"}
  /\ result \in {"timeout", "resume", NONE}

Init ==
  /\ keep_reading = FALSE /\ timed_out = FALSE
  /\ age = 0 /\ quiet = 0
  /\ thread = "none"
  /\ caller = "idle" /\ slept = FALSE /\ result = NONE
  /\ arrived = FALSE /\ quit = FALSE

-----------------------------------------------------------------------------
(***************************************************************************)
(* read().                                                                 *)
(***************************************************************************)
Goes(place) == caller' = place

ReadBegins ==
  /\ caller = "idle"
  /\ keep_reading' = TRUE
  /\ quiet' = 0 /\ quit' = FALSE
  /\ Goes("stamping")
  /\ UNCHANGED <<timed_out, age, thread, slept, result, arrived>>

StampsStart ==
  /\ caller = "stamping"
  /\ age' = 0
  /\ Goes("starting")
  /\ UNCHANGED <<keep_reading, timed_out, thread, slept, result, arrived, quiet, quit>>

\* A thread that is about to end is still alive, and none is started.
StartsThread ==
  /\ caller = "starting"
  /\ thread' = IF thread = "none" THEN "testing" ELSE thread
  /\ Goes("looping")
  /\ UNCHANGED <<keep_reading, timed_out, age, slept, result, arrived, quiet, quit>>

Returns(message) == Goes("idle") /\ result' = message

\* while self.keep_reading; where the loop ends, read() returns None.
Loops ==
  /\ caller = "looping"
  /\ IF keep_reading THEN Goes("checking") /\ UNCHANGED result ELSE Returns(NONE)
  /\ UNCHANGED <<keep_reading, timed_out, age, thread, slept, arrived, quiet, quit>>

Resumes ==
  /\ caller = "checking" /\ timed_out /\ age < Timeout
  /\ timed_out' = FALSE /\ keep_reading' = FALSE
  /\ Returns("resume")
  /\ UNCHANGED <<age, thread, slept, arrived, quiet, quit>>

\* Mutant: the message is not returned.
TimesOutUntold ==
  /\ caller = "checking" /\ ~timed_out /\ age > Timeout
  /\ Goes("sleeping") /\ slept' = FALSE
  /\ UNCHANGED <<keep_reading, timed_out, age, thread, result, arrived, quiet, quit>>

TimesOut ==
  /\ caller = "checking" /\ ~timed_out /\ age > Timeout
  /\ timed_out' = TRUE /\ keep_reading' = FALSE
  /\ Returns("timeout")
  /\ UNCHANGED <<age, thread, slept, arrived, quiet, quit>>

Sleeps ==
  /\ caller = "checking"
  /\ ~(timed_out /\ age < Timeout) /\ ~(~timed_out /\ age > Timeout)
  /\ Goes("sleeping") /\ slept' = FALSE
  /\ UNCHANGED <<keep_reading, timed_out, age, thread, result, arrived, quiet, quit>>

Wakes ==
  /\ caller = "sleeping" /\ slept
  /\ Goes("looping")
  /\ UNCHANGED <<keep_reading, timed_out, age, thread, slept, result, arrived, quiet, quit>>

\* quit(), by another thread.
Quit ==
  /\ ~quit
  /\ quit' = TRUE /\ keep_reading' = FALSE
  /\ UNCHANGED <<timed_out, age, thread, caller, slept, result, arrived, quiet>>

-----------------------------------------------------------------------------
(***************************************************************************)
(* _timeout_thread.                                                        *)
(***************************************************************************)
ThreadTests ==
  /\ thread = "testing"
  /\ thread' = IF keep_reading THEN "reading" ELSE "ending"
  /\ UNCHANGED <<keep_reading, timed_out, age, caller, slept, result, arrived, quiet, quit>>

ThreadReads ==
  /\ thread = "reading" /\ arrived
  /\ arrived' = FALSE
  /\ quiet' = 0
  /\ thread' = "stamping"
  /\ UNCHANGED <<keep_reading, timed_out, age, caller, slept, result, quit>>

\* Mutant: the end of the silence ends every read().
ThreadStampsAndStops ==
  /\ thread = "stamping"
  /\ age' = 0
  /\ keep_reading' = FALSE
  /\ thread' = "testing"
  /\ UNCHANGED <<timed_out, caller, slept, result, arrived, quiet, quit>>

\* Mutant: a record leaves the time of the last one as it was.
ThreadForgets ==
  /\ thread = "stamping"
  /\ keep_reading' = (keep_reading /\ ~timed_out)
  /\ thread' = "testing"
  /\ UNCHANGED <<age, timed_out, caller, slept, result, arrived, quiet, quit>>

ThreadStamps ==
  /\ thread = "stamping"
  /\ age' = 0
  /\ keep_reading' = (keep_reading /\ ~timed_out)
  /\ thread' = "testing"
  /\ UNCHANGED <<timed_out, caller, slept, result, arrived, quiet, quit>>

ThreadEnds ==
  /\ thread = "ending"
  /\ thread' = "none"
  /\ UNCHANGED <<keep_reading, timed_out, age, caller, slept, result, arrived, quiet, quit>>

-----------------------------------------------------------------------------
(***************************************************************************)
(* The client and time.                                                    *)
(***************************************************************************)
RecordArrives ==
  /\ ~arrived
  /\ arrived' = TRUE
  /\ UNCHANGED <<keep_reading, timed_out, age, thread, caller, slept, result, quiet, quit>>

OneMore(n) == IF n < Cap THEN n + 1 ELSE n

Tick ==
  /\ \/ thread = "none"
     \/ thread = "reading" /\ ~arrived
  /\ age' = OneMore(age)
  /\ quiet' = OneMore(quiet)
  /\ slept' = (slept \/ caller = "sleeping")
  /\ UNCHANGED <<keep_reading, timed_out, thread, caller, result, arrived, quit>>

Reading ==
  \/ StampsStart \/ StartsThread \/ Loops \/ Resumes \/ TimesOut \/ Sleeps \/ Wakes

Thread == ThreadTests \/ ThreadReads \/ ThreadStamps \/ ThreadEnds

Next == ReadBegins \/ Reading \/ Quit \/ Thread \/ RecordArrives \/ Tick

Spec == Init /\ [][Next]_vars

\* A read() that was called goes on, and so do the thread and time; the
\* caller need not read, nor the client have records.
FairSpec == Spec /\ WF_vars(Reading) /\ WF_vars(Thread) /\ WF_vars(Tick)

-----------------------------------------------------------------------------
(***************************************************************************)
(* Properties.                                                             *)
(***************************************************************************)

\* A timeout is returned only by a read() that has lasted longer than that,
\* with no record read from the client meanwhile but for one that is being
\* noted at this moment.
TellsOfSilence ==
  caller = "checking" /\ caller' = "idle" /\ result' = "timeout"
    => quiet > Timeout \/ thread = "stamping"

TimeoutMeansSilence == [][TellsOfSilence]_vars

\* read() returns None, which its callers take for EOF, only in the place of
\* the message that records have come again, or after quit().
GivesNoneAtResume == caller = "looping" /\ caller' = "idle" => timed_out \/ quit

NoneForResumeOnly == [][GivesNoneAtResume]_vars

\* A read() of a client that has fallen silent returns, unless it waits for
\* the silence to end; while it does not, the client's records are read.
SilentReadReturns ==
  []<>(caller = "idle") \/ []<><<thread = "reading" /\ thread' = "stamping">>_vars \/ <>[]timed_out
=============================================================================
