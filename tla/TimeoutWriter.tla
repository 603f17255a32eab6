---------------------------- MODULE TimeoutWriter ----------------------------
(***************************************************************************)
(* logger/writers/timeout_writer.py: write() notes when it was called, and *)
(* a thread writes one message to the client writer when that is too long  *)
(* ago; the next write() writes another.  Both use the client writer, and  *)
(* last_record and timed_out, under timeout_lock.                          *)
(*                                                                         *)
(* Time is counted in ticks since an event and capped.  The threads run    *)
(* without delay, unless they wait for the lock; the client writer may     *)
(* need up to Slow ticks for a message, and may raise, which nothing here  *)
(* handles.  Records that do not count (empty_is_okay, none_is_okay)       *)
(* return from write() at once and change nothing.                         *)
(***************************************************************************)
EXTENDS Integers, Sequences

CONSTANTS
  Timeout,     \* timeout
  Slow,        \* ticks the client writer needs at most
  RecordBound  \* bound: records written

\* Assumed by the module that runs it.
TimeoutAssumption == Timeout \in Nat \ {0} /\ Slow \in Nat /\ RecordBound \in Nat

VARIABLES
  age,        \* ticks since last_record
  timed_out,  \* timed_out
  watcher,    \* the thread: "sleeping", "locking", "telling", "ended", or
              \* "dead" of an exception
  sleep,      \* ticks its sleep lasts on
  stale,      \* ticks since it read the clock
  write,      \* write(): "idle", "locking" or "telling"
  busy,       \* ticks the client writer has been at work
  told,       \* what the client writer was given, and whether it raised
  writes,     \* records written so far
  quit_signaled,
  silence     \* history: ticks since a write() ended, by an exception or not

vars == <<age, timed_out, watcher, sleep, stale, write, busy, told, writes, quit_signaled,
          silence>>

AgeCap     == 2 * Timeout + 2 * Slow + 3
SilenceCap == Timeout + Slow + 2

Message == [text : {"timeout", "resume"}, raised : BOOLEAN]

TypeOK ==
  /\ age \in 0..AgeCap
  /\ timed_out \in BOOLEAN
  /\ watcher \in {"sleeping", "locking", "telling", "ended", "dead"}
  /\ sleep \in 0..(Timeout + Slow + 1)
  /\ stale \in 0..(Slow + 1)
  /\ write \in {"idle", "locking", "telling"}
  /\ busy \in 0..Slow
  /\ told \in Seq(Message)
  /\ writes \in 0..RecordBound /\ quit_signaled \in BOOLEAN
  /\ silence \in 0..SilenceCap
  /\ ~(watcher = "telling" /\ write = "telling")

Init ==
  /\ age = 0 /\ timed_out = FALSE
  /\ watcher = "locking" /\ sleep = 0 /\ stale = 0
  /\ write = "idle" /\ busy = 0
  /\ told = <<>> /\ writes = 0 /\ quit_signaled = FALSE /\ silence = 0

\* timeout_lock is held while a message is given to the client writer.
Free == watcher # "telling" /\ write # "telling"

\* The client writer's write() returns or raises.
Gives(text, raised) == told' = Append(told, [text |-> text, raised |-> raised])

-----------------------------------------------------------------------------
(***************************************************************************)
(* _timeout_thread.                                                        *)
(***************************************************************************)
\* The thread wakes up and reads the clock, before it has the lock; or it
\* ends.
Wakes ==
  /\ watcher = "sleeping" /\ sleep = 0
  /\ watcher' = IF quit_signaled THEN "ended" ELSE "locking"
  /\ stale' = 0
  /\ UNCHANGED <<age, timed_out, sleep, write, busy, told, writes, quit_signaled, silence>>

\* A sleep of no time ends before the next tick is over.
SleepsFor(ticks) ==
  /\ watcher' = "sleeping"
  /\ sleep' = IF ticks = 0 THEN 1 ELSE ticks

\* Mutant: every check that finds silence writes a message.
ChecksAndTellsAgain ==
  /\ watcher = "locking" /\ Free
  /\ LET left == Timeout - (age - stale) IN
       IF left < 0 /\ Len(told) < 2 * RecordBound + 2
       THEN timed_out' = TRUE /\ watcher' = "telling" /\ busy' = 0 /\ UNCHANGED sleep
       ELSE SleepsFor(IF left < 0 THEN Timeout ELSE left) /\ UNCHANGED <<timed_out, busy>>
  /\ UNCHANGED <<age, stale, write, told, writes, quit_signaled, silence>>

\* Under the lock: overdue or not, by the clock as it was read.
Checks ==
  /\ watcher = "locking" /\ Free
  /\ LET left == Timeout - (age - stale) IN
       IF left < 0 /\ ~timed_out
       THEN timed_out' = TRUE /\ watcher' = "telling" /\ busy' = 0 /\ UNCHANGED sleep
       ELSE SleepsFor(IF left < 0 THEN Timeout ELSE left) /\ UNCHANGED <<timed_out, busy>>
  /\ UNCHANGED <<age, stale, write, told, writes, quit_signaled, silence>>

\* Mutant: the thread ends when it has told of a timeout.
TimeoutToldOnce ==
  /\ watcher = "telling"
  /\ Gives("timeout", FALSE)
  /\ watcher' = "ended"
  /\ UNCHANGED <<age, timed_out, sleep, stale, write, busy, writes, quit_signaled, silence>>

TimeoutTold ==
  /\ watcher = "telling"
  /\ Gives("timeout", FALSE)
  /\ SleepsFor(Timeout)
  /\ UNCHANGED <<age, timed_out, stale, write, busy, writes, quit_signaled, silence>>

\* The exception releases the lock and ends the thread; timed_out is set.
TimeoutRaises ==
  /\ watcher = "telling"
  /\ Gives("timeout", TRUE)
  /\ watcher' = "dead"
  /\ UNCHANGED <<age, timed_out, sleep, stale, write, busy, writes, quit_signaled, silence>>

-----------------------------------------------------------------------------
(***************************************************************************)
(* write().                                                                *)
(***************************************************************************)
WriteBegins ==
  /\ write = "idle" /\ writes < RecordBound
  /\ writes' = writes + 1
  /\ write' = "locking"
  /\ UNCHANGED <<age, timed_out, watcher, sleep, stale, busy, told, quit_signaled, silence>>

\* Mutant: the lock is not taken.
NotesUnlocked ==
  /\ write = "locking"
  /\ IF timed_out
     THEN timed_out' = FALSE /\ write' = "telling" /\ busy' = 0 /\ UNCHANGED <<age, silence>>
     ELSE age' = 0 /\ silence' = 0 /\ write' = "idle" /\ UNCHANGED <<timed_out, busy>>
  /\ UNCHANGED <<watcher, sleep, stale, told, writes, quit_signaled>>

Notes ==
  /\ write = "locking" /\ Free
  /\ IF timed_out
     THEN timed_out' = FALSE /\ write' = "telling" /\ busy' = 0 /\ UNCHANGED <<age, silence>>
     ELSE age' = 0 /\ silence' = 0 /\ write' = "idle" /\ UNCHANGED <<timed_out, busy>>
  /\ UNCHANGED <<watcher, sleep, stale, told, writes, quit_signaled>>

ResumeTold ==
  /\ write = "telling"
  /\ Gives("resume", FALSE)
  /\ age' = 0 /\ silence' = 0
  /\ write' = "idle"
  /\ UNCHANGED <<timed_out, watcher, sleep, stale, busy, writes, quit_signaled>>

\* Mutant: timed_out is cleared only after the message has been told.
ResumeRaisesTimedOut ==
  /\ write = "telling"
  /\ Gives("resume", TRUE)
  /\ silence' = 0
  /\ timed_out' = TRUE
  /\ write' = "idle"
  /\ UNCHANGED <<age, watcher, sleep, stale, busy, writes, quit_signaled>>

\* The exception leaves write(), timed_out cleared and last_record as it was.
ResumeRaises ==
  /\ write = "telling"
  /\ Gives("resume", TRUE)
  /\ silence' = 0
  /\ write' = "idle"
  /\ UNCHANGED <<age, timed_out, watcher, sleep, stale, busy, writes, quit_signaled>>

Quit ==
  /\ ~quit_signaled
  /\ quit_signaled' = TRUE
  /\ UNCHANGED <<age, timed_out, watcher, sleep, stale, write, busy, told, writes, silence>>

-----------------------------------------------------------------------------
\* Time passes while nobody can run, or the client writer is at work.
Tick ==
  /\ \/ watcher = "sleeping" /\ sleep > 0 /\ write = "idle"
     \/ watcher \in {"ended", "dead"} /\ write = "idle"
     \/ ~Free /\ busy < Slow /\ ~(watcher = "sleeping" /\ sleep = 0)
  /\ age' = IF age < AgeCap THEN age + 1 ELSE age
  /\ silence' = IF silence < SilenceCap THEN silence + 1 ELSE silence
  /\ sleep' = IF watcher = "sleeping" THEN sleep - 1 ELSE sleep
  /\ stale' = IF watcher = "locking" THEN stale + 1 ELSE stale
  /\ busy' = IF Free THEN busy ELSE busy + 1
  /\ UNCHANGED <<timed_out, watcher, write, told, writes, quit_signaled>>

Watching == Wakes \/ Checks \/ TimeoutTold \/ TimeoutRaises

Writing == Notes \/ ResumeTold \/ ResumeRaises

Next == Watching \/ WriteBegins \/ Writing \/ Quit \/ Tick

Spec == Init /\ [][Next]_vars

-----------------------------------------------------------------------------
(***************************************************************************)
(* Properties.                                                             *)
(***************************************************************************)

\* The two messages take turns (test_timeout_writer.py), those at which the
\* client writer raises counted too, and the last one tells what holds unless
\* another is just being given.  So a resumption is told without its timeout
\* only if the client writer raised at that, and the other way round.
Alternate ==
  /\ \A i \in DOMAIN told : told[i].text = IF i % 2 = 1 THEN "timeout" ELSE "resume"
  /\ Free => (timed_out <=> Len(told) % 2 = 1)

\* Nobody watches any more: the client writer raised at a timeout.
Unwatched == \E i \in DOMAIN told : told[i].text = "timeout" /\ told[i].raised

\* A silence is noticed within a tick of the timeout, or later by as long
\* as the thread has waited for the client writer, until quit(), and unless
\* the client writer has raised at a timeout.  If it raised at a resumption,
\* though last_record is then out of date, the next silence is noticed.
SilenceNoticed ==
  silence > Timeout + Slow + 1 =>
    timed_out \/ write = "telling" \/ quit_signaled \/ Unwatched
=============================================================================
