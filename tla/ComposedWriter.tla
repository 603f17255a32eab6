--------------------------- MODULE ComposedWriter ---------------------------
(***************************************************************************)
(* logger/writers/composed_writer.py: write() of a ComposedWriter of at    *)
(* least two writers, with a thread for each of them.  (A single writer is *)
(* called directly.)  write() waits for its threads, so that the           *)
(* writer_locks are never waited for.                                      *)
(***************************************************************************)
EXTENDS Integers, Sequences, FiniteSets

CONSTANTS
  NumWriters,  \* len(writers)
  Record,      \* what is written
  Filtered,    \* the records the transforms make None of
  NONE,        \* no record
  FailBound    \* bound: writes that fail, threads that cannot be started

Writer == 1..NumWriters

\* Assumed by the module that runs it.
WriterAssumption ==
  /\ NumWriters \in Nat \ {0, 1}
  /\ Filtered \subseteq Record
  /\ NONE \notin Record
  /\ FailBound \in Nat

VARIABLES
  writing,     \* write(): "idle", "starting" or "joining"
  record,      \* its record
  next,        \* its loop over the writers
  task,        \* each writer's thread: "none", "writing" or "done"
  exceptions,  \* is there an exception of each writer?
  raised,      \* has the last write() raised one?
  fails,       \* failures so far
  wrote,       \* what each writer has written
  skipped      \* history: the records for which a writer had no thread

vars == <<writing, record, next, task, exceptions, raised, fails, wrote, skipped>>

TypeOK ==
  /\ writing \in {"idle", "starting", "joining"}
  /\ record \in Record \cup {NONE}
  /\ record = NONE <=> writing = "idle"
  /\ next \in 1..(NumWriters + 1)
  /\ task \in [Writer -> {"none", "writing", "done"}]
  /\ exceptions \in [Writer -> BOOLEAN]
  /\ raised \in BOOLEAN
  /\ fails \in 0..FailBound
  /\ wrote \in [Writer -> Seq(Record)]
  /\ skipped \in [Writer -> SUBSET Record]

NoTasks == [w \in Writer |-> "none"]

Init ==
  /\ writing = "idle" /\ record = NONE /\ next = 1
  /\ task = NoTasks
  /\ exceptions = [w \in Writer |-> FALSE] /\ raised = FALSE
  /\ fails = 0
  /\ wrote = [w \in Writer |-> <<>>]
  /\ skipped = [w \in Writer |-> {}]

\* write(r): the transforms may leave nothing to write.
WriteBegins(r) ==
  /\ writing = "idle"
  /\ IF r \in Filtered
     THEN /\ raised' = FALSE
          /\ UNCHANGED <<writing, record, next>>
     ELSE /\ writing' = "starting" /\ record' = r /\ next' = 1
          /\ UNCHANGED raised
  /\ UNCHANGED <<task, exceptions, fails, wrote, skipped>>

StartsTask ==
  /\ writing = "starting" /\ next <= NumWriters
  /\ task' = [task EXCEPT ![next] = "writing"]
  /\ next' = next + 1
  /\ UNCHANGED <<writing, record, exceptions, raised, fails, wrote, skipped>>

\* t.start() raises, which is logged.
StartFails ==
  /\ writing = "starting" /\ next <= NumWriters
  /\ fails < FailBound
  /\ fails' = fails + 1
  /\ skipped' = [skipped EXCEPT ![next] = @ \cup {record}]
  /\ next' = next + 1
  /\ UNCHANGED <<writing, record, task, exceptions, raised, wrote>>

TasksStarted ==
  /\ writing = "starting" /\ next > NumWriters
  /\ writing' = "joining"
  /\ UNCHANGED <<record, next, task, exceptions, raised, fails, wrote, skipped>>

\* _run_writer(w)
Writes(w) ==
  /\ task[w] = "writing"
  /\ wrote' = [wrote EXCEPT ![w] = Append(@, record)]
  /\ task' = [task EXCEPT ![w] = "done"]
  /\ UNCHANGED <<writing, record, next, exceptions, raised, fails, skipped>>

WriteFails(w) ==
  /\ task[w] = "writing"
  /\ fails < FailBound
  /\ fails' = fails + 1
  /\ exceptions' = [exceptions EXCEPT ![w] = TRUE]
  /\ task' = [task EXCEPT ![w] = "done"]
  /\ UNCHANGED <<writing, record, next, raised, wrote, skipped>>

Joined(done) ==
  /\ writing = "joining"
  /\ \A w \in done : task[w] # "writing"
  /\ raised' = (\E w \in Writer : exceptions[w])
  /\ writing' = "idle" /\ record' = NONE
  /\ task' = NoTasks
  /\ UNCHANGED <<next, exceptions, fails, wrote, skipped>>

\* Mutant: only the last thread is waited for.
JoinsLast == Joined({NumWriters})

\* All threads are waited for; an exception that one of them has left, now
\* or at an earlier write, is raised.
Joins == Joined(Writer)

Running == StartsTask \/ StartFails \/ TasksStarted \/ Joins

Task(w) == Writes(w) \/ WriteFails(w)
=============================================================================
