-------------------------- MODULE LoggerSupervisor --------------------------
(***************************************************************************)
(* server/logger_supervisor.py: LoggerSupervisor keeps one LoggerRunner    *)
(* per logger.  Its operations (_check_loggers, update_configs, quit) each *)
(* hold logger_map_lock from beginning to end and treat one logger after   *)
(* another in the order of a set or a dictionary, that is in any order.    *)
(* Each of those per-logger steps is an action, because child processes    *)
(* end, and time passes, between them, and because a step that raises      *)
(* leaves the operation half done.                                         *)
(*                                                                         *)
(* time.time() is read only to compare the seconds since the last restart  *)
(* with min_uptime, so since_restart[l] is that age, which stops at        *)
(* MinUptime; a logger never restarted has last_started 0, long ago.       *)
(* restart_count is read only to compare it with max_tries, and stops      *)
(* there.  Both are exact for the comparisons the code makes.              *)
(***************************************************************************)
EXTENDS LoggerRunner, Integers, FiniteSets

CONSTANTS
  Logger,          \* the names of the loggers
  MaxTries,        \* max_tries
  MinUptime,       \* min_uptime, in ticks of the clock
  MonitorRuns,     \* does some thread execute run()?
  InitialConfigs,  \* the `configs` the constructor may be given
  ForkMayFail,     \* can Process.start() raise?
  UpdatesCome,     \* does anybody but run() call update_configs?
  MaxUnkillable    \* bound: children of a logger that survive SIGKILL

ConfigMap == [Logger -> Config \cup {NONE}]
EmptyMap  == [l \in Logger |-> NONE]

ASSUME SupervisorAssumption ==
  /\ MaxTries \in Nat
  /\ MinUptime \in Nat \ {0}
  /\ MonitorRuns \in BOOLEAN
  /\ ForkMayFail \in BOOLEAN
  /\ InitialConfigs \subseteq ConfigMap
  /\ UpdatesCome \in BOOLEAN
  /\ MaxUnkillable \in Nat

VARIABLES
  configs,        \* self.configs, the constructor's argument
  config_map,     \* logger_config_map, NONE where it has no key
  runner_map,     \* logger_runner_map, NONE where it has no key
  since_restart,  \* time.time() - logger_last_started, up to MinUptime
  restart_count,  \* logger_restart_counts, up to MaxTries
  quit_flag,
  lock,           \* the operation that holds logger_map_lock, or "free"
  todo,           \* the loggers that operation has still to treat
  target,         \* the `configs` argument of the update in progress
  monitor,        \* where the thread that executes run() is
  unkillable,     \* live children that quit() gave up on, per logger
  stray,          \* live children no runner refers to after a start()
  fork_failed,    \* history: has a Process.start() raised?
  burst,          \* history: monitor restarts without MinUptime between them
  tries           \* history: starts of the logger's present configuration

runnerVars  == <<config_map, runner_map, unkillable, stray, tries>>
restartVars == <<since_restart, restart_count, burst>>
lockVars    == <<lock, todo, target>>
flags       == <<quit_flag, fork_failed>>
vars == <<configs, runnerVars, restartVars, flags, lockVars, monitor>>

Known(l) == config_map[l] # NONE

AtMost(n, bound) == IF n < bound THEN n ELSE bound

TypeOK ==
  /\ configs \in ConfigMap
  /\ config_map \in ConfigMap
  /\ runner_map \in [Logger -> Runner \cup {NONE}]
  /\ since_restart \in [Logger -> 0..MinUptime]
  /\ restart_count \in [Logger -> 0..MaxTries]
  /\ quit_flag \in BOOLEAN
  /\ fork_failed \in BOOLEAN
  /\ lock \in {"free", "check", "update", "quit"}
  /\ todo \in SUBSET Logger
  /\ target \in ConfigMap
  /\ monitor \in {"start", "updating", "test", "armed", "checking", "done",
                  "crashed", "absent"}
  /\ unkillable \in [Logger -> 0..MaxUnkillable]
  /\ stray \in [Logger -> Nat]
  /\ burst \in [Logger -> Nat]
  /\ tries \in [Logger -> Nat]

Init ==
  /\ configs \in InitialConfigs
  /\ config_map = EmptyMap
  /\ runner_map = [l \in Logger |-> NONE]
  /\ since_restart = [l \in Logger |-> MinUptime]
  /\ restart_count = [l \in Logger |-> 0]
  /\ quit_flag = FALSE
  /\ fork_failed = FALSE
  /\ lock = "free"
  /\ todo = {}
  /\ target = EmptyMap
  /\ monitor = IF MonitorRuns THEN "start" ELSE "absent"
  /\ unkillable = [l \in Logger |-> 0]
  /\ stray = [l \in Logger |-> 0]
  /\ burst = [l \in Logger |-> 0]
  /\ tries = [l \in Logger |-> 0]

-----------------------------------------------------------------------------
(***************************************************************************)
(* Steps shared by the operations.                                         *)
(***************************************************************************)

Acquire(operation, loggers) ==
  /\ lock = "free"
  /\ lock' = operation
  /\ todo' = loggers

Treated(l) ==
  /\ todo' = todo \ {l}
  /\ UNCHANGED <<lock, target>>

\* The operation returns, or an exception leaves its `with` block.
Release ==
  /\ lock' = "free"
  /\ todo' = {}
  /\ target' = EmptyMap

(***************************************************************************)
(* _start_logger(l, c), and _delete_logger(l) followed by it: the maps get *)
(* the configuration and a fresh runner, whose start() forks or raises.    *)
(* Neither the restart count nor the time of the last restart is touched.  *)
(***************************************************************************)
Install(l, c, runner) ==
  /\ config_map' = [config_map EXCEPT ![l] = c]
  /\ runner_map' = [runner_map EXCEPT ![l] = runner]
  /\ tries' = [tries EXCEPT ![l] = 1]
  /\ UNCHANGED stray

\* runner.quit() returns: its child is gone, or is left alive for good.
StopChild(l) ==
  /\ ~QuitRaises(runner_map[l])
  /\ \/ UNCHANGED unkillable
     \/ /\ IsAlive(runner_map[l])
        /\ unkillable[l] < MaxUnkillable
        /\ unkillable' = [unkillable EXCEPT ![l] = @ + 1]

\* Mutant: the configuration stays in logger_config_map.
DeleteLoggerKeepsConfig(l) ==
  /\ StopChild(l)
  /\ runner_map' = [runner_map EXCEPT ![l] = NONE]
  /\ tries' = [tries EXCEPT ![l] = 0]
  /\ UNCHANGED <<config_map, stray>>

\* _delete_logger(l): quit the runner, then forget it in both maps.
DeleteLogger(l) ==
  /\ StopChild(l)
  /\ config_map' = [config_map EXCEPT ![l] = NONE]
  /\ runner_map' = [runner_map EXCEPT ![l] = NONE]
  /\ tries' = [tries EXCEPT ![l] = 0]
  /\ UNCHANGED stray

\* run() lets an exception of the call it made end the thread; another
\* caller's exception is that caller's.
MonitorAfter(returned) ==
  monitor' = IF monitor \notin {"updating", "checking"} THEN monitor
             ELSE IF returned THEN "test" ELSE "crashed"

-----------------------------------------------------------------------------
(***************************************************************************)
(* run(): update_configs() if there are any configs, then the loop         *)
(* `while not self.quit_flag: self._check_loggers(); sleep(interval)`.     *)
(* The flag is read without the lock, so quit() can complete between the   *)
(* test and the check.                                                     *)
(***************************************************************************)
MonitorSkipsUpdate ==
  /\ monitor = "start"
  /\ configs = EmptyMap \/ quit_flag
  /\ monitor' = "test"
  /\ UNCHANGED <<configs, runnerVars, restartVars, flags, lockVars>>

MonitorTest ==
  /\ monitor = "test"
  /\ monitor' = IF quit_flag THEN "done" ELSE "armed"
  /\ UNCHANGED <<configs, runnerVars, restartVars, flags, lockVars>>

\* Mutant: only the loggers that are running are looked at.
CheckBeginLiveOnly ==
  /\ monitor = "armed"
  /\ Acquire("check", {l \in Logger : runner_map[l] # NONE /\ IsAlive(runner_map[l])})
  /\ monitor' = "checking"
  /\ UNCHANGED <<configs, runnerVars, restartVars, flags, target>>

CheckBegin ==
  /\ monitor = "armed"
  /\ Acquire("check", {l \in Logger : runner_map[l] # NONE})
  /\ monitor' = "checking"
  /\ UNCHANGED <<configs, runnerVars, restartVars, flags, target>>

\* Mutants: the test of is_alive, or of is_failed, is missing.
DeadOrAlive(r)    == IsRunnable(r) /\ ~IsFailed(r)
DeadOrGivenUp(r)  == IsRunnable(r) /\ ~IsAlive(r)

\* A runner that is runnable, has no live child and has not been given up.
UnexpectedlyDead(r) == IsRunnable(r) /\ ~IsAlive(r) /\ ~IsFailed(r)

\* Mutant: a death counts twice.
NextCountByTwo(l) == IF since_restart[l] < MinUptime THEN restart_count[l] + 2 ELSE 0

\* The restart count the check stores: a death within min_uptime of the
\* last restart counts, a later one clears the slate.
NextCount(l) ==
  IF since_restart[l] < MinUptime
  THEN AtMost(restart_count[l] + 1, MaxTries)
  ELSE 0

CheckOkay(l) ==
  /\ lock = "check" /\ l \in todo
  /\ ~UnexpectedlyDead(runner_map[l])
  /\ Treated(l)
  /\ UNCHANGED <<configs, runnerVars, restartVars, flags, monitor>>

\* Mutant: the first death is the last.
CheckGivesUpAtOnce(l) ==
  /\ lock = "check" /\ l \in todo
  /\ UnexpectedlyDead(runner_map[l])
  /\ restart_count' = [restart_count EXCEPT ![l] = NextCount(l)]
  /\ runner_map' = [runner_map EXCEPT ![l].failed = TRUE]
  /\ Treated(l)
  /\ UNCHANGED <<configs, config_map, unkillable, stray, tries, since_restart,
                 burst, flags, monitor>>

CheckGivesUp(l) ==
  /\ lock = "check" /\ l \in todo
  /\ UnexpectedlyDead(runner_map[l])
  /\ NextCount(l) >= MaxTries
  /\ restart_count' = [restart_count EXCEPT ![l] = NextCount(l)]
  /\ runner_map' = [runner_map EXCEPT ![l].failed = TRUE]
  /\ Treated(l)
  /\ UNCHANGED <<configs, config_map, unkillable, stray, tries, since_restart,
                 burst, flags, monitor>>

\* Mutant: restart_count > max_tries in place of >=.
RestartOnceMore(l, runner) ==
  /\ UnexpectedlyDead(runner_map[l])
  /\ restart_count[l] <= MaxTries
  /\ restart_count' = [restart_count EXCEPT ![l] = NextCount(l)]
  /\ since_restart' = [since_restart EXCEPT ![l] = 0]
  /\ burst' = [burst EXCEPT ![l] = IF since_restart[l] < MinUptime THEN @ + 1 ELSE 1]
  /\ stray' = [stray EXCEPT ![l] = IF Abandons(runner_map[l]) THEN @ + 1 ELSE @]
  /\ tries' = [tries EXCEPT ![l] = AtMost(@ + 1, MaxTries + 1)]
  /\ runner_map' = [runner_map EXCEPT ![l] = runner]
  /\ UNCHANGED <<configs, config_map, unkillable, quit_flag>>

\* The state both outcomes of the restart's runner.start() leave behind.
Restart(l, runner) ==
  /\ UnexpectedlyDead(runner_map[l])
  /\ NextCount(l) < MaxTries
  /\ restart_count' = [restart_count EXCEPT ![l] = NextCount(l)]
  /\ since_restart' = [since_restart EXCEPT ![l] = 0]
  /\ burst' = [burst EXCEPT ![l] = IF since_restart[l] < MinUptime THEN @ + 1 ELSE 1]
  /\ stray' = [stray EXCEPT ![l] = IF Abandons(runner_map[l]) THEN @ + 1 ELSE @]
  /\ tries' = [tries EXCEPT ![l] = AtMost(@ + 1, MaxTries + 1)]
  /\ runner_map' = [runner_map EXCEPT ![l] = runner]
  /\ UNCHANGED <<configs, config_map, unkillable, quit_flag>>

CheckRestarts(l) ==
  /\ lock = "check" /\ l \in todo
  /\ Restart(l, Started(runner_map[l]))
  /\ Treated(l)
  /\ UNCHANGED <<monitor, fork_failed>>

CheckRestartRaises(l) ==
  /\ lock = "check" /\ l \in todo
  /\ ForkMayFail
  /\ Restart(l, StartFailed(runner_map[l]))
  /\ fork_failed' = TRUE
  /\ Release
  /\ MonitorAfter(FALSE)

CheckEnd ==
  /\ lock = "check" /\ todo = {}
  /\ Release
  /\ MonitorAfter(TRUE)
  /\ UNCHANGED <<configs, runnerVars, restartVars, flags>>

-----------------------------------------------------------------------------
(***************************************************************************)
(* update_configs(new): stale loggers are deleted, then new ones started,  *)
(* then those whose configuration differs replaced.  An empty argument     *)
(* means the constructor's configs.  After quit() the call returns at once *)
(* and is not a step.                                                      *)
(***************************************************************************)
Stale(l)     == Known(l) /\ target[l] = NONE
New(l)       == ~Known(l) /\ target[l] # NONE
Different(l) == Known(l) /\ target[l] \notin {NONE, config_map[l]}

Requested(new) == IF new = EmptyMap THEN configs ELSE new

\* Mutant: the quit flag is not looked at.
UpdateBeginAnyTime(new) ==
  /\ Acquire("update", {l \in Logger : config_map[l] # Requested(new)[l]})
  /\ target' = Requested(new)
  /\ UNCHANGED <<configs, runnerVars, restartVars, flags>>

UpdateBegin(new) ==
  /\ ~quit_flag
  /\ Acquire("update", {l \in Logger : config_map[l] # Requested(new)[l]})
  /\ target' = Requested(new)
  /\ UNCHANGED <<configs, runnerVars, restartVars, flags>>

MonitorUpdate ==
  /\ monitor = "start"
  /\ configs # EmptyMap
  /\ UpdateBegin(configs)
  /\ monitor' = "updating"

CallUpdate(new) ==
  /\ UpdatesCome
  /\ UpdateBegin(new)
  /\ UNCHANGED monitor

NoneLeft(Kind(_)) == \A l \in todo : ~Kind(l)

UpdateStops(l) ==
  /\ lock = "update" /\ l \in todo /\ Stale(l)
  /\ DeleteLogger(l)
  /\ Treated(l)
  /\ UNCHANGED <<configs, restartVars, flags, monitor>>

UpdateStarts(l) ==
  /\ lock = "update" /\ l \in todo /\ New(l)
  /\ NoneLeft(Stale)
  /\ Install(l, target[l], Started(NewRunner(target[l])))
  /\ Treated(l)
  /\ UNCHANGED <<configs, restartVars, flags, unkillable, monitor>>

\* Mutant: the logger is started again with its old configuration.
UpdateReplacesByOld(l) ==
  /\ lock = "update" /\ l \in todo /\ Different(l)
  /\ NoneLeft(Stale) /\ NoneLeft(New)
  /\ StopChild(l)
  /\ Install(l, config_map[l], Started(NewRunner(config_map[l])))
  /\ Treated(l)
  /\ UNCHANGED <<configs, restartVars, flags, monitor>>

UpdateReplaces(l) ==
  /\ lock = "update" /\ l \in todo /\ Different(l)
  /\ NoneLeft(Stale) /\ NoneLeft(New)
  /\ StopChild(l)
  /\ Install(l, target[l], Started(NewRunner(target[l])))
  /\ Treated(l)
  /\ UNCHANGED <<configs, restartVars, flags, monitor>>

\* The start of a new or replaced logger raises: the maps already hold it,
\* and the loggers still to treat keep what they had.
UpdateStartRaises(l) ==
  /\ lock = "update" /\ l \in todo
  /\ ForkMayFail
  /\ NoneLeft(Stale)
  /\ \/ New(l) /\ UNCHANGED unkillable
     \/ Different(l) /\ NoneLeft(New) /\ StopChild(l)
  /\ Install(l, target[l], StartFailed(NewRunner(target[l])))
  /\ fork_failed' = TRUE
  /\ Release
  /\ MonitorAfter(FALSE)
  /\ UNCHANGED <<configs, restartVars, quit_flag>>

\* _delete_logger raises in runner.quit(), before it changes either map.
UpdateStopRaises(l) ==
  /\ lock = "update" /\ l \in todo
  /\ Stale(l) \/ (Different(l) /\ NoneLeft(Stale) /\ NoneLeft(New))
  /\ QuitRaises(runner_map[l])
  /\ Release
  /\ MonitorAfter(FALSE)
  /\ UNCHANGED <<configs, runnerVars, restartVars, flags>>

UpdateEnd ==
  /\ lock = "update" /\ todo = {}
  /\ Release
  /\ MonitorAfter(TRUE)
  /\ UNCHANGED <<configs, runnerVars, restartVars, flags>>

-----------------------------------------------------------------------------
(***************************************************************************)
(* quit(): set the flag and delete every logger, under the lock.           *)
(***************************************************************************)
\* Mutant: only the loggers that are running are deleted.
QuitBeginLiveOnly ==
  /\ Acquire("quit", {l \in Logger : runner_map[l] # NONE /\ IsAlive(runner_map[l])})
  /\ quit_flag' = TRUE
  /\ UNCHANGED <<configs, runnerVars, restartVars, fork_failed, target, monitor>>

QuitBegin ==
  /\ Acquire("quit", {l \in Logger : runner_map[l] # NONE})
  /\ quit_flag' = TRUE
  /\ UNCHANGED <<configs, runnerVars, restartVars, fork_failed, target, monitor>>

QuitStops(l) ==
  /\ lock = "quit" /\ l \in todo
  /\ DeleteLogger(l)
  /\ Treated(l)
  /\ UNCHANGED <<configs, restartVars, flags, monitor>>

QuitRaisesAt(l) ==
  /\ lock = "quit" /\ l \in todo
  /\ QuitRaises(runner_map[l])
  /\ Release
  /\ UNCHANGED <<configs, runnerVars, restartVars, flags, monitor>>

QuitEnd ==
  /\ lock = "quit" /\ todo = {}
  /\ Release
  /\ UNCHANGED <<configs, runnerVars, restartVars, flags, monitor>>

-----------------------------------------------------------------------------
(***************************************************************************)
(* The children and the clock.                                             *)
(***************************************************************************)
ChildExits(l) ==
  /\ runner_map[l] # NONE
  /\ IsAlive(runner_map[l])
  /\ runner_map' = [runner_map EXCEPT ![l] = Exited(@)]
  /\ UNCHANGED <<configs, config_map, unkillable, stray, tries, restartVars,
                 flags, lockVars, monitor>>

UnkillableExits(l) ==
  /\ unkillable[l] > 0
  /\ unkillable' = [unkillable EXCEPT ![l] = @ - 1]
  /\ UNCHANGED <<configs, config_map, runner_map, stray, tries, restartVars,
                 flags, lockVars, monitor>>

Tick ==
  /\ since_restart' = [l \in Logger |-> AtMost(since_restart[l] + 1, MinUptime)]
  /\ UNCHANGED <<configs, runnerVars, restart_count, burst, flags, lockVars,
                 monitor>>

-----------------------------------------------------------------------------
\* What get_status() reports of a logger, in one step under the lock.
Status(l) ==
  IF runner_map[l] = NONE THEN "UNKNOWN"
  ELSE IF ~IsRunnable(runner_map[l]) THEN "EXITED"
  ELSE IF IsAlive(runner_map[l]) THEN "RUNNING"
  ELSE IF IsFailed(runner_map[l]) THEN "FAILED" ELSE "STARTING"

MonitorStep ==
  \/ MonitorSkipsUpdate
  \/ MonitorUpdate
  \/ MonitorTest
  \/ CheckBegin
  \/ \E l \in Logger : \/ CheckOkay(l)
                       \/ CheckGivesUp(l)
                       \/ CheckRestarts(l)
                       \/ CheckRestartRaises(l)
  \/ CheckEnd

UpdateStep ==
  \/ \E l \in Logger : \/ UpdateStops(l)
                       \/ UpdateStarts(l)
                       \/ UpdateReplaces(l)
                       \/ UpdateStartRaises(l)
                       \/ UpdateStopRaises(l)
  \/ UpdateEnd

QuitStep ==
  \/ \E l \in Logger : QuitStops(l) \/ QuitRaisesAt(l)
  \/ QuitEnd

Environment ==
  \/ \E l \in Logger : ChildExits(l) \/ UnkillableExits(l)
  \/ Tick

Next ==
  \/ MonitorStep
  \/ \E new \in ConfigMap : CallUpdate(new)
  \/ UpdateStep
  \/ QuitBegin
  \/ QuitStep
  \/ Environment

Spec == Init /\ [][Next]_vars

(***************************************************************************)
(* A thread inside an operation runs on to its end, and the thread that    *)
(* executes run() runs.  Nobody has to call update_configs or quit, no     *)
(* child has to end and no fork has to fail.                               *)
(***************************************************************************)
FairSpec ==
  /\ Spec
  /\ WF_vars(MonitorStep)
  /\ WF_vars(UpdateStep)
  /\ WF_vars(QuitStep)
-----------------------------------------------------------------------------
(***************************************************************************)
(* Properties.                                                             *)
(***************************************************************************)

\* The two maps hold the same loggers and agree on their configurations, at
\* every step of every operation, those that raise included: get_status and
\* _check_loggers index one map with the keys of the other.
MapsAgree ==
  \A l \in Logger :
    IF Known(l)
    THEN runner_map[l] # NONE /\ runner_map[l].config = config_map[l]
    ELSE runner_map[l] = NONE

\* No live child is ever left without a runner that can stop it, except
\* those quit() reports as impossible to kill: a second start() of the same
\* runner finds its first child dead.
NoStrayChild == \A l \in Logger : stray[l] = 0

\* What every operation of the supervisor relies on and none may break, at
\* each of its steps: the state's types, the agreement of the maps and the
\* hold on the children.
FleetSafe == TypeOK /\ MapsAgree /\ NoStrayChild

\* A crash loop is bounded, whatever the reconfigurations in between: no
\* logger is restarted more than max_tries times in a row with less than
\* min_uptime between the restarts.
CrashLoopBounded == \A l \in Logger : burst[l] <= MaxTries

\* When an update returns, the loggers that run are those it was given.
UpdateInstallsTarget ==
  lock = "update" => \A l \in Logger \ todo : config_map[l] = target[l]

Live(l)    == runner_map[l] # NONE /\ IsAlive(runner_map[l])
GivenUp(l) == runner_map[l] # NONE /\ IsFailed(runner_map[l])

\* Once quit() is over no logger runs, even if a check or an update was
\* waiting for the lock meanwhile: unless a fork has failed, for a runner
\* that was never forked makes quit() raise before it is through.
QuitIsFinal ==
  quit_flag /\ lock # "quit" /\ ~fork_failed => \A l \in Logger : ~Live(l)

\* From the moment the quit flag is up no child is started.
NoStartAfterQuit ==
  [][quit_flag /\ ~fork_failed => \A l \in Logger : Live(l)' => Live(l)]_vars

\* A logger that was given up stays so until its configuration is changed
\* or removed: the monitor never restarts it.
GivenUpStays ==
  [][\A l \in Logger : GivenUp(l) /\ ~GivenUp(l)' => lock \in {"update", "quit"}]_vars

\* An end is an end: neither the monitor, for a logger it gave up, nor an
\* operation that was waiting for the lock, after quit(), starts it again.
EndIsFinal == GivenUpStays /\ NoStartAfterQuit

\* A configuration is given up only after it has been tried max_tries times.
TriesHonoured ==
  \A l \in Logger : GivenUp(l) => tries[l] >= MaxTries

\* run() makes sure that loggers keep running: one whose status is STARTING,
\* found dead and not given up, is restarted, given up or removed.
DeadLoggerHandled ==
  \A l \in Logger : Status(l) = "STARTING" ~> Status(l) # "STARTING"
=============================================================================
