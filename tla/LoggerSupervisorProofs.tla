----------------------- MODULE LoggerSupervisorProofs -----------------------
(***************************************************************************)
(* Invariants of LoggerSupervisor for every set of loggers and             *)
(* configurations, every max_tries and min_uptime, any number of updates,  *)
(* with or without failing forks and unkillable children.                  *)
(***************************************************************************)
EXTENDS LoggerSupervisor, TLAPS

\* An operation treats only loggers that have a runner: nobody else can
\* delete one while it holds the lock.
TodoHasRunner ==
  lock \in {"check", "quit"} => \A l \in todo : runner_map[l] # NONE

\* While the last restart is recent, every restart of the burst but its
\* first was counted.
BurstIsCounted ==
  \A l \in Logger : since_restart[l] < MinUptime => burst[l] <= restart_count[l] + 1

\* The inductive invariant.
IndInv ==
  /\ TypeOK
  /\ MapsAgree
  /\ NoStrayChild
  /\ CrashLoopBounded
  /\ UpdateInstallsTarget
  /\ TodoHasRunner
  /\ BurstIsCounted

USE ConfigAssumption, SupervisorAssumption DEF flags

-----------------------------------------------------------------------------
(***************************************************************************)
(* The runner's operators keep its type.                                   *)
(***************************************************************************)
LEMMA RunnerTypes ==
  ASSUME NEW r \in Runner
  PROVE  /\ Started(r) \in Runner /\ Started(r).config = r.config
         /\ StartFailed(r) \in Runner /\ StartFailed(r).config = r.config
         /\ Exited(r) \in Runner /\ Exited(r).config = r.config
         /\ [r EXCEPT !.failed = TRUE] \in Runner
         /\ [r EXCEPT !.failed = TRUE].config = r.config
BY DEF Runner, Started, StartFailed, Exited, Process, Config

LEMMA NewRunnerType ==
  ASSUME NEW c \in Config
  PROVE  NewRunner(c) \in Runner /\ NewRunner(c).config = c
BY DEF Runner, NewRunner, Process, Config

\* No configuration and no runner is the missing key.
LEMMA NoneIsMissing ==
  /\ \A c \in Config : c # NONE
  /\ \A r \in Runner : r # NONE
OBVIOUS

LEMMA AtMostType ==
  ASSUME NEW n \in Nat, NEW b \in Nat
  PROVE  /\ AtMost(n, b) \in 0..b
         /\ AtMost(n, b) <= n
         /\ n <= b => AtMost(n, b) = n
         /\ AtMost(n, b) < b => AtMost(n, b) = n
BY DEF AtMost

LEMMA NextCountType ==
  ASSUME IndInv, NEW l \in Logger
  PROVE  NextCount(l) \in 0..MaxTries
<1>1. restart_count[l] + 1 \in Nat /\ MaxTries \in Nat
  BY DEF IndInv, TypeOK
<1> QED
  BY <1>1, AtMostType DEF NextCount

-----------------------------------------------------------------------------
LEMMA InitInv == Init => IndInv
<1> SUFFICES ASSUME Init PROVE IndInv
  OBVIOUS
<1>1. EmptyMap \in ConfigMap
  BY DEF EmptyMap, ConfigMap
<1>2. TypeOK
  <2>1. /\ configs \in ConfigMap /\ config_map \in ConfigMap /\ target \in ConfigMap
        /\ quit_flag \in BOOLEAN /\ fork_failed \in BOOLEAN
    BY <1>1 DEF Init
  <2>2. runner_map \in [Logger -> Runner \cup {NONE}] /\ todo \in SUBSET Logger
    BY DEF Init
  <2>3. /\ lock \in {"free", "check", "update", "quit"}
        /\ monitor \in {"start", "updating", "test", "armed", "checking", "done",
                        "crashed", "absent"}
    BY DEF Init
  <2>4. /\ since_restart \in [Logger -> 0..MinUptime]
        /\ restart_count \in [Logger -> 0..MaxTries]
        /\ unkillable \in [Logger -> 0..MaxUnkillable]
        /\ stray \in [Logger -> Nat]
        /\ burst \in [Logger -> Nat]
        /\ tries \in [Logger -> Nat]
    BY DEF Init
  <2> QED
    BY <2>1, <2>2, <2>3, <2>4 DEF TypeOK
<1>3. MapsAgree
  BY DEF Init, MapsAgree, Known, EmptyMap
<1> QED
  BY <1>2, <1>3 DEF Init, IndInv, NoStrayChild, CrashLoopBounded,
     UpdateInstallsTarget, TodoHasRunner, BurstIsCounted

-----------------------------------------------------------------------------
(***************************************************************************)
(* Steps that only take, pass on or release the lock.                      *)
(***************************************************************************)
LEMMA QuietStep ==
  ASSUME IndInv, UNCHANGED <<configs, runnerVars, restartVars>>,
         lock' \in {"free", "check", "update", "quit"},
         todo' \in SUBSET Logger, target' \in ConfigMap, quit_flag' \in BOOLEAN,
         fork_failed' \in BOOLEAN,
         monitor' \in {"start", "updating", "test", "armed", "checking", "done",
                       "crashed", "absent"},
         TodoHasRunner', UpdateInstallsTarget'
  PROVE  IndInv'
<1>1. TypeOK'
  BY DEF IndInv, TypeOK, runnerVars, restartVars
<1>2. MapsAgree' /\ NoStrayChild'
  BY DEF IndInv, MapsAgree, NoStrayChild, Known, runnerVars
<1>3. CrashLoopBounded' /\ BurstIsCounted'
  BY DEF IndInv, CrashLoopBounded, BurstIsCounted, restartVars
<1> QED
  BY <1>1, <1>2, <1>3 DEF IndInv

LEMMA ReleaseStep ==
  ASSUME IndInv, UNCHANGED <<configs, runnerVars, restartVars, flags>>,
         Release,
         monitor' \in {"start", "updating", "test", "armed", "checking", "done",
                       "crashed", "absent"}
  PROVE  IndInv'
<1>1. EmptyMap \in ConfigMap
  BY DEF EmptyMap, ConfigMap
<1>2. TodoHasRunner' /\ UpdateInstallsTarget'
  BY DEF Release, TodoHasRunner, UpdateInstallsTarget
<1> QED
  BY <1>1, <1>2, QuietStep DEF Release, IndInv, TypeOK

LEMMA MonitorAfterType ==
  ASSUME IndInv, NEW returned \in BOOLEAN, MonitorAfter(returned)
  PROVE  monitor' \in {"start", "updating", "test", "armed", "checking", "done",
                       "crashed", "absent"}
BY DEF IndInv, TypeOK, MonitorAfter

LEMMA UpdateBeginStep ==
  ASSUME IndInv, NEW new \in ConfigMap, UpdateBegin(new),
         monitor' \in {"start", "updating", "test", "armed", "checking", "done",
                       "crashed", "absent"}
  PROVE  IndInv'
<1>1. Requested(new) \in ConfigMap
  BY DEF Requested, IndInv, TypeOK
<1>2. UpdateInstallsTarget'
  BY DEF UpdateBegin, Acquire, UpdateInstallsTarget, runnerVars
<1>3. TodoHasRunner'
  BY DEF UpdateBegin, Acquire, TodoHasRunner
<1> QED
  BY <1>1, <1>2, <1>3, QuietStep DEF UpdateBegin, Acquire, IndInv, TypeOK

(***************************************************************************)
(* Steps that treat one logger: its runner and its configuration become r  *)
(* and c, and every other logger's stay what they are.                     *)
(***************************************************************************)
LEMMA RunnerStep ==
  ASSUME IndInv, NEW l \in Logger,
         NEW c \in Config, NEW r \in Runner, r.config = c,
         config_map' = [config_map EXCEPT ![l] = c],
         runner_map' = [runner_map EXCEPT ![l] = r]
  PROVE  /\ config_map' \in ConfigMap
         /\ runner_map' \in [Logger -> Runner \cup {NONE}]
         /\ MapsAgree'
         /\ \A k \in Logger : runner_map[k] # NONE => runner_map'[k] # NONE
<1>1. config_map \in ConfigMap /\ runner_map \in [Logger -> Runner \cup {NONE}]
  BY DEF IndInv, TypeOK
<1>2. config_map' \in ConfigMap /\ runner_map' \in [Logger -> Runner \cup {NONE}]
  BY <1>1 DEF ConfigMap
<1>3. c # NONE /\ r # NONE
  BY NoneIsMissing
<1>4. ASSUME NEW k \in Logger
      PROVE  /\ IF Known(k)' THEN runner_map'[k] # NONE /\ runner_map'[k].config = config_map'[k]
                             ELSE runner_map'[k] = NONE
             /\ runner_map[k] # NONE => runner_map'[k] # NONE
  <2>1. CASE k = l
    BY <1>1, <1>3, <2>1 DEF Known, ConfigMap
  <2>2. CASE k # l
    BY <1>1, <2>2 DEF Known, ConfigMap, IndInv, MapsAgree
  <2> QED
    BY <2>1, <2>2
<1> QED
  BY <1>2, <1>4 DEF MapsAgree

-----------------------------------------------------------------------------
(***************************************************************************)
(* The steps of _check_loggers.                                            *)
(***************************************************************************)

\* The logger a check treats has a runner of its own configuration.
LEMMA CheckedRunner ==
  ASSUME IndInv, NEW l \in Logger, lock \in {"check", "quit"}, l \in todo
  PROVE  /\ runner_map[l] \in Runner
         /\ config_map[l] \in Config
         /\ runner_map[l].config = config_map[l]
BY DEF IndInv, TypeOK, TodoHasRunner, MapsAgree, Known, ConfigMap

LEMMA CheckOkayStep ==
  ASSUME IndInv, NEW l \in Logger, CheckOkay(l)
  PROVE  IndInv'
<1>1. TodoHasRunner' /\ UpdateInstallsTarget'
  BY DEF CheckOkay, Treated, TodoHasRunner, UpdateInstallsTarget, IndInv, runnerVars
<1> QED
  BY <1>1, QuietStep DEF CheckOkay, Treated, IndInv, TypeOK

LEMMA CheckGivesUpStep ==
  ASSUME IndInv, NEW l \in Logger, CheckGivesUp(l)
  PROVE  IndInv'
<1> USE DEF CheckGivesUp, Treated
<1> DEFINE r == [runner_map[l] EXCEPT !.failed = TRUE]
<1>1. /\ runner_map[l] \in Runner /\ config_map[l] \in Config
      /\ runner_map[l].config = config_map[l]
  BY CheckedRunner
<1>2. r \in Runner /\ r.config = config_map[l]
  BY <1>1, RunnerTypes
<1>3. /\ config_map' = [config_map EXCEPT ![l] = config_map[l]]
      /\ runner_map' = [runner_map EXCEPT ![l] = r]
  BY DEF IndInv, TypeOK, ConfigMap
<1> HIDE DEF r
<1>4. /\ config_map' \in ConfigMap
      /\ runner_map' \in [Logger -> Runner \cup {NONE}]
      /\ MapsAgree'
      /\ \A k \in Logger : runner_map[k] # NONE => runner_map'[k] # NONE
  BY <1>1, <1>2, <1>3, RunnerStep
<1>5. NextCount(l) \in 0..MaxTries
  BY NextCountType
<1>6. TypeOK'
  BY <1>4, <1>5 DEF IndInv, TypeOK
<1>7. BurstIsCounted'
  <2>1. since_restart[l] < MinUptime => restart_count[l] <= NextCount(l)
    <3>1. restart_count[l] \in 0..MaxTries
      BY DEF IndInv, TypeOK
    <3> QED
      BY <3>1 DEF NextCount, AtMost
  <2>2. restart_count \in [Logger -> 0..MaxTries] /\ burst \in [Logger -> Nat]
    BY DEF IndInv, TypeOK
  <2> QED
    BY <1>5, <2>1, <2>2 DEF IndInv, BurstIsCounted
<1>8. TodoHasRunner' /\ UpdateInstallsTarget' /\ NoStrayChild' /\ CrashLoopBounded'
  BY <1>4 DEF IndInv, TypeOK, TodoHasRunner, UpdateInstallsTarget, NoStrayChild,
     CrashLoopBounded
<1> QED
  BY <1>4, <1>6, <1>7, <1>8 DEF IndInv

\* Both outcomes of a restart, whatever becomes of the lock.
LEMMA RestartStep ==
  ASSUME IndInv, NEW l \in Logger, NEW r \in Runner,
         lock = "check", l \in todo,
         r.config = runner_map[l].config, Restart(l, r),
         lock' \in {"free", "check"}, todo' \in SUBSET todo, target' \in ConfigMap, fork_failed' \in BOOLEAN,
         monitor' \in {"start", "updating", "test", "armed", "checking", "done",
                       "crashed", "absent"}
  PROVE  IndInv'
<1> USE DEF Restart
<1>1. /\ runner_map[l] \in Runner /\ config_map[l] \in Config
      /\ runner_map[l].config = config_map[l]
  BY CheckedRunner
<1>2. config_map' = [config_map EXCEPT ![l] = config_map[l]]
  BY DEF IndInv, TypeOK, ConfigMap
<1>3. /\ config_map' \in ConfigMap
      /\ runner_map' \in [Logger -> Runner \cup {NONE}]
      /\ MapsAgree'
      /\ \A k \in Logger : runner_map[k] # NONE => runner_map'[k] # NONE
  BY <1>1, <1>2, RunnerStep
<1>4. NextCount(l) \in 0..MaxTries
  BY NextCountType
<1>5. /\ restart_count \in [Logger -> 0..MaxTries]
      /\ since_restart \in [Logger -> 0..MinUptime]
      /\ burst \in [Logger -> Nat] /\ stray \in [Logger -> Nat]
      /\ tries \in [Logger -> Nat]
  BY DEF IndInv, TypeOK
<1>6. TypeOK'
  <2>1. /\ burst' \in [Logger -> Nat] /\ stray' \in [Logger -> Nat]
        /\ restart_count' \in [Logger -> 0..MaxTries]
        /\ since_restart' \in [Logger -> 0..MinUptime]
    BY <1>4, <1>5
  <2>2. tries' \in [Logger -> Nat]
    BY <1>5 DEF AtMost
  <2> QED
    BY <1>3, <2>1, <2>2 DEF IndInv, TypeOK
<1>7. NoStrayChild'
  BY DEF IndInv, NoStrayChild, UnexpectedlyDead, Abandons
<1>8. burst'[l] <= NextCount(l) + 1 /\ NextCount(l) < MaxTries
  <2>1. CASE since_restart[l] < MinUptime
    <3>1. restart_count[l] + 1 = NextCount(l)
      BY <1>5, <2>1 DEF NextCount, AtMost
    <3>2. burst[l] <= restart_count[l] + 1
      BY <2>1 DEF IndInv, BurstIsCounted
    <3> QED
      BY <1>4, <1>5, <2>1, <3>1, <3>2
  <2>2. CASE ~(since_restart[l] < MinUptime)
    BY <1>4, <1>5, <2>2
  <2> QED
    BY <2>1, <2>2
<1>9. BurstIsCounted' /\ CrashLoopBounded'
  <2> SUFFICES ASSUME NEW k \in Logger
               PROVE  /\ burst'[k] <= MaxTries
                      /\ since_restart'[k] < MinUptime => burst'[k] <= restart_count'[k] + 1
    BY DEF BurstIsCounted, CrashLoopBounded
  <2>1. CASE k = l
    BY <1>4, <1>5, <1>6, <1>8, <2>1 DEF TypeOK
  <2>2. CASE k # l
    BY <1>5, <2>2 DEF IndInv, BurstIsCounted, CrashLoopBounded
  <2> QED
    BY <2>1, <2>2
<1>10. TodoHasRunner' /\ UpdateInstallsTarget'
  BY <1>3 DEF IndInv, TypeOK, TodoHasRunner, UpdateInstallsTarget
<1> QED
  BY <1>3, <1>6, <1>7, <1>9, <1>10 DEF IndInv

LEMMA CheckRestartsStep ==
  ASSUME IndInv, NEW l \in Logger, CheckRestarts(l)
  PROVE  IndInv'
<1>1. runner_map[l] \in Runner
  BY CheckedRunner DEF CheckRestarts
<1>2. /\ Started(runner_map[l]) \in Runner
      /\ Started(runner_map[l]).config = runner_map[l].config
  BY <1>1, RunnerTypes
<1> QED
  BY <1>2, RestartStep DEF CheckRestarts, Treated, IndInv, TypeOK

LEMMA CheckRestartRaisesStep ==
  ASSUME IndInv, NEW l \in Logger, CheckRestartRaises(l)
  PROVE  IndInv'
<1>1. runner_map[l] \in Runner
  BY CheckedRunner DEF CheckRestartRaises
<1>2. /\ StartFailed(runner_map[l]) \in Runner
      /\ StartFailed(runner_map[l]).config = runner_map[l].config
  BY <1>1, RunnerTypes
<1>3. EmptyMap \in ConfigMap
  BY DEF EmptyMap, ConfigMap
<1>4. monitor' \in {"start", "updating", "test", "armed", "checking", "done",
                    "crashed", "absent"}
  BY MonitorAfterType DEF CheckRestartRaises
<1> QED
  BY <1>2, <1>3, <1>4, RestartStep DEF CheckRestartRaises, Release

-----------------------------------------------------------------------------
(***************************************************************************)
(* The steps of update_configs and quit.                                   *)
(***************************************************************************)

\* An update or a quit changes no restart count, no burst and no stray.
LEMMA InstallStep ==
  ASSUME IndInv, NEW l \in Logger, lock = "update", l \in todo,
         target[l] # NONE,
         NEW r \in Runner, r.config = target[l],
         Install(l, target[l], r),
         unkillable' \in [Logger -> 0..MaxUnkillable],
         UNCHANGED <<configs, restartVars, quit_flag>>, fork_failed' \in BOOLEAN,
         \/ Treated(l)
         \/ Release,
         monitor' \in {"start", "updating", "test", "armed", "checking", "done",
                       "crashed", "absent"}
  PROVE  IndInv'
<1> USE DEF Install
<1>1. target[l] \in Config
  BY DEF IndInv, TypeOK, ConfigMap
<1>2. /\ config_map' \in ConfigMap
      /\ runner_map' \in [Logger -> Runner \cup {NONE}]
      /\ MapsAgree'
  BY <1>1, RunnerStep
<1>3. TypeOK'
  <2>1. tries' \in [Logger -> Nat]
    BY DEF IndInv, TypeOK
  <2>2. EmptyMap \in ConfigMap
    BY DEF EmptyMap, ConfigMap
  <2>3. lock' \in {"free", "update"} /\ todo' \in SUBSET Logger /\ target' \in ConfigMap
    BY <2>2 DEF Treated, Release, IndInv, TypeOK
  <2> QED
    BY <1>2, <2>1, <2>3 DEF IndInv, TypeOK, restartVars
<1>4. UpdateInstallsTarget'
  <2>1. CASE Treated(l)
    BY <2>1 DEF Treated, IndInv, TypeOK, ConfigMap, UpdateInstallsTarget
  <2>2. CASE Release
    BY <2>2 DEF Release, UpdateInstallsTarget
  <2> QED
    BY <2>1, <2>2
<1>5. TodoHasRunner'
  BY DEF Treated, Release, TodoHasRunner
<1>6. NoStrayChild' /\ CrashLoopBounded' /\ BurstIsCounted'
  BY DEF restartVars, IndInv, NoStrayChild, CrashLoopBounded, BurstIsCounted
<1> QED
  BY <1>2, <1>3, <1>4, <1>5, <1>6 DEF IndInv

LEMMA StopChildType ==
  ASSUME IndInv, NEW l \in Logger, StopChild(l)
  PROVE  unkillable' \in [Logger -> 0..MaxUnkillable]
BY DEF IndInv, TypeOK, StopChild

LEMMA DeleteStep ==
  ASSUME IndInv, NEW l \in Logger, lock \in {"update", "quit"}, l \in todo,
         lock = "update" => target[l] = NONE,
         DeleteLogger(l), Treated(l),
         UNCHANGED <<configs, restartVars, flags, monitor>>
  PROVE  IndInv'
<1> USE DEF DeleteLogger, Treated
<1>1. config_map \in ConfigMap /\ runner_map \in [Logger -> Runner \cup {NONE}]
  BY DEF IndInv, TypeOK
<1>2. config_map' \in ConfigMap /\ runner_map' \in [Logger -> Runner \cup {NONE}]
  BY <1>1 DEF ConfigMap
<1>3. TypeOK'
  <2>1. tries' \in [Logger -> Nat]
    BY DEF IndInv, TypeOK
  <2> QED
    BY <1>2, <2>1, StopChildType DEF IndInv, TypeOK, restartVars
<1>4. MapsAgree'
  <2> SUFFICES ASSUME NEW k \in Logger
               PROVE  IF Known(k)'
                      THEN runner_map'[k] # NONE /\ runner_map'[k].config = config_map'[k]
                      ELSE runner_map'[k] = NONE
    BY DEF MapsAgree
  <2>1. CASE k = l
    BY <1>1, <2>1 DEF Known, ConfigMap
  <2>2. CASE k # l
    BY <1>1, <2>2 DEF Known, ConfigMap, IndInv, MapsAgree
  <2> QED
    BY <2>1, <2>2
<1>5. UpdateInstallsTarget'
  BY <1>1 DEF IndInv, TypeOK, ConfigMap, UpdateInstallsTarget
<1>6. TodoHasRunner'
  BY <1>1 DEF IndInv, TypeOK, TodoHasRunner
<1>7. NoStrayChild' /\ CrashLoopBounded' /\ BurstIsCounted'
  BY DEF restartVars, IndInv, NoStrayChild, CrashLoopBounded, BurstIsCounted
<1> QED
  BY <1>3, <1>4, <1>5, <1>6, <1>7 DEF IndInv

LEMMA StartedNew ==
  ASSUME NEW c \in Config
  PROVE  /\ Started(NewRunner(c)) \in Runner /\ Started(NewRunner(c)).config = c
         /\ StartFailed(NewRunner(c)) \in Runner /\ StartFailed(NewRunner(c)).config = c
BY NewRunnerType, RunnerTypes

LEMMA UpdateStartsStep ==
  ASSUME IndInv, NEW l \in Logger, UpdateStarts(l) \/ UpdateReplaces(l)
  PROVE  IndInv'
<1> USE DEF UpdateStarts, UpdateReplaces
<1>1. target[l] # NONE /\ target[l] \in Config
  BY DEF New, Different, IndInv, TypeOK, ConfigMap
<1>2. unkillable' \in [Logger -> 0..MaxUnkillable]
  BY StopChildType DEF IndInv, TypeOK
<1>3. /\ monitor' \in {"start", "updating", "test", "armed", "checking", "done",
                       "crashed", "absent"}
      /\ fork_failed' \in BOOLEAN
  BY DEF IndInv, TypeOK
<1> QED
  BY <1>1, <1>2, <1>3, StartedNew, InstallStep

LEMMA UpdateStartRaisesStep ==
  ASSUME IndInv, NEW l \in Logger, UpdateStartRaises(l)
  PROVE  IndInv'
<1> USE DEF UpdateStartRaises
<1>1. target[l] # NONE /\ target[l] \in Config
  BY DEF New, Different, IndInv, TypeOK, ConfigMap
<1>2. unkillable' \in [Logger -> 0..MaxUnkillable]
  BY StopChildType DEF IndInv, TypeOK
<1>3. monitor' \in {"start", "updating", "test", "armed", "checking", "done",
                    "crashed", "absent"}
  BY MonitorAfterType
<1> QED
  BY <1>1, <1>2, <1>3, StartedNew, InstallStep

-----------------------------------------------------------------------------
(***************************************************************************)
(* The children and the clock.                                             *)
(***************************************************************************)
LEMMA ChildExitsStep ==
  ASSUME IndInv, NEW l \in Logger, ChildExits(l)
  PROVE  IndInv'
<1> USE DEF ChildExits
<1>1. /\ runner_map[l] \in Runner /\ config_map[l] \in Config
      /\ runner_map[l].config = config_map[l]
  BY DEF IndInv, TypeOK, MapsAgree, Known, ConfigMap
<1>2. Exited(runner_map[l]) \in Runner /\ Exited(runner_map[l]).config = config_map[l]
  BY <1>1, RunnerTypes
<1>3. /\ config_map' = [config_map EXCEPT ![l] = config_map[l]]
      /\ runner_map' = [runner_map EXCEPT ![l] = Exited(runner_map[l])]
  BY DEF IndInv, TypeOK, ConfigMap
<1>4. /\ config_map' \in ConfigMap
      /\ runner_map' \in [Logger -> Runner \cup {NONE}]
      /\ MapsAgree'
      /\ \A k \in Logger : runner_map[k] # NONE => runner_map'[k] # NONE
  BY ZenonT(60), <1>1, <1>2, <1>3, RunnerStep
<1>5. TypeOK'
  BY <1>4 DEF IndInv, TypeOK, restartVars, lockVars
<1>6. TodoHasRunner' /\ UpdateInstallsTarget'
  BY <1>4 DEF IndInv, TypeOK, TodoHasRunner, UpdateInstallsTarget, lockVars
<1>7. NoStrayChild' /\ CrashLoopBounded' /\ BurstIsCounted'
  BY DEF restartVars, IndInv, NoStrayChild, CrashLoopBounded, BurstIsCounted
<1> QED
  BY <1>4, <1>5, <1>6, <1>7 DEF IndInv

LEMMA UnkillableExitsStep ==
  ASSUME IndInv, NEW l \in Logger, UnkillableExits(l)
  PROVE  IndInv'
<1> USE DEF UnkillableExits
<1>1. TypeOK'
  <2>1. unkillable' \in [Logger -> 0..MaxUnkillable]
    BY DEF IndInv, TypeOK
  <2> QED
    BY <2>1 DEF IndInv, TypeOK, restartVars, lockVars
<1> QED
  BY <1>1 DEF restartVars, lockVars, IndInv, MapsAgree, Known, NoStrayChild,
     CrashLoopBounded, BurstIsCounted, TodoHasRunner, UpdateInstallsTarget

LEMMA TickStep ==
  ASSUME IndInv, Tick
  PROVE  IndInv'
<1> USE DEF Tick
<1>1. /\ since_restart \in [Logger -> 0..MinUptime]
      /\ since_restart' \in [Logger -> 0..MinUptime]
      /\ \A l \in Logger : since_restart[l] <= since_restart'[l]
  BY DEF IndInv, TypeOK, AtMost
<1>2. TypeOK'
  BY <1>1 DEF IndInv, TypeOK, runnerVars, lockVars
<1>3. BurstIsCounted'
  <2> SUFFICES ASSUME NEW l \in Logger, since_restart'[l] < MinUptime
               PROVE  burst[l] <= restart_count[l] + 1
    BY DEF BurstIsCounted
  <2>1. since_restart[l] < MinUptime
    BY <1>1
  <2> QED
    BY <2>1 DEF IndInv, BurstIsCounted
<1> QED
  BY <1>2, <1>3 DEF runnerVars, lockVars, IndInv, MapsAgree, Known, NoStrayChild,
     CrashLoopBounded, TodoHasRunner, UpdateInstallsTarget

-----------------------------------------------------------------------------
LEMMA StepInv == IndInv /\ [Next]_vars => IndInv'
<1> SUFFICES ASSUME IndInv, [Next]_vars PROVE IndInv'
  OBVIOUS
<1> USE DEF IndInv, TypeOK
<1>1. CASE MonitorSkipsUpdate \/ MonitorTest
  <2>1. TodoHasRunner' /\ UpdateInstallsTarget'
    BY <1>1 DEF MonitorSkipsUpdate, MonitorTest, TodoHasRunner, UpdateInstallsTarget,
       lockVars, runnerVars
  <2> QED
    BY <1>1, <2>1, QuietStep DEF MonitorSkipsUpdate, MonitorTest, lockVars
<1>2. CASE MonitorUpdate
  BY <1>2, UpdateBeginStep DEF MonitorUpdate
<1>3. CASE CheckBegin
  <2>1. TodoHasRunner' /\ UpdateInstallsTarget'
    BY <1>3 DEF CheckBegin, Acquire, TodoHasRunner, UpdateInstallsTarget, runnerVars
  <2> QED
    BY <1>3, <2>1, QuietStep DEF CheckBegin, Acquire
<1>4. CASE \E l \in Logger : \/ CheckOkay(l) \/ CheckGivesUp(l)
                             \/ CheckRestarts(l) \/ CheckRestartRaises(l)
  BY <1>4, CheckOkayStep, CheckGivesUpStep, CheckRestartsStep, CheckRestartRaisesStep
<1>5. CASE CheckEnd \/ UpdateEnd
  BY <1>5, MonitorAfterType, ReleaseStep DEF CheckEnd, UpdateEnd
<1>6. CASE \E new \in ConfigMap : CallUpdate(new)
  BY <1>6, UpdateBeginStep DEF CallUpdate
<1>7. CASE \E l \in Logger : UpdateStops(l)
  BY <1>7, DeleteStep DEF UpdateStops, Stale
<1>8. CASE \E l \in Logger : UpdateStarts(l) \/ UpdateReplaces(l) \/ UpdateStartRaises(l)
  BY <1>8, UpdateStartsStep, UpdateStartRaisesStep
<1>9. CASE \E l \in Logger : UpdateStopRaises(l)
  BY <1>9, MonitorAfterType, ReleaseStep DEF UpdateStopRaises
<1>10. CASE QuitBegin
  <2>1. TodoHasRunner' /\ UpdateInstallsTarget'
    BY <1>10 DEF QuitBegin, Acquire, TodoHasRunner, UpdateInstallsTarget, runnerVars
  <2> QED
    BY <1>10, <2>1, QuietStep DEF QuitBegin, Acquire
<1>11. CASE \E l \in Logger : QuitStops(l)
  BY <1>11, DeleteStep DEF QuitStops
<1>12. CASE QuitEnd \/ \E l \in Logger : QuitRaisesAt(l)
  BY <1>12, ReleaseStep DEF QuitRaisesAt, QuitEnd
<1>13. CASE Environment
  BY <1>13, ChildExitsStep, UnkillableExitsStep, TickStep DEF Environment
<1>14. CASE UNCHANGED vars
  <2>1. TodoHasRunner' /\ UpdateInstallsTarget'
    BY <1>14 DEF vars, lockVars, runnerVars, TodoHasRunner, UpdateInstallsTarget
  <2> QED
    BY <1>14, <2>1, QuietStep DEF vars, lockVars
<1> QED
  BY <1>1, <1>2, <1>3, <1>4, <1>5, <1>6, <1>7, <1>8, <1>9, <1>10, <1>11, <1>12, <1>13,
     <1>14 DEF Next, MonitorStep, UpdateStep, QuitStep

LEMMA Invariance == Spec => []IndInv
BY InitInv, StepInv, PTL DEF Spec

-----------------------------------------------------------------------------
(***************************************************************************)
(* The theorems.                                                           *)
(***************************************************************************)

\* Type correctness of the supervisor's state.
THEOREM TypeCorrect == Spec => []TypeOK
BY Invariance, PTL DEF IndInv

\* logger_config_map and logger_runner_map hold the same loggers with the
\* same configurations between any two steps, so neither get_status nor
\* _check_loggers ever meets a missing key.
THEOREM MapsAlwaysAgree == Spec => []MapsAgree
BY Invariance, PTL DEF IndInv

\* No interleaving of checks, updates, quits and dying children makes a
\* runner start a second child while its first lives.
THEOREM NoChildIsOrphaned == Spec => []NoStrayChild
BY Invariance, PTL DEF IndInv

\* The three together: what every operation relies on holds at every step.
THEOREM FleetIsSafe == Spec => []FleetSafe
<1>1. IndInv => FleetSafe
  BY DEF IndInv, FleetSafe
<1> QED
  BY <1>1, Invariance, PTL

\* A crash loop is bounded by max_tries, across reconfigurations.
THEOREM CrashLoopsAreBounded == Spec => []CrashLoopBounded
BY Invariance, PTL DEF IndInv

\* An update that returns has installed the configurations it was given.
THEOREM UpdatesInstallTheirTarget == Spec => []UpdateInstallsTarget
BY Invariance, PTL DEF IndInv

\* A logger that was given up is not restarted by the monitor.
THEOREM GivenUpIsFinal == Spec => GivenUpStays
<1>1. IndInv /\ [Next]_vars =>
        [\A l \in Logger : GivenUp(l) /\ ~GivenUp(l)' => lock \in {"update", "quit"}]_vars
  <2> SUFFICES ASSUME IndInv, Next, NEW l \in Logger, GivenUp(l), ~GivenUp(l)',
                      lock \notin {"update", "quit"}
               PROVE  FALSE
    OBVIOUS
  <2> USE DEF GivenUp, IsFailed
  <2>1. runner_map'[l] # runner_map[l]
    OBVIOUS
  <2>2. CASE \E k \in Logger : CheckGivesUp(k)
    <3>1. PICK k \in Logger : CheckGivesUp(k)
      BY <2>2
    <3>2. runner_map'[l] = [runner_map[l] EXCEPT !.failed = TRUE] /\ runner_map[l] \in Runner
      BY <2>1, <3>1 DEF CheckGivesUp, IndInv, TypeOK
    <3> QED
      BY <3>2, RunnerTypes, NoneIsMissing DEF Runner
  <2>3. CASE \E k \in Logger : CheckRestarts(k) \/ CheckRestartRaises(k)
    BY <2>1, <2>3 DEF CheckRestarts, CheckRestartRaises, Restart, UnexpectedlyDead, IndInv, TypeOK
  <2>4. CASE \E k \in Logger : ChildExits(k)
    <3>1. PICK k \in Logger : ChildExits(k)
      BY <2>4
    <3>2. runner_map'[l] = Exited(runner_map[l]) /\ runner_map[l] \in Runner
      BY <2>1, <3>1 DEF ChildExits, IndInv, TypeOK
    <3> QED
      BY <3>2, RunnerTypes, NoneIsMissing DEF Runner, Exited
  <2> QED
    BY <2>1, <2>2, <2>3, <2>4 DEF Next, MonitorStep, MonitorSkipsUpdate, MonitorUpdate,
       MonitorTest, CheckBegin, CheckOkay, CheckEnd, CallUpdate, UpdateBegin, UpdateStep,
       UpdateStops, UpdateStarts, UpdateReplaces, UpdateStartRaises, UpdateStopRaises,
       UpdateEnd, QuitBegin, QuitStep, QuitStops, QuitRaisesAt, QuitEnd, Environment,
       UnkillableExits, Tick, runnerVars
<1> QED
  BY <1>1, Invariance, PTL DEF Spec, GivenUpStays

-----------------------------------------------------------------------------
(***************************************************************************)
(* quit() is final: once it is through nothing runs, and from its first    *)
(* step on nothing is started, whatever operations were waiting for the    *)
(* lock.  Both hold until a fork fails.                                    *)
(***************************************************************************)

\* Unless a fork has failed, every runner's process was forked, so that its
\* quit() returns.
AllForked ==
  ~fork_failed => \A l \in Logger : runner_map[l] # NONE => ~QuitRaises(runner_map[l])

\* An update never starts after quit(), nor does quit() while it holds the
\* lock.
NoUpdateAfterQuit == lock = "update" => ~quit_flag

\* After quit() has begun, the only runners left are those it has still to
\* delete: a check finds nothing to do.
OnlyTodoIsLeft ==
  quit_flag /\ ~fork_failed =>
    \A l \in Logger : runner_map[l] # NONE => lock = "quit" /\ l \in todo

QuitInv ==
  /\ AllForked
  /\ NoUpdateAfterQuit
  /\ OnlyTodoIsLeft

LEMMA InitQuitInv == Init => QuitInv
BY DEF Init, QuitInv, AllForked, NoUpdateAfterQuit, OnlyTodoIsLeft

\* The runner of one logger is replaced by one whose process was forked.
LEMMA ForkedStep ==
  ASSUME AllForked, NEW l \in Logger, NEW r,
         r # NONE => ~QuitRaises(r),
         runner_map \in [Logger -> Runner \cup {NONE}],
         runner_map' = [runner_map EXCEPT ![l] = r],
         fork_failed' = fork_failed
  PROVE  AllForked'
BY DEF AllForked, QuitRaises

\* While a check holds the lock and is at a logger that has a runner, quit()
\* has not been called.
LEMMA CheckBeforeQuit ==
  ASSUME IndInv, QuitInv, NEW l \in Logger, lock = "check", l \in todo, ~fork_failed
  PROVE  ~quit_flag
BY DEF IndInv, TodoHasRunner, QuitInv, OnlyTodoIsLeft

LEMMA CheckStepQuit ==
  ASSUME IndInv, QuitInv, NEW l \in Logger,
         \/ CheckOkay(l) \/ CheckGivesUp(l)
         \/ CheckRestarts(l) \/ CheckRestartRaises(l)
  PROVE  QuitInv'
<1>1. lock = "check" /\ l \in todo /\ quit_flag' = quit_flag /\ lock' # "update"
  BY DEF CheckOkay, CheckGivesUp, CheckRestarts, CheckRestartRaises, Restart, Treated,
     Release
<1>2. ~fork_failed' => ~fork_failed
  BY DEF CheckOkay, CheckGivesUp, CheckRestarts, CheckRestartRaises, Restart
<1>3. NoUpdateAfterQuit' /\ OnlyTodoIsLeft'
  BY <1>1, <1>2, CheckBeforeQuit DEF NoUpdateAfterQuit, OnlyTodoIsLeft
<1>4. AllForked'
  <2>1. runner_map \in [Logger -> Runner \cup {NONE}] /\ runner_map[l] \in Runner
    BY <1>1, CheckedRunner DEF IndInv, TypeOK
  <2>2. CASE CheckOkay(l)
    BY <2>2 DEF CheckOkay, runnerVars, QuitInv, AllForked
  <2>3. CASE CheckGivesUp(l)
    <3>1. ~fork_failed => ~QuitRaises([runner_map[l] EXCEPT !.failed = TRUE])
      BY <2>1, NoneIsMissing DEF QuitInv, AllForked, QuitRaises, Runner
    <3> QED
      BY <2>1, <2>3, <3>1, ForkedStep DEF CheckGivesUp, QuitInv, AllForked
  <2>4. CASE CheckRestarts(l)
    <3>1. ~QuitRaises(Started(runner_map[l]))
      BY <2>1 DEF QuitRaises, Started, Runner
    <3> QED
      BY <2>1, <2>4, <3>1, ForkedStep DEF CheckRestarts, Restart, QuitInv
  <2>5. CASE CheckRestartRaises(l)
    BY <2>5 DEF CheckRestartRaises, AllForked
  <2> QED
    BY <2>2, <2>3, <2>4, <2>5
<1> QED
  BY <1>3, <1>4 DEF QuitInv

LEMMA UpdateStepQuit ==
  ASSUME IndInv, QuitInv, UpdateStep
  PROVE  QuitInv'
<1>1. lock = "update" /\ quit_flag' = quit_flag /\ ~quit_flag
  BY DEF UpdateStep, UpdateStops, UpdateStarts, UpdateReplaces, UpdateStartRaises,
     UpdateStopRaises, UpdateEnd, QuitInv, NoUpdateAfterQuit
<1>2. NoUpdateAfterQuit' /\ OnlyTodoIsLeft'
  BY <1>1 DEF NoUpdateAfterQuit, OnlyTodoIsLeft
<1>3. AllForked'
  <2>1. runner_map \in [Logger -> Runner \cup {NONE}]
    BY DEF IndInv, TypeOK
  <2>2. CASE \E l \in Logger : UpdateStops(l)
    BY <2>1, <2>2, ForkedStep DEF UpdateStops, DeleteLogger, QuitInv
  <2>3. CASE \E l \in Logger : UpdateStarts(l) \/ UpdateReplaces(l)
    <3>1. PICK l \in Logger : UpdateStarts(l) \/ UpdateReplaces(l)
      BY <2>3
    <3>2. ~QuitRaises(Started(NewRunner(target[l])))
      BY DEF QuitRaises, Started, NewRunner
    <3>3. /\ runner_map' = [runner_map EXCEPT ![l] = Started(NewRunner(target[l]))]
          /\ fork_failed' = fork_failed
      BY <3>1 DEF UpdateStarts, UpdateReplaces, Install
    <3> QED
      BY <2>1, <3>2, <3>3, ForkedStep DEF QuitInv
  <2>4. CASE \E l \in Logger : UpdateStartRaises(l)
    BY <2>4 DEF UpdateStartRaises, AllForked
  <2>5. CASE UpdateEnd \/ \E l \in Logger : UpdateStopRaises(l)
    BY <2>5 DEF UpdateEnd, UpdateStopRaises, runnerVars, QuitInv, AllForked
  <2> QED
    BY <2>2, <2>3, <2>4, <2>5 DEF UpdateStep
<1> QED
  BY <1>2, <1>3 DEF QuitInv

LEMMA QuitStepQuit ==
  ASSUME IndInv, QuitInv, QuitBegin \/ QuitStep
  PROVE  QuitInv'
<1>1. runner_map \in [Logger -> Runner \cup {NONE}] /\ todo \subseteq Logger
  BY DEF IndInv, TypeOK
<1>2. CASE QuitBegin
  BY <1>2 DEF QuitBegin, Acquire, runnerVars, QuitInv, AllForked, NoUpdateAfterQuit,
     OnlyTodoIsLeft
<1>3. CASE \E l \in Logger : QuitStops(l)
  <2>1. PICK l \in Logger : QuitStops(l)
    BY <1>3
  <2>2. AllForked'
    BY <1>1, <2>1, ForkedStep DEF QuitStops, DeleteLogger, QuitInv
  <2> QED
    BY <1>1, <2>1, <2>2 DEF QuitStops, DeleteLogger, Treated, QuitInv, NoUpdateAfterQuit,
       OnlyTodoIsLeft
<1>4. CASE \E l \in Logger : QuitRaisesAt(l)
  BY <1>4 DEF IndInv, TodoHasRunner, QuitRaisesAt, Release, runnerVars,
     QuitInv, AllForked, NoUpdateAfterQuit, OnlyTodoIsLeft
<1>5. CASE QuitEnd
  BY <1>5 DEF QuitEnd, Release, runnerVars, QuitInv, AllForked, NoUpdateAfterQuit,
     OnlyTodoIsLeft
<1> QED
  BY <1>2, <1>3, <1>4, <1>5 DEF QuitStep

LEMMA EnvironmentQuit ==
  ASSUME IndInv, QuitInv, Environment
  PROVE  QuitInv'
<1>1. runner_map \in [Logger -> Runner \cup {NONE}]
  BY DEF IndInv, TypeOK
<1>2. CASE \E l \in Logger : ChildExits(l)
  <2>1. PICK l \in Logger : ChildExits(l)
    BY <1>2
  <2>2. runner_map[l] \in Runner /\ ~QuitRaises(Exited(runner_map[l]))
    BY <1>1, <2>1 DEF ChildExits, QuitRaises, Exited, Runner
  <2>3. runner_map' = [runner_map EXCEPT ![l] = Exited(runner_map[l])]
    BY <2>1 DEF ChildExits
  <2>4. AllForked'
    BY <1>1, <2>1, <2>2, <2>3, ForkedStep DEF ChildExits, QuitInv
  <2>5. \A k \in Logger : runner_map'[k] # NONE => runner_map[k] # NONE
    BY <1>1, <2>1, <2>3 DEF ChildExits
  <2> QED
    BY <2>1, <2>4, <2>5 DEF ChildExits, lockVars, QuitInv, NoUpdateAfterQuit, OnlyTodoIsLeft
<1>3. CASE Tick \/ \E l \in Logger : UnkillableExits(l)
  BY <1>3 DEF Tick, UnkillableExits, runnerVars, lockVars, QuitInv, AllForked,
     NoUpdateAfterQuit, OnlyTodoIsLeft
<1> QED
  BY <1>2, <1>3 DEF Environment

LEMMA QuitInvStep == IndInv /\ QuitInv /\ [Next]_vars => QuitInv'
<1> SUFFICES ASSUME IndInv, QuitInv, [Next]_vars PROVE QuitInv'
  OBVIOUS
<1> USE DEF QuitInv, AllForked, NoUpdateAfterQuit, OnlyTodoIsLeft
<1>1. CASE MonitorSkipsUpdate \/ MonitorTest \/ UNCHANGED vars
  BY <1>1 DEF MonitorSkipsUpdate, MonitorTest, runnerVars, lockVars, vars
<1>2. CASE MonitorUpdate \/ \E new \in ConfigMap : CallUpdate(new)
  BY <1>2 DEF MonitorUpdate, CallUpdate, UpdateBegin, Acquire, runnerVars
<1>3. CASE CheckBegin \/ CheckEnd
  <2>1. /\ UNCHANGED <<runner_map, quit_flag, fork_failed>>
        /\ lock \in {"free", "check"} /\ lock' \in {"free", "check"}
    BY <1>3 DEF CheckBegin, CheckEnd, Acquire, Release, runnerVars
  <2> QED
    BY <2>1
<1>4. CASE \E l \in Logger : \/ CheckOkay(l) \/ CheckGivesUp(l)
                             \/ CheckRestarts(l) \/ CheckRestartRaises(l)
  BY <1>4, CheckStepQuit
<1>5. CASE UpdateStep
  BY <1>5, UpdateStepQuit
<1>6. CASE QuitBegin \/ QuitStep
  BY <1>6, QuitStepQuit
<1>7. CASE Environment
  BY <1>7, EnvironmentQuit
<1> HIDE DEF QuitInv, AllForked, NoUpdateAfterQuit, OnlyTodoIsLeft
<1> QED
  BY <1>1, <1>2, <1>3, <1>4, <1>5, <1>6, <1>7 DEF Next, MonitorStep

LEMMA QuitInvariance == Spec => [](IndInv /\ QuitInv)
<1>1. Init => QuitInv
  BY InitQuitInv
<1>2. IndInv /\ QuitInv /\ [Next]_vars => QuitInv'
  BY QuitInvStep
<1> QED
  BY <1>1, <1>2, Invariance, PTL DEF Spec

-----------------------------------------------------------------------------
\* When quit() has released the lock no child runs, and none will: a check
\* or an update that was waiting meanwhile finds nothing or returns.
THEOREM QuitLeavesNothingRunning == Spec => []QuitIsFinal
<1>1. QuitInv => QuitIsFinal
  BY DEF QuitInv, OnlyTodoIsLeft, QuitIsFinal, Live
<1> QED
  BY <1>1, QuitInvariance, PTL

\* No step after the one that raises quit_flag starts a child.
THEOREM QuitStartsNothing == Spec => NoStartAfterQuit
<1>1. IndInv /\ QuitInv /\ [Next]_vars =>
        [quit_flag /\ ~fork_failed => \A l \in Logger : Live(l)' => Live(l)]_vars
  <2> SUFFICES ASSUME IndInv, QuitInv, Next, quit_flag, ~fork_failed,
                      NEW l \in Logger, Live(l)', ~Live(l)
               PROVE  FALSE
    OBVIOUS
  <2> USE DEF Live, IsAlive
  <2>1. runner_map'[l] # runner_map[l]
    OBVIOUS
  <2>2. ~UpdateStep /\ ~(\E new \in ConfigMap : CallUpdate(new)) /\ ~MonitorUpdate
    BY DEF UpdateStep, UpdateStops, UpdateStarts, UpdateReplaces, UpdateStartRaises,
       UpdateStopRaises, UpdateEnd, CallUpdate, MonitorUpdate, UpdateBegin, QuitInv,
       NoUpdateAfterQuit
  <2>3. ~(\E k \in Logger : CheckGivesUp(k) \/ CheckRestarts(k) \/ CheckRestartRaises(k))
    BY CheckBeforeQuit DEF CheckGivesUp, CheckRestarts, CheckRestartRaises
  <2>4. ~(\E k \in Logger : QuitStops(k))
    BY <2>1, NoneIsMissing DEF QuitStops, DeleteLogger, IndInv, TypeOK
  <2>5. ~(\E k \in Logger : ChildExits(k))
    <3> SUFFICES ASSUME NEW k \in Logger, ChildExits(k) PROVE FALSE
      OBVIOUS
    <3>1. runner_map'[l] = Exited(runner_map[l]) /\ runner_map[l] \in Runner
      BY <2>1 DEF ChildExits, IndInv, TypeOK
    <3> QED
      BY <3>1 DEF Exited, Runner
  <2> QED
    BY <2>1, <2>2, <2>3, <2>4, <2>5 DEF Next, MonitorStep, MonitorSkipsUpdate, MonitorTest,
       CheckBegin, CheckOkay, CheckEnd, QuitBegin, QuitStep, QuitRaisesAt, QuitEnd,
       Environment, UnkillableExits, Tick, runnerVars
<1> QED
  BY <1>1, QuitInvariance, PTL DEF Spec, NoStartAfterQuit

\* Neither a logger given up nor a supervisor that has quit comes back by
\* itself.
THEOREM EndsAreFinal == Spec => EndIsFinal
BY GivenUpIsFinal, QuitStartsNothing DEF EndIsFinal

-----------------------------------------------------------------------------
(***************************************************************************)
(* The tries of a supervisor that runs by itself: nobody but run() updates *)
(* it, and run() does so once, before the first check.                     *)
(***************************************************************************)
\* No check has been made before that update is over.
NoCountYet ==
  monitor = "start" \/ lock = "update" =>
    lock # "check" /\ \A l \in Logger : restart_count[l] = 0

\* A logger that was not given up has been started once more than its deaths
\* were counted.
TriesAreCounted ==
  \A l \in Logger :
    runner_map[l] # NONE /\ ~IsFailed(runner_map[l]) => restart_count[l] < tries[l]

TriesInv == NoCountYet /\ TriesAreCounted /\ TriesHonoured

LEMMA InitTriesInv == Init => TriesInv
BY DEF Init, TriesInv, NoCountYet, TriesAreCounted, TriesHonoured, GivenUp

\* The runner, tries and count of one logger change.
LEMMA TriesStep ==
  ASSUME IndInv, TriesAreCounted, TriesHonoured, NEW l \in Logger, NEW r, NEW n, NEW c,
         runner_map' = [runner_map EXCEPT ![l] = r], tries' = [tries EXCEPT ![l] = n],
         restart_count' = [restart_count EXCEPT ![l] = c],
         r # NONE /\ ~IsFailed(r) => c < n, r # NONE /\ IsFailed(r) => n >= MaxTries
  PROVE  (TriesAreCounted /\ TriesHonoured)'
<1>1. /\ runner_map \in [Logger -> Runner \cup {NONE}] /\ tries \in [Logger -> Nat]
      /\ restart_count \in [Logger -> 0..MaxTries]
  BY DEF IndInv, TypeOK
<1>2. /\ runner_map'[l] = r /\ tries'[l] = n /\ restart_count'[l] = c
      /\ \A k \in Logger \ {l} : /\ runner_map'[k] = runner_map[k] /\ tries'[k] = tries[k]
                                 /\ restart_count'[k] = restart_count[k]
  BY <1>1
<1> QED
  BY <1>2 DEF TriesAreCounted, TriesHonoured, GivenUp

\* A restart counts as a try, and a logger is given up when its count is up.
LEMMA CheckStepTries ==
  ASSUME IndInv, TriesInv, NEW l \in Logger,
         \/ CheckOkay(l) \/ CheckGivesUp(l)
         \/ CheckRestarts(l) \/ CheckRestartRaises(l)
  PROVE  TriesInv'
<1>1. /\ lock = "check" /\ lock' \in {"check", "free"} /\ l \in todo
      /\ monitor' = monitor \/ monitor' \in {"test", "crashed"}
  BY DEF CheckOkay, CheckGivesUp, CheckRestarts, CheckRestartRaises, Treated, Release,
     MonitorAfter
<1>2. monitor # "start"
  BY <1>1 DEF TriesInv, NoCountYet
<1>3. NoCountYet'
  BY <1>1, <1>2 DEF NoCountYet
<1>4. /\ restart_count[l] \in Nat /\ tries[l] \in Nat /\ MaxTries \in Nat
      /\ restart_count \in [Logger -> 0..MaxTries] /\ tries \in [Logger -> Nat]
  BY DEF IndInv, TypeOK
<1>5. NextCount(l) \in 0..MaxTries /\ NextCount(l) <= restart_count[l] + 1
  <2>1. NextCount(l) \in 0..MaxTries
    BY NextCountType
  <2>2. NextCount(l) <= restart_count[l] + 1
    <3>1. AtMost(restart_count[l] + 1, MaxTries) <= restart_count[l] + 1
      BY <1>4 DEF AtMost
    <3> QED
      BY <1>4, <3>1 DEF NextCount
  <2> QED
    BY <2>1, <2>2
<1>6. runner_map[l] \in Runner /\ runner_map[l] # NONE
  BY <1>1, CheckedRunner, NoneIsMissing DEF IndInv, TypeOK
<1>7. CASE CheckOkay(l)
  BY <1>3, <1>7 DEF CheckOkay, runnerVars, restartVars, TriesInv, TriesAreCounted,
     TriesHonoured, GivenUp
<1>8. UnexpectedlyDead(runner_map[l]) => restart_count[l] < tries[l]
  BY <1>6 DEF UnexpectedlyDead, TriesInv, TriesAreCounted
<1>9. CASE CheckGivesUp(l)
  <2> DEFINE r == [runner_map[l] EXCEPT !.failed = TRUE]
  <2>1. /\ runner_map' = [runner_map EXCEPT ![l] = r]
        /\ restart_count' = [restart_count EXCEPT ![l] = NextCount(l)]
        /\ tries' = [tries EXCEPT ![l] = tries[l]]
        /\ NextCount(l) >= MaxTries /\ UnexpectedlyDead(runner_map[l])
    BY <1>4, <1>9 DEF CheckGivesUp
  <2>2. tries[l] >= MaxTries
    BY <1>4, <1>5, <1>8, <2>1
  <2>3. IsFailed(r)
    BY <1>6 DEF IsFailed, Runner
  <2> HIDE DEF r
  <2> QED
    BY <1>3, <2>1, <2>2, <2>3, TriesStep DEF TriesInv
<1>10. CASE CheckRestarts(l) \/ CheckRestartRaises(l)
  <2> DEFINE n == AtMost(tries[l] + 1, MaxTries + 1)
  <2>1. PICK r \in {Started(runner_map[l]), StartFailed(runner_map[l])} :
          /\ runner_map' = [runner_map EXCEPT ![l] = r]
          /\ restart_count' = [restart_count EXCEPT ![l] = NextCount(l)]
          /\ tries' = [tries EXCEPT ![l] = n]
          /\ NextCount(l) < MaxTries /\ UnexpectedlyDead(runner_map[l])
    BY <1>10 DEF CheckRestarts, CheckRestartRaises, Restart
  <2>2. ~IsFailed(r)
    BY <1>6, <2>1 DEF IsFailed, Runner, Started, StartFailed
  <2>3. NextCount(l) < n
    <3>1. NextCount(l) < tries[l] + 1 /\ NextCount(l) < MaxTries + 1
      BY <1>4, <1>5, <1>8, <2>1
    <3> QED
      BY <3>1 DEF AtMost
  <2> HIDE DEF n
  <2> QED
    BY <1>3, <2>1, <2>2, <2>3, TriesStep DEF TriesInv
<1> QED
  BY <1>7, <1>9, <1>10

LEMMA UpdateStepTries ==
  ASSUME IndInv, TriesInv, UpdateStep
  PROVE  TriesInv'
<1>1. /\ lock = "update" /\ lock' # "check" /\ restart_count' = restart_count
  BY DEF UpdateStep, UpdateStops, UpdateStarts, UpdateReplaces, UpdateStartRaises,
     UpdateStopRaises, UpdateEnd, Treated, Release, restartVars
<1>2. NoCountYet'
  BY <1>1 DEF TriesInv, NoCountYet
<1>3. restart_count \in [Logger -> 0..MaxTries]
  BY DEF IndInv, TypeOK
<1>4. ASSUME NEW l \in Logger, NEW r, NEW n,
             runner_map' = [runner_map EXCEPT ![l] = r], tries' = [tries EXCEPT ![l] = n],
             r = NONE \/ (~IsFailed(r) /\ n = 1)
      PROVE  TriesInv'
  <2>1. restart_count' = [restart_count EXCEPT ![l] = 0]
    BY <1>1, <1>3 DEF TriesInv, NoCountYet
  <2>2. r # NONE /\ ~IsFailed(r) => 0 < n
    BY <1>4
  <2>3. ~(r # NONE /\ IsFailed(r))
    BY <1>4
  <2> QED
    BY <1>2, <1>4, <2>1, <2>2, <2>3, TriesStep DEF TriesInv
<1>5. ASSUME NEW l \in Logger, UpdateStops(l)
      PROVE  TriesInv'
  BY <1>4, <1>5 DEF UpdateStops, DeleteLogger
<1>6. ASSUME NEW l \in Logger, UpdateStarts(l) \/ UpdateReplaces(l)
      PROVE  TriesInv'
  <2>1. ~IsFailed(Started(NewRunner(target[l])))
    BY DEF IsFailed, Started, NewRunner
  <2> QED
    BY <1>4, <1>6, <2>1 DEF UpdateStarts, UpdateReplaces, Install
<1>7. ASSUME NEW l \in Logger, UpdateStartRaises(l)
      PROVE  TriesInv'
  <2>1. ~IsFailed(StartFailed(NewRunner(target[l])))
    BY DEF IsFailed, StartFailed, NewRunner
  <2> QED
    BY <1>4, <1>7, <2>1 DEF UpdateStartRaises, Install
<1>8. CASE UpdateEnd \/ \E l \in Logger : UpdateStopRaises(l)
  BY <1>2, <1>8 DEF UpdateEnd, UpdateStopRaises, runnerVars, restartVars, TriesInv,
     TriesAreCounted, TriesHonoured, GivenUp
<1> QED
  BY <1>5, <1>6, <1>7, <1>8 DEF UpdateStep

LEMMA QuitStepTries ==
  ASSUME IndInv, TriesInv, QuitBegin \/ QuitStep
  PROVE  TriesInv'
<1>1. /\ lock' # "check" /\ lock' # "update" /\ restart_count' = restart_count
      /\ monitor' = monitor
  BY DEF QuitBegin, QuitStep, QuitStops, QuitRaisesAt, QuitEnd, Acquire, Treated, Release,
     restartVars
<1>2. NoCountYet'
  BY <1>1 DEF TriesInv, NoCountYet
<1>3. ASSUME NEW l \in Logger, QuitStops(l)
      PROVE  TriesInv'
  <2>1. restart_count' = [restart_count EXCEPT ![l] = restart_count[l]]
    BY <1>1 DEF IndInv, TypeOK
  <2> QED
    BY <1>2, <1>3, <2>1, TriesStep DEF QuitStops, DeleteLogger, TriesInv
<1>4. CASE QuitBegin \/ QuitEnd \/ \E l \in Logger : QuitRaisesAt(l)
  BY <1>2, <1>4 DEF QuitBegin, QuitEnd, QuitRaisesAt, runnerVars, restartVars, TriesInv,
     TriesAreCounted, TriesHonoured, GivenUp
<1> QED
  BY <1>3, <1>4 DEF QuitStep

LEMMA TriesInvStep == ~UpdatesCome /\ IndInv /\ TriesInv /\ [Next]_vars => TriesInv'
<1> SUFFICES ASSUME ~UpdatesCome, IndInv, TriesInv, [Next]_vars PROVE TriesInv'
  OBVIOUS
<1>1. CASE MonitorSkipsUpdate \/ MonitorTest \/ UNCHANGED vars
  BY <1>1 DEF MonitorSkipsUpdate, MonitorTest, runnerVars, restartVars, lockVars, vars, TriesInv,
     NoCountYet, TriesAreCounted, TriesHonoured, GivenUp
<1>2. CASE MonitorUpdate \/ CheckBegin \/ CheckEnd
  <2>1. NoCountYet'
    BY <1>2 DEF MonitorUpdate, UpdateBegin, CheckBegin, CheckEnd, Acquire, Release, MonitorAfter,
       restartVars, TriesInv, NoCountYet
  <2> QED
    BY <1>2, <2>1 DEF MonitorUpdate, UpdateBegin, CheckBegin, CheckEnd, runnerVars, restartVars,
       TriesInv, TriesAreCounted, TriesHonoured, GivenUp
<1>3. CASE \E l \in Logger : \/ CheckOkay(l) \/ CheckGivesUp(l)
                             \/ CheckRestarts(l) \/ CheckRestartRaises(l)
  BY <1>3, CheckStepTries
<1>4. CASE UpdateStep
  BY <1>4, UpdateStepTries
<1>5. CASE QuitBegin \/ QuitStep
  BY <1>5, QuitStepTries
<1>6. CASE Tick \/ \E l \in Logger : UnkillableExits(l)
  BY <1>6 DEF Tick, UnkillableExits, lockVars, restartVars, TriesInv, NoCountYet,
     TriesAreCounted, TriesHonoured, GivenUp, runnerVars
<1>7. ASSUME NEW l \in Logger, ChildExits(l)
      PROVE  TriesInv'
  <2>1. /\ runner_map[l] \in Runner /\ runner_map[l] # NONE
        /\ IsFailed(Exited(runner_map[l])) = IsFailed(runner_map[l])
    BY <1>7 DEF ChildExits, IndInv, TypeOK, Exited, Runner, IsFailed
  <2>2. /\ runner_map' = [runner_map EXCEPT ![l] = Exited(runner_map[l])]
        /\ tries' = [tries EXCEPT ![l] = tries[l]]
        /\ restart_count' = [restart_count EXCEPT ![l] = restart_count[l]]
    BY <1>7 DEF ChildExits, IndInv, TypeOK, restartVars
  <2>3. NoCountYet'
    BY <1>7 DEF ChildExits, restartVars, lockVars, TriesInv, NoCountYet
  <2>4. /\ ~IsFailed(runner_map[l]) => restart_count[l] < tries[l]
        /\ IsFailed(runner_map[l]) => tries[l] >= MaxTries
    BY <2>1 DEF TriesInv, TriesAreCounted, TriesHonoured, GivenUp
  <2> QED
    BY <2>1, <2>2, <2>3, <2>4, TriesStep DEF TriesInv
<1> QED
  BY <1>1, <1>2, <1>3, <1>4, <1>5, <1>6, <1>7 DEF Next, MonitorStep, Environment, CallUpdate

\* Run by itself, the supervisor gives up only on what it has tried
\* max_tries times (the __main__ of logger_supervisor.py; a configuration
\* that an update brings inherits the count of its predecessor).
THEOREM AloneHonoursTries == ~UpdatesCome => (Spec => []TriesHonoured)
<1> SUFFICES ASSUME ~UpdatesCome
             PROVE  Spec => []TriesHonoured
  OBVIOUS
<1>1. Init => TriesInv
  BY InitTriesInv
<1>2. IndInv /\ TriesInv /\ [Next]_vars => TriesInv'
  BY TriesInvStep
<1>3. TriesInv => TriesHonoured
  BY DEF TriesInv
<1> QED
  BY <1>1, <1>2, <1>3, Invariance, PTL DEF Spec
=============================================================================
