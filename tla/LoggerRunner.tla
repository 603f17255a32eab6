---------------------------- MODULE LoggerRunner ----------------------------
(***************************************************************************)
(* server/logger_runner.py: a LoggerRunner owns at most one child process  *)
(* that runs one logger configuration.  The supervisor keeps one runner    *)
(* per logger and changes it only through start(), quit() and the `failed` *)
(* attribute, so a runner is a record and its methods are operators on it. *)
(*                                                                         *)
(* The child's `process` attribute is abstracted to                        *)
(*   "none"      no multiprocessing.Process object (process is None)       *)
(*   "unforked"  a Process object whose start() raised: it has no child    *)
(*   "live"      the child is running (Process.is_alive() is true)         *)
(*   "exited"    the child has ended, by itself, by an error or by a kill  *)
(***************************************************************************)
CONSTANTS
  RunnableConfig,  \* configurations with 'readers' or 'writers'
  IdleConfig,      \* configurations with neither: the "off" configurations
  NONE             \* a key that a dictionary does not hold

Config  == RunnableConfig \cup IdleConfig
Process == {"none", "unforked", "live", "exited"}
Runner  == [config : Config, process : Process, failed : BOOLEAN]

ASSUME ConfigAssumption ==
  /\ RunnableConfig \cap IdleConfig = {}
  /\ NONE \notin Config \cup Runner

\* LoggerRunner.__init__: no process yet, not failed.
NewRunner(c) == [config |-> c, process |-> "none", failed |-> FALSE]

\* config_is_runnable, is_alive and is_failed.
IsRunnable(r) == r.config \in RunnableConfig
IsAlive(r)    == r.process = "live"
IsFailed(r)   == r.failed

(***************************************************************************)
(* start(): `failed` is cleared and a new Process object replaces the old  *)
(* one, whatever the old one was; a non-runnable configuration is started  *)
(* too.  Process.start() either forks or raises (OSError: no memory, too   *)
(* many processes) and then leaves an object that was never forked.        *)
(***************************************************************************)
Started(r)     == [r EXCEPT !.process = "live", !.failed = FALSE]
StartFailed(r) == [r EXCEPT !.process = "unforked", !.failed = FALSE]

\* start() while the old child lives: nothing refers to that child any more.
Abandons(r) == IsAlive(r)

(***************************************************************************)
(* quit(): terminate, join(5), SIGKILL, join(5).  Process.terminate() on   *)
(* an object that was never forked raises, so quit() does not return then. *)
(***************************************************************************)
QuitRaises(r) == r.process = "unforked"

\* The child ends: an uncaught error, the readers' end of data, a kill, or
\* at once when the configuration is not runnable (run_logger).
Exited(r) == [r EXCEPT !.process = "exited"]
=============================================================================
