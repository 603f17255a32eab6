---------------------------- MODULE LoggerManager ----------------------------
(***************************************************************************)
(* server/logger_manager.py with the in-memory API, the command line and   *)
(* the supervisor, as its __main__ puts them together.                     *)
(*                                                                         *)
(* Threads: the console (server_api_command_line.py, the only writer of    *)
(* the API), the poller (_update_configs_loop) and the definer             *)
(* (_send_cruise_definition_loop).  A console command is the sequence of   *)
(* steps its calls make, those of the API's callbacks included: the API    *)
(* calls _update_configs and _load_new_definition_from_api in the console  *)
(* thread.  config_lock serialises those two methods; inside the first the *)
(* supervisor's logger_map_lock is taken.  The thread that only reports    *)
(* status changes nothing here and is left out.                            *)
(*                                                                         *)
(* Nothing in logger_manager.py executes supervisor.run(), so MonitorRuns  *)
(* is FALSE.                                                               *)
(***************************************************************************)
EXTENDS LoggerSupervisor, Sequences

CONSTANTS
  ConfigName, Cruise, BareConfig

VARIABLES
  cruise, stamped, logger_config,
  script,        \* the steps the console's current command has still to make
  console,       \* "reading" commands, or "ended"
  poller,        \* "looping", "dead" of an exception, or "done"
  definer,       \* the same
  manager_quit,  \* LoggerManager.quit_flag
  config_lock,   \* the thread inside `with self.config_lock`, or "free"
  phase,         \* what that thread is doing
  listed,        \* the definition whose loggers it lists
  reading,       \* the loggers whose name it has still to read
  found,         \* the logger whose name it has just read, and the name
  fetched,       \* the configurations it has read
  unseen,        \* is loaded_time later than the definer's last?
  announced,     \* the last definition sent to the cached data server
  synced         \* history: an update signal succeeded after the last write

API == INSTANCE InMemoryServerAPI

lockedVars  == <<config_lock, phase, listed, reading, found, fetched>>
threadVars  == <<console, poller, definer, manager_quit>>
reportVars  == <<unseen, announced, synced>>
apiVars     == <<cruise, stamped, logger_config>>
managerVars == <<apiVars, script, threadVars, lockedVars, reportVars>>
allVars     == <<vars, managerVars>>

ASSUME ManagerAssumption ==
  /\ MonitorRuns = FALSE /\ UpdatesCome = TRUE
  /\ BareConfig \in IdleConfig

\* A definition describes each of its loggers, and what it names exists.
ASSUME CruiseAssumption ==
  /\ NONE \notin Cruise /\ NONE \notin ConfigName
  /\ \A c \in Cruise :
       /\ c.loggers \in (SUBSET Logger) \ {{}}
       /\ c.configs \in [ConfigName -> Config \cup {NONE}]
       /\ \A m \in DOMAIN c.modes : c.modes[m] \in [Logger -> ConfigName \cup {NONE}]
       /\ c.choices \in [Logger -> SUBSET ConfigName]
       /\ c.sound => c.default \in DOMAIN c.modes \cup {NONE}

Step(op, arg) == [op |-> op, arg |-> arg]

ManagerTypeOK ==
  /\ API!APITypeOK
  /\ \A i \in DOMAIN script :
       script[i].op \in {"assign", "stamp", "mode", "name", "signal", "announce",
                         "uncruise", "unname", "reload", "flag", "quit"}
  /\ console \in {"reading", "ended"}
  /\ poller \in {"looping", "dead", "done"}
  /\ definer \in {"looping", "dead", "done"}
  /\ manager_quit \in BOOLEAN
  /\ config_lock \in {"free", "console", "poller", "definer"}
  /\ phase \in {"free", "loggers", "listing", "names", "config", "applying", "send"}
  /\ listed \in Cruise \cup {NONE}
  /\ reading \in SUBSET Logger
  /\ found \in (Logger \cup {NONE}) \X (ConfigName \cup {NONE})
  /\ fetched \in ConfigMap
  /\ unseen \in BOOLEAN
  /\ announced \in (Cruise \cup {NONE}) \X (Cruise \cup {NONE})
  /\ synced \in BOOLEAN

ManagerInit ==
  /\ Init
  /\ API!APIInit
  /\ script = <<>>
  /\ console = "reading"
  /\ poller = "looping"
  /\ definer = "looping"
  /\ manager_quit = FALSE
  /\ config_lock = "free"
  /\ phase = "free"
  /\ listed = NONE
  /\ reading = {}
  /\ found = <<NONE, NONE>>
  /\ fetched = EmptyMap
  /\ unseen = FALSE
  /\ announced = <<NONE, NONE>>
  /\ synced = FALSE

-----------------------------------------------------------------------------
(***************************************************************************)
(* Commands of the console (process_command) as sequences of steps.        *)
(***************************************************************************)
SetModeSteps(m) == IF m = NONE THEN <<>> ELSE <<Step("mode", m), Step("signal", NONE)>>

\* Mutant: the load is announced as soon as the definition is there.
LoadAnnouncesFirst(c) ==
  <<Step("assign", c), Step("announce", NONE)>>
    \o (IF c.sound THEN <<Step("stamp", NONE)>> \o SetModeSteps(c.default) ELSE <<>>)

\* load_configuration raises at an empty configuration or a default mode it
\* does not define, but keeps the definition.  Else it sets the default
\* mode, if any, and announces the load; the console sets the mode again.
LoadSteps(c) ==
  <<Step("assign", c), Step("stamp", NONE)>>
    \o (IF c.sound
        THEN SetModeSteps(c.default) \o <<Step("announce", NONE)>> \o SetModeSteps(c.default)
        ELSE <<>>)

DeleteSteps == <<Step("uncruise", NONE), Step("unname", NONE)>>

\* The end of the command loop is api.quit(): the manager's callback, then
\* the supervisor's.  (__main__ calls the latter once more, for nothing.)
EndSteps == <<Step("flag", NONE), Step("quit", NONE)>>

\* The command `quit` does so once and then ends the loop.
QuitSteps == EndSteps \o EndSteps

\* set_active_logger_config, for a name that the logger may be given.
SetNameSteps ==
  UNION {{<<Step("name", <<l, n>>), Step("signal", NONE)>> : n \in cruise.choices[l]} :
           l \in cruise.loggers}

Commands ==
  {LoadSteps(c) : c \in Cruise}
  \cup {DeleteSteps, QuitSteps, <<Step("reload", NONE)>>}
  \cup (IF cruise = NONE THEN {}
        ELSE {SetModeSteps(m) : m \in DOMAIN cruise.modes})
  \cup (IF cruise = NONE \/ ~API!LoggersReadable THEN {} ELSE SetNameSteps)

ConsoleCommand ==
  /\ console = "reading"
  /\ script = <<>>
  /\ script' \in Commands
  /\ UNCHANGED <<vars, apiVars, threadVars, lockedVars, reportVars>>

Now(op) == script # <<>> /\ Head(script).op = op
Arg     == Head(script).arg

\* The writes of the API, one attribute at a time.
ConsoleWrites ==
  /\ \/ Now("assign") /\ API!AssignCruise(Arg) /\ UNCHANGED unseen
     \/ Now("stamp") /\ API!StampCruise /\ unseen' = TRUE
     \/ Now("mode") /\ API!AssignMode(Arg) /\ UNCHANGED unseen
     \/ Now("name") /\ API!AssignName(Arg[1], Arg[2]) /\ UNCHANGED unseen
     \/ Now("uncruise") /\ API!ClearCruise /\ unseen' = FALSE
     \/ Now("unname") /\ API!ClearNames /\ UNCHANGED unseen
  /\ script' = Tail(script)
  /\ synced' = FALSE
  /\ UNCHANGED <<vars, threadVars, lockedVars, announced>>

\* reload_configuration looks for config_filename where load_configuration
\* has not put it: a KeyError, or a TypeError without a definition.  Neither
\* is a ValueError, so the command loop ends, and its end is to quit.
ConsoleReloads ==
  /\ Now("reload")
  /\ script' = EndSteps
  /\ UNCHANGED <<vars, apiVars, threadVars, lockedVars, reportVars>>

-----------------------------------------------------------------------------
(***************************************************************************)
(* Taking and leaving config_lock.                                         *)
(***************************************************************************)
TakeConfigLock(thread) ==
  /\ config_lock = "free"
  /\ config_lock' = thread
  /\ phase' = "loggers"
  /\ UNCHANGED <<listed, reading, found, fetched>>

\* Is the thread inside it in _update_configs, or in the other method?
Updating == config_lock = "poller" \/ (config_lock = "console" /\ Now("signal"))

LeaveConfigLock ==
  /\ config_lock' = "free"
  /\ phase' = "free"
  /\ listed' = NONE
  /\ reading' = {}
  /\ found' = <<NONE, NONE>>
  /\ fetched' = EmptyMap

\* The method returns to its thread: the console goes on with its command.
Returns ==
  /\ LeaveConfigLock
  /\ script' = IF config_lock = "console" THEN Tail(script) ELSE script
  /\ UNCHANGED <<console, poller, definer, manager_quit>>

\* Mutant: config_lock is not released when the method raises.
RaisesInside ==
  /\ script' = IF config_lock = "console" THEN <<>> ELSE script
  /\ poller' = IF config_lock = "poller" THEN "dead" ELSE poller
  /\ phase' = "free"
  /\ UNCHANGED <<config_lock, listed, reading, found, fetched, console, definer, manager_quit>>

\* It raises a ValueError: the poller's loop has no handler and the thread
\* ends; the console logs the error and drops the rest of the command.
RaisesOut ==
  /\ LeaveConfigLock
  /\ script' = IF config_lock = "console" THEN <<>> ELSE script
  /\ poller' = IF config_lock = "poller" THEN "dead" ELSE poller
  /\ UNCHANGED <<console, definer, manager_quit>>

\* _load_new_definition_from_api handles every exception by logging it.
Raises == IF Updating THEN RaisesOut ELSE Returns

-----------------------------------------------------------------------------
(***************************************************************************)
(* _update_configs, in the poller or as the console's update callback.     *)
(***************************************************************************)
\* Mutant: it polls only for a definition that has been loaded meanwhile.
PollerBeginsAtLoad ==
  /\ poller = "looping"
  /\ ~manager_quit
  /\ unseen
  /\ TakeConfigLock("poller")
  /\ UNCHANGED <<vars, apiVars, script, threadVars, reportVars>>

PollerBegins ==
  /\ poller = "looping"
  /\ ~manager_quit
  /\ TakeConfigLock("poller")
  /\ UNCHANGED <<vars, apiVars, script, threadVars, reportVars>>

PollerEnds ==
  /\ poller = "looping"
  /\ config_lock # "poller"
  /\ manager_quit
  /\ poller' = "done"
  /\ UNCHANGED <<vars, apiVars, script, console, definer, manager_quit, lockedVars,
                 reportVars>>

\* Mutant: the update callback returns at once if an update is in progress.
ConsoleSignalsIfFree ==
  /\ Now("signal")
  /\ \/ TakeConfigLock("console") /\ UNCHANGED <<script, threadVars, reportVars>>
     \/ /\ config_lock # "free"
        /\ script' = Tail(script)
        /\ synced' = TRUE
        /\ UNCHANGED <<threadVars, lockedVars, unseen, announced>>
  /\ UNCHANGED <<vars, apiVars>>

ConsoleSignals ==
  /\ Now("signal")
  /\ TakeConfigLock("console")
  /\ UNCHANGED <<vars, apiVars, script, threadVars, reportVars>>

\* Both methods begin with api.get_loggers.  Without a definition it returns
\* no loggers: there is nothing to update, and no definition to describe.
ListNothing ==
  /\ phase = "loggers"
  /\ cruise = NONE
  /\ Returns
  /\ UNCHANGED <<vars, apiVars, reportVars>>

ListBegin ==
  /\ phase = "loggers"
  /\ cruise # NONE
  /\ listed' = cruise
  /\ reading' = cruise.loggers
  /\ phase' = "listing"
  /\ UNCHANGED <<vars, apiVars, script, threadVars, reportVars, config_lock, found, fetched>>

\* It reads the name of every logger; get_logger_configs then reads each a
\* second time, with the configuration of that name.
ListLogger(l) ==
  /\ phase = "listing" /\ l \in reading
  /\ API!NameReadable(l)
  /\ IF reading # {l}
     THEN reading' = reading \ {l} /\ UNCHANGED phase
     ELSE IF Updating
          THEN reading' = listed.loggers /\ phase' = "names"
          ELSE reading' = {} /\ phase' = "send"
  /\ UNCHANGED <<vars, apiVars, script, threadVars, reportVars, config_lock, listed, found,
                 fetched>>

FetchName(l) ==
  /\ phase = "names" /\ l \in reading
  /\ API!NameReadable(l)
  /\ found' = <<l, logger_config[l]>>
  /\ phase' = "config"
  /\ UNCHANGED <<vars, apiVars, script, threadVars, reportVars, config_lock, listed, reading,
                 fetched>>

FetchConfig ==
  /\ phase = "config"
  /\ API!ConfigReadable(found[2])
  /\ fetched' = [fetched EXCEPT ![found[1]] = API!ConfigRead(found[2])]
  /\ reading' = reading \ {found[1]}
  /\ found' = <<NONE, NONE>>
  /\ phase' = "names"
  /\ UNCHANGED <<vars, apiVars, script, threadVars, reportVars, config_lock, listed>>

ReadRaises ==
  /\ \/ phase \in {"listing", "names"} /\ \E l \in reading : ~API!NameReadable(l)
     \/ phase = "config" /\ ~API!ConfigReadable(found[2])
  /\ Raises
  /\ UNCHANGED <<vars, apiVars, reportVars>>

\* supervisor.update_configs(fetched) gets the supervisor's lock ...
ApplyBegins ==
  /\ phase = "names" /\ reading = {}
  /\ CallUpdate(fetched)
  /\ phase' = "applying"
  /\ UNCHANGED <<apiVars, script, threadVars, reportVars, config_lock, listed, reading, found,
                 fetched>>

\* ... or returns at once because the supervisor is quitting.
ApplyRefused ==
  /\ phase = "names" /\ reading = {}
  /\ lock = "free" /\ quit_flag
  /\ Returns
  /\ UNCHANGED <<vars, apiVars, reportVars>>

ApplyStep ==
  /\ \E l \in Logger : UpdateStops(l) \/ UpdateStarts(l) \/ UpdateReplaces(l)
  /\ UNCHANGED managerVars

ApplyEnds ==
  /\ UpdateEnd
  /\ Returns
  /\ synced' = (synced \/ config_lock = "console")
  /\ UNCHANGED <<apiVars, unseen, announced>>

\* A fork fails: no ValueError, so in the console it ends the command loop.
ApplyRaises ==
  /\ \E l \in Logger : UpdateStartRaises(l) \/ UpdateStopRaises(l)
  /\ LeaveConfigLock
  /\ script' = IF config_lock = "console" THEN EndSteps ELSE script
  /\ poller' = IF config_lock = "poller" THEN "dead" ELSE poller
  /\ UNCHANGED <<apiVars, console, definer, manager_quit, reportVars>>

-----------------------------------------------------------------------------
(***************************************************************************)
(* _load_new_definition_from_api, in the definer or as the console's load  *)
(* callback, and the definer's loop.                                       *)
(***************************************************************************)
ConsoleAnnounces ==
  /\ Now("announce")
  /\ TakeConfigLock("console")
  /\ UNCHANGED <<vars, apiVars, script, threadVars, reportVars>>

\* A later loaded_time is remembered before the definition is read.
DefinerBegins ==
  /\ definer = "looping" /\ config_lock # "definer"
  /\ ~manager_quit
  /\ cruise # NONE /\ stamped /\ unseen
  /\ TakeConfigLock("definer")
  /\ unseen' = FALSE
  /\ UNCHANGED <<vars, apiVars, script, threadVars, announced, synced>>

\* loaded_time is still missing: the loop handles KeyboardInterrupt only.
DefinerDies ==
  /\ definer = "looping" /\ config_lock # "definer"
  /\ ~manager_quit
  /\ cruise # NONE /\ ~stamped
  /\ definer' = "dead"
  /\ UNCHANGED <<vars, apiVars, script, console, poller, manager_quit, lockedVars, reportVars>>

DefinerEnds ==
  /\ definer = "looping" /\ config_lock # "definer"
  /\ manager_quit
  /\ definer' = "done"
  /\ UNCHANGED <<vars, apiVars, script, console, poller, manager_quit, lockedVars, reportVars>>

\* The message: the loggers just listed, with the modes and the times of
\* the definition that is loaded now.
SendDefinition ==
  /\ phase = "send"
  /\ cruise # NONE /\ stamped
  /\ announced' = <<listed, cruise>>
  /\ Returns
  /\ UNCHANGED <<vars, apiVars, unseen, synced>>

SendFails ==
  /\ phase = "send"
  /\ cruise = NONE \/ ~stamped
  /\ Returns
  /\ UNCHANGED <<vars, apiVars, reportVars>>

-----------------------------------------------------------------------------
(***************************************************************************)
(* Quitting: LoggerManager.quit sets its flag, supervisor.quit stops all.  *)
(***************************************************************************)
ConsoleFlags ==
  /\ Now("flag")
  /\ manager_quit' = TRUE
  /\ script' = Tail(script)
  /\ synced' = FALSE
  /\ UNCHANGED <<vars, apiVars, console, poller, definer, lockedVars, unseen, announced>>

ConsoleQuits ==
  /\ Now("quit")
  /\ QuitBegin
  /\ UNCHANGED managerVars

SupervisorQuits ==
  /\ \E l \in Logger : QuitStops(l)
  /\ UNCHANGED managerVars

\* supervisor.quit() returns or raises.  Either way the console goes on to
\* the end of the command loop, and after that it has ended.
SupervisorHasQuit ==
  /\ QuitEnd \/ \E l \in Logger : QuitRaisesAt(l)
  /\ script' = Tail(script)
  /\ console' = IF Len(script) = 1 THEN "ended" ELSE console
  /\ UNCHANGED <<apiVars, poller, definer, manager_quit, lockedVars, reportVars>>

World == Environment /\ UNCHANGED managerVars

-----------------------------------------------------------------------------
LockedMethod ==
  \/ ListNothing \/ ListBegin
  \/ \E l \in Logger : ListLogger(l) \/ FetchName(l)
  \/ FetchConfig \/ ReadRaises
  \/ ApplyBegins \/ ApplyRefused \/ ApplyStep \/ ApplyEnds \/ ApplyRaises
  \/ SendDefinition \/ SendFails

ConsoleStep ==
  \/ ConsoleWrites \/ ConsoleSignals \/ ConsoleAnnounces \/ ConsoleReloads
  \/ ConsoleFlags \/ ConsoleQuits

PollerStep  == PollerBegins \/ PollerEnds
DefinerStep == DefinerBegins \/ DefinerDies \/ DefinerEnds
QuitMethod  == SupervisorQuits \/ SupervisorHasQuit

ManagerNext ==
  \/ ConsoleCommand \/ ConsoleStep
  \/ PollerStep \/ DefinerStep
  \/ LockedMethod \/ QuitMethod
  \/ World

ManagerSpec == ManagerInit /\ [][ManagerNext]_allVars

(***************************************************************************)
(* Every thread runs.  The poller and the definer sleep between rounds, so *)
(* a console that waits for config_lock finds it free again and again and  *)
(* gets it: strong fairness of its steps.  Nobody has to type a command.   *)
(***************************************************************************)
ManagerFairSpec ==
  /\ ManagerSpec
  /\ SF_allVars(ConsoleStep)
  /\ WF_allVars(PollerStep) /\ WF_allVars(DefinerStep)
  /\ WF_allVars(LockedMethod) /\ WF_allVars(QuitMethod)

-----------------------------------------------------------------------------
(***************************************************************************)
(* Properties.                                                             *)
(***************************************************************************)

\* Once the console's update signal has returned, and until it writes to
\* the API again, the loggers that run are those the API asks for, whatever
\* the poller read before or during the command.
SyncedIsDesired == synced => config_map = API!Desired

\* The API's and the threads' state is sound, and what was signalled is done.
ManagerSafe == ManagerTypeOK /\ SyncedIsDesired

\* In the end the fleet is what the API asks for, also when a slow poller
\* has applied what it read before a command, or when an error has dropped
\* the signal of the command that wrote: as long as the poller lives, what is
\* asked for stays, and every logger of the definition has a configuration.
FleetFollowsAPI ==
  <>[](/\ script = <<>> /\ ~manager_quit /\ poller # "dead"
       /\ cruise # NONE /\ API!LoggersReadable
       /\ \A l \in cruise.loggers : API!ConfigReadable(logger_config[l]))
    => <>[](config_map = API!Desired)

\* Every command of the console comes to its end: no thread waits for ever
\* for config_lock, or inside it for the supervisor's lock.
CommandsComplete == script # <<>> ~> script = <<>>

\* _update_configs_loop goes on polling the API until it is told to quit.
PollerSurvives == poller # "dead"

\* The console is sent each definition: one that loads without an error
\* and stays loaded, with every logger configured, is eventually the one
\* announced.
DefinitionAnnounced ==
  \A c \in Cruise : c.sound =>
    (<>[](cruise = c /\ stamped /\ API!LoggersReadable /\ ~manager_quit)
      => <>(announced = <<c, c>>))
=============================================================================
