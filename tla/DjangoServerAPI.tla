--------------------------- MODULE DjangoServerAPI ---------------------------
(***************************************************************************)
(* django_gui/django_server_api.py: the cruise definition in a database    *)
(* that several processes share: the logger manager and the workers of the *)
(* web server.  config_rlock makes the calls of one process exclude each   *)
(* other, so that a process is in one call at a time; nothing serialises   *)
(* the processes but the database, which does each save by itself, and     *)
(* load_configuration in one transaction.                                  *)
(*                                                                         *)
(* A process caches what it has read and stamps the cache with the time;   *)
(* a change of the database ends with a new time of update.  The clock     *)
(* moves with the updates only: a cache stamped at the time of an update   *)
(* is stamped after it.                                                    *)
(*                                                                         *)
(* Each load gives every row a new generation, so that the configuration   *)
(* of a name differs from one load to the next.  All loads here define the *)
(* same loggers, modes and names.                                          *)
(***************************************************************************)
EXTENDS Naturals, FiniteSets

CONSTANTS
  Setter,      \* processes that change the database: web workers, lmcmd
  Reader,      \* processes that only read it: the logger manager
  Logger,
  ConfigName,
  LoggerOf,    \* the logger each configuration name belongs to
  ModeConfigs, \* each mode's configuration names, NONE for a logger it lacks
  DefaultMode,
  OffMode,     \* the mode 'off', NONE if it is not defined
  Request,     \* what a call may be asked: a mode, or a logger and a name
  NONE,
  REFUSED,     \* what no logger may be set to
  CallBound,   \* bound: calls that change the database
  FailBound    \* bound: OperationalErrors

Process == Setter \cup Reader
Mode    == DOMAIN ModeConfigs

ASSUME DjangoAssumption ==
  /\ CallBound \in Nat /\ FailBound \in Nat
  /\ Setter \cap Reader = {} /\ Logger # {}
  /\ NONE \notin Process \cup ConfigName \cup Mode
  /\ REFUSED \notin ConfigName \cup {NONE}
  /\ LoggerOf \in [ConfigName -> Logger]
  /\ ModeConfigs \in [Mode -> [Logger -> ConfigName \cup {NONE}]]
  /\ DefaultMode \in Mode
  /\ OffMode \in Mode \cup {NONE}
  /\ \A m \in Mode, l \in Logger :
       ModeConfigs[m][l] # NONE => LoggerOf[ModeConfigs[m][l]] = l
  /\ \A l \in Logger : ModeConfigs[DefaultMode][l] # NONE
  /\ \A r \in Request :
       \/ r.mode \in Mode
       \/ r.mode = NONE /\ r.logger \in Logger /\ r.name \in ConfigName

VARIABLES
  generation,     \* of the rows
  active_mode,    \* Cruise.active_mode, NONE when there is no cruise
  config,         \* Logger.config, per logger
  current,        \* names of the rows whose current_config is set
  last_update,    \* LastUpdate's timestamp
  clock,          \* time.time()
  writing,        \* the process in a transaction, NONE if there is none
  call,           \* what each process is in the middle of
  logger_configs, logger_configs_time,   \* the readers' caches
  cached_mode, active_mode_time,
  polling,        \* does the reader's thread that polls still run?
  unread,         \* history: did the reader's last reading of the rows raise?
  calls, fails,   \* counters of CallBound and FailBound
  changed,        \* history: when the flags or the generation last changed
  mode_changed,   \* history: when the mode last changed
  late,           \* history: was an update stamped while the mode was read?
  muddled         \* history: calls overlapped, or one left a logger without a flag

rowVars   == <<generation, active_mode, config, current>>
cacheVars == <<logger_configs, logger_configs_time, cached_mode, active_mode_time, polling,
               unread>>
seenVars  == <<changed, mode_changed, late, muddled>>
countVars == <<calls, fails>>
djangoVars == <<rowVars, last_update, clock, writing, call, cacheVars, countVars, seenVars>>

NameOrNone == ConfigName \cup {NONE}

\* What set_active_mode is to give logger l: its name in the mode, else the
\* one it has in 'off', NONE to skip it; a mode 'off' that is not there raises.
ModeTarget(m, l) ==
  IF ModeConfigs[m][l] # NONE THEN ModeConfigs[m][l]
  ELSE IF OffMode = NONE THEN REFUSED
  ELSE ModeConfigs[OffMode][l]

Todo(request) == IF request.mode # NONE THEN Logger ELSE {request.logger}

Target(request, l) ==
  CASE request.mode # NONE                -> ModeTarget(request.mode, l)
    [] request.mode = NONE /\ LoggerOf[request.name] = l -> request.name
    [] OTHER                              -> REFUSED

Idle == [at |-> "idle"]

\* A call that changes loggers: its steps, what it was asked, the loggers it
\* has still to do, the one it is doing, the names it read at the start.
Setting(at, request, todo, doing, read, gen) ==
  [at |-> at, request |-> request, todo |-> todo, doing |-> doing, read |-> read, gen |-> gen]

\* The call of p at another of its steps.
At(p, at, todo, doing) ==
  Setting(at, call[p].request, todo, doing, call[p].read, call[p].gen)

Working == {"unflag", "assign", "flag"}

\* What a process can be in the middle of.
CallType ==
  {Idle, [at |-> "stamp"], [at |-> "rows"]}
  \cup [at : {"begin"}, request : Request, todo : {{}}, doing : {NONE}, read : {<<>>}, gen : Nat]
  \cup [at : Working \cup {"stamp"}, request : Request, todo : SUBSET Logger,
        doing : Logger \cup {NONE}, read : [Logger -> NameOrNone], gen : Nat]
  \cup [at : {"load"}, preserve : BOOLEAN]
  \cup [at : {"commit"}, preserve : BOOLEAN, stamp : Nat]
  \cup [at : {"mode"}, mode : Mode, read : Nat]

CurrentRows == {<<generation, n>> : n \in current}

\* Who is in the middle of what; one process at a time is in a transaction.
CallsTypeOK ==
  /\ call \in [Process -> CallType]
  /\ writing \in Process \cup {NONE}
  /\ \A p \in Process : writing = p <=> call[p].at \in {"load", "commit"}

DataTypeOK ==
  /\ generation \in Nat
  /\ active_mode \in Mode \cup {NONE}
  /\ config \in [Logger -> NameOrNone]
  /\ current \in SUBSET ConfigName
  /\ clock \in Nat /\ last_update \in 0..clock
  /\ logger_configs \in [Reader -> SUBSET (Nat \X ConfigName)]
  /\ logger_configs_time \in [Reader -> 0..clock]
  /\ cached_mode \in [Reader -> Mode \cup {NONE}]
  /\ active_mode_time \in [Reader -> 0..clock]
  /\ polling \in [Reader -> BOOLEAN] /\ unread \in [Reader -> BOOLEAN]
  /\ calls \in 0..CallBound /\ fails \in 0..FailBound
  /\ changed \in 0..clock /\ mode_changed \in 0..clock
  /\ late \in [Reader -> BOOLEAN]
  /\ muddled \in BOOLEAN

DjangoTypeOK == CallsTypeOK /\ DataTypeOK

\* A definition has been loaded, and nobody has read it yet.
DjangoInit ==
  /\ generation = 0
  /\ active_mode = DefaultMode
  /\ config = ModeConfigs[DefaultMode]
  /\ current = {ModeConfigs[DefaultMode][l] : l \in Logger}
  /\ last_update = 1 /\ clock = 1
  /\ writing = NONE
  /\ call = [p \in Process |-> Idle]
  /\ logger_configs = [p \in Reader |-> {}]
  /\ logger_configs_time = [p \in Reader |-> 0]
  /\ cached_mode = [p \in Reader |-> NONE]
  /\ active_mode_time = [p \in Reader |-> 0]
  /\ polling = [p \in Reader |-> TRUE]
  /\ unread = [p \in Reader |-> FALSE]
  /\ calls = 0 /\ fails = 0
  /\ changed = 0 /\ mode_changed = 0
  /\ late = [p \in Reader |-> FALSE]
  /\ muddled = FALSE

-----------------------------------------------------------------------------
(***************************************************************************)
(* set_active_mode and set_active_logger_config.  They do not change a     *)
(* thing while another process is in its transaction.                      *)
(***************************************************************************)
Writable   == writing = NONE
Goes(p, c) == call' = [call EXCEPT ![p] = c]

\* Calls are refused at once for want of a cruise.
Asks(p) ==
  /\ call[p] = Idle
  /\ active_mode # NONE
  /\ calls < CallBound
  /\ calls' = calls + 1
  /\ \E r \in Request : Goes(p, Setting("begin", r, {}, NONE, <<>>, generation))
  /\ UNCHANGED <<rowVars, last_update, clock, writing, cacheVars, fails, seenVars>>

\* Is another process changing loggers?
Overlaps(p) == \E q \in Process \ {p} : call[q].at \in Working

\* set_active_mode saves the mode, then fetches the loggers.  It returns if
\* there is no cruise any more; the other call raises.
Begins(p) ==
  /\ call[p].at = "begin"
  /\ Writable
  /\ IF active_mode = NONE
     THEN Goes(p, Idle) /\ UNCHANGED <<active_mode, mode_changed, muddled>>
     ELSE LET request == call[p].request IN
          /\ Goes(p, Setting("unflag", request, Todo(request), NONE, config, generation))
          /\ active_mode' = IF request.mode # NONE THEN request.mode ELSE active_mode
          /\ mode_changed' = IF request.mode # NONE THEN clock ELSE mode_changed
          /\ muddled' = (muddled \/ Overlaps(p))
  /\ UNCHANGED <<generation, config, current, last_update, clock, writing, cacheVars,
                 countVars, changed, late>>

\* May the call go on? Its rows are gone if there was a load.
Alive(p) == Writable /\ call[p].gen = generation

\* The loggers come in the order the database has them in.
NextLogger(p) == CHOOSE l \in call[p].todo : TRUE

\* The configuration the logger was read to have is no longer the current one.
Unflags(p) ==
  /\ call[p].at = "unflag"
  /\ Alive(p)
  /\ current' = current \ {call[p].read[NextLogger(p)]}
  /\ changed' = clock
  /\ Goes(p, At(p, "assign", call[p].todo, NextLogger(p)))
  /\ UNCHANGED <<generation, active_mode, config, last_update, clock, writing, cacheVars,
                 countVars, mode_changed, late, muddled>>

\* On to the next logger, or to the end.
Moved(p) ==
  LET todo == call[p].todo \ {call[p].doing} IN
  At(p, IF todo = {} THEN "stamp" ELSE "unflag", todo, NONE)

Assigns(p) ==
  /\ call[p].at = "assign"
  /\ Alive(p)
  /\ LET l == call[p].doing
         n == Target(call[p].request, l)
     IN  CASE n = REFUSED -> Goes(p, Idle) /\ muddled' = TRUE /\ UNCHANGED config
           [] n = NONE    -> Goes(p, Moved(p)) /\ muddled' = TRUE /\ UNCHANGED config
           [] OTHER       -> /\ Goes(p, At(p, "flag", call[p].todo, l))
                             /\ config' = [config EXCEPT ![l] = n]
                             /\ UNCHANGED muddled
  /\ UNCHANGED <<generation, active_mode, current, last_update, clock, writing, cacheVars,
                 countVars, changed, mode_changed, late>>

Flags(p) ==
  /\ call[p].at = "flag"
  /\ Alive(p)
  /\ current' = current \cup {Target(call[p].request, call[p].doing)}
  /\ changed' = clock
  /\ Goes(p, Moved(p))
  /\ UNCHANGED <<generation, active_mode, config, last_update, clock, writing, cacheVars,
                 countVars, mode_changed, late, muddled>>

\* _set_update_time.
Stamps(p) ==
  /\ call[p].at = "stamp"
  /\ Writable
  /\ last_update' = clock + 1
  /\ clock' = clock + 1
  /\ Goes(p, Idle)
  /\ UNCHANGED <<rowVars, writing, cacheVars, countVars, seenVars>>

\* A save of a row that refers to rows of an older load: IntegrityError.
Raises(p) ==
  /\ call[p].at \in Working
  /\ Writable
  /\ call[p].gen # generation
  /\ Goes(p, Idle)
  /\ UNCHANGED <<rowVars, last_update, clock, writing, cacheVars, countVars, seenVars>>

\* Mutant: the call goes on after the logger whose save has failed.
SkipsAfterError(p) ==
  /\ call[p].at \in {"assign", "flag"}
  /\ fails < FailBound
  /\ fails' = fails + 1
  /\ Goes(p, Moved(p))
  /\ UNCHANGED <<rowVars, last_update, clock, writing, cacheVars, calls, seenVars>>

\* OperationalError at a save: the call starts all over.
Retries(p) ==
  /\ call[p].at \in Working
  /\ fails < FailBound
  /\ fails' = fails + 1
  /\ Goes(p, Setting("begin", call[p].request, {}, NONE, <<>>, generation))
  /\ UNCHANGED <<rowVars, last_update, clock, writing, cacheVars, calls, seenVars>>

-----------------------------------------------------------------------------
(***************************************************************************)
(* load_configuration and delete_configuration.  What the first writes,    *)
(* the time of the update with it, others see when it is committed.        *)
(***************************************************************************)
LoadBegins(p) ==
  /\ call[p] = Idle
  /\ Writable
  /\ calls < CallBound
  /\ calls' = calls + 1
  /\ writing' = p
  /\ \E preserve \in BOOLEAN : Goes(p, [at |-> "load", preserve |-> preserve])
  /\ UNCHANGED <<rowVars, last_update, clock, cacheVars, fails, seenVars>>

LoadStamps(p) ==
  /\ call[p].at = "load"
  /\ clock' = clock + 1
  /\ Goes(p, [at |-> "commit", preserve |-> call[p].preserve, stamp |-> clock + 1])
  /\ UNCHANGED <<rowVars, last_update, writing, cacheVars, countVars, seenVars>>

\* Mutant: what is refused is not rolled back.
LoadFailsOpen(p) ==
  /\ call[p].at = "load"
  /\ Goes(p, Idle)
  /\ UNCHANGED <<rowVars, last_update, clock, writing, cacheVars, countVars, seenVars>>

\* A definition that is refused, or a database that is busy: rolled back.
LoadFails(p) ==
  /\ call[p].at = "load"
  /\ writing' = NONE
  /\ Goes(p, Idle)
  /\ UNCHANGED <<rowVars, last_update, clock, cacheVars, countVars, seenVars>>

\* preserve_mode keeps the mode, if there was one, and each logger's name.
LoadCommits(p) ==
  LET mode  == IF call[p].preserve /\ active_mode # NONE THEN active_mode ELSE DefaultMode
      names == [l \in Logger |-> IF call[p].preserve /\ config[l] # NONE
                                 THEN config[l] ELSE ModeConfigs[DefaultMode][l]]
  IN
  /\ call[p].at = "commit"
  /\ generation' = generation + 1
  /\ active_mode' = mode
  /\ config' = names
  /\ current' = {names[l] : l \in Logger}
  /\ last_update' = call[p].stamp
  /\ changed' = clock /\ mode_changed' = clock
  /\ muddled' = FALSE
  /\ writing' = NONE
  /\ Goes(p, Idle)
  /\ UNCHANGED <<clock, cacheVars, countVars, late>>

Deletes(p) ==
  /\ call[p] = Idle
  /\ Writable
  /\ calls < CallBound
  /\ calls' = calls + 1
  /\ generation' = generation + 1
  /\ active_mode' = NONE
  /\ config' = [l \in Logger |-> NONE]
  /\ current' = {}
  /\ changed' = clock /\ mode_changed' = clock
  /\ Goes(p, [at |-> "stamp"])
  /\ UNCHANGED <<last_update, clock, writing, cacheVars, fails, late, muddled>>

-----------------------------------------------------------------------------
(***************************************************************************)
(* get_logger_configs() and get_active_mode().  The first stamps its cache *)
(* before it reads the rows, the second after.                             *)
(***************************************************************************)
\* Mutant: what has once been read is good for ever.
ConfigsKept(p) == logger_configs[p] # {}

ConfigsFresh(p) == logger_configs[p] # {} /\ logger_configs_time[p] >= last_update

ChecksConfigs(p) ==
  /\ call[p] = Idle
  /\ ~ConfigsFresh(p)
  /\ logger_configs_time' = [logger_configs_time EXCEPT ![p] = clock]
  /\ Goes(p, [at |-> "rows"])
  /\ UNCHANGED <<rowVars, last_update, clock, writing, logger_configs, cached_mode,
                 active_mode_time, polling, unread, countVars, seenVars>>

\* Mutant: when there are no rows, the cache is left as it is.
ReadsRowsIfAny(p) ==
  /\ call[p].at = "rows"
  /\ logger_configs' = [logger_configs EXCEPT ![p] = IF current = {} THEN @ ELSE CurrentRows]
  /\ unread' = [unread EXCEPT ![p] = FALSE]
  /\ Goes(p, Idle)
  /\ UNCHANGED <<rowVars, last_update, clock, writing, logger_configs_time, cached_mode,
                 active_mode_time, polling, countVars, seenVars>>

ReadsRows(p) ==
  /\ call[p].at = "rows"
  /\ logger_configs' = [logger_configs EXCEPT ![p] = CurrentRows]
  /\ unread' = [unread EXCEPT ![p] = FALSE]
  /\ Goes(p, Idle)
  /\ UNCHANGED <<rowVars, last_update, clock, writing, logger_configs_time, cached_mode,
                 active_mode_time, polling, countVars, seenVars>>

\* The query, or the look-up of a logger that has just been deleted, raises:
\* the cache stays, though its time has moved.  If the caller is the logger
\* manager's poller, that thread ends; else the poller goes on.
ReadFails(p) ==
  /\ call[p].at = "rows"
  /\ fails < FailBound
  /\ fails' = fails + 1
  /\ unread' = [unread EXCEPT ![p] = TRUE]
  /\ polling' \in {polling, [polling EXCEPT ![p] = FALSE]}
  /\ Goes(p, Idle)
  /\ UNCHANGED <<rowVars, last_update, clock, writing, logger_configs, logger_configs_time,
                 cached_mode, active_mode_time, calls, seenVars>>

\* Mutant: what has once been read is good for ever.
ModeKept(p) == cached_mode[p] # NONE

ModeFresh(p) == cached_mode[p] # NONE /\ active_mode_time[p] >= last_update

ReadsMode(p) ==
  /\ call[p] = Idle
  /\ ~ModeFresh(p)
  /\ active_mode # NONE
  /\ Goes(p, [at |-> "mode", mode |-> active_mode, read |-> clock])
  /\ UNCHANGED <<rowVars, last_update, clock, writing, cacheVars, countVars, seenVars>>

StampsMode(p) ==
  /\ call[p].at = "mode"
  /\ cached_mode' = [cached_mode EXCEPT ![p] = call[p].mode]
  /\ active_mode_time' = [active_mode_time EXCEPT ![p] = clock]
  /\ late' = [late EXCEPT ![p] = last_update > call[p].read]
  /\ Goes(p, Idle)
  /\ UNCHANGED <<rowVars, last_update, clock, writing, logger_configs, logger_configs_time,
                 polling, unread, countVars, changed, mode_changed, muddled>>

-----------------------------------------------------------------------------
\* What a process does to get on with its call.
GoesOn(p) ==
  \/ Begins(p) \/ Unflags(p) \/ Assigns(p) \/ Flags(p) \/ Stamps(p) \/ Raises(p)
  \/ LoadStamps(p) \/ LoadCommits(p)

Reads(p) ==
  ChecksConfigs(p) \/ ReadsRows(p) \/ ReadFails(p) \/ ReadsMode(p) \/ StampsMode(p)

\* What the poller keeps doing, and what a call it is in comes to.
Polls(p) == (polling[p] /\ ChecksConfigs(p)) \/ ReadsRows(p) \/ StampsMode(p)

DjangoNext ==
  \/ \E p \in Setter : Asks(p) \/ LoadBegins(p) \/ Deletes(p) \/ LoadFails(p) \/ Retries(p)
                       \/ GoesOn(p)
  \/ \E p \in Reader : Reads(p)

DjangoSpec == DjangoInit /\ [][DjangoNext]_djangoVars

-----------------------------------------------------------------------------
(***************************************************************************)
(* Properties.                                                             *)
(***************************************************************************)

\* A cache that its process would still answer from holds the rows flagged
\* in the database, once the last change of them has been followed by an
\* update of the time, unless its last reading of them raised: the time of
\* the cache has moved then.  A load is not followed by an update: its time
\* is taken before its commit.
ConfigsCurrent ==
  \A p \in Reader :
    call[p] = Idle /\ last_update > changed /\ ConfigsFresh(p) /\ ~unread[p]
      => logger_configs[p] = CurrentRows

\* The same of the active mode, unless an update was stamped between the
\* reading of the mode and the stamping of the cache, which comes after.
ModeCurrent ==
  \A p \in Reader :
    call[p] = Idle /\ last_update > mode_changed /\ ModeFresh(p) /\ ~late[p]
      => cached_mode[p] = active_mode

\* Neither of the two caches gives an answer that is out of date.
DjangoSafe == DjangoTypeOK /\ ConfigsCurrent /\ ModeCurrent

\* Between calls each logger's configuration is flagged as current and no
\* other is, whatever call was retried or cut short by a load, as long as no
\* two calls overlapped and none left a logger without.
OneCurrentConfig ==
  ~muddled /\ (\A p \in Setter : call[p].at \notin {"begin"} \cup Working)
    => current = {config[l] : l \in Logger} \ {NONE}

\* A reader that polls has the rows flagged in the database, unless the last
\* change was not followed by an update of the time: a load, or a call that
\* raised on the way; and unless the poller has ended by an exception, or the
\* last reading raised in another thread.
RowsCaughtUp(p) ==
  last_update <= changed \/ ~polling[p] \/ unread[p] \/ logger_configs[p] = CurrentRows
=============================================================================
