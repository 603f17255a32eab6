--------------------------- MODULE SQLiteServerAPI ---------------------------
(***************************************************************************)
(* server/sqlite_server_api.py: the whole cruise definition in one row of  *)
(* a database, with the time it was last updated in another.  Each process *)
(* holds a copy, which it loads again when the time in the database is     *)
(* later than its own, changes in memory, and saves as a whole.  A process *)
(* uses its copy from one thread here.                                     *)
(*                                                                         *)
(* A command is the sequence of the steps its calls make (process_command  *)
(* of server_api_command_line.py, with the checks it makes): each statement *)
(* of the database is a step, and commits by itself.                       *)
(*                                                                         *)
(* A configuration is a definition, its active mode and the name of the    *)
(* configuration each logger is to run.                                    *)
(***************************************************************************)
EXTENDS Naturals, Sequences

CONSTANTS
  Setter,       \* processes that change it: lmcmd, LoggerManagerWriter, a console
  Reader,       \* processes that only read it
  Logger,
  Definition,
  Plan,         \* a definition's modes, each mapping loggers to names
  Default,      \* its default mode
  Command,      \* the commands that may be given, each a kind and its argument
  NONE,
  CommandBound  \* bound: commands

Process == Setter \cup Reader

\* The names a definition gives a logger.
Names(d, l) == {Plan[d][m][l] : m \in DOMAIN Plan[d]}
Modes(d)    == DOMAIN Plan[d]

\* What a process may hold and save.
Configurations ==
  [definition : Definition,
   mode       : (UNION {Modes(d) : d \in Definition}) \cup {NONE},
   active     : [Logger -> (UNION {Names(d, l) : d \in Definition, l \in Logger}) \cup {NONE}]]

\* Assumed by the module that runs it, and by the theorems.
SQLiteAssumption ==
  /\ Setter \cap Reader = {}
  /\ \A d \in Definition :
       /\ Default[d] \in Modes(d)
       /\ \A m \in Modes(d) : Plan[d][m] = [l \in Logger |-> Plan[d][m][l]]
  /\ \A c \in Command :
       /\ c[1] \in {"mode", "name", "load", "delete"}
       /\ c[1] = "name" => c[2][1] \in Logger
       /\ c[1] = "load" => c[2] \in Definition
  /\ NONE \notin Configurations
  /\ CommandBound \in Nat

VARIABLES
  saved,      \* the configuration in the database, NONE for none or {}
  db_time,    \* lastupdate's timestamp
  clock,      \* the time
  held,       \* self.config, per process
  timestamp,  \* self.timestamp
  seen,       \* the time of the database it has just read
  script,     \* the steps its command has still to make
  disturbed,  \* history: did another process save while its command ran?
  commands    \* counter of CommandBound

sqliteVars == <<saved, db_time, clock, held, timestamp, seen, script, disturbed, commands>>

Step(op, arg) == [op |-> op, arg |-> arg]
Steps(ops)    == [i \in DOMAIN ops |-> Step(ops[i], NONE)]

\* _do_we_need_to_reload.
ReloadSteps == Steps(<<"look", "fetch">>)

\* The end of every command: message_log, whose own row is not modelled.
LogSteps    == Steps(<<"stamp">>)

\* Mutant: the time is updated before the row.
ModeStepsStampFirst(m) == ReloadSteps \o <<Step("stamp", NONE), Step("mode", m)>>

\* set_active_mode.
ModeSteps(m) == ReloadSteps \o <<Step("mode", m), Step("stamp", NONE)>>

\* Mutant: the names of the logger are not asked for first.
NameStepsBlind(l, n) == <<Step("name", <<l, n>>), Step("stamp", NONE)>>

\* set_active_logger_config does not load; the command asks for the names of
\* the logger first, and that does.
NameSteps(l, n) == ReloadSteps \o <<Step("name", <<l, n>>), Step("stamp", NONE)>>

\* load_configuration: the backup loads, then set_active_mode does.  The
\* command then asks for the default mode and sets it once more.
LoadSteps(d) ==
  ReloadSteps \o <<Step("assign", d)>> \o ModeSteps(Default[d]) \o Steps(<<"save", "stamp">>)
    \o ReloadSteps \o Steps(<<"default">>)

DeleteSteps == Steps(<<"clear", "stamp">>)

StepsOf(c) ==
  (CASE c[1] = "mode"   -> ModeSteps(c[2])
     [] c[1] = "name"   -> NameSteps(c[2][1], c[2][2])
     [] c[1] = "load"   -> LoadSteps(c[2])
     [] c[1] = "delete" -> DeleteSteps) \o LogSteps

Configuration(d, m, active) == [definition |-> d, mode |-> m, active |-> active]

\* load_configuration leaves the mode and the names for set_active_mode to
\* fill in.
Bare(d) == Configuration(d, NONE, [l \in Logger |-> NONE])

InMode(d, m) == Configuration(d, m, Plan[d][m])

Whole(c) ==
  /\ c.mode \in Modes(c.definition)
  /\ \A l \in Logger : c.active[l] \in Names(c.definition, l)

SQLiteTypeOK ==
  /\ saved \in Configurations \cup {NONE}
  /\ clock \in Nat /\ db_time \in 0..clock
  /\ \A p \in Process :
       /\ held[p] \in Configurations \cup {NONE}
       /\ timestamp[p] \in 0..db_time /\ seen[p] \in 0..db_time
       /\ \A i \in DOMAIN script[p] :
            script[p][i].op \in {"look", "fetch", "mode", "name", "default", "assign", "clear",
                                 "save", "stamp"}
       /\ disturbed[p] \in BOOLEAN
  /\ commands \in 0..CommandBound

\* A definition has been loaded; the processes have either just been
\* started, or have all read it.
SQLiteInit ==
  /\ \E d \in Definition :
       /\ saved = InMode(d, Default[d])
       /\ \/ held = [p \in Process |-> NONE]
          \/ held = [p \in Process |-> saved]
  /\ db_time = 1 /\ clock = 1
  /\ timestamp = [p \in Process |-> 1]
  /\ seen = [p \in Process |-> 1]
  /\ script = [p \in Process |-> <<>>]
  /\ disturbed = [p \in Process |-> FALSE]
  /\ commands = 0

-----------------------------------------------------------------------------
\* Has the process saved, with the time still to come?
Saving(p) == script[p] # <<>> /\ script[p][1].op = "stamp"

Enters(p) ==
  /\ script[p] = <<>>
  /\ commands < CommandBound
  /\ \E c \in Command : script' = [script EXCEPT ![p] = StepsOf(c)]
  /\ disturbed' = [disturbed EXCEPT ![p] = \E q \in Process \ {p} : Saving(q)]
  /\ commands' = commands + 1
  /\ UNCHANGED <<saved, db_time, clock, held, timestamp, seen>>

\* Mutant: what has once been loaded is not loaded again.
OutOfDateOnce(p) == held[p] = NONE

OutOfDate(p) == db_time > timestamp[p] \/ held[p] = NONE

\* A get_ call of the logger manager.
Polls(p) ==
  /\ script[p] = <<>>
  /\ OutOfDate(p)
  /\ script' = [script EXCEPT ![p] = ReloadSteps]
  /\ UNCHANGED <<saved, db_time, clock, held, timestamp, seen, disturbed, commands>>

Now(p, op) == script[p] # <<>> /\ Head(script[p]).op = op
Arg(p)     == Head(script[p]).arg
Done(p)    == script' = [script EXCEPT ![p] = Tail(@)]
\* Whatever a command comes to, it is logged.
Fails(p)   == script' = [script EXCEPT ![p] = LogSteps]
Holds(p, c) == held' = [held EXCEPT ![p] = c]

Looks(p) ==
  /\ Now(p, "look")
  /\ seen' = [seen EXCEPT ![p] = db_time]
  /\ script' = [script EXCEPT ![p] = IF OutOfDate(p) THEN Tail(@) ELSE Tail(Tail(@))]
  /\ UNCHANGED <<saved, db_time, clock, held, timestamp, disturbed, commands>>

\* A row without loggers, or none, changes nothing: the time is not taken
\* over either.
Fetches(p) ==
  /\ Now(p, "fetch")
  /\ IF saved = NONE
     THEN UNCHANGED <<held, timestamp>>
     ELSE Holds(p, saved) /\ timestamp' = [timestamp EXCEPT ![p] = seen[p]]
  /\ Done(p)
  /\ UNCHANGED <<saved, db_time, clock, seen, disturbed, commands>>

\* _save_config, as far as the row: others come to see what was changed in
\* memory only with it.
Puts(p, c) ==
  /\ Holds(p, c)
  /\ saved' = c
  /\ disturbed' = [q \in Process |-> q # p \/ disturbed[q]]

\* Mutant: the mode is set whether or not the definition has it.
SetsModeUnchecked(p) ==
  /\ Now(p, "mode")
  /\ held[p] # NONE
  /\ Puts(p, [held[p] EXCEPT !.mode = Arg(p),
                !.active = IF Arg(p) \in Modes(held[p].definition)
                           THEN Plan[held[p].definition][Arg(p)] ELSE @])
  /\ Done(p)
  /\ UNCHANGED <<db_time, clock, timestamp, seen, commands>>

SetsMode(p) ==
  /\ Now(p, "mode")
  /\ IF held[p] # NONE /\ Arg(p) \in Modes(held[p].definition)
     THEN Puts(p, InMode(held[p].definition, Arg(p))) /\ Done(p)
     ELSE Fails(p) /\ UNCHANGED <<held, saved, disturbed>>
  /\ UNCHANGED <<db_time, clock, timestamp, seen, commands>>

SetsName(p) ==
  /\ Now(p, "name")
  /\ IF held[p] # NONE /\ Arg(p)[2] \in Names(held[p].definition, Arg(p)[1])
     THEN Puts(p, [held[p] EXCEPT !.active[Arg(p)[1]] = Arg(p)[2]]) /\ Done(p)
     ELSE Fails(p) /\ UNCHANGED <<held, saved, disturbed>>
  /\ UNCHANGED <<db_time, clock, timestamp, seen, commands>>

AsksDefault(p) ==
  /\ Now(p, "default")
  /\ IF held[p] # NONE
     THEN script' = [script EXCEPT ![p] = ModeSteps(Default[held[p].definition]) \o Tail(@)]
     ELSE Done(p)
  /\ UNCHANGED <<saved, db_time, clock, held, timestamp, seen, disturbed, commands>>

\* load_configuration, in memory.
Assigns(p) ==
  /\ Now(p, "assign")
  /\ Holds(p, Bare(Arg(p)))
  /\ Done(p)
  /\ UNCHANGED <<saved, db_time, clock, timestamp, seen, disturbed, commands>>

\* The second save of load_configuration.
Saves(p) ==
  /\ Now(p, "save")
  /\ Puts(p, held[p])
  /\ Done(p)
  /\ UNCHANGED <<db_time, clock, timestamp, seen, commands>>

\* delete_configuration.
Clears(p) ==
  /\ Now(p, "clear")
  /\ Puts(p, NONE)
  /\ Done(p)
  /\ UNCHANGED <<db_time, clock, timestamp, seen, commands>>

\* The second statement of _sql_cmd; the time is taken just before it.
StampsUpdate(p) ==
  /\ Now(p, "stamp")
  /\ clock' = clock + 1
  /\ db_time' = clock + 1
  /\ Done(p)
  /\ UNCHANGED <<saved, held, timestamp, seen, disturbed, commands>>

GoesOn(p) ==
  \/ Looks(p) \/ Fetches(p) \/ SetsMode(p) \/ AsksDefault(p) \/ SetsName(p)
  \/ Assigns(p) \/ Clears(p) \/ Saves(p) \/ StampsUpdate(p)

SQLiteNext ==
  \/ \E p \in Setter : Enters(p)
  \/ \E p \in Reader : Polls(p)
  \/ \E p \in Process : GoesOn(p)

SQLiteSpec == SQLiteInit /\ [][SQLiteNext]_sqliteVars

-----------------------------------------------------------------------------
(***************************************************************************)
(* Properties.                                                             *)
(***************************************************************************)
\* A process that would not load again holds what the database holds, unless
\* a save has yet to update the time, or the definition has been deleted.
HeldIsSaved ==
  \A p \in Process :
    script[p] = <<>> /\ ~OutOfDate(p) /\ saved # NONE /\ (\A q \in Process : ~Saving(q))
      => held[p] = saved

\* The configuration in the database is one definition's from end to end,
\* though each process saves a copy that others may have replaced meanwhile.
SavedIsWhole == saved # NONE => Whole(saved)

\* What is saved is whole, and a copy that its process would not read again
\* is what is saved.
SQLiteSafe == SQLiteTypeOK /\ SavedIsWhole /\ HeldIsSaved

\* A command that sets one logger's configuration changes nothing else in
\* the database, unless another process's save overlapped with the command
\* or the definition had been deleted.
SetsOneLogger(p) ==
  SetsName(p) /\ script'[p] = Tail(script[p]) /\ ~disturbed[p] /\ saved # NONE
    => saved' = [saved EXCEPT !.active[Arg(p)[1]] = Arg(p)[2]]

ChangesOneLogger == [][\A p \in Setter : SetsOneLogger(p)]_sqliteVars

\* A reader holds what the database holds, if there still is a definition.
CopyCaughtUp(p) == saved = NONE \/ held[p] = saved
=============================================================================
