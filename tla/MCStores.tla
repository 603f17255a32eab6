------------------------------ MODULE MCStores ------------------------------
(***************************************************************************)
(* Instances of DjangoServerAPI and SQLiteServerAPI for TLC: the databases *)
(* several processes share.  A system has one of them; one run checks      *)
(* both, and in each behaviour one is in use.                              *)
(***************************************************************************)
EXTENDS DjangoServerAPI

CONSTANTS
  lmcmd, web, manager, gyr, met,
  Definition, Plan, Default, Command, CommandBound  \* of SQLiteServerAPI

VARIABLES
  part,  \* the one in use: "django" or "sqlite"
  s_saved, s_db_time, s_clock, s_held, s_timestamp, s_seen, s_script, s_disturbed, s_commands

S == INSTANCE SQLiteServerAPI WITH
  saved <- s_saved, db_time <- s_db_time, clock <- s_clock, held <- s_held,
  timestamp <- s_timestamp, seen <- s_seen, script <- s_script, disturbed <- s_disturbed, commands <- s_commands

svars == <<s_saved, s_db_time, s_clock, s_held, s_timestamp, s_seen, s_script, s_disturbed,
           s_commands>>
allvars == <<part, djangoVars, svars>>

ASSUME SQLiteAssumed == S!SQLiteAssumption

DjangoDoes(A) == part = "django" /\ A /\ UNCHANGED <<part, svars>>
SQLiteDoes(A) == part = "sqlite" /\ A /\ UNCHANGED <<part, djangoVars>>

\* With Django, the other store is as it begins with one definition.
StoresInit ==
  /\ DjangoInit /\ S!SQLiteInit
  /\ \/ part = "sqlite"
     \/ part = "django" /\ s_saved.definition = "old" /\ \A p \in Process : s_held[p] = NONE
StoresNext == DjangoDoes(DjangoNext) \/ SQLiteDoes(S!SQLiteNext)

\* A call that is under way goes on, and the logger manager polls for ever,
\* or until that raises.
\* (The part never changes: a process's fairness is that of the one in use.)
StoresSpec ==
  /\ StoresInit /\ [][StoresNext]_allvars
  /\ \A p \in Setter : WF_allvars(DjangoDoes(GoesOn(p)) \/ SQLiteDoes(S!GoesOn(p)))
  /\ \A p \in Reader :
       WF_allvars(\/ DjangoDoes(Polls(p))
                  \/ SQLiteDoes(S!Polls(p) \/ S!GoesOn(p)))

-----------------------------------------------------------------------------
\* Two definitions: they share a mode, "on", with different names, and each
\* has one of its own.
Plans == [new |-> [on |-> [l \in Logger |-> "new"], dock |-> [l \in Logger |-> "dock"]],
          old |-> [on |-> [l \in Logger |-> "old"]]]
Defaults == [new |-> "dock", old |-> "on"]

Commands ==
  {<<"mode", "on">>, <<"name", <<gyr, "new">> >>, <<"name", <<met, "dock">> >>,
   <<"load", "new">>, <<"delete", NONE>>}

\* In the mode "off", gyr has a configuration of its own and met has none.
Names == {"gyr-on", "gyr-off", "met-on"}
LoggerOfName ==
  [n \in Names |-> IF n = "met-on" THEN met ELSE gyr]
ModesOfLoggers ==
  [on  |-> [l \in Logger |-> IF l = gyr THEN "gyr-on" ELSE "met-on"],
   off |-> [l \in Logger |-> IF l = gyr THEN "gyr-off" ELSE NONE]]
\* A mode, a name of the logger's, and one that is not.
Requests ==
  {[mode |-> "off", logger |-> NONE, name |-> NONE]}
  \cup {[mode |-> NONE, logger |-> gyr, name |-> n] : n \in {"gyr-off", "met-on"}}
Setters == {lmcmd, web}
Readers == {manager}
Loggers == {gyr, met}

-----------------------------------------------------------------------------
\* With SQLite what is saved is whole, and a copy that its process would
\* not read again is what is saved.
SQLiteSafe == S!SQLiteSafe

\* One SQLite command does not undo another's.
ChangesOneLogger == S!ChangesOneLogger

\* When the changes are over the logger manager's copy catches up with the
\* store in use, and stays so.  A reading of the rows that raised before the
\* last change does no harm.
StoresCatchUp ==
  \A p \in Reader :
    <>[](IF part = "django" THEN RowsCaughtUp(p) ELSE S!CopyCaughtUp(p))
=============================================================================
