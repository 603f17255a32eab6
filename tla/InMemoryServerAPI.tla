-------------------------- MODULE InMemoryServerAPI --------------------------
(***************************************************************************)
(* server/in_memory_server_api.py: the store of the cruise definition and  *)
(* of each logger's current configuration name.  It has no lock: the       *)
(* console thread writes its attributes one after another while the logger *)
(* manager's threads read them, so every write and every read of an        *)
(* attribute is a step.  The writes and reads are defined here, the        *)
(* threads that perform them in LoggerManager.                             *)
(*                                                                         *)
(* A cruise definition is a record: its loggers, the configuration each    *)
(* configuration name stands for (NONE if undefined), its modes (each maps *)
(* loggers to configuration names), the names each logger may be given by  *)
(* hand, its default mode, NONE if it defines none, and whether it is      *)
(* sound: no configuration is empty and the default mode is one of its.    *)
(***************************************************************************)
CONSTANTS Logger, ConfigName, Cruise, BareConfig, NONE
  \* BareConfig: the empty dictionary, a configuration that runs nothing

VARIABLES
  cruise,        \* self.config, NONE while it is empty
  stamped,       \* does self.config have its 'loaded_time' yet?
  logger_config  \* self.logger_config: logger to configuration name

apiVars == <<cruise, stamped, logger_config>>

NoNames == [l \in Logger |-> NONE]

APITypeOK ==
  /\ cruise \in Cruise \cup {NONE}
  /\ stamped \in BOOLEAN
  /\ logger_config \in [Logger -> ConfigName \cup {NONE}]

APIInit ==
  /\ cruise = NONE
  /\ stamped = FALSE
  /\ logger_config = NoNames

-----------------------------------------------------------------------------
(***************************************************************************)
(* The writes, in the order load_configuration, set_active_mode and        *)
(* delete_configuration make them.                                         *)
(***************************************************************************)
AssignCruise(c) ==
  /\ cruise' = c
  /\ stamped' = FALSE
  /\ UNCHANGED logger_config

StampCruise ==
  /\ stamped' = TRUE
  /\ UNCHANGED <<cruise, logger_config>>

\* set_active_mode, up to its signal: the names of the mode replace all others.
AssignMode(m) ==
  /\ logger_config' = [l \in Logger |-> cruise.modes[m][l]]
  /\ UNCHANGED <<cruise, stamped>>

\* Mutant: the configuration itself is stored, not its name.
AssignConfig(l, n) ==
  /\ logger_config' = [logger_config EXCEPT ![l] = cruise.configs[n]]
  /\ UNCHANGED <<cruise, stamped>>

AssignName(l, n) ==
  /\ logger_config' = [logger_config EXCEPT ![l] = n]
  /\ UNCHANGED <<cruise, stamped>>

ClearCruise ==
  /\ cruise' = NONE
  /\ stamped' = FALSE
  /\ UNCHANGED logger_config

ClearNames ==
  /\ logger_config' = NoNames
  /\ UNCHANGED <<cruise, stamped>>

-----------------------------------------------------------------------------
(***************************************************************************)
(* The reads.  A definition that was deleted between two of them makes     *)
(* get_logger_config_name raise and get_logger_config return {}.           *)
(***************************************************************************)

\* get_loggers raises unless every logger of the definition has a name.
LoggersReadable ==
  cruise # NONE => \A l \in cruise.loggers : logger_config[l] # NONE

\* get_logger_config_name(l).
NameReadable(l) == cruise # NONE /\ logger_config[l] # NONE

\* get_logger_config(n).
ConfigReadable(n) == cruise # NONE => cruise.configs[n] # NONE
ConfigRead(n)     == IF cruise = NONE THEN BareConfig ELSE cruise.configs[n]

\* What get_logger_configs returns when nothing changes while it reads.
Desired ==
  [l \in Logger |->
     IF cruise # NONE /\ l \in cruise.loggers /\ logger_config[l] # NONE
     THEN ConfigRead(logger_config[l])
     ELSE NONE]
=============================================================================
