----------------------------- MODULE WebConsole -----------------------------
(***************************************************************************)
(* django_gui/static/django_gui/index.html.js, with websocket.js and       *)
(* stderr_log_utils.js: the page from which the loggers are watched.       *)
(*                                                                         *)
(* Each message is handled by one event, which nothing interrupts.  A      *)
(* line of stderr is the time of its record.  Of the colours of a button   *)
(* only the one that tells of a missing status is kept; the time, the      *)
(* cruise's name and file and the windows opened by buttons are left out,  *)
(* as is the server's timer, which has the form of the status timer.       *)
(***************************************************************************)
EXTENDS DataFeed

CONSTANTS
  Logger,      \* logger names; the field of a logger's stderr is its name
  Definitions, \* what cruise definitions hold: active configs of loggers, active_mode
  Statuses,    \* what statuses hold: configs of loggers
  Modes        \* the modes

\* A button shows a logger's configuration.
Configs == UNION ({Range(d.active) : d \in Definitions} \cup {Range(s) : s \in Statuses})
Buttons == [config : Configs, flagged : BOOLEAN]

ASSUME ConsoleAssumption ==
  /\ Field = Logger \cup {"definition", "mode", "status", "file_update", "manager"}
  /\ Logger \cap {"definition", "mode", "status", "file_update", "manager"} = {}
  /\ \A d \in Definitions : DOMAIN d.active \subseteq Logger /\ d.active_mode \in Modes \cup {NONE}
  /\ \A s \in Statuses : DOMAIN s \subseteq Logger
  /\ ClockBound \in Nat /\ LossBound \in Nat
  /\ NONE \notin Nat /\ NONE \notin Buttons

VARIABLES
  button,      \* each logger's button, or NONE; global_loggers has those with one
  window,      \* the lines in each logger's stderr window
  manager,     \* the lines in the logger manager's
  mode_shown,  \* global_active_mode, and the mode button
  last_cruise, \* global_last_cruise_timestamp
  last_mode,   \* global_last_cruise_mode_timestamp
  last_status, \* global_last_logger_status_timestamp
  timer,       \* is status_timeout_timer set?
  offered,     \* is a reload of the definition offered?
  resubs       \* history: subscriptions sent on this connection but the first

pageVars == <<button, window, manager, mode_shown, last_cruise, last_mode, last_status,
              timer, offered, resubs>>
vars == <<feedVars, pageVars>>

Loggers == {l \in Logger : button[l] # NONE}

TypeOK ==
  /\ FeedTypeOK
  /\ button \in [Logger -> Buttons \cup {NONE}]
  /\ \A l \in Logger \ Loggers : window[l] = <<>>
  /\ \A l \in Logger : window[l] \in Seq(1..ClockBound)
  /\ manager \in Seq(1..ClockBound)
  /\ mode_shown \in Modes \cup {NONE}
  /\ {last_cruise, last_mode, last_status} \subseteq 0..clock
  /\ timer \in BOOLEAN /\ offered \in BOOLEAN
  /\ resubs \in Nat

Init ==
  /\ FeedInit
  /\ button = [l \in Logger |-> NONE]
  /\ window = [l \in Logger |-> <<>>]
  /\ manager = <<>>
  /\ mode_shown = NONE
  /\ last_cruise = 0 /\ last_mode = 0 /\ last_status = 0
  /\ timer = TRUE
  /\ offered = FALSE
  /\ resubs = 0

-----------------------------------------------------------------------------
(***************************************************************************)
(* The subscriptions.                                                      *)
(***************************************************************************)
Seconds(n, records) == [seconds |-> n, back_records |-> records]

Initial ==
  [f \in {"definition", "mode", "status", "file_update", "manager"} |->
     CASE f = "file_update" -> Seconds(0, 0)
       [] f = "manager"     -> Seconds(3600, 0)
       [] OTHER             -> Seconds(-1, 0)]

\* Mutant: only the new windows are subscribed to.
WindowsOnly(loggers) == [f \in {"manager"} \cup loggers |-> Seconds(3600, 100)]

\* Mutant: the new windows start with the lines that are still to come.
FromNowOn(loggers) ==
  [f \in {"definition", "mode", "status", "file_update", "manager"} \cup loggers |->
     IF f \in {"definition", "mode", "status"} THEN Seconds(-1, 0) ELSE Seconds(0, 0)]

NewFields(loggers) ==
  [f \in {"definition", "mode", "status", "file_update", "manager"} \cup loggers |->
     CASE f \in {"definition", "mode", "status"} -> Seconds(-1, 0)
       [] f = "file_update"                      -> Seconds(0, 0)
       [] f \in {"manager"} \cup loggers         -> Seconds(3600, 100)]

-----------------------------------------------------------------------------
(***************************************************************************)
(* process_data_message.                                                   *)
(***************************************************************************)
Val(data, f) == Last(data[f]).val

\* A definition without an active mode is ignored.
Defines(data) ==
  Newer(data, "definition", last_cruise) /\ Val(data, "definition").active_mode # NONE

\* Mutant: the list is built up again by every definition.
DefinesAtAll(data) == Defines(data)

\* The list of loggers has changed, and is built up again.
Rebuilds(data) ==
  Defines(data) /\ DOMAIN Val(data, "definition").active # Loggers

Defined(data) ==
  IF ~Defines(data) THEN button
  ELSE LET active == Val(data, "definition").active IN
       [l \in Logger |->
          IF l \notin DOMAIN active THEN NONE
          ELSE [config  |-> active[l],
                flagged |-> ~Rebuilds(data) /\ button[l].flagged]]

\* update_logger_status, of the loggers that have a button
Updated(data) ==
  IF ~Newer(data, "status", last_status) THEN Defined(data)
  ELSE LET status == Val(data, "status") IN
       [l \in Logger |->
          IF l \in DOMAIN status /\ Defined(data)[l] # NONE
          THEN [config |-> status[l], flagged |-> FALSE]
          ELSE Defined(data)[l]]

\* process_stderr_message
Lines(data, f) ==
  IF f \notin DOMAIN data THEN <<>> ELSE [i \in DOMAIN data[f] |-> data[f][i].ts]

\* Loggers' lines come before a definition in a message, and go with the
\* windows they were added to.
WindowsWith(data) ==
  [l \in Logger |-> IF Rebuilds(data) \/ l \notin Loggers THEN <<>>
                    ELSE window[l] \o Lines(data, l)]

Advanced(data, f, ts) == IF Newer(data, f, ts) THEN Newest(data[f]) ELSE ts

ModeAfter(data) ==
  CASE Newer(data, "mode", last_mode)                     -> Val(data, "mode")
    [] ~Newer(data, "mode", last_mode) /\ Defines(data)   -> Val(data, "definition").active_mode
    [] OTHER                                              -> mode_shown

ProcessDataMessage(data) ==
  /\ button' = Updated(data)
  /\ window' = WindowsWith(data)
  /\ manager' = manager \o Lines(data, "manager")
  /\ mode_shown' = ModeAfter(data)
  /\ last_cruise' = Advanced(data, "definition", last_cruise)
  /\ last_mode' = Advanced(data, "mode", last_mode)
  /\ last_status' = Advanced(data, "status", last_status)
  /\ timer' = (timer \/ Newer(data, "status", last_status))
  /\ offered' = (offered \/ "file_update" \in DOMAIN data)

-----------------------------------------------------------------------------
(***************************************************************************)
(* The page's events.                                                      *)
(***************************************************************************)
Connects ==
  /\ Opens(Initial)
  /\ resubs' = 0
  /\ UNCHANGED <<button, window, manager, mode_shown, last_cruise, last_mode, last_status,
                 timer, offered>>

Answers(data) ==
  IF Rebuilds(data) THEN <<Subscribe(NewFields(DOMAIN Val(data, "definition").active)), Ready>>
  ELSE <<Ready>>

\* Mutant: a message without news is not answered.
OnMessageWithNews ==
  /\ replies # <<>>
  /\ LET data == Head(replies).data IN
       /\ ProcessDataMessage(data)
       /\ Takes(IF data = Nothing /\ Head(replies).type = "data" THEN <<>> ELSE Answers(data))
       /\ resubs' = IF Rebuilds(data) THEN resubs + 1 ELSE resubs

OnMessage ==
  /\ replies # <<>>
  /\ LET data == Head(replies).data IN
       /\ ProcessDataMessage(data)
       /\ Takes(Answers(data))
       /\ resubs' = IF Rebuilds(data) THEN resubs + 1 ELSE resubs

Flagged == [l \in Logger |-> IF button[l] = NONE THEN NONE ELSE [button[l] EXCEPT !.flagged = TRUE]]

\* Mutant: the timer goes off once.
StatusTimeoutOnce ==
  /\ timer
  /\ timer' = FALSE
  /\ button' = Flagged
  /\ UNCHANGED <<feedVars, window, manager, mode_shown, last_cruise, last_mode, last_status,
                 offered, resubs>>

\* flag_status_timeout, of a timer that is set again at each status, and
\* otherwise goes off at intervals
StatusTimeout ==
  /\ timer
  /\ button' = Flagged
  /\ UNCHANGED <<feedVars, window, manager, mode_shown, last_cruise, last_mode, last_status,
                 timer, offered, resubs>>

-----------------------------------------------------------------------------
(***************************************************************************)
(* What the logger manager and the loggers publish.                        *)
(***************************************************************************)
PublishesSomething ==
  /\ \/ \E d \in Definitions : Publishes([f \in {"definition"} |-> d])
     \/ \E m \in Modes : Publishes([f \in {"mode"} |-> m])
     \/ \E s \in Statuses : Publishes([f \in {"status"} |-> s])
     \/ \E l \in Logger \cup {"manager", "file_update"} : Publishes([f \in {l} |-> l])
  /\ UNCHANGED pageVars

Serves == Serving /\ UNCHANGED pageVars

Breaks == Loses /\ UNCHANGED pageVars

Next == Connects \/ OnMessage \/ StatusTimeout \/ PublishesSomething \/ Serves \/ Breaks

Spec == Init /\ [][Next]_vars

\* The server answers, and the page's events are handled; nothing need be
\* published.
FairSpec ==
  /\ Spec
  /\ WF_vars(Connects) /\ WF_vars(OnMessage) /\ WF_vars(StatusTimeout) /\ WF_vars(Serves)

-----------------------------------------------------------------------------
(***************************************************************************)
(* Properties.                                                             *)
(***************************************************************************)

\* The page never stops asking for data: each message gets one `ready`, and
\* each further subscription adds an answer that gets one of its own.
KeepsAsking == link = "open" => Len(requests) + Len(replies) = 1 + resubs

\* As long as the connection lasts and the loggers stay the same, each line
\* is shown once and in its place.
SameLoggers ==
  \A i, j \in DOMAIN cache["definition"] :
    DOMAIN cache["definition"][i].val.active = DOMAIN cache["definition"][j].val.active

LinesInOrderOnce ==
  losses = 0 /\ SameLoggers =>
    \A l \in Logger : \A i, j \in DOMAIN window[l] : i < j => window[l][i] < window[l][j]

\* In the end the page has seen the latest definition, mode and status, and
\* shows the mode and the configurations of those that came after the
\* latest definition.
Latest(f) == IF cache[f] = <<>> THEN 0 ELSE Newest(cache[f])

ShowsLatest ==
  /\ last_cruise >= Latest("definition") /\ last_mode >= Latest("mode")
  /\ last_status >= Latest("status")
  /\ Latest("mode") > last_cruise => mode_shown = Last(cache["mode"]).val
  /\ Latest("status") > last_cruise =>
       LET status == Last(cache["status"]).val IN
       \A l \in DOMAIN status \cap Loggers : button[l].config = status[l]

CatchesUp == <>[]ShowsLatest

\* On a connection that lasts, all lines of the loggers shown get into
\* their windows in the end.
LinesShown ==
  <>[](losses = 0 =>
         \A l \in Loggers : {cache[l][i].ts : i \in DOMAIN cache[l]} = ToSet(window[l]))

\* When no more statuses come, every button ends up flagged, those of
\* loggers that are listed later too.
SilenceIsFlagged == <>[](\A l \in Loggers : button[l].flagged)
=============================================================================
