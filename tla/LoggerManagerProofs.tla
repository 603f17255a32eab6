------------------------ MODULE LoggerManagerProofs ------------------------
(***************************************************************************)
(* The logger manager over the supervisor, for every set of loggers and of *)
(* cruise definitions: once the console's update signal has returned, what *)
(* runs is what the API asks for; and the supervisor's theorems hold under *)
(* the manager.                                                            *)
(***************************************************************************)
EXTENDS LoggerManager, LoggerSupervisorProofs

Ops == {"assign", "stamp", "mode", "name", "signal", "announce",
        "uncruise", "unname", "reload", "flag", "quit"}

ModeName == UNION {DOMAIN c.modes : c \in Cruise}

\* The steps a command may consist of.
StepSet ==
  {Step("assign", c) : c \in Cruise} \cup {Step("mode", m) : m \in ModeName}
  \cup {Step("name", p) : p \in Logger \X ConfigName}
  \cup {Step(op, NONE) : op \in Ops \ {"assign", "mode", "name"}}

\* The definition that is loaded once the command's first step is made.
Coming == IF Now("assign") THEN Arg ELSE cruise

\* A definition is stored or deleted by the first step of a command only; a
\* mode that is set is one of the definition loaded by then; and what quits
\* the supervisor has raised the manager's flag just before.
ScriptInv ==
  /\ script \in Seq(StepSet)
  /\ \A i \in 2..Len(script) : script[i].op \notin {"assign", "uncruise"}
  /\ \A i \in 1..Len(script) : script[i].op = "mode" =>
       ~Now("uncruise") /\ Coming \in Cruise /\ script[i].arg \in DOMAIN Coming.modes
  /\ \A i \in 1..Len(script) : script[i].op = "quit" =>
       IF i = 1 THEN ~synced ELSE script[i - 1].op = "flag"

\* Who holds which lock, and what is done with it.
LocksInv ==
  /\ config_lock = "free" <=> phase = "free"
  /\ config_lock = "console" => Now("signal") \/ Now("announce")
  /\ phase \in {"names", "config", "applying"} => Updating
  /\ phase = "send" => ~Updating
  /\ lock = "update" <=> phase = "applying"
  /\ lock = "quit" => Now("quit")
  /\ lock \in {"free", "update", "quit"} /\ monitor = "absent"

\* How far the holder of config_lock has come.
ReadInv ==
  /\ phase \in {"free", "loggers", "listing"} => fetched = EmptyMap
  /\ phase \in {"listing", "names", "config"} => listed \in Cruise /\ reading \subseteq listed.loggers
  /\ phase = "config" => found \in reading \X ConfigName
  /\ phase \in {"names", "config"} =>
       \A l \in Logger : fetched[l] # NONE <=> l \in listed.loggers \ reading

\* While the console's signal is handled nobody writes the API, nor between
\* it and the console's next write: what is read then is what is there.
Fresh == synced \/ (config_lock = "console" /\ Now("signal"))

FreshInv ==
  Fresh =>
    /\ phase \in {"listing", "names", "config"} => cruise = listed
    /\ phase \in {"names", "config"} =>
         \A l \in listed.loggers \ reading : fetched[l] = API!Desired[l]
    /\ phase = "config" => found[2] = logger_config[found[1]]
    /\ phase = "applying" => target = API!Desired

\* Until then no update changes anything any more.
SyncInv == synced => config_map = API!Desired /\ (lock = "update" => todo = {})


\* All of it but what the supervisor keeps by itself.
OwnInv == ManagerTypeOK /\ ScriptInv /\ LocksInv /\ ReadInv /\ FreshInv /\ SyncInv

ManagerInv == IndInv /\ OwnInv

USE ManagerAssumption, CruiseAssumption

-----------------------------------------------------------------------------
(***************************************************************************)
(* The console's script.                                                   *)
(***************************************************************************)
LEMMA StepTypes ==
  ASSUME NEW s \in StepSet
  PROVE  /\ s.op \in Ops
         /\ s.op = "assign" => s.arg \in Cruise
         /\ s.op = "name" => s.arg \in Logger \X ConfigName
BY DEF StepSet, Step, Ops

LEMMA HeadOfScript ==
  ASSUME ScriptInv, script # <<>>
  PROVE  /\ Head(script) = script[1] /\ Head(script) \in StepSet
         /\ 1 \in 1..Len(script) /\ Len(script) \in Nat \ {0}
         /\ Tail(script) \in Seq(StepSet) /\ Len(Tail(script)) = Len(script) - 1
         /\ \A i \in 1..Len(Tail(script)) :
              /\ Tail(script)[i] = script[i + 1]
              /\ i + 1 \in 2..Len(script) /\ i + 1 \in 1..Len(script)
BY DEF ScriptInv

\* A step of the command is made: the definition that is coming has come,
\* and a quit that is next was preceded by the flag.
LEMMA TailScript ==
  ASSUME ScriptInv, script # <<>>, script' = Tail(script),
         \/ cruise' = cruise /\ ~Now("assign")
         \/ cruise' = Arg /\ Now("assign")
         \/ Now("uncruise"),
         ~synced' \/ ~Now("flag")
  PROVE  ScriptInv'
<1>1. script' \in Seq(StepSet) /\ Len(script') = Len(script) - 1
  BY HeadOfScript
<1>2. \A i \in 1..Len(script') : /\ script'[i] = script[i + 1]
                                 /\ i + 1 \in 2..Len(script) /\ i + 1 \in 1..Len(script)
  BY HeadOfScript
<1>3. \A i \in 1..Len(script') : script'[i].op \notin {"assign", "uncruise"}
  BY <1>2 DEF ScriptInv
<1>4. script' # <<>> => Head(script') = script'[1] /\ 1 \in 1..Len(script')
  BY <1>1
<1>5. ~Now("assign")' /\ ~Now("uncruise")'
  BY <1>3, <1>4 DEF Now
<1>6. ASSUME NEW i \in 1..Len(script'), script'[i].op = "mode"
      PROVE  Coming' \in Cruise /\ script'[i].arg \in DOMAIN Coming'.modes
  <2>1. /\ ~Now("uncruise") /\ Coming \in Cruise
        /\ script'[i].arg \in DOMAIN Coming.modes
    BY <1>2, <1>6 DEF ScriptInv
  <2>2. Coming' = Coming
    BY <1>5, <2>1 DEF Coming
  <2> QED
    BY <2>1, <2>2
<1>7. ASSUME NEW i \in 1..Len(script'), script'[i].op = "quit"
      PROVE  IF i = 1 THEN ~synced' ELSE script'[i - 1].op = "flag"
  <2>1. script[i].op = "flag"
    BY <1>2, <1>7 DEF ScriptInv
  <2>2. CASE i = 1
    BY <2>1, <2>2, HeadOfScript DEF Now
  <2>3. CASE i # 1
    <3>1. i - 1 \in 1..Len(script')
      BY <2>3, <1>1
    <3> QED
      BY <2>1, <2>3, <3>1, <1>2
  <2> QED
    BY <2>2, <2>3
<1>8. \A i \in 2..Len(script') : script'[i].op \notin {"assign", "uncruise"}
  BY <1>1, <1>3
<1>9. \A i \in 1..Len(script') : script'[i].op = "mode" =>
        ~Now("uncruise")' /\ Coming' \in Cruise /\ script'[i].arg \in DOMAIN Coming'.modes
  BY <1>5, <1>6
<1> QED
  BY <1>1, <1>7, <1>8, <1>9, Zenon DEF ScriptInv

LEMMA SameScript ==
  ASSUME ScriptInv, script' = script, cruise' = cruise, synced' => synced
  PROVE  ScriptInv'
BY DEF ScriptInv, Now, Arg, Coming

LEMMA NoScript ==
  ASSUME script' = <<>>
  PROVE  ScriptInv'
BY DEF ScriptInv

\* Each step of these is one of StepSet.
LEMMA PlainSteps ==
  /\ \A op \in Ops \ {"assign", "mode", "name"} : Step(op, NONE) \in StepSet
  /\ \A c \in Cruise : Step("assign", c) \in StepSet
  /\ \A c \in Cruise : \A m \in DOMAIN c.modes : Step("mode", m) \in StepSet
  /\ \A l \in Logger, n \in ConfigName : Step("name", <<l, n>>) \in StepSet
<1>1. \A c \in Cruise : \A m \in DOMAIN c.modes : m \in ModeName
  BY DEF ModeName
<1> QED
  BY <1>1 DEF StepSet

LEMMA StepFields == \A op, arg : Step(op, arg).op = op /\ Step(op, arg).arg = arg
BY DEF Step

LEMMA EndScript ==
  ASSUME script' = EndSteps
  PROVE  ScriptInv'
<1>1. Step("flag", NONE) \in StepSet /\ Step("quit", NONE) \in StepSet
  BY PlainSteps DEF Ops
<1>2. /\ script' \in Seq(StepSet) /\ Len(script') = 2
      /\ script'[1] = Step("flag", NONE) /\ script'[2] = Step("quit", NONE)
  BY <1>1 DEF EndSteps
<1> QED
  BY <1>2, StepFields DEF ScriptInv, Now

LEMMA QuitScript ==
  ASSUME script' = QuitSteps
  PROVE  ScriptInv'
<1>1. Step("flag", NONE) \in StepSet /\ Step("quit", NONE) \in StepSet
  BY PlainSteps DEF Ops
<1>2. /\ script' \in Seq(StepSet) /\ Len(script') = 4
      /\ script'[1] = Step("flag", NONE) /\ script'[2] = Step("quit", NONE)
      /\ script'[3] = Step("flag", NONE) /\ script'[4] = Step("quit", NONE)
  BY <1>1 DEF EndSteps, QuitSteps
<1> QED
  BY <1>2, StepFields DEF ScriptInv, Now

\* A script that neither stores nor deletes a definition, nor quits.
LEMMA QuietScript ==
  ASSUME script' \in Seq(StepSet),
         \A i \in 1..Len(script') :
           /\ script'[i].op \notin {"assign", "uncruise", "quit"}
           /\ script'[i].op = "mode" =>
                cruise' \in Cruise /\ script'[i].arg \in DOMAIN cruise'.modes
  PROVE  ScriptInv'
<1>1. script' # <<>> => Head(script') = script'[1] /\ 1 \in 1..Len(script')
  OBVIOUS
<1>2. ~Now("assign")' /\ ~Now("uncruise")'
  BY <1>1 DEF Now
<1> QED
  BY <1>2 DEF ScriptInv, Coming

LEMMA SetModeScript ==
  ASSUME cruise' \in Cruise, NEW m \in DOMAIN cruise'.modes, script' = SetModeSteps(m)
  PROVE  ScriptInv'
<1>1. Step("mode", m) \in StepSet /\ Step("signal", NONE) \in StepSet
  BY PlainSteps DEF Ops
<1>2. CASE m = NONE
  BY <1>2, NoScript DEF SetModeSteps
<1>3. CASE m # NONE
  <2>1. /\ script' \in Seq(StepSet) /\ Len(script') = 2
        /\ script'[1] = Step("mode", m) /\ script'[2] = Step("signal", NONE)
    BY <1>1, <1>3 DEF SetModeSteps
  <2> QED
    BY <2>1, StepFields, QuietScript
<1> QED
  BY <1>2, <1>3

LEMMA SetNameScript ==
  ASSUME cruise \in Cruise, script' \in SetNameSteps
  PROVE  ScriptInv'
<1> DEFINE Names(l) == {<<Step("name", <<l, n>>), Step("signal", NONE)>> : n \in cruise.choices[l]}
<1>0. SetNameSteps = UNION {Names(l) : l \in cruise.loggers}
  BY DEF SetNameSteps
<1> HIDE DEF Names
<1>1. PICK l \in cruise.loggers : script' \in Names(l)
  BY <1>0
<1>2. PICK n \in cruise.choices[l] : script' = <<Step("name", <<l, n>>), Step("signal", NONE)>>
  BY <1>1 DEF Names
<1>3. l \in Logger /\ n \in ConfigName
  OBVIOUS
<1>4. Step("name", <<l, n>>) \in StepSet /\ Step("signal", NONE) \in StepSet
  BY <1>3, PlainSteps DEF Ops
<1>5. /\ script' \in Seq(StepSet) /\ Len(script') = 2
      /\ script'[1] = Step("name", <<l, n>>) /\ script'[2] = Step("signal", NONE)
  BY <1>2, <1>4
<1> QED
  BY <1>5, StepFields, QuietScript

LEMMA DeleteScript ==
  ASSUME script' = DeleteSteps
  PROVE  ScriptInv'
<1>1. Step("uncruise", NONE) \in StepSet /\ Step("unname", NONE) \in StepSet
  BY PlainSteps DEF Ops
<1>2. /\ script' \in Seq(StepSet) /\ Len(script') = 2
      /\ script'[1] = Step("uncruise", NONE) /\ script'[2] = Step("unname", NONE)
  BY <1>1 DEF DeleteSteps
<1> QED
  BY <1>2, StepFields DEF ScriptInv, Now

LEMMA ReloadScript ==
  ASSUME script' = <<Step("reload", NONE)>>
  PROVE  ScriptInv'
<1>1. Step("reload", NONE) \in StepSet
  BY PlainSteps DEF Ops
<1>2. script' \in Seq(StepSet) /\ Len(script') = 1 /\ script'[1] = Step("reload", NONE)
  BY <1>1
<1> QED
  BY <1>2, StepFields, QuietScript

LEMMA LoadScript ==
  ASSUME NEW c \in Cruise, script' = LoadSteps(c)
  PROVE  ScriptInv'
<1> DEFINE assign == Step("assign", c)
           stamp == Step("stamp", NONE)
           mode == Step("mode", c.default)
           signal == Step("signal", NONE)
           announce == Step("announce", NONE)
<1>1. /\ assign \in StepSet /\ stamp \in StepSet /\ signal \in StepSet
      /\ announce \in StepSet
  BY PlainSteps DEF Ops
<1>2. CASE ~c.sound
  <2>1. /\ script' \in Seq(StepSet) /\ Len(script') = 2
        /\ script'[1] = assign /\ script'[2] = stamp
    BY <1>1, <1>2 DEF LoadSteps
  <2> QED
    BY <2>1, StepFields DEF ScriptInv, Now
<1>3. CASE c.sound /\ c.default = NONE
  <2>1. /\ script' \in Seq(StepSet) /\ Len(script') = 3
        /\ script'[1] = assign /\ script'[2] = stamp /\ script'[3] = announce
    BY <1>1, <1>3 DEF LoadSteps, SetModeSteps
  <2> QED
    BY <2>1, StepFields DEF ScriptInv, Now
<1>4. CASE c.sound /\ c.default # NONE
  <2>1. c.default \in DOMAIN c.modes
    BY <1>4
  <2>2. mode \in StepSet
    BY <2>1, PlainSteps
  <2>3. script' = <<assign, stamp>> \o (<<mode, signal>> \o <<announce>> \o <<mode, signal>>)
    BY <1>4 DEF LoadSteps, SetModeSteps
  <2> HIDE DEF assign, stamp, mode, signal, announce
  <2>4. /\ <<assign, stamp>> \in Seq(StepSet) /\ <<mode, signal>> \in Seq(StepSet)
        /\ <<announce>> \in Seq(StepSet)
    BY <1>1, <2>2
  <2>5. ASSUME NEW t, t = <<mode, signal>> \o <<announce>> \o <<mode, signal>>
        PROVE  /\ t \in Seq(StepSet) /\ Len(t) = 5
               /\ t[1] = mode /\ t[2] = signal /\ t[3] = announce /\ t[4] = mode
               /\ t[5] = signal
    BY <2>4, <2>5
  <2>7. /\ script' \in Seq(StepSet) /\ Len(script') = 7
        /\ script'[1] = assign /\ script'[2] = stamp /\ script'[3] = mode
        /\ script'[4] = signal /\ script'[5] = announce /\ script'[6] = mode
        /\ script'[7] = signal
    BY <2>3, <2>4, <2>5
  <2>8. Now("assign")' /\ Arg' = c /\ ~Now("uncruise")'
    <3>1. script' # <<>> /\ Head(script') = script'[1]
      BY SMTT(30), <2>7
    <3>2. assign.op = "assign" /\ assign.arg = c
      BY StepFields DEF assign
    <3> QED
      BY <2>7, <3>1, <3>2 DEF Now, Arg
  <2>9. \A i \in 1..Len(script') :
          script'[i] \in {assign, stamp, mode, signal, announce} /\ (i # 1 => script'[i] # assign)
    BY <2>7, StepFields DEF assign, stamp, mode, signal, announce
  <2> QED
    BY <2>1, <2>7, <2>8, <2>9, StepFields DEF ScriptInv, Coming, assign, stamp, mode, signal,
       announce
<1> QED
  BY <1>2, <1>3, <1>4

LEMMA CommandScript ==
  ASSUME cruise \in Cruise \cup {NONE}, cruise' = cruise, script' \in Commands
  PROVE  ScriptInv'
<1>1. CASE \E c \in Cruise : script' = LoadSteps(c)
  BY <1>1, LoadScript
<1>2. CASE script' \in {DeleteSteps, QuitSteps, <<Step("reload", NONE)>>}
  BY <1>2, DeleteScript, QuitScript, ReloadScript
<1>3. CASE cruise # NONE /\ \E m \in DOMAIN cruise.modes : script' = SetModeSteps(m)
  BY <1>3, SetModeScript
<1>4. CASE cruise # NONE /\ script' \in SetNameSteps
  BY <1>4, SetNameScript
<1> QED
  BY <1>1, <1>2, <1>3, <1>4 DEF Commands

\* When the holder of config_lock returns, the console's command goes on.
LEMMA ReturnedScript ==
  ASSUME ScriptInv, LocksInv, UNCHANGED cruise,
         script' = IF config_lock = "console" THEN Tail(script) ELSE script,
         synced' => synced \/ config_lock = "console"
  PROVE  ScriptInv'
<1>1. CASE config_lock = "console"
  <2>1. script # <<>> /\ ~Now("assign") /\ ~Now("flag")
    BY <1>1 DEF LocksInv, Now
  <2> QED
    BY <1>1, <2>1, TailScript
<1>2. CASE config_lock # "console"
  BY <1>2, SameScript
<1> QED
  BY <1>1, <1>2

LEMMA ScriptTypes ==
  ASSUME NEW s \in Seq(StepSet)
  PROVE  \A i \in DOMAIN s : s[i].op \in Ops
<1> SUFFICES ASSUME NEW i \in DOMAIN s PROVE s[i].op \in Ops
  OBVIOUS
<1>1. s[i] \in StepSet
  OBVIOUS
<1> QED
  BY <1>1, StepTypes

LEMMA SameDesired ==
  ASSUME UNCHANGED apiVars
  PROVE  API!Desired' = API!Desired
BY DEF apiVars, API!Desired, API!ConfigRead

-----------------------------------------------------------------------------
(***************************************************************************)
(* The manager's steps and the supervisor's.                               *)
(***************************************************************************)
\* Every step of the manager is one of the supervisor's, or none.
LEMMA StepOfSupervisor ==
  ASSUME ManagerInv, [ManagerNext]_allVars
  PROVE  [Next]_vars
<1>1. CASE ApplyBegins
  <2>1. fetched \in ConfigMap
    BY DEF ManagerInv, OwnInv, ManagerTypeOK
  <2> QED
    BY <1>1, <2>1 DEF ApplyBegins, Next
<1>2. CASE ApplyStep \/ ApplyEnds \/ ApplyRaises
  BY <1>2 DEF ApplyStep, ApplyEnds, ApplyRaises, Next, UpdateStep
<1>3. CASE ConsoleQuits \/ QuitMethod
  BY <1>3 DEF ConsoleQuits, QuitMethod, SupervisorQuits, SupervisorHasQuit, Next, QuitStep
<1>4. CASE World
  BY <1>4 DEF World, Next
<1>5. CASE UNCHANGED allVars
  BY <1>5 DEF allVars
<1>6. CASE ConsoleCommand \/ ConsoleWrites \/ ConsoleSignals \/ ConsoleAnnounces
           \/ ConsoleReloads \/ ConsoleFlags \/ PollerStep \/ DefinerStep
  BY <1>6 DEF ConsoleCommand, ConsoleWrites, ConsoleSignals, ConsoleAnnounces,
     ConsoleReloads, ConsoleFlags, PollerStep, PollerBegins, PollerEnds, DefinerStep,
     DefinerBegins, DefinerDies, DefinerEnds
<1>7. CASE \/ ListNothing \/ ListBegin \/ FetchConfig \/ ReadRaises \/ ApplyRefused
           \/ SendDefinition \/ SendFails
           \/ \E l \in Logger : ListLogger(l) \/ FetchName(l)
  BY <1>7 DEF ListNothing, ListBegin, FetchConfig, ReadRaises, ApplyRefused,
     SendDefinition, SendFails, ListLogger, FetchName
<1> QED
  BY <1>1, <1>2, <1>3, <1>4, <1>5, <1>6, <1>7 DEF ManagerNext, ConsoleStep, LockedMethod

\* The manager's own state at the start.
LEMMA InitOwn == ManagerInit => OwnInv
<1> SUFFICES ASSUME ManagerInit PROVE OwnInv
  OBVIOUS
<1>1. EmptyMap \in ConfigMap
  BY DEF EmptyMap, ConfigMap
<1>2. ManagerTypeOK
  <2>1. DOMAIN script = {}
    BY DEF ManagerInit
  <2>2. API!APITypeOK
    BY DEF ManagerInit, API!APIInit, API!APITypeOK, API!NoNames
  <2> QED
    BY <1>1, <2>1, <2>2 DEF ManagerInit, ManagerTypeOK
<1>3. ScriptInv
  BY DEF ManagerInit, ScriptInv
<1>4. LocksInv /\ ReadInv /\ FreshInv /\ SyncInv
  BY DEF ManagerInit, Init, LocksInv, ReadInv, FreshInv, Fresh, SyncInv, Updating
<1> QED
  BY <1>2, <1>3, <1>4 DEF OwnInv

\* Steps that change nothing but the threads and the console's script, while
\* the console does not hold config_lock.
LEMMA ScriptStep ==
  ASSUME OwnInv, ScriptInv', config_lock # "console", lock # "quit",
         console' \in {"reading", "ended"}, poller' \in {"looping", "dead", "done"},
         definer' \in {"looping", "dead", "done"}, manager_quit' \in BOOLEAN,
         synced' \in BOOLEAN, synced' => synced,
         UNCHANGED <<vars, apiVars, lockedVars, unseen, announced>>
  PROVE  OwnInv'
<1> USE DEF apiVars, lockedVars, vars, lockVars, runnerVars
<1>1. ManagerTypeOK'
  BY ScriptTypes DEF OwnInv, ManagerTypeOK, API!APITypeOK, ScriptInv, Ops
<1>2. LocksInv'
  BY DEF OwnInv, LocksInv, Updating
<1>3. ReadInv'
  BY DEF OwnInv, ReadInv
<1>4. FreshInv' /\ SyncInv'
  BY SameDesired DEF OwnInv, FreshInv, Fresh, SyncInv
<1> QED
  BY <1>1, <1>2, <1>3, <1>4 DEF OwnInv

LEMMA ConsoleCommandStep ==
  ASSUME OwnInv, ConsoleCommand
  PROVE  OwnInv'
<1>1. config_lock # "console" /\ lock # "quit"
  BY DEF OwnInv, LocksInv, ConsoleCommand, Now
<1>2. ScriptInv'
  BY CommandScript DEF OwnInv, ManagerTypeOK, API!APITypeOK, ConsoleCommand, apiVars
<1> QED
  BY <1>1, <1>2, ScriptStep DEF OwnInv, ManagerTypeOK, ConsoleCommand, threadVars, reportVars

LEMMA ConsoleReloadsStep ==
  ASSUME OwnInv, ConsoleReloads
  PROVE  OwnInv'
<1>1. config_lock # "console" /\ lock # "quit"
  BY DEF OwnInv, LocksInv, ConsoleReloads, Now
<1>2. ScriptInv'
  BY EndScript DEF ConsoleReloads
<1> QED
  BY <1>1, <1>2, ScriptStep DEF OwnInv, ManagerTypeOK, ConsoleReloads, threadVars, reportVars

LEMMA ConsoleFlagsStep ==
  ASSUME OwnInv, ConsoleFlags
  PROVE  OwnInv'
<1>1. config_lock # "console" /\ lock # "quit" /\ script # <<>> /\ ~Now("assign")
  BY DEF OwnInv, LocksInv, ConsoleFlags, Now
<1>2. ScriptInv'
  BY <1>1, TailScript DEF OwnInv, ConsoleFlags, apiVars
<1> QED
  BY <1>1, <1>2, ScriptStep DEF OwnInv, ManagerTypeOK, ConsoleFlags

LEMMA ThreadEndsStep ==
  ASSUME OwnInv, PollerEnds \/ DefinerDies \/ DefinerEnds
  PROVE  OwnInv'
<1> USE DEF apiVars, lockedVars, threadVars, reportVars, vars, lockVars, runnerVars
<1>1. UNCHANGED <<vars, apiVars, script, lockedVars, reportVars>>
  BY DEF PollerEnds, DefinerDies, DefinerEnds
<1>2. ManagerTypeOK'
  BY <1>1 DEF PollerEnds, DefinerDies, DefinerEnds, OwnInv, ManagerTypeOK, API!APITypeOK
<1>3. ScriptInv'
  BY <1>1, SameScript DEF OwnInv
<1>4. LocksInv' /\ ReadInv'
  BY <1>1 DEF OwnInv, LocksInv, ReadInv, Updating, Now
<1>5. FreshInv' /\ SyncInv'
  BY <1>1, SameDesired DEF OwnInv, FreshInv, Fresh, SyncInv, Now
<1> QED
  BY <1>2, <1>3, <1>4, <1>5 DEF OwnInv

\* The API is written while no signal is being handled, and nothing counts
\* as fresh from then on.
LEMMA ConsoleWritesStep ==
  ASSUME OwnInv, ConsoleWrites
  PROVE  OwnInv'
<1> USE DEF lockedVars, threadVars, vars, lockVars, runnerVars
<1>1. /\ script # <<>> /\ script' = Tail(script) /\ ~synced' /\ synced' \in BOOLEAN
      /\ UNCHANGED <<vars, threadVars, lockedVars, announced>>
  BY DEF ConsoleWrites, Now
<1>2. config_lock # "console" /\ lock # "quit"
  BY DEF OwnInv, LocksInv, ConsoleWrites, Now
<1>3. Head(script) = script[1] /\ Head(script) \in StepSet /\ 1 \in 1..Len(script)
  BY <1>1, HeadOfScript DEF OwnInv
<1>4. /\ Now("assign") => Arg \in Cruise
      /\ Now("name") => Arg \in Logger \X ConfigName
  BY <1>3, StepTypes DEF Now, Arg
<1>5. Now("mode") => cruise \in Cruise /\ Arg \in DOMAIN cruise.modes
  BY <1>3 DEF OwnInv, ScriptInv, Now, Arg, Coming
<1>6. API!APITypeOK' /\ unseen' \in BOOLEAN
  <2> USE DEF OwnInv, ManagerTypeOK, API!APITypeOK
  <2>1. CASE Now("assign") /\ API!AssignCruise(Arg) /\ UNCHANGED unseen
    BY <1>4, <2>1 DEF API!AssignCruise
  <2>2. CASE API!StampCruise /\ unseen' = TRUE
    BY <2>2 DEF API!StampCruise
  <2>3. CASE Now("mode") /\ API!AssignMode(Arg) /\ UNCHANGED unseen
    <3>1. cruise.modes[Arg] \in [Logger -> ConfigName \cup {NONE}]
      BY <1>5, <2>3
    <3> QED
      BY <2>3, <3>1 DEF API!AssignMode
  <2>4. CASE Now("name") /\ API!AssignName(Arg[1], Arg[2]) /\ UNCHANGED unseen
    <3>1. Arg[1] \in Logger /\ Arg[2] \in ConfigName
      BY <1>4, <2>4
    <3> QED
      BY <2>4, <3>1 DEF API!AssignName
  <2>5. CASE API!ClearCruise /\ unseen' = FALSE
    BY <2>5 DEF API!ClearCruise
  <2>6. CASE API!ClearNames /\ UNCHANGED unseen
    BY <2>6 DEF API!ClearNames, API!NoNames
  <2> QED
    BY <2>1, <2>2, <2>3, <2>4, <2>5, <2>6 DEF ConsoleWrites
<1>7. ScriptInv'
  <2>1. \/ cruise' = cruise /\ ~Now("assign")
        \/ cruise' = Arg /\ Now("assign")
        \/ Now("uncruise")
    BY DEF ConsoleWrites, API!AssignCruise, API!StampCruise, API!AssignMode,
       API!AssignName, API!ClearCruise, API!ClearNames, Now
  <2> QED
    BY <1>1, <2>1, TailScript DEF OwnInv
<1>8. ManagerTypeOK'
  BY <1>1, <1>6, <1>7, ScriptTypes DEF OwnInv, ManagerTypeOK, ScriptInv, Ops
<1>9. LocksInv' /\ ReadInv'
  BY <1>1, <1>2 DEF OwnInv, LocksInv, ReadInv, Updating
<1>10. FreshInv' /\ SyncInv'
  BY <1>1, <1>2 DEF FreshInv, Fresh, SyncInv
<1> QED
  BY <1>7, <1>8, <1>9, <1>10 DEF OwnInv

-----------------------------------------------------------------------------
(***************************************************************************)
(* Taking and leaving config_lock.                                         *)
(***************************************************************************)
LEMMA TakeStep ==
  ASSUME OwnInv, NEW t \in {"console", "poller", "definer"}, TakeConfigLock(t),
         t = "console" => Now("signal") \/ Now("announce"),
         unseen' \in BOOLEAN,
         UNCHANGED <<vars, apiVars, script, threadVars, announced, synced>>
  PROVE  OwnInv'
<1> USE DEF TakeConfigLock, apiVars, threadVars, vars, lockVars, runnerVars
<1>1. phase = "free" /\ fetched = EmptyMap
  BY DEF OwnInv, LocksInv, ReadInv
<1>2. ManagerTypeOK'
  BY DEF OwnInv, ManagerTypeOK, API!APITypeOK
<1>3. ScriptInv'
  BY SameScript DEF OwnInv
<1>4. LocksInv' /\ ReadInv'
  BY <1>1 DEF OwnInv, LocksInv, ReadInv, Updating, Now
<1>5. FreshInv' /\ SyncInv'
  BY SameDesired DEF OwnInv, FreshInv, SyncInv
<1> QED
  BY <1>2, <1>3, <1>4, <1>5 DEF OwnInv

\* However a method leaves, nothing of what it read is left.
LEMMA LeaveStep ==
  ASSUME OwnInv, LeaveConfigLock, ScriptInv', UNCHANGED <<apiVars, definer, manager_quit>>,
         console' \in {"reading", "ended"}, poller' \in {"looping", "dead", "done"},
         unseen' \in BOOLEAN, announced' \in (Cruise \cup {NONE}) \X (Cruise \cup {NONE}),
         synced' \in BOOLEAN, SyncInv',
         lock' \in {"free", "quit"}, lock' = "quit" => Now("quit")', monitor' = "absent"
  PROVE  OwnInv'
<1> USE DEF LeaveConfigLock, apiVars
<1>1. EmptyMap \in ConfigMap
  BY DEF EmptyMap, ConfigMap
<1>2. ManagerTypeOK'
  BY <1>1, ScriptTypes DEF OwnInv, ManagerTypeOK, API!APITypeOK, ScriptInv, Ops
<1>3. LocksInv' /\ ReadInv' /\ FreshInv'
  BY DEF OwnInv, LocksInv, ReadInv, FreshInv
<1> QED
  BY <1>2, <1>3 DEF OwnInv

\* A method that leaves without having used the supervisor.
LEMMA LeaveQuietly ==
  ASSUME OwnInv, phase # "applying", Returns \/ RaisesOut,
         announced' \in (Cruise \cup {NONE}) \X (Cruise \cup {NONE}),
         UNCHANGED <<vars, apiVars, unseen, synced>>
  PROVE  OwnInv'
<1> USE DEF apiVars, vars, lockVars, runnerVars
<1>1. LeaveConfigLock /\ UNCHANGED <<console, definer, manager_quit>>
  BY DEF Returns, RaisesOut
<1>2. poller' \in {"looping", "dead", "done"}
  BY DEF Returns, RaisesOut, OwnInv, ManagerTypeOK
<1>3. ScriptInv'
  <2>1. CASE Returns
    BY <2>1, ReturnedScript DEF Returns, OwnInv
  <2>2. CASE RaisesOut
    BY <2>2, NoScript, SameScript DEF RaisesOut, OwnInv
  <2> QED
    BY <2>1, <2>2
<1>4. lock' \in {"free", "quit"}
  BY DEF OwnInv, LocksInv
<1>5. lock' = "quit" => Now("quit")'
  <2> SUFFICES ASSUME lock' = "quit" PROVE Now("quit")'
    OBVIOUS
  <2>1. Now("quit") /\ config_lock # "console"
    BY DEF OwnInv, LocksInv, Now
  <2>2. script' = script
    BY <2>1 DEF Returns, RaisesOut
  <2> QED
    BY <2>1, <2>2 DEF Now
<1>6. SyncInv'
  BY SameDesired DEF OwnInv, LocksInv, SyncInv
<1> QED
  BY <1>1, <1>2, <1>3, <1>4, <1>5, <1>6, LeaveStep DEF OwnInv, ManagerTypeOK, LocksInv

LEMMA ConsoleTakesStep ==
  ASSUME OwnInv, ConsoleSignals \/ ConsoleAnnounces
  PROVE  OwnInv'
BY TakeStep DEF ConsoleSignals, ConsoleAnnounces, reportVars, OwnInv, ManagerTypeOK

LEMMA PollerBeginsStep ==
  ASSUME OwnInv, PollerBegins
  PROVE  OwnInv'
BY TakeStep DEF PollerBegins, reportVars, OwnInv, ManagerTypeOK

LEMMA DefinerBeginsStep ==
  ASSUME OwnInv, DefinerBegins
  PROVE  OwnInv'
BY TakeStep DEF DefinerBegins, OwnInv, ManagerTypeOK

LEMMA ReadLeavesStep ==
  ASSUME OwnInv, ListNothing \/ ReadRaises \/ ApplyRefused \/ SendFails
  PROVE  OwnInv'
BY LeaveQuietly DEF ListNothing, ReadRaises, ApplyRefused, SendFails, Raises, reportVars,
   OwnInv, ManagerTypeOK

LEMMA SendDefinitionStep ==
  ASSUME OwnInv, SendDefinition
  PROVE  OwnInv'
<1>1. announced' \in (Cruise \cup {NONE}) \X (Cruise \cup {NONE})
  BY DEF SendDefinition, OwnInv, ManagerTypeOK, API!APITypeOK
<1> QED
  BY <1>1, LeaveQuietly DEF SendDefinition

-----------------------------------------------------------------------------
(***************************************************************************)
(* Reading the API.                                                        *)
(***************************************************************************)
\* What every reading step leaves alone.
LEMMA ReadStep ==
  ASSUME OwnInv, UNCHANGED <<vars, apiVars, script, threadVars, reportVars, config_lock>>,
         phase \in {"loggers", "listing", "names", "config"},
         phase' \in {"listing", "names", "config", "send"},
         phase' \in {"names", "config"} => Updating, phase' = "send" => ~Updating,
         listed' \in Cruise, reading' \subseteq listed'.loggers,
         found' \in (Logger \cup {NONE}) \X (ConfigName \cup {NONE}),
         fetched' \in ConfigMap, ReadInv', FreshInv'
  PROVE  OwnInv'
<1> USE DEF apiVars, threadVars, reportVars, vars, lockVars, runnerVars
<1>1. ManagerTypeOK'
  BY DEF OwnInv, ManagerTypeOK, API!APITypeOK
<1>2. ScriptInv'
  BY SameScript DEF OwnInv
<1>3. LocksInv'
  BY DEF OwnInv, LocksInv, Updating, Now
<1>4. SyncInv'
  BY SameDesired DEF OwnInv, SyncInv
<1> QED
  BY <1>1, <1>2, <1>3, <1>4 DEF OwnInv

LEMMA ListBeginStep ==
  ASSUME OwnInv, ListBegin
  PROVE  OwnInv'
<1> USE DEF ListBegin
<1>1. cruise \in Cruise /\ fetched = EmptyMap /\ listed' = cruise /\ cruise' = cruise
  BY DEF OwnInv, ManagerTypeOK, API!APITypeOK, ReadInv, apiVars
<1>2. ReadInv' /\ FreshInv'
  BY <1>1 DEF ReadInv, FreshInv
<1> QED
  BY <1>1, <1>2, ReadStep DEF OwnInv, ManagerTypeOK

LEMMA ListLoggerStep ==
  ASSUME OwnInv, NEW l \in Logger, ListLogger(l)
  PROVE  OwnInv'
<1> USE DEF ListLogger
<1>1. /\ listed \in Cruise /\ listed' = listed /\ fetched = EmptyMap /\ fetched' = fetched
      /\ reading' \subseteq listed.loggers
      /\ phase' \in {"listing", "names", "send"}
      /\ phase' = "names" => reading' = listed.loggers /\ Updating
      /\ phase' = "send" => ~Updating
    BY DEF OwnInv, ReadInv
<1>2. ReadInv'
  BY <1>1 DEF ReadInv, EmptyMap
<1>3. Fresh' => Fresh
  BY DEF Fresh, Now, reportVars
<1>4. FreshInv'
  BY <1>1, <1>3 DEF FreshInv, OwnInv, apiVars
<1> QED
  BY <1>1, <1>2, <1>4, ReadStep DEF OwnInv, ManagerTypeOK

LEMMA FetchNameStep ==
  ASSUME OwnInv, NEW l \in Logger, FetchName(l)
  PROVE  OwnInv'
<1> USE DEF FetchName
<1>1. /\ listed \in Cruise /\ reading \subseteq listed.loggers /\ Updating
      /\ phase' = "config" /\ UNCHANGED <<listed, reading, fetched, apiVars>>
  BY DEF OwnInv, ReadInv, LocksInv
<1>2. logger_config[l] \in ConfigName /\ found' = <<l, logger_config[l]>>
  BY DEF OwnInv, ManagerTypeOK, API!APITypeOK, API!NameReadable
<1>3. ReadInv'
  BY <1>1, <1>2 DEF OwnInv, ReadInv
<1>4. Fresh' => Fresh
  BY DEF Fresh, Now, reportVars
<1>5. FreshInv'
  BY <1>1, <1>2, <1>4, SameDesired DEF FreshInv, OwnInv, apiVars
<1> QED
  BY <1>1, <1>2, <1>3, <1>5, ReadStep DEF OwnInv, ManagerTypeOK

LEMMA FetchConfigStep ==
  ASSUME OwnInv, FetchConfig
  PROVE  OwnInv'
<1> USE DEF FetchConfig
<1>1. /\ listed \in Cruise /\ reading \subseteq listed.loggers /\ Updating
      /\ found \in reading \X ConfigName
      /\ \A k \in Logger : fetched[k] # NONE <=> k \in listed.loggers \ reading
  BY DEF OwnInv, ReadInv, LocksInv
<1> DEFINE l == found[1]  n == found[2]
<1>2. l \in reading /\ l \in Logger /\ n \in ConfigName
  BY <1>1
<1>3. API!ConfigRead(n) \in Config
  <2>1. CASE cruise = NONE
    BY <2>1, ConfigAssumption DEF API!ConfigRead, Config
  <2>2. CASE cruise \in Cruise
    <3>1. cruise.configs[n] \in Config /\ cruise # NONE
      BY <1>2, <2>2 DEF API!ConfigReadable
    <3> QED
      BY <3>1 DEF API!ConfigRead
  <2> QED
    BY <2>1, <2>2 DEF OwnInv, ManagerTypeOK, API!APITypeOK
<1>4. fetched \in ConfigMap /\ fetched' = [fetched EXCEPT ![l] = API!ConfigRead(n)]
  BY DEF OwnInv, ManagerTypeOK
<1>5. /\ fetched' \in ConfigMap /\ reading' = reading \ {l} /\ found' = <<NONE, NONE>>
      /\ phase' = "names" /\ listed' = listed
  BY <1>2, <1>3, <1>4 DEF ConfigMap
<1>6. \A k \in Logger : fetched'[k] = IF k = l THEN API!ConfigRead(n) ELSE fetched[k]
  BY <1>2, <1>4 DEF ConfigMap
<1>7. API!ConfigRead(n) # NONE
  BY <1>3, NoneIsMissing
<1>8. ReadInv'
  BY <1>1, <1>2, <1>5, <1>6, <1>7 DEF ReadInv
<1>9. ASSUME Fresh'
      PROVE  /\ cruise = listed
             /\ \A k \in listed.loggers \ reading' : fetched'[k] = API!Desired[k]
  <2>1. /\ cruise = listed /\ n = logger_config[l]
        /\ \A k \in listed.loggers \ reading : fetched[k] = API!Desired[k]
    BY <1>9 DEF Fresh, Now, reportVars, OwnInv, FreshInv
  <2>2. API!Desired[l] = API!ConfigRead(n)
    <3>1. cruise # NONE /\ l \in cruise.loggers /\ logger_config[l] # NONE
      BY <1>1, <1>2, <2>1
    <3> QED
      BY <1>2, <2>1, <3>1 DEF API!Desired
  <2> QED
    BY <1>2, <1>5, <1>6, <2>1, <2>2
<1> HIDE DEF l, n
<1>10. FreshInv'
  BY <1>5, <1>9, SameDesired DEF FreshInv, apiVars
<1> QED
  BY <1>1, <1>5, <1>8, <1>10, ReadStep

-----------------------------------------------------------------------------
(***************************************************************************)
(* Using the supervisor.                                                   *)
(***************************************************************************)
LEMMA ApplyBeginsStep ==
  ASSUME OwnInv, IndInv, ApplyBegins
  PROVE  OwnInv'
<1> USE DEF ApplyBegins, CallUpdate, UpdateBegin, Acquire
<1>1. /\ listed \in Cruise /\ Updating /\ fetched \in ConfigMap
      /\ \A l \in Logger : fetched[l] # NONE <=> l \in listed.loggers
  BY DEF OwnInv, ReadInv, LocksInv, ManagerTypeOK
<1>2. Requested(fetched) = fetched
  <2>1. PICK l \in Logger : l \in listed.loggers
    BY <1>1
  <2>2. fetched[l] # NONE
    BY <1>1, <2>1
  <2>3. fetched # EmptyMap
    BY <2>1, <2>2 DEF EmptyMap
  <2> QED
    BY <2>3 DEF Requested
<1>3. Fresh => fetched = API!Desired
  <2> SUFFICES ASSUME Fresh PROVE fetched = API!Desired
    OBVIOUS
  <2>1. /\ cruise = listed
        /\ \A l \in listed.loggers : fetched[l] = API!Desired[l]
    BY DEF OwnInv, FreshInv
  <2>2. \A l \in Logger : fetched[l] = API!Desired[l]
    BY <1>1, <2>1 DEF API!Desired
  <2> QED
    BY <1>1, <2>2 DEF ConfigMap, API!Desired
<1>4. /\ target' = fetched /\ todo' = {l \in Logger : config_map[l] # fetched[l]}
      /\ lock' = "update" /\ phase' = "applying" /\ config_map' = config_map
      /\ monitor' = monitor
  BY <1>2 DEF runnerVars
<1>5. Fresh' => Fresh
  BY DEF Fresh, Now, reportVars
<1>6. API!Desired' = API!Desired
  BY SameDesired
<1>7. ManagerTypeOK'
  BY DEF OwnInv, ManagerTypeOK, API!APITypeOK, threadVars, reportVars, apiVars
<1>8. ScriptInv'
  BY SameScript DEF OwnInv, apiVars, reportVars
<1>9. LocksInv'
  BY <1>1, <1>4 DEF OwnInv, LocksInv, Updating, Now
<1>10. ReadInv'
  BY <1>4 DEF ReadInv
<1>11. FreshInv'
  BY <1>3, <1>4, <1>5, <1>6 DEF FreshInv
<1>12. SyncInv'
  <2> SUFFICES ASSUME synced PROVE config_map' = API!Desired' /\ todo' = {}
    BY DEF SyncInv, reportVars
  <2>1. fetched = API!Desired /\ config_map = API!Desired
    BY <1>3 DEF Fresh, OwnInv, SyncInv
  <2> QED
    BY <1>4, <1>6, <2>1
<1> QED
  BY <1>7, <1>8, <1>9, <1>10, <1>11, <1>12 DEF OwnInv

\* A step of the supervisor alone, while its state is none the manager has
\* vouched for, or changes nothing of what it has.
LEMMA FleetStep ==
  ASSUME OwnInv, UNCHANGED managerVars,
         ~synced \/ (UNCHANGED config_map /\ (lock' = "update" => lock = "update" /\ todo' = todo)),
         lock' \in {"free", "update", "quit"}, lock' = "update" <=> lock = "update",
         lock' = "quit" => Now("quit"), monitor' = monitor,
         phase = "applying" => target' = target
  PROVE  OwnInv'
<1> USE DEF managerVars, apiVars, threadVars, reportVars, lockedVars
<1>1. ManagerTypeOK'
  BY DEF OwnInv, ManagerTypeOK, API!APITypeOK
<1>2. ScriptInv'
  BY SameScript DEF OwnInv
<1>3. LocksInv' /\ ReadInv'
  BY DEF OwnInv, LocksInv, ReadInv, Updating, Now
<1>4. FreshInv' /\ SyncInv'
  BY SameDesired DEF OwnInv, FreshInv, SyncInv, Fresh, Now
<1> QED
  BY <1>1, <1>2, <1>3, <1>4 DEF OwnInv

LEMMA ApplyStepStep ==
  ASSUME OwnInv, ApplyStep
  PROVE  OwnInv'
<1>1. PICK l \in Logger : UpdateStops(l) \/ UpdateStarts(l) \/ UpdateReplaces(l)
  BY DEF ApplyStep
<1>2. /\ lock = "update" /\ l \in todo /\ UNCHANGED <<lock, target, monitor>>
  BY <1>1 DEF UpdateStops, UpdateStarts, UpdateReplaces, Treated
<1>3. ~synced
  BY <1>2 DEF OwnInv, SyncInv
<1> QED
  BY <1>2, <1>3, FleetStep DEF ApplyStep

LEMMA WorldStep ==
  ASSUME OwnInv, World
  PROVE  OwnInv'
<1>1. UNCHANGED <<config_map, lockVars, monitor>>
  BY DEF World, Environment, ChildExits, UnkillableExits, Tick, runnerVars
<1> QED
  BY <1>1, FleetStep DEF World, lockVars, OwnInv, LocksInv

LEMMA ConsoleQuitsStep ==
  ASSUME OwnInv, ConsoleQuits
  PROVE  OwnInv'
<1> USE DEF ConsoleQuits, QuitBegin, Acquire
<1>1. script[1].op = "quit" /\ 1 \in 1..Len(script)
  BY HeadOfScript DEF OwnInv, Now
<1>2. ~synced
  BY <1>1 DEF OwnInv, ScriptInv
<1> QED
  BY <1>2, FleetStep

LEMMA SupervisorQuitsStep ==
  ASSUME OwnInv, SupervisorQuits
  PROVE  OwnInv'
<1>1. lock = "quit" /\ lock' = lock /\ target' = target /\ monitor' = monitor
  BY DEF SupervisorQuits, QuitStops, Treated
<1>2. Now("quit")
  BY <1>1 DEF OwnInv, LocksInv
<1>3. script[1].op = "quit" /\ 1 \in 1..Len(script)
  BY <1>2, HeadOfScript DEF OwnInv, Now
<1>4. ~synced
  BY <1>3 DEF OwnInv, ScriptInv
<1> QED
  BY <1>1, <1>2, <1>4, FleetStep DEF SupervisorQuits

LEMMA SupervisorHasQuitStep ==
  ASSUME OwnInv, SupervisorHasQuit
  PROVE  OwnInv'
<1> USE DEF SupervisorHasQuit, apiVars, lockedVars, reportVars
<1>1. lock = "quit" /\ lock' = "free" /\ monitor' = monitor
  BY DEF QuitEnd, QuitRaisesAt, Release
<1>2. Now("quit") /\ config_lock # "console" /\ phase # "applying"
  BY <1>1 DEF OwnInv, LocksInv, Now
<1>3. script # <<>> /\ ~Now("assign") /\ ~Now("flag")
  BY <1>2 DEF Now
<1>4. script[1].op = "quit" /\ 1 \in 1..Len(script)
  BY <1>2, HeadOfScript DEF OwnInv, Now
<1>5. ~synced /\ ~synced'
  BY <1>4 DEF OwnInv, ScriptInv
<1>6. ScriptInv'
  BY <1>3, TailScript DEF OwnInv
<1>7. ManagerTypeOK'
  BY <1>6, ScriptTypes DEF OwnInv, ManagerTypeOK, API!APITypeOK, ScriptInv, Ops
<1>8. LocksInv' /\ ReadInv'
  BY <1>1, <1>2 DEF OwnInv, LocksInv, ReadInv, Updating
<1>9. FreshInv' /\ SyncInv'
  BY <1>2, <1>5 DEF FreshInv, SyncInv, Fresh
<1> QED
  BY <1>6, <1>7, <1>8, <1>9 DEF OwnInv

LEMMA AbsentStays ==
  ASSUME monitor = "absent", MonitorAfter(TRUE)
  PROVE  monitor' = "absent"
BY DEF MonitorAfter

\* The update returns.  If the console had signalled it, what was read was
\* there throughout, and the supervisor has installed it.
LEMMA ApplyEndsStep ==
  ASSUME OwnInv, IndInv, ApplyEnds
  PROVE  OwnInv'
<1> USE DEF ApplyEnds, UpdateEnd, Returns, apiVars
<1>1. lock = "update" /\ todo = {} /\ lock' = "free" /\ phase = "applying" /\ Updating
  BY DEF Release, OwnInv, LocksInv
<1>2. config_map = target
  <2>1. \A l \in Logger : config_map[l] = target[l]
    BY <1>1 DEF IndInv, UpdateInstallsTarget
  <2> QED
    BY <2>1 DEF IndInv, TypeOK, ConfigMap
<1>3. ScriptInv'
  BY ReturnedScript DEF OwnInv
<1>4. monitor' = "absent"
  BY AbsentStays DEF OwnInv, LocksInv
<1>5. SyncInv'
  <2> SUFFICES ASSUME synced' PROVE config_map' = API!Desired' /\ lock' # "update"
    BY DEF SyncInv
  <2>1. config_map' = config_map /\ API!Desired' = API!Desired
    BY SameDesired DEF runnerVars
  <2>2. Fresh
    BY <1>1 DEF Fresh, Updating
  <2>3. target = API!Desired
    BY <1>1, <2>2 DEF OwnInv, FreshInv
  <2> QED
    BY <1>1, <1>2, <2>1, <2>3
<1> QED
  BY <1>1, <1>3, <1>4, <1>5, LeaveStep DEF OwnInv, ManagerTypeOK

LEMMA ApplyRaisesStep ==
  ASSUME OwnInv, ApplyRaises
  PROVE  OwnInv'
<1> USE DEF ApplyRaises, apiVars, reportVars
<1>1. /\ lock = "update" /\ todo # {} /\ lock' = "free" /\ monitor' = "absent"
  BY DEF UpdateStartRaises, UpdateStopRaises, Release, MonitorAfter, OwnInv, LocksInv
<1>2. ~synced
  BY <1>1 DEF OwnInv, SyncInv
<1>3. ScriptInv'
  BY EndScript, SameScript DEF OwnInv
<1>4. SyncInv'
  BY <1>2 DEF SyncInv
<1> QED
  BY <1>1, <1>3, <1>4, LeaveStep DEF OwnInv, ManagerTypeOK

-----------------------------------------------------------------------------
LEMMA OwnStep == ManagerInv /\ [ManagerNext]_allVars => OwnInv'
<1> SUFFICES ASSUME ManagerInv, [ManagerNext]_allVars PROVE OwnInv'
  OBVIOUS
<1> USE DEF ManagerInv
<1>1. CASE ConsoleCommand
  BY <1>1, ConsoleCommandStep
<1>2. CASE ConsoleStep
  BY <1>2, ConsoleWritesStep, ConsoleTakesStep, ConsoleReloadsStep, ConsoleFlagsStep,
     ConsoleQuitsStep DEF ConsoleStep
<1>3. CASE PollerStep \/ DefinerStep
  BY <1>3, PollerBeginsStep, DefinerBeginsStep, ThreadEndsStep DEF PollerStep, DefinerStep
<1>4. CASE QuitMethod
  BY <1>4, SupervisorQuitsStep, SupervisorHasQuitStep DEF QuitMethod
<1>5. CASE World
  BY <1>5, WorldStep
<1>6. CASE LockedMethod
  BY <1>6, ReadLeavesStep, ListBeginStep, ListLoggerStep, FetchNameStep, FetchConfigStep,
     ApplyBeginsStep, ApplyStepStep, ApplyEndsStep, ApplyRaisesStep, SendDefinitionStep
     DEF LockedMethod
<1>7. CASE UNCHANGED allVars
  <2>1. UNCHANGED <<config_map, lockVars, monitor, managerVars>>
    BY <1>7 DEF allVars, vars, runnerVars
  <2> QED
    BY <2>1, FleetStep DEF lockVars, OwnInv, LocksInv
<1> QED
  BY <1>1, <1>2, <1>3, <1>4, <1>5, <1>6, <1>7 DEF ManagerNext

LEMMA ManagerInvariance == ManagerSpec => []ManagerInv
<1>1. ManagerInit => ManagerInv
  BY InitInv, InitOwn DEF ManagerInit, ManagerInv
<1>2. ManagerInv /\ [ManagerNext]_allVars => ManagerInv'
  BY OwnStep, StepOfSupervisor, StepInv DEF ManagerInv
<1> QED
  BY <1>1, <1>2, PTL DEF ManagerSpec

-----------------------------------------------------------------------------
\* The API and the threads are in states the code expects, and between the
\* return of the console's update signal and its next write the supervisor
\* runs exactly what the API asks for: what the poller read before or
\* during the command cannot undo it.
THEOREM ManagerIsSafe == ManagerSpec => []ManagerSafe
<1>1. ManagerInv => ManagerSafe
  BY DEF ManagerInv, OwnInv, SyncInv, ManagerSafe, SyncedIsDesired
<1> QED
  BY <1>1, ManagerInvariance, PTL

\* Console, poller and definer only call the supervisor's methods: every step
\* of the manager is one of the supervisor's or none.
LEMMA StepsAreSupervisors == ManagerSpec => Spec
<1>1. ManagerInit => Init
  BY DEF ManagerInit
<1>2. ManagerInv /\ [ManagerNext]_allVars => [Next]_vars
  BY StepOfSupervisor
<1> QED
  BY <1>1, <1>2, ManagerInvariance, PTL DEF ManagerSpec, Spec

\* So what was proved of the supervisor holds under the manager: its maps
\* agree, no child is orphaned, and what an update was given is what runs.
THEOREM ManagedFleetIsSafe == ManagerSpec => [](FleetSafe /\ UpdateInstallsTarget)
BY StepsAreSupervisors, FleetIsSafe, UpdatesInstallTheirTarget, PTL
=============================================================================
