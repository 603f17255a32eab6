---------------------------- MODULE StoresProofs ----------------------------
(***************************************************************************)
(* Proofs about the two databases several processes share, for every set   *)
(* of processes, of loggers, modes, names and definitions, and any number  *)
(* of calls, of commands and of errors: first those about DjangoServerAPI, *)
(* then those about the instance of SQLiteServerAPI in MCStores, and last  *)
(* those about the two side by side, as the run checks them.               *)
(***************************************************************************)
EXTENDS MCStores, SequenceTheorems, TLAPS

Running(p) == call[p].at \in Working /\ call[p].gen = generation

\* Will the call of p flag the configuration of logger l, or start over?
Covers(p, l) ==
  \/ call[p].at = "begin" /\ l \in Todo(call[p].request)
  \/ Running(p) /\ l \in call[p].todo

\* How far a call is, from what it has read and has still to do.
WorkInv ==
  \A p \in Process :
    call[p].at \in Working =>
      /\ p \in Setter
      /\ call[p].todo # {} /\ call[p].todo \subseteq Todo(call[p].request)
      /\ call[p].at # "unflag" => call[p].doing \in call[p].todo
      /\ call[p].at = "flag" =>
           Target(call[p].request, call[p].doing) \in ConfigName

\* The rows: each logger has a configuration of its own, and none without a
\* cruise; no call is running on the rows of a load to come, nor without a
\* cruise.
RowsInv ==
  /\ \A l \in Logger : config[l] # NONE => LoggerOf[config[l]] = l
  /\ active_mode = NONE => \A l \in Logger : config[l] = NONE
  /\ \A p \in Process : call[p].at \in Working => call[p].gen <= generation
  /\ \A p \in Process : Running(p) => active_mode # NONE

\* Unless calls have muddled the flags: one call at most is running on these
\* rows, it knows what each logger it has still to do is set to, nothing is
\* flagged but what a logger is set to, and what is not flagged will be.
FlagsInv ==
  /\ \A p, q \in Process : Running(p) /\ Running(q) => p = q
  /\ \A p \in Process : Running(p) => \A l \in call[p].todo :
       IF call[p].at = "flag" /\ l = call[p].doing
       THEN config[l] = Target(call[p].request, l)
       ELSE config[l] = call[p].read[l]
  /\ \A p \in Process : Running(p) /\ call[p].at = "assign" =>
       call[p].read[call[p].doing] \notin current
  /\ current \subseteq {config[l] : l \in Logger} \ {NONE}
  /\ \A l \in Logger :
       config[l] # NONE /\ config[l] \notin current => \E p \in Setter : Covers(p, l)

TimeInv ==
  \A p \in Process :
    /\ call[p].at = "commit" => call[p].stamp <= clock
    /\ call[p].at = "mode" => call[p].read <= clock

RowsRead ==
  \A p \in Reader :
    call[p].at # "rows" /\ last_update > changed /\ ConfigsFresh(p) /\ ~unread[p]
      => logger_configs[p] = CurrentRows

ModeRead ==
  /\ \A p \in Reader :
       last_update > mode_changed /\ ModeFresh(p) /\ ~late[p] => cached_mode[p] = active_mode
  /\ \A p \in Reader :
       call[p].at = "mode" /\ last_update > mode_changed /\ call[p].read >= last_update
         => call[p].mode = active_mode

\* A step of a process that changes the database.
Changes(p) ==
  \/ Asks(p) \/ Begins(p) \/ Unflags(p) \/ Assigns(p) \/ Flags(p) \/ Stamps(p)
  \/ Raises(p) \/ Retries(p) \/ LoadBegins(p) \/ LoadStamps(p) \/ LoadFails(p)
  \/ LoadCommits(p) \/ Deletes(p)

-----------------------------------------------------------------------------
(***************************************************************************)
(* Types.                                                                  *)
(***************************************************************************)
\* What a call is, at each of its steps.
LEMMA CallShapes ==
  ASSUME NEW c \in CallType
  PROVE  /\ c.at \in Working =>
               /\ c = [at |-> c.at, request |-> c.request, todo |-> c.todo, doing |-> c.doing,
                       read |-> c.read, gen |-> c.gen]
               /\ c.request \in Request /\ c.todo \in SUBSET Logger
               /\ c.doing \in Logger \cup {NONE} /\ c.read \in [Logger -> NameOrNone]
               /\ c.gen \in Nat
         /\ c.at = "begin" => c.request \in Request
         /\ c.at = "load" => c.preserve \in BOOLEAN
         /\ c.at = "commit" => c.preserve \in BOOLEAN /\ c.stamp \in Nat
         /\ c.at = "mode" => c.mode \in Mode /\ c.read \in Nat
         /\ c.at = "idle" => c = Idle
         /\ c.at = "rows" => c = [at |-> "rows"]
  BY DEF CallType, Working, Idle

LEMMA Targets ==
  ASSUME NEW r \in Request, NEW l \in Todo(r)
  PROVE  /\ Target(r, l) \in ConfigName \cup {NONE, REFUSED}
         /\ l \in Logger
         /\ Target(r, l) \in ConfigName => LoggerOf[Target(r, l)] = l

<1>1. /\ l \in Logger
      /\ r.mode # NONE => r.mode \in Mode
      /\ r.mode = NONE => r.name \in ConfigName /\ r.logger = l
  BY DjangoAssumption DEF Todo
<1>2. CASE r.mode # NONE
  <2>1. Target(r, l) = ModeTarget(r.mode, l)
    BY <1>2 DEF Target
  <2>2. \A m \in Mode : ModeConfigs[m][l] \in ConfigName \cup {NONE}
    BY <1>1, DjangoAssumption
  <2>3. \A m \in Mode : ModeConfigs[m][l] \in ConfigName => LoggerOf[ModeConfigs[m][l]] = l
    BY <1>1, DjangoAssumption
  <2>4. OffMode # NONE => OffMode \in Mode
    BY DjangoAssumption
  <2>. QED  BY <1>1, <1>2, <2>1, <2>2, <2>3, <2>4, DjangoAssumption DEF ModeTarget
<1>3. CASE r.mode = NONE
  <2>1. Target(r, l) = IF LoggerOf[r.name] = l THEN r.name ELSE REFUSED
    BY <1>3 DEF Target
  <2>. QED  BY <1>1, <1>3, <2>1, DjangoAssumption
<1>. QED  BY <1>2, <1>3

\* A process's next step is one its call can be in, and one process at a time
\* is in a transaction.
LEMMA SetterCalls ==
  ASSUME DjangoTypeOK, WorkInv, NEW p \in Setter, Changes(p)
  PROVE  CallsTypeOK'
<1>. USE DEF Goes
<1>1. /\ p \in Process /\ p # NONE /\ call[p] \in CallType
      /\ call \in [Process -> CallType] /\ writing \in Process \cup {NONE}
      /\ \A q \in Process : writing = q <=> call[q].at \in {"load", "commit"}
      /\ generation \in Nat /\ clock \in Nat /\ config \in [Logger -> NameOrNone]
  BY DjangoAssumption DEF Process, DjangoTypeOK, CallsTypeOK, DataTypeOK
<1>2. Idle \in CallType /\ Idle.at = "idle"
  BY DEF CallType, Idle
<1>3. ASSUME NEW c \in CallType, Goes(p, c), writing' = writing,
             c.at \notin {"load", "commit"}, call[p].at \notin {"load", "commit"}
      PROVE  CallsTypeOK'
  BY <1>1, <1>3 DEF CallsTypeOK
<1>4. ASSUME call[p].at \in Working, NEW at \in Working \cup {"stamp"},
             NEW todo \in SUBSET Logger, NEW doing \in Logger \cup {NONE}
      PROVE  At(p, at, todo, doing) \in CallType /\ At(p, at, todo, doing).at = at
  <2>1. /\ call[p].request \in Request /\ call[p].read \in [Logger -> NameOrNone]
        /\ call[p].gen \in Nat
    BY <1>1, <1>4, CallShapes
  <2>. QED  BY <1>4, <2>1 DEF At, Setting, CallType
<1>5. ASSUME call[p].at \in Working
      PROVE  Moved(p) \in CallType /\ Moved(p).at \in {"stamp", "unflag"}
  <2>1. call[p].todo \ {call[p].doing} \in SUBSET Logger
    BY <1>1, <1>5, CallShapes
  <2>. QED  BY <1>4, <1>5, <2>1 DEF Moved, Working
<1>6. CASE Asks(p)
  <2>1. PICK r \in Request : Goes(p, Setting("begin", r, {}, NONE, <<>>, generation))
    BY <1>6 DEF Asks
  <2>2. /\ Setting("begin", r, {}, NONE, <<>>, generation) \in CallType
        /\ Setting("begin", r, {}, NONE, <<>>, generation).at = "begin"
    BY <1>1 DEF Setting, CallType
  <2>. QED  BY <1>2, <1>3, <1>6, <2>1, <2>2 DEF Asks
<1>7. CASE Begins(p)
  <2>1. CASE active_mode = NONE
    BY <1>2, <1>3, <1>7, <2>1 DEF Begins
  <2>2. CASE active_mode # NONE
    <3> DEFINE c == Setting("unflag", call[p].request, Todo(call[p].request), NONE, config,
                            generation)
    <3>1. call[p].request \in Request
      BY <1>1, <1>7, CallShapes DEF Begins
    <3>2. Todo(call[p].request) \in SUBSET Logger
      BY <3>1, DjangoAssumption DEF Todo
    <3>3. c \in CallType /\ c.at = "unflag"
      BY <1>1, <3>1, <3>2 DEF Setting, CallType, Working
    <3>. QED  BY <1>3, <1>7, <2>2, <3>3 DEF Begins
  <2>. QED  BY <2>1, <2>2
<1>8. CASE Unflags(p)
  <2>1. call[p].todo # {} /\ call[p].todo \in SUBSET Logger /\ call[p].at \in Working
    BY <1>1, <1>8, CallShapes DEF Unflags, WorkInv, Working
  <2>2. NextLogger(p) \in call[p].todo
    BY <2>1 DEF NextLogger
  <2>3. /\ At(p, "assign", call[p].todo, NextLogger(p)) \in CallType
        /\ At(p, "assign", call[p].todo, NextLogger(p)).at = "assign"
    BY <1>4, <2>1, <2>2 DEF Working
  <2>. QED  BY <1>3, <1>8, <2>3 DEF Unflags
<1>9. CASE Assigns(p)
  <2>1. call[p].at \in Working /\ call[p].at \notin {"load", "commit"}
    BY <1>9 DEF Assigns, Working
  <2> DEFINE l == call[p].doing
             n == Target(call[p].request, l)
  <2>2. l \in Logger /\ call[p].todo \in SUBSET Logger
    BY <1>1, <1>9, <2>1, CallShapes DEF WorkInv, Assigns
  <2>3. CASE n = REFUSED
    <3>1. Goes(p, Idle) /\ writing' = writing
      BY <1>9, <2>3, DjangoAssumption DEF Assigns
    <3>. QED  BY <1>2, <1>3, <2>1, <3>1
  <2>4. CASE n = NONE
    <3>1. NONE # REFUSED
      BY DjangoAssumption
    <3>2. Goes(p, Moved(p)) /\ writing' = writing
      BY <1>9, <2>4, <3>1 DEF Assigns
    <3>. QED  BY <1>3, <1>5, <2>1, <3>2
  <2>5. CASE n # NONE /\ n # REFUSED
    <3>1. Goes(p, At(p, "flag", call[p].todo, l)) /\ writing' = writing
      BY <1>9, <2>5 DEF Assigns
    <3>2. /\ At(p, "flag", call[p].todo, l) \in CallType
          /\ At(p, "flag", call[p].todo, l).at = "flag"
      BY <1>4, <2>1, <2>2 DEF Working
    <3>. QED  BY <1>3, <2>1, <3>1, <3>2
  <2>. QED  BY <2>3, <2>4, <2>5
<1>10. CASE Flags(p)
  <2>1. call[p].at \in Working /\ call[p].at \notin {"load", "commit"}
    BY <1>10 DEF Flags, Working
  <2>. QED  BY <1>3, <1>5, <1>10, <2>1 DEF Flags
<1>11. CASE Stamps(p)
  BY <1>2, <1>3, <1>11 DEF Stamps
<1>12. CASE Raises(p) \/ Retries(p)
  <2>1. call[p].at \in Working /\ call[p].at \notin {"load", "commit"}
    BY <1>12 DEF Raises, Retries, Working
  <2>2. call[p].request \in Request
    BY <1>1, <2>1, CallShapes
  <2>3. Setting("begin", call[p].request, {}, NONE, <<>>, generation) \in CallType
        /\ Setting("begin", call[p].request, {}, NONE, <<>>, generation).at = "begin"
    BY <1>1, <2>2 DEF Setting, CallType
  <2>. QED  BY <1>2, <1>3, <1>12, <2>1, <2>3 DEF Raises, Retries
<1>13. CASE LoadBegins(p)
  <2>1. PICK preserve \in BOOLEAN : Goes(p, [at |-> "load", preserve |-> preserve])
    BY <1>13 DEF LoadBegins
  <2>2. [at |-> "load", preserve |-> preserve] \in CallType
    BY DEF CallType
  <2>3. writing' = p /\ \A q \in Process : call[q].at \notin {"load", "commit"}
    BY <1>1, <1>13, DjangoAssumption DEF LoadBegins, Writable, Process
  <2>. QED  BY <1>1, <2>1, <2>2, <2>3 DEF CallsTypeOK
<1>14. CASE LoadStamps(p)
  <2>1. call[p].preserve \in BOOLEAN
    BY <1>1, <1>14, CallShapes DEF LoadStamps
  <2>2. [at |-> "commit", preserve |-> call[p].preserve, stamp |-> clock + 1] \in CallType
    BY <1>1, <2>1 DEF CallType
  <2>3. /\ call' = [call EXCEPT ![p] = [at |-> "commit", preserve |-> call[p].preserve,
                                        stamp |-> clock + 1]]
        /\ writing' = writing /\ writing = p
    BY <1>1, <1>14 DEF LoadStamps
  <2>. QED  BY <1>1, <2>2, <2>3 DEF CallsTypeOK
<1>15. CASE LoadFails(p) \/ LoadCommits(p)
  <2>1. writing' = NONE /\ Goes(p, Idle) /\ writing = p
    BY <1>1, <1>15 DEF LoadFails, LoadCommits
  <2>2. NONE \notin Process
    BY DjangoAssumption
  <2>. QED  BY <1>1, <1>2, <2>1, <2>2 DEF CallsTypeOK
<1>16. CASE Deletes(p)
  <2>1. [at |-> "stamp"] \in CallType
    BY DEF CallType
  <2>. QED  BY <1>2, <1>3, <1>16, <2>1 DEF Deletes
<1>. QED
  BY <1>6, <1>7, <1>8, <1>9, <1>10, <1>11, <1>12, <1>13, <1>14, <1>15, <1>16 DEF Changes

\* Nor does it put anything but the like of what was there into the database.
LEMMA SetterData ==
  ASSUME DjangoTypeOK, WorkInv, TimeInv, NEW p \in Setter, Changes(p)
  PROVE  DataTypeOK'
<1>. USE DEF DataTypeOK
<1>1. p \in Process /\ call[p] \in CallType /\ DataTypeOK
  BY DEF Process, DjangoTypeOK, CallsTypeOK
<1>2. clock \in Nat /\ clock \in 0..clock /\ 0..clock \subseteq 0..(clock + 1)
  BY <1>1
<1>3. calls < CallBound => calls + 1 \in 0..CallBound
  BY <1>1, DjangoAssumption
<1>4. fails < FailBound => fails + 1 \in 0..FailBound
  BY <1>1, DjangoAssumption
<1>5. CASE Asks(p) \/ LoadBegins(p)
  <2>1. UNCHANGED <<rowVars, last_update, clock, cacheVars, fails, seenVars>>
        /\ calls' \in 0..CallBound
    BY <1>3, <1>5 DEF Asks, LoadBegins
  <2>. QED  BY <1>1, <2>1 DEF rowVars, cacheVars, seenVars
<1>6. CASE Begins(p)
  <2>1. active_mode' \in Mode \cup {NONE} /\ mode_changed' \in 0..clock /\ muddled' \in BOOLEAN
    <3>1. call[p].request \in Request
      BY <1>1, <1>6, CallShapes DEF Begins
    <3>2. call[p].request.mode # NONE => call[p].request.mode \in Mode
      BY <3>1, DjangoAssumption
    <3>3. CASE active_mode = NONE
      BY <1>1, <1>6, <3>3 DEF Begins
    <3>4. CASE active_mode # NONE
      BY <1>1, <1>2, <1>6, <3>2, <3>4 DEF Begins
    <3>. QED  BY <3>3, <3>4
  <2>2. UNCHANGED <<generation, config, current, last_update, clock, cacheVars, countVars,
                    changed, late>>
    BY <1>6 DEF Begins
  <2>. QED  BY <1>1, <2>1, <2>2 DEF cacheVars, countVars
<1>7. CASE Unflags(p)
  <2>1. current' \in SUBSET ConfigName /\ changed' \in 0..clock
    BY <1>1, <1>2, <1>7 DEF Unflags
  <2>2. UNCHANGED <<generation, active_mode, config, last_update, clock, cacheVars, countVars,
                    mode_changed, late, muddled>>
    BY <1>7 DEF Unflags
  <2>. QED  BY <1>1, <2>1, <2>2 DEF cacheVars, countVars
<1>8. CASE Assigns(p)
  <2> DEFINE l == call[p].doing
             n == Target(call[p].request, l)
  <2>1. n \in ConfigName \cup {NONE, REFUSED}
    <3>1. call[p].request \in Request /\ l \in Todo(call[p].request)
      BY <1>1, <1>8, CallShapes DEF Assigns, Working, WorkInv
    <3>. QED  BY <3>1, Targets
  <2>2. config' \in [Logger -> NameOrNone] /\ muddled' \in BOOLEAN
    <3>1. CASE n = REFUSED
      BY <1>1, <1>8, <3>1 DEF Assigns
    <3>2. CASE n = NONE
      <4>1. UNCHANGED config /\ muddled' = TRUE
        BY <1>8, <3>2, DjangoAssumption DEF Assigns
      <4>. QED  BY <1>1, <4>1
    <3>3. CASE n # NONE /\ n # REFUSED
      <4>1. config' = [config EXCEPT ![l] = n] /\ UNCHANGED muddled
        BY <1>8, <3>3 DEF Assigns
      <4>. QED  BY <1>1, <2>1, <3>3, <4>1 DEF NameOrNone
    <3>. QED  BY <3>1, <3>2, <3>3
  <2>3. UNCHANGED <<generation, active_mode, current, last_update, clock, cacheVars, countVars,
                    changed, mode_changed, late>>
    BY <1>8 DEF Assigns
  <2>. QED  BY <1>1, <2>2, <2>3 DEF cacheVars, countVars
<1>9. CASE Flags(p)
  <2>1. Target(call[p].request, call[p].doing) \in ConfigName
    BY <1>1, <1>9 DEF WorkInv, Flags, Working
  <2>2. current' \in SUBSET ConfigName /\ changed' \in 0..clock
    BY <1>1, <1>2, <1>9, <2>1 DEF Flags
  <2>3. UNCHANGED <<generation, active_mode, config, last_update, clock, cacheVars, countVars,
                    mode_changed, late, muddled>>
    BY <1>9 DEF Flags
  <2>. QED  BY <1>1, <2>2, <2>3 DEF cacheVars, countVars
<1>10. CASE Stamps(p)
  <2>1. clock' = clock + 1 /\ last_update' = clock + 1
        /\ UNCHANGED <<rowVars, cacheVars, countVars, seenVars>>
    BY <1>10 DEF Stamps
  <2>2. 0..clock \subseteq 0..clock' /\ clock' \in Nat /\ last_update' \in 0..clock'
    BY <1>2, <2>1
  <2>. QED  BY <1>1, <2>1, <2>2 DEF rowVars, cacheVars, countVars, seenVars
<1>11. CASE Raises(p) \/ LoadFails(p) \/ Retries(p)
  <2>1. UNCHANGED <<rowVars, last_update, clock, cacheVars, calls, seenVars>>
        /\ fails' \in 0..FailBound
    BY <1>1, <1>4, <1>11 DEF Raises, LoadFails, Retries, countVars
  <2>. QED  BY <1>1, <2>1 DEF rowVars, cacheVars, seenVars
<1>12. CASE LoadStamps(p)
  <2>1. clock' = clock + 1 /\ UNCHANGED <<rowVars, last_update, cacheVars, countVars, seenVars>>
    BY <1>12 DEF LoadStamps
  <2>2. 0..clock \subseteq 0..clock' /\ clock' \in Nat
    BY <1>2, <2>1
  <2>. QED  BY <1>1, <2>1, <2>2 DEF rowVars, cacheVars, countVars, seenVars
<1>13. CASE LoadCommits(p)
  <2> DEFINE names == [l \in Logger |-> IF call[p].preserve /\ config[l] # NONE
                                        THEN config[l] ELSE ModeConfigs[DefaultMode][l]]
  <2>1. \A l \in Logger : names[l] \in ConfigName
    BY <1>1, DjangoAssumption DEF NameOrNone
  <2>2. config' = names /\ current' = {names[l] : l \in Logger}
    BY <1>13 DEF LoadCommits
  <2>3. config' \in [Logger -> NameOrNone] /\ current' \in SUBSET ConfigName
    BY <2>1, <2>2 DEF NameOrNone
  <2>4. active_mode' \in Mode \cup {NONE} /\ generation' \in Nat
    BY <1>1, <1>13, DjangoAssumption DEF LoadCommits
  <2>5. call[p].stamp \in Nat /\ call[p].stamp <= clock
    BY <1>1, <1>13, CallShapes DEF LoadCommits, TimeInv
  <2>6. /\ last_update' = call[p].stamp /\ changed' = clock /\ mode_changed' = clock
        /\ muddled' = FALSE /\ UNCHANGED <<clock, cacheVars, countVars, late>>
    BY <1>13 DEF LoadCommits
  <2>7. last_update' \in 0..clock
    BY <1>2, <2>5, <2>6
  <2>. QED  BY <1>1, <1>2, <2>3, <2>4, <2>6, <2>7 DEF cacheVars, countVars
<1>14. CASE Deletes(p)
  <2>1. /\ config' \in [Logger -> NameOrNone] /\ current' \in SUBSET ConfigName
        /\ active_mode' \in Mode \cup {NONE}
    BY <1>14 DEF Deletes, NameOrNone
  <2>2. /\ generation' \in Nat /\ calls' \in 0..CallBound
        /\ changed' = clock /\ mode_changed' = clock
        /\ UNCHANGED <<last_update, clock, cacheVars, fails, late, muddled>>
    BY <1>1, <1>3, <1>14 DEF Deletes
  <2>. QED  BY <1>1, <1>2, <2>1, <2>2 DEF cacheVars
<1>. QED
  BY <1>5, <1>6, <1>7, <1>8, <1>9, <1>10, <1>11, <1>12, <1>13, <1>14 DEF Changes

LEMMA ReaderTypes ==
  ASSUME DjangoTypeOK, TimeInv, NEW p \in Reader, Reads(p)
  PROVE  DjangoTypeOK'
<1>. USE DEF Goes
<1>1. p \in Process /\ call[p] \in CallType /\ CallsTypeOK /\ DataTypeOK /\ clock \in 0..clock
  BY DEF Process, DjangoTypeOK, CallsTypeOK, DataTypeOK
<1>2. /\ Idle \in CallType /\ Idle.at = "idle"
      /\ [at |-> "rows"] \in CallType
      /\ \A m \in Mode : [at |-> "mode", mode |-> m, read |-> clock] \in CallType
  BY <1>1 DEF CallType, Idle, DataTypeOK
<1>3. ASSUME NEW c \in CallType, Goes(p, c), writing' = writing,
             c.at \notin {"load", "commit"}, call[p].at \notin {"load", "commit"}
      PROVE  CallsTypeOK'
  BY <1>1, <1>3 DEF CallsTypeOK
<1>4. CASE ChecksConfigs(p)
  <2>1. CallsTypeOK'
    BY <1>2, <1>3, <1>4 DEF ChecksConfigs
  <2>. QED  BY <1>1, <1>4, <2>1 DEF ChecksConfigs, DataTypeOK, DjangoTypeOK, rowVars, countVars,
                                  seenVars
<1>5. CASE ReadsRows(p)
  <2>1. CallsTypeOK'
    BY <1>2, <1>3, <1>5 DEF ReadsRows
  <2>2. CurrentRows \in SUBSET (Nat \X ConfigName)
    BY <1>1 DEF CurrentRows, DataTypeOK
  <2>. QED  BY <1>1, <1>5, <2>1, <2>2 DEF ReadsRows, DataTypeOK, DjangoTypeOK, rowVars, countVars,
                                       seenVars
<1>8. CASE ReadFails(p)
  <2>1. CallsTypeOK'
    BY <1>2, <1>3, <1>8 DEF ReadFails
  <2>2. fails' \in 0..FailBound
    BY <1>1, <1>8, DjangoAssumption DEF ReadFails, DataTypeOK
  <2>3. polling' \in [Reader -> BOOLEAN] /\ unread' \in [Reader -> BOOLEAN]
    BY <1>1, <1>8 DEF ReadFails, DataTypeOK
  <2>. QED  BY <1>1, <1>8, <2>1, <2>2, <2>3 DEF ReadFails, DataTypeOK, DjangoTypeOK, rowVars,
                                              seenVars
<1>6. CASE ReadsMode(p)
  <2>1. active_mode \in Mode
    BY <1>1, <1>6 DEF ReadsMode, DataTypeOK
  <2>2. CallsTypeOK'
    BY <1>2, <1>3, <1>6, <2>1 DEF ReadsMode
  <2>. QED  BY <1>1, <1>6, <2>2 DEF ReadsMode, DataTypeOK, DjangoTypeOK, rowVars, cacheVars,
                                    countVars, seenVars
<1>7. CASE StampsMode(p)
  <2>1. CallsTypeOK'
    BY <1>2, <1>3, <1>7 DEF StampsMode
  <2>2. call[p].mode \in Mode
    BY <1>1, <1>7, CallShapes DEF StampsMode
  <2>3. late' \in [Reader -> BOOLEAN]
    BY <1>1, <1>7 DEF StampsMode, DataTypeOK
  <2>. QED  BY <1>1, <1>7, <2>1, <2>2, <2>3 DEF StampsMode, DataTypeOK, DjangoTypeOK, rowVars,
                                              countVars
<1>. QED  BY <1>4, <1>5, <1>6, <1>7, <1>8 DEF Reads

\* A step is one process's, and what others are in the middle of is left.
LEMMA OneMoves ==
  ASSUME DjangoTypeOK, DjangoNext
  PROVE  /\ (\E p \in Setter : Changes(p)) \/ (\E p \in Reader : Reads(p))
         /\ \A p \in Process : Changes(p) \/ Reads(p) =>
              \A q \in Process \ {p} : call'[q] = call[q]
<1>1. (\E p \in Setter : Changes(p)) \/ (\E p \in Reader : Reads(p))
  BY DEF DjangoNext, Changes, GoesOn
<1>2. ASSUME NEW p \in Process, Changes(p) \/ Reads(p), NEW q \in Process \ {p}
      PROVE  call'[q] = call[q]
  <2>1. \E c : Goes(p, c)
    <3>1. CASE Begins(p)
      BY <3>1 DEF Begins
    <3>2. CASE Assigns(p)
      BY <3>2 DEF Assigns
    <3>. QED
      BY <1>2, <3>1, <3>2 DEF Changes, Reads, Asks, Unflags, Flags, Stamps, Raises, Retries,
         LoadBegins, LoadStamps, LoadFails, LoadCommits, Deletes, ChecksConfigs, ReadsRows,
         ReadFails,
         ReadsMode, StampsMode
  <2>. QED  BY <2>1 DEF Goes, DjangoTypeOK, CallsTypeOK
<1>. QED  BY <1>1, <1>2

LEMMA Times ==
  ASSUME DjangoTypeOK, TimeInv, WorkInv, DjangoNext
  PROVE  TimeInv'
<1>1. /\ call \in [Process -> CallType] /\ clock \in Nat
      /\ Setter \subseteq Process /\ Reader \subseteq Process
  BY DEF DjangoTypeOK, CallsTypeOK, DataTypeOK, Process
<1>2. clock' \in Nat /\ clock <= clock'
  <2>1. ASSUME NEW p \in Setter, Changes(p)  PROVE clock' \in {clock, clock + 1}
    BY <2>1 DEF Changes, Asks, Begins, Unflags, Assigns, Flags, Stamps, Raises, Retries, LoadBegins,
       LoadStamps, LoadFails, LoadCommits, Deletes
  <2>2. ASSUME NEW p \in Reader, Reads(p)  PROVE clock' = clock
    BY <2>2 DEF Reads, ChecksConfigs, ReadsRows, ReadFails, ReadsMode, StampsMode
  <2>. QED  BY <1>1, <2>1, <2>2, OneMoves
<1>3. SUFFICES ASSUME NEW p \in Process, Changes(p) \/ Reads(p)
               PROVE  /\ call'[p].at = "commit" => call'[p].stamp <= clock'
                      /\ call'[p].at = "mode" => call'[p].read <= clock'
  <2>1. PICK p \in Process : Changes(p) \/ Reads(p)
    BY <1>1, OneMoves
  <2>2. \A q \in Process \ {p} : call'[q] = call[q]
    BY <2>1, OneMoves
  <2>3. ASSUME NEW q \in Process \ {p}
        PROVE  /\ call'[q].at = "commit" => call'[q].stamp <= clock'
               /\ call'[q].at = "mode" => call'[q].read <= clock'
    <3>1. /\ call[q].at = "commit" => call[q].stamp \in Nat /\ call[q].stamp <= clock
          /\ call[q].at = "mode" => call[q].read \in Nat /\ call[q].read <= clock
      BY <1>1, CallShapes DEF TimeInv
    <3>. QED  BY <1>1, <1>2, <2>2, <3>1
  <2>. QED  BY <1>3, <2>1, <2>3 DEF TimeInv
<1>4. CASE LoadStamps(p)
  BY <1>1, <1>2, <1>4 DEF LoadStamps, Goes
<1>5. CASE ReadsMode(p)
  BY <1>1, <1>2, <1>5 DEF ReadsMode, Goes
<1>6. CASE ~LoadStamps(p) /\ ~ReadsMode(p)
  <2>1. call'[p].at \notin {"commit", "mode"}
    <3>1. CASE Begins(p)
      BY <1>1, <3>1 DEF Begins, Goes, Idle, Setting
    <3>2. CASE Assigns(p)
      BY <1>1, <3>2 DEF Assigns, Goes, Idle, Moved, At, Setting
    <3>. QED
      BY <1>1, <1>3, <1>6, <3>1, <3>2 DEF Changes, Reads, Asks, Unflags, Flags, Stamps, Raises,
         Retries, LoadBegins, LoadFails, LoadCommits, Deletes, ChecksConfigs, ReadsRows,
         ReadFails, StampsMode,
         Goes, Idle, Setting, At, Moved
  <2>. QED  BY <2>1
<1>. QED  BY <1>4, <1>5, <1>6

LEMMA Works ==
  ASSUME DjangoTypeOK, WorkInv, DjangoNext
  PROVE  WorkInv'
<1>1. /\ call \in [Process -> CallType] /\ config \in [Logger -> NameOrNone]
      /\ Setter \subseteq Process /\ Reader \subseteq Process
  BY DEF DjangoTypeOK, CallsTypeOK, DataTypeOK, Process
<1> DEFINE Fine(c, p) ==
      c.at \in Working =>
        /\ p \in Setter
        /\ c.todo # {} /\ c.todo \subseteq Todo(c.request)
        /\ c.at # "unflag" => c.doing \in c.todo
        /\ c.at = "flag" => Target(c.request, c.doing) \in ConfigName
<1>2. /\ WorkInv <=> \A p \in Process : Fine(call[p], p)
      /\ WorkInv' <=> \A p \in Process : Fine(call'[p], p)
  BY DEF WorkInv
<1>3. SUFFICES ASSUME NEW p \in Process, (Changes(p) /\ p \in Setter) \/ Reads(p)
               PROVE  Fine(call'[p], p)
  <2>1. PICK p \in Process : (Changes(p) /\ p \in Setter) \/ Reads(p)
    BY <1>1, OneMoves
  <2>2. \A q \in Process \ {p} : call'[q] = call[q]
    BY <2>1, OneMoves
  <2>. QED  BY <1>2, <1>3, <2>1, <2>2
<1>4. CASE Begins(p) /\ p \in Setter
  <2>1. CASE active_mode = NONE
    BY <1>1, <1>4, <2>1 DEF Begins, Goes, Idle, Working
  <2>2. CASE active_mode # NONE
    <3>1. call'[p] = Setting("unflag", call[p].request, Todo(call[p].request), NONE, config,
                             generation)
      BY <1>1, <1>4, <2>2 DEF Begins, Goes
    <3>2. Todo(call[p].request) # {}
      BY DjangoAssumption DEF Todo
    <3>. QED  BY <1>4, <3>1, <3>2 DEF Setting
  <2>. QED  BY <2>1, <2>2
<1>5. CASE Unflags(p) /\ p \in Setter
  <2>1. call'[p] = At(p, "assign", call[p].todo, NextLogger(p))
    BY <1>1, <1>5 DEF Unflags, Goes
  <2>2. call[p].todo # {} /\ call[p].todo \subseteq Todo(call[p].request)
    BY <1>5 DEF Unflags, WorkInv, Working
  <2>3. NextLogger(p) \in call[p].todo
    BY <2>2 DEF NextLogger
  <2>. QED  BY <1>5, <2>1, <2>2, <2>3 DEF At, Setting
<1>6. ASSUME call[p].at \in Working, call'[p] = Moved(p), p \in Setter
      PROVE  Fine(call'[p], p)
  <2>1. call[p].todo \subseteq Todo(call[p].request)
    BY <1>6 DEF WorkInv
  <2>. QED  BY <1>6, <2>1 DEF Moved, At, Setting, Working
<1>7. CASE Assigns(p) /\ p \in Setter
  <2> DEFINE l == call[p].doing
             n == Target(call[p].request, l)
  <2>1. /\ call[p].at \in Working /\ call[p].request \in Request
        /\ l \in call[p].todo /\ call[p].todo \subseteq Todo(call[p].request)
    BY <1>1, <1>7, CallShapes DEF Assigns, Working, WorkInv
  <2>2. n \in ConfigName \cup {NONE, REFUSED} /\ NONE # REFUSED
    BY <2>1, Targets, DjangoAssumption
  <2>3. CASE n = REFUSED
    <3>1. Goes(p, Idle)
      BY <1>7, <2>2, <2>3 DEF Assigns
    <3>. QED  BY <1>1, <3>1 DEF Goes, Idle, Working
  <2>4. CASE n = NONE
    <3>1. Goes(p, Moved(p))
      BY <1>7, <2>2, <2>4 DEF Assigns
    <3>. QED  BY <1>1, <1>6, <1>7, <2>1, <3>1 DEF Goes
  <2>5. CASE n \in ConfigName /\ n # NONE /\ n # REFUSED
    <3>1. Goes(p, At(p, "flag", call[p].todo, l))
      BY <1>7, <2>5 DEF Assigns
    <3>2. call'[p] = Setting("flag", call[p].request, call[p].todo, l, call[p].read, call[p].gen)
      BY <1>1, <3>1 DEF Goes, At
    <3>. QED  BY <1>7, <2>1, <2>5, <3>2 DEF Setting
  <2>. QED  BY <2>2, <2>3, <2>4, <2>5
<1>8. CASE Flags(p) /\ p \in Setter
  BY <1>1, <1>6, <1>8 DEF Flags, Goes, Working
<1>9. CASE ~Begins(p) /\ ~Unflags(p) /\ ~Assigns(p) /\ ~Flags(p)
  <2>1. call'[p].at \notin Working
    BY <1>1, <1>3, <1>9 DEF Changes, Reads, Asks, Stamps, Raises, Retries, LoadBegins, LoadStamps,
       LoadFails, LoadCommits, Deletes, ChecksConfigs, ReadsRows, ReadFails,
       ReadsMode, StampsMode, Goes, Idle,
       Setting, Working
  <2>. QED  BY <2>1
<1>10. CASE Reads(p)
  <2>1. call'[p].at \notin Working
    BY <1>1, <1>10 DEF Reads, ChecksConfigs, ReadsRows, ReadFails,
         ReadsMode, StampsMode, Goes, Idle, Working
  <2>. QED  BY <2>1
<1>. QED  BY <1>3, <1>4, <1>5, <1>7, <1>8, <1>9, <1>10

-----------------------------------------------------------------------------
(***************************************************************************)
(* What the readers' caches hold.                                          *)
(***************************************************************************)
LEMMA RowsReadKept ==
  ASSUME DjangoTypeOK, TimeInv, RowsRead, DjangoNext
  PROVE  RowsRead'
<1>1. /\ call \in [Process -> CallType] /\ clock \in Nat /\ last_update \in 0..clock
      /\ changed \in 0..clock /\ logger_configs_time \in [Reader -> 0..clock]
      /\ DOMAIN logger_configs = Reader /\ DOMAIN unread = Reader /\ Setter \cap Reader = {}
      /\ Setter \subseteq Process /\ Reader \subseteq Process
  BY DjangoAssumption DEF DjangoTypeOK, CallsTypeOK, DataTypeOK, Process
<1>2. SUFFICES ASSUME NEW r \in Reader, call'[r].at # "rows", last_update' > changed',
                      ConfigsFresh(r)', ~unread'[r]
               PROVE  logger_configs'[r] = CurrentRows'
  BY DEF RowsRead
<1>3. CASE \E p \in Setter : Changes(p)
  <2>1. PICK p \in Setter : Changes(p)
    BY <1>3
  <2>2. call'[r] = call[r] /\ UNCHANGED cacheVars
    <3>1. UNCHANGED cacheVars
      BY <2>1 DEF Changes, Asks, Begins, Unflags, Assigns, Flags, Stamps, Raises, Retries,
         LoadBegins, LoadStamps, LoadFails, LoadCommits, Deletes
    <3>. QED  BY <1>1, <1>2, <2>1, <3>1, OneMoves
  <2>3. CASE Unflags(p) \/ Flags(p) \/ Deletes(p)
    BY <1>1, <1>2, <2>3 DEF Unflags, Flags, Deletes
  <2>4. CASE LoadCommits(p)
    <3>1. last_update' = call[p].stamp /\ changed' = clock
      BY <2>4 DEF LoadCommits
    <3>2. call[p].stamp \in Nat /\ call[p].stamp <= clock
      BY <1>1, <2>4, CallShapes DEF LoadCommits, TimeInv
    <3>. QED  BY <1>1, <1>2, <3>1, <3>2
  <2>5. CASE Stamps(p)
    <3>1. last_update' = clock + 1 /\ logger_configs_time'[r] <= clock
      BY <1>1, <2>2, <2>5 DEF Stamps, cacheVars
    <3>. QED  BY <1>1, <1>2, <2>2, <3>1 DEF ConfigsFresh, cacheVars
  <2>6. CASE ~Unflags(p) /\ ~Flags(p) /\ ~Deletes(p) /\ ~LoadCommits(p) /\ ~Stamps(p)
    <3>1. UNCHANGED <<generation, current, last_update, changed>>
      BY <2>1, <2>6 DEF Changes, Asks, Begins, Assigns, Raises, Retries, LoadBegins, LoadStamps,
         LoadFails, rowVars, seenVars
    <3>. QED  BY <1>2, <2>2, <3>1 DEF RowsRead, ConfigsFresh, CurrentRows, cacheVars
  <2>. QED  BY <2>3, <2>4, <2>5, <2>6
<1>4. CASE \E p \in Reader : Reads(p)
  <2>1. PICK p \in Reader : Reads(p)
    BY <1>4
  <2>2. UNCHANGED <<generation, current, last_update, changed>>
    BY <2>1 DEF Reads, ChecksConfigs, ReadsRows, ReadFails,
         ReadsMode, StampsMode, rowVars, seenVars
  <2>3. CASE r # p
    <3>1. /\ call'[r] = call[r] /\ logger_configs'[r] = logger_configs[r]
          /\ logger_configs_time'[r] = logger_configs_time[r] /\ unread'[r] = unread[r]
      <4>1. call'[r] = call[r]
        BY <1>1, <1>2, <2>1, <2>3, OneMoves
      <4>. QED  BY <1>1, <1>2, <2>1, <2>3, <4>1 DEF Reads, ChecksConfigs, ReadsRows,
           ReadFails, ReadsMode,
                                                     StampsMode, cacheVars
    <3>. QED  BY <1>2, <2>2, <3>1 DEF RowsRead, ConfigsFresh, CurrentRows
  <2>4. CASE r = p /\ ChecksConfigs(p)
    BY <1>1, <1>2, <2>4 DEF ChecksConfigs, Goes
  <2>5. CASE r = p /\ ReadsRows(p)
    BY <1>1, <1>2, <2>2, <2>5 DEF ReadsRows, CurrentRows
  <2>6. CASE r = p /\ (ReadsMode(p) \/ StampsMode(p))
    <3>1. /\ call[p].at # "rows"
          /\ UNCHANGED <<logger_configs, logger_configs_time, unread>>
      BY <2>6 DEF ReadsMode, StampsMode, cacheVars, Idle
    <3>. QED  BY <1>2, <2>2, <2>6, <3>1 DEF RowsRead, ConfigsFresh, CurrentRows
  <2>7. CASE r = p /\ ReadFails(p)
    BY <1>1, <1>2, <2>7 DEF ReadFails
  <2>. QED  BY <2>1, <2>3, <2>4, <2>5, <2>6, <2>7 DEF Reads
<1>. QED  BY <1>3, <1>4, OneMoves

LEMMA ModeReadKept ==
  ASSUME DjangoTypeOK, TimeInv, ModeRead, DjangoNext
  PROVE  ModeRead'
<1>1. /\ call \in [Process -> CallType] /\ clock \in Nat /\ last_update \in 0..clock
      /\ mode_changed \in 0..clock /\ active_mode_time \in [Reader -> 0..clock]
      /\ DOMAIN cached_mode = Reader /\ DOMAIN late = Reader /\ Setter \cap Reader = {}
      /\ Setter \subseteq Process /\ Reader \subseteq Process
  BY DjangoAssumption DEF DjangoTypeOK, CallsTypeOK, DataTypeOK, Process
<1>2. \A r \in Reader : call[r].at = "mode" => call[r].read \in Nat /\ call[r].read <= clock
  BY <1>1, CallShapes DEF TimeInv
<1>3. SUFFICES ASSUME NEW r \in Reader, last_update' > mode_changed'
               PROVE  /\ ModeFresh(r)' /\ ~late'[r] => cached_mode'[r] = active_mode'
                      /\ call'[r].at = "mode" /\ call'[r].read >= last_update'
                           => call'[r].mode = active_mode'
  BY DEF ModeRead
<1>4. CASE \E p \in Setter : Changes(p)
  <2>1. PICK p \in Setter : Changes(p)
    BY <1>4
  <2>2. call'[r] = call[r] /\ UNCHANGED <<cacheVars, late>>
    <3>1. UNCHANGED <<cacheVars, late>>
      BY <2>1 DEF Changes, Asks, Begins, Unflags, Assigns, Flags, Stamps, Raises, Retries,
         LoadBegins, LoadStamps, LoadFails, LoadCommits, Deletes, seenVars
    <3>. QED  BY <1>1, <1>3, <2>1, <3>1, OneMoves
  <2>3. CASE Deletes(p)
    BY <1>1, <1>3, <2>3 DEF Deletes
  <2>4. CASE LoadCommits(p)
    <3>1. last_update' = call[p].stamp /\ mode_changed' = clock
      BY <2>4 DEF LoadCommits
    <3>2. call[p].stamp \in Nat /\ call[p].stamp <= clock
      BY <1>1, <2>4, CallShapes DEF LoadCommits, TimeInv
    <3>. QED  BY <1>1, <1>3, <3>1, <3>2
  <2>5. CASE Stamps(p)
    <3>1. last_update' = clock + 1 /\ active_mode_time'[r] <= clock
      BY <1>1, <2>2, <2>5 DEF Stamps, cacheVars
    <3>. QED  BY <1>1, <1>2, <2>2, <3>1 DEF ModeFresh, cacheVars
  <2>6. CASE Begins(p)
    <3>1. last_update' = last_update /\ mode_changed' \in {clock, mode_changed}
      BY <2>6 DEF Begins
    <3>2. UNCHANGED <<active_mode, last_update, mode_changed>>
      <4>1. mode_changed' # clock
        BY <1>1, <1>3, <3>1
      <4>. QED  BY <2>6, <3>1, <4>1 DEF Begins
    <3>. QED  BY <1>3, <2>2, <3>2 DEF ModeRead, ModeFresh, cacheVars
  <2>7. CASE ~Begins(p) /\ ~Deletes(p) /\ ~LoadCommits(p) /\ ~Stamps(p)
    <3>1. UNCHANGED <<active_mode, last_update, mode_changed>>
      BY <2>1, <2>7 DEF Changes, Asks, Unflags, Assigns, Flags, Raises, Retries, LoadBegins,
         LoadStamps, LoadFails, rowVars, seenVars
    <3>. QED  BY <1>3, <2>2, <3>1 DEF ModeRead, ModeFresh, cacheVars
  <2>. QED  BY <2>3, <2>4, <2>5, <2>6, <2>7
<1>5. CASE \E p \in Reader : Reads(p)
  <2>1. PICK p \in Reader : Reads(p)
    BY <1>5
  <2>2. UNCHANGED <<active_mode, last_update, mode_changed>>
    BY <2>1 DEF Reads, ChecksConfigs, ReadsRows, ReadFails,
         ReadsMode, StampsMode, rowVars, seenVars
  <2>3. CASE r # p
    <3>1. /\ call'[r] = call[r] /\ cached_mode'[r] = cached_mode[r] /\ late'[r] = late[r]
          /\ active_mode_time'[r] = active_mode_time[r]
      <4>1. call'[r] = call[r]
        BY <1>1, <1>3, <2>1, <2>3, OneMoves
      <4>. QED  BY <1>1, <1>3, <2>1, <2>3, <4>1 DEF Reads, ChecksConfigs, ReadsRows,
           ReadFails, ReadsMode,
                                                     StampsMode, cacheVars, seenVars
    <3>. QED  BY <1>3, <2>2, <3>1 DEF ModeRead, ModeFresh
  <2>4. CASE r = p /\ (ChecksConfigs(p) \/ ReadsRows(p) \/ ReadFails(p))
    <3>1. call'[r].at # "mode" /\ UNCHANGED <<cached_mode, active_mode_time, late>>
      BY <1>1, <2>4 DEF ChecksConfigs, ReadsRows, ReadFails, Goes, Idle, seenVars
    <3>. QED  BY <1>3, <2>2, <3>1 DEF ModeRead, ModeFresh
  <2>5. CASE r = p /\ ReadsMode(p)
    <3>1. /\ call'[r].mode = active_mode
          /\ UNCHANGED <<cached_mode, active_mode_time, late>>
      BY <1>1, <2>5 DEF ReadsMode, Goes, cacheVars, seenVars
    <3>. QED  BY <1>3, <2>2, <3>1 DEF ModeRead, ModeFresh
  <2>6. CASE r = p /\ StampsMode(p)
    <3>1. call'[r].at # "mode" /\ cached_mode'[r] = call[r].mode /\ call[r].at = "mode"
      BY <1>1, <2>6 DEF StampsMode, Goes, Idle
    <3>2. late'[r] = (last_update > call[r].read)
      BY <1>1, <2>6 DEF StampsMode
    <3>3. ~late'[r] => ~(last_update > call[r].read)
      BY <3>2, Zenon
    <3>4. ~(last_update > call[r].read) => call[r].read >= last_update
      BY <1>1, <1>2, <3>1
    <3>. QED  BY <1>3, <2>2, <3>1, <3>3, <3>4 DEF ModeRead
  <2>. QED  BY <2>1, <2>3, <2>4, <2>5, <2>6 DEF Reads
<1>. QED  BY <1>4, <1>5, OneMoves

-----------------------------------------------------------------------------
(***************************************************************************)
(* The flags.                                                              *)
(***************************************************************************)
LEMMA RowsKept ==
  ASSUME DjangoTypeOK, WorkInv, RowsInv, DjangoNext
  PROVE  RowsInv'
<1>1. /\ call \in [Process -> CallType] /\ generation \in Nat
      /\ config \in [Logger -> NameOrNone] /\ active_mode \in Mode \cup {NONE}
      /\ Setter \subseteq Process /\ Reader \subseteq Process
      /\ NONE \notin Mode /\ NONE \notin ConfigName
  BY DjangoAssumption DEF DjangoTypeOK, CallsTypeOK, DataTypeOK, Process
<1>2. \A p \in Process : call[p].at \in Working => call[p].gen \in Nat
  BY <1>1, CallShapes
<1>3. ASSUME NEW p \in Process, \A q \in Process \ {p} : call'[q] = call[q],
             UNCHANGED <<generation, active_mode>>,
             call'[p].at \in Working => call[p].at \in Working /\ call'[p].gen = call[p].gen
      PROVE  /\ \A q \in Process : call'[q].at \in Working => call'[q].gen <= generation'
             /\ \A q \in Process : Running(q)' => active_mode' # NONE
  BY <1>3 DEF RowsInv, Running
<1>4. CASE \E p \in Reader : Reads(p)
  <2>1. PICK p \in Reader : Reads(p)
    BY <1>4
  <2>2. call'[p].at \notin Working /\ UNCHANGED <<generation, active_mode, config>>
    BY <1>1, <2>1 DEF Reads, ChecksConfigs, ReadsRows, ReadFails,
         ReadsMode, StampsMode, Goes, Idle, Working,
       rowVars
  <2>. QED  BY <1>1, <1>3, <2>1, <2>2, OneMoves DEF RowsInv
<1>5. CASE \E p \in Setter : Changes(p)
  <2>1. PICK p \in Setter : Changes(p)
    BY <1>5
  <2>2. \A q \in Process \ {p} : call'[q] = call[q]
    BY <1>1, <2>1, OneMoves
  <2>3. CASE Begins(p)
    <3>1. CASE active_mode = NONE
      <4>1. call'[p].at \notin Working /\ UNCHANGED <<generation, active_mode, config>>
        BY <1>1, <2>3, <3>1 DEF Begins, Goes, Idle, Working
      <4>. QED  BY <1>1, <1>3, <2>2, <4>1 DEF RowsInv
    <3>2. CASE active_mode # NONE
      <4>1. /\ call'[p].gen = generation /\ UNCHANGED <<generation, config>>
            /\ active_mode' \in {active_mode, call[p].request.mode}
        BY <1>1, <2>3, <3>2 DEF Begins, Goes, Setting
      <4>2. active_mode' # NONE
        BY <2>3, <3>2 DEF Begins
      <4>3. \A q \in Process : call'[q].at \in Working => call'[q].gen <= generation'
        BY <1>1, <1>2, <2>2, <4>1 DEF RowsInv
      <4>. QED  BY <4>1, <4>2, <4>3 DEF RowsInv
    <3>. QED  BY <3>1, <3>2
  <2>4. CASE Unflags(p) \/ Flags(p)
    <3>1. call[p].at \in Working /\ UNCHANGED <<generation, active_mode, config>>
      BY <2>4 DEF Unflags, Flags, Working
    <3>2. call'[p].gen = call[p].gen
      BY <1>1, <2>4 DEF Unflags, Flags, Goes, Moved, At, Setting
    <3>. QED  BY <1>1, <1>3, <2>2, <3>1, <3>2 DEF RowsInv
  <2>5. CASE Assigns(p)
    <3> DEFINE l == call[p].doing
               n == Target(call[p].request, l)
    <3>1. /\ call[p].at \in Working /\ UNCHANGED <<generation, active_mode>>
          /\ Running(p) /\ active_mode # NONE
      BY <1>1, <2>5 DEF Assigns, Working, Alive, Running, RowsInv
    <3>2. call[p].request \in Request /\ l \in Todo(call[p].request)
      BY <1>1, <2>5, CallShapes DEF Assigns, Working, WorkInv
    <3>3. /\ n \in ConfigName \cup {NONE, REFUSED} /\ NONE # REFUSED
          /\ l \in Logger /\ n \in ConfigName => LoggerOf[n] = l
      BY <3>2, Targets, DjangoAssumption
    <3>4. call'[p].at \in Working => call'[p].gen = call[p].gen
      <4>1. \E c \in {Idle, Moved(p), At(p, "flag", call[p].todo, l)} : Goes(p, c)
        BY <2>5 DEF Assigns
      <4>. QED  BY <1>1, <4>1 DEF Goes, Idle, Moved, At, Setting, Working
    <3>5. \A k \in Logger : config'[k] # NONE => LoggerOf[config'[k]] = k
      <4>1. CASE n \in {NONE, REFUSED}
        <5>1. UNCHANGED config
          BY <2>5, <3>3, <4>1 DEF Assigns
        <5>. QED  BY <5>1 DEF RowsInv
      <4>2. CASE n \in ConfigName /\ n \notin {NONE, REFUSED}
        <5>1. config' = [config EXCEPT ![l] = n]
          BY <2>5, <4>2 DEF Assigns
        <5>. QED  BY <1>1, <3>3, <4>2, <5>1 DEF RowsInv
      <4>. QED  BY <3>3, <4>1, <4>2
    <3>. QED  BY <1>1, <1>3, <2>2, <3>1, <3>4, <3>5 DEF RowsInv
  <2>6. CASE LoadCommits(p)
    <3>1. /\ \A l \in Logger : config'[l] # NONE => LoggerOf[config'[l]] = l
          /\ active_mode' # NONE /\ generation' = generation + 1 /\ call'[p].at \notin Working
      <4>1. \A l \in Logger : LoggerOf[ModeConfigs[DefaultMode][l]] = l
        BY DjangoAssumption
      <4>2. /\ \A l \in Logger : config'[l] \in {config[l], ModeConfigs[DefaultMode][l]}
            /\ active_mode' \in {active_mode, DefaultMode} /\ generation' = generation + 1
            /\ active_mode' # NONE /\ call'[p].at \notin Working
        BY <1>1, <2>6, DjangoAssumption DEF LoadCommits, Goes, Idle, Working
      <4>. QED  BY <4>1, <4>2 DEF RowsInv
    <3>. QED  BY <1>1, <1>2, <2>2, <3>1 DEF RowsInv
  <2>7. CASE Deletes(p)
    <3>1. /\ \A l \in Logger : config'[l] = NONE
          /\ generation' = generation + 1 /\ call'[p].at \notin Working
      BY <1>1, <2>7 DEF Deletes, Goes, Working
    <3>2. \A q \in Process : call'[q].at \in Working => call'[q].gen <= generation
      BY <2>2, <3>1 DEF RowsInv
    <3>. QED  BY <1>1, <1>2, <2>2, <3>1, <3>2 DEF RowsInv, Running
  <2>8. CASE ~Begins(p) /\ ~Unflags(p) /\ ~Flags(p) /\ ~Assigns(p) /\ ~LoadCommits(p) /\ ~Deletes(p)
    <3>1. call'[p].at \notin Working /\ UNCHANGED <<generation, active_mode, config>>
      BY <1>1, <2>1, <2>8 DEF Changes, Asks, Stamps, Raises, Retries, LoadBegins, LoadStamps,
         LoadFails, Goes, Idle, Setting, Working, rowVars
    <3>. QED  BY <1>1, <1>3, <2>2, <3>1 DEF RowsInv
  <2>. QED  BY <2>3, <2>4, <2>5, <2>6, <2>7, <2>8
<1>. QED  BY <1>4, <1>5, OneMoves

\* A step that leaves the rows alone, starts no call, and gives up no logger
\* that a call was to flag, leaves the flags in order.
LEMMA Quiet ==
  ASSUME FlagsInv, UNCHANGED <<generation, config, current>>,
         \A q \in Process : Running(q)' => Running(q) /\ call'[q] = call[q],
         \A q \in Setter, l \in Logger : config[l] # NONE /\ Covers(q, l) => Covers(q, l)'
  PROVE  FlagsInv'
<1>1. \A q \in Process : Running(q)' => Running(q) /\ call'[q] = call[q]
  OBVIOUS
<1>2. (\A p, q \in Process : Running(p) /\ Running(q) => p = q)'
  BY <1>1 DEF FlagsInv
<1>3. (\A p \in Process : Running(p) => \A l \in call[p].todo :
         IF call[p].at = "flag" /\ l = call[p].doing
         THEN config[l] = Target(call[p].request, l)
         ELSE config[l] = call[p].read[l])'
  BY <1>1 DEF FlagsInv
<1>4. (\A p \in Process : Running(p) /\ call[p].at = "assign" =>
         call[p].read[call[p].doing] \notin current)'
  BY <1>1 DEF FlagsInv
<1>5. (current \subseteq {config[l] : l \in Logger} \ {NONE})'
  BY DEF FlagsInv
<1>6. (\A l \in Logger :
         config[l] # NONE /\ config[l] \notin current => \E p \in Setter : Covers(p, l))'
  BY DEF FlagsInv
<1>. QED  BY <1>2, <1>3, <1>4, <1>5, <1>6 DEF FlagsInv

\* New rows: nothing is running on them.
LEMMA NewRows ==
  ASSUME DjangoTypeOK, WorkInv, RowsInv, NEW p \in Setter, LoadCommits(p) \/ Deletes(p)
  PROVE  FlagsInv'
<1>1. /\ call \in [Process -> CallType] /\ generation \in Nat
      /\ config \in [Logger -> NameOrNone] /\ Setter \subseteq Process
      /\ NONE \notin ConfigName
  BY DjangoAssumption DEF DjangoTypeOK, CallsTypeOK, DataTypeOK, Process
<1>2. \A q \in Process \ {p} : call'[q] = call[q]
  BY <1>1 DEF LoadCommits, Deletes, Goes
<1>3. generation' = generation + 1 /\ call'[p].at \notin Working
  BY <1>1 DEF LoadCommits, Deletes, Goes, Idle, Working
<1>4. \A q \in Process : ~Running(q)'
  <2>1. \A q \in Process : call[q].at \in Working => call[q].gen \in Nat /\ call[q].gen <= generation
    BY <1>1, CallShapes DEF RowsInv
  <2>. QED  BY <1>1, <1>2, <1>3, <2>1 DEF Running
<1>5. \A l \in Logger : config'[l] = NONE \/ config'[l] \in current'
  BY DEF LoadCommits, Deletes
<1>6. current' \subseteq {config'[l] : l \in Logger} \ {NONE}
  <2>1. CASE LoadCommits(p)
    <3>1. \A l \in Logger : ModeConfigs[DefaultMode][l] # NONE
      BY DjangoAssumption
    <3>2. current' = {config'[l] : l \in Logger} /\ \A l \in Logger : config'[l] # NONE
      BY <2>1, <3>1 DEF LoadCommits
    <3>. QED  BY <3>2
  <2>2. CASE Deletes(p)
    BY <2>2 DEF Deletes
  <2>. QED  BY <2>1, <2>2
<1>. QED  BY <1>4, <1>5, <1>6 DEF FlagsInv

LEMMA FlagsKept ==
  ASSUME DjangoTypeOK, WorkInv, RowsInv, ~muddled => FlagsInv, DjangoNext, ~muddled'
  PROVE  FlagsInv'
<1>1. /\ call \in [Process -> CallType] /\ generation \in Nat
      /\ config \in [Logger -> NameOrNone]
      /\ Setter \subseteq Process /\ Reader \subseteq Process
      /\ NONE \notin ConfigName /\ NONE # REFUSED
  BY DjangoAssumption DEF DjangoTypeOK, CallsTypeOK, DataTypeOK, Process
<1>2. \A q \in Process : Running(q) => q \in Setter
  BY DEF WorkInv, Running
<1>3. CASE \E p \in Reader : Reads(p)
  <2>1. PICK p \in Reader : Reads(p)
    BY <1>3
  <2>2. \A q \in Process \ {p} : call'[q] = call[q]
    BY <1>1, <2>1, OneMoves
  <2>3. /\ call'[p].at \notin Working /\ UNCHANGED <<generation, config, current, muddled>>
        /\ p \notin Setter
    BY <1>1, <2>1, DjangoAssumption DEF Reads, ChecksConfigs, ReadsRows, ReadFails,
         ReadsMode, StampsMode,
       Goes, Idle, Working, rowVars, seenVars
  <2>4. \A q \in Process : Running(q)' => Running(q) /\ call'[q] = call[q]
    BY <2>2, <2>3 DEF Running
  <2>5. \A q \in Setter, l \in Logger : config[l] # NONE /\ Covers(q, l) => Covers(q, l)'
    BY <1>1, <2>2, <2>3 DEF Covers, Running
  <2>. QED  BY <2>3, <2>4, <2>5, Quiet
<1>4. CASE \E p \in Setter : LoadCommits(p) \/ Deletes(p)
  BY <1>4, NewRows
<1>5. ASSUME NEW p \in Setter, Changes(p), ~LoadCommits(p), ~Deletes(p)
      PROVE  FlagsInv'
  <2>1. \A q \in Process \ {p} : call'[q] = call[q]
    BY <1>1, <1>5, OneMoves
  <2>2. ~muddled /\ UNCHANGED generation
    <3>1. CASE Begins(p)
      BY <3>1 DEF Begins
    <3>2. CASE Assigns(p)
      <4>1. (UNCHANGED muddled \/ muddled' = TRUE) /\ UNCHANGED generation
        BY <3>2 DEF Assigns
      <4>. QED  BY <4>1
    <3>. QED
      BY <1>5, <3>1, <3>2 DEF Changes, Asks, Unflags, Flags, Stamps, Raises, Retries, LoadBegins,
         LoadStamps, LoadFails, rowVars, seenVars
  <2>3. FlagsInv
    BY <2>2
  <2>4. ASSUME Running(p)  PROVE \A q \in Process \ {p} : ~Running(q) /\ ~Running(q)'
    BY <1>1, <2>1, <2>2, <2>3, <2>4 DEF FlagsInv, Running
  <2>5. CASE Begins(p) /\ active_mode # NONE
    <3>1. call'[p] = Setting("unflag", call[p].request, Todo(call[p].request), NONE, config,
                             generation)
      BY <1>1, <2>5 DEF Begins, Goes
    <3>2. /\ call'[p].at = "unflag" /\ call'[p].todo = Todo(call[p].request)
          /\ call'[p].read = config /\ call[p].at = "begin" /\ Running(p)'
          /\ UNCHANGED <<config, current>>
      BY <2>2, <2>5, <3>1 DEF Setting, Begins, Running, Working
    <3>3. \A q \in Process \ {p} : ~Running(q)'
      BY <1>1, <2>1, <2>5 DEF Begins, Overlaps, Running
    <3>4. \A q \in Setter, l \in Logger : Covers(q, l) => Covers(q, l)'
      BY <1>1, <2>1, <2>2, <3>2 DEF Covers, Running, Working
    <3>5. (\A l \in Logger :
             config[l] # NONE /\ config[l] \notin current => \E q \in Setter : Covers(q, l))'
      BY <2>3, <3>2, <3>4 DEF FlagsInv
    <3>. QED  BY <2>3, <3>2, <3>3, <3>5 DEF FlagsInv
  <2>6. CASE Unflags(p)
    <3> DEFINE k == NextLogger(p)
    <3>1. /\ Running(p) /\ call[p].at = "unflag" /\ call[p].todo # {}
          /\ call[p].todo \subseteq Logger
      BY <1>1, <2>6, CallShapes DEF Unflags, Alive, Running, Working, WorkInv
    <3>2. k \in call[p].todo
      BY <3>1 DEF NextLogger
    <3>3. /\ call'[p].at = "assign" /\ call'[p].doing = k /\ call'[p].read = call[p].read
          /\ call'[p].todo = call[p].todo /\ Running(p)'
          /\ current' = current \ {call[p].read[k]} /\ UNCHANGED config
      BY <1>1, <2>2, <2>6, <3>1 DEF Unflags, Goes, At, Setting, Running, Working
    <3>4. \A q \in Process \ {p} : ~Running(q)'
      BY <2>4, <3>1
    <3>5. \A q \in Setter, l \in Logger : Covers(q, l) => Covers(q, l)'
      BY <1>1, <2>1, <2>2, <3>1, <3>3 DEF Covers, Running
    <3>6. config[k] = call[p].read[k] /\ Covers(p, k)
      BY <1>1, <2>3, <3>1, <3>2 DEF FlagsInv, Covers
    <3>7. (\A l \in Logger :
             config[l] # NONE /\ config[l] \notin current => \E q \in Setter : Covers(q, l))'
      <4>1. SUFFICES ASSUME NEW l \in Logger, config[l] # NONE, config[l] \notin current'
                     PROVE  \E q \in Setter : Covers(q, l)
        BY <3>3, <3>5
      <4>2. CASE config[l] \notin current
        BY <2>3, <4>1, <4>2 DEF FlagsInv
      <4>3. CASE config[l] = config[k]
        <5>1. l = k
          BY <3>1, <3>2, <4>1, <4>3 DEF RowsInv
        <5>. QED  BY <3>6, <5>1
      <4>. QED  BY <3>3, <3>6, <4>1, <4>2, <4>3
    <3>8. (\A q \in Process : Running(q) => \A l \in call[q].todo :
             IF call[q].at = "flag" /\ l = call[q].doing
             THEN config[l] = Target(call[q].request, l)
             ELSE config[l] = call[q].read[l])'
      <4>1. \A l \in call[p].todo : config[l] = call[p].read[l]
        BY <1>1, <2>3, <3>1 DEF FlagsInv
      <4>. QED  BY <3>3, <3>4, <4>1
    <3>9. current' \subseteq {config[l] : l \in Logger} \ {NONE}
      BY <2>3, <3>3 DEF FlagsInv
    <3>. QED  BY <3>3, <3>4, <3>7, <3>8, <3>9 DEF FlagsInv
  <2>7. CASE Assigns(p)
    <3> DEFINE k == call[p].doing
               n == Target(call[p].request, k)
    <3>1. /\ Running(p) /\ call[p].at = "assign" /\ k \in call[p].todo
          /\ call[p].todo \subseteq Logger /\ call[p].request \in Request
          /\ call[p].todo \subseteq Todo(call[p].request)
      BY <1>1, <2>7, CallShapes DEF Assigns, Alive, Running, Working, WorkInv
    <3>2. n \in ConfigName /\ n # NONE /\ n # REFUSED
      <4>1. n \in ConfigName \cup {NONE, REFUSED}
        BY <3>1, Targets
      <4>2. n \in {NONE, REFUSED} => muddled' = TRUE
        BY <1>1, <2>7 DEF Assigns
      <4>. QED  BY <4>1, <4>2
    <3>3. /\ call'[p] = Setting("flag", call[p].request, call[p].todo, k, call[p].read, call[p].gen)
          /\ config' = [config EXCEPT ![k] = n] /\ UNCHANGED current
      BY <1>1, <2>7, <3>2 DEF Assigns, Goes, At
    <3>4. /\ call'[p].at = "flag" /\ call'[p].doing = k /\ call'[p].read = call[p].read
          /\ call'[p].todo = call[p].todo /\ call'[p].request = call[p].request /\ Running(p)'
      BY <2>2, <3>1, <3>3 DEF Setting, Running, Working
    <3>5. \A q \in Process \ {p} : ~Running(q)'
      BY <2>4, <3>1
    <3>6. \A q \in Setter, l \in Logger : Covers(q, l) => Covers(q, l)'
      BY <1>1, <2>1, <2>2, <3>1, <3>4 DEF Covers, Running
    <3>7. config[k] \notin current /\ Covers(p, k)'
      BY <1>1, <2>3, <3>1, <3>4 DEF FlagsInv, Covers
    <3>8. config'[k] = n /\ \A l \in Logger \ {k} : config'[l] = config[l]
      BY <1>1, <3>1, <3>3
    <3>9. (\A l \in Logger :
             config[l] # NONE /\ config[l] \notin current => \E q \in Setter : Covers(q, l))'
      <4>1. ASSUME NEW l \in Logger, config'[l] # NONE, config'[l] \notin current'
            PROVE  \E q \in Setter : Covers(q, l)'
        <5>1. CASE l = k
          <6>1. Running(p)' /\ l \in call'[p].todo
            BY <3>1, <3>4, <5>1
          <6>. QED  BY <6>1 DEF Covers
        <5>2. CASE l # k
          BY <2>3, <3>3, <3>6, <3>8, <4>1, <5>2 DEF FlagsInv
        <5>. QED  BY <5>1, <5>2
      <4>. QED  BY <4>1
    <3>10. (\A q \in Process : Running(q) => \A l \in call[q].todo :
              IF call[q].at = "flag" /\ l = call[q].doing
              THEN config[l] = Target(call[q].request, l)
              ELSE config[l] = call[q].read[l])'
      <4>1. \A l \in call[p].todo : config[l] = call[p].read[l]
        BY <1>1, <2>3, <3>1 DEF FlagsInv
      <4>2. ASSUME NEW l \in call'[p].todo
            PROVE  IF call'[p].at = "flag" /\ l = call'[p].doing
                   THEN config'[l] = Target(call'[p].request, l)
                   ELSE config'[l] = call'[p].read[l]
        BY <3>1, <3>4, <3>8, <4>1, <4>2
      <4>. QED  BY <3>5, <4>2
    <3>11. current' \subseteq {config'[l] : l \in Logger} \ {NONE}
      BY <2>3, <3>3, <3>7, <3>8 DEF FlagsInv
    <3>. QED  BY <3>4, <3>5, <3>9, <3>10, <3>11 DEF FlagsInv
  <2>8. CASE Flags(p)
    <3> DEFINE k == call[p].doing
               n == Target(call[p].request, k)
    <3>1. /\ Running(p) /\ call[p].at = "flag" /\ k \in call[p].todo
          /\ call[p].todo \subseteq Logger /\ n \in ConfigName
      BY <1>1, <2>8, CallShapes DEF Flags, Alive, Running, Working, WorkInv
    <3>2. /\ call'[p] = Moved(p) /\ current' = current \cup {n} /\ UNCHANGED config
      BY <1>1, <2>8 DEF Flags, Goes
    <3>3. /\ call'[p].at \in {"stamp", "unflag"} /\ call'[p].read = call[p].read
          /\ call'[p].todo = call[p].todo \ {k} /\ call'[p].gen = call[p].gen
          /\ call'[p].todo # {} => call'[p].at = "unflag"
      BY <3>2 DEF Moved, At, Setting
    <3>4. \A q \in Process \ {p} : ~Running(q)'
      BY <2>4, <3>1
    <3>5. config[k] = n
      BY <1>1, <2>3, <3>1 DEF FlagsInv
    <3>6. \A q \in Setter, l \in Logger \ {k} : Covers(q, l) => Covers(q, l)'
      <4>1. \A l \in Logger \ {k} : Covers(p, l) => Covers(p, l)'
        BY <2>2, <3>1, <3>3 DEF Covers, Running, Working
      <4>2. \A q \in Setter \ {p}, l \in Logger \ {k} : Covers(q, l) => Covers(q, l)'
        BY <1>1, <2>1, <2>2 DEF Covers, Running
      <4>. QED  BY <4>1, <4>2
    <3>7. (\A l \in Logger :
             config[l] # NONE /\ config[l] \notin current => \E q \in Setter : Covers(q, l))'
      BY <2>3, <3>2, <3>5, <3>6 DEF FlagsInv
    <3>8. \A l \in call'[p].todo : config'[l] = call'[p].read[l]
      BY <1>1, <2>3, <3>1, <3>2, <3>3 DEF FlagsInv
    <3>9. (\A q \in Process : Running(q) => \A l \in call[q].todo :
             IF call[q].at = "flag" /\ l = call[q].doing
             THEN config[l] = Target(call[q].request, l)
             ELSE config[l] = call[q].read[l])'
      BY <3>3, <3>4, <3>8
    <3>10. current' \subseteq {config'[l] : l \in Logger} \ {NONE}
      BY <1>1, <2>3, <3>1, <3>2, <3>5 DEF FlagsInv
    <3>. QED  BY <3>3, <3>4, <3>7, <3>9, <3>10 DEF FlagsInv
  <2>9. CASE Retries(p)
    <3>1. /\ call'[p] = Setting("begin", call[p].request, {}, NONE, <<>>, generation)
          /\ call[p].at \in Working /\ UNCHANGED <<config, current>>
      BY <1>1, <2>9 DEF Retries, Goes, rowVars
    <3>2. /\ call'[p].at = "begin" /\ call'[p].request = call[p].request
          /\ call[p].todo \subseteq Todo(call[p].request)
      BY <1>1, <3>1 DEF Setting, WorkInv
    <3>3. \A q \in Process : Running(q)' => Running(q) /\ call'[q] = call[q]
      BY <2>1, <2>2, <3>2 DEF Running, Working
    <3>4. \A q \in Setter, l \in Logger : config[l] # NONE /\ Covers(q, l) => Covers(q, l)'
      BY <1>1, <2>1, <2>2, <3>1, <3>2 DEF Covers, Running, Working
    <3>. QED  BY <2>2, <2>3, <3>1, <3>3, <3>4, Quiet
  <2>10. CASE Begins(p) /\ active_mode = NONE
    <3>1. call'[p] = Idle /\ UNCHANGED <<config, current>>
      BY <1>1, <2>10 DEF Begins, Goes
    <3>2. \A q \in Process : Running(q)' => Running(q) /\ call'[q] = call[q]
      BY <2>1, <2>2, <3>1 DEF Running, Idle, Working
    <3>3. \A l \in Logger : config[l] = NONE
      BY <2>10 DEF RowsInv
    <3>. QED  BY <2>2, <2>3, <3>1, <3>2, <3>3, Quiet
  <2>11. CASE ~(Begins(p) \/ Unflags(p) \/ Assigns(p) \/ Flags(p) \/ Retries(p))
    <3>1. /\ call'[p].at \notin Working /\ UNCHANGED <<config, current>>
          /\ call[p].at # "begin" /\ ~Running(p)
      BY <1>1, <1>5, <2>11 DEF Changes, Asks, Stamps, Raises, LoadBegins, LoadStamps, LoadFails, Goes,
         Idle, Setting, Working, Running, rowVars
    <3>2. \A q \in Process : Running(q)' => Running(q) /\ call'[q] = call[q]
      BY <2>1, <2>2, <3>1 DEF Running
    <3>3. \A q \in Setter, l \in Logger : config[l] # NONE /\ Covers(q, l) => Covers(q, l)'
      BY <1>1, <2>1, <2>2, <3>1 DEF Covers, Running
    <3>. QED  BY <2>2, <2>3, <3>1, <3>2, <3>3, Quiet
  <2>. QED  BY <2>5, <2>6, <2>7, <2>8, <2>9, <2>10, <2>11
<1>. QED  BY <1>3, <1>4, <1>5, OneMoves

-----------------------------------------------------------------------------
(***************************************************************************)
(* Theorems.                                                               *)
(***************************************************************************)
Inv ==
  /\ DjangoTypeOK /\ TimeInv /\ WorkInv
  /\ RowsRead /\ ModeRead
  /\ RowsInv /\ (~muddled => FlagsInv)

LEMMA Inductive ==
  /\ DjangoInit => Inv
  /\ Inv /\ [DjangoNext]_djangoVars => Inv'
<1>1. ASSUME DjangoInit  PROVE Inv
  <2> USE <1>1 DEF DjangoInit
  <2>1. CallsTypeOK
    <3>1. Idle \in CallType /\ Idle.at = "idle"
      BY DEF CallType, Idle
    <3>. QED  BY <3>1, DjangoAssumption DEF CallsTypeOK
  <2>2. DataTypeOK
    <3>1. ModeConfigs[DefaultMode] \in [Logger -> ConfigName]
      <4>1. ModeConfigs[DefaultMode] \in [Logger -> ConfigName \cup {NONE}]
        BY DjangoAssumption
      <4>. QED  BY <4>1, DjangoAssumption
    <3>2. /\ config \in [Logger -> NameOrNone] /\ current \in SUBSET ConfigName
          /\ active_mode \in Mode \cup {NONE}
      BY <3>1, DjangoAssumption DEF NameOrNone
    <3>3. /\ clock = 1 /\ last_update \in 0..1 /\ 0 \in 0..1
          /\ calls \in 0..CallBound /\ fails \in 0..FailBound
      BY DjangoAssumption
    <3>4. /\ logger_configs \in [Reader -> SUBSET (Nat \X ConfigName)]
          /\ cached_mode \in [Reader -> Mode \cup {NONE}]
          /\ logger_configs_time \in [Reader -> 0..clock]
          /\ active_mode_time \in [Reader -> 0..clock]
      BY <3>3
    <3>5. late \in [Reader -> BOOLEAN] /\ muddled \in BOOLEAN
      OBVIOUS
    <3>. QED  BY <3>2, <3>3, <3>4, <3>5 DEF DataTypeOK
  <2>3. TimeInv /\ WorkInv
    BY DEF TimeInv, WorkInv, Idle, Working
  <2>4. RowsRead /\ ModeRead
    BY DEF RowsRead, ModeRead, ConfigsFresh, ModeFresh, Idle, Process
  <2>5. RowsInv /\ FlagsInv
    <3>1. \A p \in Process : call[p].at \notin Working /\ ~Running(p)
      BY DEF Idle, Working, Running
    <3>2. \A l \in Logger : config[l] # NONE /\ LoggerOf[config[l]] = l /\ config[l] \in current
      BY DjangoAssumption
    <3>3. current \subseteq {config[l] : l \in Logger} \ {NONE} /\ active_mode # NONE
      BY <3>2, DjangoAssumption
    <3>. QED  BY <3>1, <3>2, <3>3 DEF RowsInv, FlagsInv
  <2>. QED  BY <2>1, <2>2, <2>3, <2>4, <2>5 DEF Inv, DjangoTypeOK
<1>2. ASSUME Inv, DjangoNext  PROVE Inv'
  <2>1. DjangoTypeOK'
    <3>1. ASSUME NEW p \in Setter, Changes(p)  PROVE DjangoTypeOK'
      BY <1>2, <3>1, SetterCalls, SetterData DEF Inv, DjangoTypeOK
    <3>. QED  BY <1>2, <3>1, ReaderTypes, OneMoves DEF Inv
  <2>. QED  BY <1>2, <2>1, Times, Works, RowsReadKept, ModeReadKept, RowsKept, FlagsKept
           DEF Inv
<1>3. ASSUME Inv, UNCHANGED djangoVars  PROVE Inv'
  <2> USE <1>3 DEF Inv, djangoVars, rowVars, cacheVars, countVars, seenVars
  <2>1. CallsTypeOK' /\ DataTypeOK'
    BY DEF DjangoTypeOK, CallsTypeOK, DataTypeOK
  <2>2. TimeInv' /\ WorkInv'
    BY DEF TimeInv, WorkInv
  <2>3. RowsRead' /\ ModeRead'
    BY DEF RowsRead, ModeRead, ConfigsFresh, ModeFresh, CurrentRows
  <2>4. RowsInv' /\ (~muddled => FlagsInv)'
    BY DEF RowsInv, FlagsInv, Running, Covers
  <2>. QED  BY <2>1, <2>2, <2>3, <2>4 DEF DjangoTypeOK
<1>. QED  BY <1>1, <1>2, <1>3

LEMMA Invariant == DjangoSpec => []Inv
  BY Inductive, PTL DEF DjangoSpec

\* What each process is in the middle of, the rows and the caches are always
\* of the kinds the code puts there, and a process in the transaction of
\* load_configuration() is the only one.
THEOREM DjangoTypeCorrect == DjangoSpec => []DjangoTypeOK
<1>1. Inv => DjangoTypeOK
  BY DEF Inv
<1>. QED  BY <1>1, Invariant, PTL

\* get_logger_configs() never answers from a cache that differs from the rows
\* flagged in the database once their last change was followed by a new time
\* of update, whatever processes change them and however often, unless the
\* last reading of the rows raised after it had moved the time of the cache.
THEOREM ConfigsCurrentHolds == DjangoSpec => []ConfigsCurrent
<1>1. Inv => ConfigsCurrent
  BY DEF Inv, RowsRead, ConfigsCurrent, Idle
<1>. QED  BY <1>1, Invariant, PTL

\* Nor does get_active_mode() from an active mode that is no longer so, unless
\* an update was stamped between its reading of the mode and its stamp.
THEOREM ModeCurrentHolds == DjangoSpec => []ModeCurrent
<1>1. Inv => ModeCurrent
  BY DEF Inv, ModeRead, ModeCurrent
<1>. QED  BY <1>1, Invariant, PTL

\* So neither cache gives an answer that is out of date, but for what the two
\* theorems above except.
THEOREM DjangoIsSafe == DjangoSpec => []DjangoSafe
BY DjangoTypeCorrect, ConfigsCurrentHolds, ModeCurrentHolds, PTL DEF DjangoSafe

\* When no call is under way, the configurations flagged as current are those
\* the loggers are set to, each logger's and no other, through retries and
\* loads, unless calls have overlapped or have left a logger without.
THEOREM OneCurrentConfigHolds == DjangoSpec => []OneCurrentConfig
<1>1. ASSUME Inv  PROVE OneCurrentConfig
  <2>1. SUFFICES ASSUME ~muddled, \A p \in Setter : call[p].at \notin {"begin"} \cup Working
                 PROVE  current = {config[l] : l \in Logger} \ {NONE}
    BY DEF OneCurrentConfig
  <2>2. FlagsInv
    BY <1>1, <2>1 DEF Inv
  <2>3. \A p \in Setter, l \in Logger : ~Covers(p, l)
    BY <2>1 DEF Covers, Running
  <2>. QED  BY <2>2, <2>3 DEF FlagsInv
<1>. QED  BY <1>1, Invariant, PTL

-----------------------------------------------------------------------------
(***************************************************************************)
(* SQLiteServerAPI, for every set of definitions and of commands as well.  *)
(***************************************************************************)
Ops == {"look", "fetch", "mode", "name", "default", "assign", "clear", "save", "stamp"}
Args ==
  {NONE} \cup {Default[d] : d \in Definition} \cup Definition
  \cup {c[2] : c \in Command} \cup {<<c[2][1], c[2][2]>> : c \in Command}
StepType == [op : Ops, arg : Args]

TypeInv ==
  /\ s_saved \in S!Configurations \cup {NONE}
  /\ s_clock \in Nat /\ s_db_time \in 0..s_clock
  /\ s_held \in [S!Process -> S!Configurations \cup {NONE}]
  /\ s_timestamp \in [S!Process -> 0..s_db_time]
  /\ s_seen \in [S!Process -> 0..s_db_time]
  /\ s_script \in [S!Process -> Seq(StepType)]
  /\ s_disturbed \in [S!Process -> BOOLEAN]
  /\ s_commands \in 0..CommandBound

\* What comes after a step of a script: a look is before a fetch, a save
\* before the time it is stamped with, and what is taken over in memory is
\* given its default mode, once it has been looked for in the database.
Before(s, i) ==
  /\ s[i].op = "look" => i < Len(s) /\ s[i + 1].op = "fetch"
  /\ s[i].op \in {"mode", "name", "save", "clear"} => i < Len(s) /\ s[i + 1].op = "stamp"
  /\ s[i].op = "name" => s[i].arg[1] \in Logger
  /\ s[i].op = "assign" =>
       /\ s[i].arg \in Definition
       /\ i + 3 <= Len(s)
       /\ s[i + 1].op = "look" /\ s[i + 2].op = "fetch"
       /\ s[i + 3] = S!Step("mode", Default[s[i].arg])

InOrder(s) == \A i \in 1..Len(s) : Before(s, i)

\* A script that does more than load ends with a new time.
EndsStamped(s) ==
  \A i \in 1..Len(s) : s[i].op \notin {"look", "fetch"} => s[Len(s)].op = "stamp"

\* A name is set by the first step there is after loading.
NameFirst(s) ==
  \A i \in 1..Len(s) :
    s[i].op = "name" =>
      \/ i = 1
      \/ i = 2 /\ s[1].op = "fetch"
      \/ i = 3 /\ s[1].op = "look" /\ s[2].op = "fetch"

Shape(s) == InOrder(s) /\ EndsStamped(s) /\ NameFirst(s)

\* What follows the setting of a name is its time and its line in the log.
Logged(s) == \A i \in 1..Len(s) : s[i].op = "name" => i + 2 <= Len(s)

ScriptsInv == \A p \in S!Process : Shape(s_script[p]) /\ Logged(s_script[p])

\* A copy that is not whole is about to be given its default mode.
GetsMode(s, d) ==
  \/ Len(s) >= 1 /\ s[1] = S!Step("mode", Default[d])
  \/ Len(s) >= 2 /\ s[1].op = "fetch" /\ s[2] = S!Step("mode", Default[d])
  \/ Len(s) >= 3 /\ s[1].op = "look" /\ s[2].op = "fetch" /\ s[3] = S!Step("mode", Default[d])

WholeInv ==
  \A p \in S!Process :
    s_held[p] # NONE => S!Whole(s_held[p]) \/ GetsMode(s_script[p], s_held[p].definition)

\* A copy that is not out of date and yet is not what is saved is its own
\* process's, in the course of a load that will stamp a new time.
CopyInv ==
  \A p \in S!Process :
    ~S!OutOfDate(p) /\ s_saved # NONE /\ s_held[p] # s_saved /\ (\A q \in S!Process : ~S!Saving(q))
      => s_script[p] # <<>> /\ s_script[p][Len(s_script[p])].op = "stamp"

\* A command that sets a name, and that no save has overlapped with, sets it
\* in what is saved.
NameInv ==
  \A p \in S!Process :
    ~s_disturbed[p] /\ s_saved # NONE /\ s_script[p] # <<>> =>
      /\ s_script[p][1].op = "name" => s_held[p] = s_saved
      /\ ~S!OutOfDate(p) /\ s_script[p][1].op = "look" /\ Len(s_script[p]) >= 3 /\ s_script[p][3].op = "name"
           => s_held[p] = s_saved

IInv == TypeInv /\ ScriptsInv /\ WholeInv /\ S!SavedIsWhole /\ CopyInv /\ NameInv
-----------------------------------------------------------------------------
(***************************************************************************)
(* Scripts.                                                                *)
(***************************************************************************)
LEMMA NotEmpty ==
  ASSUME NEW T, NEW s \in Seq(T)
  PROVE  Len(s) \in Nat /\ (s # <<>> <=> Len(s) > 0)
  OBVIOUS

LEMMA SameBefore ==
  ASSUME NEW s, Len(s) \in Nat, NEW i \in Nat, Before(s, i),
         NEW t, Len(t) \in Nat, NEW j \in Nat, t[j] = s[i],
         \A k \in {1, 2, 3} : i + k <= Len(s) => t[j + k] = s[i + k] /\ j + k <= Len(t)
  PROVE  Before(t, j)
<1>1. i < Len(s) => j < Len(t) /\ t[j + 1] = s[i + 1]
  OBVIOUS
<1>2. i + 3 <= Len(s) =>
        j + 3 <= Len(t) /\ t[j + 1] = s[i + 1] /\ t[j + 2] = s[i + 2] /\ t[j + 3] = s[i + 3]
  OBVIOUS
<1>. QED  BY <1>1, <1>2 DEF Before

\* What is left of a script is one.
LEMMA TailShape ==
  ASSUME NEW s \in Seq(StepType), s # <<>>, Shape(s)
  PROVE  Tail(s) \in Seq(StepType) /\ Shape(Tail(s))
<1>. DEFINE t == Tail(s)
<1>1. /\ t \in Seq(StepType) /\ Len(s) \in Nat \ {0} /\ Len(t) = Len(s) - 1
      /\ \A i \in 1..Len(t) : t[i] = s[i + 1] /\ i + 1 \in 1..Len(s)
  OBVIOUS
<1>. HIDE DEF t
<1>2. InOrder(t)
  <2>. SUFFICES ASSUME NEW i \in 1..Len(t)
                PROVE  Before(t, i)
    BY DEF InOrder
  <2>1. t[i] = s[i + 1] /\ i + 1 \in 1..Len(s) /\ i \in Nat
    BY <1>1
  <2>2. \A k \in {1, 2, 3} : i + 1 + k <= Len(s) => t[i + k] = s[i + 1 + k] /\ i + k <= Len(t)
    BY <1>1, <2>1
  <2>3. Before(s, i + 1)
    BY <2>1 DEF Shape, InOrder
  <2>. QED  BY SMTT(30), <1>1, <2>1, <2>2, <2>3, SameBefore
<1>3. EndsStamped(t)
  <2>. SUFFICES ASSUME NEW i \in 1..Len(t), t[i].op \notin {"look", "fetch"}
                PROVE  t[Len(t)].op = "stamp"
    BY DEF EndsStamped
  <2>1. t[i] = s[i + 1] /\ i + 1 \in 1..Len(s) /\ t[Len(t)] = s[Len(s)]
    BY <1>1
  <2>. QED  BY <2>1 DEF Shape, EndsStamped
<1>4. NameFirst(t)
  BY <1>1 DEF Shape, NameFirst
<1>. QED  BY <1>1, <1>2, <1>3, <1>4 DEF Shape, t

LEMMA TailLogged ==
  ASSUME NEW s \in Seq(StepType), s # <<>>, Logged(s)
  PROVE  Logged(Tail(s))
<1>. DEFINE t == Tail(s)
<1>1. /\ Len(s) \in Nat \ {0} /\ Len(t) = Len(s) - 1
      /\ \A i \in 1..Len(t) : t[i] = s[i + 1] /\ i + 1 \in 1..Len(s)
  OBVIOUS
<1>. HIDE DEF t
<1>2. Logged(t)
  BY <1>1 DEF Logged
<1>. QED  BY <1>2 DEF t

\* A script that has just been joined to what another script ends with.
LEMMA JoinedShape ==
  ASSUME NEW s \in Seq(StepType), Shape(s), s # <<>>, s[Len(s)].op = "stamp",
         NEW t \in Seq(StepType), Shape(t),
         \A i \in 1..Len(t) : t[i].op # "name",
         t # <<>> => t[Len(t)].op = "stamp"
  PROVE  /\ s \o t \in Seq(StepType) /\ Shape(s \o t) /\ s \o t # <<>>
         /\ (s \o t)[Len(s \o t)].op = "stamp"
         /\ \A i \in 1..Len(s) : (s \o t)[i] = s[i]
         /\ (\A i \in 1..Len(s) : s[i].op # "name")
              => \A i \in 1..Len(s \o t) : (s \o t)[i].op # "name"
<1>. DEFINE u == s \o t
<1>1. /\ u \in Seq(StepType) /\ Len(s) \in Nat \ {0} /\ Len(t) \in Nat
      /\ Len(u) = Len(s) + Len(t)
      /\ \A i \in 1..Len(s) : u[i] = s[i]
      /\ \A i \in 1..Len(u) : i > Len(s) => i - Len(s) \in 1..Len(t) /\ u[i] = t[i - Len(s)]
  OBVIOUS
<1>. HIDE DEF u
<1>2. u # <<>> /\ u[Len(u)].op = "stamp"
  <2>1. CASE t = <<>>
    BY <1>1, <2>1
  <2>2. CASE t # <<>>
    <3>1. Len(t) \in Nat \ {0}
      BY <1>1, <2>2
    <3>. QED  BY <1>1, <2>2, <3>1
  <2>. QED  BY <2>1, <2>2
<1>3. InOrder(u)
  <2>. SUFFICES ASSUME NEW i \in 1..Len(u)
                PROVE  Before(u, i)
    BY DEF InOrder
  <2>0. i \in Nat /\ Len(u) \in Nat /\ Len(s) \in Nat /\ Len(t) \in Nat
    BY <1>1
  <2>1. CASE i <= Len(s)
    <3>1. u[i] = s[i] /\ i \in 1..Len(s)
      BY SMTT(30), <1>1, <2>1
    <3>2. \A k \in {1, 2, 3} : i + k <= Len(s) => u[i + k] = s[i + k] /\ i + k <= Len(u)
      BY <1>1, <3>1
    <3>3. Before(s, i)
      BY <3>1 DEF Shape, InOrder
    <3>. QED  BY <2>0, <3>1, <3>2, <3>3, SameBefore
  <2>2. CASE i > Len(s)
    <3>. DEFINE j == i - Len(s)
    <3>1. u[i] = t[j] /\ j \in 1..Len(t) /\ j \in Nat
      <4>1. u[i] = t[j] /\ j \in 1..Len(t)
        BY <1>1, <2>2
      <4>. QED  BY <2>0, <4>1
    <3>2. \A k \in {1, 2, 3} : j + k <= Len(t) => u[i + k] = t[j + k] /\ i + k <= Len(u)
      BY <1>1, <3>1
    <3>3. Before(t, j)
      BY <3>1 DEF Shape, InOrder
    <3>. HIDE DEF j
    <3>. QED  BY <2>0, <3>1, <3>2, <3>3, SameBefore
  <2>. QED  BY <1>1, <2>1, <2>2
<1>4. EndsStamped(u)
  BY <1>2 DEF EndsStamped
<1>5. NameFirst(u)
  <2>. SUFFICES ASSUME NEW i \in 1..Len(u), u[i].op = "name"
                PROVE  \/ i = 1
                       \/ i = 2 /\ u[1].op = "fetch"
                       \/ i = 3 /\ u[1].op = "look" /\ u[2].op = "fetch"
    BY DEF NameFirst
  <2>1. i \in 1..Len(s) /\ u[i] = s[i]
    BY SMTT(30), <1>1
  <2>2. \/ i = 1
        \/ i = 2 /\ s[1].op = "fetch"
        \/ i = 3 /\ s[1].op = "look" /\ s[2].op = "fetch"
    BY <2>1 DEF Shape, NameFirst
  <2>. QED  BY SMTT(30), <1>1, <2>1, <2>2
<1>6. (\A i \in 1..Len(s) : s[i].op # "name") => \A i \in 1..Len(u) : u[i].op # "name"
  BY SMTT(30), <1>1
<1>. QED  BY <1>1, <1>2, <1>3, <1>4, <1>5, <1>6 DEF Shape, u
LEMMA LoadingSteps ==
  /\ S!ReloadSteps \in Seq(StepType) /\ Len(S!ReloadSteps) = 2
  /\ S!ReloadSteps[1] = S!Step("look", NONE) /\ S!ReloadSteps[2] = S!Step("fetch", NONE)
  /\ S!ReloadSteps # <<>> /\ Shape(S!ReloadSteps)
<1>. DEFINE r == S!ReloadSteps
<1>1. r = <<S!Step("look", NONE), S!Step("fetch", NONE)>>
  BY DEF S!ReloadSteps, S!Steps
<1>2. S!Step("look", NONE) \in StepType /\ S!Step("fetch", NONE) \in StepType
  BY DEF S!Step, StepType, Ops, Args
<1>3. r \in Seq(StepType) /\ Len(r) = 2 /\ r[1] = S!Step("look", NONE) /\ r[2] = S!Step("fetch", NONE)
  BY <1>1, <1>2
<1>. HIDE DEF r
<1>4. \A i \in 1..Len(r) : (i = 1 /\ r[i].op = "look") \/ (i = 2 /\ r[i].op = "fetch")
  <2>1. \A i \in 1..Len(r) : i = 1 \/ i = 2
    BY <1>3
  <2>2. r[1].op = "look" /\ r[2].op = "fetch"
    BY <1>3 DEF S!Step
  <2>. QED  BY <2>1, <2>2
<1>5. Shape(r)
  BY <1>3, <1>4 DEF S!Step, Shape, InOrder, Before, EndsStamped, NameFirst
<1>6. r # <<>>
  BY <1>3, NotEmpty
<1>. QED  BY <1>3, <1>5, <1>6 DEF r

LEMMA LoggedSteps ==
  /\ S!LogSteps = <<S!Step("stamp", NONE)>>
  /\ S!LogSteps \in Seq(StepType) /\ Len(S!LogSteps) = 1
  /\ S!LogSteps[1] = S!Step("stamp", NONE)
  /\ S!LogSteps # <<>> /\ Shape(S!LogSteps) /\ S!LogSteps[Len(S!LogSteps)].op = "stamp"
  /\ \A i \in 1..Len(S!LogSteps) : S!LogSteps[i].op # "name"
<1>. DEFINE r == S!LogSteps
<1>1. r = <<S!Step("stamp", NONE)>>
  BY DEF S!LogSteps, S!Steps
<1>2. S!Step("stamp", NONE) \in StepType
  BY DEF S!Step, StepType, Ops, Args
<1>3. r \in Seq(StepType) /\ Len(r) = 1 /\ r[1] = S!Step("stamp", NONE)
  BY <1>1, <1>2
<1>. HIDE DEF r
<1>4. Shape(r)
  BY <1>3 DEF S!Step, Shape, InOrder, Before, EndsStamped, NameFirst
<1>5. r # <<>> /\ r[Len(r)].op = "stamp" /\ \A i \in 1..Len(r) : r[i].op # "name"
  <2>1. r[1].op = "stamp"
    BY <1>3 DEF S!Step
  <2>2. r # <<>>
    BY <1>3, NotEmpty
  <2>3. \A i \in 1..Len(r) : i = 1
    BY <1>3
  <2>. QED  BY <1>3, <2>1, <2>2, <2>3
<1>. QED  BY <1>1, <1>3, <1>4, <1>5 DEF r

\* Two sequences of two, joined.
LEMMA TwoAndTwo ==
  ASSUME NEW T, NEW l \in Seq(T), Len(l) = 2, NEW r \in Seq(T), Len(r) = 2
  PROVE  /\ l \o r \in Seq(T) /\ Len(l \o r) = 4
         /\ (l \o r)[1] = l[1] /\ (l \o r)[2] = l[2]
         /\ (l \o r)[3] = r[1] /\ (l \o r)[4] = r[2]
<1>. DEFINE u == l \o r
<1>1. /\ u \in Seq(T) /\ Len(u) = Len(l) + Len(r)
      /\ \A i \in 1..Len(u) : u[i] = IF i <= Len(l) THEN l[i] ELSE r[i - Len(l)]
  BY SMTT(30), ConcatProperties
<1>. HIDE DEF u
<1>2. Len(u) = 4
  BY <1>1
<1>3. \A i \in 1..4 : u[i] = IF i <= 2 THEN l[i] ELSE r[i - 2]
  BY <1>1, <1>2
<1>. QED  BY <1>1, <1>2, <1>3 DEF u

\* Loading, and one step that is then stamped with its time.
LEMMA SavingSteps ==
  ASSUME NEW s \in StepType, s.op \in {"mode", "name", "save", "clear", "default"},
         s.op = "name" => s.arg[1] \in Logger
  PROVE  LET u == S!ReloadSteps \o <<s, S!Step("stamp", NONE)>> IN
         /\ u \in Seq(StepType) /\ Len(u) = 4 /\ Shape(u) /\ u # <<>> /\ u[Len(u)].op = "stamp"
         /\ u[1] = S!Step("look", NONE) /\ u[2] = S!Step("fetch", NONE) /\ u[3] = s
         /\ s.op # "name" => \A i \in 1..Len(u) : u[i].op # "name"
<1>. DEFINE r == <<s, S!Step("stamp", NONE)>>
<1>1. S!Step("stamp", NONE) \in StepType
  BY DEF S!Step, StepType, Ops, Args
<1>2. /\ r \in Seq(StepType)
      /\ Len(r) = 2
      /\ r[1] = s /\ r[2] = S!Step("stamp", NONE)
  BY <1>1
<1>. HIDE DEF r
<1>. DEFINE u == S!ReloadSteps \o r
<1>3. u \in Seq(StepType) /\ Len(u) = 4
  <2>1. S!ReloadSteps \in Seq(StepType) /\ r \in Seq(StepType)
    BY <1>2, LoadingSteps
  <2>2. u \in Seq(StepType) /\ Len(u) = Len(S!ReloadSteps) + Len(r)
    BY <2>1, ConcatProperties
  <2>. QED  BY <1>2, <2>2, LoadingSteps
<1>4. /\ u[1] = S!Step("look", NONE) /\ u[2] = S!Step("fetch", NONE)
      /\ u[3] = s /\ u[4] = S!Step("stamp", NONE)
  BY <1>2, LoadingSteps, TwoAndTwo
<1>. HIDE DEF u
<1>5. \A i \in 1..Len(u) : i \in {1, 2, 3, 4}
  BY <1>3
<1>6. /\ u[1].op = "look" /\ u[2].op = "fetch" /\ u[3] = s /\ u[4].op = "stamp"
  BY <1>4 DEF S!Step
<1>7. InOrder(u)
  <2>. SUFFICES ASSUME NEW i \in {1, 2, 3, 4}
                PROVE  /\ u[i].op = "look" => i < 4 /\ u[i + 1].op = "fetch"
                       /\ u[i].op \in {"mode", "name", "save", "clear"} =>
                            i < 4 /\ u[i + 1].op = "stamp"
                       /\ u[i].op = "name" => u[i].arg[1] \in Logger
                       /\ u[i].op # "assign"
    BY <1>3, <1>5 DEF InOrder, Before
  <2>. QED  BY <1>6
<1>8. EndsStamped(u)
  BY <1>3, <1>6 DEF EndsStamped
<1>9. NameFirst(u) /\ (s.op # "name" => \A i \in 1..Len(u) : u[i].op # "name")
  BY <1>5, <1>6 DEF NameFirst
<1>10. u # <<>> /\ u[Len(u)].op = "stamp"
  <2>1. u # <<>>
    BY SMTT(30), <1>3, NotEmpty
  <2>. QED  BY <1>3, <1>6, <2>1
<1>. QED  BY <1>3, <1>4, <1>7, <1>8, <1>9, <1>10 DEF Shape, u, r

LEMMA ModesSteps ==
  ASSUME NEW m \in Args
  PROVE  /\ S!ModeSteps(m) \in Seq(StepType) /\ Len(S!ModeSteps(m)) = 4
         /\ S!ModeSteps(m)[1] = S!Step("look", NONE) /\ S!ModeSteps(m)[2] = S!Step("fetch", NONE)
         /\ S!ModeSteps(m)[3] = S!Step("mode", m)
         /\ S!ModeSteps(m) # <<>> /\ Shape(S!ModeSteps(m))
         /\ S!ModeSteps(m)[Len(S!ModeSteps(m))].op = "stamp"
         /\ \A i \in 1..Len(S!ModeSteps(m)) : S!ModeSteps(m)[i].op # "name"
<1>. DEFINE s == S!Step("mode", m)
<1>1. s \in StepType /\ s.op = "mode"
  BY DEF S!Step, StepType, Ops
<1>. HIDE DEF s
<1>2. S!ModeSteps(m) = S!ReloadSteps \o <<s, S!Step("stamp", NONE)>>
  BY DEF S!ModeSteps, s
<1>. QED  BY <1>1, <1>2, SavingSteps DEF s
LEMMA Pair ==
  ASSUME NEW s \in StepType, s.op \in {"save", "clear", "default"}
  PROVE  LET u == <<s, S!Step("stamp", NONE)>> IN
         /\ u \in Seq(StepType) /\ Shape(u) /\ u # <<>> /\ u[Len(u)].op = "stamp"
         /\ \A i \in 1..Len(u) : u[i].op # "name"
<1>. DEFINE u == <<s, S!Step("stamp", NONE)>>
<1>1. S!Step("stamp", NONE) \in StepType
  BY DEF S!Step, StepType, Ops, Args
<1>2. /\ u \in Seq(StepType)
      /\ Len(u) = 2
      /\ u[1] = s /\ u[2] = S!Step("stamp", NONE)
  BY <1>1
<1>. HIDE DEF u
<1>3. \A i \in 1..Len(u) : i = 1 \/ i = 2
  BY <1>2
<1>4. u[1] = s /\ u[2].op = "stamp"
  BY <1>2 DEF S!Step
<1>5. Shape(u)
  BY <1>2, <1>3, <1>4 DEF Shape, InOrder, Before, EndsStamped, NameFirst
<1>6. u # <<>>
  <2>1. u \in Seq(StepType) /\ Len(u) = 2
    BY <1>2
  <2>. QED  BY SMTT(30), <2>1, NotEmpty
<1>7. u[Len(u)].op = "stamp" /\ \A i \in 1..Len(u) : u[i].op # "name"
  BY <1>2, <1>3, <1>4
<1>. QED  BY <1>2, <1>5, <1>6, <1>7 DEF u

\* What is taken over in memory, and its default mode.
LEMMA TakenOver ==
  ASSUME NEW d \in Definition
  PROVE  LET u == S!ReloadSteps \o <<S!Step("assign", d)>> \o S!ModeSteps(Default[d]) IN
         /\ u \in Seq(StepType) /\ Shape(u) /\ u # <<>> /\ u[Len(u)].op = "stamp"
         /\ \A i \in 1..Len(u) : u[i].op # "name"
<1>. DEFINE r == <<S!Step("assign", d)>>
            v == S!ReloadSteps \o r
            u == v \o S!ModeSteps(Default[d])
            M == S!ModeSteps(Default[d])
<1>1. S!Step("assign", d) \in StepType /\ Default[d] \in Args
  BY DEF S!Step, StepType, Ops, Args
<1>2. /\ r \in Seq(StepType)
      /\ Len(r) = 1
      /\ r[1] = S!Step("assign", d)
  BY <1>1
<1>. HIDE DEF r
<1>3. v \in Seq(StepType) /\ Len(v) = 3
  <2>1. S!ReloadSteps \in Seq(StepType) /\ r \in Seq(StepType)
    BY <1>2, LoadingSteps
  <2>2. v \in Seq(StepType) /\ Len(v) = Len(S!ReloadSteps) + Len(r)
    BY <2>1, ConcatProperties
  <2>. QED  BY <1>2, <2>2, LoadingSteps
<1>4. v[1] = S!Step("look", NONE) /\ v[2] = S!Step("fetch", NONE) /\ v[3] = S!Step("assign", d)
  <2>1. /\ S!ReloadSteps \in Seq(StepType) /\ r \in Seq(StepType)
        /\ Len(S!ReloadSteps) = 2 /\ Len(r) = 1
    BY <1>2, LoadingSteps
  <2>2. \A i \in {1, 2, 3} : v[i] = IF i <= 2 THEN S!ReloadSteps[i] ELSE r[i - 2]
    BY <1>3, <2>1, ConcatProperties
  <2>. HIDE DEF v
  <2>3. v[1] = S!ReloadSteps[1] /\ v[2] = S!ReloadSteps[2] /\ v[3] = r[1]
    BY <2>2
  <2>. QED  BY <1>2, <2>3, LoadingSteps
<1>. HIDE DEF v
<1>5. /\ M \in Seq(StepType)
      /\ Len(M) = 4
      /\ M[1] = S!Step("look", NONE) /\ M[2] = S!Step("fetch", NONE)
      /\ M[3] = S!Step("mode", Default[d]) /\ M[Len(M)].op = "stamp"
  BY <1>1, ModesSteps
<1>. HIDE DEF M
<1>6. u = v \o M
  BY DEF M
<1>. HIDE DEF u
<1>7. u \in Seq(StepType) /\ Len(u) = 7
  <2>1. v \in Seq(StepType) /\ M \in Seq(StepType)
    BY <1>3, <1>5
  <2>2. u \in Seq(StepType) /\ Len(u) = Len(v) + Len(M)
    BY <1>6, <2>1, ConcatProperties
  <2>. QED  BY <1>3, <1>5, <2>2
<1>8. /\ u[1].op = "look" /\ u[2].op = "fetch" /\ u[3] = S!Step("assign", d)
      /\ u[4].op = "look" /\ u[5].op = "fetch" /\ u[6] = S!Step("mode", Default[d])
      /\ u[7].op = "stamp"
  <2>1. /\ v \in Seq(StepType) /\ M \in Seq(StepType)
        /\ Len(v) = 3 /\ Len(M) = 4
    BY <1>3, <1>5
  <2>2. /\ u[1] = v[1] /\ u[2] = v[2] /\ u[3] = v[3] /\ u[4] = M[1] /\ u[5] = M[2]
        /\ u[6] = M[3] /\ u[7] = M[4]
    <3>1. \A i \in {1, 2, 3, 4, 5, 6, 7} : u[i] = IF i <= 3 THEN v[i] ELSE M[i - 3]
      BY SMTT(30), <1>6, <1>7, <2>1, ConcatProperties
    <3>. QED  BY <3>1
  <2>3. S!Step("look", NONE).op = "look" /\ S!Step("fetch", NONE).op = "fetch"
    BY DEF S!Step
  <2>. QED  BY <1>4, <1>5, <2>2, <2>3
<1>9. u[3].op = "assign" /\ u[3].arg = d /\ u[6].op = "mode"
  BY <1>8 DEF S!Step
<1>10. \A i \in 1..Len(u) : i \in {1, 2, 3, 4, 5, 6, 7}
  BY <1>7
<1>11. InOrder(u)
  <2>. SUFFICES ASSUME NEW i \in {1, 2, 3, 4, 5, 6, 7}
                PROVE  /\ u[i].op = "look" => i < 7 /\ u[i + 1].op = "fetch"
                       /\ u[i].op \in {"mode", "name", "save", "clear"} =>
                            i < 7 /\ u[i + 1].op = "stamp"
                       /\ u[i].op # "name"
                       /\ u[i].op = "assign" => i = 3
    BY <1>7, <1>8, <1>9, <1>10 DEF InOrder, Before
  <2>. QED  BY <1>8, <1>9
<1>12. EndsStamped(u) /\ u[Len(u)].op = "stamp"
  BY <1>7, <1>8 DEF EndsStamped
<1>13. NameFirst(u) /\ \A i \in 1..Len(u) : u[i].op # "name"
  BY <1>8, <1>9, <1>10 DEF NameFirst
<1>14. u # <<>>
  BY SMTT(30), <1>7, NotEmpty
<1>. QED  BY <1>7, <1>11, <1>12, <1>13, <1>14 DEF Shape, u, v, r
LEMMA TwoSteps ==
  ASSUME NEW x \in StepType, NEW y \in StepType
  PROVE  <<x>> \o <<y>> = <<x, y>>
<1>. DEFINE s == <<x>>
            t == <<y>>
            u == <<x, y>>
            v == s \o t
<1>1. /\ s \in Seq(StepType) /\ Len(s) = 1
      /\ t \in Seq(StepType) /\ Len(t) = 1
      /\ u \in Seq(StepType) /\ Len(u) = 2
  OBVIOUS
<1>2. s[1] = x /\ t[1] = y /\ u[1] = x /\ u[2] = y
  OBVIOUS
<1>. HIDE DEF s, t, u
<1>3. v \in Seq(StepType) /\ Len(v) = 2
  BY <1>1, ConcatProperties
<1>4. \A i \in {1, 2} : v[i] = u[i]
  BY <1>1, <1>2, <1>3, ConcatProperties
<1>5. \A i \in 1..Len(v) : v[i] = u[i]
  BY <1>3, <1>4
<1>. QED  BY <1>1, <1>3, <1>5, SeqEqual DEF s, t, u

LEMMA Associates == \A s, t, u \in Seq(StepType) : (s \o t) \o u = s \o (t \o u)
  BY ConcatAssociative

\* A load of a definition, and its line in the log.
LEMMA LoadsSteps ==
  ASSUME NEW d \in Definition
  PROVE  LET u == S!LoadSteps(d) \o S!LogSteps IN
         /\ u \in Seq(StepType) /\ Shape(u) /\ u # <<>> /\ u[Len(u)].op = "stamp"
         /\ \A i \in 1..Len(u) : u[i].op # "name"
<1>. DEFINE T == S!ReloadSteps \o <<S!Step("assign", d)>> \o S!ModeSteps(Default[d])
            P == <<S!Step("save", NONE), S!Step("stamp", NONE)>>
            D == <<S!Step("default", NONE)>>
            Q == <<S!Step("default", NONE), S!Step("stamp", NONE)>>
            R == S!ReloadSteps
            L == S!LogSteps
<1>1. /\ S!Step("save", NONE) \in StepType /\ S!Step("save", NONE).op = "save"
      /\ S!Step("default", NONE) \in StepType /\ S!Step("default", NONE).op = "default"
  BY DEF S!Step, StepType, Ops, Args
<1>2. S!Steps(<<"save", "stamp">>) = P /\ S!Steps(<<"default">>) = D
  BY DEF S!Steps
<1>3. R \in Seq(StepType) /\ L \in Seq(StepType)
  BY LoadingSteps, LoggedSteps
<1>4. D \in Seq(StepType) /\ D \o L = Q
  <2>1. D \in Seq(StepType)
    BY <1>1
  <2>2. L = <<S!Step("stamp", NONE)>>
    BY LoggedSteps
  <2>3. S!Step("stamp", NONE) \in StepType
    BY DEF S!Step, StepType, Ops, Args
  <2>. QED  BY <1>1, <2>1, <2>2, <2>3, TwoSteps
<1>5. /\ P \in Seq(StepType) /\ Shape(P) /\ P # <<>> /\ P[Len(P)].op = "stamp"
      /\ \A i \in 1..Len(P) : P[i].op # "name"
  BY <1>1, Pair
<1>6. /\ R \o Q \in Seq(StepType) /\ Shape(R \o Q) /\ R \o Q # <<>>
      /\ (R \o Q)[Len(R \o Q)].op = "stamp"
      /\ \A i \in 1..Len(R \o Q) : (R \o Q)[i].op # "name"
  BY <1>1, SavingSteps
<1>7. /\ T \in Seq(StepType) /\ Shape(T) /\ T # <<>> /\ T[Len(T)].op = "stamp"
      /\ \A i \in 1..Len(T) : T[i].op # "name"
  BY TakenOver
<1>8. S!LoadSteps(d) \o S!LogSteps = (((T \o P) \o R) \o D) \o L
  BY <1>2 DEF S!LoadSteps
<1>. HIDE DEF T, P, D, Q, R, L
<1>9. T \o P \in Seq(StepType)
  BY <1>5, <1>7, ConcatProperties
<1>10. (((T \o P) \o R) \o D) \o L = (T \o P) \o (R \o Q)
  <2>1. (T \o P) \o R \in Seq(StepType)
    BY <1>3, <1>9, ConcatProperties
  <2>2. (((T \o P) \o R) \o D) \o L = ((T \o P) \o R) \o Q
    BY <1>3, <1>4, <2>1, Associates
  <2>3. Q \in Seq(StepType)
    BY <1>3, <1>4, ConcatProperties
  <2>. QED  BY <1>3, <1>9, <2>2, <2>3, Associates
<1>11. /\ Shape(T \o P) /\ T \o P # <<>> /\ (T \o P)[Len(T \o P)].op = "stamp"
       /\ \A i \in 1..Len(T \o P) : (T \o P)[i].op # "name"
  BY <1>5, <1>7, JoinedShape
<1>. DEFINE u == (T \o P) \o (R \o Q)
<1>12. /\ u \in Seq(StepType) /\ Shape(u) /\ u # <<>> /\ u[Len(u)].op = "stamp"
       /\ \A i \in 1..Len(u) : u[i].op # "name"
  BY <1>6, <1>9, <1>11, JoinedShape
<1>. QED  BY <1>8, <1>10, <1>12

\* The steps of a command: it ends with a new time, and does not start with
\* the setting of a name.
LEMMA CommandShape ==
  ASSUME S!SQLiteAssumption, NEW c \in Command
  PROVE  /\ S!StepsOf(c) \in Seq(StepType) /\ Shape(S!StepsOf(c)) /\ S!StepsOf(c) # <<>>
         /\ S!StepsOf(c)[Len(S!StepsOf(c))].op = "stamp"
         /\ S!StepsOf(c)[1].op # "name"
         /\ Logged(S!StepsOf(c))
<1>. DEFINE L == S!LogSteps
<1>0. /\ L \in Seq(StepType) /\ Shape(L) /\ L # <<>> /\ L[Len(L)].op = "stamp"
      /\ Len(L) = 1
      /\ \A i \in 1..Len(L) : L[i].op # "name"
  BY LoggedSteps
<1>. HIDE DEF L
<1>1. ASSUME NEW s \in Seq(StepType), Shape(s), s # <<>>, s[Len(s)].op = "stamp", s[1].op # "name"
      PROVE  LET u == s \o L IN
             /\ u \in Seq(StepType) /\ Shape(u) /\ u # <<>> /\ u[Len(u)].op = "stamp"
             /\ u[1].op # "name"
             /\ Len(u) = Len(s) + 1
             /\ (\A i \in 1..Len(s) : s[i].op # "name") => Logged(u)
  <2>1. 1 \in 1..Len(s)
    BY <1>1, NotEmpty
  <2>2. Len(s \o L) = Len(s) + 1
    BY <1>0, ConcatProperties
  <2>3. (\A i \in 1..Len(s) : s[i].op # "name") => Logged(s \o L)
    <3>1. (\A i \in 1..Len(s) : s[i].op # "name")
            => \A i \in 1..Len(s \o L) : (s \o L)[i].op # "name"
      BY <1>0, <1>1, JoinedShape
    <3>. QED  BY <3>1 DEF Logged
  <2>. QED  BY <1>0, <1>1, <2>1, <2>2, <2>3, JoinedShape
<1>2. CASE c[1] = "mode"
  <2>. DEFINE s == S!ModeSteps(c[2])
  <2>1. c[2] \in Args
    BY DEF Args
  <2>2. /\ s \in Seq(StepType) /\ Shape(s) /\ s # <<>> /\ s[Len(s)].op = "stamp"
        /\ s[1].op # "name" /\ \A i \in 1..Len(s) : s[i].op # "name"
    <3>1. 1 \in 1..Len(s)
      BY <2>1, ModesSteps
    <3>. QED  BY <2>1, <3>1, ModesSteps
  <2>3. S!StepsOf(c) = s \o L
    BY <1>2 DEF S!StepsOf, L
  <2>. HIDE DEF s
  <2>. QED  BY <1>1, <2>2, <2>3
<1>3. CASE c[1] = "name"
  <2>. DEFINE x == S!Step("name", <<c[2][1], c[2][2]>>)
              s == S!ReloadSteps \o <<x, S!Step("stamp", NONE)>>
  <2>1. x \in StepType /\ x.op = "name" /\ x.arg[1] \in Logger
    BY <1>3 DEF S!SQLiteAssumption, S!Step, StepType, Ops, Args
  <2>2. S!StepsOf(c) = s \o L
    BY <1>3 DEF S!StepsOf, S!NameSteps, L
  <2>. HIDE DEF x
  <2>3. s \in Seq(StepType) /\ Shape(s) /\ s # <<>> /\ s[Len(s)].op = "stamp"
        /\ s[1] = S!Step("look", NONE) /\ Len(s) = 4
    BY <2>1, SavingSteps
  <2>. HIDE DEF s
  <2>4. s[1].op # "name"
    BY <2>3 DEF S!Step
  <2>. DEFINE u == s \o L
  <2>5. /\ u \in Seq(StepType) /\ Shape(u) /\ u # <<>> /\ u[Len(u)].op = "stamp"
        /\ u[1].op # "name" /\ Len(u) = 5
    <3>1. /\ u \in Seq(StepType) /\ Shape(u) /\ u # <<>> /\ u[Len(u)].op = "stamp"
          /\ u[1].op # "name" /\ Len(u) = Len(s) + 1
      BY <1>1, <2>3, <2>4
    <3>. QED  BY <2>3, <3>1
  <2>. HIDE DEF u
  <2>6. Logged(u)
    BY <2>5 DEF Shape, NameFirst, Logged
  <2>. QED  BY <2>2, <2>5, <2>6 DEF u
<1>4. CASE c[1] = "load"
  <2>1. c[2] \in Definition
    BY <1>4 DEF S!SQLiteAssumption
  <2>. DEFINE u == S!LoadSteps(c[2]) \o S!LogSteps
  <2>2. S!StepsOf(c) = u
    BY <1>4 DEF S!StepsOf
  <2>3. /\ u \in Seq(StepType) /\ Shape(u) /\ u # <<>> /\ u[Len(u)].op = "stamp"
        /\ \A i \in 1..Len(u) : u[i].op # "name"
    BY <2>1, LoadsSteps
  <2>. HIDE DEF u
  <2>4. 1 \in 1..Len(u)
    BY <2>3, NotEmpty
  <2>5. Logged(u)
    BY <2>3 DEF Logged
  <2>. QED  BY <2>2, <2>3, <2>4, <2>5
<1>5. CASE c[1] = "delete"
  <2>. DEFINE s == <<S!Step("clear", NONE), S!Step("stamp", NONE)>>
  <2>1. S!Step("clear", NONE) \in StepType /\ S!Step("clear", NONE).op = "clear"
    BY DEF S!Step, StepType, Ops, Args
  <2>2. S!DeleteSteps = s
    BY DEF S!DeleteSteps, S!Steps
  <2>3. S!StepsOf(c) = s \o L
    BY <1>5, <2>2 DEF S!StepsOf, L
  <2>4. /\ s \in Seq(StepType) /\ Shape(s) /\ s # <<>> /\ s[Len(s)].op = "stamp"
        /\ \A i \in 1..Len(s) : s[i].op # "name"
    BY <2>1, Pair
  <2>. HIDE DEF s
  <2>5. 1 \in 1..Len(s)
    BY <2>4, NotEmpty
  <2>. QED  BY <1>1, <2>3, <2>4, <2>5
<1>. QED  BY <1>2, <1>3, <1>4, <1>5 DEF S!SQLiteAssumption

\* The rest of a load, once it has asked for the default mode.
LEMMA DefaultShape ==
  ASSUME NEW s \in Seq(StepType), Shape(s), s # <<>>, s[1].op = "default",
         NEW d \in Definition
  PROVE  LET u == S!ModeSteps(Default[d]) \o Tail(s) IN
         /\ u \in Seq(StepType) /\ Shape(u) /\ u # <<>>
         /\ Logged(u) /\ u[Len(u)].op = "stamp" /\ s[Len(s)].op = "stamp" /\ u[3].op # "name" /\ u[1].op # "name"
         /\ Len(u) >= 3
<1>. DEFINE t == Tail(s)
            M == S!ModeSteps(Default[d])
<1>1. t \in Seq(StepType) /\ Shape(t)
  BY TailShape
<1>2. Len(s) \in Nat \ {0} /\ 1 \in 1..Len(s)
  BY NotEmpty
<1>3. s[Len(s)].op = "stamp"
  BY <1>2 DEF Shape, EndsStamped
<1>4. /\ Len(t) \in Nat /\ Len(t) = Len(s) - 1
      /\ \A i \in 1..Len(t) : t[i] = s[i + 1] /\ i + 1 \in 1..Len(s)
  BY <1>2
<1>. HIDE DEF t
<1>5. \A i \in 1..Len(t) : t[i].op # "name"
  BY <1>4 DEF Shape, NameFirst
<1>6. t # <<>> => t[Len(t)].op = "stamp"
  <2>1. t # <<>> => Len(t) \in 1..Len(t)
    BY <1>1, NotEmpty
  <2>. QED  BY <1>3, <1>4, <2>1
<1>7. Default[d] \in Args
  BY DEF Args
<1>8. /\ M \in Seq(StepType) /\ Shape(M) /\ M # <<>> /\ M[Len(M)].op = "stamp"
      /\ \A i \in 1..Len(M) : M[i].op # "name"
      /\ Len(M) = 4
  BY <1>7, ModesSteps
<1>. HIDE DEF M
<1>. DEFINE u == M \o t
<1>9. /\ u \in Seq(StepType) /\ Shape(u) /\ u # <<>> /\ u[Len(u)].op = "stamp"
      /\ \A i \in 1..Len(u) : u[i].op # "name"
  BY <1>1, <1>5, <1>6, <1>8, JoinedShape
<1>10. Len(u) = Len(M) + Len(t)
  BY <1>1, <1>8, ConcatProperties
<1>11. Len(u) >= 4
  BY <1>4, <1>8, <1>10
<1>. HIDE DEF u
<1>12. 1 \in 1..Len(u) /\ 3 \in 1..Len(u)
  BY <1>9, <1>11, NotEmpty
<1>13. Logged(u)
  BY <1>9 DEF Logged
<1>. QED  BY <1>3, <1>9, <1>11, <1>12, <1>13 DEF u, M, t
-----------------------------------------------------------------------------
(***************************************************************************)
(* Steps.                                                                  *)
(***************************************************************************)
\* What a definition's mode gives is a configuration, and whole.
LEMMA ModesAreWhole ==
  ASSUME S!SQLiteAssumption, NEW d \in Definition, NEW m \in S!Modes(d)
  PROVE  /\ S!InMode(d, m) \in S!Configurations /\ S!InMode(d, m) # NONE
         /\ S!Whole(S!InMode(d, m)) /\ S!InMode(d, m).definition = d
<1>. DEFINE c == S!InMode(d, m)
<1>1. c = [definition |-> d, mode |-> m, active |-> Plan[d][m]]
  BY DEF S!InMode, S!Configuration
<1>2. Plan[d][m] = [l \in Logger |-> Plan[d][m][l]]
  BY DEF S!SQLiteAssumption
<1>3. \A l \in Logger : Plan[d][m][l] \in S!Names(d, l)
  BY DEF S!Names, S!Modes
<1>4. Plan[d][m] \in [Logger -> (UNION {S!Names(e, l) : e \in Definition, l \in Logger}) \cup {NONE}]
  BY <1>2, <1>3
<1>5. m \in (UNION {S!Modes(e) : e \in Definition}) \cup {NONE}
  OBVIOUS
<1>6. c \in S!Configurations
  BY <1>1, <1>4, <1>5 DEF S!Configurations
<1>7. S!Whole(c)
  BY <1>1, <1>3 DEF S!Whole
<1>. QED  BY <1>1, <1>6, <1>7 DEF S!SQLiteAssumption

\* The next step of a process's script, and the steps it comes before.
LEMMA NextSteps ==
  ASSUME TypeInv, ScriptsInv, NEW p \in S!Process, NEW op, S!Now(p, op)
  PROVE  /\ s_script[p] \in Seq(StepType) /\ s_script[p] # <<>> /\ Shape(s_script[p])
         /\ s_script[p][1].op = op /\ Head(s_script[p]) = s_script[p][1]
         /\ Len(s_script[p]) \in Nat \ {0}
         /\ Tail(s_script[p]) \in Seq(StepType) /\ Shape(Tail(s_script[p]))
         /\ Logged(s_script[p]) /\ Logged(Tail(s_script[p]))
         /\ Len(Tail(s_script[p])) = Len(s_script[p]) - 1
         /\ \A i \in 1..(Len(s_script[p]) - 1) : Tail(s_script[p])[i] = s_script[p][i + 1]
<1>. DEFINE s == s_script[p]
<1>1. s \in Seq(StepType) /\ s # <<>> /\ Shape(s) /\ Logged(s) /\ Head(s).op = op
  BY DEF TypeInv, ScriptsInv, S!Now
<1>. HIDE DEF s
<1>2. Tail(s) \in Seq(StepType) /\ Shape(Tail(s)) /\ Logged(Tail(s))
  BY <1>1, TailShape, TailLogged
<1>3. Len(s) \in Nat \ {0} /\ Len(Tail(s)) = Len(s) - 1
  BY <1>1, HeadTailProperties, NotEmpty
<1>4. \A i \in 1..(Len(s) - 1) : Tail(s)[i] = s[i + 1]
  BY <1>1, <1>3, HeadTailProperties
<1>5. Head(s) = s[1]
  BY <1>1
<1>. QED  BY <1>1, <1>2, <1>3, <1>4, <1>5 DEF s

\* A save, of what is whole, or of nothing.
LEMMA PutHolds ==
  ASSUME S!SQLiteAssumption, IInv, NEW p \in S!Process, NEW op \in {"mode", "name", "save", "clear"},
         S!Now(p, op), NEW c \in S!Configurations \cup {NONE}, c # NONE => S!Whole(c),
         S!Puts(p, c), S!Done(p), UNCHANGED <<s_db_time, s_clock, s_timestamp, s_seen, s_commands>>
  PROVE  IInv'
<1>. DEFINE s == s_script[p]
            t == Tail(s)
<1>1. /\ s \in Seq(StepType) /\ s # <<>> /\ Shape(s) /\ s[1].op = op
      /\ Len(s) \in Nat \ {0} /\ t \in Seq(StepType) /\ Shape(t) /\ Len(t) = Len(s) - 1
      /\ Logged(t)
      /\ \A i \in 1..(Len(s) - 1) : t[i] = s[i + 1]
  BY NextSteps DEF IInv
<1>2. Len(s) >= 2 /\ s[2].op = "stamp"
  BY <1>1 DEF Shape, InOrder, Before
<1>3. t # <<>> /\ t[1].op = "stamp"
  <2>1. Len(t) > 0 /\ t \in Seq(StepType)
    BY <1>1, <1>2
  <2>2. t # <<>>
    BY <2>1, NotEmpty
  <2>3. t[1] = s[2]
    BY <1>1, <1>2
  <2>. QED  BY <1>2, <2>2, <2>3
<1>4. /\ s_held' = [s_held EXCEPT ![p] = c] /\ s_saved' = c
      /\ s_disturbed' = [q \in S!Process |-> q # p \/ s_disturbed[q]]
      /\ s_script' = [s_script EXCEPT ![p] = t]
  BY DEF S!Puts, S!Holds, S!Done
<1>5. /\ s_held \in [S!Process -> S!Configurations \cup {NONE}] /\ s_script \in [S!Process -> Seq(StepType)]
      /\ s_disturbed \in [S!Process -> BOOLEAN]
  BY DEF IInv, TypeInv
<1>. HIDE DEF s, t
<1>6. /\ s_held'[p] = c /\ s_script'[p] = t
      /\ \A q \in S!Process \ {p} : s_held'[q] = s_held[q] /\ s_script'[q] = s_script[q] /\ s_disturbed'[q]
  BY <1>4, <1>5
<1>7. TypeInv'
  BY <1>1, <1>4, <1>5 DEF IInv, TypeInv
<1>8. ScriptsInv'
  BY <1>1, <1>6 DEF IInv, ScriptsInv
<1>9. WholeInv'
  BY <1>6 DEF IInv, WholeInv
<1>10. S!SavedIsWhole'
  BY <1>4 DEF S!SavedIsWhole
<1>11. CopyInv'
  <2>1. S!Saving(p)'
    BY <1>3, <1>6 DEF S!Saving
  <2>. QED  BY <2>1 DEF CopyInv
<1>12. NameInv'
  BY <1>3, <1>6 DEF NameInv
<1>. QED  BY <1>7, <1>8, <1>9, <1>10, <1>11, <1>12 DEF IInv
\* A copy that is not whole is looked for again, or given a mode, next.
LEMMA WholeUnlessLoading ==
  ASSUME IInv, NEW p \in S!Process, NEW op, S!Now(p, op),
         op \notin {"look", "fetch", "mode"}, s_held[p] # NONE
  PROVE  S!Whole(s_held[p])
<1>1. s_script[p][1].op = op
  BY NextSteps DEF IInv
<1>2. S!Whole(s_held[p]) \/ GetsMode(s_script[p], s_held[p].definition)
  BY DEF IInv, WholeInv
<1>3. \A d : S!Step("mode", Default[d]).op = "mode"
  BY DEF S!Step
<1>. QED  BY <1>1, <1>2, <1>3 DEF GetsMode

\* A step that changes nothing but its script, and fails.
LEMMA FailHolds ==
  ASSUME IInv, NEW p \in S!Process, NEW op \in {"mode", "name"}, S!Now(p, op),
         s_held[p] # NONE => S!Whole(s_held[p]),
         S!Fails(p), UNCHANGED <<s_saved, s_db_time, s_clock, s_held, s_timestamp, s_seen, s_disturbed, s_commands>>
  PROVE  IInv'
<1>. DEFINE L == S!LogSteps
<1>1. /\ L \in Seq(StepType) /\ Shape(L) /\ L # <<>> /\ L[1].op = "stamp" /\ Logged(L)
  <2>1. S!Step("stamp", NONE).op = "stamp"
    BY DEF S!Step
  <2>2. Logged(L)
    BY LoggedSteps DEF Logged
  <2>. QED  BY <2>1, <2>2, LoggedSteps
<1>2. s_script' = [s_script EXCEPT ![p] = L]
  BY DEF S!Fails
<1>. HIDE DEF L
<1>3. s_script \in [S!Process -> Seq(StepType)]
  BY DEF IInv, TypeInv
<1>4. s_script'[p] = L /\ \A q \in S!Process \ {p} : s_script'[q] = s_script[q]
  BY <1>2, <1>3
<1>5. TypeInv'
  BY <1>1, <1>2, <1>3 DEF IInv, TypeInv
<1>6. ScriptsInv'
  BY <1>1, <1>4 DEF IInv, ScriptsInv
<1>7. WholeInv'
  BY <1>4 DEF IInv, WholeInv
<1>8. S!SavedIsWhole'
  BY DEF IInv, S!SavedIsWhole, S!Whole
<1>9. CopyInv'
  <2>1. S!Saving(p)'
    BY <1>1, <1>4 DEF S!Saving
  <2>. QED  BY <2>1 DEF CopyInv
<1>10. NameInv'
  BY <1>1, <1>4 DEF IInv, NameInv, S!OutOfDate
<1>. QED  BY <1>5, <1>6, <1>7, <1>8, <1>9, <1>10 DEF IInv

LEMMA SetsModeHolds ==
  ASSUME S!SQLiteAssumption, IInv, NEW p \in S!Process, S!SetsMode(p)
  PROVE  IInv'
<1>1. S!Now(p, "mode") /\ UNCHANGED <<s_db_time, s_clock, s_timestamp, s_seen, s_commands>>
  BY DEF S!SetsMode
<1>2. s_held[p] \in S!Configurations \cup {NONE}
  BY DEF IInv, TypeInv
<1>3. CASE s_held[p] # NONE /\ S!Arg(p) \in S!Modes(s_held[p].definition)
  <2>. DEFINE c == S!InMode(s_held[p].definition, S!Arg(p))
  <2>1. S!Puts(p, c) /\ S!Done(p)
    BY <1>3 DEF S!SetsMode
  <2>2. s_held[p].definition \in Definition
    BY <1>2, <1>3 DEF S!Configurations
  <2>3. c \in S!Configurations /\ S!Whole(c)
    BY <1>3, <2>2, ModesAreWhole
  <2>. QED  BY <1>1, <2>1, <2>3, PutHolds
<1>4. CASE ~(s_held[p] # NONE /\ S!Arg(p) \in S!Modes(s_held[p].definition))
  <2>1. S!Fails(p) /\ UNCHANGED <<s_held, s_saved, s_disturbed>>
    BY <1>4 DEF S!SetsMode
  <2>2. ASSUME s_held[p] # NONE, ~S!Whole(s_held[p])
        PROVE  FALSE
    <3>1. s_script[p][1].op = "mode" /\ Head(s_script[p]) = s_script[p][1]
      BY <1>1, NextSteps DEF IInv
    <3>2. GetsMode(s_script[p], s_held[p].definition)
      BY <2>2 DEF IInv, WholeInv
    <3>3. s_script[p][1] = S!Step("mode", Default[s_held[p].definition])
      BY <3>1, <3>2 DEF GetsMode
    <3>4. S!Arg(p) = Default[s_held[p].definition]
      BY <3>1, <3>3 DEF S!Arg, S!Step
    <3>5. s_held[p].definition \in Definition
      BY <1>2, <2>2 DEF S!Configurations
    <3>. QED  BY <1>4, <2>2, <3>4, <3>5 DEF S!SQLiteAssumption
  <2>. QED  BY <1>1, <2>1, <2>2, FailHolds
<1>. QED  BY <1>3, <1>4

LEMMA SetsNameHolds ==
  ASSUME S!SQLiteAssumption, IInv, NEW p \in S!Process, S!SetsName(p)
  PROVE  IInv'
<1>1. S!Now(p, "name") /\ UNCHANGED <<s_db_time, s_clock, s_timestamp, s_seen, s_commands>>
  BY DEF S!SetsName
<1>2. s_held[p] \in S!Configurations \cup {NONE} /\ (s_held[p] # NONE => S!Whole(s_held[p]))
  BY <1>1, WholeUnlessLoading DEF IInv, TypeInv
<1>. DEFINE l == S!Arg(p)[1]
            n == S!Arg(p)[2]
            d == s_held[p].definition
<1>3. CASE s_held[p] # NONE /\ n \in S!Names(d, l)
  <2>. DEFINE c == [s_held[p] EXCEPT !.active[l] = n]
  <2>1. S!Puts(p, c) /\ S!Done(p)
    BY <1>3 DEF S!SetsName
  <2>2. l \in Logger
    <3>1. s_script[p][1].op = "name" /\ Head(s_script[p]) = s_script[p][1] /\ Shape(s_script[p])
          /\ Len(s_script[p]) \in Nat \ {0}
      BY <1>1, NextSteps DEF IInv
    <3>. QED  BY <3>1 DEF Shape, InOrder, Before, S!Arg
  <2>. HIDE DEF l, n
  <2>3. s_held[p] \in S!Configurations /\ S!Whole(s_held[p]) /\ d \in Definition
    BY <1>2, <1>3 DEF S!Configurations
  <2>4. /\ c.definition = d /\ c.mode = s_held[p].mode
        /\ c.active = [s_held[p].active EXCEPT ![l] = n]
        /\ c = [definition |-> d, mode |-> s_held[p].mode, active |-> c.active]
    BY <2>3 DEF S!Configurations
  <2>. DEFINE All == (UNION {S!Names(e, k) : e \in Definition, k \in Logger}) \cup {NONE}
  <2>5. s_held[p].active \in [Logger -> All] /\ n \in All
    BY <1>3, <2>2, <2>3 DEF S!Configurations
  <2>. HIDE DEF All
  <2>6. c.active \in [Logger -> All] /\ c.active[l] = n
        /\ \A k \in Logger \ {l} : c.active[k] = s_held[p].active[k]
    BY <2>2, <2>4, <2>5
  <2>7. c \in S!Configurations
    BY <2>3, <2>4, <2>6 DEF S!Configurations, All
  <2>8. S!Whole(c)
    BY <1>3, <2>3, <2>4, <2>6 DEF S!Whole
  <2>. HIDE DEF c
  <2>. QED  BY <1>1, <2>1, <2>7, <2>8, PutHolds
<1>4. CASE ~(s_held[p] # NONE /\ n \in S!Names(d, l))
  <2>1. S!Fails(p) /\ UNCHANGED <<s_held, s_saved, s_disturbed>>
    BY <1>4 DEF S!SetsName
  <2>. QED  BY <1>1, <1>2, <2>1, FailHolds
<1>. QED  BY <1>3, <1>4

LEMMA SavesHolds ==
  ASSUME S!SQLiteAssumption, IInv, NEW p \in S!Process, S!Saves(p)
  PROVE  IInv'
<1>1. /\ S!Now(p, "save") /\ UNCHANGED <<s_db_time, s_clock, s_timestamp, s_seen, s_commands>>
      /\ S!Puts(p, s_held[p]) /\ S!Done(p)
  BY DEF S!Saves
<1>2. s_held[p] \in S!Configurations \cup {NONE} /\ (s_held[p] # NONE => S!Whole(s_held[p]))
  BY <1>1, WholeUnlessLoading DEF IInv, TypeInv
<1>. QED  BY <1>1, <1>2, PutHolds

LEMMA ClearsHolds ==
  ASSUME S!SQLiteAssumption, IInv, NEW p \in S!Process, S!Clears(p)
  PROVE  IInv'
  BY PutHolds DEF S!Clears
\* A step that leaves the database alone, and that does with its own copy
\* and its own script, now t, what the invariant asks of them.
Leaves(p, t) ==
  /\ t \in Seq(StepType) /\ Shape(t) /\ Logged(t)
  /\ s_script' = [s_script EXCEPT ![p] = t] /\ UNCHANGED <<s_saved, s_db_time, s_clock>>
  /\ s_held' \in [S!Process -> S!Configurations \cup {NONE}]
  /\ s_timestamp' \in [S!Process -> 0..s_db_time] /\ s_seen' \in [S!Process -> 0..s_db_time]
  /\ s_disturbed' \in [S!Process -> BOOLEAN] /\ s_commands' \in 0..CommandBound
  /\ \A q \in S!Process \ {p} :
       s_held'[q] = s_held[q] /\ s_timestamp'[q] = s_timestamp[q] /\ s_disturbed'[q] = s_disturbed[q]
Completes(p, t) == s_held'[p] # NONE => S!Whole(s_held'[p]) \/ GetsMode(t, s_held'[p].definition)
Stamped(p, t) ==
  ~S!OutOfDate(p)' /\ s_saved # NONE /\ s_held'[p] # s_saved /\ (\A q \in S!Process : ~S!Saving(q))
    => t # <<>> /\ t[Len(t)].op = "stamp"
NamesSaved(p, t) ==
  ~s_disturbed'[p] /\ s_saved # NONE /\ t # <<>> =>
    /\ t[1].op = "name" => s_held'[p] = s_saved
    /\ ~S!OutOfDate(p)' /\ t[1].op = "look" /\ Len(t) >= 3 /\ t[3].op = "name" => s_held'[p] = s_saved

LEMMA QuietHolds ==
  ASSUME IInv, NEW p \in S!Process, NEW t, ~S!Saving(p),
         Leaves(p, t), Completes(p, t), Stamped(p, t), NamesSaved(p, t)
  PROVE  IInv'
<1>. USE DEF Leaves, Completes, Stamped, NamesSaved
<1>1. s_script \in [S!Process -> Seq(StepType)]
  BY DEF IInv, TypeInv
<1>2. s_script'[p] = t /\ \A q \in S!Process \ {p} : s_script'[q] = s_script[q]
  BY <1>1
<1>3. TypeInv'
  <2>1. s_script' \in [S!Process -> Seq(StepType)]
    BY <1>1
  <2>. QED  BY <2>1 DEF IInv, TypeInv
<1>4. ScriptsInv'
  BY <1>2 DEF IInv, ScriptsInv
<1>5. WholeInv'
  BY <1>2 DEF IInv, WholeInv
<1>6. S!SavedIsWhole'
  BY DEF IInv, S!SavedIsWhole
<1>7. (\A q \in S!Process : ~S!Saving(q)') => \A q \in S!Process : ~S!Saving(q)
  BY <1>2 DEF S!Saving
<1>8. \A q \in S!Process \ {p} : S!OutOfDate(q)' = S!OutOfDate(q)
  BY DEF S!OutOfDate
<1>9. CopyInv'
  <2>. SUFFICES ASSUME NEW q \in S!Process, ~S!OutOfDate(q)', s_saved' # NONE, s_held'[q] # s_saved',
                       \A r \in S!Process : ~S!Saving(r)'
                PROVE  s_script'[q] # <<>> /\ s_script'[q][Len(s_script'[q])].op = "stamp"
    BY DEF CopyInv
  <2>1. CASE q = p
    BY <1>2, <1>7, <2>1
  <2>2. CASE q # p
    BY <1>2, <1>7, <1>8, <2>2 DEF IInv, CopyInv
  <2>. QED  BY <2>1, <2>2
<1>10. NameInv'
  <2>. SUFFICES ASSUME NEW q \in S!Process, ~s_disturbed'[q], s_saved' # NONE, s_script'[q] # <<>>
                PROVE  /\ s_script'[q][1].op = "name" => s_held'[q] = s_saved'
                       /\ ~S!OutOfDate(q)' /\ s_script'[q][1].op = "look" /\ Len(s_script'[q]) >= 3
                          /\ s_script'[q][3].op = "name" => s_held'[q] = s_saved'
    BY DEF NameInv
  <2>1. CASE q = p
    BY <1>2, <2>1
  <2>2. CASE q # p
    BY <1>2, <1>8, <2>2 DEF IInv, NameInv
  <2>. QED  BY <2>1, <2>2
<1>. QED  BY <1>3, <1>4, <1>5, <1>6, <1>9, <1>10 DEF IInv
LEMMA LooksHolds ==
  ASSUME IInv, NEW p \in S!Process, S!Looks(p)
  PROVE  IInv'
<1>. DEFINE s == s_script[p]
            t == Tail(s)
<1>1. /\ s \in Seq(StepType) /\ s # <<>> /\ Shape(s) /\ s[1].op = "look"
      /\ Len(s) \in Nat \ {0} /\ t \in Seq(StepType) /\ Shape(t) /\ Len(t) = Len(s) - 1
      /\ Logged(t)
      /\ \A i \in 1..(Len(s) - 1) : t[i] = s[i + 1]
  BY NextSteps DEF IInv, S!Looks
<1>2. /\ s_seen' = [s_seen EXCEPT ![p] = s_db_time]
      /\ s_script' = [s_script EXCEPT ![p] = IF S!OutOfDate(p) THEN t ELSE Tail(t)]
      /\ UNCHANGED <<s_saved, s_db_time, s_clock, s_held, s_timestamp, s_disturbed, s_commands>>
  BY DEF S!Looks
<1>3. ~S!Saving(p) /\ S!OutOfDate(p)' = S!OutOfDate(p)
  BY <1>1, <1>2 DEF S!Saving, S!OutOfDate
<1>4. /\ s_held' \in [S!Process -> S!Configurations \cup {NONE}]
      /\ s_timestamp' \in [S!Process -> 0..s_db_time] /\ s_seen' \in [S!Process -> 0..s_db_time]
      /\ s_disturbed' \in [S!Process -> BOOLEAN] /\ s_commands' \in 0..CommandBound
  BY <1>2 DEF IInv, TypeInv
<1>5. s_held[p] # NONE => S!Whole(s_held[p]) \/ GetsMode(s, s_held[p].definition)
  BY DEF IInv, WholeInv
<1>. HIDE DEF s, t
<1>6. Len(s) >= 2 /\ s[2].op = "fetch" /\ \A d : S!Step("mode", Default[d]).op = "mode"
  <2>1. 1 \in 1..Len(s)
    BY <1>1
  <2>2. 1 < Len(s) /\ s[1 + 1].op = "fetch"
    BY <1>1, <2>1 DEF Shape, InOrder, Before
  <2>3. \A d : S!Step("mode", Default[d]).op = "mode"
    BY DEF S!Step
  <2>. QED  BY <1>1, <2>2, <2>3
<1>7. t # <<>> /\ t[1].op = "fetch"
  <2>1. t[1] = s[2] /\ t \in Seq(StepType) /\ Len(t) > 0
    BY <1>1, <1>6
  <2>2. t # <<>>
    BY <2>1, NotEmpty
  <2>. QED  BY <1>6, <2>1, <2>2
<1>8. CASE S!OutOfDate(p)
  <2>1. s_held'[p] # NONE => S!Whole(s_held'[p]) \/ GetsMode(t, s_held'[p].definition)
    <3>1. ASSUME NEW d, GetsMode(s, d)
          PROVE  GetsMode(t, d)
      <4>1. Len(s) >= 3 /\ s[3] = S!Step("mode", Default[d])
        BY <1>1, <1>6, <3>1 DEF GetsMode
      <4>2. Len(t) >= 2 /\ t[2] = s[3]
        BY <1>1, <4>1
      <4>. QED  BY <1>7, <4>1, <4>2 DEF GetsMode
    <3>. QED  BY <1>2, <1>5, <3>1
  <2>2. s_script' = [s_script EXCEPT ![p] = t]
    BY <1>2, <1>8
  <2>3. Leaves(p, t)
    BY <1>1, <1>2, <1>4, <2>2 DEF Leaves
  <2>4a. Completes(p, t)
    BY <1>3, <1>7, <1>8, <2>1 DEF Completes
  <2>4b. Stamped(p, t)
    BY <1>3, <1>7, <1>8, <2>1 DEF Stamped
  <2>4c. NamesSaved(p, t)
    BY <1>3, <1>7, <1>8, <2>1 DEF NamesSaved
  <2>. QED  BY <1>3, <2>3, <2>4a, <2>4b, <2>4c, QuietHolds
<1>9. CASE ~S!OutOfDate(p)
  <2>. DEFINE u == Tail(t)
  <2>1. u \in Seq(StepType) /\ Shape(u) /\ Logged(u)
    BY <1>1, <1>7, TailShape, TailLogged
  <2>2. Len(u) \in Nat /\ Len(u) = Len(s) - 2 /\ \A i \in 1..(Len(s) - 2) : u[i] = s[i + 2]
    <3>1. Len(u) = Len(t) - 1 /\ \A i \in 1..Len(u) : u[i] = t[i + 1]
      BY <1>1, <1>7, HeadTailProperties
    <3>2. Len(u) \in Nat
      BY <2>1, NotEmpty
    <3>. QED  BY <1>1, <3>1, <3>2
  <2>3. s_script' = [s_script EXCEPT ![p] = u]
    BY <1>2, <1>9
  <2>. HIDE DEF u
  <2>4. s_held'[p] # NONE => S!Whole(s_held'[p]) \/ GetsMode(u, s_held'[p].definition)
    <3>1. ASSUME NEW d, GetsMode(s, d)
          PROVE  GetsMode(u, d)
      <4>1. Len(s) >= 3 /\ s[3] = S!Step("mode", Default[d])
        BY <1>1, <1>6, <3>1 DEF GetsMode
      <4>2. Len(u) >= 1 /\ u[1] = s[3]
        BY <2>2, <4>1
      <4>. QED  BY <4>1, <4>2 DEF GetsMode
    <3>. QED  BY <1>2, <1>5, <3>1
  <2>5. ASSUME s_saved # NONE, s_held[p] # s_saved, \A q \in S!Process : ~S!Saving(q)
        PROVE  u # <<>> /\ u[Len(u)].op = "stamp"
    <3>1. s[Len(s)].op = "stamp"
      BY <1>9, <2>5 DEF IInv, CopyInv, s
    <3>2. Len(s) >= 3
      BY <1>1, <1>6, <3>1
    <3>3. Len(u) > 0 /\ u[Len(u)] = s[Len(s)]
      BY <1>1, <2>2, <3>2
    <3>4. u # <<>>
      BY <2>1, <3>3, NotEmpty
    <3>. QED  BY <3>1, <3>3, <3>4
  <2>6. ASSUME ~s_disturbed[p], s_saved # NONE, u # <<>>
        PROVE  /\ u[1].op = "name" => s_held[p] = s_saved
               /\ ~(u[1].op = "look" /\ Len(u) >= 3 /\ u[3].op = "name")
    <3>1. Len(u) > 0 /\ Len(s) >= 3 /\ u[1] = s[3]
      <4>1. Len(u) > 0
        BY <2>1, <2>6, NotEmpty
      <4>. QED  BY <1>1, <2>2, <4>1
    <3>2. u[1].op = "name" => s_held[p] = s_saved
      BY <1>1, <1>9, <2>6, <3>1 DEF IInv, NameInv, s
    <3>3. \A i \in 1..Len(s) : s[i].op = "name" => i <= 3
      BY <1>1 DEF Shape, NameFirst
    <3>4. Len(u) >= 3 => u[3] = s[5] /\ 5 \in 1..Len(s)
      BY <1>1, <2>2
    <3>. QED  BY <3>2, <3>3, <3>4
  <2>7. Leaves(p, u)
    BY <1>2, <1>4, <2>1, <2>3 DEF Leaves
  <2>8a. Completes(p, u)
    BY <1>2, <2>4, <2>5, <2>6 DEF Completes
  <2>8b. Stamped(p, u)
    BY <1>2, <2>4, <2>5, <2>6 DEF Stamped
  <2>8c. NamesSaved(p, u)
    BY <1>2, <2>4, <2>5, <2>6 DEF NamesSaved
  <2>. QED  BY <1>3, <2>7, <2>8a, <2>8b, <2>8c, QuietHolds
<1>. QED  BY <1>8, <1>9

LEMMA FetchesHolds ==
  ASSUME IInv, NEW p \in S!Process, S!Fetches(p)
  PROVE  IInv'
<1>. DEFINE s == s_script[p]
            t == Tail(s)
<1>1. /\ s \in Seq(StepType) /\ s # <<>> /\ Shape(s) /\ s[1].op = "fetch"
      /\ Len(s) \in Nat \ {0} /\ t \in Seq(StepType) /\ Shape(t) /\ Len(t) = Len(s) - 1
      /\ Logged(t)
      /\ \A i \in 1..(Len(s) - 1) : t[i] = s[i + 1]
  BY NextSteps DEF IInv, S!Fetches
<1>2. /\ s_script' = [s_script EXCEPT ![p] = t]
      /\ UNCHANGED <<s_saved, s_db_time, s_clock, s_seen, s_disturbed, s_commands>>
  BY DEF S!Fetches, S!Done
<1>3. s_held[p] # NONE => S!Whole(s_held[p]) \/ GetsMode(s, s_held[p].definition)
  BY DEF IInv, WholeInv
<1>4. ~S!Saving(p)
  BY <1>1 DEF S!Saving
<1>5. /\ s_held \in [S!Process -> S!Configurations \cup {NONE}] /\ s_saved \in S!Configurations \cup {NONE}
      /\ s_timestamp \in [S!Process -> 0..s_db_time] /\ s_seen \in [S!Process -> 0..s_db_time]
      /\ s_disturbed \in [S!Process -> BOOLEAN] /\ s_commands \in 0..CommandBound
      /\ s_saved # NONE => S!Whole(s_saved)
  BY DEF IInv, TypeInv, S!SavedIsWhole
<1>. HIDE DEF s, t
<1>6. CASE s_saved = NONE
  <2>1. UNCHANGED <<s_held, s_timestamp>>
    BY <1>6 DEF S!Fetches
  <2>2. s_held'[p] # NONE => S!Whole(s_held'[p]) \/ GetsMode(t, s_held'[p].definition)
    <3>1. ASSUME NEW d, GetsMode(s, d)
          PROVE  GetsMode(t, d)
      <4>1. S!Step("mode", Default[d]).op = "mode"
        BY DEF S!Step
      <4>2. Len(s) >= 2 /\ s[2] = S!Step("mode", Default[d])
        BY <1>1, <3>1, <4>1 DEF GetsMode
      <4>3. Len(t) >= 1 /\ t[1] = s[2]
        BY <1>1, <4>2
      <4>. QED  BY <4>2, <4>3 DEF GetsMode
    <3>. QED  BY <1>3, <2>1, <3>1
  <2>3. Leaves(p, t)
    BY <1>1, <1>2, <1>5, <2>1 DEF Leaves
  <2>4a. Completes(p, t)
    BY <1>6, <2>2 DEF Completes
  <2>4b. Stamped(p, t)
    BY <1>6, <2>2 DEF Stamped
  <2>4c. NamesSaved(p, t)
    BY <1>6, <2>2 DEF NamesSaved
  <2>. QED  BY <1>4, <2>3, <2>4a, <2>4b, <2>4c, QuietHolds
<1>7. CASE s_saved # NONE
  <2>1. s_held' = [s_held EXCEPT ![p] = s_saved] /\ s_timestamp' = [s_timestamp EXCEPT ![p] = s_seen[p]]
    BY <1>7 DEF S!Fetches, S!Holds
  <2>2. s_held'[p] = s_saved /\ \A q \in S!Process \ {p} : s_held'[q] = s_held[q] /\ s_timestamp'[q] = s_timestamp[q]
    BY <1>5, <2>1
  <2>3. /\ s_held' \in [S!Process -> S!Configurations \cup {NONE}]
        /\ s_timestamp' \in [S!Process -> 0..s_db_time]
    BY <1>5, <2>1
  <2>4. Leaves(p, t)
    BY <1>1, <1>2, <1>5, <2>2, <2>3 DEF Leaves
  <2>5a. Completes(p, t)
    BY <1>5, <1>7, <2>2 DEF Completes
  <2>5b. Stamped(p, t)
    BY <1>5, <1>7, <2>2 DEF Stamped
  <2>5c. NamesSaved(p, t)
    BY <1>5, <1>7, <2>2 DEF NamesSaved
  <2>. QED  BY <1>4, <2>4, <2>5a, <2>5b, <2>5c, QuietHolds
<1>. QED  BY <1>6, <1>7

LEMMA AsksDefaultHolds ==
  ASSUME IInv, NEW p \in S!Process, S!AsksDefault(p)
  PROVE  IInv'
<1>. DEFINE s == s_script[p]
            t == Tail(s)
<1>1. /\ s \in Seq(StepType) /\ s # <<>> /\ Shape(s) /\ s[1].op = "default"
      /\ Len(s) \in Nat \ {0} /\ t \in Seq(StepType) /\ Shape(t) /\ Len(t) = Len(s) - 1
      /\ Logged(t)
      /\ \A i \in 1..(Len(s) - 1) : t[i] = s[i + 1]
  BY NextSteps DEF IInv, S!AsksDefault
<1>2. s_held[p] # NONE => S!Whole(s_held[p])
  BY WholeUnlessLoading DEF S!AsksDefault
<1>3. ~S!Saving(p)
  BY <1>1 DEF S!Saving
<1>4. UNCHANGED <<s_saved, s_db_time, s_clock, s_held, s_timestamp, s_seen, s_disturbed, s_commands>>
  BY DEF S!AsksDefault
<1>5. /\ s_held' \in [S!Process -> S!Configurations \cup {NONE}]
      /\ s_timestamp' \in [S!Process -> 0..s_db_time] /\ s_seen' \in [S!Process -> 0..s_db_time]
      /\ s_disturbed' \in [S!Process -> BOOLEAN] /\ s_commands' \in 0..CommandBound
  BY <1>4 DEF IInv, TypeInv
<1>6. CASE s_held[p] # NONE
  <2>. DEFINE d == s_held[p].definition
              u == S!ModeSteps(Default[d]) \o t
  <2>1. d \in Definition
    BY <1>6 DEF IInv, TypeInv, S!Configurations
  <2>2. s_script' = [s_script EXCEPT ![p] = u]
    BY <1>6 DEF S!AsksDefault
  <2>3. /\ u \in Seq(StepType) /\ Shape(u) /\ u # <<>> /\ u[Len(u)].op = "stamp"
        /\ Logged(u) /\ u[3].op # "name" /\ u[1].op # "name"
    BY <1>1, <2>1, DefaultShape
  <2>. HIDE DEF d, u, t, s
  <2>4. Leaves(p, u)
    BY <1>4, <1>5, <2>2, <2>3 DEF Leaves
  <2>5a. Completes(p, u)
    BY <1>2, <1>4, <2>3 DEF Completes
  <2>5b. Stamped(p, u)
    BY <1>2, <1>4, <2>3 DEF Stamped
  <2>5c. NamesSaved(p, u)
    BY <1>2, <1>4, <2>3 DEF NamesSaved
  <2>. QED  BY <1>3, <2>4, <2>5a, <2>5b, <2>5c, QuietHolds
<1>7. CASE s_held[p] = NONE
  <2>1. s_script' = [s_script EXCEPT ![p] = t]
    BY <1>7 DEF S!AsksDefault, S!Done
  <2>. HIDE DEF t, s
  <2>2. S!OutOfDate(p)'
    BY <1>4, <1>7 DEF S!OutOfDate
  <2>3. t # <<>> => t[1].op # "name"
    <3>1. t # <<>> => 1 \in 1..(Len(s) - 1)
      BY <1>1, NotEmpty
    <3>2. t # <<>> => t[1] = s[2] /\ 2 \in 1..Len(s)
      BY <1>1, <3>1
    <3>. QED  BY <1>1, <3>2 DEF Shape, NameFirst
  <2>4. Leaves(p, t)
    BY <1>1, <1>4, <1>5, <2>1 DEF Leaves
  <2>5a. Completes(p, t)
    BY <1>4, <1>7, <2>2, <2>3 DEF Completes
  <2>5b. Stamped(p, t)
    BY <1>4, <1>7, <2>2, <2>3 DEF Stamped
  <2>5c. NamesSaved(p, t)
    BY <1>4, <1>7, <2>2, <2>3 DEF NamesSaved
  <2>. QED  BY <1>3, <2>4, <2>5a, <2>5b, <2>5c, QuietHolds
<1>. QED  BY <1>6, <1>7
LEMMA AssignsHolds ==
  ASSUME S!SQLiteAssumption, IInv, NEW p \in S!Process, S!Assigns(p)
  PROVE  IInv'
<1>. DEFINE s == s_script[p]
            t == Tail(s)
            d == S!Arg(p)
<1>1. /\ s \in Seq(StepType) /\ s # <<>> /\ Shape(s) /\ s[1].op = "assign" /\ Head(s) = s[1]
      /\ Len(s) \in Nat \ {0} /\ t \in Seq(StepType) /\ Shape(t) /\ Len(t) = Len(s) - 1
      /\ Logged(t)
      /\ \A i \in 1..(Len(s) - 1) : t[i] = s[i + 1]
  BY NextSteps DEF IInv, S!Assigns
<1>2. /\ s_script' = [s_script EXCEPT ![p] = t]
      /\ s_held' = [s_held EXCEPT ![p] = S!Bare(d)]
      /\ UNCHANGED <<s_saved, s_db_time, s_clock, s_timestamp, s_seen, s_disturbed, s_commands>>
  BY DEF S!Assigns, S!Done, S!Holds
<1>3. ~S!Saving(p)
  BY <1>1 DEF S!Saving
<1>4. /\ s_held \in [S!Process -> S!Configurations \cup {NONE}]
      /\ s_timestamp \in [S!Process -> 0..s_db_time] /\ s_seen \in [S!Process -> 0..s_db_time]
      /\ s_disturbed \in [S!Process -> BOOLEAN] /\ s_commands \in 0..CommandBound
  BY DEF IInv, TypeInv
<1>5. d = s[1].arg
  BY <1>1 DEF S!Arg
<1>. HIDE DEF s, t, d
<1>6. /\ d \in Definition /\ Len(s) >= 4
      /\ s[2].op = "look" /\ s[3].op = "fetch" /\ s[4] = S!Step("mode", Default[d])
  <2>1. 1 \in 1..Len(s)
    BY <1>1
  <2>2. /\ d \in Definition /\ 1 + 3 <= Len(s)
        /\ s[1 + 1].op = "look" /\ s[1 + 2].op = "fetch" /\ s[1 + 3] = S!Step("mode", Default[d])
    BY <1>1, <1>5, <2>1 DEF Shape, InOrder, Before
  <2>. QED  BY <1>1, <2>2
<1>7. /\ Len(t) >= 3 /\ t[1].op = "look" /\ t[2].op = "fetch" /\ t[3] = S!Step("mode", Default[d])
      /\ t[Len(t)] = s[Len(s)]
  BY <1>1, <1>6
<1>8. S!Bare(d) \in S!Configurations /\ S!Bare(d).definition = d
  <2>. DEFINE AllNames == (UNION {S!Names(e, l) : e \in Definition, l \in Logger}) \cup {NONE}
              AllModes == (UNION {S!Modes(e) : e \in Definition}) \cup {NONE}
              active   == [l \in Logger |-> NONE]
  <2>1. NONE \in AllNames /\ NONE \in AllModes
    OBVIOUS
  <2>2. S!Configurations = [definition : Definition, mode : AllModes, active : [Logger -> AllNames]]
    BY DEF S!Configurations
  <2>. HIDE DEF AllNames, AllModes
  <2>3. active \in [Logger -> AllNames]
    BY <2>1
  <2>4. S!Bare(d) = [definition |-> d, mode |-> NONE, active |-> active]
    BY DEF S!Bare, S!Configuration
  <2>. HIDE DEF active
  <2>5. [definition |-> d, mode |-> NONE, active |-> active] \in S!Configurations
    BY <1>6, <2>1, <2>2, <2>3
  <2>. QED  BY <2>4, <2>5
<1>9. s_held'[p] = S!Bare(d) /\ \A q \in S!Process \ {p} : s_held'[q] = s_held[q]
  BY <1>2, <1>4
<1>10. Leaves(p, t)
  <2>1. s_held' \in [S!Process -> S!Configurations \cup {NONE}]
    BY <1>2, <1>4, <1>8
  <2>. QED  BY <1>1, <1>2, <1>4, <1>9, <2>1 DEF Leaves
<1>11. Completes(p, t)
  BY <1>7, <1>8, <1>9 DEF Completes, GetsMode
<1>12. Stamped(p, t)
  <2>1. 1 \in 1..Len(s)
    BY <1>1
  <2>2. s[Len(s)].op = "stamp"
    BY <1>1, <2>1 DEF Shape, EndsStamped
  <2>3. t # <<>>
    <3>1. t \in Seq(StepType) /\ Len(t) > 0
      BY <1>1, <1>7
    <3>. QED  BY <3>1, NotEmpty
  <2>. QED  BY <1>7, <2>2, <2>3 DEF Stamped
<1>13. NamesSaved(p, t)
  <2>1. t[3].op = "mode"
    BY <1>7 DEF S!Step
  <2>. QED  BY <1>7, <2>1 DEF NamesSaved
<1>. QED  BY <1>3, <1>10, <1>11, <1>12, <1>13, QuietHolds

\* With a new time every copy is out of date.
LEMMA StampsUpdateHolds ==
  ASSUME IInv, NEW p \in S!Process, S!StampsUpdate(p)
  PROVE  IInv'
<1>. DEFINE s == s_script[p]
            t == Tail(s)
<1>1. /\ s \in Seq(StepType) /\ s # <<>> /\ Shape(s) /\ s[1].op = "stamp"
      /\ Len(s) \in Nat \ {0} /\ t \in Seq(StepType) /\ Shape(t) /\ Len(t) = Len(s) - 1
      /\ Logged(t)
      /\ \A i \in 1..(Len(s) - 1) : t[i] = s[i + 1]
  BY NextSteps DEF IInv, S!StampsUpdate
<1>2. /\ s_script' = [s_script EXCEPT ![p] = t]
      /\ s_clock' = s_clock + 1 /\ s_db_time' = s_clock + 1
      /\ UNCHANGED <<s_saved, s_held, s_timestamp, s_seen, s_disturbed, s_commands>>
  BY DEF S!StampsUpdate, S!Done
<1>3. s_held[p] # NONE => S!Whole(s_held[p])
  BY WholeUnlessLoading DEF S!StampsUpdate
<1>. HIDE DEF s, t
<1>4. /\ s_script \in [S!Process -> Seq(StepType)] /\ s_clock \in Nat /\ s_db_time \in 0..s_clock
      /\ s_timestamp \in [S!Process -> 0..s_db_time] /\ s_seen \in [S!Process -> 0..s_db_time]
  BY DEF IInv, TypeInv
<1>5. s_script'[p] = t /\ \A q \in S!Process \ {p} : s_script'[q] = s_script[q]
  BY <1>2, <1>4
<1>6. TypeInv'
  <2>1. s_script' \in [S!Process -> Seq(StepType)]
    BY <1>1, <1>2, <1>4
  <2>2. \A x \in 0..s_db_time : x \in 0..(s_clock + 1)
    BY <1>4
  <2>3. s_timestamp' \in [S!Process -> 0..(s_clock + 1)] /\ s_seen' \in [S!Process -> 0..(s_clock + 1)]
    BY <1>2, <1>4, <2>2
  <2>4. s_clock' \in Nat /\ s_db_time' \in 0..s_clock'
    BY <1>2, <1>4
  <2>. QED  BY <1>2, <2>1, <2>3, <2>4 DEF IInv, TypeInv
<1>7. ScriptsInv'
  BY <1>1, <1>5 DEF IInv, ScriptsInv
<1>8. WholeInv'
  BY <1>2, <1>3, <1>5 DEF IInv, WholeInv
<1>9. S!SavedIsWhole'
  BY <1>2 DEF IInv, S!SavedIsWhole
<1>10. \A q \in S!Process : S!OutOfDate(q)'
  <2>1. \A q \in S!Process : s_timestamp[q] \in 0..s_db_time
    BY <1>4
  <2>2. \A x \in 0..s_db_time : s_clock + 1 > x
    BY <1>4
  <2>. QED  BY <1>2, <2>1, <2>2 DEF S!OutOfDate
<1>11. CopyInv'
  BY <1>10 DEF CopyInv
<1>12. NameInv'
  <2>1. t # <<>> => t[1].op # "name"
    <3>1. t # <<>> => 1 \in 1..(Len(s) - 1)
      BY <1>1, NotEmpty
    <3>2. t # <<>> => t[1] = s[2] /\ 2 \in 1..Len(s)
      BY <1>1, <3>1
    <3>. QED  BY <1>1, <3>2 DEF Shape, NameFirst
  <2>. QED  BY <1>2, <1>5, <1>10, <2>1 DEF IInv, NameInv
<1>. QED  BY <1>6, <1>7, <1>8, <1>9, <1>11, <1>12 DEF IInv

\* A process without a command holds what is whole.
LEMMA IdleFacts ==
  ASSUME IInv, NEW p \in S!Process, s_script[p] = <<>>
  PROVE  ~S!Saving(p) /\ (s_held[p] # NONE => S!Whole(s_held[p]))
<1>1. Len(<<>>) = 0
  BY EmptySeq
<1>. QED  BY <1>1 DEF IInv, WholeInv, GetsMode, S!Saving

LEMMA EntersHolds ==
  ASSUME S!SQLiteAssumption, IInv, NEW p \in Setter, S!Enters(p)
  PROVE  IInv'
<1>1. p \in S!Process
  BY DEF S!Process
<1>2. PICK c \in Command : s_script' = [s_script EXCEPT ![p] = S!StepsOf(c)]
  BY DEF S!Enters
<1>3. /\ s_script[p] = <<>> /\ s_commands < CommandBound /\ s_commands' = s_commands + 1
      /\ s_disturbed' = [s_disturbed EXCEPT ![p] = \E q \in S!Process \ {p} : S!Saving(q)]
      /\ UNCHANGED <<s_saved, s_db_time, s_clock, s_held, s_timestamp, s_seen>>
  BY DEF S!Enters
<1>. DEFINE t == S!StepsOf(c)
<1>4. /\ t \in Seq(StepType) /\ Shape(t) /\ t # <<>> /\ t[Len(t)].op = "stamp" /\ t[1].op # "name"
      /\ Logged(t)
  BY CommandShape
<1>. HIDE DEF t
<1>5. ~S!Saving(p) /\ (s_held[p] # NONE => S!Whole(s_held[p]))
  BY <1>1, <1>3, IdleFacts
<1>6. S!OutOfDate(p)' = S!OutOfDate(p)
  BY <1>3 DEF S!OutOfDate
<1>7. /\ s_disturbed \in [S!Process -> BOOLEAN] /\ s_commands \in 0..CommandBound /\ CommandBound \in Nat
      /\ s_held \in [S!Process -> S!Configurations \cup {NONE}]
      /\ s_timestamp \in [S!Process -> 0..s_db_time] /\ s_seen \in [S!Process -> 0..s_db_time]
  BY DEF IInv, TypeInv, S!SQLiteAssumption
<1>8. Leaves(p, t)
  <2>1. s_commands' \in 0..CommandBound
    BY <1>3, <1>7
  <2>2. s_disturbed' \in [S!Process -> BOOLEAN]
        /\ \A q \in S!Process \ {p} : s_disturbed'[q] = s_disturbed[q]
    BY <1>3, <1>7
  <2>. QED  BY <1>2, <1>3, <1>4, <1>7, <2>1, <2>2 DEF Leaves, t
<1>9. Completes(p, t)
  BY <1>3, <1>5 DEF Completes
<1>10. Stamped(p, t)
  BY <1>4 DEF Stamped
<1>11. NamesSaved(p, t)
  <2>. SUFFICES ASSUME ~s_disturbed'[p], s_saved # NONE, ~S!OutOfDate(p)
                PROVE  s_held'[p] = s_saved
    BY <1>4, <1>6 DEF NamesSaved
  <2>1. \A q \in S!Process : ~S!Saving(q)
    BY <1>1, <1>3, <1>5, <1>7
  <2>2. s_held[p] = s_saved
    BY <1>1, <1>3, <2>1 DEF IInv, CopyInv
  <2>. QED  BY <1>3, <2>2
<1>. QED  BY <1>1, <1>5, <1>8, <1>9, <1>10, <1>11, QuietHolds

LEMMA PollsHolds ==
  ASSUME IInv, NEW p \in Reader, S!Polls(p)
  PROVE  IInv'
<1>. DEFINE t == S!ReloadSteps
<1>1. p \in S!Process
  BY DEF S!Process
<1>2. /\ s_script[p] = <<>> /\ S!OutOfDate(p) /\ s_script' = [s_script EXCEPT ![p] = t]
      /\ UNCHANGED <<s_saved, s_db_time, s_clock, s_held, s_timestamp, s_seen, s_disturbed, s_commands>>
  BY DEF S!Polls
<1>3. t \in Seq(StepType) /\ Shape(t) /\ Logged(t) /\ Len(t) = 2 /\ t[1].op = "look"
  <2>1. t[1].op = "look" /\ t[2].op = "fetch" /\ Len(t) = 2
    BY LoadingSteps DEF S!Step
  <2>2. \A i \in 1..Len(t) : i = 1 \/ i = 2
    BY <2>1
  <2>3. Logged(t)
    BY <2>1, <2>2 DEF Logged
  <2>. QED  BY <2>1, <2>3, LoadingSteps
<1>. HIDE DEF t
<1>4. ~S!Saving(p) /\ (s_held[p] # NONE => S!Whole(s_held[p]))
  BY <1>1, <1>2, IdleFacts
<1>5. S!OutOfDate(p)'
  BY <1>2 DEF S!OutOfDate
<1>6. Leaves(p, t)
  BY <1>2, <1>3 DEF Leaves, IInv, TypeInv
<1>7. Completes(p, t)
  BY <1>2, <1>4 DEF Completes
<1>8. Stamped(p, t)
  BY <1>5 DEF Stamped
<1>9. NamesSaved(p, t)
  BY <1>3 DEF NamesSaved
<1>. QED  BY <1>1, <1>4, <1>6, <1>7, <1>8, <1>9, QuietHolds

-----------------------------------------------------------------------------
(***************************************************************************)
(* Theorems.                                                               *)
(***************************************************************************)
LEMMA InitHolds ==
  ASSUME S!SQLiteAssumption, S!SQLiteInit
  PROVE  IInv
<1>1. PICK d \in Definition :
        /\ s_saved = S!InMode(d, Default[d])
        /\ \/ s_held = [p \in S!Process |-> NONE]
           \/ s_held = [p \in S!Process |-> s_saved]
  BY DEF S!SQLiteInit
<1>2. s_saved \in S!Configurations /\ S!Whole(s_saved)
  <2>1. Default[d] \in S!Modes(d)
    BY DEF S!SQLiteAssumption
  <2>. QED  BY <1>1, <2>1, ModesAreWhole
<1>3. \A p \in S!Process : s_held[p] \in {NONE, s_saved} /\ s_script[p] = <<>>
  BY <1>1 DEF S!SQLiteInit
<1>4. Len(<<>>) = 0 /\ <<>> \in Seq(StepType)
  BY EmptySeq
<1>5. TypeInv
  BY <1>1, <1>2, <1>4 DEF S!SQLiteInit, TypeInv, S!SQLiteAssumption
<1>6. ScriptsInv
  <2>1. Shape(<<>>) /\ Logged(<<>>)
    BY <1>4 DEF Shape, InOrder, Before, EndsStamped, NameFirst, Logged
  <2>. QED  BY <1>3, <2>1 DEF ScriptsInv
<1>7. WholeInv
  BY <1>2, <1>3 DEF WholeInv
<1>8. S!SavedIsWhole
  BY <1>2 DEF S!SavedIsWhole
<1>9. CopyInv
  BY <1>3 DEF CopyInv, S!OutOfDate
<1>10. NameInv
  BY <1>3 DEF NameInv
<1>. QED  BY <1>5, <1>6, <1>7, <1>8, <1>9, <1>10 DEF IInv

LEMMA NextHolds == S!SQLiteAssumption /\ IInv /\ [S!SQLiteNext]_(S!sqliteVars) => IInv'
<1>. SUFFICES ASSUME S!SQLiteAssumption, IInv, [S!SQLiteNext]_(S!sqliteVars)
              PROVE  IInv'
  OBVIOUS
<1>1. ASSUME NEW p \in Setter, S!Enters(p)
      PROVE  IInv'
  BY <1>1, EntersHolds
<1>2. ASSUME NEW p \in Reader, S!Polls(p)
      PROVE  IInv'
  BY <1>2, PollsHolds
<1>3. ASSUME NEW p \in S!Process, S!GoesOn(p)
      PROVE  IInv'
  BY <1>3, LooksHolds, FetchesHolds, SetsModeHolds, AsksDefaultHolds, SetsNameHolds,
     AssignsHolds, ClearsHolds, SavesHolds, StampsUpdateHolds DEF S!GoesOn
<1>4. CASE UNCHANGED S!sqliteVars
  <2>1. TypeInv' /\ ScriptsInv'
    BY <1>4 DEF S!sqliteVars, IInv, TypeInv, ScriptsInv
  <2>2. WholeInv' /\ S!SavedIsWhole'
    BY <1>4 DEF S!sqliteVars, IInv, WholeInv, S!SavedIsWhole
  <2>3. CopyInv'
    BY <1>4 DEF S!sqliteVars, IInv, CopyInv, S!OutOfDate, S!Saving
  <2>4. NameInv'
    BY <1>4 DEF S!sqliteVars, IInv, NameInv, S!OutOfDate
  <2>. QED  BY <2>1, <2>2, <2>3, <2>4 DEF IInv
<1>. QED  BY <1>1, <1>2, <1>3, <1>4 DEF S!SQLiteNext

\* The invariant holds of every reachable state.
LEMMA InvHolds == S!SQLiteAssumption => (S!SQLiteSpec => []IInv)
<1>. SUFFICES ASSUME S!SQLiteAssumption
              PROVE  S!SQLiteSpec => []IInv
  OBVIOUS
<1>1. S!SQLiteInit => IInv
  BY InitHolds
<1>2. IInv /\ [S!SQLiteNext]_(S!sqliteVars) => IInv'
  BY NextHolds
<1>. QED  BY <1>1, <1>2, PTL DEF S!SQLiteSpec

LEMMA InvTypeOK == IInv => S!SQLiteTypeOK
<1>. SUFFICES ASSUME IInv
              PROVE  S!SQLiteTypeOK
  OBVIOUS
<1>1. ASSUME NEW p \in S!Process
      PROVE  \A i \in DOMAIN s_script[p] : s_script[p][i].op \in Ops
  <2>. DEFINE s == s_script[p]
  <2>1. s \in Seq(StepType)
    BY DEF IInv, TypeInv
  <2>. HIDE DEF s
  <2>2. \A i \in DOMAIN s : s[i] \in StepType
    BY <2>1
  <2>. QED  BY <2>2 DEF s, StepType
<1>. QED  BY <1>1 DEF IInv, TypeInv, S!SQLiteTypeOK, Ops

\* What the processes hold and what is in the database is always of its type.
THEOREM TypeCorrect == S!SQLiteAssumption => (S!SQLiteSpec => []S!SQLiteTypeOK)
  BY InvHolds, InvTypeOK, PTL

\* What is in the database is always one definition's, though each process
\* writes a whole copy of its own, and a process between commands that would
\* not load again holds just that, unless a save still has to update the
\* time (SQLiteServerAPI._save_config, _do_we_need_to_reload).
THEOREM StoreIsSafe == S!SQLiteAssumption => (S!SQLiteSpec => []S!SQLiteSafe)
<1>1. IInv => S!SQLiteSafe
  <2>. SUFFICES ASSUME IInv
                PROVE  S!SQLiteSafe
    OBVIOUS
  <2>1. S!HeldIsSaved
    BY DEF IInv, CopyInv, S!HeldIsSaved
  <2>. QED  BY <2>1, InvTypeOK DEF S!SQLiteSafe, IInv
<1>. QED  BY <1>1, InvHolds, PTL

\* A command that sets one logger's configuration writes a whole copy, and
\* yet undoes nothing: no step of it changes anything else in the database,
\* unless another process's save overlapped with it, or the definition had
\* been deleted (SQLiteServerAPI.set_active_logger_config).
THEOREM NothingIsUndone ==
  S!SQLiteAssumption => (S!SQLiteSpec => S!ChangesOneLogger)
<1>. SUFFICES ASSUME S!SQLiteAssumption
              PROVE  S!SQLiteSpec => S!ChangesOneLogger
  OBVIOUS
<1>1. IInv /\ [S!SQLiteNext]_(S!sqliteVars) => [\A p \in Setter : S!SetsOneLogger(p)]_(S!sqliteVars)
  <2>. SUFFICES ASSUME IInv, NEW p \in Setter, S!SetsName(p), s_script'[p] = Tail(s_script[p]),
                       ~s_disturbed[p], s_saved # NONE
                PROVE  s_saved' = [s_saved EXCEPT !.active[S!Arg(p)[1]] = S!Arg(p)[2]]
    BY DEF S!SetsOneLogger
  <2>1. p \in S!Process /\ S!Now(p, "name")
    BY DEF S!Process, S!SetsName
  <2>2. /\ s_script[p] # <<>> /\ s_script[p][1].op = "name"
        /\ Len(s_script[p]) \in Nat \ {0} /\ Shape(s_script[p])
        /\ Len(Tail(s_script[p])) = Len(s_script[p]) - 1
        /\ \A i \in 1..(Len(s_script[p]) - 1) : Tail(s_script[p])[i] = s_script[p][i + 1]
    BY <2>1, NextSteps DEF IInv
  <2>3. s_held[p] = s_saved
    BY <2>1, <2>2 DEF IInv, NameInv
  <2>4. ~S!Fails(p)
    <3>1. 1 \in 1..Len(s_script[p]) /\ Logged(s_script[p])
      BY <2>1, <2>2 DEF IInv, ScriptsInv
    <3>2. Len(Tail(s_script[p])) # 1
      BY <2>2, <3>1 DEF Logged
    <3>3. S!Fails(p) => s_script'[p] = S!LogSteps
      BY <2>1 DEF S!Fails, IInv, TypeInv
    <3>4. S!Fails(p) => Tail(s_script[p]) = S!LogSteps
      BY <3>3
    <3>5. Len(S!LogSteps) = 1
      BY LoggedSteps
    <3>. HIDE DEF S!LogSteps
    <3>6. S!Fails(p) => Len(Tail(s_script[p])) = 1
      BY <3>4, <3>5
    <3>. QED  BY <3>2, <3>6
  <2>5. S!Puts(p, [s_held[p] EXCEPT !.active[S!Arg(p)[1]] = S!Arg(p)[2]])
    BY <2>4 DEF S!SetsName
  <2>. QED  BY <2>3, <2>5 DEF S!Puts
<1>. QED  BY <1>1, InvHolds, PTL DEF S!SQLiteSpec, S!ChangesOneLogger

-----------------------------------------------------------------------------
(***************************************************************************)
(* The two side by side: what a run does with either is what its own       *)
(* specification allows, whichever of them is in use.                      *)
(***************************************************************************)
LEMMA SQLiteRuns == StoresSpec => S!SQLiteSpec
<1>1. StoresInit => S!SQLiteInit
  BY DEF StoresInit
<1>2. [StoresNext]_allvars => [S!SQLiteNext]_(S!sqliteVars)
  BY DEF StoresNext, allvars, DjangoDoes, SQLiteDoes, svars, S!sqliteVars
<1>. QED  BY <1>1, <1>2, PTL DEF StoresSpec, S!SQLiteSpec

\* What is in the database is one definition's from end to end, and a process
\* between commands that would not load again holds just that
\* (SQLiteServerAPI._save_config, _do_we_need_to_reload).
THEOREM SavedStaysSafe == StoresSpec => []SQLiteSafe
<1>1. S!SQLiteAssumption
  BY SQLiteAssumed DEF SQLiteAssumed
<1>. QED  BY <1>1, SQLiteRuns, StoreIsSafe, PTL DEF SQLiteSafe

\* Setting one logger's configuration undoes nothing another process did
\* meanwhile, unless their saves overlapped or the definition was deleted
\* (SQLiteServerAPI.set_active_logger_config).
THEOREM CommandsUndoNothing == StoresSpec => ChangesOneLogger
<1>1. S!SQLiteAssumption
  BY SQLiteAssumed DEF SQLiteAssumed
<1>. QED  BY <1>1, SQLiteRuns, NothingIsUndone, PTL DEF ChangesOneLogger
=============================================================================
