----------------------------- MODULE EndsProofs -----------------------------
(***************************************************************************)
(* Proofs about TimeoutReader, TimeoutWriter and WebsocketWriter as run    *)
(* side by side by MCEnds, for every timeout, every delay of the client    *)
(* writer, every set of clients and every length of their queues; and      *)
(* about CachedDataWriter, which is run beside them.                       *)
(***************************************************************************)
EXTENDS MCEnds, SequenceTheorems, FiniteSetTheorems, TLAPS

-----------------------------------------------------------------------------
(***************************************************************************)
(* TimeoutReader.                                                          *)
(***************************************************************************)
\* last_record is no older than the silence, unless it is about to be
\* written; and a read() that is told to stop knows why.
ReaderInv ==
  /\ R!TypeOK
  /\ r_age <= r_quiet \/ r_thread = "stamping" \/ r_caller = "stamping"
  /\ r_caller # "idle" => r_keep_reading \/ r_timed_out \/ r_quit

LEMMA ReaderStarts == R!Init => ReaderInv
<1> SUFFICES ASSUME R!Init PROVE ReaderInv
  OBVIOUS
<1>1. Timeout \in Nat \ {0}
  BY EndsAssumption DEF EndsAssumption, R!TimeoutAssumption
<1>2. r_age = 0 /\ r_quiet = 0 /\ r_age \in 0..R!Cap /\ r_quiet \in 0..R!Cap
  BY <1>1 DEF R!Init, R!Cap
<1>3. r_keep_reading \in BOOLEAN /\ r_timed_out \in BOOLEAN /\ r_slept \in BOOLEAN
      /\ r_arrived \in BOOLEAN /\ r_quit \in BOOLEAN
  BY DEF R!Init
<1> QED
  BY <1>2, <1>3 DEF R!Init, R!TypeOK, ReaderInv

LEMMA ReaderSteps ==
  ReaderInv /\ [R!Next]_rvars => ReaderInv' /\ R!TellsOfSilence /\ R!GivesNoneAtResume
<1> SUFFICES ASSUME ReaderInv, [R!Next]_rvars
             PROVE  ReaderInv' /\ R!TellsOfSilence /\ R!GivesNoneAtResume
  OBVIOUS
<1> USE DEF ReaderInv, R!TypeOK, R!TellsOfSilence, R!GivesNoneAtResume, R!Cap
<1> Timeout \in Nat \ {0} /\ NONE \notin {"timeout", "resume"}
  BY EndsAssumption DEF EndsAssumption, R!TimeoutAssumption
<1>1. CASE R!ReadBegins
  <2>0. r_keep_reading' = TRUE /\ r_quit' = FALSE /\ r_quiet' \in 0..R!Cap
    BY <1>1 DEF R!ReadBegins
  <2>1. R!TypeOK'
    BY <1>1, <2>0 DEF R!ReadBegins, R!Goes
  <2>2. (r_age <= r_quiet \/ r_thread = "stamping" \/ r_caller = "stamping")'
    BY <1>1 DEF R!ReadBegins, R!Goes
  <2>3. (r_caller # "idle" => r_keep_reading \/ r_timed_out \/ r_quit)'
    BY <1>1 DEF R!ReadBegins, R!Goes
  <2>4. R!TellsOfSilence /\ R!GivesNoneAtResume
    BY <1>1 DEF R!ReadBegins, R!Goes
  <2> QED
    BY <2>1, <2>2, <2>3, <2>4
<1>2. CASE R!StampsStart
  BY <1>2 DEF R!StampsStart, R!Goes
<1>3. CASE R!StartsThread
  BY <1>3 DEF R!StartsThread, R!Goes
<1>4. CASE R!Loops
  BY <1>4 DEF R!Loops, R!Goes, R!Returns
<1>5. CASE R!Resumes
  BY <1>5 DEF R!Resumes, R!Goes, R!Returns
<1>6. CASE R!TimesOut
  <2>1. R!TypeOK'
    BY <1>6 DEF R!TimesOut, R!Goes, R!Returns
  <2>2. (r_age <= r_quiet \/ r_thread = "stamping" \/ r_caller = "stamping")'
    BY <1>6 DEF R!TimesOut, R!Goes, R!Returns
  <2>3. (r_caller # "idle" => r_keep_reading \/ r_timed_out \/ r_quit)'
    BY <1>6 DEF R!TimesOut, R!Goes, R!Returns
  <2>4. R!TellsOfSilence /\ R!GivesNoneAtResume
    BY <1>6 DEF R!TimesOut, R!Goes, R!Returns
  <2> QED
    BY <2>1, <2>2, <2>3, <2>4
<1>7. CASE R!Sleeps
  BY <1>7 DEF R!Sleeps, R!Goes
<1>8. CASE R!Wakes
  BY <1>8 DEF R!Wakes, R!Goes
<1>9. CASE R!Quit
  BY <1>9 DEF R!Quit
<1>10. CASE R!ThreadTests
  BY <1>10 DEF R!ThreadTests
<1>11. CASE R!ThreadReads
  <2>0. r_arrived' = FALSE /\ r_quiet' \in 0..R!Cap
    BY <1>11 DEF R!ThreadReads
  <2>1. R!TypeOK'
    BY <1>11, <2>0 DEF R!ThreadReads
  <2>2. (r_age <= r_quiet \/ r_thread = "stamping" \/ r_caller = "stamping")'
    BY <1>11 DEF R!ThreadReads
  <2>3. (r_caller # "idle" => r_keep_reading \/ r_timed_out \/ r_quit)'
    BY <1>11 DEF R!ThreadReads
  <2>4. R!TellsOfSilence /\ R!GivesNoneAtResume
    BY <1>11 DEF R!ThreadReads
  <2> QED
    BY <2>1, <2>2, <2>3, <2>4
<1>12. CASE R!ThreadStamps
  BY <1>12 DEF R!ThreadStamps
<1>13. CASE R!ThreadEnds
  BY <1>13 DEF R!ThreadEnds
<1>14. CASE R!RecordArrives
  BY <1>14 DEF R!RecordArrives
<1>15. CASE R!Tick
  BY <1>15 DEF R!Tick, R!OneMore
<1>16. CASE UNCHANGED rvars
  BY <1>16 DEF rvars
<1> QED
  BY <1>1, <1>2, <1>3, <1>4, <1>5, <1>6, <1>7, <1>8, <1>9, <1>10, <1>11, <1>12, <1>13,
     <1>14, <1>15, <1>16 DEF R!Next, R!Reading, R!Thread

-----------------------------------------------------------------------------
(***************************************************************************)
(* TimeoutWriter.                                                          *)
(***************************************************************************)
\* What was told is what timed_out says, but for a message under way.
TurnsInv ==
  /\ w_watcher = "telling" => w_timed_out /\ w_write # "telling"
  /\ w_write = "telling" => ~w_timed_out
  /\ \A i \in DOMAIN w_told : w_told[i].text = IF i % 2 = 1 THEN "timeout" ELSE "resume"
  /\ Len(w_told) % 2 = 1 <=> w_write = "telling" \/ (w_timed_out /\ w_watcher # "telling")

\* The clock the thread has read is old by no more than one message of the
\* client writer, as long as it waits for the lock.
StaleInv ==
  /\ w_stale <= Slow
  /\ w_watcher = "locking" /\ w_write = "telling" => w_stale <= w_busy
  /\ w_watcher = "locking" /\ w_timed_out => w_stale = 0

\* While a silence has not been noticed, the thread wakes up in time; and
\* last_record is at least as old as the silence.
WatchInv ==
  /\ w_silence <= w_age
  /\ w_timed_out \/ w_write = "telling" \/ w_quit_signaled \/ w_watcher = "dead"
       \/ /\ w_silence <= Timeout + Slow + 1
          /\ w_watcher = "sleeping" => w_silence + w_sleep <= Timeout + Slow + 1

\* Why the thread is gone, if it is.
GoneInv ==
  /\ w_watcher = "ended" => w_quit_signaled
  /\ w_watcher = "dead" => W!Unwatched

TimeoutWriterInv ==
  W!TypeOK /\ TurnsInv /\ StaleInv /\ WatchInv /\ GoneInv

LEMMA TimeoutWriterStarts == W!Init => TimeoutWriterInv
<1> SUFFICES ASSUME W!Init PROVE TimeoutWriterInv
  OBVIOUS
<1>1. Timeout \in Nat \ {0} /\ Slow \in Nat /\ RecordBound \in Nat
  BY EndsAssumption DEF EndsAssumption, W!TimeoutAssumption
<1>2. W!TypeOK
  <2>1. /\ w_age \in 0..W!AgeCap /\ w_sleep \in 0..(Timeout + Slow + 1)
        /\ w_stale \in 0..(Slow + 1) /\ w_busy \in 0..Slow /\ w_writes \in 0..RecordBound
        /\ w_silence \in 0..W!SilenceCap
    BY <1>1 DEF W!Init, W!AgeCap, W!SilenceCap
  <2>2. w_told \in Seq(W!Message)
    BY DEF W!Init
  <2> QED
    BY <2>1, <2>2 DEF W!Init, W!TypeOK
<1>3. TurnsInv
  BY DEF W!Init, TurnsInv
<1>4. StaleInv /\ WatchInv /\ GoneInv
  BY <1>1 DEF W!Init, StaleInv, WatchInv, GoneInv
<1> QED
  BY <1>2, <1>3, <1>4 DEF TimeoutWriterInv

\* A message is given to the client writer, which raises or not.
LEMMA Told ==
  ASSUME NEW text \in {"timeout", "resume"}, NEW raised \in BOOLEAN,
         w_told \in Seq(W!Message), W!Gives(text, raised)
  PROVE  /\ w_told' \in Seq(W!Message)
         /\ Len(w_told) \in Nat /\ Len(w_told') = Len(w_told) + 1
         /\ DOMAIN w_told' = DOMAIN w_told \cup {Len(w_told) + 1}
         /\ \A i \in DOMAIN w_told : w_told'[i] = w_told[i] /\ i # Len(w_told) + 1
         /\ w_told'[Len(w_told) + 1] = [text |-> text, raised |-> raised]
         /\ W!Unwatched => W!Unwatched'
<1> DEFINE m == [text |-> text, raised |-> raised]
<1>1. m \in W!Message /\ w_told' = Append(w_told, m)
  BY DEF W!Message, W!Gives
<1> HIDE DEF m
<1>2. /\ w_told' \in Seq(W!Message)
      /\ Len(w_told) \in Nat /\ Len(w_told') = Len(w_told) + 1
      /\ DOMAIN w_told' = DOMAIN w_told \cup {Len(w_told) + 1}
      /\ \A i \in DOMAIN w_told : w_told'[i] = w_told[i] /\ i # Len(w_told) + 1
      /\ w_told'[Len(w_told) + 1] = m
  BY <1>1, AppendProperties
<1>3. W!Unwatched => W!Unwatched'
  BY <1>2, Zenon DEF W!Unwatched
<1> QED
  BY <1>2, <1>3 DEF m

\* After it the parity of their number has changed.
LEMMA TurnsTell ==
  ASSUME NEW text \in {"timeout", "resume"}, NEW raised \in BOOLEAN,
         w_told \in Seq(W!Message), W!Gives(text, raised), TurnsInv,
         text = "timeout" <=> Len(w_told) % 2 = 0
  PROVE  /\ \A i \in DOMAIN w_told' :
              w_told'[i].text = IF i % 2 = 1 THEN "timeout" ELSE "resume"
         /\ Len(w_told') % 2 = 1 <=> text = "timeout"
<1>0. /\ Len(w_told) \in Nat /\ Len(w_told') = Len(w_told) + 1
      /\ DOMAIN w_told' = DOMAIN w_told \cup {Len(w_told) + 1}
      /\ \A i \in DOMAIN w_told : w_told'[i] = w_told[i]
      /\ w_told'[Len(w_told) + 1] = [text |-> text, raised |-> raised]
  BY Told, Zenon
<1>1. /\ Len(w_told) \in Nat /\ Len(w_told') = Len(w_told) + 1
      /\ DOMAIN w_told' = DOMAIN w_told \cup {Len(w_told) + 1}
      /\ \A i \in DOMAIN w_told : w_told'[i] = w_told[i]
      /\ w_told'[Len(w_told) + 1].text = text
  BY <1>0
<1>2. (Len(w_told) + 1) % 2 = 1 <=> Len(w_told) % 2 = 0
  BY <1>1
<1>3. \A i \in DOMAIN w_told : w_told'[i].text = IF i % 2 = 1 THEN "timeout" ELSE "resume"
  BY <1>1 DEF TurnsInv
<1>4. w_told'[Len(w_told) + 1].text
        = IF (Len(w_told) + 1) % 2 = 1 THEN "timeout" ELSE "resume"
  BY <1>1, <1>2
<1> QED
  BY <1>1, <1>2, <1>3, <1>4

\* A sleep is never longer than the wait for the next message.
LEMMA SleepsShortly ==
  ASSUME NEW ticks \in 0..(Timeout + Slow + 1), W!SleepsFor(ticks), Timeout \in Nat \ {0}, Slow \in Nat
  PROVE  /\ w_watcher' = "sleeping"
         /\ w_sleep' \in 0..(Timeout + Slow + 1)
         /\ w_sleep' = IF ticks = 0 THEN 1 ELSE ticks
  BY DEF W!SleepsFor

LEMMA SameTold == ASSUME UNCHANGED w_told PROVE W!Unwatched <=> W!Unwatched'
BY DEF W!Unwatched

LEMMA TimeoutWriterSteps == TimeoutWriterInv /\ [W!Next]_wvars => TimeoutWriterInv'
<1> SUFFICES ASSUME TimeoutWriterInv, [W!Next]_wvars PROVE TimeoutWriterInv'
  OBVIOUS
<1> USE DEF TimeoutWriterInv, W!AgeCap, W!SilenceCap
<1> Timeout \in Nat \ {0} /\ Slow \in Nat /\ RecordBound \in Nat
  BY EndsAssumption DEF EndsAssumption, W!TimeoutAssumption
<1>1. CASE W!Wakes
  BY <1>1, SameTold DEF W!Wakes, W!TypeOK, TurnsInv, StaleInv, WatchInv, GoneInv
<1>2. CASE W!Checks
  <2> DEFINE left == Timeout - (w_age - w_stale)
  <2>1. CASE left < 0 /\ ~w_timed_out
    BY <1>2, <2>1, SameTold
    DEF W!Checks, W!Free, W!TypeOK, TurnsInv, StaleInv, WatchInv, GoneInv
  <2>2. CASE ~(left < 0 /\ ~w_timed_out)
    <3> DEFINE ticks == IF left < 0 THEN Timeout ELSE left
    <3>1. W!SleepsFor(ticks) /\ UNCHANGED <<w_timed_out, w_busy>>
      BY <1>2, <2>2 DEF W!Checks
    <3>2. ticks \in 0..(Timeout + Slow)
      BY DEF W!TypeOK, StaleInv
    <3>3. w_watcher' = "sleeping" /\ w_sleep' \in 0..(Timeout + Slow + 1)
          /\ w_sleep' = IF ticks = 0 THEN 1 ELSE ticks
      BY <3>1, <3>2, SleepsShortly
    <3>4. W!Free /\ w_watcher = "locking"
          /\ UNCHANGED <<w_age, w_stale, w_write, w_told, w_writes, w_quit_signaled, w_silence>>
      BY <1>2 DEF W!Checks
    <3>5. W!TypeOK'
      BY <3>1, <3>3, <3>4 DEF W!TypeOK
    <3>6. TurnsInv'
      BY <3>1, <3>3, <3>4 DEF TurnsInv, W!Free
    <3>7. StaleInv' /\ GoneInv'
      BY <3>1, <3>3, <3>4 DEF StaleInv, GoneInv
    <3>8. WatchInv'
      BY <2>2, <3>1, <3>3, <3>4 DEF WatchInv, W!TypeOK, StaleInv
    <3> QED
      BY <3>5, <3>6, <3>7, <3>8
  <2> QED
    BY <2>1, <2>2
<1>3. CASE W!TimeoutTold
  <2>1. w_watcher = "telling" /\ W!Gives("timeout", FALSE) /\ W!SleepsFor(Timeout)
        /\ UNCHANGED <<w_age, w_timed_out, w_stale, w_write, w_busy, w_writes, w_quit_signaled,
                       w_silence>>
    BY <1>3 DEF W!TimeoutTold
  <2>2. w_watcher' = "sleeping" /\ w_sleep' \in 0..(Timeout + Slow + 1)
    BY <2>1, SleepsShortly
  <2>3. W!TypeOK'
    <3>1. w_told \in Seq(W!Message)
      BY DEF W!TypeOK
    <3>2. w_told' \in Seq(W!Message)
      BY <2>1, <3>1, Told
    <3> QED
      BY <2>1, <2>2, <3>2 DEF W!TypeOK
  <2>4. TurnsInv'
    <3>0. w_told \in Seq(W!Message) /\ Len(w_told) \in Nat
      BY LenProperties DEF W!TypeOK
    <3>1. w_timed_out /\ Len(w_told) % 2 = 0 /\ w_told \in Seq(W!Message)
      BY <2>1, <3>0 DEF TurnsInv
    <3>2. /\ \A i \in DOMAIN w_told' :
               w_told'[i].text = IF i % 2 = 1 THEN "timeout" ELSE "resume"
          /\ Len(w_told') % 2 = 1
      BY <2>1, <3>1, TurnsTell
    <3> QED
      BY <2>1, <2>2, <3>1, <3>2 DEF TurnsInv
  <2> QED
    BY <2>1, <2>2, <2>3, <2>4 DEF StaleInv, WatchInv, TurnsInv, GoneInv
<1>4. CASE W!TimeoutRaises
  <2>1. w_watcher = "telling" /\ W!Gives("timeout", TRUE) /\ w_watcher' = "dead"
        /\ UNCHANGED <<w_age, w_timed_out, w_sleep, w_stale, w_write, w_busy, w_writes,
                       w_quit_signaled, w_silence>>
    BY <1>4 DEF W!TimeoutRaises
  <2>2. w_told \in Seq(W!Message)
    BY DEF W!TypeOK
  <2>3. /\ w_told' \in Seq(W!Message)
        /\ Len(w_told) \in Nat /\ Len(w_told) + 1 \in DOMAIN w_told'
        /\ w_told'[Len(w_told) + 1] = [text |-> "timeout", raised |-> TRUE]
    BY <2>1, <2>2, Told
  <2>4. W!TypeOK'
    BY <2>1, <2>3 DEF W!TypeOK
  <2>5. TurnsInv'
    <3>1. w_timed_out /\ Len(w_told) % 2 = 0
      BY <2>1, <2>3 DEF TurnsInv
    <3>2. /\ \A i \in DOMAIN w_told' :
               w_told'[i].text = IF i % 2 = 1 THEN "timeout" ELSE "resume"
          /\ Len(w_told') % 2 = 1
      BY <2>1, <2>2, <3>1, TurnsTell
    <3> QED
      BY <2>1, <3>1, <3>2 DEF TurnsInv
  <2>6. W!Unwatched'
    BY <2>3 DEF W!Unwatched
  <2> QED
    BY <2>1, <2>4, <2>5, <2>6 DEF StaleInv, WatchInv, TurnsInv, GoneInv
<1>5. CASE W!WriteBegins
  BY <1>5, SameTold DEF W!WriteBegins, W!TypeOK, TurnsInv, StaleInv, WatchInv, GoneInv
<1>6. CASE W!Notes
  <2>1. W!TypeOK'
    <3>1. w_age' \in 0..W!AgeCap /\ w_busy' \in 0..Slow /\ w_silence' \in 0..W!SilenceCap
      BY <1>6 DEF W!Notes, W!TypeOK
    <3>3. w_timed_out' \in BOOLEAN
      BY <1>6 DEF W!Notes, W!TypeOK
    <3>2. w_write' \in {"idle", "telling"} /\ w_watcher # "telling"
      BY <1>6 DEF W!Notes, W!Free
    <3> QED
      BY <1>6, <3>1, <3>2, <3>3 DEF W!Notes, W!TypeOK
  <2>2. TurnsInv'
    BY <1>6 DEF W!Notes, W!Free, W!TypeOK, TurnsInv
  <2>3. StaleInv'
    BY <1>6 DEF W!Notes, W!Free, W!TypeOK, StaleInv
  <2>4. WatchInv'
    BY <1>6 DEF W!Notes, W!Free, W!TypeOK, WatchInv
  <2>5. GoneInv'
    BY <1>6, SameTold DEF W!Notes, GoneInv
  <2> QED
    BY <2>1, <2>2, <2>3, <2>4, <2>5
<1>7. ASSUME NEW raised \in BOOLEAN, w_write = "telling", W!Gives("resume", raised),
             w_age' \in {0, w_age}, w_silence' = 0, w_write' = "idle",
             UNCHANGED <<w_timed_out, w_watcher, w_sleep, w_stale, w_busy, w_writes, w_quit_signaled>>
      PROVE  TimeoutWriterInv'
  <2>1. w_told \in Seq(W!Message)
    BY DEF W!TypeOK
  <2>2. w_told' \in Seq(W!Message) /\ Len(w_told) \in Nat /\ (W!Unwatched => W!Unwatched')
    BY <1>7, <2>1, Told
  <2>3. W!TypeOK'
    <3>1. w_age' \in 0..W!AgeCap /\ w_silence' \in 0..W!SilenceCap
      BY <1>7 DEF W!TypeOK
    <3> QED
      BY <1>7, <2>2, <3>1 DEF W!TypeOK
  <2>4. TurnsInv'
    <3>1. ~w_timed_out /\ Len(w_told) % 2 = 1 /\ ~(Len(w_told) % 2 = 0)
      BY <1>7, <2>2 DEF TurnsInv
    <3>2. /\ \A i \in DOMAIN w_told' :
               w_told'[i].text = IF i % 2 = 1 THEN "timeout" ELSE "resume"
          /\ ~(Len(w_told') % 2 = 1)
      BY <1>7, <2>1, <3>1, TurnsTell
    <3> QED
      BY <1>7, <3>1, <3>2 DEF TurnsInv
  <2>5. StaleInv' /\ GoneInv'
    BY <1>7, <2>2 DEF StaleInv, GoneInv, W!TypeOK
  <2>6. WatchInv'
    BY <1>7 DEF WatchInv, W!TypeOK
  <2> QED
    BY <2>3, <2>4, <2>5, <2>6
<1>8. CASE W!ResumeTold \/ W!ResumeRaises
  BY <1>7, <1>8 DEF W!ResumeTold, W!ResumeRaises
<1>9. CASE W!Quit
  BY <1>9, SameTold DEF W!Quit, W!TypeOK, TurnsInv, StaleInv, WatchInv, GoneInv
<1>10. CASE W!Tick
  <2>1. W!TypeOK'
    <3>1. w_age' \in 0..W!AgeCap /\ w_silence' \in 0..W!SilenceCap
      BY <1>10 DEF W!Tick, W!TypeOK
    <3>2. w_sleep' \in 0..(Timeout + Slow + 1)
      BY <1>10 DEF W!Tick, W!Free, W!TypeOK, TurnsInv
    <3>3. w_stale' \in 0..(Slow + 1)
      BY <1>10 DEF W!Tick, W!Free, W!TypeOK, StaleInv
    <3>4. w_busy' \in 0..Slow
      BY <1>10 DEF W!Tick, W!Free, W!TypeOK
    <3> QED
      BY <1>10, <3>1, <3>2, <3>3, <3>4 DEF W!Tick, W!TypeOK
  <2>2. TurnsInv'
    BY <1>10 DEF W!Tick, TurnsInv
  <2>3. StaleInv'
    BY <1>10 DEF W!Tick, W!Free, W!TypeOK, StaleInv, TurnsInv
  <2>4. WatchInv'
    BY <1>10 DEF W!Tick, W!Free, W!TypeOK, WatchInv, TurnsInv, GoneInv
  <2>5. GoneInv'
    BY <1>10, SameTold DEF W!Tick, GoneInv
  <2> QED
    BY <2>1, <2>2, <2>3, <2>4, <2>5
<1>11. CASE UNCHANGED wvars
  BY <1>11, SameTold DEF wvars, W!TypeOK, TurnsInv, StaleInv, WatchInv, GoneInv
<1> QED
  BY <1>1, <1>2, <1>3, <1>4, <1>5, <1>6, <1>8, <1>9, <1>10, <1>11
  DEF W!Next, W!Watching, W!Writing

LEMMA TellsInTime == TimeoutWriterInv => W!Alternate /\ W!SilenceNoticed
  BY EndsAssumption
  DEF TimeoutWriterInv, TurnsInv, WatchInv, GoneInv, W!TypeOK, W!Alternate, W!SilenceNoticed,
      W!Free, EndsAssumption, W!TimeoutAssumption

-----------------------------------------------------------------------------
(***************************************************************************)
(* WebsocketWriter: the records of one client.                             *)
(***************************************************************************)
Known(got, hand, queue, calls, lost) ==
  ToSet(got) \cup hand \cup ToSet(queue) \cup calls \cup lost

Newer(records, r) == {s \in records : s > r}

\* What a client that attached after record number "from" was sent, what its
\* task has in hand, what is queued and scheduled for it, and what was lost.
Flow(from, last, got, hand, queue, calls, lost) ==
  /\ (from + 1)..last \subseteq Known(got, hand, queue, calls, lost)
  /\ S!Increasing(got) /\ S!Increasing(queue)
  /\ S!Before(ToSet(got), hand \cup ToSet(queue) \cup calls)
  /\ S!Before(hand, ToSet(queue) \cup calls)
  /\ S!Before(ToSet(queue), calls)
  /\ \A r \in lost :
       /\ MaxQueueSize > 0
       /\ Cardinality(Newer(Known(got, hand, queue, calls, lost), r)) >= MaxQueueSize

\* A record that was dropped stays older than as many as it was.
LEMMA StaysOlder ==
  ASSUME NEW w \in Nat, NEW B \in SUBSET (1..w), NEW A \in SUBSET B, NEW r \in 1..w,
         MaxQueueSize \in Nat, Cardinality(Newer(A, r)) >= MaxQueueSize
  PROVE  Cardinality(Newer(B, r)) >= MaxQueueSize
<1> DEFINE P == Newer(A, r)  Q == Newer(B, r)
<1>1. IsFiniteSet(1..w)
  BY FS_Interval
<1>2. Q \in SUBSET (1..w) /\ P \in SUBSET Q
  BY DEF Newer
<1>3. IsFiniteSet(Q)
  BY <1>1, <1>2, FS_Subset
<1>4. Cardinality(P) <= Cardinality(Q) /\ IsFiniteSet(P)
  BY <1>2, <1>3, FS_Subset
<1>5. Cardinality(P) \in Nat /\ Cardinality(Q) \in Nat
  BY <1>3, <1>4, FS_CardinalityType
<1> HIDE DEF P, Q
<1>6. Cardinality(P) >= MaxQueueSize
  BY DEF P
<1>7. Cardinality(Q) >= MaxQueueSize
  BY <1>4, <1>5, <1>6
<1> QED
  BY <1>7 DEF Q

\* As many of them as an increasing sequence is long.
LEMMA Distinct ==
  ASSUME NEW w \in Nat, NEW q \in Seq(1..w), S!Increasing(q)
  PROVE  IsFiniteSet(ToSet(q)) /\ Cardinality(ToSet(q)) = Len(q)
<1>1. q \in [1..Len(q) -> 1..w] /\ Len(q) \in Nat /\ DOMAIN q = 1..Len(q)
  BY LenProperties
<1>2. ToSet(q) \subseteq 1..w
  BY <1>1 DEF ToSet
<1>3. IsFiniteSet(ToSet(q))
  BY <1>2, FS_Interval, FS_Subset
<1>4. q \in [1..Len(q) -> ToSet(q)]
  BY <1>1 DEF ToSet
<1>5. \A m, n \in 1..Len(q) : q[m] = q[n] => m = n
  <2> SUFFICES ASSUME NEW m \in 1..Len(q), NEW n \in 1..Len(q), q[m] = q[n], m # n PROVE FALSE
    OBVIOUS
  <2>1. q[m] \in Nat /\ q[n] \in Nat
    BY <1>1
  <2>2. m < n \/ n < m
    BY <1>1
  <2>3. q[m] < q[n] \/ q[n] < q[m]
    BY <1>1, <2>2 DEF S!Increasing
  <2> QED
    BY <2>1, <2>3
<1>6. q \in Injection(1..Len(q), ToSet(q))
  BY <1>4, <1>5 DEF Injection, IsInjective
<1>7. q \in Surjection(1..Len(q), ToSet(q))
  <2>1. \A t \in ToSet(q) : \E n \in 1..Len(q) : q[n] = t
    BY <1>1 DEF ToSet
  <2> QED
    BY <1>4, <2>1 DEF Surjection
<1>8. Cardinality(1..Len(q)) = Len(q)
  <2>1. Len(q) \in Nat
    BY <1>1
  <2>2. 1 \in Int /\ Len(q) \in Int
    BY <2>1
  <2>3. Cardinality(1..Len(q)) = IF 1 > Len(q) THEN 0 ELSE Len(q) - 1 + 1
    BY <2>2, FS_Interval, Zenon
  <2> QED
    BY <2>1, <2>3
<1>9. Cardinality(1..Len(q)) = Cardinality(ToSet(q))
  BY <1>3, <1>6, <1>7, FS_Injection
<1> QED
  BY <1>3, <1>8, <1>9

\* What a full queue drops is older than what it keeps, which fills it.
LEMMA TrimmedKeeps ==
  ASSUME NEW w \in Nat, NEW q \in Seq(1..w), S!Increasing(q), MaxQueueSize \in Nat
  PROVE  /\ S!Trimmed(q) \in Seq(1..w) /\ S!Increasing(S!Trimmed(q))
         /\ ToSet(S!Trimmed(q)) \subseteq ToSet(q)
         /\ \A r \in ToSet(q) \ ToSet(S!Trimmed(q)) :
              /\ MaxQueueSize > 0
              /\ \A s \in ToSet(S!Trimmed(q)) : r < s
              /\ Len(S!Trimmed(q)) = MaxQueueSize
<1>1. q \in [1..Len(q) -> 1..w] /\ Len(q) \in Nat /\ DOMAIN q = 1..Len(q)
  BY LenProperties
<1>2. CASE MaxQueueSize = 0 \/ Len(q) <= MaxQueueSize
  BY <1>2 DEF S!Trimmed
<1>3. CASE ~(MaxQueueSize = 0 \/ Len(q) <= MaxQueueSize)
  <2> DEFINE off == Len(q) - MaxQueueSize
             t == SubSeq(q, off + 1, Len(q))
  <2>1. S!Trimmed(q) = t
    BY <1>3 DEF S!Trimmed
  <2>2. off \in Nat /\ off > 0 /\ off + MaxQueueSize = Len(q) /\ MaxQueueSize > 0
    BY <1>1, <1>3
  <2>3. \A n \in (off + 1)..Len(q) : n \in 1..Len(q) /\ q[n] \in 1..w
    BY <1>1, <2>2
  <2> HIDE DEF off
  <2>4. /\ t \in Seq(1..w) /\ Len(t) = MaxQueueSize
        /\ \A n \in 1..MaxQueueSize : t[n] = q[off + n]
    <3>1. /\ t \in Seq(1..w)
          /\ Len(t) = IF off + 1 <= Len(q) THEN Len(q) - (off + 1) + 1 ELSE 0
          /\ \A n \in 1..(Len(q) - (off + 1) + 1) : t[n] = q[(off + 1) + n - 1]
      <4>1. off + 1 \in Int /\ Len(q) \in Int
        BY <1>1, <2>2
      <4>2. \A n \in (off + 1)..Len(q) : q[n] \in 1..w
        BY <2>3
      <4> QED
        BY <4>1, <4>2, SubSeqProperties
    <3>2. Len(q) - (off + 1) + 1 = MaxQueueSize /\ off + 1 <= Len(q)
      <4>1. Len(q) \in Nat
        BY <1>1
      <4> QED
        BY <4>1, <2>2
    <3>3. Len(t) = MaxQueueSize
      BY <3>1, <3>2
    <3>4. ASSUME NEW n \in 1..MaxQueueSize PROVE t[n] = q[off + n]
      <4>1. t[n] = q[(off + 1) + n - 1]
        BY <3>1, <3>2
      <4>2. (off + 1) + n - 1 = off + n
        BY <2>2
      <4> QED
        BY <4>1, <4>2
    <3> QED
      BY <3>1, <3>3, <3>4
  <2> HIDE DEF t
  <2>5. DOMAIN t = 1..MaxQueueSize
    BY <2>4, LenProperties
  <2>6. \A n \in 1..MaxQueueSize : off + n \in 1..Len(q) /\ off < off + n
    BY <1>1, <2>2
  <2>7. S!Increasing(t)
    <3> SUFFICES ASSUME NEW m \in 1..MaxQueueSize, NEW n \in 1..MaxQueueSize, m < n
                 PROVE  t[m] < t[n]
      BY <2>5 DEF S!Increasing
    <3>1. off + m < off + n
      BY <2>2
    <3> QED
      BY <1>1, <2>4, <2>6, <3>1 DEF S!Increasing
  <2>8. ToSet(t) \subseteq ToSet(q)
    BY <1>1, <2>4, <2>5, <2>6 DEF ToSet
  <2>9. ASSUME NEW r \in ToSet(q) \ ToSet(t), NEW s \in ToSet(t) PROVE r < s
    <3>1. PICK k \in 1..Len(q) : q[k] = r
      BY <1>1 DEF ToSet
    <3>2. PICK n \in 1..MaxQueueSize : t[n] = s
      BY <2>5 DEF ToSet
    <3>3. k <= off
      <4> SUFFICES ASSUME k > off PROVE FALSE
        BY <2>2
      <4>1. k - off \in 1..MaxQueueSize /\ off + (k - off) = k
        BY <1>1, <2>2
      <4> QED
        BY <2>4, <2>5, <3>1, <4>1 DEF ToSet
    <3>4. k < off + n
      BY <2>2, <3>3
    <3> QED
      BY <1>1, <2>4, <2>6, <3>1, <3>2, <3>4 DEF S!Increasing
  <2> QED
    BY <2>1, <2>2, <2>4, <2>7, <2>8, <2>9
<1> QED
  BY <1>2, <1>3

\* The same records may be known in other places: what was lost before stays
\* lost as it was.
LEMMA KnownTyped ==
  ASSUME NEW w \in Nat, NEW got \in Seq(1..w), NEW queue \in Seq(1..w),
         NEW hand \in SUBSET (1..w), NEW calls \in SUBSET (1..w), NEW lost \in SUBSET (1..w)
  PROVE  /\ ToSet(got) \subseteq 1..w /\ ToSet(queue) \subseteq 1..w
         /\ Known(got, hand, queue, calls, lost) \in SUBSET (1..w)
<1>1. ToSet(got) \subseteq 1..w
  BY LenProperties DEF ToSet
<1>2. ToSet(queue) \subseteq 1..w
  BY LenProperties DEF ToSet
<1> QED
  BY <1>1, <1>2 DEF Known

\* A client that attaches: what is still scheduled for the one that had its
\* id before is all that there is for it.
LEMMA FlowStarts ==
  ASSUME NEW w \in Nat, NEW calls
  PROVE  Flow(w, w, <<>>, {}, <<>>, calls, {})
<1>1. ToSet(<<>>) = {} /\ (w + 1)..w = {} /\ S!Increasing(<<>>)
  BY DEF ToSet, S!Increasing
<1> QED
  BY <1>1 DEF Flow, S!Before

LEMMA FlowWritten ==
  ASSUME NEW w \in Nat, NEW from \in Nat, NEW got \in Seq(1..w), NEW queue \in Seq(1..w),
         NEW hand \in SUBSET (1..w), NEW calls \in SUBSET (1..w), NEW lost \in SUBSET (1..w),
         MaxQueueSize \in Nat, Flow(from, w, got, hand, queue, calls, lost)
  PROVE  Flow(from, w + 1, got, hand, queue, calls \cup {w + 1}, lost)
<1> DEFINE A == Known(got, hand, queue, calls, lost)
           B == Known(got, hand, queue, calls \cup {w + 1}, lost)
<1>1. B = A \cup {w + 1}
  BY DEF Known
<1>2. A \in SUBSET (1..w)
  BY KnownTyped
<1>3. B \in SUBSET (1..(w + 1)) /\ A \in SUBSET B /\ w + 1 \in Nat /\ lost \in SUBSET (1..(w + 1))
  <2>1. w + 1 \in Nat /\ w + 1 \in 1..(w + 1) /\ 1..w \subseteq 1..(w + 1)
    OBVIOUS
  <2>2. lost \in SUBSET (1..(w + 1)) /\ A \in SUBSET (1..(w + 1))
    BY <1>2, <2>1
  <2> HIDE DEF A, B
  <2> QED
    BY <1>1, <2>1, <2>2
<1>4. ToSet(got) \subseteq 1..w /\ ToSet(queue) \subseteq 1..w
  BY KnownTyped
<1>5. (from + 1)..(w + 1) \subseteq B
  <2>1. (from + 1)..(w + 1) \subseteq ((from + 1)..w) \cup {w + 1}
    OBVIOUS
  <2> QED
    BY <1>1, <2>1 DEF Flow
<1>6. /\ S!Before(ToSet(got), hand \cup ToSet(queue) \cup (calls \cup {w + 1}))
      /\ S!Before(hand, ToSet(queue) \cup (calls \cup {w + 1}))
      /\ S!Before(ToSet(queue), calls \cup {w + 1})
  <2>1. \A x \in 1..w : x < w + 1
    OBVIOUS
  <2> QED
    BY <1>4, <2>1 DEF Flow, S!Before
<1>7. ASSUME NEW r \in lost
      PROVE  MaxQueueSize > 0 /\ Cardinality(Newer(B, r)) >= MaxQueueSize
  <2>1. MaxQueueSize > 0 /\ Cardinality(Newer(A, r)) >= MaxQueueSize
    BY DEF Flow
  <2> HIDE DEF A, B
  <2> DEFINE v == w + 1
  <2>2. v \in Nat /\ B \in SUBSET (1..v) /\ A \in SUBSET B /\ r \in 1..v
    BY <1>3
  <2> HIDE DEF v
  <2>3. Cardinality(Newer(B, r)) >= MaxQueueSize
    BY <2>1, <2>2, StaysOlder
  <2> QED
    BY <2>1, <2>3
<1> QED
  BY <1>5, <1>6, <1>7 DEF Flow

\* The first record of a queue is taken.
LEMMA FlowGot ==
  ASSUME NEW w \in Nat, NEW from \in Nat, NEW got \in Seq(1..w), NEW queue \in Seq(1..w),
         NEW calls \in SUBSET (1..w), NEW lost \in SUBSET (1..w),
         queue # <<>>, Flow(from, w, got, {}, queue, calls, lost)
  PROVE  Flow(from, w, got, {Head(queue)}, Tail(queue), calls, lost)
<1>1. queue \in [1..Len(queue) -> 1..w] /\ Len(queue) \in Nat /\ DOMAIN queue = 1..Len(queue)
  BY LenProperties
<1>2. /\ Tail(queue) \in Seq(1..w) /\ DOMAIN Tail(queue) = 1..(Len(queue) - 1)
      /\ \A n \in 1..(Len(queue) - 1) : n + 1 \in 1..Len(queue) /\ Tail(queue)[n] = queue[n + 1]
  BY HeadTailProperties
<1>3. Head(queue) = queue[1] /\ 1 \in 1..Len(queue)
  BY <1>1, EmptySeq
<1>4. S!Increasing(queue)
  BY DEF Flow
<1>5. S!Increasing(Tail(queue))
  <2> SUFFICES ASSUME NEW m \in 1..(Len(queue) - 1), NEW n \in 1..(Len(queue) - 1), m < n
               PROVE  Tail(queue)[m] < Tail(queue)[n]
    BY <1>2 DEF S!Increasing
  <2>1. m + 1 < n + 1
    OBVIOUS
  <2> QED
    BY <1>1, <1>2, <1>4, <2>1 DEF S!Increasing
<1>6. \A s \in ToSet(Tail(queue)) : Head(queue) < s
  <2> SUFFICES ASSUME NEW n \in 1..(Len(queue) - 1) PROVE queue[1] < Tail(queue)[n]
    BY <1>2, <1>3 DEF ToSet
  <2>1. 1 < n + 1
    OBVIOUS
  <2> QED
    BY <1>1, <1>2, <1>3, <1>4, <2>1 DEF S!Increasing
<1>7. ToSet(queue) = {Head(queue)} \cup ToSet(Tail(queue))
  <2>1. ASSUME NEW n \in 1..Len(queue) PROVE queue[n] = queue[1] \/ queue[n] \in ToSet(Tail(queue))
    <3>1. CASE n = 1
      BY <3>1
    <3>2. CASE n # 1
      <4>1. n - 1 \in 1..(Len(queue) - 1) /\ (n - 1) + 1 = n
        BY <1>1, <3>2
      <4> QED
        BY <1>2, <4>1 DEF ToSet
    <3> QED
      BY <3>1, <3>2
  <2>2. ToSet(Tail(queue)) \subseteq ToSet(queue)
    BY <1>1, <1>2 DEF ToSet
  <2>3. Head(queue) \in ToSet(queue)
    BY <1>1, <1>3 DEF ToSet
  <2>4. ToSet(queue) \subseteq {Head(queue)} \cup ToSet(Tail(queue))
    BY <1>1, <1>3, <2>1 DEF ToSet
  <2> QED
    BY <2>2, <2>3, <2>4
<1>8. Known(got, {Head(queue)}, Tail(queue), calls, lost) = Known(got, {}, queue, calls, lost)
  BY <1>7 DEF Known
<1>9. /\ S!Before(ToSet(got), {Head(queue)} \cup ToSet(Tail(queue)) \cup calls)
      /\ S!Before({Head(queue)}, ToSet(Tail(queue)) \cup calls)
      /\ S!Before(ToSet(Tail(queue)), calls)
  BY <1>6, <1>7 DEF Flow, S!Before
<1> QED
  BY <1>5, <1>8, <1>9 DEF Flow

\* What the task has in hand is sent.
LEMMA FlowSent ==
  ASSUME NEW w \in Nat, NEW from \in Nat, NEW got \in Seq(1..w), NEW queue \in Seq(1..w),
         NEW calls \in SUBSET (1..w), NEW lost \in SUBSET (1..w), NEW r \in 1..w,
         Flow(from, w, got, {r}, queue, calls, lost)
  PROVE  Flow(from, w, Append(got, r), {}, queue, calls, lost)
<1>1. got \in [1..Len(got) -> 1..w] /\ Len(got) \in Nat /\ DOMAIN got = 1..Len(got)
  BY LenProperties
<1>2. /\ Append(got, r) \in Seq(1..w) /\ DOMAIN Append(got, r) = 1..(Len(got) + 1)
      /\ Append(got, r)[Len(got) + 1] = r
      /\ \A n \in 1..Len(got) : Append(got, r)[n] = got[n]
  BY <1>1, AppendProperties
<1>3. \A n \in 1..(Len(got) + 1) : n \in 1..Len(got) \/ n = Len(got) + 1
  BY <1>1
<1>4. ToSet(Append(got, r)) = ToSet(got) \cup {r}
  <2>1. ToSet(got) \subseteq ToSet(Append(got, r))
    BY <1>1, <1>2 DEF ToSet
  <2>0. Len(got) + 1 \in 1..(Len(got) + 1)
    BY <1>1
  <2>2. r \in ToSet(Append(got, r))
    BY <1>2, <2>0 DEF ToSet
  <2>3. ToSet(Append(got, r)) \subseteq ToSet(got) \cup {r}
    BY <1>1, <1>2, <1>3 DEF ToSet
  <2> QED
    BY <2>1, <2>2, <2>3
<1>5. S!Increasing(Append(got, r))
  <2> SUFFICES ASSUME NEW m \in 1..(Len(got) + 1), NEW n \in 1..(Len(got) + 1), m < n
               PROVE  Append(got, r)[m] < Append(got, r)[n]
    BY <1>2 DEF S!Increasing
  <2>1. m \in 1..Len(got)
    BY <1>1
  <2>2. CASE n = Len(got) + 1
    BY <1>1, <1>2, <2>1, <2>2 DEF Flow, S!Before, ToSet
  <2>3. CASE n \in 1..Len(got)
    BY <1>1, <1>2, <2>1, <2>3 DEF Flow, S!Increasing
  <2> QED
    BY <1>3, <2>2, <2>3
<1>6. Known(Append(got, r), {}, queue, calls, lost) = Known(got, {r}, queue, calls, lost)
  BY <1>4 DEF Known
<1>7. S!Before(ToSet(Append(got, r)), {} \cup ToSet(queue) \cup calls)
  BY <1>4 DEF Flow, S!Before
<1> QED
  BY <1>5, <1>6, <1>7 DEF Flow, S!Before

\* The first scheduled record is queued, and the oldest may have to go.
LEMMA FlowQueued ==
  ASSUME NEW w \in Nat, NEW from \in Nat, NEW got \in Seq(1..w), NEW queue \in Seq(1..w),
         NEW hand \in SUBSET (1..w), NEW calls \in SUBSET (1..w), NEW lost \in SUBSET (1..w),
         NEW r \in calls, \A s \in calls \ {r} : r < s,
         MaxQueueSize \in Nat, Flow(from, w, got, hand, queue, calls, lost)
  PROVE  LET kept == S!Trimmed(Append(queue, r)) IN
           Flow(from, w, got, hand, kept, calls \ {r},
                lost \cup (ToSet(Append(queue, r)) \ ToSet(kept)))
<1> DEFINE long == Append(queue, r)
           kept == S!Trimmed(long)
           gone == ToSet(long) \ ToSet(kept)
<1>1. queue \in [1..Len(queue) -> 1..w] /\ Len(queue) \in Nat /\ DOMAIN queue = 1..Len(queue)
  BY LenProperties
<1>2. /\ long \in Seq(1..w) /\ DOMAIN long = 1..(Len(queue) + 1) /\ long[Len(queue) + 1] = r
      /\ \A n \in 1..Len(queue) : long[n] = queue[n]
  BY <1>1, AppendProperties
<1>3. \A n \in 1..(Len(queue) + 1) : n \in 1..Len(queue) \/ n = Len(queue) + 1
  BY <1>1
<1> HIDE DEF long
<1>4. ToSet(long) = ToSet(queue) \cup {r}
  <2>1. ToSet(queue) \subseteq ToSet(long)
    BY <1>1, <1>2 DEF ToSet
  <2>0. Len(queue) + 1 \in 1..(Len(queue) + 1)
    BY <1>1
  <2>2. r \in ToSet(long)
    BY <1>2, <2>0 DEF ToSet
  <2>3. ToSet(long) \subseteq ToSet(queue) \cup {r}
    BY <1>1, <1>2, <1>3 DEF ToSet
  <2> QED
    BY <2>1, <2>2, <2>3
<1>5. S!Increasing(long)
  <2> SUFFICES ASSUME NEW m \in 1..(Len(queue) + 1), NEW n \in 1..(Len(queue) + 1), m < n
               PROVE  long[m] < long[n]
    BY <1>2 DEF S!Increasing
  <2>1. m \in 1..Len(queue)
    BY <1>1
  <2>2. CASE n = Len(queue) + 1
    BY <1>1, <1>2, <2>1, <2>2 DEF Flow, S!Before, ToSet
  <2>3. CASE n \in 1..Len(queue)
    BY <1>1, <1>2, <2>1, <2>3 DEF Flow, S!Increasing
  <2> QED
    BY <1>3, <2>2, <2>3
<1>6. /\ kept \in Seq(1..w) /\ S!Increasing(kept) /\ ToSet(kept) \subseteq ToSet(long)
      /\ \A x \in gone : /\ MaxQueueSize > 0
                         /\ \A s \in ToSet(kept) : x < s
                         /\ Len(kept) = MaxQueueSize
  BY <1>2, <1>5, TrimmedKeeps
<1> HIDE DEF kept
<1> DEFINE A == Known(got, hand, queue, calls, lost)
           B == Known(got, hand, kept, calls \ {r}, lost \cup gone)
<1>7. B = A
  BY <1>4, <1>6 DEF Known
<1>8. /\ S!Before(ToSet(got), hand \cup ToSet(kept) \cup (calls \ {r}))
      /\ S!Before(hand, ToSet(kept) \cup (calls \ {r}))
  BY <1>4, <1>6 DEF Flow, S!Before
<1>9. S!Before(ToSet(kept), calls \ {r})
  BY <1>4, <1>6 DEF Flow, S!Before
<1>10. A \in SUBSET (1..w) /\ gone \in SUBSET (1..w) /\ ToSet(kept) \in SUBSET A
  <2>1. A \in SUBSET (1..w) /\ ToSet(queue) \subseteq 1..w
    BY KnownTyped
  <2> QED
    BY <1>4, <1>6, <2>1 DEF Known
<1>11. ASSUME NEW x \in lost \cup gone
       PROVE  MaxQueueSize > 0 /\ Cardinality(Newer(A, x)) >= MaxQueueSize
  <2>1. CASE x \in lost
    BY <2>1 DEF Flow
  <2>2. CASE x \in gone
    <3>1. MaxQueueSize > 0 /\ Len(kept) = MaxQueueSize /\ \A s \in ToSet(kept) : x < s
      BY <1>6, <2>2
    <3>2. Cardinality(ToSet(kept)) = Len(kept)
      BY <1>6, Distinct
    <3>3. x \in 1..w
      BY <1>10, <2>2
    <3>4. Newer(ToSet(kept), x) = ToSet(kept)
      <4>1. \A s \in ToSet(kept) : s \in 1..w
        BY <1>10
      <4> QED
        BY <3>1, <3>3, <4>1 DEF Newer
    <3>5. Cardinality(Newer(ToSet(kept), x)) >= MaxQueueSize
      <4>1. Cardinality(Newer(ToSet(kept), x)) = MaxQueueSize
        BY <3>1, <3>2, <3>4, Zenon
      <4> QED
        BY <4>1
    <3> HIDE DEF A, gone
    <3>6. Cardinality(Newer(A, x)) >= MaxQueueSize
      BY <1>10, <3>3, <3>5, StaysOlder
    <3> QED
      BY <3>1, <3>6
  <2> QED
    BY <2>1, <2>2
<1>12. Flow(from, w, got, hand, kept, calls \ {r}, lost \cup gone)
  <2>1. (from + 1)..w \subseteq B
    BY <1>7 DEF Flow
  <2>2. \A x \in lost \cup gone :
          MaxQueueSize > 0 /\ Cardinality(Newer(B, x)) >= MaxQueueSize
    BY <1>7, <1>11
  <2> QED
    BY <1>6, <1>8, <1>9, <2>1, <2>2 DEF Flow
<1> QED
  BY <1>12 DEF kept, long

-----------------------------------------------------------------------------
(***************************************************************************)
(* WebsocketWriter: its state.                                             *)
(***************************************************************************)
Hand(c) == {s_record[c]} \ {NONE}
CallsFor(i) == {s_scheduled[n].record : n \in S!Calls(i)}

\* No two ids have the same client.
IdsInv ==
  \A i, j \in S!ClientId : s_client_map[i] = s_client_map[j] /\ s_client_map[i] # NONE => i = j

\* A client that is out has got nothing; a task has a record in hand while
\* it sends.
TasksInv ==
  \A c \in Client :
    /\ s_task[c] = "out" => s_sent[c] = <<>> /\ s_trimmed[c] = {}
    /\ s_record[c] # NONE <=> s_task[c] = "sending"

\* What is scheduled for an id is in order, whoever had it at the time.
CallsInv ==
  \A i \in S!ClientId : \A m, n \in S!Calls(i) : m < n => s_scheduled[m].record < s_scheduled[n].record

FlowOf(c, i) ==
  Flow(s_since[c], s_written, s_sent[c], Hand(c), s_send_queue[i], CallsFor(i), s_trimmed[c])

FlowInv ==
  \A c \in Client, i \in S!ClientId : s_client_map[i] = c /\ S!Served(c) => FlowOf(c, i)

SocketInv == S!TypeOK /\ IdsInv /\ TasksInv /\ CallsInv /\ FlowInv

\* The library's operators as the instance has them.
LEMMA SameOperators ==
  /\ \A A : S!IsFiniteSet(A) <=> IsFiniteSet(A)
  /\ \A A : S!Cardinality(A) = Cardinality(A)
  /\ \A A : S!ToSet(A) = ToSet(A)
<1>1. \A A : S!IsFiniteSet(A) <=> IsFiniteSet(A)
  BY DEF S!IsFiniteSet, IsFiniteSet
<1>2. \A A : S!Cardinality(A) = Cardinality(A)
  BY DEF S!Cardinality, Cardinality
<1>3. \A A : S!ToSet(A) = ToSet(A)
  BY DEF S!ToSet, ToSet
<1> QED
  BY <1>1, <1>2, <1>3

LEMMA SocketConstants ==
  /\ IsFiniteSet(Client) /\ Cardinality(Client) \in Nat
  /\ MaxQueueSize \in Nat /\ RecordBound \in Nat
  /\ NONE \notin Client /\ NONE \notin 1..RecordBound
<1>1. S!SocketAssumption
  BY EndsAssumption DEF EndsAssumption
<1>2. IsFiniteSet(Client)
  BY <1>1, SameOperators DEF S!SocketAssumption
<1>3. Cardinality(Client) \in Nat
  BY <1>2, FS_CardinalityType
<1> QED
  BY <1>1, <1>2, <1>3 DEF S!SocketAssumption

\* The clients that have an id are those that are attached.
LEMMA IdsAreOfAttached ==
  s_client_map \in [S!ClientId -> Client \cup {NONE}] =>
    (S!Attached = {s_client_map[i] : i \in S!ClientId \ S!Free}
       <=> \A c \in Client : c \in S!Attached <=> \E i \in S!ClientId : s_client_map[i] = c)
<1> SUFFICES ASSUME s_client_map \in [S!ClientId -> Client \cup {NONE}]
             PROVE  S!Attached = {s_client_map[i] : i \in S!ClientId \ S!Free}
                      <=> \A c \in Client : c \in S!Attached <=> \E i \in S!ClientId : s_client_map[i] = c
  OBVIOUS
<1> DEFINE T == {s_client_map[i] : i \in S!ClientId \ S!Free}
<1>1. S!Attached \subseteq Client
  BY DEF S!Attached
<1>2. T \subseteq Client
  BY DEF S!Free
<1>3. \A c \in Client : c \in T <=> \E i \in S!ClientId : s_client_map[i] = c
  BY SocketConstants DEF S!Free
<1> HIDE DEF T
<1>4. S!Attached = T <=> \A c \in Client : c \in S!Attached <=> c \in T
  BY <1>1, <1>2
<1>5. S!Attached = T
        <=> \A c \in Client : c \in S!Attached <=> \E i \in S!ClientId : s_client_map[i] = c
  BY <1>3, <1>4
<1> QED
  BY <1>5 DEF T

\* The types, with the ids of the attached clients said of each of them.
SocketTypes ==
  /\ s_client_map \in [S!ClientId -> Client \cup {NONE}]
  /\ s_scheduled \in Seq([id : S!ClientId, record : 1..s_written])
  /\ s_send_queue \in [S!ClientId -> Seq(1..s_written)]
  /\ s_task \in [Client -> {"out", "getting", "sending", "done", "gone"}]
  /\ s_record \in [Client -> (1..s_written) \cup {NONE}]
  /\ s_open \in [Client -> BOOLEAN]
  /\ s_written \in 0..RecordBound
  /\ s_sent \in [Client -> Seq(1..s_written)]
  /\ s_since \in [Client -> 0..s_written]
  /\ s_trimmed \in [Client -> SUBSET (1..s_written)]
  /\ \A c \in Client : c \in S!Attached <=> \E i \in S!ClientId : s_client_map[i] = c

LEMMA TypesAreTypes == S!TypeOK <=> SocketTypes
  BY IdsAreOfAttached DEF S!TypeOK, SocketTypes

LEMMA TypesAreTypesNext == S!TypeOK' <=> SocketTypes'
  BY TypesAreTypes, PTL

LEMMA IdIs ==
  ASSUME IdsInv, NEW c \in Client, NEW i \in S!ClientId, s_client_map[i] = c
  PROVE  S!IdOf(c) = i
  BY SocketConstants DEF IdsInv, S!IdOf

LEMMA ServedHasId ==
  ASSUME SocketTypes, IdsInv, NEW c \in Client, s_task[c] \in {"getting", "sending", "done"}
  PROVE  S!IdOf(c) \in S!ClientId /\ s_client_map[S!IdOf(c)] = c
<1>1. PICK i \in S!ClientId : s_client_map[i] = c
  BY DEF SocketTypes, S!Attached
<1> QED
  BY <1>1, IdIs

\* Every set of numbers below a bound has a least one: the number of those
\* below takes all values from 0 on.
LEMMA Least ==
  ASSUME NEW k \in Nat, NEW T \in SUBSET (0..k), T # {}
  PROVE  \E x \in T : \A y \in T : x <= y
<1> DEFINE below(x) == {y \in T : y < x}
           n == Cardinality(T)
           f == [x \in T |-> Cardinality(below(x))]
<1>1. IsFiniteSet(T)
  <2>1. IsFiniteSet(0..k)
    BY FS_Interval
  <2> QED
    BY <2>1, FS_Subset
<1>2. n \in Nat /\ n > 0
  BY <1>1, FS_CardinalityType, FS_EmptySet
<1>3. \A x \in T : IsFiniteSet(below(x)) /\ Cardinality(below(x)) \in 0..(n - 1)
  <2> SUFFICES ASSUME NEW x \in T
               PROVE  IsFiniteSet(below(x)) /\ Cardinality(below(x)) \in 0..(n - 1)
    OBVIOUS
  <2>1. below(x) \in SUBSET T /\ x \notin below(x)
    OBVIOUS
  <2>2. IsFiniteSet(below(x)) /\ Cardinality(below(x)) <= n
        /\ (n = Cardinality(below(x)) => T = below(x))
    BY <1>1, <2>1, FS_Subset
  <2>3. Cardinality(below(x)) \in Nat
    BY <2>2, FS_CardinalityType
  <2>4. Cardinality(below(x)) # n
    BY <2>1, <2>2
  <2> HIDE DEF n, below
  <2> QED
    BY <1>2, <2>2, <2>3, <2>4
<1>4. f \in [T -> 0..(n - 1)]
  BY <1>3
<1>5. \A x, y \in T : x < y => f[x] # f[y]
  <2> SUFFICES ASSUME NEW x \in T, NEW y \in T, x < y
               PROVE  Cardinality(below(x)) # Cardinality(below(y))
    OBVIOUS
  <2>1. below(x) \in SUBSET below(y) /\ x \in below(y) /\ x \notin below(x)
    <3>1. x \in 0..k /\ y \in 0..k /\ T \subseteq 0..k
      OBVIOUS
    <3>2. \A z \in T : z < x => z < y
      BY <3>1
    <3>3. ~(x < x)
      BY <3>1
    <3> QED
      BY <3>2, <3>3
  <2>2. IsFiniteSet(below(y))
    BY <1>3
  <2>3. Cardinality(below(y)) = Cardinality(below(x)) => below(y) = below(x)
    BY <2>1, <2>2, FS_Subset
  <2> QED
    BY <2>1, <2>3
<1>6. \A x, y \in T : f[x] = f[y] => x = y
  <2>1. \A x, y \in T : x < y \/ y < x \/ x = y
    OBVIOUS
  <2> HIDE DEF f
  <2> QED
    BY <1>5, <2>1
<1> HIDE DEF f, n, below
<1>7. f \in Injection(T, 0..(n - 1))
  BY <1>4, <1>6 DEF Injection, IsInjective
<1>8. IsFiniteSet(0..(n - 1)) /\ Cardinality(0..(n - 1)) = n
  <2>1. 0 \in Int /\ n - 1 \in Int
    BY <1>2
  <2>2. IsFiniteSet(0..(n - 1))
        /\ Cardinality(0..(n - 1)) = IF 0 > n - 1 THEN 0 ELSE (n - 1) - 0 + 1
    BY <2>1, FS_Interval, Zenon
  <2> QED
    BY <1>2, <2>2
<1>9. f \in Surjection(T, 0..(n - 1))
  BY <1>7, <1>8, FS_Injection DEF n
<1>10. 0 \in 0..(n - 1)
  BY <1>2
<1>11. PICK x \in T : f[x] = 0
  BY <1>9, <1>10 DEF Surjection
<1>12. Cardinality(below(x)) = 0 /\ IsFiniteSet(below(x))
  BY <1>3, <1>11 DEF f
<1>13. below(x) = {}
  BY <1>12, FS_EmptySet
<1>14. \A y \in T : ~(y < x)
  BY <1>13 DEF below
<1> QED
  BY <1>14

\* A client that is out finds a free id, as there are as many as clients.
LEMMA FreeIdForEach ==
  ASSUME SocketTypes, IdsInv, NEW c \in Client, s_task[c] = "out"
  PROVE  S!NextId \in S!Free
<1> DEFINE n == Cardinality(Client)
<1>1. n \in Nat /\ IsFiniteSet(Client)
  BY SocketConstants
<1>2. IsFiniteSet(Client \ {c}) /\ Cardinality(Client \ {c}) = n - 1
  BY <1>1, FS_RemoveElement
<1>3. S!ClientId = 0..(Cardinality(Client) - 1)
  BY SameOperators DEF S!ClientId
<1>4. n > 0
  BY <1>1, FS_EmptySet
<1> HIDE DEF n
<1>5. Cardinality(0..(n - 1)) = n
  <2>1. 0 \in Int /\ n - 1 \in Int
    BY <1>1
  <2>2. Cardinality(0..(n - 1)) = IF 0 > n - 1 THEN 0 ELSE (n - 1) - 0 + 1
    BY <2>1, FS_Interval, Zenon
  <2> QED
    BY <1>1, <1>4, <2>2
<1>6. S!Free # {}
  <2> SUFFICES ASSUME S!Free = {} PROVE FALSE
    OBVIOUS
  <2>1. \A i \in S!ClientId : s_client_map[i] \in Client /\ s_client_map[i] # NONE
    BY DEF S!Free, SocketTypes
  <2>2. \A i \in S!ClientId : s_client_map[i] # c
    BY DEF SocketTypes, S!Attached
  <2>3. s_client_map \in [S!ClientId -> Client \ {c}]
    BY <2>1, <2>2 DEF SocketTypes
  <2>4. s_client_map \in Injection(S!ClientId, Client \ {c})
    BY <2>1, <2>3 DEF Injection, IsInjective, IdsInv
  <2>5. Cardinality(S!ClientId) <= Cardinality(Client \ {c})
    BY <1>2, <2>4, FS_Injection
  <2> QED
    BY <1>1, <1>2, <1>3, <1>5, <2>5 DEF n
<1>7. S!Free \in SUBSET (0..(n - 1)) /\ n - 1 \in Nat
  BY <1>1, <1>3, <1>4 DEF S!Free, n
<1>8. \E i \in S!Free : \A j \in S!Free : i <= j
  BY <1>6, <1>7, Least
<1> QED
  BY <1>8 DEF S!NextId

LEMMA CallTyped ==
  ASSUME SocketTypes
  PROVE  \A n \in DOMAIN s_scheduled : s_scheduled[n].record \in 1..s_written
<1> DEFINE call == [id : S!ClientId, record : 1..s_written]
<1>1. s_scheduled \in Seq(call)
  BY DEF SocketTypes
<1> HIDE DEF call
<1>2. \A n \in DOMAIN s_scheduled : s_scheduled[n] \in call
  BY <1>1, LenProperties
<1> QED
  BY <1>2 DEF call

\* The arguments of a client's flow have their types.
LEMMA FlowTyped ==
  ASSUME SocketTypes, NEW c \in Client, NEW i \in S!ClientId
  PROVE  /\ s_written \in Nat /\ s_since[c] \in Nat
         /\ s_sent[c] \in Seq(1..s_written) /\ s_send_queue[i] \in Seq(1..s_written)
         /\ Hand(c) \in SUBSET (1..s_written) /\ CallsFor(i) \in SUBSET (1..s_written)
         /\ s_trimmed[c] \in SUBSET (1..s_written)
<1>1. s_written \in Nat
  BY SocketConstants DEF SocketTypes
<1>2. s_since[c] \in 0..s_written
  BY DEF SocketTypes
<1>3. \A n \in DOMAIN s_scheduled : s_scheduled[n].record \in 1..s_written
  BY CallTyped
<1>4. CallsFor(i) \in SUBSET (1..s_written)
  BY <1>3 DEF CallsFor, S!Calls
<1>5. Hand(c) \in SUBSET (1..s_written)
  BY DEF Hand, SocketTypes
<1> QED
  BY <1>1, <1>2, <1>4, <1>5 DEF SocketTypes

\* What a step leaves alone of the calls.
LEMMA CallsKept ==
  ASSUME UNCHANGED s_scheduled
  PROVE  \A i : S!Calls(i)' = S!Calls(i) /\ CallsFor(i)' = CallsFor(i)
  BY DEF S!Calls, CallsFor

LEMMA SocketStarts == S!Init => SocketInv
<1> SUFFICES ASSUME S!Init PROVE SocketInv
  OBVIOUS
<1> USE DEF S!Init
<1>1. 1..s_written = {} /\ s_written \in 0..RecordBound /\ 0 \in 0..s_written
  BY SocketConstants
<1>2. <<>> \in Seq(1..s_written) /\ s_scheduled \in Seq([id : S!ClientId, record : 1..s_written])
  BY EmptySeq
<1>3. \A c \in Client, i \in S!ClientId : s_client_map[i] # c
  BY SocketConstants
<1>4. SocketTypes
  <2>1. \A c \in Client : c \notin S!Attached
    BY DEF S!Attached
  <2> QED
    BY <1>1, <1>2, <1>3, <2>1 DEF SocketTypes
<1>5. IdsInv
  BY DEF IdsInv
<1>6. TasksInv
  BY DEF TasksInv
<1>7. CallsInv
  BY DEF CallsInv, S!Calls
<1>8. FlowInv
  BY <1>3 DEF FlowInv
<1> QED
  BY <1>4, <1>5, <1>6, <1>7, <1>8, TypesAreTypes DEF SocketInv

-----------------------------------------------------------------------------
(***************************************************************************)
(* The steps of WebsocketWriter.                                           *)
(***************************************************************************)
LEMMA AttachHolds ==
  ASSUME SocketInv, NEW c \in Client, S!Attach(c)
  PROVE  SocketInv'
<1> USE DEF SocketInv
<1> DEFINE x == S!NextId
<1>1. SocketTypes /\ IdsInv
  BY TypesAreTypes
<1>2. x \in S!Free
  BY <1>1, FreeIdForEach DEF S!Attach
<1>3. x \in S!ClientId /\ s_client_map[x] = NONE
  BY <1>2 DEF S!Free
<1>4. /\ s_client_map' = [s_client_map EXCEPT ![x] = c]
      /\ s_send_queue' = [s_send_queue EXCEPT ![x] = <<>>]
      /\ s_task[c] = "out" /\ s_task' = [s_task EXCEPT ![c] = "getting"]
      /\ s_open' = [s_open EXCEPT ![c] = TRUE]
      /\ s_since' = [s_since EXCEPT ![c] = s_written]
      /\ UNCHANGED <<s_scheduled, s_record, s_sent, s_written, s_trimmed>>
  BY DEF S!Attach
<1> HIDE DEF x
<1>5. \A i \in S!ClientId : s_client_map[i] # c
  BY <1>1, <1>4 DEF SocketTypes, S!Attached
<1>6. \A i \in S!ClientId : s_client_map'[i] = IF i = x THEN c ELSE s_client_map[i]
  BY <1>1, <1>4 DEF SocketTypes
<1>7. \A d \in Client : s_task'[d] = IF d = c THEN "getting" ELSE s_task[d]
  BY <1>1, <1>4 DEF SocketTypes
<1>8. SocketTypes'
  <2>1. \A d \in Client : (d \in S!Attached)' <=> d = c \/ d \in S!Attached
    BY <1>7 DEF S!Attached
  <2>2. \A d \in Client : (d \in S!Attached)' <=> \E i \in S!ClientId : s_client_map'[i] = d
    BY <1>1, <1>3, <1>5, <1>6, <2>1, SocketConstants DEF SocketTypes
  <2>3. s_client_map' \in [S!ClientId -> Client \cup {NONE}]
    BY <1>1, <1>4 DEF SocketTypes
  <2>4. s_send_queue' \in [S!ClientId -> Seq(1..s_written)]
    BY <1>1, <1>4, EmptySeq DEF SocketTypes
  <2>5. s_task' \in [Client -> {"out", "getting", "sending", "done", "gone"}]
    BY <1>1, <1>4 DEF SocketTypes
  <2>6. s_open' \in [Client -> BOOLEAN]
    BY <1>1, <1>4 DEF SocketTypes
  <2>7. s_since' \in [Client -> 0..s_written]
    BY <1>1, <1>4, SocketConstants DEF SocketTypes
  <2> QED
    BY <1>1, <1>4, <2>2, <2>3, <2>4, <2>5, <2>6, <2>7 DEF SocketTypes
<1>9. IdsInv'
  BY <1>1, <1>5, <1>6 DEF IdsInv
<1>10. TasksInv'
  <2>1. s_record[c] = NONE
    BY <1>4 DEF TasksInv
  <2> QED
    BY <1>4, <1>7, <2>1 DEF TasksInv
<1>11. CallsInv'
  BY <1>4, CallsKept DEF CallsInv
<1>12. FlowInv'
  <2> SUFFICES ASSUME NEW d \in Client, NEW i \in S!ClientId, s_client_map'[i] = d,
                      S!Served(d)'
               PROVE  FlowOf(d, i)'
    BY DEF FlowInv
  <2>1. CASE i = x
    <3>1. d = c
      BY <1>6, <2>1
    <3>2. s_sent'[d] = <<>> /\ s_trimmed'[d] = {} /\ Hand(d)' = {}
      BY <1>4, <3>1 DEF TasksInv, Hand
    <3>3. s_since'[d] = s_written /\ s_written' = s_written /\ s_send_queue'[i] = <<>>
      BY <1>1, <1>3, <1>4, <2>1, <3>1 DEF SocketTypes
    <3>4. Flow(s_written, s_written, <<>>, {}, <<>>, CallsFor(i)', {})
      BY <1>1, SocketConstants, FlowStarts DEF SocketTypes
    <3> QED
      BY <3>2, <3>3, <3>4 DEF FlowOf
  <2>2. CASE i # x
    <3>1. s_client_map[i] = d /\ d # c
      BY <1>5, <1>6, <2>2
    <3>2. S!Served(d)
      BY <1>7, <3>1 DEF S!Served
    <3>3. FlowOf(d, i)
      BY <3>1, <3>2 DEF FlowInv
    <3>4. s_since'[d] = s_since[d] /\ s_send_queue'[i] = s_send_queue[i]
      BY <1>1, <1>4, <2>2, <3>1 DEF SocketTypes
    <3> QED
      BY <1>4, <3>3, <3>4, CallsKept DEF FlowOf, Hand
  <2> QED
    BY <2>1, <2>2
<1> QED
  BY <1>8, <1>9, <1>10, <1>11, <1>12, TypesAreTypesNext

LEMMA GetHolds ==
  ASSUME SocketInv, NEW c \in Client, S!Get(c)
  PROVE  SocketInv'
<1> USE DEF SocketInv
<1> DEFINE x == S!IdOf(c)
<1>1. SocketTypes /\ IdsInv
  BY TypesAreTypes
<1>2. x \in S!ClientId /\ s_client_map[x] = c
  BY <1>1, ServedHasId DEF S!Get
<1>3. /\ s_task[c] = "getting" /\ s_send_queue[x] # <<>>
      /\ s_task' = [s_task EXCEPT ![c] = "sending"]
      /\ s_record' = [s_record EXCEPT ![c] = Head(s_send_queue[x])]
      /\ s_send_queue' = [s_send_queue EXCEPT ![x] = Tail(s_send_queue[x])]
      /\ UNCHANGED <<s_client_map, s_scheduled, s_open, s_sent, s_written, s_since, s_trimmed>>
  BY DEF S!Get
<1> HIDE DEF x
<1>4. Head(s_send_queue[x]) \in 1..s_written /\ Tail(s_send_queue[x]) \in Seq(1..s_written)
  BY <1>1, <1>2, <1>3, HeadTailProperties DEF SocketTypes
<1>5. Head(s_send_queue[x]) # NONE
  BY <1>1, <1>4, SocketConstants DEF SocketTypes
<1>6. \A d \in Client : /\ s_task'[d] = IF d = c THEN "sending" ELSE s_task[d]
                        /\ s_record'[d] = IF d = c THEN Head(s_send_queue[x]) ELSE s_record[d]
  BY <1>1, <1>3 DEF SocketTypes
<1>7. SocketTypes'
  <2>1. \A d \in Client : (d \in S!Attached)' <=> d \in S!Attached
    BY <1>3, <1>6 DEF S!Attached
  <2>2. s_send_queue' \in [S!ClientId -> Seq(1..s_written)]
    BY <1>1, <1>3, <1>4 DEF SocketTypes
  <2>3. s_task' \in [Client -> {"out", "getting", "sending", "done", "gone"}]
    BY <1>1, <1>3 DEF SocketTypes
  <2>4. s_record' \in [Client -> (1..s_written) \cup {NONE}]
    BY <1>1, <1>3, <1>4 DEF SocketTypes
  <2> QED
    BY <1>1, <1>3, <2>1, <2>2, <2>3, <2>4 DEF SocketTypes
<1>8. IdsInv' /\ CallsInv'
  BY <1>3, CallsKept DEF IdsInv, CallsInv
<1>9. TasksInv'
  BY <1>3, <1>5, <1>6 DEF TasksInv
<1>10. FlowInv'
  <2> SUFFICES ASSUME NEW d \in Client, NEW i \in S!ClientId, s_client_map[i] = d,
                      S!Served(d)'
               PROVE  FlowOf(d, i)'
    BY <1>3 DEF FlowInv
  <2>1. FlowOf(d, i)
    BY <1>3, <1>6 DEF FlowInv, S!Served
  <2>2. CASE d = c
    <3>1. i = x
      BY <1>1, <1>2, <2>2, SocketConstants DEF IdsInv
    <3>2. Hand(d) = {} /\ Hand(d)' = {Head(s_send_queue[i])}
      BY <1>3, <1>5, <1>6, <2>2, <3>1 DEF Hand, TasksInv
    <3>3. s_send_queue'[i] = Tail(s_send_queue[i]) /\ s_send_queue[i] # <<>>
      BY <1>1, <1>2, <1>3, <3>1 DEF SocketTypes
    <3>4. Flow(s_since[d], s_written, s_sent[d], {}, s_send_queue[i], CallsFor(i), s_trimmed[d])
      BY <2>1, <3>2 DEF FlowOf
    <3>5. Flow(s_since[d], s_written, s_sent[d], {Head(s_send_queue[i])}, Tail(s_send_queue[i]),
               CallsFor(i), s_trimmed[d])
      BY <1>1, <3>3, <3>4, FlowTyped, FlowGot
    <3>6. UNCHANGED <<s_scheduled, s_since, s_written, s_sent, s_trimmed>>
      BY <1>3
    <3>7. CallsFor(i)' = CallsFor(i)
      BY <3>6, CallsKept
    <3> QED
      BY <3>2, <3>3, <3>5, <3>6, <3>7 DEF FlowOf
  <2>3. CASE d # c
    <3>1. i # x
      BY <1>2, <2>3
    <3>2. s_send_queue'[i] = s_send_queue[i] /\ Hand(d)' = Hand(d)
      BY <1>1, <1>3, <1>6, <2>3, <3>1 DEF SocketTypes, Hand
    <3> QED
      BY <1>3, <2>1, <3>2, CallsKept DEF FlowOf
  <2> QED
    BY <2>2, <2>3
<1> QED
  BY <1>7, <1>8, <1>9, <1>10, TypesAreTypesNext

LEMMA SendHolds ==
  ASSUME SocketInv, NEW c \in Client, S!Send(c)
  PROVE  SocketInv'
<1> USE DEF SocketInv
<1>1. SocketTypes /\ IdsInv
  BY TypesAreTypes
<1>2. /\ s_task[c] = "sending"
      /\ s_task' = [s_task EXCEPT ![c] = "getting"]
      /\ s_record' = [s_record EXCEPT ![c] = NONE]
      /\ s_sent' = [s_sent EXCEPT ![c] = Append(s_sent[c], s_record[c])]
      /\ UNCHANGED <<s_client_map, s_send_queue, s_scheduled, s_open, s_written, s_since, s_trimmed>>
  BY DEF S!Send
<1>3. s_record[c] # NONE
  BY <1>2 DEF TasksInv
<1>4. s_record[c] \in 1..s_written
  BY <1>1, <1>3 DEF SocketTypes
<1>5. s_sent[c] \in Seq(1..s_written)
  BY <1>1 DEF SocketTypes
<1>6. Append(s_sent[c], s_record[c]) \in Seq(1..s_written)
  BY <1>4, <1>5, AppendProperties
<1>7. \A d \in Client : /\ s_task'[d] = IF d = c THEN "getting" ELSE s_task[d]
                        /\ s_record'[d] = IF d = c THEN NONE ELSE s_record[d]
  BY <1>1, <1>2 DEF SocketTypes
<1>8. SocketTypes'
  <2>1. \A d \in Client : (d \in S!Attached)' <=> d \in S!Attached
    BY <1>2, <1>7 DEF S!Attached
  <2>2. s_sent' \in [Client -> Seq(1..s_written)]
    BY <1>1, <1>2, <1>6 DEF SocketTypes
  <2>3. s_task' \in [Client -> {"out", "getting", "sending", "done", "gone"}]
    BY <1>1, <1>2 DEF SocketTypes
  <2>4. s_record' \in [Client -> (1..s_written) \cup {NONE}]
    BY <1>1, <1>2 DEF SocketTypes
  <2> QED
    BY <1>1, <1>2, <2>1, <2>2, <2>3, <2>4 DEF SocketTypes
<1>9. IdsInv' /\ CallsInv'
  BY <1>2, CallsKept DEF IdsInv, CallsInv
<1>10. TasksInv'
  <2>1. \A d \in Client : d # c => s_sent'[d] = s_sent[d]
    BY <1>1, <1>2 DEF SocketTypes
  <2> QED
    BY <1>2, <1>7, <2>1 DEF TasksInv
<1>11. FlowInv'
  <2> SUFFICES ASSUME NEW d \in Client, NEW i \in S!ClientId, s_client_map[i] = d,
                      S!Served(d)'
               PROVE  FlowOf(d, i)'
    BY <1>2 DEF FlowInv
  <2>1. FlowOf(d, i)
    BY <1>2, <1>7 DEF FlowInv, S!Served
  <2>2. UNCHANGED <<s_send_queue, s_since, s_written, s_trimmed>> /\ CallsFor(i)' = CallsFor(i)
    BY <1>2, CallsKept
  <2>3. CASE d = c
    <3>1. Hand(d) = {s_record[d]} /\ Hand(d)' = {}
      BY <1>3, <1>7, <2>3 DEF Hand
    <3>2. s_sent'[d] = Append(s_sent[d], s_record[d]) /\ s_record[d] \in 1..s_written
      BY <1>1, <1>2, <1>4, <2>3 DEF SocketTypes
    <3>3. Flow(s_since[d], s_written, s_sent[d], {s_record[d]}, s_send_queue[i], CallsFor(i),
               s_trimmed[d])
      BY <2>1, <3>1 DEF FlowOf
    <3>4. Flow(s_since[d], s_written, Append(s_sent[d], s_record[d]), {}, s_send_queue[i],
               CallsFor(i), s_trimmed[d])
      BY <1>1, <3>2, <3>3, FlowTyped, FlowSent
    <3> QED
      BY <2>2, <3>1, <3>2, <3>4 DEF FlowOf
  <2>4. CASE d # c
    <3>1. s_sent'[d] = s_sent[d] /\ Hand(d)' = Hand(d)
      BY <1>1, <1>2, <1>7, <2>4 DEF SocketTypes, Hand
    <3> QED
      BY <2>1, <2>2, <3>1 DEF FlowOf
  <2> QED
    BY <2>3, <2>4
<1> QED
  BY <1>8, <1>9, <1>10, <1>11, TypesAreTypesNext

LEMMA SendFailsHolds ==
  ASSUME SocketInv, NEW c \in Client, S!SendFails(c)
  PROVE  SocketInv'
<1> USE DEF SocketInv
<1>1. SocketTypes /\ IdsInv
  BY TypesAreTypes
<1>2. /\ s_task[c] = "sending"
      /\ s_task' = [s_task EXCEPT ![c] = "done"]
      /\ s_record' = [s_record EXCEPT ![c] = NONE]
      /\ UNCHANGED <<s_client_map, s_send_queue, s_scheduled, s_open, s_sent, s_written, s_since,
                     s_trimmed>>
  BY DEF S!SendFails
<1>3. \A d \in Client : /\ s_task'[d] = IF d = c THEN "done" ELSE s_task[d]
                        /\ s_record'[d] = IF d = c THEN NONE ELSE s_record[d]
  BY <1>1, <1>2 DEF SocketTypes
<1>4. SocketTypes'
  <2>1. \A d \in Client : (d \in S!Attached)' <=> d \in S!Attached
    BY <1>2, <1>3 DEF S!Attached
  <2>2. s_task' \in [Client -> {"out", "getting", "sending", "done", "gone"}]
    BY <1>1, <1>2 DEF SocketTypes
  <2>3. s_record' \in [Client -> (1..s_written) \cup {NONE}]
    BY <1>1, <1>2 DEF SocketTypes
  <2> QED
    BY <1>1, <1>2, <2>1, <2>2, <2>3 DEF SocketTypes
<1>5. IdsInv' /\ CallsInv'
  BY <1>2, CallsKept DEF IdsInv, CallsInv
<1>6. TasksInv'
  BY <1>2, <1>3 DEF TasksInv
<1>7. FlowInv'
  <2> SUFFICES ASSUME NEW d \in Client, NEW i \in S!ClientId, s_client_map[i] = d,
                      S!Served(d)'
               PROVE  FlowOf(d, i)'
    BY <1>2 DEF FlowInv
  <2>1. d # c
    BY <1>3 DEF S!Served
  <2>2. FlowOf(d, i)
    BY <1>3, <2>1 DEF FlowInv, S!Served
  <2>3. UNCHANGED <<s_send_queue, s_sent, s_since, s_written, s_trimmed>>
        /\ CallsFor(i)' = CallsFor(i) /\ Hand(d)' = Hand(d)
    BY <1>2, <1>3, <2>1, CallsKept DEF Hand
  <2> QED
    BY <2>2, <2>3 DEF FlowOf
<1> QED
  BY <1>4, <1>5, <1>6, <1>7, TypesAreTypesNext

LEMMA DetachHolds ==
  ASSUME SocketInv, NEW c \in Client, S!Detach(c)
  PROVE  SocketInv'
<1> USE DEF SocketInv
<1> DEFINE x == S!IdOf(c)
<1>1. SocketTypes /\ IdsInv
  BY TypesAreTypes
<1>2. x \in S!ClientId /\ s_client_map[x] = c
  BY <1>1, ServedHasId DEF S!Detach
<1>3. /\ s_task[c] = "done"
      /\ s_client_map' = [s_client_map EXCEPT ![x] = NONE]
      /\ s_send_queue' = [s_send_queue EXCEPT ![x] = <<>>]
      /\ s_task' = [s_task EXCEPT ![c] = "gone"]
      /\ UNCHANGED <<s_scheduled, s_record, s_open, s_sent, s_written, s_since, s_trimmed>>
  BY DEF S!Detach
<1> HIDE DEF x
<1>4. \A i \in S!ClientId : s_client_map'[i] = IF i = x THEN NONE ELSE s_client_map[i]
  BY <1>1, <1>3 DEF SocketTypes
<1>5. \A d \in Client : s_task'[d] = IF d = c THEN "gone" ELSE s_task[d]
  BY <1>1, <1>3 DEF SocketTypes
<1>6. \A i \in S!ClientId : s_client_map[i] = c => i = x
  BY <1>1, <1>2, SocketConstants DEF IdsInv
<1>7. SocketTypes'
  <2>1. \A d \in Client : (d \in S!Attached)' <=> d # c /\ d \in S!Attached
    BY <1>5 DEF S!Attached
  <2>2. \A d \in Client : (d \in S!Attached)' <=> \E i \in S!ClientId : s_client_map'[i] = d
    BY <1>1, <1>2, <1>4, <1>6, <2>1, SocketConstants DEF SocketTypes
  <2>3. s_client_map' \in [S!ClientId -> Client \cup {NONE}]
    BY <1>1, <1>3 DEF SocketTypes
  <2>4. s_send_queue' \in [S!ClientId -> Seq(1..s_written)]
    BY <1>1, <1>3, EmptySeq DEF SocketTypes
  <2>5. s_task' \in [Client -> {"out", "getting", "sending", "done", "gone"}]
    BY <1>1, <1>3 DEF SocketTypes
  <2> QED
    BY <1>1, <1>3, <2>2, <2>3, <2>4, <2>5 DEF SocketTypes
<1>8. IdsInv'
  BY <1>1, <1>4 DEF IdsInv
<1>9. TasksInv'
  BY <1>3, <1>5 DEF TasksInv
<1>10. CallsInv'
  BY <1>3, CallsKept DEF CallsInv
<1>11. FlowInv'
  <2> SUFFICES ASSUME NEW d \in Client, NEW i \in S!ClientId, s_client_map'[i] = d,
                      S!Served(d)'
               PROVE  FlowOf(d, i)'
    BY DEF FlowInv
  <2>1. i # x /\ s_client_map[i] = d /\ d # c
    BY <1>4, <1>5, SocketConstants DEF S!Served
  <2>2. FlowOf(d, i)
    BY <1>5, <2>1 DEF FlowInv, S!Served
  <2>3. s_send_queue'[i] = s_send_queue[i]
    BY <1>1, <1>3, <2>1 DEF SocketTypes
  <2>4. UNCHANGED <<s_sent, s_since, s_written, s_trimmed>>
        /\ CallsFor(i)' = CallsFor(i) /\ Hand(d)' = Hand(d)
    BY <1>3, CallsKept DEF Hand
  <2> QED
    BY <2>2, <2>3, <2>4 DEF FlowOf
<1> QED
  BY <1>7, <1>8, <1>9, <1>10, <1>11, TypesAreTypesNext

\* Only open changes, or nothing does.
LEMMA ClosesHolds ==
  ASSUME SocketInv, s_open' \in [Client -> BOOLEAN],
         UNCHANGED <<s_client_map, s_send_queue, s_scheduled, s_task, s_record, s_written, s_sent,
                     s_since, s_trimmed>>
  PROVE  SocketInv'
<1> USE DEF SocketInv
<1>1. S!TypeOK'
  BY DEF S!TypeOK, S!Attached, S!Free
<1>2. IdsInv' /\ TasksInv' /\ CallsInv'
  BY CallsKept DEF IdsInv, TasksInv, CallsInv
<1>3. FlowInv'
  BY CallsKept DEF FlowInv, FlowOf, Hand, S!Served
<1> QED
  BY <1>1, <1>2, <1>3

\* What is written is scheduled once for each id that has a client.
LEMMA Scheduling ==
  ASSUME SocketTypes, S!Write
  PROVE  /\ s_scheduled' \in Seq([id : S!ClientId, record : 1..s_written'])
         /\ \A n \in DOMAIN s_scheduled : n \in DOMAIN s_scheduled' /\ s_scheduled'[n] = s_scheduled[n]
         /\ \A n \in DOMAIN s_scheduled' \ DOMAIN s_scheduled :
              /\ \A m \in DOMAIN s_scheduled : m < n
              /\ s_scheduled'[n].record = s_written + 1
              /\ s_scheduled'[n].id \in S!ClientId \ S!Free
         /\ \A m, n \in DOMAIN s_scheduled' \ DOMAIN s_scheduled :
              m # n => s_scheduled'[m].id # s_scheduled'[n].id
         /\ \A i \in S!ClientId \ S!Free :
              \E n \in DOMAIN s_scheduled' \ DOMAIN s_scheduled : s_scheduled'[n].id = i
<1> DEFINE T == S!ClientId \ S!Free
           k == Cardinality(T)
           w == s_written + 1
           call == [id : S!ClientId, record : 1..w]
           size == Len(s_scheduled)
<1>1. s_written' = w /\ s_written \in Nat
  BY SocketConstants DEF S!Write, SocketTypes
<1>2. PICK ids \in [1..k -> T] :
        /\ \A m, n \in 1..k : m # n => ids[m] # ids[n]
        /\ s_scheduled' = s_scheduled \o [n \in DOMAIN ids |-> [id |-> ids[n], record |-> w]]
  BY <1>1, SameOperators DEF S!Write, S!SetToSeqs
<1>3. IsFiniteSet(T) /\ k \in Nat
  <2>1. IsFiniteSet(S!ClientId)
    <3>1. 0 \in Int /\ Cardinality(Client) - 1 \in Int
      BY SocketConstants
    <3>2. S!ClientId = 0..(Cardinality(Client) - 1)
      BY SameOperators DEF S!ClientId
    <3> QED
      BY <3>1, <3>2, FS_Interval
  <2>2. T \in SUBSET S!ClientId
    OBVIOUS
  <2>3. IsFiniteSet(T)
    BY <2>1, <2>2, FS_Subset
  <2> QED
    BY <2>3, FS_CardinalityType
<1>4. T \subseteq S!ClientId
  OBVIOUS
<1> HIDE DEF T, k
<1> DEFINE new == [n \in 1..k |-> [id |-> ids[n], record |-> w]]
<1>5. new \in [1..k -> call] /\ w \in 1..w
  BY <1>1, <1>2, <1>4
<1>6. new \in Seq(call) /\ Len(new) = k
  <2> HIDE DEF new, call
  <2> QED
    BY <1>3, <1>5
<1>7. s_scheduled' = s_scheduled \o new
  BY <1>2
<1>8. \A n \in 1..k : new[n].id = ids[n] /\ new[n].record = w
  OBVIOUS
<1> HIDE DEF new
<1>9. s_scheduled \in Seq(call)
  <2>1. [id : S!ClientId, record : 1..s_written] \subseteq call
    BY <1>1
  <2>2. s_scheduled \in Seq([id : S!ClientId, record : 1..s_written])
    BY DEF SocketTypes
  <2> HIDE DEF call
  <2> QED
    BY <2>1, <2>2, SeqMonotonic
<1> HIDE DEF call
<1>10. size \in Nat /\ DOMAIN s_scheduled = 1..size
  BY <1>9, LenProperties
<1>11. /\ s_scheduled' \in Seq(call) /\ Len(s_scheduled') = size + k
       /\ \A n \in 1..(size + k) :
            s_scheduled'[n] = IF n <= size THEN s_scheduled[n] ELSE new[n - size]
  BY <1>6, <1>7, <1>9, ConcatProperties
<1> HIDE DEF size
<1>12. DOMAIN s_scheduled' = 1..(size + k)
  BY <1>11, LenProperties
<1>13. \A n \in 1..size : n \in 1..(size + k) /\ s_scheduled'[n] = s_scheduled[n]
  BY <1>3, <1>10, <1>11
<1>14. \A n \in (1..(size + k)) \ (1..size) :
         /\ n - size \in 1..k /\ s_scheduled'[n] = new[n - size]
         /\ \A m \in 1..size : m < n
  BY <1>3, <1>10, <1>11
<1>15. \A m, n \in (1..(size + k)) \ (1..size) :
         m # n => s_scheduled'[m].id # s_scheduled'[n].id
  <2> SUFFICES ASSUME NEW m \in (1..(size + k)) \ (1..size), NEW n \in (1..(size + k)) \ (1..size),
                      m # n
               PROVE  s_scheduled'[m].id # s_scheduled'[n].id
    OBVIOUS
  <2>1. m - size # n - size
    BY <1>3, <1>10
  <2>2. m - size \in 1..k /\ n - size \in 1..k
    BY <1>14
  <2>3. ids[m - size] # ids[n - size]
    BY <1>2, <2>1, <2>2
  <2>4. s_scheduled'[m].id = ids[m - size] /\ s_scheduled'[n].id = ids[n - size]
    BY <1>8, <1>14, <2>2
  <2> QED
    BY <2>3, <2>4
<1>16. \A i \in T : \E n \in (1..(size + k)) \ (1..size) : s_scheduled'[n].id = i
  <2> SUFFICES ASSUME NEW i \in T
               PROVE  \E n \in (1..(size + k)) \ (1..size) : s_scheduled'[n].id = i
    OBVIOUS
  <2>1. ids \in Injection(1..k, T)
    BY <1>2 DEF Injection, IsInjective
  <2>2. Cardinality(1..k) = k
    <3>1. 1 \in Int /\ k \in Int
      BY <1>3
    <3>2. Cardinality(1..k) = IF 1 > k THEN 0 ELSE k - 1 + 1
      BY <3>1, FS_Interval, Zenon
    <3> QED
      BY <1>3, <3>2
  <2>3. ids \in Surjection(1..k, T)
    BY <1>3, <2>1, <2>2, FS_Injection DEF k
  <2>4. PICK n \in 1..k : ids[n] = i
    BY <2>3 DEF Surjection
  <2>5. size + n \in (1..(size + k)) \ (1..size) /\ (size + n) - size = n
    BY <1>3, <1>10
  <2>6. s_scheduled'[size + n] = new[n]
    BY <1>14, <2>5
  <2> QED
    BY <1>8, <2>4, <2>5, <2>6
<1>17. \A n \in (1..(size + k)) \ (1..size) :
         s_scheduled'[n].record = w /\ s_scheduled'[n].id \in T
  <2> SUFFICES ASSUME NEW n \in (1..(size + k)) \ (1..size)
               PROVE  s_scheduled'[n].record = w /\ s_scheduled'[n].id \in T
    OBVIOUS
  <2>1. n - size \in 1..k /\ s_scheduled'[n] = new[n - size]
    BY <1>14
  <2>2. ids[n - size] \in T
    BY <1>2, <2>1
  <2> QED
    BY <1>8, <2>1, <2>2
<1> QED
  BY <1>1, <1>10, <1>11, <1>12, <1>13, <1>14, <1>15, <1>16, <1>17 DEF T, call

LEMMA WriteKeepsFlow ==
  ASSUME SocketInv, S!Write
  PROVE  SocketInv'
<1> USE DEF SocketInv
<1> DEFINE w == s_written + 1
           old == DOMAIN s_scheduled
           new == DOMAIN s_scheduled' \ old
<1>1. SocketTypes /\ IdsInv
  BY TypesAreTypes
<1>2. /\ s_written' = w /\ s_written < RecordBound
      /\ UNCHANGED <<s_client_map, s_send_queue, s_task, s_record, s_open, s_sent, s_since, s_trimmed>>
  BY DEF S!Write, S!taskVars
<1>3. s_written \in Nat /\ w \in 0..RecordBound /\ 1..s_written \subseteq 1..w
      /\ 0..s_written \subseteq 0..w
  BY <1>1, <1>2, SocketConstants DEF SocketTypes
<1>4. /\ s_scheduled' \in Seq([id : S!ClientId, record : 1..w])
      /\ \A n \in old : n \in DOMAIN s_scheduled' /\ s_scheduled'[n] = s_scheduled[n]
      /\ \A n \in new : /\ \A m \in old : m < n
                        /\ s_scheduled'[n].record = w
                        /\ s_scheduled'[n].id \in S!ClientId \ S!Free
      /\ \A m, n \in new : m # n => s_scheduled'[m].id # s_scheduled'[n].id
      /\ \A i \in S!ClientId \ S!Free : \E n \in new : s_scheduled'[n].id = i
  BY <1>1, <1>2, Scheduling
<1>5. \A n \in old : s_scheduled[n].record \in 1..s_written
  BY <1>1, CallTyped
<1> HIDE DEF old, new
<1>6. DOMAIN s_scheduled' = old \cup new
  BY <1>4 DEF old, new
<1>7. \A i : S!Calls(i)' = S!Calls(i) \cup {n \in new : s_scheduled'[n].id = i}
  BY <1>4, <1>6 DEF S!Calls, old
<1>8. \A i : S!Calls(i) \subseteq old
  BY DEF S!Calls, old
<1>9. SocketTypes'
  <2>1. Seq(1..s_written) \subseteq Seq(1..w)
    BY <1>3, SeqMonotonic
  <2>2. s_send_queue' \in [S!ClientId -> Seq(1..w)]
    BY <1>1, <1>2, <2>1 DEF SocketTypes
  <2>3. s_sent' \in [Client -> Seq(1..w)]
    BY <1>1, <1>2, <2>1 DEF SocketTypes
  <2>4. s_record' \in [Client -> (1..w) \cup {NONE}]
    BY <1>1, <1>2, <1>3 DEF SocketTypes
  <2>5. s_since' \in [Client -> 0..w]
    BY <1>1, <1>2, <1>3 DEF SocketTypes
  <2>6. s_trimmed' \in [Client -> SUBSET (1..w)]
    BY <1>1, <1>2, <1>3 DEF SocketTypes
  <2>7. \A c \in Client : (c \in S!Attached)' <=> \E i \in S!ClientId : s_client_map'[i] = c
    BY <1>1, <1>2 DEF SocketTypes, S!Attached
  <2> HIDE DEF w
  <2> QED
    BY <1>1, <1>2, <1>3, <1>4, <2>2, <2>3, <2>4, <2>5, <2>6, <2>7 DEF SocketTypes
<1>10. IdsInv' /\ TasksInv'
  BY <1>2 DEF IdsInv, TasksInv
<1>11. CallsInv'
  <2> SUFFICES ASSUME NEW i \in S!ClientId, NEW m \in S!Calls(i)', NEW n \in S!Calls(i)', m < n
               PROVE  s_scheduled'[m].record < s_scheduled'[n].record
    BY DEF CallsInv
  <2>1. CASE n \in S!Calls(i)
    <3>1. m \in S!Calls(i)
      <4> SUFFICES ASSUME m \in new PROVE FALSE
        BY <1>7
      <4>1. n < m /\ m \in Int /\ n \in Int
        <5>1. n < m
          BY <1>4, <1>8, <2>1
        <5>2. m \in DOMAIN s_scheduled' /\ n \in DOMAIN s_scheduled'
          BY <1>6, <1>8, <2>1
        <5>3. DOMAIN s_scheduled' \subseteq Int
          BY <1>4, LenProperties
        <5> QED
          BY <5>1, <5>2, <5>3
      <4> QED
        BY <4>1
    <3>2. s_scheduled[m].record < s_scheduled[n].record
      BY <2>1, <3>1 DEF CallsInv
    <3> QED
      BY <1>4, <1>8, <2>1, <3>1, <3>2
  <2>2. CASE n \in new
    <3>1. s_scheduled'[n].record = w
      BY <1>4, <2>2
    <3>2. m \in S!Calls(i)
      <4> SUFFICES ASSUME m \in new PROVE FALSE
        BY <1>7
      <4>1. s_scheduled'[m].id = i /\ s_scheduled'[n].id = i
        BY DEF S!Calls
      <4>2. m \in Int /\ n \in Int
        <5>1. DOMAIN s_scheduled' \subseteq Int
          BY <1>4, LenProperties
        <5> QED
          BY <1>6, <2>2, <5>1
      <4>3. m # n
        BY <4>2
      <4> QED
        BY <1>4, <2>2, <4>1, <4>3
    <3>3. s_scheduled'[m].record \in 1..s_written
      BY <1>4, <1>5, <1>8, <3>2
    <3> QED
      BY <1>3, <3>1, <3>3
  <2> QED
    BY <1>7, <2>1, <2>2
<1>12. FlowInv'
  <2> SUFFICES ASSUME NEW c \in Client, NEW i \in S!ClientId, s_client_map[i] = c, S!Served(c)
               PROVE  FlowOf(c, i)'
    BY <1>2 DEF FlowInv, S!Served
  <2>1. FlowOf(c, i)
    BY DEF FlowInv
  <2>2. i \in S!ClientId \ S!Free
    BY SocketConstants DEF S!Free
  <2>3. CallsFor(i)' = CallsFor(i) \cup {w}
    <3>1. \A n \in S!Calls(i) : s_scheduled'[n] = s_scheduled[n]
      BY <1>4, <1>8
    <3>2. \A n \in S!Calls(i)' : n \in S!Calls(i) \/ s_scheduled'[n].record = w
      BY <1>4, <1>7
    <3>3. \E n \in S!Calls(i)' : s_scheduled'[n].record = w
      BY <1>4, <1>7, <2>2
    <3>4. S!Calls(i) \subseteq S!Calls(i)'
      BY <1>7
    <3>5. CallsFor(i)' = {s_scheduled'[n].record : n \in S!Calls(i)'}
      BY DEF CallsFor
    <3> HIDE DEF w
    <3> QED
      BY <3>1, <3>2, <3>3, <3>4, <3>5 DEF CallsFor
  <2>4. Flow(s_since[c], w, s_sent[c], Hand(c), s_send_queue[i], CallsFor(i) \cup {w}, s_trimmed[c])
    BY <1>1, <2>1, FlowTyped, FlowWritten, SocketConstants DEF FlowOf
  <2>5. UNCHANGED <<s_since, s_sent, s_send_queue, s_trimmed>> /\ Hand(c)' = Hand(c)
    BY <1>2 DEF Hand
  <2> QED
    BY <1>2, <2>3, <2>4, <2>5 DEF FlowOf
<1> QED
  BY <1>9, <1>10, <1>11, <1>12, TypesAreTypesNext

\* What a queue keeps has its type, whatever was in it.
LEMMA TrimmedTyped ==
  ASSUME NEW A, NEW q \in Seq(A), MaxQueueSize \in Nat
  PROVE  S!Trimmed(q) \in Seq(A)
<1>1. q \in [1..Len(q) -> A] /\ Len(q) \in Nat
  BY LenProperties
<1>2. CASE MaxQueueSize = 0 \/ Len(q) <= MaxQueueSize
  BY <1>2 DEF S!Trimmed
<1>3. CASE ~(MaxQueueSize = 0 \/ Len(q) <= MaxQueueSize)
  <2> DEFINE from == Len(q) - MaxQueueSize + 1
  <2>1. S!Trimmed(q) = SubSeq(q, from, Len(q))
    BY <1>3 DEF S!Trimmed
  <2>2. from \in Int /\ Len(q) \in Int /\ \A n \in from..Len(q) : n \in 1..Len(q)
    <3>1. Len(q) \in Nat
      BY <1>1
    <3> QED
      BY <1>3, <3>1
  <2>3. \A n \in from..Len(q) : q[n] \in A
    BY <1>1, <2>2
  <2> HIDE DEF from
  <2> QED
    BY <2>1, <2>2, <2>3, SubSeqProperties
<1> QED
  BY <1>2, <1>3

\* The first call is made.
LEMMA CallMade ==
  ASSUME SocketTypes, s_scheduled # <<>>, s_scheduled' = Tail(s_scheduled)
  PROVE  /\ s_scheduled' \in Seq([id : S!ClientId, record : 1..s_written])
         /\ Head(s_scheduled) = s_scheduled[1] /\ 1 \in DOMAIN s_scheduled
         /\ Head(s_scheduled) \in [id : S!ClientId, record : 1..s_written]
         /\ \A n \in DOMAIN s_scheduled' :
              n + 1 \in DOMAIN s_scheduled /\ s_scheduled'[n] = s_scheduled[n + 1]
         /\ \A n \in DOMAIN s_scheduled :
              n = 1 \/ (n - 1 \in DOMAIN s_scheduled' /\ s_scheduled'[n - 1] = s_scheduled[n])
<1> DEFINE call == [id : S!ClientId, record : 1..s_written]
           size == Len(s_scheduled)
<1>1. s_scheduled \in Seq(call)
  BY DEF SocketTypes
<1> HIDE DEF call
<1>2. size \in Nat /\ size # 0 /\ DOMAIN s_scheduled = 1..size
  BY <1>1, LenProperties, EmptySeq
<1>3. Head(s_scheduled) \in call /\ Tail(s_scheduled) \in Seq(call)
      /\ Len(Tail(s_scheduled)) = size - 1
      /\ \A n \in 1..(size - 1) : Tail(s_scheduled)[n] = s_scheduled[n + 1]
  BY <1>1, HeadTailProperties
<1>4. Head(s_scheduled) = s_scheduled[1]
  BY <1>1
<1>5. DOMAIN s_scheduled' = 1..(size - 1)
  BY <1>3, LenProperties
<1> HIDE DEF size
<1>6. \A n \in 1..(size - 1) : n + 1 \in 1..size
  BY <1>2
<1>7. \A n \in 1..size : n = 1 \/ (n - 1 \in 1..(size - 1) /\ (n - 1) + 1 = n)
  BY <1>2
<1>8. 1 \in 1..size
  BY <1>2
<1> QED
  BY <1>2, <1>3, <1>4, <1>5, <1>6, <1>7, <1>8 DEF call

LEMMA PutAndTrimHolds ==
  ASSUME SocketInv, S!PutAndTrim
  PROVE  SocketInv'
<1> USE DEF SocketInv
<1> DEFINE x == Head(s_scheduled).id
           r == Head(s_scheduled).record
           queue == Append(s_send_queue[x], r)
<1>1. SocketTypes /\ IdsInv
  BY TypesAreTypes
<1>2. s_scheduled # <<>> /\ s_scheduled' = Tail(s_scheduled)
      /\ UNCHANGED <<s_client_map, s_task, s_record, s_open, s_sent, s_written, s_since>>
  BY DEF S!PutAndTrim, S!taskVars
<1>3. IF x \in S!Free THEN UNCHANGED <<s_send_queue, s_trimmed>>
      ELSE /\ s_send_queue' = [s_send_queue EXCEPT ![x] = S!Trimmed(queue)]
           /\ s_trimmed' = [s_trimmed EXCEPT ![s_client_map[x]] =
                              @ \cup (ToSet(queue) \ ToSet(S!Trimmed(queue)))]
  BY SameOperators DEF S!PutAndTrim
<1>4. /\ s_scheduled' \in Seq([id : S!ClientId, record : 1..s_written])
      /\ Head(s_scheduled) = s_scheduled[1] /\ 1 \in DOMAIN s_scheduled
      /\ Head(s_scheduled) \in [id : S!ClientId, record : 1..s_written]
      /\ \A n \in DOMAIN s_scheduled' :
           n + 1 \in DOMAIN s_scheduled /\ s_scheduled'[n] = s_scheduled[n + 1]
      /\ \A n \in DOMAIN s_scheduled :
           n = 1 \/ (n - 1 \in DOMAIN s_scheduled' /\ s_scheduled'[n - 1] = s_scheduled[n])
  BY <1>1, <1>2, CallMade
<1>5. x \in S!ClientId /\ r \in 1..s_written
  BY <1>4
<1>6. x = s_scheduled[1].id /\ r = s_scheduled[1].record
  BY <1>4
<1>7. \A n \in DOMAIN s_scheduled : n \in Nat /\ n >= 1
  <2>1. s_scheduled \in Seq([id : S!ClientId, record : 1..s_written])
    BY <1>1 DEF SocketTypes
  <2>2. Len(s_scheduled) \in Nat /\ DOMAIN s_scheduled = 1..Len(s_scheduled)
    BY <2>1, LenProperties
  <2> QED
    BY <2>2
<1>8. \A n \in DOMAIN s_scheduled' : n \in Nat
  <2>1. Len(s_scheduled') \in Nat /\ DOMAIN s_scheduled' = 1..Len(s_scheduled')
    BY <1>4, LenProperties
  <2> QED
    BY <2>1
<1> HIDE DEF x, r
<1>9. s_send_queue[x] \in Seq(1..s_written) /\ queue \in Seq(1..s_written)
  <2>1. s_send_queue[x] \in Seq(1..s_written)
    BY <1>1, <1>5 DEF SocketTypes
  <2> QED
    BY <1>5, <2>1, AppendProperties
<1> HIDE DEF queue
<1>10. S!Trimmed(queue) \in Seq(1..s_written)
  BY <1>9, TrimmedTyped, SocketConstants
<1>11. ToSet(queue) \subseteq 1..s_written
  <2>1. queue \in [1..Len(queue) -> 1..s_written] /\ DOMAIN queue = 1..Len(queue)
    BY <1>9, LenProperties
  <2> QED
    BY <2>1 DEF ToSet
<1>12. SocketTypes'
  <2>1. s_send_queue' \in [S!ClientId -> Seq(1..s_written)]
    BY <1>1, <1>3, <1>10 DEF SocketTypes
  <2>2. s_trimmed' \in [Client -> SUBSET (1..s_written)]
    <3> DEFINE gone == ToSet(queue) \ ToSet(S!Trimmed(queue))
    <3>1. gone \subseteq 1..s_written
      BY <1>11
    <3>2. s_trimmed \in [Client -> SUBSET (1..s_written)]
      BY <1>1 DEF SocketTypes
    <3>3. s_trimmed' = s_trimmed \/
            s_trimmed' = [s_trimmed EXCEPT ![s_client_map[x]] = @ \cup gone]
      BY <1>3
    <3> HIDE DEF gone
    <3> QED
      BY <3>1, <3>2, <3>3
  <2>3. \A c \in Client : (c \in S!Attached)' <=> \E i \in S!ClientId : s_client_map'[i] = c
    BY <1>1, <1>2 DEF SocketTypes, S!Attached
  <2> QED
    BY <1>1, <1>2, <1>4, <2>1, <2>2, <2>3 DEF SocketTypes
<1>13. IdsInv'
  BY <1>2 DEF IdsInv
<1>14. \A c \in Client : s_task[c] = "out" => s_trimmed'[c] = s_trimmed[c]
  <2> SUFFICES ASSUME NEW c \in Client, s_task[c] = "out" PROVE s_trimmed'[c] = s_trimmed[c]
    OBVIOUS
  <2>1. s_client_map[x] # c
    BY <1>1, <1>5 DEF SocketTypes, S!Attached
  <2> QED
    BY <1>1, <1>3, <2>1 DEF SocketTypes
<1>15. TasksInv'
  BY <1>2, <1>14 DEF TasksInv
<1>16. \A i \in S!ClientId : \A n \in S!Calls(i)' :
         n + 1 \in S!Calls(i) /\ s_scheduled'[n] = s_scheduled[n + 1] /\ n \in Nat /\ n + 1 # 1
  <2> SUFFICES ASSUME NEW i \in S!ClientId, NEW n \in S!Calls(i)'
               PROVE  n + 1 \in S!Calls(i) /\ s_scheduled'[n] = s_scheduled[n + 1]
                      /\ n \in Nat /\ n + 1 # 1
    OBVIOUS
  <2>1. n \in DOMAIN s_scheduled' /\ s_scheduled'[n].id = i
    BY DEF S!Calls
  <2>2. n + 1 \in DOMAIN s_scheduled /\ s_scheduled'[n] = s_scheduled[n + 1] /\ n \in Nat
    BY <1>4, <1>8, <2>1
  <2>3. n + 1 # 1
    <3>1. n >= 1
      BY <1>4, <2>1, LenProperties
    <3> QED
      BY <2>2, <3>1
  <2> QED
    BY <2>1, <2>2, <2>3 DEF S!Calls
<1>17. CallsInv'
  <2> SUFFICES ASSUME NEW i \in S!ClientId, NEW m \in S!Calls(i)', NEW n \in S!Calls(i)', m < n
               PROVE  s_scheduled'[m].record < s_scheduled'[n].record
    BY DEF CallsInv
  <2>1. m + 1 \in S!Calls(i) /\ n + 1 \in S!Calls(i) /\ m + 1 < n + 1
    BY <1>16
  <2> QED
    BY <1>16, <2>1 DEF CallsInv
<1>18. \A i \in S!ClientId : \A n \in S!Calls(i) :
         n = 1 \/ (n - 1 \in S!Calls(i)' /\ s_scheduled'[n - 1] = s_scheduled[n])
  BY <1>4 DEF S!Calls
<1>19. \A i \in S!ClientId : i # x => CallsFor(i)' = CallsFor(i)
  <2> SUFFICES ASSUME NEW i \in S!ClientId, i # x PROVE CallsFor(i)' = CallsFor(i)
    OBVIOUS
  <2>1. 1 \notin S!Calls(i)
    BY <1>6 DEF S!Calls
  <2>2. CallsFor(i)' = {s_scheduled'[n].record : n \in S!Calls(i)'}
    BY DEF CallsFor
  <2>3. CallsFor(i)' \subseteq CallsFor(i)
    BY <1>16, <2>2 DEF CallsFor
  <2>4. CallsFor(i) \subseteq CallsFor(i)'
    BY <1>18, <2>1, <2>2 DEF CallsFor
  <2> QED
    BY <2>3, <2>4
<1>20. r \in CallsFor(x) /\ \A n \in S!Calls(x) : n = 1 \/ r < s_scheduled[n].record
  <2>1. 1 \in S!Calls(x)
    BY <1>4, <1>6 DEF S!Calls
  <2>2. \A n \in S!Calls(x) : n = 1 \/ 1 < n
    BY <1>7 DEF S!Calls
  <2> QED
    BY <1>5, <1>6, <2>1, <2>2 DEF CallsFor, CallsInv
<1>21. \A s \in CallsFor(x) \ {r} : r < s
  BY <1>6, <1>20 DEF CallsFor
<1>22. \A i \in S!ClientId : i = x => CallsFor(i)' = CallsFor(i) \ {r}
  <2> SUFFICES ASSUME NEW i \in S!ClientId, i = x PROVE CallsFor(i)' = CallsFor(i) \ {r}
    OBVIOUS
  <2>1. CallsFor(i)' = {s_scheduled'[n].record : n \in S!Calls(i)'}
    BY DEF CallsFor
  <2>2. \A n \in S!Calls(i)' : s_scheduled'[n].record \in CallsFor(i) \ {r}
    <3> SUFFICES ASSUME NEW n \in S!Calls(i)' PROVE s_scheduled'[n].record \in CallsFor(i) \ {r}
      OBVIOUS
    <3>1. n + 1 \in S!Calls(i) /\ s_scheduled'[n] = s_scheduled[n + 1] /\ n + 1 # 1
      BY <1>16
    <3>2. r < s_scheduled[n + 1].record /\ s_scheduled[n + 1].record \in CallsFor(i)
      BY <1>20, <3>1 DEF CallsFor
    <3>3. r # s_scheduled[n + 1].record
      BY <1>1, <1>5, <3>2, FlowTyped
    <3> QED
      BY <3>1, <3>2, <3>3
  <2>3. CallsFor(i) \ {r} \subseteq CallsFor(i)'
    BY <1>6, <1>18, <2>1 DEF CallsFor
  <2> QED
    BY <2>1, <2>2, <2>3
<1>23. FlowInv'
  <2> SUFFICES ASSUME NEW c \in Client, NEW i \in S!ClientId, s_client_map[i] = c, S!Served(c)
               PROVE  FlowOf(c, i)'
    BY <1>2 DEF FlowInv, S!Served
  <2>1. FlowOf(c, i)
    BY DEF FlowInv
  <2>2. UNCHANGED <<s_since, s_sent, s_written>> /\ Hand(c)' = Hand(c)
    BY <1>2 DEF Hand
  <2>3. CASE i = x
    <3> DEFINE kept == S!Trimmed(Append(s_send_queue[i], r))
    <3>1. x \notin S!Free /\ s_client_map[x] = c
      BY <2>3, SocketConstants DEF S!Free
    <3>2. s_send_queue'[i] = kept
      BY <1>1, <1>3, <2>3, <3>1 DEF SocketTypes, queue
    <3>3. s_trimmed'[c] = s_trimmed[c] \cup (ToSet(Append(s_send_queue[i], r)) \ ToSet(kept))
      BY <1>1, <1>3, <2>3, <3>1 DEF SocketTypes, queue
    <3>4. r \in CallsFor(i) /\ \A s \in CallsFor(i) \ {r} : r < s
      BY <1>20, <1>21, <2>3
    <3>5. /\ s_written \in Nat /\ s_since[c] \in Nat
          /\ s_sent[c] \in Seq(1..s_written) /\ s_send_queue[i] \in Seq(1..s_written)
          /\ Hand(c) \in SUBSET (1..s_written) /\ CallsFor(i) \in SUBSET (1..s_written)
          /\ s_trimmed[c] \in SUBSET (1..s_written)
      BY <1>1, FlowTyped
    <3>6. Flow(s_since[c], s_written, s_sent[c], Hand(c), kept, CallsFor(i) \ {r},
               s_trimmed[c] \cup (ToSet(Append(s_send_queue[i], r)) \ ToSet(kept)))
      BY <2>1, <3>4, <3>5, FlowQueued, SocketConstants DEF FlowOf
    <3>7. CallsFor(i)' = CallsFor(i) \ {r}
      BY <1>22, <2>3
    <3> HIDE DEF kept
    <3> QED
      BY <2>2, <3>2, <3>3, <3>6, <3>7 DEF FlowOf
  <2>4. CASE i # x
    <3>1. s_client_map[x] # c
      BY <1>1, <1>5, <2>4, SocketConstants DEF IdsInv
    <3>2. s_send_queue'[i] = s_send_queue[i] /\ s_trimmed'[c] = s_trimmed[c]
      BY <1>1, <1>3, <2>4, <3>1 DEF SocketTypes
    <3> QED
      BY <1>19, <2>1, <2>2, <2>4, <3>2 DEF FlowOf
  <2> QED
    BY <2>3, <2>4
<1> QED
  BY <1>12, <1>13, <1>15, <1>17, <1>23, TypesAreTypesNext

LEMMA SocketSteps == SocketInv /\ [S!Next]_svars => SocketInv'
<1> SUFFICES ASSUME SocketInv, [S!Next]_svars PROVE SocketInv'
  OBVIOUS
<1>1. CASE S!Write
  BY <1>1, WriteKeepsFlow
<1>2. CASE S!PutAndTrim
  BY <1>2, PutAndTrimHolds
<1>3. ASSUME NEW c \in Client, S!Attach(c) PROVE SocketInv'
  BY <1>3, AttachHolds
<1>4. ASSUME NEW c \in Client, S!Serves(c) PROVE SocketInv'
  BY <1>4, GetHolds, SendHolds, SendFailsHolds, DetachHolds DEF S!Serves
<1>5. ASSUME NEW c \in Client, S!Closes(c) PROVE SocketInv'
  <2>1. s_open' \in [Client -> BOOLEAN]
    BY <1>5 DEF S!Closes, SocketInv, S!TypeOK
  <2> QED
    BY <1>5, <2>1, ClosesHolds DEF S!Closes
<1>6. CASE UNCHANGED svars
  <2>1. s_open' \in [Client -> BOOLEAN]
    BY <1>6 DEF svars, SocketInv, S!TypeOK
  <2> QED
    BY <1>6, <2>1, ClosesHolds DEF svars
<1>7. CASE S!Quiet
  BY <1>6, <1>7 DEF S!Quiet, S!vars, S!taskVars, svars
<1> QED
  BY <1>1, <1>2, <1>3, <1>4, <1>5, <1>6, <1>7 DEF S!Next

\* What is known of a client is what the properties say of it.
LEMMA SocketKeepsItsWord == SocketInv => SocketSafe
<1> SUFFICES ASSUME SocketInv PROVE SocketSafe
  OBVIOUS
<1>1. SocketTypes /\ IdsInv /\ CallsInv
  BY TypesAreTypes DEF SocketInv
<1>2. ASSUME NEW c \in Client, S!Served(c)
      PROVE  /\ S!Got(c) = ToSet(s_sent[c]) /\ S!InHand(c) = Hand(c)
             /\ S!Queued(c) = ToSet(s_send_queue[S!IdOf(c)]) /\ S!Called(c) = CallsFor(S!IdOf(c))
             /\ FlowOf(c, S!IdOf(c)) /\ S!IdOf(c) \in S!ClientId
  <2>1. S!IdOf(c) \in S!ClientId /\ s_client_map[S!IdOf(c)] = c
    BY <1>1, <1>2, ServedHasId DEF S!Served
  <2>2. FlowOf(c, S!IdOf(c))
    BY <1>2, <2>1 DEF SocketInv, FlowInv
  <2>3. S!Got(c) = ToSet(s_sent[c]) /\ S!Queued(c) = ToSet(s_send_queue[S!IdOf(c)])
    BY SameOperators DEF S!Got, S!Queued
  <2> QED
    BY <2>1, <2>2, <2>3 DEF S!InHand, Hand, S!Called, CallsFor
<1>3. S!GetsAll
  <2> SUFFICES ASSUME NEW c \in Client, S!Served(c)
               PROVE  /\ (s_since[c] + 1)..s_written
                           \subseteq S!Got(c) \cup S!OnTheWay(c) \cup s_trimmed[c]
                      /\ S!Increasing(s_sent[c]) /\ S!Increasing(s_send_queue[S!IdOf(c)])
                      /\ \A m, n \in S!Calls(S!IdOf(c)) :
                           m < n => s_scheduled[m].record < s_scheduled[n].record
                      /\ S!Before(S!Got(c), S!OnTheWay(c))
                      /\ S!Before(S!InHand(c), S!Queued(c) \cup S!Called(c))
                      /\ S!Before(S!Queued(c), S!Called(c))
    BY DEF S!GetsAll
  <2> HIDE DEF S!IdOf
  <2>1. \A m, n \in S!Calls(S!IdOf(c)) : m < n => s_scheduled[m].record < s_scheduled[n].record
    BY <1>1, <1>2 DEF CallsInv
  <2>2. (s_since[c] + 1)..s_written \subseteq S!Got(c) \cup S!OnTheWay(c) \cup s_trimmed[c]
    BY <1>2 DEF FlowOf, Flow, Known, S!OnTheWay
  <2>3. S!Before(S!Got(c), S!OnTheWay(c))
    BY <1>2 DEF FlowOf, Flow, S!OnTheWay
  <2>4. /\ S!Increasing(s_sent[c]) /\ S!Increasing(s_send_queue[S!IdOf(c)])
        /\ S!Before(S!InHand(c), S!Queued(c) \cup S!Called(c))
        /\ S!Before(S!Queued(c), S!Called(c))
    BY <1>2 DEF FlowOf, Flow
  <2> QED
    BY <2>1, <2>2, <2>3, <2>4
<1>4. S!OldestTrimmed
  <2> SUFFICES ASSUME NEW c \in Client, S!Served(c), NEW r \in s_trimmed[c]
               PROVE  /\ MaxQueueSize > 0
                      /\ Cardinality({s \in S!Got(c) \cup S!OnTheWay(c) \cup s_trimmed[c] : s > r})
                           >= MaxQueueSize
    BY SameOperators DEF S!OldestTrimmed
  <2> DEFINE all == S!Got(c) \cup S!OnTheWay(c) \cup s_trimmed[c]
  <2>1. Known(s_sent[c], Hand(c), s_send_queue[S!IdOf(c)], CallsFor(S!IdOf(c)), s_trimmed[c]) = all
    BY <1>2 DEF Known, S!OnTheWay
  <2> HIDE DEF all
  <2>2. MaxQueueSize > 0 /\ Cardinality(Newer(all, r)) >= MaxQueueSize
    BY <1>2, <2>1 DEF FlowOf, Flow
  <2> QED
    BY <2>2 DEF all, Newer
<1> QED
  BY <1>3, <1>4 DEF SocketSafe, S!SocketSafe, SocketInv

-----------------------------------------------------------------------------
(***************************************************************************)
(* The theorems.                                                           *)
(***************************************************************************)
LEMMA EndsStep ==
  [EndsNext]_allvars => [R!Next]_rvars /\ [W!Next]_wvars /\ [S!Next]_svars
  BY DEF EndsNext, allvars, CachedDataWriterDoes, ReaderDoes, WriterDoes, SocketDoes

LEMMA TimeoutsHold == EndsSpec => [](ReaderInv /\ TimeoutWriterInv)
<1>1. EndsInit => ReaderInv /\ TimeoutWriterInv
  BY ReaderStarts, TimeoutWriterStarts DEF EndsInit
<1>2. (ReaderInv /\ TimeoutWriterInv) /\ [EndsNext]_allvars => (ReaderInv /\ TimeoutWriterInv)'
  BY EndsStep, ReaderSteps, TimeoutWriterSteps
<1> QED
  BY <1>1, <1>2, PTL DEF EndsSpec

\* The messages that TimeoutWriter has its client writer write take turns,
\* and the first of a silence is written in time, whatever the threads do
\* while the other has the client writer; every variable of TimeoutReader
\* and TimeoutWriter has its type.
THEOREM TimeoutsAreTold == EndsSpec => []TimeoutsTold
<1>1. ReaderInv /\ TimeoutWriterInv => TimeoutsTold
  BY TellsInTime DEF TimeoutsTold, ReaderInv, TimeoutWriterInv
<1> QED
  BY <1>1, TimeoutsHold, PTL

\* TimeoutReader's read() returns its timeout message only after a silence
\* of that length, and None only in the place of the message that records
\* have come again or after quit(), whatever its thread does meanwhile.
THEOREM ReadDoesTellTruth == EndsSpec => ReadTellsTruth
<1>1. ReaderInv /\ [EndsNext]_allvars => [R!TellsOfSilence /\ R!GivesNoneAtResume]_rvars
  BY EndsStep, ReaderSteps
<1> QED
  BY <1>1, TimeoutsHold, PTL DEF EndsSpec, ReadTellsTruth

\* Each client of WebsocketWriter is sent all that is written from the time
\* it has attached on, once and in order, but for the oldest of a full
\* queue, whoever else comes, goes, is slow or had its id before.
THEOREM EachClientGetsAll == EndsSpec => []SocketSafe
<1>1. EndsInit => SocketInv
  BY SocketStarts DEF EndsInit
<1>2. SocketInv /\ [EndsNext]_allvars => SocketInv'
  BY EndsStep, SocketSteps
<1> QED
  BY <1>1, <1>2, SocketKeepsItsWord, PTL DEF EndsSpec

-----------------------------------------------------------------------------
(***************************************************************************)
(* CachedDataWriter, by itself, for every length of the queue, every       *)
(* number of records and of broken connections.                            *)
(***************************************************************************)
\* The records that write() is done with; the one that it is at comes after
\* them.
Done == IF writer = "idle" THEN written ELSE written - 1

\* The steps of write(), the queue and what was thrown away.
QueueInv ==
  /\ writer # "idle" => written > 0
  /\ writer = "putting" => ~Full
  /\ writer = "dropping" => MaxBackup > 0
  /\ Increasing(send_queue)
  /\ \A i \in DOMAIN send_queue : send_queue[i] <= Done
  /\ \A r \in dropped : r <= Done /\ \A i \in DOMAIN send_queue : r < send_queue[i]

\* The record on its way and what the server has.
LinkInv ==
  /\ sender = "connecting" => link = "down"
  /\ link \in {"request", "response"} => sender = "awaiting"
  /\ Increasing(cached)
  /\ \A i \in DOMAIN cached : cached[i] <= Done
  /\ \A i \in DOMAIN cached, j \in DOMAIN send_queue : cached[i] < send_queue[j]
  /\ record # NONE =>
       /\ record <= Done
       /\ \A i \in DOMAIN cached : cached[i] <= record
       /\ \A j \in DOMAIN send_queue : record < send_queue[j]
  /\ sender = "sending" \/ link = "request" => record \notin ToSet(cached)
  /\ link = "response" => record \in ToSet(cached)

IInv == TypeOK /\ QueueInv /\ LinkInv

-----------------------------------------------------------------------------
(***************************************************************************)
(* Sequences.                                                              *)
(***************************************************************************)
LEMMA TailKeeps ==
  ASSUME NEW s \in Seq(Records), s # <<>>
  PROVE  /\ Tail(s) \in Seq(Records) /\ Head(s) \in Records
         /\ Head(s) = s[1] /\ 1 \in DOMAIN s
         /\ Len(Tail(s)) = Len(s) - 1
         /\ \A i \in DOMAIN Tail(s) : i + 1 \in DOMAIN s /\ Tail(s)[i] = s[i + 1]
  BY HeadTailProperties

LEMMA AppendKeeps ==
  ASSUME NEW s \in Seq(Records), NEW r \in Records
  PROVE  /\ Append(s, r) \in Seq(Records)
         /\ DOMAIN Append(s, r) = DOMAIN s \cup {Len(s) + 1}
         /\ Len(s) + 1 \notin DOMAIN s
         /\ \A i \in DOMAIN s : Append(s, r)[i] = s[i] /\ i < Len(s) + 1
         /\ Append(s, r)[Len(s) + 1] = r
  BY AppendProperties

\* What is increasing stays so without its first element, and with a greater
\* one at its end.
LEMMA TailIncreases ==
  ASSUME NEW s \in Seq(Records), s # <<>>, Increasing(s)
  PROVE  Increasing(Tail(s)) /\ \A i \in DOMAIN Tail(s) : Head(s) < Tail(s)[i]
  BY TailKeeps DEF Increasing

LEMMA AppendIncreases ==
  ASSUME NEW s \in Seq(Records), NEW r \in Records, Increasing(s),
         \A i \in DOMAIN s : s[i] < r
  PROVE  Increasing(Append(s, r))
  BY AppendKeeps DEF Increasing

LEMMA ConcatIncreases ==
  ASSUME NEW s \in Seq(Records), NEW t \in Seq(Records), Increasing(s), Increasing(t),
         \A i \in DOMAIN s, j \in DOMAIN t : s[i] < t[j]
  PROVE  s \o t \in Seq(Records) /\ Increasing(s \o t)
<1>1. s \o t \in Seq(Records)
  BY ConcatProperties
<1>2. ASSUME NEW i \in DOMAIN (s \o t), NEW j \in DOMAIN (s \o t), i < j
      PROVE  (s \o t)[i] < (s \o t)[j]
  <2>1. /\ i \in Nat /\ j \in Nat /\ i >= 1 /\ j <= Len(s) + Len(t)
        /\ Len(s) \in Nat /\ Len(t) \in Nat
        /\ (s \o t)[i] = IF i <= Len(s) THEN s[i] ELSE t[i - Len(s)]
        /\ (s \o t)[j] = IF j <= Len(s) THEN s[j] ELSE t[j - Len(s)]
    BY ConcatProperties
  <2>2. CASE j <= Len(s)
    BY <1>2, <2>1, <2>2 DEF Increasing
  <2>3. CASE i > Len(s)
    BY <1>2, <2>1, <2>3 DEF Increasing
  <2>4. CASE i <= Len(s) /\ j > Len(s)
    BY <1>2, <2>1, <2>4
  <2>5. QED
    BY <2>1, <2>2, <2>3, <2>4
<1>3. QED
  BY <1>1, <1>2 DEF Increasing

USE WriterAssumption

-----------------------------------------------------------------------------
(***************************************************************************)
(* The inductive invariant.                                                *)
(***************************************************************************)
LEMMA InitHolds == Init => IInv
BY DEF Init, IInv, TypeOK, QueueInv, LinkInv, Increasing, Records, Done

LEMMA WriteHolds ==
  ASSUME IInv, Write \/ TestFull
  PROVE  IInv'
<1>1. UNCHANGED <<send_queue, sender, record, link, breaks, cached, dropped>>
  BY DEF Write, TestFull, senderVars, linkVars
<1>2. TypeOK'
  BY <1>1 DEF IInv, TypeOK, Write, TestFull
<1>3. CASE Write
  <2>1. writer = "idle" /\ writer' = "testing" /\ written' = written + 1 /\ written \in Nat
    BY <1>3 DEF Write, IInv, TypeOK
  <2>2. Done' = Done
    BY <2>1 DEF Done
  <2>3. QueueInv' /\ LinkInv'
    BY <1>1, <2>1, <2>2 DEF IInv, QueueInv, LinkInv, Increasing, ToSet
  <2>4. QED
    BY <1>2, <2>3 DEF IInv
<1>4. CASE TestFull
  <2>1. /\ writer = "testing" /\ UNCHANGED written
        /\ writer' = IF Full THEN "dropping" ELSE "putting"
    BY <1>4 DEF TestFull
  <2>2. Done' = Done /\ Full' = Full /\ (Full => MaxBackup > 0)
    BY <1>1, <2>1 DEF Done, Full
  <2>3. QueueInv' /\ LinkInv'
    BY <1>1, <2>1, <2>2 DEF IInv, QueueInv, LinkInv, Increasing, ToSet
  <2>4. QED
    BY <1>2, <2>3 DEF IInv
<1>5. QED
  BY <1>3, <1>4

LEMMA DropHolds ==
  ASSUME IInv, DropOldest
  PROVE  IInv'
<1>1. CASE send_queue = <<>>
  BY <1>1 DEF IInv, TypeOK, QueueInv, LinkInv, Increasing, Records, Done, DropOldest, Full,
              senderVars, linkVars, ToSet
<1>2. CASE send_queue # <<>>
  <2>1. /\ send_queue' = Tail(send_queue) /\ dropped' = dropped \cup {Head(send_queue)}
        /\ writer = "dropping" /\ writer' = "testing"
        /\ UNCHANGED <<written, sender, record, link, breaks, cached>>
    BY <1>2 DEF DropOldest, senderVars, linkVars
  <2>2. send_queue \in Seq(Records) /\ Increasing(send_queue)
    BY DEF IInv, TypeOK, QueueInv
  <2>3. TypeOK'
    BY <1>2, <2>1, <2>2, TailKeeps DEF IInv, TypeOK
  <2>4. QueueInv'
    <3>1. Increasing(send_queue') /\ \A i \in DOMAIN send_queue' : Head(send_queue) < send_queue'[i]
      BY <1>2, <2>1, <2>2, TailIncreases
    <3>2. QED
      BY <1>2, <2>1, <2>2, <3>1, TailKeeps DEF IInv, TypeOK, QueueInv, Done, Full, Records
  <2>5. LinkInv'
    BY <1>2, <2>1, <2>2, TailKeeps DEF IInv, TypeOK, LinkInv, Done, Increasing, ToSet
  <2>6. QED
    BY <2>3, <2>4, <2>5 DEF IInv
<1>3. QED
  BY <1>1, <1>2

\* There is always room when the record is put.
LEMMA PutHolds ==
  ASSUME IInv, Put
  PROVE  IInv' /\ send_queue' = Append(send_queue, written)
<1>1. /\ send_queue' = Append(send_queue, written)
      /\ writer = "putting" /\ writer' = "idle"
      /\ UNCHANGED <<written, sender, record, link, breaks, cached, dropped>>
  BY DEF IInv, QueueInv, Put, senderVars, linkVars
<1>2. /\ send_queue \in Seq(Records) /\ Increasing(send_queue) /\ written \in Records
      /\ \A i \in DOMAIN send_queue : send_queue[i] < written
  BY <1>1 DEF IInv, TypeOK, QueueInv, Done, Records
<1>3. TypeOK'
  BY <1>1, <1>2, AppendKeeps DEF IInv, TypeOK
<1>4. QueueInv'
  <2>1. Increasing(send_queue')
    BY <1>1, <1>2, AppendIncreases
  <2>2. QED
    BY <1>1, <1>2, <2>1, AppendKeeps DEF IInv, TypeOK, QueueInv, Done, Records
<1>5. LinkInv'
  BY SMTT(30), <1>1, <1>2, AppendKeeps DEF IInv, TypeOK, LinkInv, Done, Increasing, ToSet, Records
<1>6. QED
  BY <1>1, <1>3, <1>4, <1>5 DEF IInv

LEMMA TakeHolds ==
  ASSUME IInv, Take
  PROVE  IInv'
<1>1. /\ record' = Head(send_queue) /\ send_queue' = Tail(send_queue) /\ send_queue # <<>>
      /\ sender = "taking" /\ sender' \in {"dead", "sending"}
      /\ UNCHANGED <<writer, written, link, breaks, cached, dropped>>
  BY DEF Take, writerVars, linkVars
<1>2. send_queue \in Seq(Records) /\ Increasing(send_queue)
  BY DEF IInv, TypeOK, QueueInv
<1>3. Head(send_queue) \in Records /\ Head(send_queue) = send_queue[1] /\ 1 \in DOMAIN send_queue
  BY <1>1, <1>2, TailKeeps
<1>4. TypeOK'
  BY <1>1, <1>2, <1>3, TailKeeps DEF IInv, TypeOK
<1>5. Increasing(send_queue') /\ \A i \in DOMAIN send_queue' : Head(send_queue) < send_queue'[i]
  BY <1>1, <1>2, TailIncreases
<1>6. QueueInv'
  BY <1>1, <1>2, <1>5, TailKeeps DEF IInv, TypeOK, QueueInv, Done, Full
<1>7. LinkInv'
  BY SMTT(30), <1>1, <1>2, <1>3, <1>5, TailKeeps
  DEF IInv, TypeOK, LinkInv, QueueInv, Done, Increasing, ToSet, Records
<1>8. QED
  BY <1>4, <1>6, <1>7 DEF IInv

LEMMA SendingHolds ==
  ASSUME IInv, Connect \/ Pause \/ Send \/ Receive \/ SeeClosed \/ Break
  PROVE  IInv'
<1>1. UNCHANGED <<send_queue, writer, written, cached, dropped>>
  BY DEF Connect, Pause, Send, Receive, SeeClosed, Break, vars, writerVars, senderVars, linkVars
<1>2. Done' = Done /\ Full' = Full
  BY <1>1 DEF Done, Full
<1>3. TypeOK'
  BY <1>1 DEF IInv, TypeOK, LinkInv, Connect, Pause, Send, Receive, SeeClosed, Break, vars,
              senderVars, linkVars
<1>4. QueueInv'
  BY <1>1, <1>2 DEF IInv, QueueInv, Increasing
<1>5. LinkInv'
  <2>1. record' \in {record, NONE}
    BY DEF Connect, Pause, Send, Receive, SeeClosed, Break, vars, senderVars
  <2>2. /\ sender' = "connecting" => link' = "down"
        /\ link' \in {"request", "response"} => sender' = "awaiting"
        /\ sender' = "sending" \/ link' = "request" =>
             record' = record /\ (sender = "sending" \/ link = "request")
        /\ link' = "response" => link = "response" /\ record' = record
    BY DEF IInv, TypeOK, LinkInv, Connect, Pause, Send, Receive, SeeClosed, Break, vars,
           senderVars, linkVars
  <2>3. QED
    BY <1>1, <1>2, <2>1, <2>2 DEF IInv, LinkInv, Increasing, ToSet
<1>6. QED
  BY <1>3, <1>4, <1>5 DEF IInv

LEMMA PublishHolds ==
  ASSUME IInv, Publish
  PROVE  IInv'
<1>1. /\ cached' = Append(cached, record) /\ link = "request" /\ link' = "response"
      /\ UNCHANGED <<send_queue, writer, written, sender, record, breaks, dropped>>
  BY DEF Publish, writerVars, senderVars
<1>2. /\ cached \in Seq(Records) /\ Increasing(cached) /\ sender = "awaiting"
      /\ record \in Records /\ record # NONE
  BY <1>1 DEF IInv, TypeOK, LinkInv
<1>3. \A i \in DOMAIN cached : cached[i] < record
  BY <1>1, <1>2, ElementOfSeq DEF IInv, LinkInv, ToSet, Records
<1>4. TypeOK'
  BY <1>1, <1>2, AppendKeeps DEF IInv, TypeOK
<1>5. QueueInv'
  BY <1>1 DEF IInv, QueueInv, Done, Full
<1>6. Increasing(cached')
  BY <1>1, <1>2, <1>3, AppendIncreases
<1>7. LinkInv'
  BY <1>1, <1>2, <1>3, <1>6, AppendKeeps DEF IInv, LinkInv, Done, Records, ToSet
<1>8. QED
  BY <1>4, <1>5, <1>7 DEF IInv

LEMMA NextHolds == IInv /\ [Next]_vars => IInv'
<1> SUFFICES ASSUME IInv, [Next]_vars
             PROVE  IInv'
  OBVIOUS
<1>1. CASE Write \/ TestFull
  BY <1>1, WriteHolds
<1>2. CASE DropOldest
  BY <1>2, DropHolds
<1>3. CASE Put
  BY <1>3, PutHolds
<1>4. CASE Take
  BY <1>4, TakeHolds
<1>5. CASE Connect \/ Pause \/ Send \/ Receive \/ SeeClosed \/ Break
  BY <1>5, SendingHolds
<1>6. CASE Publish
  BY <1>6, PublishHolds
<1>7. CASE UNCHANGED vars
  BY <1>7 DEF IInv, TypeOK, QueueInv, LinkInv, Increasing, Done, Full, vars, writerVars,
              senderVars, linkVars, ToSet
<1>8. QED
  BY <1>1, <1>2, <1>3, <1>4, <1>5, <1>6, <1>7 DEF Next, Writing, Sending

LEMMA InvHolds == Spec => []IInv
<1>1. QED
  BY InitHolds, NextHolds, PTL DEF Spec

-----------------------------------------------------------------------------
(***************************************************************************)
(* What follows from it.                                                   *)
(***************************************************************************)
\* The variables of CachedDataWriter keep their types.
THEOREM TypeCorrect == Spec => []TypeOK
<1>1. IInv => TypeOK
  BY DEF IInv
<1>2. QED
  BY <1>1, InvHolds, PTL

\* What write() throws away for want of room is older than all it keeps.
THEOREM OldestGoHolds == Spec => []OldestGo
<1>1. IInv => OldestGo
  BY DEF IInv, QueueInv, OldestGo, ToSet
<1>2. QED
  BY <1>1, InvHolds, PTL

\* The server has no record twice, and none out of order, whatever breaks.
THEOREM InOrderOnceHolds == Spec => []InOrderOnce
<1>1. ASSUME IInv
      PROVE  InOrderOnce
  <2>1. /\ cached \in Seq(Records) /\ send_queue \in Seq(Records)
        /\ Increasing(cached) /\ Increasing(send_queue)
        /\ \A i \in DOMAIN cached, j \in DOMAIN send_queue : cached[i] < send_queue[j]
    BY <1>1 DEF IInv, TypeOK, QueueInv, LinkInv
  <2>2. CASE record \in ToSet(cached) \cup {NONE}
    <3>1. cached \o OnTheWay \o send_queue = cached \o send_queue
      BY <2>1, <2>2, ConcatEmptySeq DEF OnTheWay
    <3>2. QED
      BY <2>1, <3>1, ConcatIncreases DEF InOrderOnce
  <2>3. CASE record \notin ToSet(cached) \cup {NONE}
    <3>1. record \in Records /\ OnTheWay = <<record>>
      BY <1>1, <2>3 DEF IInv, TypeOK, OnTheWay
    <3>2. \A i \in DOMAIN cached : cached[i] < record
      BY <1>1, <2>1, <2>3, <3>1, ElementOfSeq DEF IInv, LinkInv, ToSet, Records
    <3>3. cached \o OnTheWay = Append(cached, record)
      BY <2>1, <3>1, AppendIsConcat
    <3>4. Append(cached, record) \in Seq(Records) /\ Increasing(Append(cached, record))
      BY <2>1, <3>1, <3>2, AppendKeeps, AppendIncreases
    <3>5. \A i \in DOMAIN Append(cached, record), j \in DOMAIN send_queue :
            Append(cached, record)[i] < send_queue[j]
      BY <1>1, <2>1, <2>3, <3>1, AppendKeeps DEF IInv, LinkInv
    <3>6. QED
      BY <2>1, <3>3, <3>4, <3>5, ConcatIncreases DEF InOrderOnce
  <2>4. QED
    BY <2>2, <2>3
<1>2. QED
  BY <1>1, InvHolds, PTL
-----------------------------------------------------------------------------
(***************************************************************************)
(* The refinement.                                                         *)
(***************************************************************************)
\* What one step does to the channel's variables.
LEMMA PendingTypes ==
  ASSUME IInv
  PROVE  /\ Pending \subseteq 1..written
         /\ record # NONE /\ record \notin ToSet(cached) =>
              record \in Pending /\ \A r \in Pending : record <= r
<1>1. \/ OnTheWay = <<>>
      \/ OnTheWay = <<record>> /\ record \in Records /\ record <= Done
  <2>1. CASE record \in ToSet(cached) \cup {NONE}
    BY <2>1, Zenon DEF OnTheWay
  <2>2. CASE record \notin ToSet(cached) \cup {NONE}
    <3>1. OnTheWay = <<record>> /\ record # NONE
      BY <2>2, Zenon DEF OnTheWay
    <3>2. record \in Records /\ record <= Done
      BY <3>1 DEF IInv, TypeOK, LinkInv
    <3>3. QED
      BY <3>1, <3>2
  <2>3. QED
    BY <2>1, <2>2
<1>2. ToSet(send_queue) \subseteq 1..written
  BY ElementOfSeq DEF IInv, TypeOK, QueueInv, Done, ToSet, Records
<1>3. ToSet(OnTheWay) \subseteq 1..written
  BY <1>1 DEF ToSet, IInv, TypeOK, Done, Records
<1>4. writer # "idle" => written \in 1..written
  BY DEF IInv, TypeOK, QueueInv
<1>5. Pending \subseteq 1..written
  BY <1>2, <1>3, <1>4 DEF Pending
<1>6. ASSUME record # NONE, record \notin ToSet(cached)
      PROVE  record \in Pending /\ \A r \in Pending : record <= r
  <2>1. record \in Records /\ record <= Done /\ \A j \in DOMAIN send_queue : record < send_queue[j]
    BY <1>6 DEF IInv, TypeOK, LinkInv
  <2>2. OnTheWay = <<record>> /\ ToSet(OnTheWay) = {record}
    BY <1>6 DEF OnTheWay, ToSet
  <2>3. QED
    BY <2>1, <2>2 DEF Pending, ToSet, IInv, TypeOK, Done, Records
<1>7. QED
  BY <1>5, <1>6

\* What the queue holds, as a set.
LEMMA TailSet ==
  ASSUME NEW s \in Seq(Records), s # <<>>, Increasing(s)
  PROVE  ToSet(Tail(s)) = ToSet(s) \ {Head(s)} /\ Head(s) \in ToSet(s)
<1>1. ToSet(s) = {Head(s)} \cup ToSet(Tail(s))
  <2>1. ASSUME NEW i \in DOMAIN s, i # 1
        PROVE  i - 1 \in DOMAIN Tail(s) /\ Tail(s)[i - 1] = s[i]
    BY <2>1, HeadTailProperties
  <2>2. ASSUME NEW r \in ToSet(s)
        PROVE  r \in {Head(s)} \cup ToSet(Tail(s))
    <3>1. PICK i \in DOMAIN s : r = s[i]
      BY <2>2, Zenon DEF ToSet
    <3>2. CASE i = 1
      BY <3>1, <3>2, TailKeeps
    <3>3. CASE i # 1
      <4>1. i - 1 \in DOMAIN Tail(s) /\ Tail(s)[i - 1] = r
        BY <2>1, <3>1, <3>3
      <4>2. QED
        BY <4>1, Zenon DEF ToSet
    <3>4. QED
      BY <3>2, <3>3
  <2>3. {Head(s)} \cup ToSet(Tail(s)) \subseteq ToSet(s)
    BY TailKeeps DEF ToSet
  <2>4. QED
    BY <2>2, <2>3
<1>2. Head(s) \notin ToSet(Tail(s))
  BY TailKeeps, TailIncreases, ElementOfSeq DEF ToSet, Records
<1>3. QED
  BY <1>1, <1>2

LEMMA AppendSet ==
  ASSUME NEW s \in Seq(Records), NEW r \in Records
  PROVE  ToSet(Append(s, r)) = ToSet(s) \cup {r}
BY AppendKeeps DEF ToSet

LEMMA StepRefines == IInv /\ IInv' /\ [Next]_vars => [Channel!Next]_(Channel!vars)
<1> SUFFICES ASSUME IInv, IInv', [Next]_vars
             PROVE  [Channel!Next]_(Channel!vars)
  OBVIOUS
<1> USE DEF Channel!Next, Channel!vars
<1>0. /\ send_queue \in Seq(Records) /\ Increasing(send_queue) /\ cached \in Seq(Records)
      /\ written \in Nat /\ record \in Records \cup {NONE}
  BY DEF IInv, TypeOK, QueueInv
<1>1. CASE Write
  <2>1. /\ writer = "idle" /\ writer' = "testing" /\ written' = written + 1
        /\ UNCHANGED <<send_queue, record, cached>>
    BY <1>1 DEF Write, senderVars, linkVars
  <2>2. Pending' = Pending \cup {written + 1}
    BY <2>1 DEF Pending, OnTheWay, ToSet
  <2>3. QED
    BY <2>1, <2>2 DEF Channel!Send
<1>2. CASE TestFull \/ Connect \/ Pause \/ Send \/ Break
  <2>1. /\ UNCHANGED <<send_queue, written, record, cached>>
        /\ writer = "idle" <=> writer' = "idle"
    BY <1>2 DEF TestFull, Connect, Pause, Send, Break, vars, writerVars, senderVars, linkVars
  <2>2. QED
    BY <2>1 DEF Pending, OnTheWay, ToSet
<1>3. CASE DropOldest
  <2>1. /\ UNCHANGED <<written, record, cached>> /\ writer # "idle" /\ writer' # "idle"
    BY <1>3 DEF DropOldest, senderVars, linkVars
  <2>2. CASE send_queue = <<>>
    BY <1>3, <2>1, <2>2 DEF DropOldest, Pending, OnTheWay, ToSet
  <2>3. CASE send_queue # <<>>
    <3>1. send_queue' = Tail(send_queue)
      BY <1>3, <2>3 DEF DropOldest
    <3>2. /\ ToSet(send_queue') = ToSet(send_queue) \ {Head(send_queue)}
          /\ Head(send_queue) \in ToSet(send_queue)
      BY <1>0, <2>3, <3>1, TailSet
    <3>3. Head(send_queue) <= Done /\ Head(send_queue) # written
      BY <1>0, <2>1, <2>3, TailKeeps DEF IInv, QueueInv, Done, Records
    <3>4. Head(send_queue) \notin ToSet(OnTheWay)
      BY <1>0, <2>3, TailKeeps DEF IInv, LinkInv, OnTheWay, ToSet, Records
    <3>5. Pending' = Pending \ {Head(send_queue)} /\ Head(send_queue) \in Pending
      BY <2>1, <3>2, <3>3, <3>4 DEF Pending, OnTheWay, ToSet
    <3>6. QED
      BY <2>1, <3>5 DEF Channel!GiveUp
  <2>4. QED
    BY <2>2, <2>3
<1>4. CASE Put
  <2>1. /\ send_queue' = Append(send_queue, written) /\ UNCHANGED <<written, record, cached>>
        /\ writer # "idle" /\ writer' = "idle" /\ written \in Records
    BY <1>4, PutHolds DEF Put, senderVars, linkVars, IInv, TypeOK, QueueInv, Records
  <2>2. ToSet(send_queue') = ToSet(send_queue) \cup {written}
    BY <1>0, <2>1, AppendSet
  <2>3. Pending' = Pending
    BY <2>1, <2>2 DEF Pending, OnTheWay, ToSet
  <2>4. QED
    BY <2>1, <2>3
<1>5. CASE Take
  <2>1. /\ record' = Head(send_queue) /\ send_queue' = Tail(send_queue) /\ send_queue # <<>>
        /\ record = NONE /\ UNCHANGED <<writer, written, cached>>
    BY <1>5 DEF Take, writerVars, linkVars, IInv, TypeOK
  <2>2. /\ ToSet(send_queue') = ToSet(send_queue) \ {Head(send_queue)}
        /\ Head(send_queue) \in ToSet(send_queue)
    BY <1>0, <2>1, TailSet
  <2>3. Head(send_queue) \notin ToSet(cached) /\ Head(send_queue) # NONE
    BY <1>0, <2>1, TailKeeps, ElementOfSeq DEF IInv, LinkInv, ToSet, Records
  <2>4. ToSet(OnTheWay) = {} /\ ToSet(OnTheWay)' = {Head(send_queue)}
    BY <2>1, <2>3 DEF OnTheWay, ToSet
  <2>5. Pending' = Pending
    BY <2>1, <2>2, <2>4 DEF Pending
  <2>6. QED
    BY <2>1, <2>5
<1>6. CASE Receive \/ SeeClosed
  <2>1. /\ UNCHANGED <<send_queue, writer, written, cached>> /\ record # NONE /\ record' = NONE
        /\ Receive => link = "response"
    BY <1>6 DEF Receive, SeeClosed, writerVars, linkVars, IInv, TypeOK
  <2>2. ToSet(OnTheWay)' = {}
    BY <2>1 DEF OnTheWay, ToSet
  <2>3. CASE record \in ToSet(cached)
    <3>1. ToSet(OnTheWay) = {}
      BY <2>3 DEF OnTheWay, ToSet
    <3>2. QED
      BY <2>1, <2>2, <3>1 DEF Pending, ToSet
  <2>4. CASE record \notin ToSet(cached)
    <3>1. ToSet(OnTheWay) = {record}
      BY <2>1, <2>4 DEF OnTheWay, ToSet
    <3>2. record \in Pending /\ record <= Done /\ record \notin ToSet(send_queue)
      BY <1>0, <2>1, <2>4, PendingTypes, ElementOfSeq DEF IInv, LinkInv, ToSet, Records
    <3>3. writer # "idle" => record # written
      BY <1>0, <3>2, <2>1 DEF Done, Records
    <3>4. Pending' = Pending \ {record}
      BY <2>1, <2>2, <3>1, <3>2, <3>3 DEF Pending, ToSet
    <3>5. QED
      BY <2>1, <3>2, <3>4 DEF Channel!GiveUp
  <2>5. QED
    BY <2>3, <2>4
<1>7. CASE Publish
  <2>1. /\ cached' = Append(cached, record) /\ link = "request" /\ record \in Records
        /\ UNCHANGED <<send_queue, writer, written, record>>
        /\ record # NONE /\ record \notin ToSet(cached)
    BY <1>7 DEF Publish, writerVars, senderVars, IInv, TypeOK, LinkInv
  <2>2. record \in Pending /\ \A r \in Pending : record <= r
    BY <2>1, PendingTypes
  <2>3. ToSet(OnTheWay) = {record}
    BY <2>1 DEF OnTheWay, ToSet
  <2>4. ToSet(cached)' = ToSet(cached) \cup {record}
    BY <1>0, <2>1, AppendSet
  <2>5. ToSet(OnTheWay)' = {}
    BY <2>1, <2>4 DEF OnTheWay, ToSet
  <2>6. record \notin ToSet(send_queue) /\ record <= Done
    BY <1>0, <2>1, ElementOfSeq DEF IInv, LinkInv, ToSet, Records
  <2>7. writer # "idle" => record # written
    BY <1>0, <2>1, <2>6 DEF Done, Records
  <2>8. Pending' = Pending \ {record}
    BY <2>1, <2>3, <2>5, <2>6, <2>7 DEF Pending, ToSet
  <2>9. QED
    BY <2>1, <2>2, <2>8 DEF Channel!Deliver
<1>8. CASE UNCHANGED vars
  BY <1>8 DEF vars, writerVars, senderVars, linkVars, Pending, OnTheWay, ToSet
<1>9. QED
  BY <1>1, <1>2, <1>3, <1>4, <1>5, <1>6, <1>7, <1>8 DEF Next, Writing, Sending

\* CachedDataWriter implements a channel that delivers in order and at most
\* once, and may lose records.
THEOREM ChannelImplemented == Spec => ChannelRefined
<1>1. Init => Channel!Init
  BY DEF Init, Channel!Init, Pending, OnTheWay, ToSet
<1>2. QED
  BY <1>1, StepRefines, InvHolds, PTL DEF Spec, Channel!Spec, ChannelRefined
-----------------------------------------------------------------------------
(***************************************************************************)
(* What a broken connection costs.                                         *)
(***************************************************************************)
\* A break that the sender has yet to see has cost nothing so far.
Unseen == IF link = "down" /\ sender # "connecting" THEN 1 ELSE 0

LossInv == IsFiniteSet(Lost) /\ Cardinality(Lost) + Unseen <= breaks

\* Fewer records lost, and no more breaks unseen, keep LossInv.
LEMMA FewerLost ==
  ASSUME LossInv, Lost' \subseteq Lost, IInv, IInv', Unseen' + breaks <= Unseen + breaks'
  PROVE  LossInv'
<1>1. IsFiniteSet(Lost') /\ Cardinality(Lost') <= Cardinality(Lost)
  BY FS_Subset DEF LossInv
<1>2. Cardinality(Lost) \in Nat /\ Cardinality(Lost') \in Nat
  BY <1>1, FS_CardinalityType DEF LossInv
<1>3. breaks \in Nat /\ breaks' \in Nat /\ Unseen \in {0, 1} /\ Unseen' \in {0, 1}
  BY DEF Unseen, IInv, TypeOK
<1>4. Cardinality(Lost) + Unseen <= breaks
  BY DEF LossInv
<1>5. ASSUME NEW c \in Nat, NEW d \in Nat, NEW u \in {0, 1}, NEW v \in {0, 1},
             NEW b \in Nat, NEW e \in Nat, d <= c, c + u <= b, v + b <= u + e
      PROVE  d + v <= e
  BY <1>5
<1>6. Cardinality(Lost') + Unseen' <= breaks'
  BY <1>1, <1>2, <1>3, <1>4, <1>5
<1>7. QED
  BY <1>1, <1>6, Zenon DEF LossInv

LEMMA StepLoses ==
  ASSUME IInv, IInv', [Next]_vars, LossInv
  PROVE  LossInv'
<1>0. /\ send_queue \in Seq(Records) /\ Increasing(send_queue) /\ cached \in Seq(Records)
      /\ written \in Nat /\ record \in Records \cup {NONE} /\ breaks \in Nat
  BY DEF IInv, TypeOK, QueueInv
<1>1. CASE Write \/ TestFull \/ Connect \/ Pause \/ Send \/ Break \/ UNCHANGED vars
  <2>1. UNCHANGED <<send_queue, record, cached, dropped>> /\ Accepted' = Accepted
    BY <1>0, <1>1 DEF Write, TestFull, Connect, Pause, Send, Break, vars, writerVars, senderVars,
                      linkVars, Accepted
  <2>2. Lost' = Lost
    BY <2>1 DEF Lost, ToSet
  <2>3. Unseen' + breaks <= Unseen + breaks'
    BY <1>0, <1>1 DEF Write, TestFull, Connect, Pause, Send, Break, vars, writerVars, senderVars,
                      linkVars, Unseen
  <2>4. QED
    BY <2>2, <2>3, FewerLost
<1>2. CASE DropOldest \/ Put \/ Take \/ Publish
  <2>1. UNCHANGED breaks /\ Unseen' = Unseen
    BY <1>2 DEF DropOldest, Put, Take, Publish, writerVars, senderVars, linkVars, Unseen
  <2>2. Lost' \subseteq Lost
    <3>1. CASE DropOldest
      <4>1. /\ UNCHANGED <<written, record, cached>> /\ Accepted' = Accepted
            /\ ToSet(send_queue) \cup dropped \subseteq ToSet(send_queue') \cup dropped'
        BY <1>0, <3>1, TailSet DEF DropOldest, senderVars, linkVars, Accepted
      <4>2. QED
        BY <4>1 DEF Lost, ToSet
    <3>2. CASE Put
      <4>1. /\ UNCHANGED <<record, cached, dropped>> /\ Accepted' \subseteq Accepted \cup {written}
            /\ written \in Records
        BY <1>0, <3>2 DEF Put, senderVars, linkVars, Accepted, IInv, QueueInv, TypeOK, Records
      <4>2. ToSet(send_queue') = ToSet(send_queue) \cup {written}
        BY <1>0, <3>2, <4>1, PutHolds, AppendSet
      <4>3. QED
        BY <4>1, <4>2 DEF Lost, ToSet
    <3>3. CASE Take
      <4>1. /\ UNCHANGED <<writer, written, cached, dropped>> /\ record' = Head(send_queue)
            /\ send_queue' = Tail(send_queue) /\ send_queue # <<>> /\ record = NONE
        BY <3>3 DEF Take, writerVars, linkVars, IInv, TypeOK
      <4>2. ToSet(send_queue) \subseteq ToSet(send_queue') \cup {record'}
        BY <1>0, <4>1, TailSet
      <4>3. NONE \notin Accepted /\ Accepted' = Accepted
        BY <1>0, <4>1 DEF Accepted, IInv, TypeOK, Records
      <4>4. QED
        BY <4>1, <4>2, <4>3 DEF Lost, ToSet
    <3>4. CASE Publish
      <4>1. /\ UNCHANGED <<send_queue, writer, written, record, dropped>>
            /\ cached' = Append(cached, record) /\ record \in Records
        BY <3>4 DEF Publish, writerVars, senderVars, IInv, TypeOK, LinkInv
      <4>2. ToSet(cached) \subseteq ToSet(cached')
        BY <1>0, <4>1, AppendSet
      <4>3. QED
        BY <4>1, <4>2 DEF Lost, Accepted, ToSet
    <3>5. QED
      BY <1>2, <3>1, <3>2, <3>3, <3>4
  <2>3. QED
    BY <1>0, <2>1, <2>2, FewerLost DEF Unseen
<1>3. CASE Receive
  <2>1. /\ UNCHANGED <<send_queue, writer, written, breaks, cached, dropped>>
        /\ record \in ToSet(cached) /\ Unseen' = Unseen
    BY <1>3 DEF Receive, writerVars, IInv, LinkInv, Unseen
  <2>2. Lost' \subseteq Lost
    BY <2>1 DEF Lost, Accepted, ToSet
  <2>3. QED
    BY <1>0, <2>1, <2>2, FewerLost DEF Unseen
<1>4. CASE SeeClosed
  <2>1. /\ UNCHANGED <<send_queue, writer, written, breaks, cached, dropped>>
        /\ Unseen = 1 /\ Unseen' = 0
    BY <1>4 DEF SeeClosed, writerVars, linkVars, Unseen
  <2>2. Lost' \subseteq Lost \cup {record}
    BY <2>1 DEF Lost, Accepted, ToSet
  <2>3. /\ IsFiniteSet(Lost \cup {record})
        /\ Cardinality(Lost \cup {record}) <= Cardinality(Lost) + 1
        /\ Cardinality(Lost) \in Nat /\ Cardinality(Lost \cup {record}) \in Nat
    <3>1. IsFiniteSet(Lost) /\ Cardinality(Lost) \in Nat
      BY FS_CardinalityType DEF LossInv
    <3>2. /\ IsFiniteSet(Lost \cup {record})
          /\ \/ Cardinality(Lost \cup {record}) = Cardinality(Lost)
             \/ Cardinality(Lost \cup {record}) = Cardinality(Lost) + 1
      BY <3>1, FS_AddElement
    <3>3. QED
      BY <3>1, <3>2
  <2>4. /\ IsFiniteSet(Lost') /\ Cardinality(Lost') \in Nat
        /\ Cardinality(Lost') <= Cardinality(Lost \cup {record})
    BY <2>2, <2>3, FS_Subset, FS_CardinalityType
  <2>5. QED
    BY <1>0, <2>1, <2>3, <2>4 DEF LossInv
<1>5. QED
  BY <1>1, <1>2, <1>3, <1>4 DEF Next, Writing, Sending

\* A broken connection costs one record at most, whatever was under way.
THEOREM OneLostPerBreakHolds == Spec => []OneLostPerBreak
<1>1. Init => LossInv
  <2>1. Init => Lost = {}
    BY DEF Init, Lost, Accepted
  <2>2. Init => Unseen = 0 /\ breaks = 0
    BY DEF Init, Unseen
  <2>3. QED
    BY <2>1, <2>2, FS_EmptySet DEF LossInv
<1>2. LossInv /\ IInv => OneLostPerBreak
  BY FS_CardinalityType DEF LossInv, OneLostPerBreak, Unseen, IInv, TypeOK
<1>3. IInv /\ IInv' /\ [Next]_vars /\ LossInv => LossInv'
  BY StepLoses
<1>4. QED
  BY <1>1, <1>2, <1>3, InvHolds, PTL DEF Spec

\* All the safety of the writer, for every queue size and number of breaks.
THEOREM WriterIsSafe == Spec => []WriterSafe
BY TypeCorrect, OldestGoHolds, InOrderOnceHolds, OneLostPerBreakHolds, PTL DEF WriterSafe
=============================================================================
