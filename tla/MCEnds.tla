------------------------------- MODULE MCEnds -------------------------------
(***************************************************************************)
(* Instances of CachedDataWriter, TimeoutReader, TimeoutWriter and         *)
(* WebsocketWriter for TLC: the ends of loggers that run threads of their  *)
(* own.  They share nothing; one run checks them side by side, and in each *)
(* behaviour one is at work while the others have not been started.        *)
(***************************************************************************)
EXTENDS CachedDataWriter

CONSTANTS Timeout, Slow, RecordBound, Client, MaxQueueSize, near, far

VARIABLES
  part,  \* the one at work: "cached_data_writer", "timeout_reader", "timeout_writer"
         \* or "websocket_writer"
  r_keep_reading, r_timed_out, r_age, r_thread, r_caller, r_slept, r_result, r_arrived, r_quiet,
  r_quit,
  w_age, w_timed_out, w_watcher, w_sleep, w_stale, w_write, w_busy, w_told, w_writes,
  w_quit_signaled, w_silence,
  s_client_map, s_send_queue, s_scheduled, s_task, s_record, s_open, s_written, s_sent, s_since,
  s_trimmed

R == INSTANCE TimeoutReader WITH
  keep_reading <- r_keep_reading, timed_out <- r_timed_out, age <- r_age, thread <- r_thread,
  caller <- r_caller, slept <- r_slept, result <- r_result, arrived <- r_arrived, quiet <- r_quiet,
  quit <- r_quit

W == INSTANCE TimeoutWriter WITH
  age <- w_age, timed_out <- w_timed_out, watcher <- w_watcher, sleep <- w_sleep,
  stale <- w_stale, write <- w_write, busy <- w_busy, told <- w_told, writes <- w_writes,
  quit_signaled <- w_quit_signaled, silence <- w_silence

S == INSTANCE WebsocketWriter WITH
  client_map <- s_client_map, send_queue <- s_send_queue, scheduled <- s_scheduled,
  task <- s_task, record <- s_record, open <- s_open, written <- s_written, sent <- s_sent,
  since <- s_since, trimmed <- s_trimmed

rvars == <<r_keep_reading, r_timed_out, r_age, r_thread, r_caller, r_slept, r_result,
           r_arrived, r_quiet, r_quit>>
wvars == <<w_age, w_timed_out, w_watcher, w_sleep, w_stale, w_write, w_busy, w_told, w_writes,
           w_quit_signaled, w_silence>>
svars == <<s_client_map, s_send_queue, s_scheduled, s_task, s_record, s_open, s_written, s_sent,
           s_since, s_trimmed>>
allvars == <<part, vars, rvars, wvars, svars>>

ASSUME EndsAssumption ==
  R!TimeoutAssumption /\ W!TimeoutAssumption /\ S!SocketAssumption

CachedDataWriterDoes(A) ==
  part = "cached_data_writer" /\ A /\ UNCHANGED <<part, rvars, wvars, svars>>
ReaderDoes(A) == part = "timeout_reader" /\ A /\ UNCHANGED <<part, vars, wvars, svars>>
WriterDoes(A) == part = "timeout_writer" /\ A /\ UNCHANGED <<part, vars, rvars, svars>>
SocketDoes(A) == part = "websocket_writer" /\ A /\ UNCHANGED <<part, vars, rvars, wvars>>

EndsInit ==
  /\ part \in {"cached_data_writer", "timeout_reader", "timeout_writer", "websocket_writer"}
  /\ Init /\ R!Init /\ W!Init /\ S!Init

EndsNext ==
  \/ CachedDataWriterDoes(Next) \/ ReaderDoes(R!Next)
  \/ WriterDoes(W!Next) \/ SocketDoes(S!Next)

\* Each with the fairness its own module gives it.
EndsSpec ==
  /\ EndsInit /\ [][EndsNext]_allvars
  /\ WF_allvars(CachedDataWriterDoes(Writing))
  /\ WF_allvars(CachedDataWriterDoes(Sending))
  /\ WF_allvars(CachedDataWriterDoes(Publish))
  /\ WF_allvars(ReaderDoes(R!Reading))
  /\ WF_allvars(ReaderDoes(R!Thread))
  /\ WF_allvars(ReaderDoes(R!Tick))
  /\ WF_allvars(SocketDoes(S!PutAndTrim))
  /\ \A c \in Client : WF_allvars(SocketDoes(S!Serves(c)))

-----------------------------------------------------------------------------
\* The messages of TimeoutWriter take turns and tell of a silence in time,
\* and every variable of the two timeouts has its type.
TimeoutsTold == R!TypeOK /\ W!TypeOK /\ W!Alternate /\ W!SilenceNoticed

\* What TimeoutReader's read() returns is true: a timeout message means that
\* the reader was silent for that long, None that a resume message was due.
ReadTellsTruth == [][R!TellsOfSilence /\ R!GivesNoneAtResume]_rvars

\* And read() returns when the reader it reads from stays silent.
SilentReadReturns == R!SilentReadReturns

\* WebsocketWriter: what becomes of a record, for each client.
SocketSafe == S!SocketSafe

\* What is written is settled in the end, by either of the two writers, and
\* a client that is gone is let go.
EndsSettle == EventuallySettled /\ S!ClientsSettle
=============================================================================
