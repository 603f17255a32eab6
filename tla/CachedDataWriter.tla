-------------------------- MODULE CachedDataWriter --------------------------
(***************************************************************************)
(* logger/writers/cached_data_writer.py: write() puts records into a       *)
(* bounded queue, from the thread of its logger; a thread of its own takes *)
(* them out and publishes them, one at a time, to a CachedDataServer.      *)
(*                                                                         *)
(* A record is the number of the write() it was passed to.  The queue is   *)
(* an asyncio.Queue used from two threads without a lock: the tests and    *)
(* operations of write() are separate steps.                               *)
(***************************************************************************)
EXTENDS Integers, Sequences, FiniteSets, SequencesExt

CONSTANTS
  MaxBackup,    \* max_backup, 0 for no limit
  Unencodable,  \* the records that json.dumps raises TypeError for
  NONE,         \* no record
  WriteBound,   \* bound: records written
  BreakBound    \* bound: connections that break

Records == 1..WriteBound

ASSUME WriterAssumption ==
  /\ MaxBackup \in Nat
  /\ WriteBound \in Nat /\ BreakBound \in Nat
  /\ Unencodable \subseteq Records
  /\ NONE \notin Records

VARIABLES
  send_queue,  \* the queue
  writer,      \* write(): "idle", "testing", "dropping" or "putting"
  written,     \* records passed to write() so far
  sender,      \* the loop: "connecting", "taking", "sending", "awaiting" or "dead"
  record,      \* its record
  link,        \* the connection: "down", "up", "request" or "response" under way
  breaks,      \* connections that broke so far
  cached,      \* what the server has cached
  dropped      \* history: the records write() has thrown away

writerVars == <<writer, written>>
senderVars == <<sender, record>>
linkVars   == <<link, breaks, cached>>
vars == <<send_queue, writerVars, senderVars, linkVars, dropped>>

TypeOK ==
  /\ send_queue \in Seq(Records)
  /\ writer \in {"idle", "testing", "dropping", "putting"}
  /\ written \in 0..WriteBound
  /\ sender \in {"connecting", "taking", "sending", "awaiting", "dead"}
  /\ record \in Records \cup {NONE}
  /\ record # NONE <=> sender \in {"sending", "awaiting", "dead"}
  /\ link \in {"down", "up", "request", "response"}
  /\ breaks \in 0..BreakBound
  /\ cached \in Seq(Records)
  /\ dropped \in SUBSET Records

Init ==
  /\ send_queue = <<>>
  /\ writer = "idle" /\ written = 0
  /\ sender = "connecting" /\ record = NONE
  /\ link = "down" /\ breaks = 0
  /\ cached = <<>>
  /\ dropped = {}

-----------------------------------------------------------------------------
(***************************************************************************)
(* write().                                                                *)
(***************************************************************************)
Full == MaxBackup > 0 /\ Len(send_queue) >= MaxBackup

Write ==
  /\ writer = "idle" /\ written < WriteBound
  /\ written' = written + 1
  /\ writer' = "testing"
  /\ UNCHANGED <<send_queue, senderVars, linkVars, dropped>>

\* Mutant: room is not made.
PutUntested ==
  /\ writer = "testing"
  /\ writer' = "putting"
  /\ UNCHANGED <<send_queue, written, senderVars, linkVars, dropped>>

\* while self.send_queue.full()
TestFull ==
  /\ writer = "testing"
  /\ writer' = IF Full THEN "dropping" ELSE "putting"
  /\ UNCHANGED <<send_queue, written, senderVars, linkVars, dropped>>

\* Mutant: the newest entry is thrown away.
DropNewest ==
  /\ writer = "dropping"
  /\ writer' = "testing"
  /\ IF send_queue = <<>> THEN UNCHANGED <<send_queue, dropped>>
     ELSE /\ send_queue' = Front(send_queue)
          /\ dropped' = dropped \cup {Last(send_queue)}
  /\ UNCHANGED <<written, senderVars, linkVars>>

\* get_nowait(), whose QueueEmpty is caught.
DropOldest ==
  /\ writer = "dropping"
  /\ writer' = "testing"
  /\ IF send_queue = <<>> THEN UNCHANGED <<send_queue, dropped>>
     ELSE /\ send_queue' = Tail(send_queue)
          /\ dropped' = dropped \cup {Head(send_queue)}
  /\ UNCHANGED <<written, senderVars, linkVars>>

\* put_nowait(), whose QueueFull is caught.
Put ==
  /\ writer = "putting"
  /\ writer' = "idle"
  /\ IF Full THEN UNCHANGED send_queue ELSE send_queue' = Append(send_queue, written)
  /\ UNCHANGED <<written, senderVars, linkVars, dropped>>

-----------------------------------------------------------------------------
(***************************************************************************)
(* _async_send_records_loop.                                               *)
(***************************************************************************)
Connect ==
  /\ sender = "connecting"
  /\ link' = "up"
  /\ sender' = "taking"
  /\ UNCHANGED <<send_queue, writerVars, record, breaks, cached, dropped>>

\* get_nowait(), whose QueueEmpty leads to a pause ...
Pause ==
  /\ sender = "taking" /\ send_queue = <<>>
  /\ UNCHANGED vars

\* ... and otherwise to json.dumps.
Take ==
  /\ sender = "taking" /\ send_queue # <<>>
  /\ record' = Head(send_queue)
  /\ send_queue' = Tail(send_queue)
  /\ sender' = IF record' \in Unencodable THEN "dead" ELSE "sending"
  /\ UNCHANGED <<writerVars, linkVars, dropped>>

Send ==
  /\ sender = "sending" /\ link = "up"
  /\ link' = "request"
  /\ sender' = "awaiting"
  /\ UNCHANGED <<send_queue, writerVars, record, breaks, cached, dropped>>

Receive ==
  /\ sender = "awaiting" /\ link = "response"
  /\ link' = "up"
  /\ sender' = "taking"
  /\ record' = NONE
  /\ UNCHANGED <<send_queue, writerVars, breaks, cached, dropped>>

\* Mutant: a record whose connection is closed is queued again, at the end.
RequeueWhenClosed ==
  /\ sender \in {"sending", "awaiting"} /\ link = "down"
  /\ sender' = "connecting"
  /\ record' = NONE
  /\ send_queue' = Append(send_queue, record)
  /\ UNCHANGED <<writerVars, linkVars, dropped>>

\* Mutant: the record is tried again on the closed connection.
RetryWhenClosed ==
  /\ sender \in {"sending", "awaiting"} /\ link = "down"
  /\ sender' = "taking"
  /\ record' = NONE
  /\ send_queue' = <<record>> \o send_queue
  /\ UNCHANGED <<writerVars, linkVars, dropped>>

\* ConnectionClosed, raised by send() or recv(): the loop connects again and
\* takes the next record.
SeeClosed ==
  /\ sender \in {"sending", "awaiting"} /\ link = "down"
  /\ sender' = "connecting"
  /\ record' = NONE
  /\ UNCHANGED <<send_queue, writerVars, linkVars, dropped>>

-----------------------------------------------------------------------------
(***************************************************************************)
(* The server's answer to `publish`, and the network.                      *)
(***************************************************************************)
Publish ==
  /\ link = "request"
  /\ cached' = Append(cached, record)
  /\ link' = "response"
  /\ UNCHANGED <<send_queue, writerVars, senderVars, breaks, dropped>>

Break ==
  /\ link # "down" /\ sender # "dead"
  /\ breaks < BreakBound
  /\ breaks' = breaks + 1
  /\ link' = "down"
  /\ UNCHANGED <<send_queue, writerVars, senderVars, cached, dropped>>

-----------------------------------------------------------------------------
Writing == TestFull \/ DropOldest \/ Put
Sending == Connect \/ Pause \/ Take \/ Send \/ Receive \/ SeeClosed

Next == Write \/ Writing \/ Sending \/ Publish \/ Break

Spec == Init /\ [][Next]_vars

\* Both threads and the server run; records need not come, nor connections
\* break.
FairSpec == Spec /\ WF_vars(Writing) /\ WF_vars(Sending) /\ WF_vars(Publish)

-----------------------------------------------------------------------------
(***************************************************************************)
(* Properties.                                                             *)
(***************************************************************************)
Accepted == IF writer = "idle" THEN 1..written ELSE 1..(written - 1)

\* The records that are neither at the server, nor on their way, nor were
\* thrown away as the oldest of a full queue.
Lost == Accepted \ (ToSet(cached) \cup ToSet(send_queue) \cup {record} \cup dropped)

\* What the server has, what is on its way and what waits are in the order
\* of writing, and nothing is there twice.
Increasing(s) == \A i, j \in DOMAIN s : i < j => s[i] < s[j]

OnTheWay == IF record \in ToSet(cached) \cup {NONE} THEN <<>> ELSE <<record>>

InOrderOnce == Increasing(cached \o OnTheWay \o send_queue)

\* A broken connection costs one record at most.
OneLostPerBreak == Cardinality(Lost) <= breaks

\* What is thrown away for want of room is older than all that is kept.
OldestGo == \A r \in dropped, q \in ToSet(send_queue) : r < q

\* What becomes of a record that is written, at every step of both threads.
WriterSafe == TypeOK /\ OldestGo /\ InOrderOnce /\ OneLostPerBreak

\* The writer with its queue, its thread and the connection is a lossy
\* channel: what waits in the queue, the record that is being put there and
\* the one on its way are pending.
Pending ==
  ToSet(send_queue) \cup ToSet(OnTheWay) \cup (IF writer = "idle" THEN {} ELSE {written})

Channel == INSTANCE LossyChannel WITH sent <- written, pending <- Pending, received <- cached

ChannelRefined == Channel!Spec

\* What is written gets to the server in the end, or is lost in one of the
\* two ways.
EventuallySettled ==
  \A r \in Records :
    r \in ToSet(send_queue) ~> r \in ToSet(cached) \cup dropped \cup Lost
=============================================================================
