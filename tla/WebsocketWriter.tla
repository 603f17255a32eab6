--------------------------- MODULE WebsocketWriter ---------------------------
(***************************************************************************)
(* logger/writers/websocket_writer.py: a WebSocket server that sends each  *)
(* record to all its clients.  write() is called by the logger's thread    *)
(* and hands the records to an event loop in a thread of its own, where    *)
(* each client has a handler, a queue and a task that sends from it.       *)
(*                                                                         *)
(* A record is its number.  Both threads hold client_map_lock for as long  *)
(* as they use client_map, so that each use of it is a single step.  The   *)
(* event loop runs the callbacks that write() hands it in their order; how *)
(* it takes turns between them, the handlers and the tasks is left open.   *)
(***************************************************************************)
EXTENDS Integers, Sequences, FiniteSets, SequencesExt

CONSTANTS
  Client,       \* clients, each of which connects once
  MaxQueueSize, \* max_queue_size, 0 for no limit
  RecordBound,  \* bound: records written
  NONE

SocketAssumption ==
  /\ IsFiniteSet(Client)
  /\ MaxQueueSize \in Nat /\ RecordBound \in Nat
  /\ NONE \notin Client /\ NONE \notin 1..RecordBound

ClientId == 0..(Cardinality(Client) - 1)

VARIABLES
  client_map, \* the client of each client_id, NONE if it is free
  send_queue, \* the records queued for it
  scheduled,  \* the calls of _put_and_trim the event loop is to make
  task,       \* _send_from_queue of each client
  record,     \* what it has in hand
  open,       \* is its connection open?
  written,    \* records written so far
  sent,       \* history: what each client was sent
  since,      \* history: how many records were written before it attached
  trimmed     \* history: what was dropped for it

taskVars == <<task, record, open, sent>>
vars == <<client_map, send_queue, scheduled, taskVars, written, since, trimmed>>

Free == {i \in ClientId : client_map[i] = NONE}
Attached == {c \in Client : task[c] \in {"getting", "sending", "done"}}

IdOf(c) == CHOOSE i \in ClientId : client_map[i] = c

TypeOK ==
  /\ client_map \in [ClientId -> Client \cup {NONE}]
  /\ scheduled \in Seq([id : ClientId, record : 1..written])
  /\ send_queue \in [ClientId -> Seq(1..written)]
  /\ task \in [Client -> {"out", "getting", "sending", "done", "gone"}]
  /\ record \in [Client -> (1..written) \cup {NONE}]
  /\ open \in [Client -> BOOLEAN]
  /\ written \in 0..RecordBound
  /\ sent \in [Client -> Seq(1..written)]
  /\ since \in [Client -> 0..written]
  /\ trimmed \in [Client -> SUBSET (1..written)]
  /\ Attached = {client_map[i] : i \in ClientId \ Free}

Init ==
  /\ client_map = [i \in ClientId |-> NONE]
  /\ send_queue = [i \in ClientId |-> <<>>]
  /\ scheduled = <<>>
  /\ task = [c \in Client |-> "out"]
  /\ record = [c \in Client |-> NONE]
  /\ open = [c \in Client |-> FALSE]
  /\ written = 0
  /\ sent = [c \in Client |-> <<>>]
  /\ since = [c \in Client |-> 0]
  /\ trimmed = [c \in Client |-> {}]

-----------------------------------------------------------------------------
\* Mutant: an id whose queue is empty passes for free.
FirstIdle ==
  LET idle == {i \in ClientId : send_queue[i] = <<>>} IN
  CHOOSE i \in idle : \A j \in idle : i <= j

NextId == CHOOSE i \in Free : \A j \in Free : i <= j

\* _websocket_handler, until the task has been started.
Attach(c) ==
  /\ task[c] = "out"
  /\ client_map' = [client_map EXCEPT ![NextId] = c]
  /\ send_queue' = [send_queue EXCEPT ![NextId] = <<>>]
  /\ task' = [task EXCEPT ![c] = "getting"]
  /\ open' = [open EXCEPT ![c] = TRUE]
  /\ since' = [since EXCEPT ![c] = written]
  /\ UNCHANGED <<scheduled, record, sent, written, trimmed>>

\* write: the event loop is to put the record into each client's queue.
Write ==
  /\ written < RecordBound
  /\ written' = written + 1
  /\ \E ids \in SetToSeqs(ClientId \ Free) :
       scheduled' = scheduled \o [n \in DOMAIN ids |-> [id |-> ids[n], record |-> written']]
  /\ UNCHANGED <<client_map, send_queue, taskVars, since, trimmed>>

\* Mutant: a full queue makes room before it need.
TrimmedEarly(queue) ==
  IF MaxQueueSize = 0 \/ Len(queue) < MaxQueueSize THEN queue ELSE Tail(queue)

Trimmed(queue) ==
  IF MaxQueueSize = 0 \/ Len(queue) <= MaxQueueSize THEN queue
  ELSE SubSeq(queue, Len(queue) - MaxQueueSize + 1, Len(queue))

\* _put_and_trim, of a client that may have left, and another taken its id.
PutAndTrim ==
  /\ scheduled # <<>>
  /\ scheduled' = Tail(scheduled)
  /\ LET i == Head(scheduled).id
         queue == Append(send_queue[i], Head(scheduled).record)
     IN IF i \in Free THEN UNCHANGED <<send_queue, trimmed>>
        ELSE /\ send_queue' = [send_queue EXCEPT ![i] = Trimmed(queue)]
             /\ trimmed' = [trimmed EXCEPT ![client_map[i]] =
                              @ \cup (ToSet(queue) \ ToSet(Trimmed(queue)))]
  /\ UNCHANGED <<client_map, taskVars, written, since>>

-----------------------------------------------------------------------------
\* _send_from_queue.
Get(c) ==
  /\ task[c] = "getting"
  /\ send_queue[IdOf(c)] # <<>>
  /\ task' = [task EXCEPT ![c] = "sending"]
  /\ record' = [record EXCEPT ![c] = Head(send_queue[IdOf(c)])]
  /\ send_queue' = [send_queue EXCEPT ![IdOf(c)] = Tail(@)]
  /\ UNCHANGED <<client_map, scheduled, open, sent, written, since, trimmed>>

Send(c) ==
  /\ task[c] = "sending" /\ open[c]
  /\ task' = [task EXCEPT ![c] = "getting"]
  /\ record' = [record EXCEPT ![c] = NONE]
  /\ sent' = [sent EXCEPT ![c] = Append(@, record[c])]
  /\ UNCHANGED <<client_map, send_queue, scheduled, open, written, since, trimmed>>

\* Mutant: a closed connection is passed over.
SendPasses(c) ==
  /\ task[c] = "sending" /\ ~open[c]
  /\ task' = [task EXCEPT ![c] = "getting"]
  /\ record' = [record EXCEPT ![c] = NONE]
  /\ UNCHANGED <<client_map, send_queue, scheduled, open, sent, written, since, trimmed>>

\* ConnectionClosed is only raised when there is something to send.
SendFails(c) ==
  /\ task[c] = "sending" /\ ~open[c]
  /\ task' = [task EXCEPT ![c] = "done"]
  /\ record' = [record EXCEPT ![c] = NONE]
  /\ UNCHANGED <<client_map, send_queue, scheduled, open, sent, written, since, trimmed>>

\* The end of _websocket_handler.
Detach(c) ==
  /\ task[c] = "done"
  /\ client_map' = [client_map EXCEPT ![IdOf(c)] = NONE]
  /\ send_queue' = [send_queue EXCEPT ![IdOf(c)] = <<>>]
  /\ task' = [task EXCEPT ![c] = "gone"]
  /\ UNCHANGED <<scheduled, record, open, sent, written, since, trimmed>>

\* The client goes away, or the network does.
Closes(c) ==
  /\ open[c]
  /\ open' = [open EXCEPT ![c] = FALSE]
  /\ UNCHANGED <<client_map, send_queue, scheduled, task, record, sent, written, since, trimmed>>

Serves(c) == Get(c) \/ Send(c) \/ SendFails(c) \/ Detach(c)

\* When all records are written and all is quiet, the logger waits.
Quiet == written = RecordBound /\ UNCHANGED vars

Next ==
  \/ Write \/ PutAndTrim \/ Quiet
  \/ \E c \in Client : Attach(c) \/ Serves(c) \/ Closes(c)

Spec == Init /\ [][Next]_vars

\* The event loop runs, and websocket.send() returns or raises: a client
\* that takes nothing any more is closed by websockets' own timeout.
FairSpec ==
  /\ Spec
  /\ WF_vars(PutAndTrim)
  /\ \A c \in Client : WF_vars(Serves(c))

-----------------------------------------------------------------------------
(***************************************************************************)
(* Properties.                                                             *)
(***************************************************************************)
Served(c) == task[c] \in {"getting", "sending"}

\* Where a record is that was written for a client and not dropped.
Got(c) == ToSet(sent[c])
InHand(c) == {record[c]} \ {NONE}
Queued(c) == ToSet(send_queue[IdOf(c)])
Calls(i) == {n \in DOMAIN scheduled : scheduled[n].id = i}
Called(c) == {scheduled[n].record : n \in Calls(IdOf(c))}

OnTheWay(c) == InHand(c) \cup Queued(c) \cup Called(c)

Increasing(s) == \A m, n \in DOMAIN s : m < n => s[m] < s[n]
Before(A, B) == \A a \in A, b \in B : a < b

\* A client gets what is written from the time it has attached on, once and
\* in order, whoever else comes, goes or is slow and whoever had its id
\* before: each record was sent, is on its way or was dropped from its queue.
GetsAll ==
  \A c \in Client : Served(c) =>
    /\ (since[c] + 1)..written \subseteq Got(c) \cup OnTheWay(c) \cup trimmed[c]
    /\ Increasing(sent[c]) /\ Increasing(send_queue[IdOf(c)])
    /\ \A m, n \in Calls(IdOf(c)) : m < n => scheduled[m].record < scheduled[n].record
    /\ Before(Got(c), OnTheWay(c)) /\ Before(InHand(c), Queued(c) \cup Called(c))
    /\ Before(Queued(c), Called(c))

\* What was dropped for a client is older than MaxQueueSize records that
\* were then waiting for it.
OldestTrimmed ==
  \A c \in Client : Served(c) =>
    \A r \in trimmed[c] :
      /\ MaxQueueSize > 0
      /\ Cardinality({s \in Got(c) \cup OnTheWay(c) \cup trimmed[c] : s > r}) >= MaxQueueSize

\* What becomes of a record that is written, for each client by itself.
SocketSafe == TypeOK /\ GetsAll /\ OldestTrimmed

\* A client that is gone, and has something sent to it, is let go; one that
\* stays has all sent to it that was not dropped.
ClientsSettle ==
  \A c \in Client :
    /\ Served(c) /\ ~open[c] /\ OnTheWay(c) # {} ~> task[c] = "gone"
    /\ <>[](Served(c) => OnTheWay(c) = {})
=============================================================================
