-------------------------- MODULE CachedDataServer --------------------------
(***************************************************************************)
(* server/cached_data_server.py: a WebSocketConnection that serves one     *)
(* subscription, and logger/readers/cached_data_reader.py at its other     *)
(* end.                                                                    *)
(*                                                                         *)
(* The server remembers of each field only the timestamp of the last       *)
(* record it sent (field_timestamps), and sends what is later than that.   *)
(* A request is handled in one step up to each `await`; records are cached *)
(* and the cache is cleaned up between the steps.  RecordCache describes   *)
(* the locking of the cache; here its operations are single steps, and a   *)
(* field without records has no lock either.                               *)
(*                                                                         *)
(* Both output formats, field_dict and record_list, send the same records. *)
(* The special case of field_dict for `back_seconds` -1 is left out: no    *)
(* subscription has that key, the documented one is `seconds`.             *)
(***************************************************************************)
EXTENDS CacheCleanup, FieldSubscription, FiniteSets, SequencesExt

CONSTANTS
  Field,        \* field names
  Subscriptions, \* what the reader may have been made to subscribe to
  InOrder,      \* does each field get later and later timestamps?
  BackSeconds,  \* the server's back_seconds
  NONE,         \* a field without timestamp
  RecordBound,  \* bound: records cached
  TimeBound,    \* bound: the clock
  LossBound,    \* bound: connections lost
  FlightBound   \* bound: messages under way in one direction

Record == [id : 1..RecordBound, ts : 1..TimeBound]

\* A subscription names its fields, or gives a pattern that they match.
Subscription ==
  [fields : SUBSET Field, pattern : BOOLEAN, seconds : Nat \cup {-1}, back_records : Nat]

ASSUME ServerAssumption ==
  /\ Subscriptions \subseteq Subscription
  /\ \A s \in Subscriptions : s.fields # {}
  /\ InOrder \in BOOLEAN
  /\ BackSeconds \in Nat
  /\ NONE \notin Int
  /\ RecordBound \in Nat /\ LossBound \in Nat
  /\ TimeBound \in Nat \ {0} /\ FlightBound \in Nat \ {0}

VARIABLES
  cache,      \* self.cache.data, <<>> where it has no key
  now,        \* time.time()
  made,       \* records cached so far
  reader,     \* the reader: "connecting", "subscribing" or "reading"
  requests,   \* its messages on their way to the server
  replies,    \* the server's messages on their way to the reader
  handler,    \* serve_requests: "receiving", "pausing" or "napping"
  requested,  \* requested_fields
  sent_ts,    \* field_timestamps, NONE where it has no key
  subscription,  \* the reader's subscription
  losses,     \* connections lost so far
  got,        \* history: the records the reader enqueued, per field
  due         \* history: the records the subscription asks for, per field

cacheVars   == <<cache, now, made>>
serverVars  == <<handler, requested, sent_ts>>
linkVars    == <<subscription, losses>>
historyVars == <<got, due>>
vars == <<cacheVars, reader, requests, replies, serverVars, linkVars, historyVars>>

Nothing == [f \in Field |-> <<>>]

Reply(kind, data) == [kind |-> kind, data |-> data]

TypeOK ==
  /\ cache \in [Field -> Seq(Record)]
  /\ now \in 1..TimeBound
  /\ made \in 0..RecordBound
  /\ reader \in {"connecting", "subscribing", "reading"}
  /\ requests \in Seq({"subscribe", "ready"})
  /\ replies \in Seq([kind : {"subscribed", "no match", "data"}, data : [Field -> Seq(Record)]])
  /\ handler \in {"receiving", "pausing", "napping"}
  /\ requested \in SUBSET subscription.fields
  /\ sent_ts \in [Field -> 0..TimeBound \cup {NONE}]
  /\ subscription \in Subscriptions
  /\ losses \in 0..LossBound
  /\ got \in [Field -> Seq(Record)]
  /\ due \in [Field -> SUBSET Record]

NoConnection ==
  /\ reader = "connecting"
  /\ requests = <<>>
  /\ replies = <<>>
  /\ handler = "receiving"
  /\ requested = {}
  /\ sent_ts = [f \in Field |-> NONE]
  /\ got = Nothing
  /\ due = [f \in Field |-> {}]

Init ==
  /\ cache = Nothing
  /\ now = 1
  /\ made = 0
  /\ losses = 0
  /\ subscription \in Subscriptions
  /\ NoConnection

-----------------------------------------------------------------------------
(***************************************************************************)
(* The cache, filled by other connections and readers.                     *)
(***************************************************************************)
CacheRecord ==
  /\ made < RecordBound
  /\ made' = made + 1
  /\ \E fields \in SUBSET Field \ {{}}, ts \in 1..now :
       LET r == [id |-> made + 1, ts |-> ts] IN
         /\ InOrder => ts = now /\ \A f \in fields : cache[f] # <<>> => Newest(cache[f]) < ts
         /\ cache' = [f \in Field |-> IF f \in fields THEN Append(cache[f], r) ELSE cache[f]]
         /\ due' = [f \in Field |-> IF f \in fields /\ sent_ts[f] # NONE
                                    THEN due[f] \cup {r} ELSE due[f]]
  /\ UNCHANGED <<now, reader, requests, replies, serverVars, linkVars, got>>

Cleanup(f) ==
  /\ cache' = [cache EXCEPT ![f] = CleanedUp(@, now - BackSeconds)]
  /\ UNCHANGED <<now, made, reader, requests, replies, serverVars, linkVars, historyVars>>

Tick ==
  /\ now < TimeBound
  /\ now' = now + 1
  /\ UNCHANGED <<cache, made, reader, requests, replies, serverVars, linkVars, historyVars>>

-----------------------------------------------------------------------------
(***************************************************************************)
(* The reader.  It sends `ready` after whatever it receives.               *)
(***************************************************************************)
Connect ==
  /\ reader = "connecting"
  /\ reader' = "subscribing"
  /\ requests' = Append(requests, "subscribe")
  /\ UNCHANGED <<cacheVars, replies, serverVars, linkVars, historyVars>>

\* _parse_response collates a field dict by timestamp: of the values of a
\* field with one timestamp the last remains.
Collated(list) ==
  LET times == {list[i].ts : i \in 1..Len(list)}
      LastAt(ts) == list[Greatest({i \in 1..Len(list) : list[i].ts = ts})]
  IN [k \in 1..Cardinality(times) |-> LastAt(Ascending(times)[k])]

\* Mutant: `ready` is sent twice.
ReadReplyAsksTwice ==
  /\ replies # <<>>
  /\ Len(requests) < FlightBound
  /\ got' = [f \in Field |-> got[f] \o Collated(Head(replies).data[f])]
  /\ replies' = Tail(replies)
  /\ reader' = "reading"
  /\ requests' = requests \o <<"ready", "ready">>
  /\ UNCHANGED <<cacheVars, serverVars, linkVars, due>>

ReadReply ==
  /\ replies # <<>>
  /\ Len(requests) < FlightBound
  /\ got' = [f \in Field |-> got[f] \o Collated(Head(replies).data[f])]
  /\ replies' = Tail(replies)
  /\ reader' = "reading"
  /\ requests' = Append(requests, "ready")
  /\ UNCHANGED <<cacheVars, serverVars, linkVars, due>>

\* The connection is lost with all that is under way; the handler ends at
\* its next await, and the reader subscribes again on a new one.
LoseConnection ==
  /\ reader # "connecting"
  /\ losses < LossBound
  /\ losses' = losses + 1
  /\ reader' = "connecting"
  /\ requests' = <<>>
  /\ replies' = <<>>
  /\ handler' = "receiving"
  /\ requested' = {}
  /\ sent_ts' = [f \in Field |-> NONE]
  /\ got' = Nothing
  /\ due' = [f \in Field |-> {}]
  /\ UNCHANGED <<cacheVars, subscription>>

-----------------------------------------------------------------------------
(***************************************************************************)
(* serve_requests: subscribe.                                              *)
(***************************************************************************)
\* Mutant: with 0 seconds the newest record is sent too.
InitialTsOneBack(list) ==
  IF Len(list) > 1 THEN list[Len(list) - 1].ts ELSE 0

\* Mutant: with 0 seconds the mark for `the most recent value only` is set.
InitialTsMarked(list) == IF list = <<>> THEN 0 ELSE -1

InitialTs(list) == InitialTimestamp(list, subscription, now)

\* The records in the cache that the documentation promises at once: the last
\* back_records, those of the last `seconds`, or with -1 the last one.  What
\* follows then is, for -1 as for the others, every future record: so line 50
\* (`the most recent value, and then all future new ones`) and the comment at
\* 738.  The docstring at 501-502 says that -1 `will only ever provide the
\* single most recent value`; the code that would (742) tests a key that no
\* client sends.
Promised(list) ==
  LET s == subscription IN
  {list[i] : i \in {k \in 1..Len(list) : \/ k > Len(list) - s.back_records
                                         \/ s.seconds > 0 /\ now - list[k].ts <= s.seconds
                                         \/ s.seconds = -1 /\ k = Len(list)}}

\* A pattern stands for the fields in the cache at this moment.  The lock
\* is looked up under the pattern, which is no field, so that their
\* timestamps stay at 0.
Matching ==
  IF subscription.pattern THEN {f \in subscription.fields : cache[f] # <<>>}
  ELSE subscription.fields

Receive(request) ==
  /\ handler = "receiving"
  /\ requests # <<>> /\ Head(requests) = request
  /\ requests' = Tail(requests)

Send(reply) ==
  /\ Len(replies) < FlightBound
  /\ replies' = Append(replies, reply)

HandleSubscribe ==
  /\ Receive("subscribe")
  /\ requested' = Matching
  /\ sent_ts' = [f \in Field |-> IF f \notin Matching THEN NONE
                                 ELSE IF subscription.pattern THEN 0 ELSE InitialTs(cache[f])]
  /\ due' = [f \in Field |-> IF f \in Matching THEN Promised(cache[f]) ELSE {}]
  /\ Send(Reply("subscribed", Nothing))
  /\ UNCHANGED <<cacheVars, reader, handler, linkVars, got>>

-----------------------------------------------------------------------------
(***************************************************************************)
(* serve_requests: ready.                                                  *)
(***************************************************************************)
\* Mutant: records as late as the last one sent are sent again.
LaterOrEqual(f) ==
  IF cache[f] = <<>> \/ Newest(cache[f]) < sent_ts[f] THEN <<>>
  ELSE Chosen(cache[f], {i \in 1..Len(cache[f]) : cache[f][i].ts >= sent_ts[f]})

Later(f) == LaterThan(cache[f], sent_ts[f])

\* Mutant: the timestamp sent is the time of sending.
SendDataStampedNow ==
  /\ LET results == [f \in Field |-> IF f \in requested THEN Later(f) ELSE <<>>] IN
       /\ Send(Reply("data", results))
       /\ sent_ts' = [f \in Field |-> IF results[f] = <<>> THEN sent_ts[f] ELSE now]
  /\ handler' = "napping"

SendData ==
  /\ LET results == [f \in Field |-> IF f \in requested THEN Later(f) ELSE <<>>] IN
       /\ Send(Reply("data", results))
       /\ sent_ts' = [f \in Field |-> IF results[f] = <<>> THEN sent_ts[f]
                                      ELSE Newest(results[f])]
  /\ handler' = "napping"

HandleReady ==
  /\ Receive("ready")
  /\ sent_ts # [f \in Field |-> NONE]
  /\ SendData
  /\ UNCHANGED <<cacheVars, reader, requested, linkVars, historyVars>>

\* Nothing is requested: an error is sent, and after a pause the data too.
HandleReadyInVain ==
  /\ Receive("ready")
  /\ sent_ts = [f \in Field |-> NONE]
  /\ Send(Reply("no match", Nothing))
  /\ handler' = "pausing"
  /\ UNCHANGED <<cacheVars, reader, requested, sent_ts, linkVars, historyVars>>

SendAfterPause ==
  /\ handler = "pausing"
  /\ SendData
  /\ UNCHANGED <<cacheVars, reader, requests, requested, linkVars, historyVars>>

NapEnds ==
  /\ handler = "napping"
  /\ handler' = "receiving"
  /\ UNCHANGED <<cacheVars, reader, requests, replies, requested, sent_ts, linkVars,
                 historyVars>>

-----------------------------------------------------------------------------
Reader == Connect \/ ReadReply
Server == HandleSubscribe \/ HandleReady \/ HandleReadyInVain \/ SendAfterPause \/ NapEnds

Next ==
  \/ CacheRecord \/ Tick \/ (\E f \in Field : Cleanup(f))
  \/ Reader \/ Server \/ LoseConnection

Spec == Init /\ [][Next]_vars

\* The reader's thread and the server's event loop run; the rest may stop.
FairSpec == Spec /\ WF_vars(Reader) /\ WF_vars(Server)

-----------------------------------------------------------------------------
(***************************************************************************)
(* Properties.                                                             *)
(***************************************************************************)
UnderWay(f) == UNION {ToSet(replies[i].data[f]) : i \in DOMAIN replies}

Delivered(f) == ToSet(got[f]) \cup UnderWay(f)

\* No record that the subscription asks for is passed over: as long as it
\* is cached it has been sent, or is later than the last one sent.
NothingPassedOver ==
  \A f \in Field : sent_ts[f] # NONE =>
    \A r \in due[f] \cap ToSet(cache[f]) : r \in Delivered(f) \/ r.ts > sent_ts[f]

\* Only records that the subscription asks for are sent, if it names its
\* fields; all that is cached is sent to a reader that gives a pattern.  With
\* `seconds` -1 it asks for the latest and all to come (see Promised).
NothingUnasked ==
  ~subscription.pattern => \A f \in Field : Delivered(f) \subseteq due[f]

\* On one connection no record reaches the reader twice, and each field's
\* records reach it in the order of their timestamps.
InOrderOnce ==
  \A f \in Field :
    /\ \A i, j \in DOMAIN got[f] : i < j => got[f][i].ts < got[f][j].ts
    /\ ToSet(got[f]) \cap UnderWay(f) = {}

\* The server gets one `ready` for each message it has sent: at any time
\* one message is under way at most, or being answered.  (A `ready` for a
\* pattern that has matched nothing is answered twice.)
OneUnderWay ==
  ~subscription.pattern =>
    Len(requests) + Len(replies) + (IF handler = "pausing" THEN 1 ELSE 0) <= 1

\* A reader is sent exactly what it asked for.
ExactlyAsked == NothingPassedOver /\ NothingUnasked

\* The connection is sound: its messages have their types and take turns, and
\* carry each record once, in order.
ServerSafe == TypeOK /\ OneUnderWay /\ InOrderOnce

\* A record that stays cached reaches the reader of its field in the end,
\* unless the connection is lost.
EventuallyRead ==
  \A f \in Field, i \in 1..RecordBound :
    (\E r \in due[f] \cap ToSet(cache[f]) : r.id = i)
      ~> \/ \E r \in ToSet(got[f]) : r.id = i
         \/ ~ \E r \in due[f] \cap ToSet(cache[f]) : r.id = i
=============================================================================
