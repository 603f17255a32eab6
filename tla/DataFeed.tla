------------------------------ MODULE DataFeed ------------------------------
(***************************************************************************)
(* What a web page gets from the cached data server: the server's end of   *)
(* server/cached_data_server.py serve_requests for one page, and the       *)
(* WebSocket between them.  CachedDataServer checks that end by itself;    *)
(* here its steps are run together, and the cache is not cleaned up.       *)
(*                                                                         *)
(* Each record that is published has a time of its own.  A page names the  *)
(* fields it subscribes to, and a new subscription replaces the old one.   *)
(***************************************************************************)
EXTENDS FieldSubscription, FiniteSets, SequencesExt

CONSTANTS
  Field,       \* field names
  NONE,        \* not subscribed to
  ClockBound,  \* bound: the clock
  LossBound    \* bound: connections lost

VARIABLES
  cache,     \* the server's cache, per field
  clock,     \* time.time()
  link,      \* the page's WebSocket: "closed" or "open"
  requests,  \* messages on their way to the server
  replies,   \* messages on their way to the page
  sent_ts,   \* field_timestamps, NONE for what is not subscribed to
  losses     \* connections lost so far

feedVars == <<cache, clock, link, requests, replies, sent_ts, losses>>

Ready == [type |-> "ready"]
Subscribe(fields) == [type |-> "subscribe", fields |-> fields]

Nothing == [f \in {} |-> <<>>]

FeedTypeOK ==
  /\ \A f \in Field : \A i \in DOMAIN cache[f] : cache[f][i].ts \in 1..clock
  /\ clock \in 0..ClockBound
  /\ link \in {"closed", "open"}
  /\ \A i \in DOMAIN requests :
       \/ requests[i] = Ready
       \/ /\ requests[i].type = "subscribe"
          /\ DOMAIN requests[i].fields \subseteq Field
          /\ \A f \in DOMAIN requests[i].fields : requests[i].fields[f] \in FieldSpec
  /\ \A i \in DOMAIN replies :
       /\ replies[i].type \in {"subscribe", "data"}
       /\ DOMAIN replies[i].data \subseteq Field
       /\ \A f \in DOMAIN replies[i].data : replies[i].data[f] # <<>>
  /\ sent_ts \in [Field -> 0..ClockBound \cup {NONE}]
  /\ losses \in 0..LossBound

NotConnected ==
  /\ link = "closed"
  /\ requests = <<>> /\ replies = <<>>
  /\ sent_ts = [f \in Field |-> NONE]

FeedInit ==
  /\ cache = [f \in Field |-> <<>>]
  /\ clock = 0
  /\ losses = 0
  /\ NotConnected

-----------------------------------------------------------------------------
(***************************************************************************)
(* The server.                                                             *)
(***************************************************************************)
\* A record with a value for some of the fields is cached.
Publishes(values) ==
  /\ clock < ClockBound
  /\ clock' = clock + 1
  /\ cache' = [f \in Field |-> IF f \notin DOMAIN values THEN cache[f]
                               ELSE Append(cache[f], [ts |-> clock', val |-> values[f]])]
  /\ UNCHANGED <<link, requests, replies, sent_ts, losses>>

Receives(type) ==
  /\ requests # <<>> /\ Head(requests).type = type
  /\ requests' = Tail(requests)

Sends(type, data) == replies' = Append(replies, [type |-> type, data |-> data])

HandleSubscribe ==
  /\ Receives("subscribe")
  /\ LET fields == Head(requests).fields IN
       sent_ts' = [f \in Field |-> IF f \notin DOMAIN fields THEN NONE
                                   ELSE InitialTimestamp(cache[f], fields[f], clock)]
  /\ Sends("subscribe", Nothing)
  /\ UNCHANGED <<cache, clock, link, losses>>

\* Mutant: one field is sent at a time.
HandleReadyByField ==
  /\ Receives("ready")
  /\ LET new  == {f \in Field : sent_ts[f] # NONE /\ HasNews(cache[f], sent_ts[f])}
         one  == IF new = {} THEN {} ELSE {CHOOSE f \in new : TRUE}
         data == [f \in one |-> LaterThan(cache[f], sent_ts[f])]
     IN /\ sent_ts' = [f \in Field |-> IF f \in one THEN Newest(data[f]) ELSE sent_ts[f]]
        /\ Sends("data", data)
  /\ UNCHANGED <<cache, clock, link, losses>>

HandleReady ==
  /\ Receives("ready")
  /\ LET new  == {f \in Field : sent_ts[f] # NONE /\ HasNews(cache[f], sent_ts[f])}
         data == [f \in new |-> LaterThan(cache[f], sent_ts[f])]
     IN /\ sent_ts' = [f \in Field |-> IF f \in new THEN Newest(data[f]) ELSE sent_ts[f]]
        /\ Sends("data", data)
  /\ UNCHANGED <<cache, clock, link, losses>>

Serving == HandleSubscribe \/ HandleReady

\* The connection is lost, or the server is restarted and has lost its
\* cache.
Loses ==
  /\ link = "open" /\ losses < LossBound
  /\ losses' = losses + 1
  /\ link' = "closed"
  /\ requests' = <<>> /\ replies' = <<>>
  /\ sent_ts' = [f \in Field |-> NONE]
  /\ cache' \in {cache, [f \in Field |-> <<>>]}
  /\ UNCHANGED clock

-----------------------------------------------------------------------------
(***************************************************************************)
(* The page's end: the timer set by onclose tries until onopen is called,  *)
(* and onmessage sends its answers, the last of which is `ready`.          *)
(***************************************************************************)
Opens(fields) ==
  /\ link = "closed"
  /\ link' = "open"
  /\ requests' = <<Subscribe(fields)>>
  /\ UNCHANGED <<cache, clock, replies, sent_ts, losses>>

Takes(answers) ==
  /\ replies # <<>>
  /\ replies' = Tail(replies)
  /\ requests' = requests \o answers
  /\ UNCHANGED <<cache, clock, link, sent_ts, losses>>

Newer(data, f, ts) == f \in DOMAIN data /\ Newest(data[f]) > ts
=============================================================================
