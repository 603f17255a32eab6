-------------------------- MODULE FieldSubscription --------------------------
(***************************************************************************)
(* server/cached_data_server.py: what a WebSocketConnection has to send of *)
(* a field's records, by the timestamp of the last one it sent.  A list    *)
(* holds the records of one field, a spec what a subscription says of it.  *)
(***************************************************************************)
EXTENDS Integers, Sequences, FiniteSets

FieldSpec == [seconds : Nat \cup {-1}, back_records : Nat]

Newest(list) == list[Len(list)].ts

Greatest(S) == CHOOSE i \in S : \A j \in S : j <= i

\* The indices of the records, among all but the last back_records, that are
\* older than `seconds`.
TooOld(list, spec, now) ==
  {i \in 1..(Len(list) - spec.back_records) : now - list[i].ts > spec.seconds}

\* The initial field_timestamps of a field.  The search backwards for a
\* record that is too old remembers the timestamp of the record before it,
\* which for the first record is the last one, as Python's index -1 is.
InitialTimestamp(list, spec, now) ==
  CASE list = <<>>                      -> 0
    [] list # <<>> /\ spec.seconds = 0  -> Newest(list)
    [] list # <<>> /\ spec.seconds = -1 -> IF Len(list) > 1 THEN list[Len(list) - 1].ts ELSE 0
    [] OTHER -> IF TooOld(list, spec, now) = {} THEN 0
                ELSE LET i == Greatest(TooOld(list, spec, now)) IN
                       IF i = 1 THEN Newest(list) ELSE list[i - 1].ts

\* The elements of a finite set of numbers, from the least to the greatest.
Ascending(S) ==
  [k \in 1..Cardinality(S) |-> CHOOSE i \in S : Cardinality({j \in S : j < i}) = k - 1]

\* The records of list that are at the indices in S.
Chosen(list, S) == [k \in 1..Cardinality(S) |-> list[Ascending(S)[k]]]

\* Is the last record later than the last one sent?
HasNews(list, ts) == list # <<>> /\ Newest(list) > ts

\* The records later than the last one sent.
LaterThan(list, ts) ==
  IF ~HasNews(list, ts) THEN <<>>
  ELSE Chosen(list, {i \in 1..Len(list) : list[i].ts > ts})
=============================================================================
