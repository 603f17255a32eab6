---------------------------- MODULE CacheCleanup ----------------------------
(***************************************************************************)
(* server/cached_data_server.py, RecordCache.cleanup: what it leaves of    *)
(* the list of one field, a sequence of records with a timestamp ts in the *)
(* order in which they arrived, which need not be that of the timestamps.  *)
(***************************************************************************)
EXTENDS Integers, Sequences

CONSTANTS
  MaxRecords,  \* max_records, 0 for no limit
  MinBack      \* min_back_records

ASSUME CleanupAssumption == MaxRecords \in Nat /\ MinBack \in Nat

\* Mutant: one record too many is kept.
LastAndOneMore(list, n) == SubSeq(list, Len(list) - n, Len(list))

LastOf(list, n) == SubSeq(list, Len(list) - n + 1, Len(list))

Truncated(list) ==
  IF MaxRecords > MinBack /\ Len(list) > MaxRecords
  THEN LastOf(list, MaxRecords)
  ELSE list

\* Mutant: the test of the age is the wrong way round.
OldInstead(list, limit) ==
  {i \in 1..(Len(list) - MinBack) : list[i].ts <= limit}

Young(list, limit) ==
  {i \in 1..(Len(list) - MinBack) : list[i].ts > limit}

Least(S) == CHOOSE i \in S : \A j \in S : i <= j

\* Mutant: the record at which the loop stops is dropped too.
CleanedUpOneTooMany(list, limit) ==
  LET kept  == Truncated(list)
      first == IF Young(kept, limit) = {} THEN Len(kept) - MinBack
               ELSE Least(Young(kept, limit))
  IN IF Len(list) <= MinBack THEN list ELSE SubSeq(kept, first + 1, Len(kept))

\* Mutant: nothing is left of a list without young records.
CleanedUpToNone(list, limit) ==
  LET kept  == Truncated(list)
      young == {i \in 1..Len(kept) : kept[i].ts > limit}
  IN IF Len(list) <= MinBack THEN list
     ELSE SubSeq(kept, IF young = {} THEN Len(kept) + 1 ELSE Least(young), Len(kept))

\* The list that is left: its oldest records are dropped up to the first
\* one, in order of arrival, that is young enough.  The loop over i that
\* finds none leaves i at its last value.
CleanedUp(list, limit) ==
  LET kept  == Truncated(list)
      first == IF Young(kept, limit) = {} THEN Len(kept) - MinBack
               ELSE Least(Young(kept, limit))
  IN IF Len(list) <= MinBack THEN list ELSE SubSeq(kept, first, Len(kept))
=============================================================================
