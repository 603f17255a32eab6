----------------------------- MODULE LossyChannel -----------------------------
(***************************************************************************)
(* What a logger's writer to a cached data server promises: records are    *)
(* received in the order in which they were sent, each at most once; any   *)
(* of them may be given up on the way, and once given up it stays so.      *)
(*                                                                         *)
(* A record is its number in the order of sending.                         *)
(***************************************************************************)
EXTENDS Integers, Sequences

VARIABLES
  sent,      \* how many records were sent
  pending,   \* those that are neither received nor given up
  received   \* those that were received, in the order of their arrival

vars == <<sent, pending, received>>

Init == sent = 0 /\ pending = {} /\ received = <<>>

Send ==
  /\ sent' = sent + 1
  /\ pending' = pending \cup {sent + 1}
  /\ UNCHANGED received

\* The oldest record arrives.
Deliver(r) ==
  /\ r \in pending /\ \A s \in pending : r <= s
  /\ pending' = pending \ {r}
  /\ received' = Append(received, r)
  /\ UNCHANGED sent

GiveUp(r) ==
  /\ r \in pending
  /\ pending' = pending \ {r}
  /\ UNCHANGED <<sent, received>>

Next == Send \/ \E r \in pending : Deliver(r) \/ GiveUp(r)

Spec == Init /\ [][Next]_vars
=============================================================================
