------------------------- MODULE MCCachedDataServer -------------------------
(***************************************************************************)
(* Instances of CachedDataServer for TLC.                                  *)
(***************************************************************************)
EXTENDS CachedDataServer

CONSTANTS depth, heading

Asking(fields, pattern, seconds) ==
  [fields |-> fields, pattern |-> pattern, seconds |-> seconds, back_records |-> 0]

\* What comes from now on, the latest of each field first, and a pattern.
UsualSubscriptions ==
  {Asking({depth, heading}, FALSE, 0), Asking({depth}, FALSE, -1), Asking({depth, heading}, TRUE, 0)}

=============================================================================
