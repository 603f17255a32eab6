--------------------------- MODULE MCLoggerManager ---------------------------
(***************************************************************************)
(* Instances of LoggerManager for TLC: two cruise definitions that share a *)
(* logger and the names of its configurations.                             *)
(***************************************************************************)
EXTENDS LoggerManager, TLC

CONSTANTS gyr, knud, netA, netB, offA, bare, idle, underway

NoConfigs == {EmptyMap}

\* The names "off" and "net" of one definition.
Names(off, net) == [off |-> off, net |-> net]

BothOn(name) == [l \in Logger |-> name]
OnlyGyr(name) == [l \in Logger |-> IF l = gyr THEN name ELSE NONE]

\* Only one of its loggers ever runs.
CruiseA ==
  [loggers |-> {gyr, knud}, configs |-> Names(offA, netA),
   modes |-> (idle :> BothOn("off"))
             @@ (underway :> [l \in Logger |-> IF l = gyr THEN "net" ELSE "off"]),
   choices |-> [l \in Logger |-> IF l = gyr THEN {"off"} ELSE {}],
   default |-> idle, sound |-> TRUE]

\* It shares a logger and the names with the first, and one of its
\* configurations is empty.
CruiseD ==
  [loggers |-> {gyr}, configs |-> Names(NONE, netB),
   modes |-> (underway :> OnlyGyr("net")),
   choices |-> [l \in Logger |-> {}],
   default |-> underway, sound |-> FALSE]

UnevenCruises == {CruiseA, CruiseD}
OneCruise     == {CruiseA}
=============================================================================
