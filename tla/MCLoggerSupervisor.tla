------------------------- MODULE MCLoggerSupervisor -------------------------
(***************************************************************************)
(* Instances of LoggerSupervisor for TLC.                                  *)
(***************************************************************************)
EXTENDS LoggerSupervisor, TLC

CONSTANTS gyr, knud, net, file, off

\* The constructor's configs: none (the logger manager) or all loggers on net.
NoConfigs  == {EmptyMap}
AllOnNet   == {[l \in Logger |-> net]}
BothStarts == NoConfigs \cup AllOnNet

\* Nothing distinguishes the two loggers.
LoggerSymmetry == Permutations(Logger)
=============================================================================
