---------------------------- MODULE MCRecordCache ----------------------------
(***************************************************************************)
(* Instances of RecordCache for TLC.                                       *)
(***************************************************************************)
EXTENDS RecordCache

CONSTANTS udp, websocket, depth, heading

\* Both threads bring depths, one of them headings.
DepthFromBoth == [w \in Writer |-> IF w = udp THEN {depth, heading} ELSE {depth}]

\* The depths were saved by an earlier process, two records of them.
DepthFile == {[f \in Field |-> IF f = depth THEN <<NoItem, NoItem>> ELSE NONE]}
=============================================================================
