----------------------------- MODULE MCListener -----------------------------
(***************************************************************************)
(* Instances of Listener for TLC.                                          *)
(***************************************************************************)
EXTENDS Listener

TwoAndOne == <<2, 1>>
TwoAndTwo == <<2, 2>>
SecondOfSecond == {<<2, 2>>}
FirstOfSecond == {<<2, 1>>}
=============================================================================
