------------------------------ MODULE MCSources ------------------------------
(***************************************************************************)
(* Instances of Sources for TLC.                                           *)
(***************************************************************************)
EXTENDS Sources, TLC

MCContents == {<<1, "c">>, <<2, "d">>}
CONSTANTS a, b
MCNames == {a, b}
MCFirst == <<a, <<1, "c">>>>
=============================================================================
