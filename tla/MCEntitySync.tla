----------------------------- MODULE MCEntitySync -----------------------------
(***************************************************************************)
(* Instance of EntitySync for TLC: one sync at a time, two model names.    *)
(***************************************************************************)
EXTENDS EntitySync, TLC
=============================================================================
