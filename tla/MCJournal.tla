------------------------------ MODULE MCJournal ------------------------------
(***************************************************************************)
(* Instances of Journal for TLC.                                           *)
(***************************************************************************)
EXTENDS Journal

CONSTANTS e1, e2, n1, n2, n3

MCEvent == {e1, e2}
MCNonce == {n1, n2, n3}
=============================================================================
