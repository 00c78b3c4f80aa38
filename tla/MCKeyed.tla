------------------------------- MODULE MCKeyed -------------------------------
(***************************************************************************)
(* Instances of Keyed for TLC.                                             *)
(***************************************************************************)
EXTENDS Keyed

CONSTANTS e1, e2, n1, n2

MCEvent == {e1, e2}
MCNonce == {n1, n2}
=============================================================================
