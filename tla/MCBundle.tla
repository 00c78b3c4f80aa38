------------------------------ MODULE MCBundle ------------------------------
(***************************************************************************)
(* Instances of Bundle for TLC.                                            *)
(***************************************************************************)
EXTENDS Bundle

CONSTANTS b1, b2

MCBundles == {b1, b2}
MCSize == [b \in MCBundles |-> IF b = b1 THEN 3 ELSE 1]
=============================================================================
