------------------------------ MODULE MCIndex -------------------------------
(***************************************************************************)
(* Instances of Index for TLC.  The image of a longer log is larger, and   *)
(* as a leftover candidate it is too large for an audit.                   *)
(***************************************************************************)
EXTENDS Index

CONSTANTS r4, r5

MCRuns == {r4, r5}
MCSchema == [r \in MCRuns |-> IF r = r4 THEN 4 ELSE 5]
MCSize == [i \in Image |-> i.upto]
=============================================================================
