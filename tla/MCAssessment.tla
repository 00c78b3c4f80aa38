---------------------------- MODULE MCAssessment ----------------------------
(***************************************************************************)
(* Instances of Assessment for TLC: one claim, verifier runs of the three  *)
(* shapes, and two humans with different grants.                           *)
(***************************************************************************)
EXTENDS Assessment

CONSTANTS c1, f1, s1, u1, h1, h2

MCOf == [r \in Run |-> c1]
MCShape == [r \in Run |-> CASE r = f1 -> "fixture" [] r = s1 -> "static" [] OTHER -> "bare"]
MCGrants == {h1} \X {"accept", "defer"} \cup {h2} \X {"accept", "reject"}
=============================================================================
