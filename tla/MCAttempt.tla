----------------------------- MODULE MCAttempt -----------------------------
(***************************************************************************)
(* Instances of Attempt for TLC.                                           *)
(***************************************************************************)
EXTENDS Attempt, TLC

\* Structured and abstained output names its execution; malformed output is
\* whatever the reviewer sent and may be the same for every attempt.
MCAnswers == [e \in Run \X Attempts |-> {<<"structured", e>>, <<"malformed">>}]
MCRaw == UNION {MCAnswers[e] : e \in Run \X Attempts}
MCStructured == {x \in MCRaw : x[1] = "structured"}

Symmetry == Permutations(Run)
=============================================================================
