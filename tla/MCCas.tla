------------------------------- MODULE MCCas -------------------------------
(***************************************************************************)
(* Instances of Cas for TLC.                                               *)
(***************************************************************************)
EXTENDS Cas, TLC

\* Every key has the same prefix: two puts then share a directory.
MCDirOf == [h \in Hash |-> CHOOSE d \in Dir : TRUE]

Symmetry == Permutations(Temp) \cup Permutations(Writer) \cup Permutations(Hash)
=============================================================================
