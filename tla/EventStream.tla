---------------------------- MODULE EventStream ----------------------------
(***************************************************************************)
(* What the event journal promises, without markers, receipts or bytes: a  *)
(* stream of events that grows at its end and of which a prefix is kept    *)
(* for ever.  Module Journal implements it.                                *)
(***************************************************************************)
EXTENDS Naturals, Sequences

CONSTANT Genesis \* the event a stream begins with

VARIABLES
    log,      \* the events that are in the log now
    possible, \* the logs that a power failure may leave
    kept      \* the prefix that a receipt or a reader has reported

streamVars == <<log, possible, kept>>

Extends(s, t) == Len(t) <= Len(s) /\ \A i \in 1 .. Len(t) : s[i] = t[i]

StreamInit ==
    /\ log = <<Genesis>>
    /\ possible = {<<Genesis>>}
    /\ kept = <<Genesis>>

\* One event is written at the end; it may not survive.
Write ==
    /\ Len(log') = Len(log) + 1
    /\ Extends(log', log)
    /\ possible' = possible \cup {log'}
    /\ UNCHANGED kept

\* A rollback or a recovery removes events that were never reported; the
\* removal may not survive either.
Discard ==
    /\ Extends(log, log')
    /\ Extends(log', kept)
    /\ possible' = possible \cup {log'}
    /\ UNCHANGED kept

\* The log as it is now will survive.
Settle ==
    /\ possible' = {log}
    /\ UNCHANGED <<log, kept>>

\* The whole log is reported, to the caller of an append or to a reader.
Report ==
    /\ possible = {log}
    /\ kept' = log
    /\ UNCHANGED <<log, possible>>

\* A power failure.
Lose ==
    /\ log' \in possible
    /\ possible' = {log'}
    /\ UNCHANGED kept

StreamNext ==
    \/ Write
    \/ Discard
    \/ Settle
    \/ Report
    \/ Lose

StreamSpec == StreamInit /\ [][StreamNext]_streamVars

-----------------------------------------------------------------------------
\* What was reported is in the log, and in whatever a power failure leaves.
KeptSafe == \A s \in possible \cup {log} : Extends(s, kept)

=============================================================================
