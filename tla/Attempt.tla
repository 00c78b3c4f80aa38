------------------------------ MODULE Attempt ------------------------------
(***************************************************************************)
(* One reviewer attempt made durable                                       *)
(* (crates/reviewgraphen-runtime/src/durable.rs): run_fresh_fake_attempt   *)
(* and resume_fake_attempt on a ReplayedV2RunSession, for several runs     *)
(* that share one content-addressed store.  Each run has one obligation    *)
(* and a journal that one session at a time may hold; a session works on   *)
(* the log it replayed when it was opened.                                 *)
(*                                                                         *)
(* The journal is the one of module Journal seen from outside: an append   *)
(* succeeds, fails and leaves nothing, or is uncertain.  The store is the  *)
(* one of module Cas without power failures.                               *)
(***************************************************************************)
EXTENDS Naturals, FiniteSets

CONSTANTS
    Run,          \* runs of one store
    MaxAttempt,   \* highest attempt number tried (a bound of the model)
    Raw,          \* raw reviewer outputs
    Structured,   \* those that parse as structured output
    Answers,      \* what the reviewer may return for a run and an attempt
    NoRaw,        \* no output yet
    MaxFaults     \* number of faults in a behaviour (a bound of the model)

Attempts == 1 .. MaxAttempt

ASSUME AttemptAssumption == /\ MaxAttempt \in Nat
                            /\ Structured \subseteq Raw
                            /\ Answers \in [Run \X Attempts -> SUBSET Raw]
                            /\ NoRaw \notin Raw
                            /\ MaxFaults \in Nat

VARIABLES
    cas,       \* raw outputs visible in the content-addressed store
    log,       \* what each run's journal holds
    view,      \* what the session of each run holds in memory
    pc,        \* where the session of each run is; "closed" without one
    attempt,   \* the attempt the current call is about
    raw,       \* the output the current call has in hand
    faults     \* faults so far

vars == <<cas, log, view, pc, attempt, raw, faults>>

-----------------------------------------------------------------------------
(***************************************************************************)
(* The aggregate a log replays to, as far as attempts concern it: raw      *)
(* artifact registrations, execution records and the obligation's          *)
(* lifecycle ("withdrawn" stands for stale, superseded and cancelled).     *)
(***************************************************************************)
Item == [attempt : Attempts, raw : Raw]
Aggregate == [regs : SUBSET Item, execs : SUBSET Item,
              life : {"in_progress", "completed", "withdrawn"}]

Of(items, a) == {i \in items : i.attempt = a}

\* ReviewAggregate::fake_attempt_state.
FakeAttemptState(g, a) ==
    IF Of(g.execs, a) # {}
    THEN IF g.life = "completed" /\ \A e \in Of(g.execs, a) : e.raw \in Structured
         THEN "Completed" ELSE "ExecutionRecorded"
    ELSE IF Of(g.regs, a) = {} THEN "None"
         ELSE IF \E i, j \in Of(g.regs, a) : i # j
              THEN "AmbiguousRawRegistrations" ELSE "RawRegistered"

\* What the three events do to it.
WithRegistration(g, a, x) ==
    [g EXCEPT !.regs = @ \cup {[attempt |-> a, raw |-> x]}]
WithExecution(g, a, x) ==
    [g EXCEPT !.execs = @ \cup {[attempt |-> a, raw |-> x]}]
WithCompletion(g) == [g EXCEPT !.life = "completed"]

\* ReviewAggregate::record_execution: the execution is new, its attempt follows
\* the highest one recorded, the obligation is in progress and the raw
\* registration is the execution's own.
RecordAdmitted(g, a, x) ==
    /\ Of(g.execs, a) = {}
    /\ \A e \in g.execs : e.attempt < a
    /\ a = 1 \/ Of(g.execs, a - 1) # {}
    /\ g.life = "in_progress"
    /\ [attempt |-> a, raw |-> x] \in g.regs

Init ==
    /\ cas = {}
    /\ log = [r \in Run |-> [regs |-> {}, execs |-> {}, life |-> "in_progress"]]
    /\ view = log
    /\ pc = [r \in Run |-> "closed"]
    /\ attempt = [r \in Run |-> 0]
    /\ raw = [r \in Run |-> NoRaw]
    /\ faults = 0

-----------------------------------------------------------------------------
(***************************************************************************)
(* Sessions                                                                *)
(***************************************************************************)
Goto(r, l) == pc' = [pc EXCEPT ![r] = l]

\* The call returns, with or without an error; the session stays open.
Done(r) ==
    /\ Goto(r, "open")
    /\ attempt' = [attempt EXCEPT ![r] = 0]
    /\ raw' = [raw EXCEPT ![r] = NoRaw]

\* The session ends and its lock is released.
Ended(r) ==
    /\ Goto(r, "closed")
    /\ attempt' = [attempt EXCEPT ![r] = 0]
    /\ raw' = [raw EXCEPT ![r] = NoRaw]

\* Mutant: a session that does not replay the journal.
OpenSessionStale(r) ==
    /\ pc[r] = "closed" /\ Goto(r, "open")
    /\ UNCHANGED <<cas, log, view, attempt, raw, faults>>

\* The journal is replayed under its lock.
OpenSession(r) ==
    /\ pc[r] = "closed" /\ Goto(r, "open")
    /\ view' = [view EXCEPT ![r] = log[r]]
    /\ UNCHANGED <<cas, log, attempt, raw, faults>>

CloseSession(r) ==
    /\ pc[r] = "open" /\ Ended(r)
    /\ UNCHANGED <<cas, log, view, faults>>

\* Another holder of the journal moves the obligation on.
Withdraw(r) ==
    /\ pc[r] = "closed"
    /\ log[r].life # "withdrawn"
    /\ log' = [log EXCEPT ![r].life = "withdrawn"]
    /\ UNCHANGED <<cas, view, pc, attempt, raw, faults>>

-----------------------------------------------------------------------------
(***************************************************************************)
(* resume_fake_attempt                                                     *)
(***************************************************************************)

\* Mutant: progress already made is not looked for.
BeginFreshUnchecked(r, a) ==
    /\ pc[r] = "open" /\ Goto(r, "prepared")
    /\ view[r].life = "in_progress"
    /\ attempt' = [attempt EXCEPT ![r] = a]
    /\ UNCHANGED <<cas, log, view, raw, faults>>

\* No progress: run_fresh_fake_attempt prepares the request.
BeginFresh(r, a) ==
    /\ pc[r] = "open" /\ Goto(r, "prepared")
    /\ FakeAttemptState(view[r], a) = "None"
    /\ view[r].life = "in_progress"
    /\ attempt' = [attempt EXCEPT ![r] = a]
    /\ UNCHANGED <<cas, log, view, raw, faults>>

\* Mutant: an attempt with durable progress is not taken up again.
BeginRegisteredRefused(r, a) == BeginFresh(r, a)

\* resume_raw_registered: the registered bytes are read back and parsed.
BeginRegistered(r, a) ==
    /\ pc[r] = "open" /\ Goto(r, "registered")
    /\ FakeAttemptState(view[r], a) = "RawRegistered"
    /\ view[r].life = "in_progress"
    /\ \E i \in Of(view[r].regs, a) :
          i.raw \in cas /\ raw' = [raw EXCEPT ![r] = i.raw]
    /\ attempt' = [attempt EXCEPT ![r] = a]
    /\ UNCHANGED <<cas, log, view, faults>>

\* resume_execution_recorded: a structured execution still has to complete its
\* obligation, any other one is settled.
BeginRecorded(r, a) ==
    /\ pc[r] = "open" /\ Goto(r, "recorded")
    /\ FakeAttemptState(view[r], a) = "ExecutionRecorded"
    /\ \E e \in Of(view[r].execs, a) :
          e.raw \in Structured /\ raw' = [raw EXCEPT ![r] = e.raw]
    /\ attempt' = [attempt EXCEPT ![r] = a]
    /\ UNCHANGED <<cas, log, view, faults>>

\* Reviewer::review, and the parse of what it returns.
Review(r, x) ==
    /\ pc[r] = "prepared" /\ Goto(r, "reviewed")
    /\ x \in Answers[<<r, attempt[r]>>]
    /\ raw' = [raw EXCEPT ![r] = x]
    /\ UNCHANGED <<cas, log, view, attempt, faults>>

\* CasStore::put, and the check for an orphan: an object that was there
\* already must be registered in this run.
Put(r) ==
    /\ pc[r] = "reviewed"
    /\ cas' = cas \cup {raw[r]}
    /\ \/ /\ raw[r] \notin cas \/ \E i \in view[r].regs : i.raw = raw[r]
          /\ Goto(r, "published")
          /\ UNCHANGED <<attempt, raw>>
       \/ /\ raw[r] \in cas /\ \A i \in view[r].regs : i.raw # raw[r]
          /\ Done(r)
    /\ UNCHANGED <<log, view, faults>>

-----------------------------------------------------------------------------
(***************************************************************************)
(* ReplayedV2RunSession::append_command: the event is staged and validated *)
(* on a copy of the session's log, appended, and then committed to it.     *)
(***************************************************************************)

\* The event the call is about to append is admitted, and the aggregate it
\* leads to.
Admitted(r) ==
    \/ pc[r] = "published"
    \/ pc[r] = "registered" /\ RecordAdmitted(view[r], attempt[r], raw[r])
    \/ pc[r] = "recorded" /\ view[r].life = "in_progress"

Staged(r) ==
    CASE pc[r] = "published"  -> WithRegistration(view[r], attempt[r], raw[r])
      [] pc[r] = "registered" -> WithExecution(view[r], attempt[r], raw[r])
      [] pc[r] = "recorded"   -> WithCompletion(view[r])

\* The append is durable; the call goes on to its next step.
Append(r) ==
    /\ Admitted(r)
    /\ log' = [log EXCEPT ![r] = Staged(r)]
    /\ view' = [view EXCEPT ![r] = Staged(r)]
    /\ \/ pc[r] = "published" /\ Goto(r, "registered") /\ UNCHANGED <<attempt, raw>>
       \/ /\ pc[r] = "registered" /\ raw[r] \in Structured
          /\ Goto(r, "recorded") /\ UNCHANGED <<attempt, raw>>
       \/ pc[r] = "registered" /\ raw[r] \notin Structured /\ Done(r)
       \/ pc[r] = "recorded" /\ Done(r)
    /\ UNCHANGED <<cas, faults>>

\* The aggregate refuses the staged event; nothing is written.
AppendRefused(r) ==
    /\ pc[r] \in {"registered", "recorded"}
    /\ ~Admitted(r)
    /\ Done(r)
    /\ UNCHANGED <<cas, log, view, faults>>

-----------------------------------------------------------------------------
(***************************************************************************)
(* Faults                                                                  *)
(***************************************************************************)
Fault == faults < MaxFaults /\ faults' = faults + 1

\* Mutant: the error of put is dropped.
PutFailsIgnored(r) ==
    /\ Fault
    /\ pc[r] = "reviewed" /\ Goto(r, "published")
    /\ UNCHANGED <<cas, log, view, attempt, raw>>

\* put fails, before or after the object became visible.
PutFails(r) ==
    /\ Fault
    /\ pc[r] = "reviewed"
    /\ cas' \in {cas, cas \cup {raw[r]}}
    /\ Done(r)
    /\ UNCHANGED <<log, view>>

\* The append fails and is rolled back.
AppendFails(r) ==
    /\ Fault
    /\ Admitted(r)
    /\ Done(r)
    /\ UNCHANGED <<cas, log, view>>

\* Mutant: the session stays healthy after an uncertain append.
AppendUncertainHealthy(r) ==
    /\ Fault
    /\ Admitted(r)
    /\ log' \in {log, [log EXCEPT ![r] = Staged(r)]}
    /\ Done(r)
    /\ UNCHANGED <<cas, view>>

\* The append is uncertain: recovery may find the event or not.  The session
\* answers SessionUncertain from then on and has to be reopened.
AppendUncertain(r) ==
    /\ Fault
    /\ Admitted(r)
    /\ log' \in {log, [log EXCEPT ![r] = Staged(r)]}
    /\ Ended(r)
    /\ UNCHANGED <<cas, view>>

\* The process is killed between two steps.
Kill(r) ==
    /\ Fault
    /\ pc[r] # "closed"
    /\ Ended(r)
    /\ UNCHANGED <<cas, log, view>>

-----------------------------------------------------------------------------
Begin(r, a) == BeginFresh(r, a) \/ BeginRegistered(r, a) \/ BeginRecorded(r, a)

\* The steps of a call once it has begun.
Carry(r) ==
    \/ \E x \in Raw : Review(r, x)
    \/ Put(r)
    \/ Append(r)
    \/ AppendRefused(r)

Break(r) ==
    \/ PutFails(r)
    \/ AppendFails(r)
    \/ AppendUncertain(r)
    \/ Kill(r)

Next ==
    \E r \in Run :
        \/ OpenSession(r) \/ CloseSession(r) \/ Withdraw(r)
        \/ \E a \in Attempts : Begin(r, a)
        \/ Carry(r)
        \/ Break(r)

Spec == Init /\ [][Next]_vars

-----------------------------------------------------------------------------
(***************************************************************************)
(* Properties                                                              *)
(***************************************************************************)
PCs == {"closed", "open", "prepared", "reviewed", "published", "registered",
        "recorded"}

\* Every variable has its type.
TypeOK ==
    /\ cas \in SUBSET Raw
    /\ log \in [Run -> Aggregate]
    /\ view \in [Run -> Aggregate]
    /\ pc \in [Run -> PCs]
    /\ attempt \in [Run -> Attempts \cup {0}]
    /\ raw \in [Run -> Raw \cup {NoRaw}]
    /\ faults \in Nat

\* ADR 0020: the runtime "never invokes the same attempt after its raw
\* registration or execution exists", also when an append whose outcome was
\* uncertain turns out to have landed.
NeverReinvoked ==
    [][\A r \in Run : pc[r] = "prepared" /\ pc'[r] = "reviewed" =>
            FakeAttemptState(log[r], attempt[r]) = "None"]_vars

\* Retries, lost calls and uncertain appends never register two raw outputs
\* for one execution: AmbiguousRawRegistration is never returned.
NeverAmbiguous ==
    \A r \in Run, a \in Attempts :
        FakeAttemptState(log[r], a) # "AmbiguousRawRegistrations"

\* Every recorded execution is recorded from the output that was registered
\* for it, and the store still has those bytes, however often the attempt was
\* cut off and resumed.
RecordedFromRegistered ==
    \A r \in Run : /\ log[r].execs \subseteq log[r].regs
                   /\ \A i \in log[r].regs : i.raw \in cas

\* "transitions only structured outcomes to Completed" (ADR 0020): a completed
\* obligation has a structured execution.
CompletionsEarned ==
    \A r \in Run : log[r].life = "completed" =>
        \E e \in log[r].execs : e.raw \in Structured

-----------------------------------------------------------------------------
(***************************************************************************)
(* The inductive invariant                                                 *)
(***************************************************************************)

\* An open session knows the whole log.
ViewInv == \A r \in Run : pc[r] # "closed" => view[r] = log[r]

\* What the call of run r has established when it reaches each of its steps.
CallOK(r) ==
    /\ pc[r] \notin {"closed", "open"} => attempt[r] \in Attempts
    /\ pc[r] \in {"reviewed", "published", "registered", "recorded"} =>
          raw[r] \in Raw
    /\ pc[r] \in {"prepared", "reviewed", "published"} =>
          Of(log[r].regs, attempt[r]) = {} /\ Of(log[r].execs, attempt[r]) = {}
    /\ pc[r] = "published" => raw[r] \in cas
    /\ pc[r] = "recorded" =>
          /\ raw[r] \in Structured
          /\ [attempt |-> attempt[r], raw |-> raw[r]] \in log[r].execs

CallInv == \A r \in Run : CallOK(r)

\* One registration and one execution per attempt.
UniqueInv ==
    \A r \in Run : \A i, j \in log[r].regs : i.attempt = j.attempt => i = j

\* Everything above together is preserved by every step.
IInv == /\ TypeOK
        /\ ViewInv
        /\ CallInv
        /\ UniqueInv
        /\ RecordedFromRegistered
        /\ CompletionsEarned

-----------------------------------------------------------------------------
(***************************************************************************)
(* Progress                                                                *)
(***************************************************************************)

\* A caller that starts an attempt only when every earlier one is settled:
\* recorded, and not structured.
InOrder(r, a) ==
    \A b \in 1 .. a - 1 : \E e \in Of(log[r].execs, b) : e.raw \notin Structured

OrderedNext ==
    \E r \in Run :
        \/ OpenSession(r) \/ CloseSession(r) \/ Withdraw(r)
        \/ \E a \in Attempts : InOrder(r, a) /\ Begin(r, a)
        \/ Carry(r)
        \/ Break(r)

\* The caller reopens the session and resumes each attempt again and again,
\* and a call that has begun goes on.
Retries == \A r \in Run : /\ WF_vars(OpenSession(r))
                          /\ WF_vars(Carry(r))
                          /\ \A a \in Attempts : SF_vars(Begin(r, a))

OrderedSpec == Init /\ [][OrderedNext]_vars /\ Retries

\* "Runtime resumes at the first missing step" (ADR 0020): a registered output
\* is eventually recorded, unless the obligation is withdrawn.
ResumeSettles ==
    \A r \in Run, a \in Attempts :
        FakeAttemptState(log[r], a) = "RawRegistered" ~>
            \/ FakeAttemptState(log[r], a) \in {"ExecutionRecorded", "Completed"}
            \/ log[r].life = "withdrawn"

=============================================================================
