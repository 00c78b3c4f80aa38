--------------------------- MODULE AttemptProofs ---------------------------
(***************************************************************************)
(* Proofs about Attempt, for any number of runs and attempts, any reviewer *)
(* and any number of faults.                                               *)
(***************************************************************************)
EXTENDS Attempt, TLAPS

-----------------------------------------------------------------------------
(***************************************************************************)
(* Every step preserves the inductive invariant.                           *)
(***************************************************************************)

\* What an admitted event leads to: a well-formed aggregate, in which each
\* attempt has one registration, executions come from registrations, and the
\* obligation is completed only by a structured execution.
LEMMA StagedFacts ==
    ASSUME NEW r \in Run, IInv, Admitted(r)
    PROVE  /\ pc[r] \in {"published", "registered", "recorded"}
           /\ Staged(r) \in Aggregate
           /\ \A i, j \in Staged(r).regs : i.attempt = j.attempt => i = j
           /\ Staged(r).execs \subseteq Staged(r).regs
           /\ \A i \in Staged(r).regs : i.raw \in cas
           /\ Staged(r).life = "completed" =>
                 \E e \in Staged(r).execs : e.raw \in Structured
           /\ pc[r] = "registered" =>
                 [attempt |-> attempt[r], raw |-> raw[r]] \in Staged(r).execs
<1> DEFINE new == [attempt |-> attempt[r], raw |-> raw[r]]
<1>1. /\ pc[r] \in {"published", "registered", "recorded"}
      /\ view[r] = log[r] /\ log[r] \in Aggregate
      /\ attempt[r] \in Attempts /\ raw[r] \in Raw /\ new \in Item
  BY DEF IInv, TypeOK, ViewInv, CallInv, CallOK, Admitted, Item
<1>2. /\ \A i, j \in log[r].regs : i.attempt = j.attempt => i = j
      /\ log[r].execs \subseteq log[r].regs
      /\ \A i \in log[r].regs : i.raw \in cas
      /\ log[r].life = "completed" => \E e \in log[r].execs : e.raw \in Structured
  BY DEF IInv, UniqueInv, RecordedFromRegistered, CompletionsEarned
<1>3. CASE pc[r] = "published"
  <2>1. /\ Staged(r).regs = log[r].regs \cup {new}
        /\ Staged(r).execs = log[r].execs
        /\ Staged(r).life = log[r].life
        /\ Staged(r) \in Aggregate
    BY <1>1, <1>3 DEF Staged, WithRegistration, Aggregate
  <2>2. (\A i \in log[r].regs : i.attempt # attempt[r]) /\ raw[r] \in cas
    BY <1>3 DEF IInv, CallInv, CallOK, Of
  <2>3. new.attempt = attempt[r] /\ new.raw = raw[r]
    OBVIOUS
  <2>4. \A i, j \in Staged(r).regs : i.attempt = j.attempt => i = j
    <3> HIDE DEF new
    <3> QED
      BY <1>2, <2>1, <2>2, <2>3
  <2>5. QED
    BY <1>2, <1>3, <2>1, <2>2, <2>3, <2>4
<1>4. CASE pc[r] = "registered"
  <2>1. /\ Staged(r).regs = log[r].regs
        /\ Staged(r).execs = log[r].execs \cup {new}
        /\ Staged(r).life = log[r].life
        /\ Staged(r) \in Aggregate
    BY <1>1, <1>4 DEF Staged, WithExecution, Aggregate
  <2>2. new \in log[r].regs
    BY <1>1, <1>4 DEF Admitted, RecordAdmitted
  <2>3. QED
    BY <1>2, <1>4, <2>1, <2>2
<1>5. CASE pc[r] = "recorded"
  <2>1. /\ Staged(r).regs = log[r].regs
        /\ Staged(r).execs = log[r].execs
        /\ Staged(r) \in Aggregate
    BY <1>1, <1>5 DEF Staged, WithCompletion, Aggregate
  <2>2. raw[r] \in Structured /\ new \in log[r].execs /\ new.raw = raw[r]
    BY <1>5 DEF IInv, CallInv, CallOK
  <2>3. QED
    BY <1>2, <1>5, <2>1, <2>2
<1>6. QED
  BY <1>1, <1>3, <1>4, <1>5

\* A session replays the whole log.
LEMMA OpenSessionStep ==
    ASSUME NEW r \in Run, IInv, OpenSession(r)
    PROVE  IInv'
<1> USE AttemptAssumption
    DEF OpenSession, Goto, IInv, TypeOK, Aggregate
<1>1. TypeOK'
  BY DEF PCs
<1>2. ViewInv'
  BY DEF ViewInv
<1>3. CallInv'
  BY DEF CallInv, CallOK, ViewInv, Of
<1>4. UniqueInv'
  BY DEF UniqueInv
<1>5. RecordedFromRegistered'
  BY DEF RecordedFromRegistered
<1>6. CompletionsEarned'
  BY DEF CompletionsEarned
<1>7. QED
  BY <1>1, <1>2, <1>3, <1>4, <1>5, <1>6 DEF IInv

\* A session is closed.
LEMMA CloseSessionStep ==
    ASSUME NEW r \in Run, IInv, CloseSession(r)
    PROVE  IInv'
<1> USE AttemptAssumption
    DEF CloseSession, Goto, Ended, IInv, TypeOK, Aggregate
<1>1. TypeOK'
  BY DEF PCs
<1>2. ViewInv'
  BY DEF ViewInv
<1>3. CallInv'
  BY DEF CallInv, CallOK, ViewInv, Of
<1>4. UniqueInv'
  BY DEF UniqueInv
<1>5. RecordedFromRegistered'
  BY DEF RecordedFromRegistered
<1>6. CompletionsEarned'
  BY DEF CompletionsEarned
<1>7. QED
  BY <1>1, <1>2, <1>3, <1>4, <1>5, <1>6 DEF IInv

\* Somebody else moves the obligation on, between two sessions.
LEMMA WithdrawStep ==
    ASSUME NEW r \in Run, IInv, Withdraw(r)
    PROVE  IInv'
<1> USE AttemptAssumption
    DEF Withdraw, IInv, TypeOK, Aggregate
<1>1. TypeOK'
  BY DEF PCs
<1>2. ViewInv'
  BY DEF ViewInv
<1>3. CallInv'
  BY DEF CallInv, CallOK, ViewInv, Of
<1>4. UniqueInv'
  BY DEF UniqueInv
<1>5. RecordedFromRegistered'
  BY DEF RecordedFromRegistered
<1>6. CompletionsEarned'
  BY DEF CompletionsEarned
<1>7. QED
  BY <1>1, <1>2, <1>3, <1>4, <1>5, <1>6 DEF IInv

\* A fresh attempt begins: there is no trace of it.
LEMMA BeginFreshStep ==
    ASSUME NEW r \in Run, NEW a \in Attempts, IInv, BeginFresh(r, a)
    PROVE  IInv'
<1> USE AttemptAssumption
    DEF BeginFresh, Goto, FakeAttemptState, Of, IInv, TypeOK, Aggregate
<1>1. TypeOK'
  BY DEF PCs
<1>2. ViewInv'
  BY DEF ViewInv
<1>3. CallInv'
  <2>1. /\ pc' = [pc EXCEPT ![r] = "prepared"]
        /\ attempt' = [attempt EXCEPT ![r] = a]
        /\ Of(log[r].regs, a) = {} /\ Of(log[r].execs, a) = {}
    BY DEF ViewInv
  <2>2. CallOK(r)'
    BY <2>1 DEF CallOK, ViewInv, Of
  <2>3. ASSUME NEW q \in Run, q # r PROVE CallOK(q)'
    BY <2>3 DEF CallInv, CallOK, ViewInv, Of
  <2>4. QED
    BY <2>2, <2>3 DEF CallInv
<1>4. UniqueInv'
  BY DEF UniqueInv
<1>5. RecordedFromRegistered'
  BY DEF RecordedFromRegistered
<1>6. CompletionsEarned'
  BY DEF CompletionsEarned
<1>7. QED
  BY <1>1, <1>2, <1>3, <1>4, <1>5, <1>6 DEF IInv

\* A registered attempt is resumed from its own bytes.
LEMMA BeginRegisteredStep ==
    ASSUME NEW r \in Run, NEW a \in Attempts, IInv, BeginRegistered(r, a)
    PROVE  IInv'
<1> USE AttemptAssumption
    DEF BeginRegistered, Goto, FakeAttemptState, Of, IInv, TypeOK, Aggregate
<1>1. TypeOK'
  BY DEF PCs
<1>2. ViewInv'
  BY DEF ViewInv
<1>3. CallInv'
  <2>1. PICK i \in Of(view[r].regs, a) : raw' = [raw EXCEPT ![r] = i.raw]
    OBVIOUS
  <2>2. i.raw \in Raw
    BY <2>1 DEF Of, Item
  <2>3. /\ pc' = [pc EXCEPT ![r] = "registered"]
        /\ attempt' = [attempt EXCEPT ![r] = a]
        /\ UNCHANGED <<cas, log>>
    OBVIOUS
  <2> HIDE DEF BeginRegistered
  <2>4. QED
    BY <2>1, <2>2, <2>3 DEF CallInv, CallOK
<1>4. UniqueInv'
  BY DEF UniqueInv
<1>5. RecordedFromRegistered'
  BY DEF RecordedFromRegistered
<1>6. CompletionsEarned'
  BY DEF CompletionsEarned
<1>7. QED
  BY <1>1, <1>2, <1>3, <1>4, <1>5, <1>6 DEF IInv

\* A recorded attempt is resumed for its completion.
LEMMA BeginRecordedStep ==
    ASSUME NEW r \in Run, NEW a \in Attempts, IInv, BeginRecorded(r, a)
    PROVE  IInv'
<1> USE AttemptAssumption
    DEF BeginRecorded, Goto, FakeAttemptState, Of, IInv, TypeOK, Aggregate
<1>1. TypeOK'
  BY DEF PCs
<1>2. ViewInv'
  BY DEF ViewInv
<1>3. CallInv'
  <2>1. PICK e \in Of(view[r].execs, a) :
            e.raw \in Structured /\ raw' = [raw EXCEPT ![r] = e.raw]
    OBVIOUS
  <2>2. e \in log[r].execs /\ e = [attempt |-> a, raw |-> e.raw]
    BY <2>1 DEF Of, Item, ViewInv
  <2>3. QED
    BY <2>1, <2>2 DEF CallInv, CallOK
<1>4. UniqueInv'
  BY DEF UniqueInv
<1>5. RecordedFromRegistered'
  BY DEF RecordedFromRegistered
<1>6. CompletionsEarned'
  BY DEF CompletionsEarned
<1>7. QED
  BY <1>1, <1>2, <1>3, <1>4, <1>5, <1>6 DEF IInv

\* The reviewer answers.
LEMMA ReviewStep ==
    ASSUME NEW r \in Run, NEW x \in Raw, IInv, Review(r, x)
    PROVE  IInv'
<1> USE AttemptAssumption
    DEF Review, Goto, IInv, TypeOK, Aggregate
<1>1. TypeOK'
  BY DEF PCs
<1>2. ViewInv'
  BY DEF ViewInv
<1>3. CallInv'
  BY DEF CallInv, CallOK, ViewInv, Of
<1>4. UniqueInv'
  BY DEF UniqueInv
<1>5. RecordedFromRegistered'
  BY DEF RecordedFromRegistered
<1>6. CompletionsEarned'
  BY DEF CompletionsEarned
<1>7. QED
  BY <1>1, <1>2, <1>3, <1>4, <1>5, <1>6 DEF IInv

\* The output is published, or refused as an orphan.
LEMMA PutStep ==
    ASSUME NEW r \in Run, IInv, Put(r)
    PROVE  IInv'
<1> USE AttemptAssumption
    DEF Put, Goto, Done, IInv, TypeOK, Aggregate
<1>1. TypeOK'
  <2>1. raw[r] \in Raw
    BY DEF CallInv, CallOK
  <2>2. QED
    BY <2>1 DEF PCs
<1>2. ViewInv'
  BY DEF ViewInv
<1>3. CallInv'
  <2>1. CASE pc' = [pc EXCEPT ![r] = "published"] /\ UNCHANGED <<attempt, raw>>
    BY <2>1 DEF CallInv, CallOK
  <2>2. CASE Done(r)
    BY <2>2 DEF CallInv, CallOK
  <2>3. QED
    BY <2>1, <2>2
<1>4. UniqueInv'
  BY DEF UniqueInv
<1>5. RecordedFromRegistered'
  BY DEF RecordedFromRegistered
<1>6. CompletionsEarned'
  BY DEF CompletionsEarned
<1>7. QED
  BY <1>1, <1>2, <1>3, <1>4, <1>5, <1>6 DEF IInv

\* An event is appended and committed to the session's log.
LEMMA AppendStep ==
    ASSUME NEW r \in Run, IInv, Append(r)
    PROVE  IInv'
<1> USE AttemptAssumption
    DEF IInv, TypeOK
<1>a. /\ log' = [log EXCEPT ![r] = Staged(r)]
      /\ view' = [view EXCEPT ![r] = Staged(r)]
      /\ Admitted(r)
      /\ \/ /\ pc[r] = "published" /\ pc' = [pc EXCEPT ![r] = "registered"]
            /\ UNCHANGED <<attempt, raw>>
         \/ /\ pc[r] = "registered" /\ raw[r] \in Structured
            /\ pc' = [pc EXCEPT ![r] = "recorded"] /\ UNCHANGED <<attempt, raw>>
         \/ /\ pc' = [pc EXCEPT ![r] = "open"]
            /\ attempt' = [attempt EXCEPT ![r] = 0]
            /\ raw' = [raw EXCEPT ![r] = NoRaw]
      /\ UNCHANGED <<cas, faults>>
  BY DEF Append, Goto, Done
<1>1. TypeOK'
  <2>1. log' \in [Run -> Aggregate] /\ view' \in [Run -> Aggregate]
    BY <1>a, StagedFacts
  <2>2. QED
    BY <1>a, <2>1 DEF PCs
<1>2. ViewInv'
  BY <1>a DEF ViewInv
<1>3. CallInv'
  <2>1. ASSUME NEW s \in Run, s # r
        PROVE  CallOK(s)'
    <3>1. CallOK(s) /\ log'[s] = log[s] /\ pc'[s] = pc[s] /\ attempt'[s] = attempt[s]
             /\ raw'[s] = raw[s] /\ cas' = cas
      BY <1>a, <2>1 DEF CallInv
    <3>2. QED
      BY <3>1 DEF CallOK, Of
  <2>2. CallOK(r)'
    <3>a. pc[r] \in {"published", "registered", "recorded"} /\ CallOK(r)
      BY <1>a, StagedFacts DEF CallInv
    <3>b. attempt[r] \in Attempts /\ raw[r] \in Raw
      BY <3>a DEF CallOK
    <3>1. log'[r] = Staged(r) /\ cas' = cas /\ attempt[r] \in Attempts /\ raw[r] \in Raw
      BY <1>a, <3>b
    <3>2. CASE /\ pc[r] = "published" /\ pc' = [pc EXCEPT ![r] = "registered"]
               /\ UNCHANGED <<attempt, raw>>
      BY <3>1, <3>2 DEF CallOK
    <3>3. CASE /\ pc[r] = "registered" /\ raw[r] \in Structured
               /\ pc' = [pc EXCEPT ![r] = "recorded"] /\ UNCHANGED <<attempt, raw>>
      <4>1. [attempt |-> attempt[r], raw |-> raw[r]] \in Staged(r).execs
        BY <1>a, <3>3, StagedFacts
      <4>2. pc'[r] = "recorded" /\ attempt'[r] = attempt[r] /\ raw'[r] = raw[r]
        BY <3>3
      <4>3. QED
        BY <3>1, <3>3, <4>1, <4>2 DEF CallOK
    <3>4. CASE pc' = [pc EXCEPT ![r] = "open"]
      BY <3>4 DEF CallOK
    <3>5. QED
      BY <1>a, <3>2, <3>3, <3>4
  <2>3. QED
    BY <2>1, <2>2 DEF CallInv
<1>4. UniqueInv'
  BY <1>a, StagedFacts DEF UniqueInv
<1>5. RecordedFromRegistered'
  BY <1>a, StagedFacts DEF RecordedFromRegistered
<1>6. CompletionsEarned'
  BY <1>a, StagedFacts DEF CompletionsEarned
<1>7. QED
  BY <1>1, <1>2, <1>3, <1>4, <1>5, <1>6 DEF IInv

\* The aggregate refuses the event.
LEMMA AppendRefusedStep ==
    ASSUME NEW r \in Run, IInv, AppendRefused(r)
    PROVE  IInv'
<1> USE AttemptAssumption
    DEF AppendRefused, Goto, Done, IInv, TypeOK, Aggregate
<1>1. TypeOK'
  BY DEF PCs
<1>2. ViewInv'
  BY DEF ViewInv
<1>3. CallInv'
  BY DEF CallInv, CallOK, ViewInv, Of
<1>4. UniqueInv'
  BY DEF UniqueInv
<1>5. RecordedFromRegistered'
  BY DEF RecordedFromRegistered
<1>6. CompletionsEarned'
  BY DEF CompletionsEarned
<1>7. QED
  BY <1>1, <1>2, <1>3, <1>4, <1>5, <1>6 DEF IInv

\* put fails.
LEMMA PutFailsStep ==
    ASSUME NEW r \in Run, IInv, PutFails(r)
    PROVE  IInv'
<1> USE AttemptAssumption
    DEF PutFails, Fault, Goto, Done, IInv, TypeOK, Aggregate
<1>1. TypeOK'
  <2>1. raw[r] \in Raw
    BY DEF CallInv, CallOK
  <2>2. cas' \in SUBSET Raw /\ faults' \in Nat
    BY <2>1
  <2>3. QED
    BY <2>2 DEF PCs
<1>2. ViewInv'
  BY DEF ViewInv
<1>3. CallInv'
  BY DEF CallInv, CallOK, ViewInv, Of
<1>4. UniqueInv'
  BY DEF UniqueInv
<1>5. RecordedFromRegistered'
  BY DEF RecordedFromRegistered
<1>6. CompletionsEarned'
  BY DEF CompletionsEarned
<1>7. QED
  BY <1>1, <1>2, <1>3, <1>4, <1>5, <1>6 DEF IInv

\* The append fails and is rolled back.
LEMMA AppendFailsStep ==
    ASSUME NEW r \in Run, IInv, AppendFails(r)
    PROVE  IInv'
<1> USE AttemptAssumption
    DEF AppendFails, Fault, Goto, Done, IInv, TypeOK, Aggregate
<1>1. TypeOK'
  BY DEF PCs
<1>2. ViewInv'
  BY DEF ViewInv, Admitted
<1>3. CallInv'
  BY DEF CallInv, CallOK, ViewInv, Of
<1>4. UniqueInv'
  BY DEF UniqueInv
<1>5. RecordedFromRegistered'
  BY DEF RecordedFromRegistered
<1>6. CompletionsEarned'
  BY DEF CompletionsEarned
<1>7. QED
  BY <1>1, <1>2, <1>3, <1>4, <1>5, <1>6 DEF IInv

\* The append is uncertain: the event may be in the log, the session is gone.
LEMMA AppendUncertainStep ==
    ASSUME NEW r \in Run, IInv, AppendUncertain(r)
    PROVE  IInv'
<1> USE AttemptAssumption
    DEF IInv, TypeOK
<1>a. /\ log' = log \/ log' = [log EXCEPT ![r] = Staged(r)]
      /\ Admitted(r)
      /\ pc' = [pc EXCEPT ![r] = "closed"]
      /\ attempt' = [attempt EXCEPT ![r] = 0]
      /\ raw' = [raw EXCEPT ![r] = NoRaw]
      /\ UNCHANGED <<cas, view>>
  BY DEF AppendUncertain, Goto, Ended
<1>1. TypeOK'
  <2>1. Staged(r) \in Aggregate
    BY <1>a, StagedFacts
  <2>2. log' \in [Run -> Aggregate]
    BY <1>a, <2>1
  <2>3. faults' \in Nat
    BY DEF AppendUncertain, Fault
  <2>4. QED
    BY <1>a, <2>2, <2>3 DEF PCs
<1>2. ViewInv'
  BY <1>a DEF ViewInv
<1>3. CallInv'
  BY <1>a DEF CallInv, CallOK, Of
<1>4. UniqueInv'
  BY <1>a, StagedFacts DEF UniqueInv
<1>5. RecordedFromRegistered'
  <2>1. CASE log' = log
    BY <1>a, <2>1 DEF RecordedFromRegistered
  <2>2. CASE log' = [log EXCEPT ![r] = Staged(r)]
    BY <1>a, <2>2, StagedFacts DEF RecordedFromRegistered
  <2>3. QED
    BY <1>a, <2>1, <2>2
<1>6. CompletionsEarned'
  BY <1>a, StagedFacts DEF CompletionsEarned
<1>7. QED
  BY <1>1, <1>2, <1>3, <1>4, <1>5, <1>6 DEF IInv

\* The process is killed.
LEMMA KillStep ==
    ASSUME NEW r \in Run, IInv, Kill(r)
    PROVE  IInv'
<1> USE AttemptAssumption
    DEF Kill, Fault, Goto, Ended, IInv, TypeOK, Aggregate
<1>1. TypeOK'
  BY DEF PCs
<1>2. ViewInv'
  BY DEF ViewInv
<1>3. CallInv'
  BY DEF CallInv, CallOK, ViewInv, Of
<1>4. UniqueInv'
  BY DEF UniqueInv
<1>5. RecordedFromRegistered'
  BY DEF RecordedFromRegistered
<1>6. CompletionsEarned'
  BY DEF CompletionsEarned
<1>7. QED
  BY <1>1, <1>2, <1>3, <1>4, <1>5, <1>6 DEF IInv

-----------------------------------------------------------------------------
(***************************************************************************)
(* The theorems                                                            *)
(***************************************************************************)

\* A step of the specification is one of its actions.
LEMMA NextStep == ASSUME IInv, Next PROVE IInv'
<1>1. PICK r \in Run :
          \/ OpenSession(r) \/ CloseSession(r) \/ Withdraw(r)
          \/ \E a \in Attempts : Begin(r, a)
          \/ Carry(r)
          \/ Break(r)
  BY DEF Next
<1>2. CASE OpenSession(r) \/ CloseSession(r) \/ Withdraw(r)
  BY <1>2, OpenSessionStep, CloseSessionStep, WithdrawStep
<1>3. CASE \E a \in Attempts : Begin(r, a)
  BY <1>3, BeginFreshStep, BeginRegisteredStep, BeginRecordedStep DEF Begin
<1>4. CASE Carry(r)
  BY <1>4, ReviewStep, PutStep, AppendStep, AppendRefusedStep DEF Carry
<1>5. CASE Break(r)
  BY <1>5, PutFailsStep, AppendFailsStep, AppendUncertainStep, KillStep DEF Break
<1>6. QED
  BY <1>1, <1>2, <1>3, <1>4, <1>5

\* The inductive invariant of durable attempts.
THEOREM AttemptInv == Spec => []IInv
<1>1. Init => IInv
  <2> SUFFICES ASSUME Init PROVE IInv
    OBVIOUS
  <2>1. TypeOK
    BY AttemptAssumption DEF Init, TypeOK, Aggregate, PCs
  <2>2. ViewInv /\ CallInv /\ UniqueInv /\ RecordedFromRegistered
        /\ CompletionsEarned
    BY DEF Init, ViewInv, CallInv, CallOK, UniqueInv, RecordedFromRegistered,
       CompletionsEarned
  <2>3. QED
    BY <2>1, <2>2 DEF IInv
<1>2. IInv /\ UNCHANGED vars => IInv'
  BY DEF vars, IInv, TypeOK, ViewInv, CallInv, CallOK, UniqueInv,
     RecordedFromRegistered, CompletionsEarned
<1>3. QED
  BY <1>1, <1>2, NextStep, PTL DEF Spec

\* No execution ever has two registered outputs.
THEOREM RegistrationsAreUnique == Spec => []NeverAmbiguous
<1>1. IInv => NeverAmbiguous
  BY DEF IInv, UniqueInv, NeverAmbiguous, FakeAttemptState, Of
<1>2. QED
  BY <1>1, AttemptInv, PTL

\* An execution is recorded from the output registered for it, and the store
\* has the bytes.
THEOREM ExecutionsAreBacked == Spec => []RecordedFromRegistered
<1>1. IInv => RecordedFromRegistered
  BY DEF IInv
<1>2. QED
  BY <1>1, AttemptInv, PTL

\* A completed obligation has a structured execution.
THEOREM CompletionsAreEarned == Spec => []CompletionsEarned
<1>1. IInv => CompletionsEarned
  BY DEF IInv
<1>2. QED
  BY <1>1, AttemptInv, PTL

\* The reviewer is not asked again about an attempt with durable progress.
THEOREM ReviewersAskedOnce == Spec => NeverReinvoked
<1> DEFINE Asked == \A r \in Run : pc[r] = "prepared" /\ pc'[r] = "reviewed" =>
                        FakeAttemptState(log[r], attempt[r]) = "None"
<1>1. IInv => Asked
  BY DEF IInv, CallInv, CallOK, FakeAttemptState
<1>2. QED
  BY <1>1, AttemptInv, PTL DEF NeverReinvoked
=============================================================================
