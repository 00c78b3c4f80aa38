----------------------------- MODULE Assessment -----------------------------
(***************************************************************************)
(* The assessment of claims from recorded evidence, verifications, human   *)
(* decisions and findings: ClaimAssessmentV3 of                            *)
(* crates/reviewgraphen-core/src/m4.rs, the V3 part of the event log of    *)
(* crates/reviewgraphen-core/src/event.rs that mints and appends those     *)
(* records, and the replayed session of                                    *)
(* crates/reviewgraphen-store/src/journal.rs that makes them durable.      *)
(*                                                                         *)
(* A verification bundle is named by its verifier run; its evidence, its   *)
(* binding and its verification all carry that name.  A decision is its    *)
(* own identity, because its ID is a hash of its content; a finding is     *)
(* named by its place among the findings of its claim.  A tail hash is the *)
(* length of the log, which only grows: module Journal shows it, and       *)
(* module Bundle shows that a bundle's lines are all or resumed.  Bytes,   *)
(* timestamps, memory budgets and the registration of inputs and outputs   *)
(* are left out.                                                           *)
(***************************************************************************)
EXTENDS Naturals, Sequences, FiniteSets

CONSTANTS
    Claim,      \* the claims that executions may record
    Issue,      \* those whose property and polarity can carry a finding
    Run,        \* the verifier runs
    Of,         \* the claim each verifies
    Shape,      \* what each yields: "fixture", "static" or "bare"
    Human,      \* an actor, its rationale and its time of issue
    Grants,     \* the decisions the trust roots authorise
    MaxSet,     \* records of one kind an assessment holds
    MaxLog,     \* events in the log (a bound of the model)
    MaxTokens,  \* admissions minted and not yet used (a bound of the model)
    None

Outcome == {"accept", "reject", "defer", "exception"}

\* A fixture reproduces and passes and a static fact qualifies; a bare run is
\* a verification that cites no evidence.  The fixture of a claim is
\* deterministic, so that a claim has at most one.
ASSUME RunAssumption ==
    /\ Issue \subseteq Claim /\ Of \in [Run -> Claim]
    /\ Shape \in [Run -> {"fixture", "static", "bare"}]
    /\ \A r, q \in Run : /\ Shape[r] = "fixture" => Of[r] \in Issue
                         /\ /\ Shape[r] = "fixture" /\ Shape[q] = "fixture"
                            /\ Of[r] = Of[q]
                            => r = q
ASSUME GrantAssumption == Grants \subseteq Human \X Outcome
ASSUME BoundAssumption == MaxSet \in Nat /\ MaxLog \in Nat /\ MaxTokens \in Nat

\* exact_sources: cited are the runs whose evidence and binding a decision
\* names, checked those whose verification it names; the claim is implied.
Sources == [cited : SUBSET Run, checked : SUBSET Run]
Decision == [type : {"decision"}, claim : Claim, outcome : Outcome,
             human : Human, sources : Sources]
Status == {"unverified_candidate", "verified_candidate", "accepted", "rejected"}
Finding == [type : {"finding"}, claim : Claim, status : Status,
            evidence : SUBSET Run, verifications : SUBSET Run,
            decision : Decision \cup {None}, supersedes : Nat]
Record == [type : {"evidence", "binding", "verification"}, run : Run]
Execution == [type : {"execution"}, claim : Claim]
Event == Execution \cup Record \cup Decision \cup Finding

ASSUME NoneAssumption == None \notin Decision

\* ClaimAssessmentV3.
Assessed == [disposition : {"proposed", "supported", "accepted", "rejected"},
             review : {"unreviewed", "human_reviewed", "accepted", "rejected"},
             bindings : SUBSET Run, verifications : SUBSET Run,
             decisions : SUBSET Decision, findings : Seq(Finding),
             active : Decision \cup {None}, current : Nat, conflict : BOOLEAN]
\* V3RunAggregate.
Aggregate == [known : SUBSET Claim, evidence : SUBSET Run,
              assessments : [Claim -> Assessed]]
\* ValidatedDecisionV3, ValidatedFindingV3, ValidatedVerificationBundleV3:
\* the tail they were minted on and what they append.
Token == [at : Nat, events : Seq(Event)]

VARIABLES
    log,     \* the events of the journal
    plan,    \* the lines a pending verification bundle still lacks
    mode,    \* the session: closed, opening, healthy, appending, uncertain
    read,    \* how many events the session has applied
    state,   \* its aggregate
    tokens,  \* the admissions the host holds
    minted,  \* for each event, the length of the log its admission was minted on
    trail    \* the aggregate after each number of events, as it was first built

vars == <<log, plan, mode, read, state, tokens, minted, trail>>

-----------------------------------------------------------------------------
(***************************************************************************)
(* The reducer of one claim                                                *)
(***************************************************************************)
NewAssessment ==
    [disposition |-> "proposed", review |-> "unreviewed",
     bindings |-> {}, verifications |-> {}, decisions |-> {}, findings |-> <<>>,
     active |-> None, current |-> 0, conflict |-> FALSE]

Reproducing(a) == {r \in a.bindings : Shape[r] = "fixture"}
Passed(a) == {r \in a.verifications : Shape[r] = "fixture"}
NotPassed(a) == {r \in a.verifications : Shape[r] # "fixture"}

Baseline(a) == IF Reproducing(a) # {} THEN "supported" ELSE "proposed"

\* Mutant: a later record leaves the decision in force.
InvalidateTraceNever(a) == [a EXCEPT !.current = 0]
\* Mutant: a later record leaves the finding current.
InvalidateTraceKeepsFinding(a) ==
    IF a.active = None THEN a
    ELSE [a EXCEPT !.active = None, !.disposition = Baseline(a),
                   !.review = "human_reviewed", !.conflict = TRUE]

InvalidateTrace(a) ==
    IF a.active = None THEN [a EXCEPT !.current = 0]
    ELSE [a EXCEPT !.current = 0, !.active = None, !.disposition = Baseline(a),
                   !.review = "human_reviewed", !.conflict = TRUE]

RecordBinding(a, r) ==
    LET b == [InvalidateTrace(a) EXCEPT !.bindings = @ \cup {r}]
    IN  [b EXCEPT !.disposition = Baseline(b)]

RecordVerification(a, r) == [InvalidateTrace(a) EXCEPT !.verifications = @ \cup {r}]

ExactSources(a, outcome) ==
    CASE outcome = "accept" ->
           [cited |-> Reproducing(a), checked |-> Passed(a) \cap Reproducing(a)]
      [] outcome = "defer" ->
           [cited |-> {r \in NotPassed(a) : Shape[r] # "bare"}, checked |-> NotPassed(a)]
      [] OTHER -> [cited |-> {}, checked |-> {}]

DecisionAdmitted(a, d) ==
    /\ d \notin a.decisions
    /\ d.sources = ExactSources(a, d.outcome)
    /\ d.outcome = "accept" => d.sources.checked # {} /\ Baseline(a) = "supported"
    /\ Cardinality(a.decisions) < MaxSet

\* Mutant: a new decision leaves the conflict standing.
RecordDecisionKeepsConflict(a, d) ==
    [a EXCEPT
        !.decisions = @ \cup {d}, !.active = d, !.current = 0,
        !.disposition = CASE d.outcome = "accept" -> "accepted"
                          [] d.outcome = "reject" -> "rejected"
                          [] OTHER -> Baseline(a),
        !.review = CASE d.outcome = "accept" -> "accepted"
                     [] d.outcome = "reject" -> "rejected"
                     [] OTHER -> "human_reviewed"]
\* Mutant: the outcome is stored as the review status.
RecordDecisionRaw(a, d) ==
    [a EXCEPT !.decisions = @ \cup {d}, !.active = d, !.review = d.outcome]

RecordDecision(a, d) ==
    [a EXCEPT
        !.decisions = @ \cup {d}, !.active = d, !.current = 0, !.conflict = FALSE,
        !.disposition = CASE d.outcome = "accept" -> "accepted"
                          [] d.outcome = "reject" -> "rejected"
                          [] OTHER -> Baseline(a),
        !.review = CASE d.outcome = "accept" -> "accepted"
                     [] d.outcome = "reject" -> "rejected"
                     [] OTHER -> "human_reviewed"]

\* project_finding_from_scope: the strongest status that holds, with exactly
\* the records it rests on.
ProjectedStatus(a) ==
    CASE a.disposition \in {"accepted", "rejected"} -> a.disposition
      [] a.disposition = "supported" /\ Passed(a) # {} -> "verified_candidate"
      [] OTHER -> "unverified_candidate"

Projection(c, a) ==
    LET s == ProjectedStatus(a)
    IN  [type |-> "finding", claim |-> c, status |-> s,
         evidence |-> CASE s \in {"accepted", "verified_candidate"} -> Reproducing(a)
                        [] s = "rejected" -> {}
                        [] OTHER -> a.bindings,
         verifications |-> CASE s \in {"accepted", "verified_candidate"} -> Passed(a)
                             [] s = "rejected" -> {}
                             [] OTHER -> NotPassed(a),
         decision |-> IF s \in {"accepted", "rejected"} THEN a.active ELSE None,
         supersedes |-> Len(a.findings)]

Grown(old, new) ==
    /\ old.evidence \subseteq new.evidence /\ old.verifications \subseteq new.verifications
    /\ old.evidence # new.evidence \/ old.verifications # new.verifications
Redundant(old, new) ==
    /\ old.status = new.status
    /\ ~Grown(old, new)
    /\ new.decision = None \/ new.decision = old.decision

FindingAdmitted(c, a, f) ==
    /\ c \in Issue
    /\ a.current = 0
    /\ f = Projection(c, a)
    /\ f.status \in {"accepted", "rejected"} => f.decision # None
    /\ a.findings # <<>> => ~Redundant(a.findings[Len(a.findings)], f)
    /\ Len(a.findings) < MaxSet

RecordFinding(a, f) ==
    [a EXCEPT !.findings = Append(@, f), !.current = Len(a.findings) + 1]

-----------------------------------------------------------------------------
(***************************************************************************)
(* The reducer of the run                                                  *)
(***************************************************************************)
NewAggregate ==
    [known |-> {}, evidence |-> {}, assessments |-> [c \in Claim |-> NewAssessment]]

\* What apply_for_log refuses, record by record.
Admitted(g, e) ==
    LET c == IF e.type \in {"evidence", "binding", "verification"} THEN Of[e.run] ELSE e.claim
        a == g.assessments[c]
    IN  CASE e.type = "execution" -> c \notin g.known
          [] e.type = "evidence" -> e.run \notin g.evidence
          [] e.type = "binding" ->
               /\ c \in g.known /\ e.run \in g.evidence /\ e.run \notin a.bindings
               /\ Cardinality(a.bindings) < MaxSet
          [] e.type = "verification" ->
               /\ c \in g.known /\ e.run \notin a.verifications
               /\ Shape[e.run] # "bare" => e.run \in a.bindings
               /\ Cardinality(a.verifications) < MaxSet
          [] e.type = "decision" -> c \in g.known /\ DecisionAdmitted(a, e)
          [] e.type = "finding" -> c \in g.known /\ FindingAdmitted(c, a, e)

\* apply_for_log.
Apply(g, e) ==
    CASE e.type = "execution" -> [g EXCEPT !.known = @ \cup {e.claim}]
      [] e.type = "evidence" -> [g EXCEPT !.evidence = @ \cup {e.run}]
      [] e.type = "binding" -> [g EXCEPT !.assessments[Of[e.run]] = RecordBinding(@, e.run)]
      [] e.type = "verification" ->
           [g EXCEPT !.assessments[Of[e.run]] = RecordVerification(@, e.run)]
      [] e.type = "decision" -> [g EXCEPT !.assessments[e.claim] = RecordDecision(@, e)]
      [] e.type = "finding" -> [g EXCEPT !.assessments[e.claim] = RecordFinding(@, e)]

\* The events of a verification bundle, in order.
Lines(r) ==
    IF Shape[r] = "bare" THEN <<[type |-> "verification", run |-> r]>>
    ELSE <<[type |-> "evidence", run |-> r], [type |-> "binding", run |-> r],
           [type |-> "verification", run |-> r]>>

\* append_verification_bundle_v3 applies every line to a copy of the log first.
BundleAdmitted(g, r) ==
    LET a == g.assessments[Of[r]]
    IN  /\ Of[r] \in g.known /\ r \notin a.verifications
        /\ Cardinality(a.verifications) < MaxSet
        /\ Shape[r] # "bare" => /\ r \notin g.evidence /\ r \notin a.bindings
                                /\ Cardinality(a.bindings) < MaxSet

-----------------------------------------------------------------------------
Init ==
    /\ log = <<>> /\ plan = <<>> /\ mode = "closed" /\ read = 0
    /\ state = NewAggregate /\ tokens = {} /\ minted = <<>> /\ trail = <<NewAggregate>>

\* The line of event e reaches the log; at is where its admission was minted.
WriteLine(e, at) ==
    /\ Len(log) < MaxLog
    /\ log' = Append(log, e)
    /\ minted' = Append(minted, at)
    /\ trail' = Append(trail, Apply(state, e))

\* The session takes the event into its own log.
Take(e) == state' = Apply(state, e) /\ read' = read + 1
Keep == UNCHANGED <<log, minted, trail>>

\* A session is opened: it replays the log from the genesis.
Open ==
    /\ mode = "closed"
    /\ mode' = "opening" /\ read' = 0 /\ state' = NewAggregate
    /\ UNCHANGED <<log, plan, tokens, minted, trail>>

\* replay_validated_v3_prefix checks each event as it was checked when it was
\* appended, and finds the grant of each decision in the trust roots.
ReplayAdmits(e) ==
    /\ Admitted(state, e)
    /\ e.type = "decision" => <<e.human, e.outcome>> \in Grants
ReplayEvent ==
    /\ mode = "opening" /\ read < Len(log)
    /\ ReplayAdmits(log[read + 1])
    /\ Take(log[read + 1])
    /\ UNCHANGED <<log, plan, mode, tokens, minted, trail>>

\* A bundle whose plan has a durable line is resumed; one that has none is
\* cleared by the recovery.
Unstarted(p) == p # <<>> /\ p = Lines(p[1].run)
Replayed ==
    /\ mode = "opening" /\ read = Len(log)
    /\ plan' = IF Unstarted(plan) THEN <<>> ELSE plan
    /\ mode' = IF plan' = <<>> THEN "healthy" ELSE "appending"
    /\ UNCHANGED <<log, read, state, tokens, minted, trail>>

Mint(events) ==
    /\ mode = "healthy"
    /\ Cardinality(tokens) < MaxTokens
    /\ tokens' = tokens \cup {[at |-> Len(log), events |-> events]}
    /\ UNCHANGED <<log, plan, mode, read, state, minted, trail>>

\* Mutant: the grant is not looked up.
MintDecisionUngranted(c, outcome, human) ==
    LET d == [type |-> "decision", claim |-> c, outcome |-> outcome, human |-> human,
              sources |-> ExactSources(state.assessments[c], outcome)]
    IN  Admitted(state, d) /\ Mint(<<d>>)

\* mint_decision_v3: the sources are computed, never chosen.
MintDecision(c, outcome, human) ==
    LET d == [type |-> "decision", claim |-> c, outcome |-> outcome, human |-> human,
              sources |-> ExactSources(state.assessments[c], outcome)]
    IN  /\ Admitted(state, d)
        /\ <<human, outcome>> \in Grants
        /\ Mint(<<d>>)

\* mint_finding_v3.
MintFinding(c) ==
    LET f == Projection(c, state.assessments[c])
    IN  Admitted(state, f) /\ Mint(<<f>>)

\* mint_static_verification_bundle_v3 and mint_fixture_verification_bundle_v3.
MintBundle(r) == Of[r] \in state.known /\ Mint(Lines(r))

\* Mutant: an admission is accepted at any later position.
FreshAlways(t) == t.at <= Len(log)

\* The tail hash and the sequence of an admission.
Fresh(t) == t.at = Len(log)

\* Mutant: a session whose append is in doubt goes on.
SingleGoesOn(e, at) ==
    \/ WriteLine(e, at) /\ Take(e) /\ UNCHANGED mode
    \/ (WriteLine(e, at) \/ Keep) /\ UNCHANGED <<mode, read, state>>

\* append_decision, append_finding and append_batch of the session.  The line is
\* durable, or the append fails cleanly, or the session cannot know.
Single(e, at) ==
    \/ WriteLine(e, at) /\ Take(e) /\ UNCHANGED mode
    \/ Keep /\ UNCHANGED <<mode, read, state>>
    \/ (WriteLine(e, at) \/ Keep) /\ mode' = "uncertain" /\ UNCHANGED <<read, state>>

AppendExecution(c) ==
    LET e == [type |-> "execution", claim |-> c]
    IN  /\ mode = "healthy"
        /\ Admitted(state, e)
        /\ Single(e, Len(log))
        /\ UNCHANGED <<plan, tokens>>

AppendToken(t) ==
    /\ mode = "healthy"
    /\ Len(t.events) = 1 /\ t.events[1].type \in {"decision", "finding"}
    /\ tokens' = tokens \ {t}
    /\ IF Fresh(t) /\ Admitted(state, t.events[1])
       THEN Single(t.events[1], t.at)
       ELSE Keep /\ UNCHANGED <<mode, read, state>>
    /\ UNCHANGED plan

\* append_verification_bundle: the plan is written, then the lines.
BeginBundle(t) ==
    /\ mode = "healthy"
    /\ t.events[1].type \in {"evidence", "verification"}
    /\ Len(log) + Len(t.events) <= MaxLog
    /\ tokens' = tokens \ {t}
    /\ IF Fresh(t) /\ BundleAdmitted(state, t.events[1].run)
       THEN plan' = t.events /\ mode' = "appending"
       ELSE UNCHANGED <<plan, mode>>
    /\ UNCHANGED <<log, read, state, minted, trail>>

BundleLine ==
    /\ mode = "appending"
    /\ WriteLine(plan[1], Len(log)) /\ Take(plan[1])
    /\ plan' = Tail(plan)
    /\ mode' = IF plan' = <<>> THEN "healthy" ELSE "appending"
    /\ UNCHANGED tokens

\* The bundle append fails after some of its lines, the last write perhaps
\* durable without being confirmed: BundleAppendInterrupted or SessionUncertain.
BundleInterrupted ==
    /\ mode = "appending"
    /\ mode' = "uncertain"
    /\ \/ WriteLine(plan[1], Len(log)) /\ plan' = Tail(plan)
       \/ Keep /\ UNCHANGED plan
    /\ UNCHANGED <<read, state, tokens>>

\* The session is dropped or its process dies; the host keeps its admissions
\* only in the first case.
Close ==
    /\ mode # "closed"
    /\ mode' = "closed" /\ read' = 0 /\ state' = NewAggregate
    /\ tokens' \in {tokens, {}}
    /\ UNCHANGED <<log, plan, minted, trail>>

Next ==
    \/ Open \/ ReplayEvent \/ Replayed \/ BundleLine \/ BundleInterrupted \/ Close
    \/ \E c \in Claim : \/ MintFinding(c) \/ AppendExecution(c)
                        \/ \E o \in Outcome, h \in Human : MintDecision(c, o, h)
    \/ \E r \in Run : MintBundle(r)
    \/ \E t \in tokens : AppendToken(t) \/ BeginBundle(t)

Spec == Init /\ [][Next]_vars

-----------------------------------------------------------------------------
(***************************************************************************)
(* What the log itself says of a claim                                     *)
(***************************************************************************)
ClaimOf(e) == IF e.type \in {"execution", "decision", "finding"} THEN e.claim ELSE Of[e.run]
Recorded(type, c) ==
    {log[i].run : i \in {j \in 1 .. Len(log) : log[j].type = type /\ ClaimOf(log[j]) = c}}

\* The events of claim c that a decision seals or makes.
Weighing(c) == {i \in 1 .. Len(log) : /\ log[i].type \in {"binding", "verification", "decision"}
                                      /\ ClaimOf(log[i]) = c}
Decided(c) == {i \in Weighing(c) : log[i].type = "decision"}
LastWeighed(c) == CHOOSE i \in Weighing(c) : \A j \in Weighing(c) : j <= i

TypeOK ==
    /\ log \in Seq(Event) /\ plan \in Seq(Record)
    /\ mode \in {"closed", "opening", "healthy", "appending", "uncertain"}
    /\ read \in 0 .. Len(log)
    /\ state \in Aggregate
    /\ tokens \subseteq Token
    /\ minted \in Seq(Nat) /\ Len(minted) = Len(log)
    /\ trail \in Seq(Aggregate) /\ Len(trail) = Len(log) + 1

\* A claim that a healthy session shows as accepted has a human Accept decision
\* that the trust roots grant, nothing bound or verified after it, and sources
\* that are every reproducing record and every passed verification of the log,
\* at least one of each.  (record_decision_replayed, invalidate_trace,
\* exact_sources.)
AcceptedRestsOnLog ==
    mode = "healthy" => \A c \in Claim :
        state.assessments[c].disposition = "accepted" =>
            /\ Decided(c) # {}
            /\ LET d == log[LastWeighed(c)]
                   repro == {r \in Recorded("binding", c) : Shape[r] = "fixture"}
                   pass == {r \in Recorded("verification", c) : Shape[r] = "fixture"}
               IN  /\ d.type = "decision" /\ d.outcome = "accept"
                   /\ <<d.human, d.outcome>> \in Grants
                   /\ d.sources = [cited |-> repro, checked |-> pass]
                   /\ repro # {} /\ pass # {}

\* The standing of a claim is what the order of its events says: the last
\* decision is active exactly when nothing was bound or verified after it, and
\* a conflict is shown exactly when something was.
Stands(c, a) ==
    LET last == log[LastWeighed(c)]
        signed == Weighing(c) # {} /\ last.type = "decision"
        base == IF \E r \in Recorded("binding", c) : Shape[r] = "fixture"
                THEN "supported" ELSE "proposed"
    IN  /\ a.active = IF signed THEN last ELSE None
        /\ a.conflict = (Decided(c) # {} /\ ~signed)
        /\ a.disposition = CASE signed /\ last.outcome = "accept" -> "accepted"
                             [] signed /\ last.outcome = "reject" -> "rejected"
                             [] OTHER -> base

\* In a healthy session every claim stands as its events in the log say: its
\* last decision is in force, or a conflict is shown, and never both.
\* (record_binding_replayed, record_verification_replayed, invalidate_trace.)
StandingMatchesLog ==
    mode = "healthy" => \A c \in Claim : Stands(c, state.assessments[c])

\* A current finding is the last one and is the projection of its claim.
Exact(c, a) ==
    a.current # 0 =>
        /\ a.current = Len(a.findings)
        /\ a.findings[a.current] = [Projection(c, a) EXCEPT !.supersedes = a.current - 1]

\* A finding that a healthy session shows as current says exactly what the
\* session's assessment of its claim says, its records and its decision
\* included, and is the last one in the log.  (current_finding_id)
CurrentFindingExact ==
    mode = "healthy" => \A c \in Claim : Exact(c, state.assessments[c])

\* Nobody's decision is recorded over records of its claim that were not there
\* when it was minted, whatever its outcome cites.  (The tail hash and the
\* sequence of ValidatedDecisionV3.)
DecisionSawItsClosure ==
    \A c \in Claim : \A i \in Decided(c) :
        \A j \in Weighing(c) : j < i => j <= minted[i]

\* The log a session wrote can always be read back: a session that opens never
\* meets an event that its own rules refuse.
ReplayNeverRefuses ==
    mode = "opening" /\ read < Len(log) => ReplayAdmits(log[read + 1])

\* A session in use has the aggregate that a replay of the whole log gives; one
\* whose append is in doubt is not in use.
SessionIsCurrent ==
    /\ mode \in {"healthy", "appending"} => read = Len(log)
    /\ state = trail[read + 1]

-----------------------------------------------------------------------------
(***************************************************************************)
(* The inductive invariant, in two parts: of the log with the aggregates   *)
(* that it passed through, whoever wrote it, and of the session.           *)
(***************************************************************************)
Whole == trail[Len(log) + 1]

Granted(e) == e.type = "decision" => <<e.human, e.outcome>> \in Grants

\* Every event was admitted, and minted, where it stands.
ChainInv ==
    /\ trail[1] = NewAggregate
    /\ \A i \in 1 .. Len(log) :
        /\ Admitted(trail[i], log[i]) /\ Granted(log[i])
        /\ trail[i + 1] = Apply(trail[i], log[i])
        /\ minted[i] = i - 1

\* What the log says of claim c is what its assessment holds; what passed was
\* bound, and a decision in force still has exactly its sources.
ClaimInv(c, a) ==
    /\ a.bindings = Recorded("binding", c)
    /\ a.verifications = Recorded("verification", c)
    /\ \A r \in a.verifications : Shape[r] # "bare" => r \in a.bindings
    /\ a.active # None =>
        /\ a.active.sources = ExactSources(a, a.active.outcome)
        /\ a.active.outcome = "accept" => a.active.sources.checked # {}
    /\ Weighing(c) # {} => /\ LastWeighed(c) \in Weighing(c)
                           /\ \A j \in Weighing(c) : j <= LastWeighed(c)
    /\ Stands(c, a)
    /\ Exact(c, a)

LogInv == ChainInv /\ \A c \in Claim : ClaimInv(c, Whole.assessments[c])

\* An admission is of one granted decision, of one finding or of a bundle.
TokenInv ==
    \A t \in tokens :
        \/ /\ Len(t.events) = 1 /\ t.events[1] \in Decision \cup Finding
           /\ Granted(t.events[1])
        \/ \E r \in Run : t.events = Lines(r)

\* The lines that a pending bundle lacks are a tail of its lines, and the rules
\* admit the next of them at the end of the log.
Pending(g, p) ==
    \E r \in Run :
        LET a == g.assessments[Of[r]]
        IN  /\ Of[r] \in g.known /\ r \notin a.verifications
            /\ Cardinality(a.verifications) < MaxSet
            /\ \/ p = Lines(r) /\ BundleAdmitted(g, r)
               \/ /\ p = <<[type |-> "binding", run |-> r], [type |-> "verification", run |-> r]>>
                  /\ Shape[r] # "bare" /\ r \in g.evidence /\ r \notin a.bindings
                  /\ Cardinality(a.bindings) < MaxSet
               \/ /\ p = <<[type |-> "verification", run |-> r]>>
                  /\ Shape[r] # "bare" => r \in a.bindings

PlanInv ==
    /\ plan # <<>> => Pending(Whole, plan)
    /\ mode = "healthy" => plan = <<>>
    /\ mode = "appending" => plan # <<>>

IInv == TypeOK /\ LogInv /\ SessionIsCurrent /\ TokenInv /\ PlanInv

=============================================================================
