-------------------------- MODULE AssessmentProofs --------------------------
(***************************************************************************)
(* Proofs about Assessment, for any claims, verifier runs, humans, grants  *)
(* and limits, and for logs of any length.                                 *)
(***************************************************************************)
EXTENDS Assessment, SequenceTheorems, TLAPS

-----------------------------------------------------------------------------
(***************************************************************************)
(* The records and the reducer of one claim                                *)
(***************************************************************************)

\* The type of an event says which record it is.
LEMMA EventKinds ==
    ASSUME NEW e \in Event
    PROVE  /\ e.type = "execution" => e.claim \in Claim
           /\ e.type \in {"evidence", "binding", "verification"} => e.run \in Run
           /\ e.type = "decision" => e \in Decision /\ e.claim \in Claim
           /\ e.type = "finding" => e \in Finding /\ e.claim \in Claim
           /\ e.type \in {"execution", "evidence", "binding", "verification",
                          "decision", "finding"}
           /\ ClaimOf(e) \in Claim
<1>1. CASE e \in Execution
  BY <1>1 DEF Execution, ClaimOf
<1>2. CASE e \in Record
  BY <1>2, RunAssumption DEF Record, ClaimOf
<1>3. CASE e \in Decision
  BY <1>3 DEF Decision, ClaimOf
<1>4. CASE e \in Finding
  BY <1>4 DEF Finding, ClaimOf
<1>5. QED
  BY <1>1, <1>2, <1>3, <1>4 DEF Event

\* The fields of an assessment.
LEMMA AssessedFields ==
    ASSUME NEW a \in Assessed
    PROVE  /\ a.disposition \in {"proposed", "supported", "accepted", "rejected"}
           /\ a.review \in {"unreviewed", "human_reviewed", "accepted", "rejected"}
           /\ a.bindings \in SUBSET Run /\ a.verifications \in SUBSET Run
           /\ a.decisions \in SUBSET Decision /\ a.findings \in Seq(Finding)
           /\ a.active \in Decision \cup {None} /\ a.current \in Nat
           /\ a.conflict \in BOOLEAN
BY DEF Assessed

\* A new record ends the decision in force and the current finding, and
\* nothing else.
LEMMA InvalidateFields ==
    ASSUME NEW a \in Assessed
    PROVE  LET b == InvalidateTrace(a)
           IN  /\ b \in Assessed
               /\ b.bindings = a.bindings /\ b.verifications = a.verifications
               /\ b.findings = a.findings /\ b.decisions = a.decisions
               /\ b.current = 0 /\ b.active = None
               /\ b.conflict = (a.conflict \/ a.active # None)
               /\ b.disposition = IF a.active = None THEN a.disposition ELSE Baseline(a)
<1> HIDE DEF Decision, Finding
<1>1. Baseline(a) \in {"proposed", "supported"}
  BY DEF Baseline
<1>2. CASE a.active = None
  BY <1>2 DEF Assessed, InvalidateTrace
<1>3. CASE a.active # None
  BY <1>1, <1>3 DEF Assessed, InvalidateTrace
<1>4. QED
  BY <1>2, <1>3

LEMMA BindingFields ==
    ASSUME NEW a \in Assessed, NEW r \in Run
    PROVE  LET b == RecordBinding(a, r)
           IN  /\ b \in Assessed
               /\ b.bindings = a.bindings \cup {r} /\ b.verifications = a.verifications
               /\ b.findings = a.findings
               /\ b.current = 0 /\ b.active = None
               /\ b.conflict = (a.conflict \/ a.active # None)
               /\ b.disposition = IF \E q \in a.bindings \cup {r} : Shape[q] = "fixture"
                                  THEN "supported" ELSE "proposed"
<1> DEFINE b == InvalidateTrace(a)
           d == [b EXCEPT !.bindings = @ \cup {r}]
<1>1. b \in Assessed /\ b.bindings = a.bindings /\ b.verifications = a.verifications
      /\ b.findings = a.findings /\ b.current = 0 /\ b.active = None
      /\ b.conflict = (a.conflict \/ a.active # None)
  BY InvalidateFields
<1> HIDE DEF b
<1>2. d \in Assessed /\ d.bindings = b.bindings \cup {r}
      /\ d.verifications = b.verifications
      /\ d.findings = b.findings /\ d.current = b.current /\ d.active = b.active
      /\ d.conflict = b.conflict
  BY <1>1 DEF Assessed
<1>3. Baseline(d) = IF \E q \in d.bindings : Shape[q] = "fixture"
                    THEN "supported" ELSE "proposed"
  BY DEF Baseline, Reproducing
<1>4. RecordBinding(a, r) = [d EXCEPT !.disposition = Baseline(d)]
  BY DEF RecordBinding, b
<1> HIDE DEF d
<1> DEFINE x == Baseline(d)
<1>5. x \in {"proposed", "supported"}
  BY <1>3
<1> HIDE DEF x
<1>6. LET z == [d EXCEPT !.disposition = x]
      IN  /\ z \in Assessed /\ z.bindings = d.bindings /\ z.verifications = d.verifications
          /\ z.findings = d.findings /\ z.current = d.current /\ z.active = d.active
          /\ z.conflict = d.conflict /\ z.disposition = x
  BY <1>2, <1>5 DEF Assessed
<1>7. QED
  BY <1>1, <1>2, <1>3, <1>4, <1>6 DEF x

LEMMA VerificationFields ==
    ASSUME NEW a \in Assessed, NEW r \in Run
    PROVE  LET b == RecordVerification(a, r)
           IN  /\ b \in Assessed
               /\ b.bindings = a.bindings /\ b.verifications = a.verifications \cup {r}
               /\ b.findings = a.findings
               /\ b.current = 0 /\ b.active = None
               /\ b.conflict = (a.conflict \/ a.active # None)
               /\ b.disposition = IF a.active = None THEN a.disposition ELSE Baseline(a)
<1> DEFINE b == InvalidateTrace(a)
<1>1. /\ b \in Assessed
      /\ b.bindings = a.bindings /\ b.verifications = a.verifications
      /\ b.findings = a.findings
      /\ b.current = 0 /\ b.active = None
      /\ b.conflict = (a.conflict \/ a.active # None)
      /\ b.disposition = IF a.active = None THEN a.disposition ELSE Baseline(a)
  BY InvalidateFields
<1> HIDE DEF b
<1>2. LET d == [b EXCEPT !.verifications = @ \cup {r}]
      IN  /\ d \in Assessed /\ d.bindings = b.bindings
          /\ d.verifications = b.verifications \cup {r}
          /\ d.findings = b.findings /\ d.current = b.current /\ d.active = b.active
          /\ d.conflict = b.conflict /\ d.disposition = b.disposition
  BY <1>1 DEF Assessed
<1>3. QED
  BY <1>1, <1>2 DEF RecordVerification, b

LEMMA DecisionFields ==
    ASSUME NEW a \in Assessed, NEW d \in Decision
    PROVE  LET b == RecordDecision(a, d)
           IN  /\ b \in Assessed
               /\ b.bindings = a.bindings /\ b.verifications = a.verifications
               /\ b.findings = a.findings
               /\ b.current = 0 /\ b.active = d /\ b.conflict = FALSE
               /\ b.disposition = CASE d.outcome = "accept" -> "accepted"
                                    [] d.outcome = "reject" -> "rejected"
                                    [] OTHER -> Baseline(a)
<1> DEFINE x == CASE d.outcome = "accept" -> "accepted"
                  [] d.outcome = "reject" -> "rejected"
                  [] OTHER -> Baseline(a)
           y == CASE d.outcome = "accept" -> "accepted"
                  [] d.outcome = "reject" -> "rejected"
                  [] OTHER -> "human_reviewed"
<1>1. x \in {"proposed", "supported", "accepted", "rejected"}
  BY DEF Baseline
<1>2. y \in {"unreviewed", "human_reviewed", "accepted", "rejected"}
  OBVIOUS
<1>3. RecordDecision(a, d) =
        [a EXCEPT !.decisions = @ \cup {d}, !.active = d, !.current = 0,
                  !.conflict = FALSE, !.disposition = x, !.review = y]
  BY DEF RecordDecision
<1> HIDE DEF x, y
<1>4. LET b == [a EXCEPT !.decisions = @ \cup {d}, !.active = d, !.current = 0,
                  !.conflict = FALSE, !.disposition = x, !.review = y]
      IN  /\ b \in Assessed
          /\ b.bindings = a.bindings /\ b.verifications = a.verifications
          /\ b.findings = a.findings
          /\ b.current = 0 /\ b.active = d /\ b.conflict = FALSE
          /\ b.disposition = x
  BY <1>1, <1>2 DEF Assessed
<1>5. QED
  BY <1>3, <1>4 DEF x

LEMMA FindingFields ==
    ASSUME NEW a \in Assessed, NEW f \in Finding
    PROVE  LET b == RecordFinding(a, f)
           IN  /\ b \in Assessed
               /\ b.bindings = a.bindings /\ b.verifications = a.verifications
               /\ b.active = a.active /\ b.conflict = a.conflict
               /\ b.disposition = a.disposition
               /\ b.current = Len(a.findings) + 1
               /\ Len(b.findings) = Len(a.findings) + 1
               /\ b.findings[b.current] = f
<1> HIDE DEF Finding
<1> DEFINE s == Append(a.findings, f)
           n == Len(a.findings) + 1
<1>1. s \in Seq(Finding) /\ Len(s) = n /\ s[n] = f /\ n \in Nat
  BY AssessedFields, AppendProperties
<1>2. RecordFinding(a, f) = [a EXCEPT !.findings = s, !.current = n]
  BY DEF RecordFinding
<1> HIDE DEF s, n
<1>3. LET b == [a EXCEPT !.findings = s, !.current = n]
      IN  /\ b \in Assessed
          /\ b.bindings = a.bindings /\ b.verifications = a.verifications
          /\ b.active = a.active /\ b.conflict = a.conflict
          /\ b.disposition = a.disposition
          /\ b.current = n /\ b.findings = s
  BY <1>1 DEF Assessed
<1>4. QED
  BY <1>1, <1>2, <1>3 DEF n

-----------------------------------------------------------------------------
(***************************************************************************)
(* The reducer of the run and the events of the log                        *)
(***************************************************************************)

LEMMA AggregateFields ==
    ASSUME NEW g \in Aggregate
    PROVE  /\ g.known \in SUBSET Claim /\ g.evidence \in SUBSET Run
           /\ g.assessments \in [Claim -> Assessed]
           /\ \A c \in Claim : g.assessments[c] \in Assessed
BY DEF Aggregate

\* An aggregate one of whose assessments is replaced.
LEMMA NewAssessed ==
    ASSUME NEW g \in Aggregate, NEW c \in Claim, NEW b \in Assessed
    PROVE  LET h == [g EXCEPT !.assessments[c] = b]
           IN  /\ h \in Aggregate
               /\ h.known = g.known /\ h.evidence = g.evidence
               /\ h.assessments[c] = b
               /\ \A k \in Claim \ {c} : h.assessments[k] = g.assessments[k]
<1> HIDE DEF Assessed
<1>1. QED
  BY DEF Aggregate

\* What an event makes of the assessment of its claim.
Recording(a, e) ==
    CASE e.type = "binding" -> RecordBinding(a, e.run)
      [] e.type = "verification" -> RecordVerification(a, e.run)
      [] e.type = "decision" -> RecordDecision(a, e)
      [] e.type = "finding" -> RecordFinding(a, e)
      [] OTHER -> a

LEMMA ApplyFields ==
    ASSUME NEW g \in Aggregate, NEW e \in Event
    PROVE  LET h == Apply(g, e)
           IN  /\ h \in Aggregate
               /\ h.known = IF e.type = "execution" THEN g.known \cup {e.claim} ELSE g.known
               /\ h.evidence = IF e.type = "evidence" THEN g.evidence \cup {e.run} ELSE g.evidence
               /\ h.assessments[ClaimOf(e)] = Recording(g.assessments[ClaimOf(e)], e)
               /\ \A k \in Claim \ {ClaimOf(e)} : h.assessments[k] = g.assessments[k]
<1> DEFINE c == ClaimOf(e)
           a == g.assessments[c]
<1>1. c \in Claim
  BY EventKinds
<1>2. a \in Assessed
  BY <1>1, AggregateFields
<1> HIDE DEF Assessed
<1>3. CASE e.type = "execution"
  <2>1. e.claim \in Claim
    BY <1>3, EventKinds
  <2>2. Apply(g, e) = [g EXCEPT !.known = @ \cup {e.claim}]
    BY <1>3 DEF Apply
  <2>3. Recording(a, e) = a
    BY <1>3 DEF Recording
  <2>4. QED
    BY <1>1, <1>3, <2>1, <2>2, <2>3 DEF Aggregate
<1>4. CASE e.type = "evidence"
  <2>1. e.run \in Run
    BY <1>4, EventKinds
  <2>2. Apply(g, e) = [g EXCEPT !.evidence = @ \cup {e.run}]
    BY <1>4 DEF Apply
  <2>3. Recording(a, e) = a
    BY <1>4 DEF Recording
  <2>4. QED
    BY <1>1, <1>4, <2>1, <2>2, <2>3 DEF Aggregate
<1>5. CASE e.type \in {"binding", "verification", "decision", "finding"}
  <2>1. Recording(a, e) \in Assessed
    <3>1. CASE e.type = "binding"
      BY <3>1, <1>2, EventKinds, BindingFields DEF Recording
    <3>2. CASE e.type = "verification"
      BY <3>2, <1>2, EventKinds, VerificationFields DEF Recording
    <3>3. CASE e.type = "decision"
      BY <3>3, <1>2, EventKinds, DecisionFields DEF Recording
    <3>4. CASE e.type = "finding"
      BY <3>4, <1>2, EventKinds, FindingFields DEF Recording
    <3>5. QED
      BY <1>5, <3>1, <3>2, <3>3, <3>4
  <2>2. Apply(g, e) = [g EXCEPT !.assessments[c] = Recording(a, e)]
    <3>1. CASE e.type = "binding"
      BY <3>1 DEF Apply, Recording, ClaimOf
    <3>2. CASE e.type = "verification"
      BY <3>2 DEF Apply, Recording, ClaimOf
    <3>3. CASE e.type = "decision"
      BY <3>3 DEF Apply, Recording, ClaimOf
    <3>4. CASE e.type = "finding"
      BY <3>4 DEF Apply, Recording, ClaimOf
    <3>5. QED
      BY <1>5, <3>1, <3>2, <3>3, <3>4
  <2>3. e.type # "execution" /\ e.type # "evidence"
    BY <1>5
  <2> DEFINE b == Recording(a, e)
  <2> HIDE DEF a, b, c
  <2>4. LET h == [g EXCEPT !.assessments[c] = b]
        IN  /\ h \in Aggregate
            /\ h.known = g.known /\ h.evidence = g.evidence
            /\ h.assessments[c] = b
            /\ \A k \in Claim \ {c} : h.assessments[k] = g.assessments[k]
    BY <1>1, <2>1, NewAssessed DEF b
  <2>5. QED
    BY <2>2, <2>3, <2>4 DEF a, b, c
<1>6. QED
  BY <1>3, <1>4, <1>5, EventKinds

\* The latest of a set of places is the one that none of them exceeds.
LEMMA LatestIs ==
    ASSUME NEW W \in SUBSET Nat, NEW n \in W, \A j \in W : j <= n
    PROVE  (CHOOSE i \in W : \A j \in W : j <= i) = n
<1> DEFINE m == CHOOSE i \in W : \A j \in W : j <= i
<1>1. m \in W /\ \A j \in W : j <= m
  BY Zenon
<1> HIDE DEF m
<1>2. m = n
  BY <1>1
<1>3. QED
  BY <1>2 DEF m

Weighty(e) == e.type \in {"binding", "verification", "decision"}

\* What one more event adds to what the log says of a claim.
LEMMA OneMore ==
    ASSUME NEW e \in Event, log \in Seq(Event), log' = Append(log, e), NEW c \in Claim
    PROVE  /\ \A type \in {"binding", "verification"} :
                Recorded(type, c)' = IF e.type = type /\ ClaimOf(e) = c
                                     THEN Recorded(type, c) \cup {e.run}
                                     ELSE Recorded(type, c)
           /\ Weighing(c)' = IF Weighty(e) /\ ClaimOf(e) = c
                             THEN Weighing(c) \cup {Len(log) + 1}
                             ELSE Weighing(c)
           /\ Decided(c)' = IF e.type = "decision" /\ ClaimOf(e) = c
                            THEN Decided(c) \cup {Len(log) + 1}
                            ELSE Decided(c)
           /\ Weighing(c) \subseteq 1 .. Len(log)
           /\ \A i \in Weighing(c) : log'[i] = log[i]
           /\ log'[Len(log) + 1] = e
<1> HIDE DEF Event
<1> DEFINE n == Len(log)
<1>1. /\ n \in Nat /\ Len(log') = n + 1 /\ log'[n + 1] = e
      /\ \A i \in 1 .. n : log'[i] = log[i]
  BY AppendProperties, LenProperties
<1> HIDE DEF n
<1>2. 1 .. n + 1 = (1 .. n) \cup {n + 1}
  BY <1>1
<1>3. ASSUME NEW type \in {"binding", "verification"}
      PROVE  Recorded(type, c)' = IF e.type = type /\ ClaimOf(e) = c
                                  THEN Recorded(type, c) \cup {e.run}
                                  ELSE Recorded(type, c)
  <2> DEFINE D == {j \in 1 .. n : log[j].type = type /\ ClaimOf(log[j]) = c}
             F == {j \in 1 .. n + 1 : log'[j].type = type /\ ClaimOf(log'[j]) = c}
  <2>1. Recorded(type, c) = {log[i].run : i \in D}
    BY DEF Recorded, n
  <2>2. Recorded(type, c)' = {log'[i].run : i \in F}
    BY <1>1 DEF Recorded, ClaimOf
  <2>3. F = IF e.type = type /\ ClaimOf(e) = c THEN D \cup {n + 1} ELSE D
    BY <1>1, <1>2
  <2>4. D \subseteq 1 .. n
    OBVIOUS
  <2> HIDE DEF D, F
  <2>5. {log'[i].run : i \in D} = {log[i].run : i \in D}
    BY <1>1, <2>4
  <2>6. {log'[i].run : i \in D \cup {n + 1}} = {log[i].run : i \in D} \cup {e.run}
    BY <1>1, <2>4
  <2>7. QED
    BY <2>1, <2>2, <2>3, <2>5, <2>6
<1>4. Weighing(c)' = IF Weighty(e) /\ ClaimOf(e) = c THEN Weighing(c) \cup {n + 1} ELSE Weighing(c)
  BY <1>1, <1>2 DEF Weighing, Weighty, ClaimOf, n
<1>5. Weighing(c) \subseteq 1 .. n
  BY DEF Weighing, n
<1>6. Decided(c)' = IF e.type = "decision" /\ ClaimOf(e) = c THEN Decided(c) \cup {n + 1} ELSE Decided(c)
  BY <1>1, <1>4, <1>5 DEF Decided, Weighty
<1>7. QED
  BY <1>1, <1>3, <1>4, <1>5, <1>6 DEF n

-----------------------------------------------------------------------------
(***************************************************************************)
(* One more event, as one claim sees it                                    *)
(***************************************************************************)

\* An event that does not weigh on the claim leaves its standing alone.
LEMMA OffTheScale ==
    ASSUME NEW e \in Event, log \in Seq(Event), log' = Append(log, e),
           NEW c \in Claim, NEW a \in Assessed, NEW b \in Assessed,
           ClaimInv(c, a), ~(Weighty(e) /\ ClaimOf(e) = c),
           b.bindings = a.bindings, b.verifications = a.verifications,
           b.active = a.active, b.conflict = a.conflict,
           b.disposition = a.disposition, Exact(c, b)
    PROVE  ClaimInv(c, b)'
<1>1. /\ Recorded("binding", c)' = Recorded("binding", c)
      /\ Recorded("verification", c)' = Recorded("verification", c)
      /\ Weighing(c)' = Weighing(c) /\ Decided(c)' = Decided(c)
      /\ \A i \in Weighing(c) : log'[i] = log[i]
  BY OneMore DEF Weighty
<1>2. LastWeighed(c)' = LastWeighed(c)
  BY <1>1 DEF LastWeighed
<1>3. Stands(c, b)'
  <2>1. Weighing(c) # {} => log'[LastWeighed(c)] = log[LastWeighed(c)]
    BY <1>1 DEF ClaimInv
  <2>2. QED
    BY <1>1, <1>2, <2>1 DEF ClaimInv, Stands
<1>4. b.active # None =>
        /\ b.active.sources = ExactSources(b, b.active.outcome)
        /\ b.active.outcome = "accept" => b.active.sources.checked # {}
  BY DEF ClaimInv, ExactSources, Reproducing, Passed, NotPassed
<1>5. QED
  BY <1>1, <1>2, <1>3, <1>4 DEF ClaimInv, Exact

\* An event that weighs on the claim is the last one that does.
LEMMA OnTheScale ==
    ASSUME NEW e \in Event, log \in Seq(Event), log' = Append(log, e),
           NEW c \in Claim, Weighty(e), ClaimOf(e) = c
    PROVE  /\ LastWeighed(c)' \in Weighing(c)'
           /\ \A j \in Weighing(c)' : j <= LastWeighed(c)'
           /\ log'[LastWeighed(c)'] = e
           /\ Weighing(c)' # {}
<1> HIDE DEF Event
<1> DEFINE n == Len(log)
<1>1. /\ n \in Nat /\ Weighing(c)' = Weighing(c) \cup {n + 1}
      /\ Weighing(c) \subseteq 1 .. n /\ log'[n + 1] = e
  BY OneMore, LenProperties
<1> HIDE DEF n
<1> DEFINE W == Weighing(c)'
<1>2. W \in SUBSET Nat /\ n + 1 \in W /\ \A j \in W : j <= n + 1
  BY <1>1
<1>3. LastWeighed(c)' = CHOOSE i \in W : \A j \in W : j <= i
  BY DEF LastWeighed
<1> HIDE DEF W
<1>4. LastWeighed(c)' = n + 1
  BY <1>2, <1>3, LatestIs
<1>5. QED
  BY <1>1, <1>2, <1>4 DEF W

\* Nothing but a decision of the claim is ever in force.
LEMMA InForce ==
    ASSUME NEW c \in Claim, NEW a \in Assessed, log \in Seq(Event), ClaimInv(c, a)
    PROVE  /\ a.active # None => Decided(c) # {} /\ a.active = log[LastWeighed(c)]
           /\ (Weighing(c) # {} /\ log[LastWeighed(c)].type = "decision") => a.active # None
           /\ a.active = None => a.disposition = Baseline(a)
<1> HIDE DEF Event, Decision
<1>1. ASSUME Weighing(c) # {}, log[LastWeighed(c)].type = "decision"
      PROVE  a.active # None /\ Decided(c) # {}
  <2>1. LastWeighed(c) \in Weighing(c)
    BY <1>1 DEF ClaimInv
  <2>2. LastWeighed(c) \in 1 .. Len(log) /\ LastWeighed(c) \in Decided(c)
    BY <1>1, <2>1 DEF Weighing, Decided
  <2>3. log[LastWeighed(c)] \in Event
    BY <2>2, ElementOfSeq
  <2>4. log[LastWeighed(c)] \in Decision
    BY <1>1, <2>3, EventKinds
  <2>5. QED
    BY <1>1, <2>2, <2>4, NoneAssumption DEF ClaimInv, Stands
<1>2. a.active # None => Decided(c) # {} /\ a.active = log[LastWeighed(c)]
  BY <1>1 DEF ClaimInv, Stands
<1>3. a.active = None => a.disposition = Baseline(a)
  BY <1>1 DEF ClaimInv, Stands, Baseline, Reproducing
<1>4. QED
  BY <1>1, <1>2, <1>3

LEMMA BindingWeighs ==
    ASSUME NEW e \in Event, log \in Seq(Event), log' = Append(log, e),
           NEW c \in Claim, NEW a \in Assessed, ClaimInv(c, a),
           e.type = "binding", ClaimOf(e) = c
    PROVE  ClaimInv(c, RecordBinding(a, e.run))'
<1> DEFINE b == RecordBinding(a, e.run)
<1> HIDE DEF Event, Decision, Assessed
<1>1. e.run \in Run
  BY EventKinds
<1>2. /\ b \in Assessed
      /\ b.bindings = a.bindings \cup {e.run} /\ b.verifications = a.verifications
      /\ b.current = 0 /\ b.active = None
      /\ b.conflict = (a.conflict \/ a.active # None)
      /\ b.disposition = IF \E q \in a.bindings \cup {e.run} : Shape[q] = "fixture"
                         THEN "supported" ELSE "proposed"
  BY <1>1, BindingFields
<1>3. /\ Recorded("binding", c)' = Recorded("binding", c) \cup {e.run}
      /\ Recorded("verification", c)' = Recorded("verification", c)
      /\ Decided(c)' = Decided(c)
  BY OneMore
<1>4. /\ LastWeighed(c)' \in Weighing(c)'
      /\ \A j \in Weighing(c)' : j <= LastWeighed(c)'
      /\ log'[LastWeighed(c)'] = e
  BY OnTheScale DEF Weighty
<1>5. b.conflict = (Decided(c) # {})
  <2>1. a.conflict = (Decided(c) # {} /\ ~(Weighing(c) # {} /\ log[LastWeighed(c)].type = "decision"))
    BY DEF ClaimInv, Stands
  <2>2. QED
    BY <1>2, <2>1, InForce
<1> HIDE DEF b
<1>6. Stands(c, b)'
  BY <1>2, <1>3, <1>4, <1>5 DEF Stands, ClaimInv
<1>7. ClaimInv(c, b)'
  BY <1>2, <1>3, <1>4, <1>6 DEF ClaimInv, Exact
<1>8. QED
  BY <1>7 DEF b

LEMMA VerificationWeighs ==
    ASSUME NEW e \in Event, log \in Seq(Event), log' = Append(log, e),
           NEW c \in Claim, NEW a \in Assessed, ClaimInv(c, a),
           e.type = "verification", ClaimOf(e) = c,
           Shape[e.run] # "bare" => e.run \in a.bindings
    PROVE  ClaimInv(c, RecordVerification(a, e.run))'
<1> DEFINE b == RecordVerification(a, e.run)
<1> HIDE DEF Event, Decision, Assessed
<1>1. e.run \in Run
  BY EventKinds
<1>2. /\ b \in Assessed
      /\ b.bindings = a.bindings /\ b.verifications = a.verifications \cup {e.run}
      /\ b.current = 0 /\ b.active = None
      /\ b.conflict = (a.conflict \/ a.active # None)
      /\ b.disposition = Baseline(a)
  BY <1>1, VerificationFields, InForce
<1>3. /\ Recorded("binding", c)' = Recorded("binding", c)
      /\ Recorded("verification", c)' = Recorded("verification", c) \cup {e.run}
      /\ Decided(c)' = Decided(c)
  BY OneMore
<1>4. /\ LastWeighed(c)' \in Weighing(c)'
      /\ \A j \in Weighing(c)' : j <= LastWeighed(c)'
      /\ log'[LastWeighed(c)'] = e
  BY OnTheScale DEF Weighty
<1>5. b.conflict = (Decided(c) # {})
  <2>1. a.conflict = (Decided(c) # {} /\ ~(Weighing(c) # {} /\ log[LastWeighed(c)].type = "decision"))
    BY DEF ClaimInv, Stands
  <2>2. QED
    BY <1>2, <2>1, InForce
<1>6. Baseline(a) = IF \E r \in Recorded("binding", c) : Shape[r] = "fixture"
                    THEN "supported" ELSE "proposed"
  BY DEF Baseline, Reproducing, ClaimInv
<1> HIDE DEF b
<1>7. Stands(c, b)'
  BY <1>2, <1>3, <1>4, <1>5, <1>6 DEF Stands
<1>8. ClaimInv(c, b)'
  BY <1>2, <1>3, <1>4, <1>7 DEF ClaimInv, Exact
<1>9. QED
  BY <1>8 DEF b

LEMMA DecisionWeighs ==
    ASSUME NEW e \in Event, log \in Seq(Event), log' = Append(log, e),
           NEW c \in Claim, NEW a \in Assessed, ClaimInv(c, a),
           e.type = "decision", ClaimOf(e) = c, DecisionAdmitted(a, e)
    PROVE  ClaimInv(c, RecordDecision(a, e))'
<1> DEFINE b == RecordDecision(a, e)
<1>1. e \in Decision
  BY EventKinds
<1> HIDE DEF Event, Decision, Assessed
<1>2. /\ b \in Assessed
      /\ b.bindings = a.bindings /\ b.verifications = a.verifications
      /\ b.current = 0 /\ b.active = e /\ b.conflict = FALSE
      /\ b.disposition = CASE e.outcome = "accept" -> "accepted"
                           [] e.outcome = "reject" -> "rejected"
                           [] OTHER -> Baseline(a)
  BY <1>1, DecisionFields
<1>3. /\ Recorded("binding", c)' = Recorded("binding", c)
      /\ Recorded("verification", c)' = Recorded("verification", c)
  BY OneMore
<1>4. /\ LastWeighed(c)' \in Weighing(c)'
      /\ \A j \in Weighing(c)' : j <= LastWeighed(c)'
      /\ log'[LastWeighed(c)'] = e /\ Weighing(c)' # {}
  BY OnTheScale DEF Weighty
<1>5. /\ e.sources = ExactSources(a, e.outcome)
      /\ e.outcome = "accept" => e.sources.checked # {}
  BY DEF DecisionAdmitted
<1>6. Baseline(a) = IF \E r \in Recorded("binding", c) : Shape[r] = "fixture"
                    THEN "supported" ELSE "proposed"
  BY DEF Baseline, Reproducing, ClaimInv
<1> HIDE DEF b
<1>7. ExactSources(b, e.outcome) = ExactSources(a, e.outcome)
  BY <1>2 DEF ExactSources, Reproducing, Passed, NotPassed
<1>8. Stands(c, b)'
  BY <1>2, <1>3, <1>4, <1>6 DEF Stands
<1>9. ClaimInv(c, b)'
  BY <1>2, <1>3, <1>4, <1>5, <1>7, <1>8 DEF ClaimInv, Exact
<1>10. QED
  BY <1>9 DEF b

\* A finding is the projection of the assessment that it is recorded in.
LEMMA FindingExact ==
    ASSUME NEW c \in Claim, NEW a \in Assessed, NEW f \in Finding, f = Projection(c, a)
    PROVE  Exact(c, RecordFinding(a, f))
<1> DEFINE b == RecordFinding(a, f)
<1> HIDE DEF Finding, Assessed
<1>1. /\ b.bindings = a.bindings /\ b.verifications = a.verifications
      /\ b.active = a.active /\ b.disposition = a.disposition
      /\ b.current = Len(a.findings) + 1
      /\ Len(b.findings) = Len(a.findings) + 1
      /\ b.findings[b.current] = f
  BY FindingFields
<1>2. Len(a.findings) \in Nat
  BY AssessedFields, LenProperties
<1> HIDE DEF b
<1>3. b.current - 1 = Len(a.findings)
  BY <1>1, <1>2
<1>4. ProjectedStatus(b) = ProjectedStatus(a)
      /\ Reproducing(b) = Reproducing(a) /\ Passed(b) = Passed(a) /\ NotPassed(b) = NotPassed(a)
  BY <1>1 DEF ProjectedStatus, Reproducing, Passed, NotPassed
<1>5. [Projection(c, b) EXCEPT !.supersedes = Len(a.findings)] = Projection(c, a)
  <2> DEFINE s == ProjectedStatus(a)
             v == CASE s \in {"accepted", "verified_candidate"} -> Reproducing(a)
                    [] s = "rejected" -> {} [] OTHER -> a.bindings
             w == CASE s \in {"accepted", "verified_candidate"} -> Passed(a)
                    [] s = "rejected" -> {} [] OTHER -> NotPassed(a)
             d == IF s \in {"accepted", "rejected"} THEN a.active ELSE None
             P(n) == [type |-> "finding", claim |-> c, status |-> s, evidence |-> v,
                      verifications |-> w, decision |-> d, supersedes |-> n]
  <2>1. Projection(c, a) = P(Len(a.findings))
    BY DEF Projection
  <2>2. Projection(c, b) = P(Len(b.findings))
    BY <1>1, <1>4 DEF Projection
  <2> HIDE DEF s, v, w, d
  <2>3. [P(Len(b.findings)) EXCEPT !.supersedes = Len(a.findings)] = P(Len(a.findings))
    OBVIOUS
  <2>4. QED
    BY <2>1, <2>2, <2>3
<1>6. QED
  BY <1>1, <1>3, <1>5 DEF Exact, b

-----------------------------------------------------------------------------
(***************************************************************************)
(* The log and its trail                                                   *)
(***************************************************************************)

LogTypes ==
    /\ log \in Seq(Event)
    /\ minted \in Seq(Nat) /\ Len(minted) = Len(log)
    /\ trail \in Seq(Aggregate) /\ Len(trail) = Len(log) + 1

LEMMA WholeType ==
    ASSUME LogTypes
    PROVE  /\ Whole \in Aggregate /\ Len(log) \in Nat
           /\ \A i \in 1 .. Len(log) : log[i] \in Event /\ trail[i] \in Aggregate
<1> HIDE DEF Event, Aggregate
<1>1. Len(log) \in Nat
  BY LenProperties DEF LogTypes
<1>2. \A i \in 1 .. Len(log) + 1 : trail[i] \in Aggregate
  BY ElementOfSeq DEF LogTypes
<1>3. \A i \in 1 .. Len(log) : log[i] \in Event
  BY ElementOfSeq DEF LogTypes
<1>4. QED
  BY <1>1, <1>2, <1>3 DEF Whole

\* An event that the rules admit at the end of the log, minted there, becomes
\* its last one.
LEMMA LineStep ==
    ASSUME NEW e \in Event, LogTypes, LogInv, Admitted(Whole, e), Granted(e),
           log' = Append(log, e), minted' = Append(minted, Len(log)),
           trail' = Append(trail, Apply(Whole, e))
    PROVE  /\ LogTypes' /\ LogInv'
           /\ Len(log') = Len(log) + 1
           /\ Whole' = Apply(Whole, e)
           /\ \A i \in 1 .. Len(log) + 1 : trail'[i] = trail[i]
<1> HIDE DEF Event, Aggregate
<1> DEFINE n == Len(log)
<1>0. PICK g \in Aggregate : g = Whole
  BY WholeType
<1>1. n \in Nat /\ g = trail[n + 1]
  BY <1>0, WholeType DEF Whole
<1> DEFINE h == Apply(g, e)
<1>2. /\ h \in Aggregate
      /\ h.assessments[ClaimOf(e)] = Recording(g.assessments[ClaimOf(e)], e)
      /\ \A k \in Claim \ {ClaimOf(e)} : h.assessments[k] = g.assessments[k]
  BY <1>1, ApplyFields
<1>3. Admitted(g, e)
  BY <1>0
<1> HIDE DEF h
<1>4. /\ log' \in Seq(Event) /\ Len(log') = n + 1 /\ log'[n + 1] = e
      /\ \A i \in 1 .. n : log'[i] = log[i]
  BY AppendProperties DEF LogTypes
<1>5. /\ minted' \in Seq(Nat) /\ Len(minted') = n + 1 /\ minted'[n + 1] = n
      /\ \A i \in 1 .. n : minted'[i] = minted[i]
  BY <1>1, AppendProperties DEF LogTypes
<1>6. /\ trail' \in Seq(Aggregate) /\ Len(trail') = n + 2 /\ trail'[n + 2] = h
      /\ \A i \in 1 .. n + 1 : trail'[i] = trail[i]
  <2>1. trail' = Append(trail, h)
    BY <1>0 DEF h
  <2>2. QED
    BY <1>1, <1>2, <2>1, AppendProperties DEF LogTypes
<1>7. LogTypes'
  BY <1>1, <1>4, <1>5, <1>6 DEF LogTypes
<1>8. Whole' = h
  BY <1>1, <1>4, <1>6 DEF Whole
<1>9. ChainInv'
  <2>1. trail'[1] = NewAggregate
    BY <1>1, <1>6 DEF LogInv, ChainInv
  <2>2. ASSUME NEW i \in 1 .. n + 1
        PROVE  /\ Admitted(trail'[i], log'[i]) /\ Granted(log'[i])
               /\ trail'[i + 1] = Apply(trail'[i], log'[i])
               /\ minted'[i] = i - 1
    <3>1. CASE i \in 1 .. n
      <4>1. /\ trail'[i] = trail[i] /\ trail'[i + 1] = trail[i + 1]
            /\ log'[i] = log[i] /\ minted'[i] = minted[i]
        BY <1>1, <1>4, <1>5, <1>6, <3>1
      <4>2. QED
        BY <3>1, <4>1 DEF LogInv, ChainInv
    <3>2. CASE i = n + 1
      <4>1. trail'[i] = g /\ log'[i] = e /\ trail'[i + 1] = h /\ minted'[i] = i - 1
        BY <1>1, <1>4, <1>5, <1>6, <3>2
      <4>2. QED
        BY <1>3, <4>1 DEF h
    <3>3. i \in 1 .. n \/ i = n + 1
      <4> HIDE DEF n
      <4>1. QED
        BY <1>1
    <3>4. QED
      BY <3>1, <3>2, <3>3
  <2>3. QED
    BY <1>4, <2>1, <2>2 DEF ChainInv
<1>10. ASSUME NEW c \in Claim
       PROVE  ClaimInv(c, h.assessments[c])'
  <2> DEFINE a == g.assessments[c]
             b == h.assessments[c]
  <2>1. a \in Assessed /\ b \in Assessed
    BY <1>1, <1>2, AggregateFields
  <2>2. ClaimInv(c, a)
    BY <1>0 DEF LogInv
  <2>3. log \in Seq(Event)
    BY DEF LogTypes
  <2>4. ClaimOf(e) = c => b = Recording(a, e)
    BY <1>2
  <2>5. ClaimOf(e) # c => b = a
    BY <1>2
  <2>6. ClaimOf(e) = IF e.type \in {"evidence", "binding", "verification"}
                     THEN Of[e.run] ELSE e.claim
    BY EventKinds DEF ClaimOf
  <2> HIDE DEF a
  <2>7. CASE ClaimOf(e) # c \/ e.type \in {"execution", "evidence"}
    <3>1. b = a
      BY <2>4, <2>5, <2>7 DEF Recording
    <3>2. ~(Weighty(e) /\ ClaimOf(e) = c)
      BY <2>7 DEF Weighty
    <3>3. Exact(c, a)
      BY <2>2 DEF ClaimInv
    <3> HIDE DEF b
    <3>4. QED
      BY <2>1, <2>2, <2>3, <3>1, <3>2, <3>3, OffTheScale DEF b
  <2>8. CASE ClaimOf(e) = c /\ e.type = "binding"
    <3>1. b = RecordBinding(a, e.run)
      BY <2>4, <2>8 DEF Recording
    <3>2. QED
      BY <2>1, <2>2, <2>3, <2>8, <3>1, BindingWeighs
  <2>9. CASE ClaimOf(e) = c /\ e.type = "verification"
    <3>1. b = RecordVerification(a, e.run)
      BY <2>4, <2>9 DEF Recording
    <3>2. Shape[e.run] # "bare" => e.run \in a.bindings
      BY <1>3, <2>6, <2>9 DEF Admitted, a
    <3>3. QED
      BY <2>1, <2>2, <2>3, <2>9, <3>1, <3>2, VerificationWeighs
  <2>10. CASE ClaimOf(e) = c /\ e.type = "decision"
    <3>1. b = RecordDecision(a, e)
      BY <2>4, <2>10 DEF Recording
    <3>2. DecisionAdmitted(a, e)
      BY <1>3, <2>6, <2>10 DEF Admitted, a
    <3>3. QED
      BY <2>1, <2>2, <2>3, <2>10, <3>1, <3>2, DecisionWeighs
  <2>11. CASE ClaimOf(e) = c /\ e.type = "finding"
    <3>1. b = RecordFinding(a, e)
      BY <2>4, <2>11 DEF Recording
    <3>2. FindingAdmitted(c, a, e)
      BY <1>3, <2>6, <2>11 DEF Admitted, a
    <3>3. e \in Finding
      BY <2>11, EventKinds
    <3>4. Exact(c, b)
      BY <2>1, <3>1, <3>2, <3>3, FindingExact DEF FindingAdmitted
    <3>5. /\ b.bindings = a.bindings /\ b.verifications = a.verifications
          /\ b.active = a.active /\ b.conflict = a.conflict
          /\ b.disposition = a.disposition
      BY <2>1, <3>1, <3>3, FindingFields
    <3>6. ~(Weighty(e) /\ ClaimOf(e) = c)
      BY <2>11 DEF Weighty
    <3> HIDE DEF b
    <3>7. QED
      BY <2>1, <2>2, <2>3, <3>4, <3>5, <3>6, OffTheScale DEF b
  <2>12. QED
    BY <2>7, <2>8, <2>9, <2>10, <2>11, EventKinds
<1>11. LogInv'
  BY <1>8, <1>9, <1>10 DEF LogInv, ClaimInv, Stands, Exact
<1>12. QED
  BY <1>4, <1>6, <1>7, <1>8, <1>11, <1>0 DEF h

-----------------------------------------------------------------------------
(***************************************************************************)
(* The session: every step preserves the inductive invariant               *)
(***************************************************************************)

LEMMA Tails ==
    ASSUME NEW S, NEW x \in S, NEW y \in S, NEW z \in S
    PROVE  /\ Tail(<<x, y, z>>) = <<y, z>> /\ <<x, y, z>>[1] = x
           /\ Tail(<<y, z>>) = <<z>> /\ <<y, z>>[1] = y
           /\ Tail(<<z>>) = <<>> /\ <<z>>[1] = z
OBVIOUS

\* The lines of a bundle.
LEMMA LinesType ==
    ASSUME NEW r \in Run
    PROVE  /\ Lines(r) \in Seq(Record) /\ Lines(r) \in Seq(Event) /\ Lines(r) # <<>>
           /\ Lines(r)[1].type \in {"evidence", "verification"} /\ Lines(r)[1].run = r
<1> DEFINE x == [type |-> "evidence", run |-> r]
           y == [type |-> "binding", run |-> r]
           z == [type |-> "verification", run |-> r]
<1>1. x \in Record /\ y \in Record /\ z \in Record
  BY DEF Record
<1>2. /\ x \in Event /\ y \in Event /\ z \in Event
      /\ x.type = "evidence" /\ z.type = "verification" /\ x.run = r /\ z.run = r
  BY <1>1 DEF Event
<1>3. Lines(r) = IF Shape[r] = "bare" THEN <<z>> ELSE <<x, y, z>>
  BY DEF Lines
<1> HIDE DEF Record, Event, x, y, z
<1>4. QED
  BY <1>1, <1>2, <1>3

\* A pending bundle writes its next line: the rules admit it, and what it
\* still lacks is pending after it.
LEMMA PendingLine ==
    ASSUME NEW g \in Aggregate, NEW p \in Seq(Record), p # <<>>, Pending(g, p)
    PROVE  /\ p[1] \in Event /\ Admitted(g, p[1]) /\ Granted(p[1])
           /\ Tail(p) \in Seq(Record)
           /\ Tail(p) # <<>> => Pending(Apply(g, p[1]), Tail(p))
<1> DEFINE x(r) == [type |-> "evidence", run |-> r]
           y(r) == [type |-> "binding", run |-> r]
           z(r) == [type |-> "verification", run |-> r]
           h == Apply(g, p[1])
<1>1. PICK r \in Run :
        LET a == g.assessments[Of[r]]
        IN  /\ Of[r] \in g.known /\ r \notin a.verifications
            /\ Cardinality(a.verifications) < MaxSet
            /\ \/ p = Lines(r) /\ BundleAdmitted(g, r)
               \/ /\ p = <<y(r), z(r)>>
                  /\ Shape[r] # "bare" /\ r \in g.evidence /\ r \notin a.bindings
                  /\ Cardinality(a.bindings) < MaxSet
               \/ p = <<z(r)>> /\ (Shape[r] # "bare" => r \in a.bindings)
  BY DEF Pending
<1> DEFINE a == g.assessments[Of[r]]
           b == h.assessments[Of[r]]
<1>2. /\ x(r) \in Event /\ y(r) \in Event /\ z(r) \in Event
      /\ x(r) \in Record /\ y(r) \in Record /\ z(r) \in Record
      /\ ClaimOf(x(r)) = Of[r] /\ ClaimOf(y(r)) = Of[r] /\ ClaimOf(z(r)) = Of[r]
  BY DEF Record, Event, ClaimOf
<1>3. Of[r] \in Claim
  BY RunAssumption
<1>4. a \in Assessed
  BY <1>3, AggregateFields
<1>5. Tail(p) \in Seq(Record)
  BY HeadTailProperties
<1> HIDE DEF Event, Record, Aggregate, Assessed
<1>6. CASE Shape[r] # "bare" /\ p = Lines(r) /\ BundleAdmitted(g, r)
  <2>1. p[1] = x(r) /\ Tail(p) = <<y(r), z(r)>>
    BY <1>2, <1>6, Tails DEF Lines
  <2>2. Admitted(g, x(r))
    BY <1>6 DEF Admitted, BundleAdmitted
  <2>3. h.evidence = g.evidence \cup {r} /\ h.known = g.known /\ b = a
    <3>1. Recording(a, x(r)) = a /\ x(r).type = "evidence" /\ x(r).run = r
      BY DEF Recording
    <3> HIDE DEF x
    <3>2. /\ Apply(g, x(r)).known = g.known /\ Apply(g, x(r)).evidence = g.evidence \cup {r}
          /\ Apply(g, x(r)).assessments[ClaimOf(x(r))] = Recording(g.assessments[ClaimOf(x(r))], x(r))
      BY <1>2, <3>1, ApplyFields
    <3>3. QED
      BY <1>2, <2>1, <3>1, <3>2
  <2> HIDE DEF h
  <2>4. Pending(h, Tail(p))
    BY <1>1, <1>6, <2>1, <2>3 DEF Pending, BundleAdmitted
  <2>5. QED
    BY <1>2, <1>5, <2>1, <2>2, <2>4 DEF Granted, h
<1>7. CASE p = <<y(r), z(r)>> /\ Shape[r] # "bare" /\ r \in g.evidence /\ r \notin a.bindings
           /\ Cardinality(a.bindings) < MaxSet
  <2>1. p[1] = y(r) /\ Tail(p) = <<z(r)>>
    BY <1>2, <1>7, Tails
  <2>2. Admitted(g, y(r))
    BY <1>1, <1>7 DEF Admitted
  <2>3. h.known = g.known /\ b = RecordBinding(a, r)
    <3>1. Recording(a, y(r)) = RecordBinding(a, r) /\ y(r).type = "binding"
      BY DEF Recording
    <3> HIDE DEF y
    <3>2. /\ Apply(g, y(r)).known = g.known
          /\ Apply(g, y(r)).assessments[ClaimOf(y(r))] = Recording(g.assessments[ClaimOf(y(r))], y(r))
      BY <1>2, <3>1, ApplyFields
    <3>3. QED
      BY <1>2, <2>1, <3>1, <3>2
  <2>4. b.bindings = a.bindings \cup {r} /\ b.verifications = a.verifications
    BY <1>4, <2>3, BindingFields
  <2> HIDE DEF h
  <2>5. Pending(h, Tail(p))
    BY <1>1, <2>1, <2>3, <2>4 DEF Pending
  <2>6. QED
    BY <1>2, <1>5, <2>1, <2>2, <2>5 DEF Granted, h
<1>8. CASE p = <<z(r)>> /\ (Shape[r] # "bare" => r \in a.bindings)
  <2>1. p[1] = z(r) /\ Tail(p) = <<>>
    BY <1>2, <1>8, Tails
  <2>2. Admitted(g, z(r))
    BY <1>1, <1>8 DEF Admitted
  <2>3. QED
    BY <1>2, <1>5, <2>1, <2>2 DEF Granted
<1>9. QED
  BY <1>1, <1>6, <1>7, <1>8 DEF Lines

LEMMA GenesisType == NewAggregate \in Aggregate /\ NewAssessment \in Assessed
<1>1. NewAssessment \in Assessed
  <2> DEFINE S == Seq(Finding)
  <2>1. <<>> \in S
    OBVIOUS
  <2> HIDE DEF S
  <2>2. QED
    BY <2>1 DEF NewAssessment, Assessed, S
<1> HIDE DEF Assessed, NewAssessment
<1>2. QED
  BY <1>1 DEF NewAggregate, Aggregate

\* What a step that writes nothing leaves alone.
LEMMA QuietStep ==
    ASSUME LogTypes, LogInv, UNCHANGED <<log, minted, trail>>
    PROVE  LogTypes' /\ LogInv' /\ Whole' = Whole
<1>1. LogTypes' /\ Whole' = Whole
  BY DEF LogTypes, Whole
<1>2. ChainInv'
  BY DEF LogInv, ChainInv
<1>3. ASSUME NEW c \in Claim
      PROVE  ClaimInv(c, Whole.assessments[c])'
  <2>1. /\ ClaimInv(c, Whole.assessments[c]) /\ Weighing(c)' = Weighing(c)
        /\ \A t : Recorded(t, c)' = Recorded(t, c)
    BY DEF LogInv, Weighing, Recorded, ClaimOf
  <2>2. Decided(c)' = Decided(c) /\ LastWeighed(c)' = LastWeighed(c)
    BY <2>1 DEF Decided, LastWeighed
  <2>3. QED
    BY <1>1, <2>1, <2>2 DEF ClaimInv, Stands, Exact
<1>4. QED
  BY <1>1, <1>2, <1>3 DEF LogInv

\* A session in use that writes an admitted event at the end of the log.
LEMMA WriteStep ==
    ASSUME IInv, mode \in {"healthy", "appending"}, NEW e \in Event,
           Admitted(state, e), Granted(e), WriteLine(e, Len(log))
    PROVE  /\ LogTypes' /\ LogInv' /\ Whole' = Apply(state, e)
           /\ Whole' \in Aggregate /\ Len(log') = Len(log) + 1
           /\ state = trail'[read + 1] /\ Apply(state, e) = trail'[read + 2]
           /\ read \in 0 .. Len(log') /\ read + 1 \in 0 .. Len(log')
           /\ read + 1 = Len(log') /\ state = Whole
<1>1. LogTypes /\ LogInv
  BY DEF IInv, TypeOK, LogTypes
<1>2. read = Len(log) /\ state = Whole /\ Len(log) \in Nat
  BY <1>1, WholeType DEF IInv, SessionIsCurrent, Whole
<1>3. /\ LogTypes' /\ LogInv'
      /\ Len(log') = Len(log) + 1
      /\ Whole' = Apply(Whole, e)
      /\ \A i \in 1 .. Len(log) + 1 : trail'[i] = trail[i]
  BY <1>1, <1>2, LineStep DEF WriteLine
<1>4. Whole' \in Aggregate
  BY <1>1, <1>3, WholeType, ApplyFields
<1>5. Whole' = trail'[Len(log') + 1]
  BY DEF Whole
<1>6. state = trail'[read + 1] /\ Apply(state, e) = trail'[read + 2]
  BY <1>2, <1>3, <1>5 DEF Whole
<1>7. QED
  BY <1>2, <1>3, <1>4, <1>6

LEMMA OpenStep ==
    ASSUME IInv, Open
    PROVE  IInv'
<1>1. LogTypes /\ LogInv
  BY DEF IInv, TypeOK, LogTypes
<1>2. LogTypes' /\ LogInv' /\ Whole' = Whole
  BY <1>1, QuietStep DEF Open
<1>3. TypeOK'
  BY <1>1, <1>2, GenesisType, WholeType DEF IInv, TypeOK, Open, LogTypes
<1>4. SessionIsCurrent'
  BY <1>1 DEF SessionIsCurrent, Open, LogInv, ChainInv
<1>5. TokenInv' /\ PlanInv'
  BY <1>2 DEF IInv, TokenInv, PlanInv, Open
<1>6. QED
  BY <1>2, <1>3, <1>4, <1>5 DEF IInv

LEMMA ReplayEventStep ==
    ASSUME IInv, ReplayEvent
    PROVE  IInv'
<1>1. LogTypes /\ LogInv
  BY DEF IInv, TypeOK, LogTypes
<1>2. LogTypes' /\ LogInv' /\ Whole' = Whole
  BY <1>1, QuietStep DEF ReplayEvent
<1>3. read \in Nat /\ read + 1 \in 1 .. Len(log) /\ Len(log) \in Nat
  BY <1>1, WholeType DEF IInv, TypeOK, ReplayEvent
<1>4. state' = Apply(state, log[read + 1]) /\ read' = read + 1
  BY DEF ReplayEvent, Take
<1>5. trail[read + 2] = Apply(trail[read + 1], log[read + 1])
  BY <1>1, <1>3 DEF LogInv, ChainInv
<1>6. state' = trail[read + 2]
  BY <1>4, <1>5 DEF IInv, SessionIsCurrent
<1>7. state' \in Aggregate
  BY <1>1, <1>3, <1>4, WholeType, ApplyFields DEF IInv, TypeOK
<1>8. TypeOK'
  BY <1>2, <1>3, <1>4, <1>7 DEF IInv, TypeOK, ReplayEvent, LogTypes
<1>9. SessionIsCurrent'
  BY <1>3, <1>4, <1>6 DEF SessionIsCurrent, ReplayEvent
<1>10. TokenInv' /\ PlanInv'
  BY <1>2 DEF IInv, TokenInv, PlanInv, ReplayEvent
<1>11. QED
  BY <1>2, <1>8, <1>9, <1>10 DEF IInv

LEMMA ReplayedStep ==
    ASSUME IInv, Replayed
    PROVE  IInv'
<1>1. LogTypes /\ LogInv
  BY DEF IInv, TypeOK, LogTypes
<1>2. LogTypes' /\ LogInv' /\ Whole' = Whole
  BY <1>1, QuietStep DEF Replayed
<1>3. plan' \in {plan, <<>>} /\ plan' \in Seq(Record)
  BY DEF IInv, TypeOK, Replayed
<1>4. TypeOK'
  BY <1>2, <1>3 DEF IInv, TypeOK, Replayed, LogTypes
<1>5. SessionIsCurrent'
  BY DEF IInv, SessionIsCurrent, Replayed
<1>6. TokenInv'
  BY DEF IInv, TokenInv, Replayed
<1>7. PlanInv'
  BY <1>2, <1>3 DEF IInv, PlanInv, Replayed
<1>8. QED
  BY <1>2, <1>4, <1>5, <1>6, <1>7 DEF IInv

LEMMA MintStep ==
    ASSUME IInv, NEW events \in Seq(Event), Mint(events),
           \/ /\ Len(events) = 1 /\ events[1] \in Decision \cup Finding
              /\ Granted(events[1])
           \/ \E r \in Run : events = Lines(r)
    PROVE  IInv'
<1> DEFINE t == [at |-> Len(log), events |-> events]
<1>1. LogTypes /\ LogInv
  BY DEF IInv, TypeOK, LogTypes
<1>2. LogTypes' /\ LogInv' /\ Whole' = Whole
  BY <1>1, QuietStep DEF Mint
<1>3. t \in Token /\ t.events = events
  BY <1>1, WholeType DEF Token
<1>4. tokens' = tokens \cup {t}
  BY DEF Mint
<1> HIDE DEF t
<1>5. TypeOK'
  BY <1>2, <1>3, <1>4 DEF IInv, TypeOK, Mint, LogTypes
<1>6. SessionIsCurrent'
  BY DEF IInv, SessionIsCurrent, Mint
<1>7. TokenInv'
  BY <1>3, <1>4 DEF IInv, TokenInv
<1>8. PlanInv'
  BY <1>2 DEF IInv, PlanInv, Mint
<1>9. QED
  BY <1>2, <1>5, <1>6, <1>7, <1>8 DEF IInv

\* One event is appended, or not, or nobody knows.
LEMMA SingleStep ==
    ASSUME IInv, mode = "healthy", NEW e \in Event, Admitted(state, e), Granted(e),
           Single(e, Len(log)), UNCHANGED plan, tokens' \subseteq tokens
    PROVE  IInv'
<1>1. LogTypes /\ LogInv /\ plan = <<>> /\ plan' = <<>>
  BY DEF IInv, TypeOK, LogTypes, PlanInv
<1>2. TokenInv'
  BY DEF IInv, TokenInv
<1>3. PlanInv'
  BY <1>1 DEF IInv, PlanInv, Single
<1>4. CASE WriteLine(e, Len(log)) /\ Take(e) /\ UNCHANGED mode
  <2>1. /\ LogTypes' /\ LogInv' /\ Whole' = Apply(state, e)
        /\ Whole' \in Aggregate
        /\ Apply(state, e) = trail'[read + 2]
        /\ read + 1 \in 0 .. Len(log') /\ read + 1 = Len(log')
    BY <1>4, WriteStep
  <2>2. state' = Apply(state, e) /\ read' = read + 1 /\ mode' = mode /\ read \in Nat
    BY <1>4 DEF Take, IInv, TypeOK
  <2>3. TypeOK'
    BY <1>1, <2>1, <2>2 DEF IInv, TypeOK, LogTypes
  <2>4. SessionIsCurrent'
    BY <2>1, <2>2 DEF SessionIsCurrent
  <2>5. QED
    BY <1>2, <1>3, <2>1, <2>3, <2>4 DEF IInv
<1>5. CASE WriteLine(e, Len(log)) /\ mode' = "uncertain" /\ UNCHANGED <<read, state>>
  <2>1. /\ LogTypes' /\ LogInv'
        /\ state = trail'[read + 1] /\ read \in 0 .. Len(log')
    BY <1>5, WriteStep
  <2>2. TypeOK'
    BY <1>1, <1>5, <2>1 DEF IInv, TypeOK, LogTypes
  <2>3. SessionIsCurrent'
    BY <1>5, <2>1 DEF SessionIsCurrent
  <2>4. QED
    BY <1>2, <1>3, <2>1, <2>2, <2>3 DEF IInv
<1>6. CASE Keep /\ mode' \in {mode, "uncertain"} /\ UNCHANGED <<read, state>>
  <2>1. LogTypes' /\ LogInv'
    BY <1>1, <1>6, QuietStep DEF Keep
  <2>2. TypeOK'
    BY <1>1, <1>6, <2>1 DEF IInv, TypeOK, LogTypes, Keep
  <2>3. SessionIsCurrent'
    BY <1>6 DEF IInv, SessionIsCurrent, Keep
  <2>4. QED
    BY <1>2, <1>3, <2>1, <2>2, <2>3 DEF IInv
<1>7. QED
  BY <1>4, <1>5, <1>6 DEF Single

LEMMA MintDecisionStep ==
    ASSUME IInv, NEW c \in Claim, NEW o \in Outcome, NEW u \in Human, MintDecision(c, o, u)
    PROVE  IInv'
<1> DEFINE x == ExactSources(state.assessments[c], o)
           d == [type |-> "decision", claim |-> c, outcome |-> o, human |-> u, sources |-> x]
<1>1. state.assessments[c] \in Assessed
  BY AggregateFields DEF IInv, TypeOK
<1>2. x \in Sources
  BY <1>1, AssessedFields DEF ExactSources, Sources, Outcome, Reproducing, Passed, NotPassed
<1>3. d \in Decision /\ d.type = "decision" /\ d.human = u /\ d.outcome = o
  BY <1>2 DEF Decision
<1>4. <<u, o>> \in Grants /\ Mint(<<d>>)
  BY DEF MintDecision
<1> HIDE DEF d, x, Decision, Finding, Event
<1>5. <<d>> \in Seq(Event) /\ Len(<<d>>) = 1 /\ <<d>>[1] = d
  BY <1>3 DEF Event
<1>6. Granted(<<d>>[1])
  BY <1>3, <1>4, <1>5 DEF Granted
<1>7. QED
  BY <1>3, <1>4, <1>5, <1>6, MintStep

\* A projection is a finding.
LEMMA ProjectionType ==
    ASSUME NEW c \in Claim, NEW a \in Assessed
    PROVE  Projection(c, a) \in Finding /\ Projection(c, a).type = "finding"
<1> DEFINE s == ProjectedStatus(a)
           v == CASE s \in {"accepted", "verified_candidate"} -> Reproducing(a)
                  [] s = "rejected" -> {} [] OTHER -> a.bindings
           w == CASE s \in {"accepted", "verified_candidate"} -> Passed(a)
                  [] s = "rejected" -> {} [] OTHER -> NotPassed(a)
           d == IF s \in {"accepted", "rejected"} THEN a.active ELSE None
           n == Len(a.findings)
<1>1. s \in Status
  BY DEF ProjectedStatus, Status
<1>2. v \in SUBSET Run /\ w \in SUBSET Run
  BY AssessedFields DEF Reproducing, Passed, NotPassed
<1>3. d \in Decision \cup {None} /\ n \in Nat
  BY AssessedFields, LenProperties
<1>4. Projection(c, a) = [type |-> "finding", claim |-> c, status |-> s, evidence |-> v,
                          verifications |-> w, decision |-> d, supersedes |-> n]
  BY DEF Projection
<1> HIDE DEF s, v, w, d, n
<1>5. QED
  BY <1>1, <1>2, <1>3, <1>4 DEF Finding

LEMMA MintFindingStep ==
    ASSUME IInv, NEW c \in Claim, MintFinding(c)
    PROVE  IInv'
<1> DEFINE f == Projection(c, state.assessments[c])
<1>1. state.assessments[c] \in Assessed
  BY AggregateFields DEF IInv, TypeOK
<1>2. f \in Finding /\ f.type = "finding"
  BY <1>1, ProjectionType
<1>3. Mint(<<f>>)
  BY DEF MintFinding
<1> HIDE DEF f, Decision, Finding, Event
<1>4. <<f>> \in Seq(Event) /\ Len(<<f>>) = 1 /\ <<f>>[1] = f
  BY <1>2 DEF Event
<1>5. Granted(<<f>>[1])
  BY <1>2, <1>4 DEF Granted
<1>6. QED
  BY <1>2, <1>3, <1>4, <1>5, MintStep

LEMMA MintBundleStep ==
    ASSUME IInv, NEW r \in Run, MintBundle(r)
    PROVE  IInv'
BY LinesType, MintStep DEF MintBundle

LEMMA AppendExecutionStep ==
    ASSUME IInv, NEW c \in Claim, AppendExecution(c)
    PROVE  IInv'
<1> DEFINE e == [type |-> "execution", claim |-> c]
<1>1. e \in Event /\ Granted(e)
  BY DEF Event, Execution, Granted
<1>2. /\ mode = "healthy" /\ Admitted(state, e) /\ Single(e, Len(log))
      /\ UNCHANGED plan /\ tokens' \subseteq tokens
  BY DEF AppendExecution
<1> HIDE DEF e
<1>3. QED
  BY <1>1, <1>2, SingleStep

\* A call of a session in use that changes only its plan, mode and tokens.
LEMMA OtherwiseStep ==
    ASSUME IInv, UNCHANGED <<log, minted, trail, read, state>>, tokens' \subseteq tokens,
           mode = "healthy", mode' \in {"healthy", "appending"},
           plan' \in Seq(Record), mode' = "healthy" => plan' = <<>>,
           mode' = "appending" => plan' # <<>> /\ Pending(Whole, plan')
    PROVE  IInv'
<1>1. LogTypes /\ LogInv
  BY DEF IInv, TypeOK, LogTypes
<1>2. LogTypes' /\ LogInv' /\ Whole' = Whole
  BY <1>1, QuietStep
<1>3. TypeOK'
  BY <1>2 DEF IInv, TypeOK, LogTypes
<1>4. SessionIsCurrent'
  BY DEF IInv, SessionIsCurrent
<1>5. TokenInv'
  BY DEF IInv, TokenInv
<1>6. PlanInv'
  BY <1>2 DEF PlanInv
<1>7. QED
  BY <1>2, <1>3, <1>4, <1>5, <1>6 DEF IInv

LEMMA AppendTokenStep ==
    ASSUME IInv, NEW t \in tokens, AppendToken(t)
    PROVE  IInv'
<1> DEFINE e == t.events[1]
<1>1. t \in Token /\ t.events \in Seq(Event) /\ Len(t.events) = 1
  BY DEF IInv, TypeOK, Token, AppendToken
<1>2. e \in Event
  BY <1>1, ElementOfSeq
<1>3. Granted(e)
  <2>1. e.type \in {"decision", "finding"}
    BY DEF AppendToken
  <2>2. ~\E r \in Run : t.events = Lines(r)
    BY <2>1, LinesType
  <2>3. QED
    BY <2>2 DEF IInv, TokenInv
<1> HIDE DEF Event, e
<1>4. CASE Fresh(t) /\ Admitted(state, e)
  <2>1. t.at = Len(log)
    BY <1>4 DEF Fresh
  <2>2. mode = "healthy" /\ Single(e, Len(log)) /\ UNCHANGED plan /\ tokens' \subseteq tokens
    BY <1>4, <2>1 DEF AppendToken, e
  <2>3. QED
    BY <1>2, <1>3, <1>4, <2>2, SingleStep
<1>5. CASE ~(Fresh(t) /\ Admitted(state, e))
  <2>1. /\ Keep /\ UNCHANGED <<mode, read, state>> /\ mode = "healthy"
        /\ tokens' \subseteq tokens /\ UNCHANGED plan
    BY <1>5 DEF AppendToken, e
  <2>2. plan \in Seq(Record) /\ plan = <<>>
    BY <2>1 DEF IInv, TypeOK, PlanInv
  <2>3. QED
    BY <2>1, <2>2, OtherwiseStep DEF Keep
<1>6. QED
  BY <1>4, <1>5

LEMMA BeginBundleStep ==
    ASSUME IInv, NEW t \in tokens, BeginBundle(t)
    PROVE  IInv'
<1>1. /\ UNCHANGED <<log, minted, trail, read, state>> /\ tokens' \subseteq tokens
      /\ mode = "healthy"
  BY DEF BeginBundle
<1>2. PICK r \in Run : t.events = Lines(r)
  <2>1. t.events[1].type \in {"evidence", "verification"}
    BY DEF BeginBundle
  <2>2. t.events[1] \notin Decision \cup Finding
    BY <2>1 DEF Decision, Finding
  <2>3. QED
    BY <2>2 DEF IInv, TokenInv
<1>3. /\ Lines(r) \in Seq(Record) /\ Lines(r) # <<>> /\ t.events[1].run = r
  BY <1>2, LinesType
<1>4. plan \in Seq(Record) /\ plan = <<>>
  BY <1>1 DEF IInv, TypeOK, PlanInv
<1>5. state = Whole
  BY <1>1 DEF IInv, SessionIsCurrent, Whole
<1>6. CASE Fresh(t) /\ BundleAdmitted(state, r)
  <2>1. plan' = Lines(r) /\ mode' = "appending"
    BY <1>2, <1>3, <1>6 DEF BeginBundle
  <2>2. Pending(Whole, plan')
    BY <1>5, <1>6, <2>1 DEF Pending, BundleAdmitted
  <2>3. QED
    BY <1>1, <1>3, <2>1, <2>2, OtherwiseStep
<1>7. CASE ~(Fresh(t) /\ BundleAdmitted(state, r))
  <2>1. plan' = plan /\ mode' = mode
    BY <1>3, <1>7 DEF BeginBundle
  <2>2. QED
    BY <1>1, <1>4, <2>1, OtherwiseStep
<1>8. QED
  BY <1>6, <1>7

\* What the next line of the plan is, in a session that appends it.
LEMMA NextLine ==
    ASSUME IInv, mode = "appending"
    PROVE  /\ plan[1] \in Event /\ Admitted(state, plan[1]) /\ Granted(plan[1])
           /\ Tail(plan) \in Seq(Record)
           /\ Tail(plan) # <<>> => Pending(Apply(state, plan[1]), Tail(plan))
<1>1. LogTypes
  BY DEF IInv, TypeOK, LogTypes
<1>2. state = Whole /\ Whole \in Aggregate
  BY <1>1, WholeType DEF IInv, SessionIsCurrent, Whole
<1>3. plan \in Seq(Record) /\ plan # <<>> /\ Pending(Whole, plan)
  BY DEF IInv, TypeOK, PlanInv
<1>4. QED
  BY <1>2, <1>3, PendingLine

LEMMA BundleLineStep ==
    ASSUME IInv, BundleLine
    PROVE  IInv'
<1> DEFINE e == plan[1]
<1>1. /\ e \in Event /\ Admitted(state, e) /\ Granted(e)
      /\ Tail(plan) \in Seq(Record)
      /\ Tail(plan) # <<>> => Pending(Apply(state, e), Tail(plan))
  BY NextLine DEF BundleLine
<1>2. /\ WriteLine(e, Len(log)) /\ state' = Apply(state, e) /\ read' = read + 1
      /\ plan' = Tail(plan) /\ UNCHANGED tokens
      /\ mode' = IF plan' = <<>> THEN "healthy" ELSE "appending"
  BY DEF BundleLine, Take
<1>3. /\ LogTypes' /\ LogInv' /\ Whole' = Apply(state, e)
      /\ Whole' \in Aggregate
      /\ Apply(state, e) = trail'[read + 2]
      /\ read + 1 \in 0 .. Len(log') /\ read + 1 = Len(log')
  <2> HIDE DEF e
  <2>1. QED
    BY <1>1, <1>2, WriteStep DEF BundleLine
<1> HIDE DEF e
<1>4. read \in Nat
  BY DEF IInv, TypeOK
<1>5. TypeOK'
  BY <1>1, <1>2, <1>3 DEF IInv, TypeOK, LogTypes
<1>6. SessionIsCurrent'
  BY <1>2, <1>3, <1>4 DEF SessionIsCurrent
<1>7. TokenInv'
  BY <1>2 DEF IInv, TokenInv
<1>8. PlanInv'
  BY <1>1, <1>2, <1>3 DEF PlanInv
<1>9. QED
  BY <1>3, <1>5, <1>6, <1>7, <1>8 DEF IInv

LEMMA BundleInterruptedStep ==
    ASSUME IInv, BundleInterrupted
    PROVE  IInv'
<1> DEFINE e == plan[1]
<1>1. /\ e \in Event /\ Admitted(state, e) /\ Granted(e)
      /\ Tail(plan) \in Seq(Record)
      /\ Tail(plan) # <<>> => Pending(Apply(state, e), Tail(plan))
  BY NextLine DEF BundleInterrupted
<1>2. mode = "appending" /\ mode' = "uncertain" /\ UNCHANGED <<read, state, tokens>>
  BY DEF BundleInterrupted
<1>3. TokenInv'
  BY <1>2 DEF IInv, TokenInv
<1>4. CASE WriteLine(e, Len(log)) /\ plan' = Tail(plan)
  <2>1. /\ LogTypes' /\ LogInv' /\ Whole' = Apply(state, e)
        /\ state = trail'[read + 1] /\ read \in 0 .. Len(log')
    <3> HIDE DEF e
    <3>1. QED
      BY <1>1, <1>2, <1>4, WriteStep
  <2> HIDE DEF e
  <2>2. TypeOK'
    BY <1>1, <1>2, <1>4, <2>1 DEF IInv, TypeOK, LogTypes
  <2>3. SessionIsCurrent' /\ PlanInv'
    BY <1>1, <1>2, <1>4, <2>1 DEF SessionIsCurrent, PlanInv
  <2>4. QED
    BY <1>3, <2>1, <2>2, <2>3 DEF IInv
<1>5. CASE Keep /\ UNCHANGED plan
  <2>1. LogTypes /\ LogInv
    BY DEF IInv, TypeOK, LogTypes
  <2>2. LogTypes' /\ LogInv' /\ Whole' = Whole
    BY <1>5, <2>1, QuietStep DEF Keep
  <2>3. TypeOK'
    BY <1>2, <1>5, <2>2 DEF IInv, TypeOK, LogTypes, Keep
  <2>4. SessionIsCurrent' /\ PlanInv'
    BY <1>2, <1>5, <2>2 DEF IInv, SessionIsCurrent, PlanInv, Keep
  <2>5. QED
    BY <1>3, <2>2, <2>3, <2>4 DEF IInv
<1>6. QED
  BY <1>4, <1>5 DEF BundleInterrupted

LEMMA CloseStep ==
    ASSUME IInv, Close
    PROVE  IInv'
<1>1. LogTypes /\ LogInv
  BY DEF IInv, TypeOK, LogTypes
<1>2. LogTypes' /\ LogInv' /\ Whole' = Whole
  BY <1>1, QuietStep DEF Close
<1>3. TypeOK'
  BY <1>1, <1>2, GenesisType, WholeType DEF IInv, TypeOK, Close, LogTypes
<1>4. SessionIsCurrent'
  BY <1>1 DEF SessionIsCurrent, Close, LogInv, ChainInv
<1>5. TokenInv' /\ PlanInv'
  BY <1>2 DEF IInv, TokenInv, PlanInv, Close
<1>6. QED
  BY <1>2, <1>3, <1>4, <1>5 DEF IInv

-----------------------------------------------------------------------------
(***************************************************************************)
(* The theorems                                                            *)
(***************************************************************************)

\* The inductive invariant of the assessments: every event of the log was
\* admitted by the rules and minted where it stands, each assessment says what
\* the events of its claim say, and the pending lines of an interrupted bundle
\* are the ones that the rules admit next.
THEOREM AssessmentInv == Spec => []IInv
<1>1. Init => IInv
  <2> SUFFICES ASSUME Init PROVE IInv
    OBVIOUS
  <2> USE DEF Init
  <2>1. Len(log) = 0 /\ Whole = NewAggregate
    BY DEF Whole
  <2>2. TypeOK
    BY GenesisType DEF TypeOK
  <2>3. ChainInv
    BY <2>1 DEF ChainInv
  <2>4. ASSUME NEW c \in Claim
        PROVE  ClaimInv(c, Whole.assessments[c])
    <3>1. Whole.assessments[c] = NewAssessment
      BY <2>1 DEF NewAggregate
    <3>2. /\ \A t : Recorded(t, c) = {}
          /\ Weighing(c) = {} /\ Decided(c) = {}
      BY <2>1 DEF Recorded, Weighing, Decided
    <3>3. /\ NewAssessment.bindings = {} /\ NewAssessment.verifications = {}
          /\ NewAssessment.active = None /\ NewAssessment.current = 0
          /\ NewAssessment.conflict = FALSE /\ NewAssessment.disposition = "proposed"
      BY DEF NewAssessment
    <3>4. Stands(c, NewAssessment)
      BY <3>2, <3>3 DEF Stands
    <3>5. QED
      BY <3>1, <3>2, <3>3, <3>4 DEF ClaimInv, Exact
  <2>5. SessionIsCurrent /\ TokenInv /\ PlanInv
    BY DEF SessionIsCurrent, TokenInv, PlanInv
  <2>6. QED
    BY <2>2, <2>3, <2>4, <2>5 DEF IInv, LogInv
<1>2. IInv /\ [Next]_vars => IInv'
  <2> SUFFICES ASSUME IInv, [Next]_vars PROVE IInv'
    OBVIOUS
  <2>1. CASE Next
    BY <2>1, OpenStep, ReplayEventStep, ReplayedStep, BundleLineStep,
       BundleInterruptedStep, CloseStep, MintFindingStep, AppendExecutionStep,
       MintDecisionStep, MintBundleStep, AppendTokenStep, BeginBundleStep DEF Next
  <2>2. CASE UNCHANGED vars
    <3>1. LogTypes /\ LogInv
      BY DEF IInv, TypeOK, LogTypes
    <3>2. LogTypes' /\ LogInv' /\ Whole' = Whole
      BY <2>2, <3>1, QuietStep DEF vars
    <3>3. QED
      BY <2>2, <3>2 DEF vars, IInv, TypeOK, SessionIsCurrent, TokenInv, PlanInv
  <2>3. QED
    BY <2>1, <2>2
<1>3. QED
  BY <1>1, <1>2, PTL DEF Spec

\* A session in use has the aggregate that a replay of the whole log gives.
THEOREM SessionsAreCurrent == Spec => []SessionIsCurrent
<1>1. IInv => SessionIsCurrent
  BY DEF IInv
<1>2. QED
  BY <1>1, AssessmentInv, PTL

\* replay_validated_v3_prefix accepts every log that sessions wrote, of any
\* length, whatever they were interrupted in.
THEOREM ReplayAcceptsItsLog == Spec => []ReplayNeverRefuses
<1>1. ASSUME IInv PROVE ReplayNeverRefuses
  <2> SUFFICES ASSUME mode = "opening", read < Len(log)
               PROVE  ReplayAdmits(log[read + 1])
    BY DEF ReplayNeverRefuses
  <2>1. LogTypes /\ LogInv
    BY <1>1 DEF IInv, TypeOK, LogTypes
  <2>2. read + 1 \in 1 .. Len(log)
    BY <1>1, <2>1, WholeType DEF IInv, TypeOK
  <2>3. QED
    BY <1>1, <2>1, <2>2 DEF IInv, SessionIsCurrent, LogInv, ChainInv, ReplayAdmits, Granted
<1>2. QED
  BY <1>1, AssessmentInv, PTL

\* A decision is recorded only over the records that its maker saw.
THEOREM DecisionsSawTheirClosure == Spec => []DecisionSawItsClosure
<1>1. ASSUME IInv PROVE DecisionSawItsClosure
  <2> SUFFICES ASSUME NEW c \in Claim, NEW i \in Decided(c), NEW j \in Weighing(c), j < i
               PROVE  j <= minted[i]
    BY DEF DecisionSawItsClosure
  <2>1. i \in 1 .. Len(log) /\ j \in 1 .. Len(log)
    BY DEF Decided, Weighing
  <2>2. minted[i] = i - 1
    BY <1>1, <2>1 DEF IInv, LogInv, ChainInv
  <2>3. Len(log) \in Nat
    BY <1>1, LenProperties DEF IInv, TypeOK
  <2>4. QED
    BY <2>1, <2>2, <2>3
<1>2. QED
  BY <1>1, AssessmentInv, PTL

\* The assessments of a healthy session are those of the whole log.
LEMMA HealthyClaims ==
    ASSUME IInv, mode = "healthy", NEW c \in Claim
    PROVE  state.assessments[c] \in Assessed /\ ClaimInv(c, state.assessments[c])
<1>1. state = Whole
  BY DEF IInv, SessionIsCurrent, Whole
<1>2. QED
  BY <1>1, AggregateFields DEF IInv, TypeOK, LogInv

\* A current finding says what its claim's assessment says, and is the last.
THEOREM CurrentFindingsAreExact == Spec => []CurrentFindingExact
<1>1. IInv => CurrentFindingExact
  BY HealthyClaims DEF CurrentFindingExact, ClaimInv
<1>2. QED
  BY <1>1, AssessmentInv, PTL

\* A claim stands as the order of its events says.
THEOREM StandingsMatchTheLog == Spec => []StandingMatchesLog
<1>1. IInv => StandingMatchesLog
  BY HealthyClaims DEF StandingMatchesLog, ClaimInv
<1>2. QED
  BY <1>1, AssessmentInv, PTL

\* A claim is shown as accepted only by force of a granted decision that cites
\* everything that reproduces and passes in the log, and nothing came after it.
THEOREM AcceptanceRestsOnTheLog == Spec => []AcceptedRestsOnLog
<1>1. ASSUME IInv PROVE AcceptedRestsOnLog
  <2> DEFINE a(c) == state.assessments[c]
             d(c) == log[LastWeighed(c)]
             repro(c) == {r \in Recorded("binding", c) : Shape[r] = "fixture"}
             pass(c) == {r \in Recorded("verification", c) : Shape[r] = "fixture"}
  <2> SUFFICES ASSUME mode = "healthy", NEW c \in Claim, a(c).disposition = "accepted"
               PROVE  /\ Decided(c) # {}
                      /\ d(c).type = "decision" /\ d(c).outcome = "accept"
                      /\ <<d(c).human, d(c).outcome>> \in Grants
                      /\ d(c).sources = [cited |-> repro(c), checked |-> pass(c)]
                      /\ repro(c) # {} /\ pass(c) # {}
    BY DEF AcceptedRestsOnLog
  <2>1. a(c) \in Assessed /\ ClaimInv(c, a(c)) /\ log \in Seq(Event)
    BY <1>1, HealthyClaims DEF IInv, TypeOK
  <2>2. Weighing(c) # {} /\ d(c).type = "decision" /\ d(c).outcome = "accept"
    BY <2>1 DEF ClaimInv, Stands
  <2>3. LastWeighed(c) \in 1 .. Len(log)
    BY <2>1, <2>2 DEF ClaimInv, Weighing
  <2>4. <<d(c).human, d(c).outcome>> \in Grants
    BY <1>1, <2>2, <2>3 DEF IInv, LogInv, ChainInv, Granted
  <2>5. Decided(c) # {} /\ a(c).active # None /\ a(c).active = d(c)
    <3> HIDE DEF a
    <3>1. QED
      BY <2>1, <2>2, InForce
  <2>6. Reproducing(a(c)) = repro(c) /\ Passed(a(c)) = pass(c) /\ pass(c) \subseteq repro(c)
    BY <2>1 DEF ClaimInv, Reproducing, Passed
  <2>7. /\ d(c).sources = ExactSources(a(c), "accept")
        /\ d(c).sources.checked # {}
    BY <2>1, <2>2, <2>5 DEF ClaimInv
  <2>8. ExactSources(a(c), "accept") = [cited |-> repro(c), checked |-> pass(c)]
    BY <2>6 DEF ExactSources
  <2> HIDE DEF repro, pass, d
  <2>9. pass(c) # {}
    BY <2>7, <2>8
  <2>10. QED
    BY <2>2, <2>4, <2>5, <2>6, <2>7, <2>8, <2>9
<1>2. QED
  BY <1>1, AssessmentInv, PTL

=============================================================================
