---------------------------- MODULE BundleProofs ----------------------------
(***************************************************************************)
(* Proofs about Bundle, for every value of its constants: any number of    *)
(* bundles, failed calls, kills and power failures.                        *)
(***************************************************************************)
EXTENDS Bundle, TLAPS

-----------------------------------------------------------------------------
(***************************************************************************)
(* Records, prefixes and lines                                             *)
(***************************************************************************)

\* The fields of a log.
LEMMA LogType ==
    ASSUME NEW f \in Log
    PROVE  /\ f.lines \in Seq(Line) /\ Len(f.lines) \in Nat /\ f.frag \in 0 .. 2
           /\ f.frag = 0 => f = Cut(f.lines)
BY DEF Log, Cut

\* A log without a fragment.
LEMMA CutType ==
    ASSUME NEW s \in Seq(Line)
    PROVE  Cut(s) \in Log /\ Cut(s).lines = s /\ Cut(s).frag = 0
BY DEF Log, Cut

\* The fields of a plan, which is never a file without content.
LEMMA PlanType ==
    /\ \A p \in Plan : p.bundle \in Bundle /\ p.pre \in Seq(Line) /\ Len(p.pre) \in Nat
    /\ Absent \notin Plan /\ Blank \notin Plan /\ Absent # Blank
BY FileAssumption DEF Plan

\* The fields of an intent.
LEMMA IntentType ==
    /\ \A i \in Intent : /\ i.kind \in Kind /\ i.plan \in Plan \cup {NoPlan}
                         /\ i.tail \in Seq(Line) /\ Len(i.tail) \in Nat /\ i.gone \in Log
    /\ NoJob \notin Intent
BY NoJobAssumption DEF Intent

\* The number of lines of a bundle.
LEMMA SizeType == \A b \in Bundle : Size[b] \in 1 .. 3 /\ Size[b] \in Nat
BY SizeAssumption

\* Every log begins with itself.
LEMMA PrefixRefl ==
    ASSUME NEW s \in Seq(Line)
    PROVE  Prefix(s, s)
BY DEF Prefix

\* The beginning of a beginning.
LEMMA PrefixTrans ==
    ASSUME NEW s \in Seq(Line), NEW t \in Seq(Line), NEW u \in Seq(Line),
           Prefix(s, t), Prefix(t, u)
    PROVE  Prefix(s, u)
BY DEF Prefix

\* Two sequences of which each begins the other are the same.
LEMMA PrefixEqual ==
    ASSUME NEW s \in Seq(Line), NEW t \in Seq(Line), Prefix(s, t), Len(t) <= Len(s)
    PROVE  s = t
BY DEF Prefix

\* What a log holds it holds after another line.
LEMMA PrefixAppend ==
    ASSUME NEW s \in Seq(Line), NEW t \in Seq(Line), NEW x \in Line, Prefix(s, t)
    PROVE  Prefix(s, Append(t, x))
BY DEF Prefix

\* The first n lines of a log.
LEMMA UptoType ==
    ASSUME NEW s \in Seq(Line), NEW n \in Nat, n <= Len(s)
    PROVE  /\ Upto(s, n) \in Seq(Line) /\ Len(Upto(s, n)) = n
           /\ \A k \in 1 .. n : Upto(s, n)[k] = s[k]
           /\ Prefix(Upto(s, n), s)
BY DEF Upto, Prefix

\* What lies below a cut stays.
LEMMA PrefixUpto ==
    ASSUME NEW s \in Seq(Line), NEW t \in Seq(Line), NEW n \in Nat, n <= Len(t),
           Prefix(s, t), Len(s) <= n
    PROVE  Prefix(s, Upto(t, n))
BY UptoType DEF Prefix

\* A fragment and the lines it follows.
LEMMA RestType ==
    ASSUME NEW f \in Log, NEW n \in Nat, n <= Len(f.lines)
    PROVE  Rest(f, n) \in Log
<1>1. f.lines \in Seq(Line) /\ f.frag \in 0 .. 2
  BY DEF Log
<1>2. After(f.lines, n) \in Seq(Line)
  BY <1>1 DEF After
<1>3. QED
  BY <1>1, <1>2 DEF Rest, Log

\* A log whose lines are in order keeps them so when it is cut, ...
LEMMA ExactPrefix ==
    ASSUME NEW s \in Seq(Line), NEW t \in Seq(Line), Prefix(s, t), Exact(t)
    PROVE  Exact(s)
<1>1. Len(s) \in Nat /\ Len(t) \in Nat /\ Len(s) <= Len(t)
      /\ \A i \in 1 .. Len(s) : s[i] = t[i]
  BY DEF Prefix
<1>2. InOrder(s)
  <2>1. ASSUME NEW i \in 1 .. Len(s)
        PROVE  \/ s[i][2] = 1 /\ (i > 1 => Final(s[i - 1]))
               \/ i > 1 /\ s[i - 1] = <<s[i][1], s[i][2] - 1>>
    <3>1. \/ t[i][2] = 1 /\ (i > 1 => Final(t[i - 1]))
          \/ i > 1 /\ t[i - 1] = <<t[i][1], t[i][2] - 1>>
      BY <1>1 DEF Exact, InOrder
    <3>2. s[i] = t[i] /\ (i > 1 => s[i - 1] = t[i - 1])
      BY <1>1
    <3>3. QED
      BY <3>1, <3>2
  <2>2. QED
    BY <2>1 DEF InOrder
<1>3. \A i, j \in 1 .. Len(s) : s[i] = s[j] => i = j
  BY <1>1 DEF Exact
<1>4. QED
  BY <1>2, <1>3 DEF Exact

\* ... and when a log that p fits gets the next line of p.
LEMMA ExactAppend ==
    ASSUME NEW p \in Plan, NEW f \in Log, Fits(p, f), Exact(f.lines),
           Whole(p.pre), NewTo(p.bundle, p.pre),
           NEW k \in Nat, Len(f.lines) = Len(p.pre) + k, k < Size[p.bundle]
    PROVE  /\ <<p.bundle, k + 1>> \in Line
           /\ Append(f.lines, <<p.bundle, k + 1>>) \in Seq(Line)
           /\ Exact(Append(f.lines, <<p.bundle, k + 1>>))
<1> DEFINE x == <<p.bundle, k + 1>>
           s == f.lines
           n == Len(p.pre)
           t == Append(s, x)
<1>1. p.bundle \in Bundle /\ p.pre \in Seq(Line) /\ n \in Nat /\ s \in Seq(Line)
      /\ Len(s) = n + k
  BY PlanType, LogType
<1>2. Size[p.bundle] \in 1 .. 3
  BY <1>1, SizeType
<1>3. x \in Line /\ x[1] = p.bundle /\ x[2] = k + 1
  BY <1>1, <1>2 DEF Line
<1>4. /\ \A i \in 1 .. n : s[i] = p.pre[i]
      /\ \A i \in n + 1 .. Len(s) : s[i] = <<p.bundle, i - n>>
  BY DEF Fits
<1>5. s # <<>> => Len(s) \in 1 .. Len(s)
  BY <1>1
<1>6. \/ x[2] = 1 /\ (Len(s) > 0 => Final(s[Len(s)]))
      \/ Len(s) > 0 /\ s[Len(s)] = <<x[1], x[2] - 1>>
  <2>1. CASE k = 0
    <3>1. Len(s) > 0 => Final(p.pre[n])
      BY <1>1, <2>1 DEF Whole
    <3>2. QED
      BY <1>1, <1>3, <1>4, <2>1, <3>1
  <2>2. CASE k > 0
    <3>1. s[Len(s)] = <<p.bundle, k>>
      BY <1>1, <1>4, <2>2
    <3>2. QED
      BY <1>1, <1>3, <2>2, <3>1
  <2>3. QED
    BY <2>1, <2>2
<1>7. \A i \in 1 .. Len(s) : s[i] # x
  <2>1. ASSUME NEW i \in 1 .. Len(s)
        PROVE  s[i] # x
    <3>1. CASE i <= n
      BY <1>1, <1>3, <1>4, <3>1 DEF NewTo
    <3>2. CASE i > n
      <4>1. s[i] = <<p.bundle, i - n>> /\ i - n <= k
        BY <1>1, <1>4, <3>2
      <4>2. s[i][2] = i - n
        BY <4>1
      <4>3. QED
        BY <1>1, <1>3, <4>1, <4>2
    <3>3. QED
      BY <1>1, <3>1, <3>2
  <2>2. QED
    BY <2>1
<1> HIDE DEF x, s
<1>8. /\ t \in Seq(Line) /\ Len(t) = Len(s) + 1 /\ t[Len(s) + 1] = x
      /\ \A i \in 1 .. Len(s) : t[i] = s[i]
  BY <1>1, <1>3
<1> HIDE DEF t, n
<1>9. InOrder(t)
  <2>1. ASSUME NEW i \in 1 .. Len(t)
        PROVE  \/ t[i][2] = 1 /\ (i > 1 => Final(t[i - 1]))
               \/ i > 1 /\ t[i - 1] = <<t[i][1], t[i][2] - 1>>
    <3>1. CASE i = Len(s) + 1
      BY <1>1, <1>6, <1>8, <3>1
    <3>2. CASE i # Len(s) + 1
      <4>1. i \in 1 .. Len(s) /\ t[i] = s[i] /\ (i > 1 => t[i - 1] = s[i - 1])
        <5>1. i \in 1 .. Len(s) /\ (i > 1 => i - 1 \in 1 .. Len(s))
          BY <1>1, <1>8, <3>2
        <5>2. QED
          BY <1>8, <5>1
      <4>2. \/ s[i][2] = 1 /\ (i > 1 => Final(s[i - 1]))
            \/ i > 1 /\ s[i - 1] = <<s[i][1], s[i][2] - 1>>
        BY <4>1 DEF Exact, InOrder, s
      <4>3. QED
        BY <4>1, <4>2
    <3>3. QED
      BY <3>1, <3>2
  <2>2. QED
    BY <2>1 DEF InOrder
<1>10. \A i, j \in 1 .. Len(t) : t[i] = t[j] => i = j
  <2>1. \A i, j \in 1 .. Len(s) : s[i] = s[j] => i = j
    BY DEF Exact, s
  <2>2. QED
    BY <1>1, <1>7, <1>8, <2>1
<1>11. QED
  BY <1>3, <1>8, <1>9, <1>10 DEF Exact, t, s, x

\* A plan fits the log it is made on, ...
LEMMA FitsFresh ==
    ASSUME NEW b \in Bundle, NEW s \in Seq(Line), NEW f \in Log, f.lines = s
    PROVE  /\ [bundle |-> b, pre |-> s] \in Plan
           /\ Fits([bundle |-> b, pre |-> s], f)
<1>1. [bundle |-> b, pre |-> s] \in Plan
  BY DEF Plan
<1>2. Size[b] \in 1 .. 3 /\ Len(s) \in Nat
  BY SizeType
<1>3. QED
  BY <1>1, <1>2 DEF Fits

\* ... the log with one more unit or line, ...
LEMMA FitsMore ==
    ASSUME NEW p \in Plan, NEW f \in Log, Fits(p, f),
           NEW k \in Nat, Len(f.lines) = Len(p.pre) + k, k < Size[p.bundle]
    PROVE  /\ f.frag < 2 => Fits(p, [f EXCEPT !.frag = @ + 1])
           /\ Fits(p, Cut(Append(f.lines, <<p.bundle, k + 1>>)))
<1> DEFINE x == <<p.bundle, k + 1>>
           s == f.lines
           n == Len(p.pre)
           t == Append(s, x)
<1>1. p.bundle \in Bundle /\ p.pre \in Seq(Line) /\ n \in Nat /\ s \in Seq(Line)
      /\ Len(s) = n + k /\ Size[p.bundle] \in 1 .. 3
  BY PlanType, LogType, SizeType
<1>2. /\ \A i \in 1 .. n : s[i] = p.pre[i]
      /\ \A i \in n + 1 .. Len(s) : s[i] = <<p.bundle, i - n>>
  BY DEF Fits
<1>3. [f EXCEPT !.frag = @ + 1].lines = s
  BY DEF Log
<1>4. f.frag < 2 => Fits(p, [f EXCEPT !.frag = @ + 1])
  <2>1. Len(s) < n + Size[p.bundle] /\ n <= Len(s)
    BY <1>1
  <2>2. QED
    BY <1>2, <1>3, <2>1 DEF Fits
<1>5. x \in Line
  BY <1>1 DEF Line
<1> HIDE DEF s, x
<1>6. /\ t \in Seq(Line) /\ Len(t) = Len(s) + 1 /\ t[Len(s) + 1] = x
      /\ \A i \in 1 .. Len(s) : t[i] = s[i]
  BY <1>1, <1>5
<1> HIDE DEF t, n
<1>7. Cut(t).lines = t /\ Cut(t).frag = 0
  BY <1>6, CutType
<1>8. \A i \in 1 .. n : t[i] = p.pre[i]
  BY <1>1, <1>2, <1>6
<1>9. \A i \in n + 1 .. Len(t) : t[i] = <<p.bundle, i - n>>
  <2>1. ASSUME NEW i \in n + 1 .. Len(t)
        PROVE  t[i] = <<p.bundle, i - n>>
    <3>1. CASE i = Len(s) + 1
      <4>1. i - n = k + 1
        BY <1>1, <3>1
      <4>2. QED
        BY <1>6, <3>1, <4>1 DEF x
    <3>2. CASE i # Len(s) + 1
      <4>1. i \in n + 1 .. Len(s) /\ i \in 1 .. Len(s)
        BY <1>1, <1>6, <3>2
      <4>2. QED
        BY <1>2, <1>6, <4>1
    <3>3. QED
      BY <3>1, <3>2
  <2>2. QED
    BY <2>1
<1>10. Fits(p, Cut(t))
  <2>1. n <= Len(t) /\ Len(t) <= n + Size[p.bundle]
    BY <1>1, <1>6
  <2>2. QED
    BY <1>7, <1>8, <1>9, <2>1 DEF Fits, n
<1>11. QED
  BY <1>4, <1>10 DEF t, s, x

\* ... and the log cut back behind it.
LEMMA FitsCut ==
    ASSUME NEW p \in Plan, NEW f \in Log, Fits(p, f), NEW n \in Nat,
           Len(p.pre) <= n, n <= Len(f.lines)
    PROVE  Fits(p, Cut(Upto(f.lines, n)))
<1> DEFINE t == Upto(f.lines, n)
<1>1. f.lines \in Seq(Line) /\ Len(p.pre) \in Nat /\ Size[p.bundle] \in 1 .. 3
  BY PlanType, LogType, SizeType
<1>2. t \in Seq(Line) /\ Len(t) = n /\ \A k \in 1 .. n : t[k] = f.lines[k]
  BY <1>1, UptoType
<1> HIDE DEF t
<1>3. Cut(t).lines = t /\ Cut(t).frag = 0
  BY <1>2, CutType
<1>4. Fits(p, Cut(t))
  <2>1. /\ Len(f.lines) \in Nat /\ Len(f.lines) <= Len(p.pre) + Size[p.bundle]
        /\ \A k \in 1 .. Len(p.pre) : f.lines[k] = p.pre[k]
        /\ \A k \in Len(p.pre) + 1 .. Len(f.lines) :
              f.lines[k] = <<p.bundle, k - Len(p.pre)>>
    BY <1>1 DEF Fits
  <2>2. \A k \in 1 .. Len(p.pre) : t[k] = p.pre[k]
    BY <1>1, <1>2, <2>1
  <2>3. ASSUME NEW k \in Len(p.pre) + 1 .. Len(t)
        PROVE  t[k] = <<p.bundle, k - Len(p.pre)>>
    <3>1. k \in Len(p.pre) + 1 .. Len(f.lines) /\ k \in 1 .. n
      BY <1>1, <1>2, <2>1
    <3>2. QED
      BY <1>2, <2>1, <3>1
  <2>4. n <= Len(p.pre) + Size[p.bundle]
    BY <1>1, <2>1
  <2>5. QED
    BY <1>2, <1>3, <2>2, <2>3, <2>4 DEF Fits
<1>5. QED
  BY <1>4 DEF t

\* The offset of the last line of a bundle.
LEMMA LastOffset ==
    ASSUME NEW l \in Nat, NEW n \in Nat, NEW z \in Nat \ {0}, l = n + z
    PROVE  l \in n + 1 .. l /\ l - n = z
OBVIOUS

\* None or all of a bundle leaves whole bundles.
LEMMA FitsWhole ==
    ASSUME NEW p \in Plan, NEW f \in Log, Fits(p, f), Whole(p.pre),
           Len(f.lines) = Len(p.pre) \/ Len(f.lines) = Len(p.pre) + Size[p.bundle]
    PROVE  Whole(f.lines)
<1>1. f.lines \in Seq(Line) /\ p.pre \in Seq(Line) /\ Len(p.pre) \in Nat
      /\ p.bundle \in Bundle /\ Size[p.bundle] \in 1 .. 3
  BY PlanType, LogType, SizeType
<1>2. CASE Len(f.lines) = Len(p.pre)
  <2>1. f.lines = p.pre
    BY <1>1, <1>2 DEF Fits
  <2>2. QED
    BY <2>1
<1>3. CASE Len(f.lines) = Len(p.pre) + Size[p.bundle]
  <2>1. f.lines[Len(f.lines)] = <<p.bundle, Size[p.bundle]>>
    <3>1. \A k \in Len(p.pre) + 1 .. Len(f.lines) :
              f.lines[k] = <<p.bundle, k - Len(p.pre)>>
      BY DEF Fits
    <3>2. /\ Len(f.lines) \in Len(p.pre) + 1 .. Len(f.lines)
          /\ Len(f.lines) - Len(p.pre) = Size[p.bundle]
      <4>1. Len(f.lines) \in Nat /\ Size[p.bundle] \in Nat \ {0}
        BY <1>1
      <4>2. QED
        BY <1>1, <1>3, <4>1, LastOffset, Zenon
    <3>3. QED
      BY <3>1, <3>2
  <2>2. QED
    BY <2>1 DEF Whole, Final
<1>4. QED
  BY <1>2, <1>3

\* A log that a plan fits keeps the log the plan was made on.
LEMMA FitsAgree ==
    ASSUME NEW p \in Plan, NEW f \in Log, NEW g \in Log, Fits(p, f), Fits(p, g),
           Len(f.lines) <= Len(g.lines)
    PROVE  Prefix(f.lines, g.lines)
<1>1. f.lines \in Seq(Line) /\ g.lines \in Seq(Line) /\ Len(p.pre) \in Nat
  BY PlanType, LogType
<1>2. ASSUME NEW k \in 1 .. Len(f.lines)
      PROVE  f.lines[k] = g.lines[k]
  <2>1. CASE k <= Len(p.pre)
    BY <1>1, <2>1 DEF Fits
  <2>2. CASE k > Len(p.pre)
    <3>1. k \in Len(p.pre) + 1 .. Len(f.lines) /\ k \in Len(p.pre) + 1 .. Len(g.lines)
      BY <1>1, <2>2
    <3>2. QED
      BY <3>1 DEF Fits
  <2>3. QED
    BY <1>1, <2>1, <2>2
<1>3. QED
  BY <1>2 DEF Prefix

-----------------------------------------------------------------------------
(***************************************************************************)
(* What a step that leaves most of the files alone preserves               *)
(***************************************************************************)

\* The types of what the actions read.
LEMMA Facts ==
    ASSUME IInv
    PROVE  /\ log \in Log /\ log \in logDisk /\ logDisk \subseteq Log
           /\ log.lines \in Seq(Line) /\ Len(log.lines) \in Nat /\ log.frag \in 0 .. 2
           /\ plan \in planDisk /\ done \in 0 .. 3 /\ done \in Nat /\ bundle \in Bundle
           /\ intents \subseteq Intent /\ completed \subseteq intents
           /\ acked \in Seq(Line) /\ seen \in Seq(Line) /\ adopted \in BOOLEAN
           /\ plan \in Plan => plan.bundle \in Bundle /\ plan.pre \in Seq(Line)
                               /\ Len(plan.pre) \in Nat
<1>1. log \in Log /\ log \in logDisk /\ logDisk \subseteq Log
  BY DEF IInv, TypeOK
<1>2. log.lines \in Seq(Line) /\ Len(log.lines) \in Nat /\ log.frag \in 0 .. 2
  BY <1>1, LogType
<1>3. QED
  BY <1>1, <1>2, PlanType DEF IInv, TypeOK

\* Whatever somebody relies on is in a log that passed the audit.
LEMMA KeptLog ==
    ASSUME IInv, ReceiptsMatch(log)
    PROVE  Kept(log.lines) /\ KeptBelow(Len(log.lines))
<1>1. Kept(log.lines)
  BY Facts DEF IInv, ReportedStable, AcknowledgedBundles, ReplayedStable, Kept, ReceiptsMatch
<1>2. KeptBelow(Len(log.lines))
  BY <1>1 DEF Kept, KeptBelow, Prefix
<1>3. QED
  BY <1>1, <1>2

\* What lies between two offsets.
LEMMA Difference ==
    ASSUME NEW l \in Nat, NEW n \in Nat, NEW z \in Nat, n <= l, l <= n + z
    PROVE  l - n \in 0 .. z /\ l = n + (l - n)
OBVIOUS

\* The plan fits the log it is found with.
LEMMA PlanFits ==
    ASSUME IInv, ReceiptsMatch(log), plan \in Plan
    PROVE  /\ Fits(plan, log) /\ Whole(plan.pre) /\ NewTo(plan.bundle, plan.pre)
           /\ Confirmed \in 0 .. Size[plan.bundle] /\ Size[plan.bundle] \in 1 .. 3
           /\ Len(log.lines) = Len(plan.pre) + Confirmed
<1>1. Fits(plan, log) /\ Whole(plan.pre) /\ NewTo(plan.bundle, plan.pre)
  BY Facts DEF IInv, PlanInv
<1>2. Size[plan.bundle] \in 1 .. 3
  BY Facts, SizeType
<1>3. Len(plan.pre) <= Len(log.lines) /\ Len(log.lines) <= Len(plan.pre) + Size[plan.bundle]
  BY <1>1 DEF Fits
<1>4. Confirmed \in 0 .. Size[plan.bundle] /\ Len(log.lines) = Len(plan.pre) + Confirmed
  <2>1. Len(plan.pre) \in Nat /\ Len(log.lines) \in Nat
    BY Facts
  <2>2. /\ Len(log.lines) - Len(plan.pre) \in 0 .. Size[plan.bundle]
        /\ Len(log.lines) = Len(plan.pre) + (Len(log.lines) - Len(plan.pre))
    <3>1. Size[plan.bundle] \in Nat
      BY <1>2
    <3>2. QED
      BY <1>3, <2>1, <3>1, Difference, Zenon
  <2>3. QED
    BY <2>2 DEF Confirmed
<1>5. QED
  BY <1>1, <1>2, <1>4

\* Syncs and whatever does not touch the log: fewer logs may survive.
LEMMA SameLog ==
    ASSUME IInv, log' = log, logDisk' \subseteq logDisk, UNCHANGED <<intents, completed, adopted>>
    PROVE  /\ ResumedExactly' /\ ReceiptsConsistent'
           /\ Pending' = Pending
           /\ Sealed => Sealed'
           /\ \A f : ReceiptsMatch(f)' <=> ReceiptsMatch(f)
           /\ planDisk' \subseteq planDisk => PlanInv'
           /\ Pending = {} => PendingInv'
<1>1. ResumedExactly'
  BY DEF IInv, ResumedExactly
<1>2. Pending' = Pending
  BY DEF Pending
<1>3. \A f : ReceiptsMatch(f)' <=> ReceiptsMatch(f)
  BY DEF ReceiptsMatch
<1>4. ReceiptsConsistent'
  <2>1. AuditOK'
    BY <1>2 DEF IInv, ReceiptsConsistent, AuditOK
  <2>2. QED
    BY <1>3, <2>1 DEF IInv, ReceiptsConsistent
<1>5. Sealed => Sealed'
  BY <1>3 DEF Sealed
<1>6. planDisk' \subseteq planDisk => PlanInv'
  BY <1>3, <1>5 DEF IInv, PlanInv
<1>7. Pending = {} => PendingInv'
  BY <1>2, <1>3 DEF IInv, PendingInv
<1>8. QED
  BY <1>1, <1>2, <1>3, <1>4, <1>5, <1>6, <1>7

\* The same when nothing is reported.
LEMMA Frame ==
    ASSUME IInv, log' = log, logDisk' \subseteq logDisk,
           UNCHANGED <<intents, completed, acked, seen, adopted>>
    PROVE  /\ ResumedExactly' /\ ReportedStable' /\ ReceiptsConsistent'
           /\ Pending' = Pending
           /\ Sealed => Sealed'
           /\ \A f : ReceiptsMatch(f)' <=> ReceiptsMatch(f)
           /\ \A s : Kept(s) => Kept(s)'
           /\ \A n : KeptBelow(n) => KeptBelow(n)'
           /\ planDisk' \subseteq planDisk => PlanInv'
           /\ Pending = {} \/ UNCHANGED <<plan, planDisk>> => PendingInv'
<1>1. /\ ResumedExactly' /\ ReceiptsConsistent'
      /\ Pending' = Pending
      /\ Sealed => Sealed'
      /\ \A f : ReceiptsMatch(f)' <=> ReceiptsMatch(f)
      /\ planDisk' \subseteq planDisk => PlanInv'
      /\ Pending = {} => PendingInv'
  BY SameLog
<1>2. ReportedStable'
  BY DEF IInv, ReportedStable, AcknowledgedBundles, ReplayedStable
<1>3. /\ \A s : Kept(s) => Kept(s)'
      /\ \A n : KeptBelow(n) => KeptBelow(n)'
  BY DEF Kept, KeptBelow
<1>4. ASSUME UNCHANGED <<plan, planDisk>>
      PROVE  PendingInv'
  <2>1. \A i : CutInv(i) => CutInv(i)'
    BY <1>4 DEF CutInv
  <2>2. QED
    BY <1>1, <1>3, <2>1 DEF IInv, PendingInv
<1>5. QED
  BY <1>1, <1>2, <1>3, <1>4

\* Nobody holds the lock.
LEMMA AtRest ==
    ASSUME pc' = "idle", mode' = "none", done' = 0, job' = NoJob
    PROVE  /\ HolderInv' /\ PlanningInv' /\ LineInv' /\ StageInv' /\ ClearInv' /\ JobInv'
BY DEF HolderInv, PlanningInv, LineInv, StageInv, ClearInv, JobInv,
       PlanPCs, LinePCs, StagePCs, ClearPCs, JobPCs

\* A published intent is the only one pending, and the audit accepts it.
LEMMA Published ==
    ASSUME IInv, NEW i \in Intent, Proposable(i), Pending = {},
           intents' = intents \cup {i}, completed' = completed
    PROVE  /\ AuditOK' /\ Pending' \subseteq {i}
           /\ i.kind = "rollback" => i \in Pending'
           /\ intents' \subseteq Intent /\ completed' \subseteq intents'
<1>1. Pending' \subseteq {i}
  BY DEF Pending
<1>2. \A e \in intents : e # i => ~Conflicts(e, i) /\ ~Conflicts(i, e)
  <2>1. \A e \in intents : e # i => ~Conflicts(e, i)
    BY DEF Proposable
  <2>2. \A e \in intents : Conflicts(i, e) => Conflicts(e, i)
    BY Facts, IntentType DEF Conflicts, SameLineage, Overlap
  <2>3. QED
    BY <2>1, <2>2
<1>3. AuditOK
  BY DEF IInv, ReceiptsConsistent
<1>4. AuditOK'
  <2>1. \A e, j \in intents' : e # j => ~Conflicts(e, j)
    BY <1>2, <1>3 DEF AuditOK
  <2>2. QED
    BY <1>1, <2>1 DEF AuditOK
<1>5. i.kind = "rollback" => i \in Pending'
  <2>1. ASSUME i.kind = "rollback"
        PROVE  i \notin intents
    BY <2>1 DEF Proposable, Conflicts
  <2>2. QED
    BY <2>1, Facts DEF Pending
<1>6. QED
  BY <1>1, <1>4, <1>5, Facts

\* publish_bundle_recovery_receipt_locked, for recovery and for a resumption.
LEMMA PublishStep ==
    ASSUME IInv, PublishIntent, ReceiptsMatch(log), Pending = {},
           mode' \in {"resume", "recover"},
           UNCHANGED <<log, logDisk, plan, planDisk, stage, stageDisk, acked, seen,
                       adopted, stops, losses>>,
           plan \in Plan \/ plan = Absent,
           plan = Absent => log.frag = 0 /\ mode' = "recover",
           plan \in Plan /\ log.frag = 0 => Confirmed = 0 \/ Confirmed = Size[plan.bundle],
           mode' = "resume" => Confirmed \in 1 .. Size[plan.bundle] - 1 /\ log.frag > 0
    PROVE  IInv'
<1> USE DEF PublishIntent, PlanPCs, LinePCs, StagePCs, ClearPCs, JobPCs
<1>1. PICK i : i = Proposal
  OBVIOUS
<1>2. /\ i.tail = log.lines
      /\ i.kind = IF plan = Absent THEN "stage" ELSE IF log.frag > 0 THEN "torn"
                  ELSE IF Confirmed = 0 THEN "zero" ELSE "complete"
      /\ i.plan = IF plan = Absent THEN NoPlan ELSE plan
      /\ i.gone = Rest(log, Len(log.lines))
      /\ i = [kind |-> i.kind, plan |-> i.plan, tail |-> i.tail, gone |-> i.gone]
  BY <1>1 DEF Proposal
<1>3. i \in Intent
  <2>1. i.gone \in Log /\ i.tail \in Seq(Line)
    BY <1>2, Facts, RestType
  <2>2. i.kind \in Kind /\ i.plan \in Plan \cup {NoPlan}
    BY <1>2 DEF Kind
  <2>3. QED
    BY <1>2, <2>1, <2>2 DEF Intent
<1>4. /\ Proposable(i) /\ intents' = intents \cup {i} /\ job' = i
      /\ pc' = IF log.frag > 0 THEN "truncate" ELSE "complete"
      /\ UNCHANGED <<completed, bundle, done>>
  BY <1>1
<1> HIDE DEF PublishIntent
<1>5. /\ AuditOK' /\ Pending' \subseteq {i}
      /\ intents' \subseteq Intent /\ completed' \subseteq intents'
  BY <1>3, <1>4, Published
<1>6. \A f : ReceiptsMatch(f)' <=> ReceiptsMatch(f)
  BY <1>4 DEF ReceiptsMatch
<1>7. Kept(i.tail)' /\ CutInv(i)' /\ i.kind # "rollback"
  <2>1. Kept(i.tail)
    BY <1>2, KeptLog
  <2>2. Kept(i.tail)'
    BY <1>4, <2>1 DEF Kept
  <2>3. QED
    BY <1>2, <2>2 DEF CutInv
<1>8. TypeOK'
  BY <1>3, <1>4, <1>5 DEF IInv, TypeOK, PCs
<1>9. ResumedExactly' /\ ReportedStable'
  BY DEF IInv, ResumedExactly, ReportedStable, AcknowledgedBundles, ReplayedStable
<1>10. ReceiptsConsistent'
  BY <1>5, <1>6 DEF IInv, ReceiptsConsistent
<1>11. PlanInv'
  BY <1>6 DEF IInv, PlanInv, Sealed
<1>12. PendingInv'
  <2>1. \A f \in logDisk : ReceiptsMatch(f) => Len(f.lines) <= Len(log.lines)
    BY DEF IInv, PendingInv
  <2>2. QED
    BY <1>5, <1>6, <1>7, <2>1 DEF PendingInv
<1>13. HolderInv'
  BY <1>4, <1>6 DEF HolderInv
<1>14. JobInv'
  <2>1. Confirmed' = Confirmed
    BY DEF Confirmed
  <2>2. plan = Absent => i.kind = "stage"
    BY <1>2
  <2>3. plan \in Plan => i.kind \in {"torn", "zero", "complete"}
    BY <1>2, PlanType
  <2>4. log.frag = 0 => log = Cut(i.tail) /\ i.kind # "torn"
    BY <1>2, Facts, LogType
  <2>5. /\ i.kind = "zero" => Confirmed = 0
        /\ i.kind = "complete" => Confirmed = Size[plan.bundle]
    BY <1>2, Facts
  <2>6. log.frag > 0 \/ log.frag = 0
    BY Facts
  <2>7. QED
    BY <1>2, <1>4, <1>5, <1>7, <2>1, <2>2, <2>3, <2>4, <2>5, <2>6, PlanType DEF JobInv
<1>15. PlanningInv' /\ LineInv' /\ StageInv' /\ ClearInv'
  BY <1>4 DEF PlanningInv, LineInv, StageInv, ClearInv
<1>16. QED
  BY <1>8, <1>9, <1>10, <1>11, <1>12, <1>13, <1>14, <1>15 DEF IInv

-----------------------------------------------------------------------------
(***************************************************************************)
(* Every step preserves the inductive invariant.                           *)
(***************************************************************************)

\* The plan file is created, ...
LEMMA CreatePlanInv ==
    ASSUME IInv, CreatePlan
    PROVE  IInv'
<1> USE DEF CreatePlan, Goto, logVars, gateVars, receiptVars, workVars, historyVars,
        PlanPCs, LinePCs, StagePCs, ClearPCs, JobPCs
<1>1. TypeOK'
  BY DEF IInv, TypeOK, PCs, Unwritten
<1>2. /\ ResumedExactly' /\ ReportedStable' /\ ReceiptsConsistent'
      /\ Pending' = Pending
      /\ Sealed => Sealed'
      /\ \A f : ReceiptsMatch(f)' <=> ReceiptsMatch(f)
      /\ \A s : Kept(s) => Kept(s)'
      /\ \A n : KeptBelow(n) => KeptBelow(n)'
      /\ planDisk' \subseteq planDisk => PlanInv'
      /\ Pending = {} \/ UNCHANGED <<plan, planDisk>> => PendingInv'
  BY Frame, Facts
<1>3. PlanInv'
  <2>1. Sealed /\ Sealed'
    BY <1>2 DEF IInv, PlanningInv, PlanPCs
  <2>2. QED
    BY <1>2, <2>1, PlanType DEF IInv, PlanInv
<1>4. PendingInv'
  BY <1>2 DEF IInv, HolderInv
<1>5. HolderInv'
  BY <1>2 DEF IInv, HolderInv
<1>6. PlanningInv' /\ LineInv' /\ StageInv' /\ ClearInv' /\ JobInv'
  BY <1>2 DEF IInv, PlanningInv, LineInv, StageInv, ClearInv, JobInv
<1>7. QED
  BY <1>1, <1>2, <1>3, <1>4, <1>5, <1>6 DEF IInv

\* ... written and synced; ...
LEMMA WritePlanInv ==
    ASSUME IInv, WritePlan
    PROVE  IInv'
<1> USE DEF WritePlan, Goto, logVars, gateVars, receiptVars, workVars, historyVars,
        PlanPCs, LinePCs, StagePCs, ClearPCs, JobPCs
<1>1. TypeOK'
  <2>1. [bundle |-> bundle, pre |-> log.lines] \in Plan
    BY Facts, FitsFresh
  <2>2. QED
    BY <2>1 DEF IInv, TypeOK, PCs
<1>2. /\ ResumedExactly' /\ ReportedStable' /\ ReceiptsConsistent'
      /\ Pending' = Pending
      /\ Sealed => Sealed'
      /\ \A f : ReceiptsMatch(f)' <=> ReceiptsMatch(f)
      /\ \A s : Kept(s) => Kept(s)'
      /\ \A n : KeptBelow(n) => KeptBelow(n)'
      /\ planDisk' \subseteq planDisk => PlanInv'
      /\ Pending = {} \/ UNCHANGED <<plan, planDisk>> => PendingInv'
  BY Frame, Facts
<1>3. PlanInv'
  <2> DEFINE p == [bundle |-> bundle, pre |-> log.lines]
  <2>1. Sealed /\ Sealed' /\ NewTo(bundle, log.lines) /\ Whole(log.lines)
    BY <1>2 DEF IInv, PlanningInv, PlanPCs
  <2>2. p \in Plan /\ p.bundle = bundle /\ p.pre = log.lines
    BY Facts, FitsFresh
  <2>3. ASSUME NEW f \in logDisk, ReceiptsMatch(f)
        PROVE  Fits(p, f)
    BY <2>1, <2>3, Facts, FitsFresh DEF Sealed
  <2>4. planDisk' \subseteq planDisk \cup {p} /\ logDisk' = logDisk
    OBVIOUS
  <2> HIDE DEF p
  <2>5. QED
    BY <1>2, <2>1, <2>2, <2>3, <2>4 DEF IInv, PlanInv
<1>4. PendingInv'
  BY <1>2 DEF IInv, HolderInv
<1>5. HolderInv'
  BY <1>2 DEF IInv, HolderInv
<1>6. PlanningInv' /\ LineInv' /\ StageInv' /\ ClearInv' /\ JobInv'
  BY <1>2 DEF IInv, PlanningInv, LineInv, StageInv, ClearInv, JobInv
<1>7. QED
  BY <1>1, <1>2, <1>3, <1>4, <1>5, <1>6 DEF IInv

\* ... the same for the stage: it is created, ...
LEMMA CreateStageInv ==
    ASSUME IInv, CreateStage
    PROVE  IInv'
<1> USE DEF CreateStage, Goto, logVars, gateVars, receiptVars, workVars, historyVars,
        PlanPCs, LinePCs, StagePCs, ClearPCs, JobPCs
<1>1. TypeOK'
  BY DEF IInv, TypeOK, PCs, Unwritten
<1>2. /\ ResumedExactly' /\ ReportedStable' /\ ReceiptsConsistent'
      /\ Pending' = Pending
      /\ Sealed => Sealed'
      /\ \A f : ReceiptsMatch(f)' <=> ReceiptsMatch(f)
      /\ \A s : Kept(s) => Kept(s)'
      /\ \A n : KeptBelow(n) => KeptBelow(n)'
      /\ planDisk' \subseteq planDisk => PlanInv'
      /\ Pending = {} \/ UNCHANGED <<plan, planDisk>> => PendingInv'
  BY Frame, Facts
<1>3. PlanInv'
  BY <1>2
<1>4. PendingInv'
  BY <1>2 DEF IInv, HolderInv
<1>5. HolderInv'
  BY <1>2 DEF IInv, HolderInv
<1>6. PlanningInv' /\ LineInv' /\ StageInv' /\ ClearInv' /\ JobInv'
  BY <1>2 DEF IInv, PlanningInv, LineInv, StageInv, ClearInv, JobInv
<1>7. QED
  BY <1>1, <1>2, <1>3, <1>4, <1>5, <1>6 DEF IInv

\* ... and written.
LEMMA WriteStageZeroInv ==
    ASSUME IInv, WriteStageZero
    PROVE  IInv'
<1> USE DEF WriteStageZero, Goto, logVars, gateVars, receiptVars, workVars, historyVars,
        PlanPCs, LinePCs, StagePCs, ClearPCs, JobPCs
<1>1. TypeOK'
  BY DEF IInv, TypeOK, PCs, Unwritten
<1>2. /\ ResumedExactly' /\ ReportedStable' /\ ReceiptsConsistent'
      /\ Pending' = Pending
      /\ Sealed => Sealed'
      /\ \A f : ReceiptsMatch(f)' <=> ReceiptsMatch(f)
      /\ \A s : Kept(s) => Kept(s)'
      /\ \A n : KeptBelow(n) => KeptBelow(n)'
      /\ planDisk' \subseteq planDisk => PlanInv'
      /\ Pending = {} \/ UNCHANGED <<plan, planDisk>> => PendingInv'
  BY Frame, Facts
<1>3. PlanInv'
  BY <1>2
<1>4. PendingInv'
  BY <1>2 DEF IInv, HolderInv
<1>5. HolderInv'
  BY <1>2 DEF IInv, HolderInv
<1>6. PlanningInv' /\ LineInv' /\ StageInv' /\ ClearInv' /\ JobInv'
  BY <1>2 DEF IInv, PlanningInv, LineInv, StageInv, ClearInv, JobInv
<1>7. QED
  BY <1>1, <1>2, <1>3, <1>4, <1>5, <1>6 DEF IInv

\* Both names become durable.
LEMMA SyncGateInv ==
    ASSUME IInv, SyncGate
    PROVE  IInv'
<1> USE DEF SyncGate, Goto, logVars, gateVars, receiptVars, workVars, historyVars,
        PlanPCs, LinePCs, StagePCs, ClearPCs, JobPCs
<1>1. TypeOK'
  BY DEF IInv, TypeOK, PCs, Unwritten
<1>2. /\ ResumedExactly' /\ ReportedStable' /\ ReceiptsConsistent'
      /\ Pending' = Pending
      /\ Sealed => Sealed'
      /\ \A f : ReceiptsMatch(f)' <=> ReceiptsMatch(f)
      /\ \A s : Kept(s) => Kept(s)'
      /\ \A n : KeptBelow(n) => KeptBelow(n)'
      /\ planDisk' \subseteq planDisk => PlanInv'
      /\ Pending = {} \/ UNCHANGED <<plan, planDisk>> => PendingInv'
  BY Frame, Facts
<1>3. PlanInv'
  BY <1>2, Facts
<1>4. PendingInv'
  BY <1>2 DEF IInv, HolderInv
<1>5. HolderInv'
  BY <1>2 DEF IInv, HolderInv
<1>6. PlanningInv' /\ LineInv' /\ StageInv' /\ ClearInv' /\ JobInv'
  <2>1. /\ mode = "append" /\ done = 0 /\ log.frag = 0 /\ ReceiptsMatch(log)
        /\ plan = [bundle |-> bundle, pre |-> log.lines]
    BY DEF IInv, PlanningInv, HolderInv
  <2>2. plan \in Plan /\ plan.bundle = bundle /\ plan.pre = log.lines
    BY <2>1, Facts, FitsFresh
  <2>3. done < Size[bundle]
    BY <2>1, Facts, SizeType
  <2>4. KeptBelow(Len(plan.pre) + done)'
    <3>1. Len(plan.pre) + done = Len(log.lines)
      BY <2>1, <2>2, Facts
    <3>2. KeptBelow(Len(plan.pre) + done)
      BY <2>1, <3>1, KeptLog
    <3>3. QED
      BY <1>2, <3>2
  <2>5. LineInv'
    BY <2>1, <2>2, <2>3, <2>4, Facts DEF LineInv
  <2>6. QED
    BY <2>5 DEF PlanningInv, StageInv, ClearInv, JobInv
<1>7. QED
  BY <1>1, <1>2, <1>3, <1>4, <1>5, <1>6 DEF IInv

\* A unit of the next line is written.
LEMMA WriteUnitInv ==
    ASSUME IInv, WriteUnit
    PROVE  IInv'
<1> USE DEF WriteUnit, logVars, gateVars, receiptVars, workVars, historyVars, PlanPCs,
        LinePCs, StagePCs, ClearPCs, JobPCs
<1> DEFINE n == Len(plan.pre) + done
<1>1. /\ mode \in {"append", "resume"} /\ planDisk = {plan} /\ plan \in Plan
      /\ plan.bundle = bundle /\ done < Size[bundle] /\ KeptBelow(n)
      /\ Len(log.lines) = n /\ ReceiptsMatch(log) /\ Pending = {}
  BY DEF IInv, LineInv, HolderInv
<1>2. Fits(plan, log) /\ Whole(plan.pre) /\ NewTo(plan.bundle, plan.pre)
  BY <1>1, PlanFits
<1>3. Exact(log.lines)
  BY Facts DEF IInv, ResumedExactly
<1>4. /\ log' \in Log /\ Exact(log'.lines) /\ Fits(plan, log')
      /\ Prefix(log.lines, log'.lines)
      /\ Len(log'.lines) = n \/ (Len(log'.lines) = n + 1 /\ log'.frag = 0)
  <2>1. CASE log.frag < 2
    <3>1. log' = [log EXCEPT !.frag = @ + 1]
      BY <2>1
    <3>2. log' \in Log /\ log'.lines = log.lines
      <4>1. log.lines \in Seq(Line) /\ log.frag + 1 \in 0 .. 2
        BY <2>1, Facts
      <4>2. log' = [lines |-> log.lines, frag |-> log.frag + 1]
        BY <3>1, Facts DEF Log
      <4>3. QED
        BY <4>1, <4>2 DEF Log
    <3>3. Fits(plan, log')
      BY <1>1, <1>2, <2>1, <3>1, Facts, FitsMore
    <3>4. QED
      BY <1>1, <1>3, <3>2, <3>3, Facts, PrefixRefl
  <2>2. CASE ~(log.frag < 2)
    <3> DEFINE x == <<bundle, done + 1>>
    <3>1. log' = Cut(Append(log.lines, x))
      BY <2>2
    <3>2. x \in Line /\ Append(log.lines, x) \in Seq(Line) /\ Exact(Append(log.lines, x))
      BY <1>1, <1>2, <1>3, Facts, ExactAppend
    <3>3. Fits(plan, Cut(Append(log.lines, x)))
      BY <1>1, <1>2, Facts, FitsMore
    <3> HIDE DEF x
    <3>4. Prefix(log.lines, Append(log.lines, x)) /\ Len(Append(log.lines, x)) = n + 1
      BY <1>1, <3>2, Facts, PrefixRefl, PrefixAppend
    <3>5. log' \in Log /\ log'.lines = Append(log.lines, x) /\ log'.frag = 0
      BY <3>1, <3>2, CutType
    <3>6. QED
      BY <3>1, <3>2, <3>3, <3>4, <3>5
  <2>3. QED
    BY <2>1, <2>2
<1>5. /\ logDisk' = logDisk \cup {log'}
      /\ UNCHANGED <<plan, planDisk, stage, stageDisk, intents, completed, pc, mode,
                     bundle, done, job, acked, seen, adopted, stops, losses>>
  OBVIOUS
<1>6. pc = "line"
  OBVIOUS
<1> HIDE DEF WriteUnit, n
<1>7. log'.lines \in Seq(Line) /\ Len(log.lines) <= Len(log'.lines)
  BY <1>4, LogType DEF Prefix
<1>8. \A s \in Seq(Line) : Prefix(s, log.lines) => Prefix(s, log'.lines)
  BY <1>4, <1>7, Facts, PrefixTrans
<1>9. Kept(log.lines)
  BY <1>1, KeptLog
<1>10. Pending' = Pending /\ \A f : ReceiptsMatch(f)' <=> ReceiptsMatch(f)
  BY <1>5 DEF Pending, ReceiptsMatch
<1>11. ReceiptsMatch(log')
  BY <1>1, <1>8, Facts, IntentType DEF ReceiptsMatch
<1>12. TypeOK'
  BY <1>4, <1>5 DEF IInv, TypeOK
<1>13. ResumedExactly'
  BY <1>4, <1>5 DEF IInv, ResumedExactly
<1>14. ReportedStable'
  BY <1>5, <1>8, <1>9, Facts DEF Kept, IInv, ReportedStable, AcknowledgedBundles, ReplayedStable
<1>15. ReceiptsConsistent'
  <2>1. AuditOK'
    BY <1>5, <1>10 DEF IInv, ReceiptsConsistent, AuditOK
  <2>2. QED
    BY <1>5, <1>10, <1>11, <2>1 DEF IInv, ReceiptsConsistent
<1>16. PlanInv'
  <2>1. planDisk' \cap Unwritten = {}
    BY <1>1, <1>5, PlanType DEF Unwritten
  <2>2. QED
    BY <1>1, <1>2, <1>4, <1>5, <1>10, <2>1 DEF IInv, PlanInv
<1>17. PendingInv'
  <2>1. \A f \in logDisk : ReceiptsMatch(f) => Len(f.lines) <= Len(log.lines)
    BY <1>1 DEF IInv, PendingInv
  <2>2. \A f \in logDisk : Len(f.lines) \in Nat
    BY Facts, LogType
  <2>3. \A f \in logDisk' : ReceiptsMatch(f)' => Len(f.lines) <= Len(log'.lines)
    BY <1>4, <1>5, <1>7, <1>10, <2>1, <2>2, LogType, Facts
  <2>4. QED
    BY <1>1, <1>10, <2>3 DEF PendingInv
<1>18. HolderInv'
  BY <1>1, <1>5, <1>6, <1>10, <1>11 DEF HolderInv
<1>19. LineInv'
  <2>1. KeptBelow(n)'
    BY <1>1, <1>5 DEF KeptBelow, n
  <2>2. QED
    BY <1>1, <1>4, <1>5, <1>6, <2>1 DEF LineInv, n
<1>20. PlanningInv' /\ StageInv' /\ ClearInv' /\ JobInv'
  BY <1>5, <1>6 DEF PlanningInv, StageInv, ClearInv, JobInv
<1>21. QED
  BY <1>12, <1>13, <1>14, <1>15, <1>16, <1>17, <1>18, <1>19, <1>20 DEF IInv

\* The line is synced.
LEMMA SyncLineInv ==
    ASSUME IInv, SyncLine
    PROVE  IInv'
<1> USE DEF SyncLine, logVars, gateVars, receiptVars, workVars, historyVars, PlanPCs,
        LinePCs, StagePCs, ClearPCs, JobPCs
<1>1. TypeOK'
  <2>1. done < Size[bundle] /\ Size[bundle] \in 1 .. 3
    BY Facts, SizeType DEF IInv, LineInv, LinePCs
  <2>2. QED
    BY <2>1 DEF IInv, TypeOK, PCs
<1>2. /\ ResumedExactly' /\ ReportedStable' /\ ReceiptsConsistent'
      /\ Pending' = Pending
      /\ Sealed => Sealed'
      /\ \A f : ReceiptsMatch(f)' <=> ReceiptsMatch(f)
      /\ \A s : Kept(s) => Kept(s)'
      /\ \A n : KeptBelow(n) => KeptBelow(n)'
      /\ planDisk' \subseteq planDisk => PlanInv'
      /\ Pending = {} \/ UNCHANGED <<plan, planDisk>> => PendingInv'
  BY Frame, Facts
<1>3. PlanInv'
  BY <1>2
<1>4. PendingInv'
  BY <1>2 DEF IInv, HolderInv
<1>5. HolderInv'
  BY <1>2 DEF IInv, HolderInv
<1>6. PlanningInv' /\ LineInv' /\ StageInv' /\ ClearInv' /\ JobInv'
  <2>1. /\ mode \in {"append", "resume"} /\ plan \in Plan /\ plan.bundle = bundle
        /\ Len(log.lines) = Len(plan.pre) + done + 1 /\ log.frag = 0
    BY Facts DEF IInv, LineInv
  <2>2. ReceiptsMatch(log)
    BY DEF IInv, HolderInv
  <2>3. done' = Size[bundle] => Whole(log.lines)
    BY <2>1, <2>2, PlanFits, Facts, FitsWhole
  <2>4. done' = Size[bundle] => Sealed'
    BY <2>1, <2>3 DEF Sealed
  <2>5. StageInv'
    BY <2>1, <2>4, Facts DEF StageInv
  <2>6. QED
    BY <2>5 DEF PlanningInv, LineInv, ClearInv, JobInv
<1>7. QED
  BY <1>1, <1>2, <1>3, <1>4, <1>5, <1>6 DEF IInv

\* The stage is written, ...
LEMMA WriteStageInv ==
    ASSUME IInv, WriteStage
    PROVE  IInv'
<1> USE DEF WriteStage, Goto, logVars, gateVars, receiptVars, workVars, historyVars,
        PlanPCs, LinePCs, StagePCs, ClearPCs, JobPCs
<1>1. TypeOK'
  BY DEF IInv, TypeOK, PCs, Unwritten
<1>2. /\ ResumedExactly' /\ ReportedStable' /\ ReceiptsConsistent'
      /\ Pending' = Pending
      /\ Sealed => Sealed'
      /\ \A f : ReceiptsMatch(f)' <=> ReceiptsMatch(f)
      /\ \A s : Kept(s) => Kept(s)'
      /\ \A n : KeptBelow(n) => KeptBelow(n)'
      /\ planDisk' \subseteq planDisk => PlanInv'
      /\ Pending = {} \/ UNCHANGED <<plan, planDisk>> => PendingInv'
  BY Frame, Facts
<1>3. PlanInv'
  BY <1>2
<1>4. PendingInv'
  BY <1>2 DEF IInv, HolderInv
<1>5. HolderInv'
  BY <1>2 DEF IInv, HolderInv
<1>6. PlanningInv' /\ LineInv' /\ StageInv' /\ ClearInv' /\ JobInv'
  <2>1. StageInv'
    BY <1>2 DEF IInv, StageInv
  <2>2. pc' \in StagePCs
    OBVIOUS
  <2>3. QED
    BY <2>1, <2>2 DEF PlanningInv, LineInv, ClearInv, JobInv
<1>7. QED
  BY <1>1, <1>2, <1>3, <1>4, <1>5, <1>6 DEF IInv

\* ... synced, and the holder goes on.
LEMMA SyncStageInv ==
    ASSUME IInv, SyncStage
    PROVE  IInv'
<1> USE DEF SyncStage, AfterStage, Goto, Return, logVars, gateVars, receiptVars, workVars,
        historyVars, PlanPCs, LinePCs, StagePCs, ClearPCs, JobPCs
<1>1. TypeOK'
  BY DEF IInv, TypeOK, PCs, Unwritten
<1>2. /\ ResumedExactly' /\ ReportedStable' /\ ReceiptsConsistent'
      /\ Pending' = Pending
      /\ Sealed => Sealed'
      /\ \A f : ReceiptsMatch(f)' <=> ReceiptsMatch(f)
      /\ \A s : Kept(s) => Kept(s)'
      /\ \A n : KeptBelow(n) => KeptBelow(n)'
      /\ planDisk' \subseteq planDisk => PlanInv'
      /\ Pending = {} \/ UNCHANGED <<plan, planDisk>> => PendingInv'
  BY Frame, Facts
<1>3. PlanInv'
  BY <1>2, Facts
<1>4. PendingInv'
  BY <1>2 DEF IInv, HolderInv
<1>5. HolderInv'
  BY <1>2 DEF IInv, HolderInv, TypeOK
<1>6. PlanningInv' /\ LineInv' /\ StageInv' /\ ClearInv' /\ JobInv'
  <2>1. CASE pc' = "clear" /\ UNCHANGED workVars
    <3>1. Sealed' /\ (mode # "recover" => logDisk = {log})
      BY <1>2, <2>1 DEF IInv, StageInv
    <3>2. ClearInv'
      BY <2>1, <3>1 DEF ClearInv
    <3>3. QED
      BY <2>1, <3>2 DEF PlanningInv, LineInv, StageInv, JobInv
  <2>2. CASE Return
    BY <2>2, AtRest
  <2>3. CASE pc' = "line" /\ UNCHANGED workVars
    <3>1. /\ plan \in Plan /\ plan.bundle = bundle /\ mode # "none"
          /\ Len(log.lines) = Len(plan.pre) + done /\ ReceiptsMatch(log)
      BY DEF IInv, StageInv, HolderInv
    <3>2. done # Size[bundle] /\ mode # "recover"
      BY <2>3
    <3>3. done < Size[bundle]
      BY <3>1, <3>2, PlanFits, Facts
    <3>4. KeptBelow(Len(plan.pre) + done)'
      <4>1. KeptBelow(Len(plan.pre) + done)
        BY <3>1, KeptLog
      <4>2. Len(plan.pre)' + done' = Len(plan.pre) + done
        BY <2>3
      <4>3. QED
        BY <1>2, <4>1, <4>2
    <3>5. mode \in {"append", "resume"}
      BY <3>1, <3>2 DEF IInv, TypeOK
    <3>6. LineInv'
      BY <2>3, <3>1, <3>3, <3>4, <3>5 DEF LineInv
    <3>7. QED
      BY <2>3, <3>6 DEF PlanningInv, StageInv, ClearInv, JobInv
  <2>4. QED
    BY <2>1, <2>2, <2>3
<1>7. QED
  BY <1>1, <1>2, <1>3, <1>4, <1>5, <1>6 DEF IInv

\* The stage is removed, ...
LEMMA UnlinkStageInv ==
    ASSUME IInv, UnlinkStage
    PROVE  IInv'
<1> USE DEF UnlinkStage, Goto, logVars, gateVars, receiptVars, workVars, historyVars,
        PlanPCs, LinePCs, StagePCs, ClearPCs, JobPCs
<1>1. TypeOK'
  BY DEF IInv, TypeOK, PCs, Unwritten
<1>2. /\ ResumedExactly' /\ ReportedStable' /\ ReceiptsConsistent'
      /\ Pending' = Pending
      /\ Sealed => Sealed'
      /\ \A f : ReceiptsMatch(f)' <=> ReceiptsMatch(f)
      /\ \A s : Kept(s) => Kept(s)'
      /\ \A n : KeptBelow(n) => KeptBelow(n)'
      /\ planDisk' \subseteq planDisk => PlanInv'
      /\ Pending = {} \/ UNCHANGED <<plan, planDisk>> => PendingInv'
  BY Frame, Facts
<1>3. PlanInv'
  BY <1>2
<1>4. PendingInv'
  BY <1>2 DEF IInv, HolderInv
<1>5. HolderInv'
  BY <1>2 DEF IInv, HolderInv
<1>6. PlanningInv' /\ LineInv' /\ StageInv' /\ ClearInv' /\ JobInv'
  BY <1>2 DEF IInv, PlanningInv, LineInv, StageInv, ClearInv, JobInv
<1>7. QED
  BY <1>1, <1>2, <1>3, <1>4, <1>5, <1>6 DEF IInv

\* ... then the plan, ...
LEMMA UnlinkPlanInv ==
    ASSUME IInv, UnlinkPlan
    PROVE  IInv'
<1> USE DEF UnlinkPlan, Goto, logVars, gateVars, receiptVars, workVars, historyVars,
        PlanPCs, LinePCs, StagePCs, ClearPCs, JobPCs
<1>1. TypeOK'
  BY DEF IInv, TypeOK, PCs, Unwritten
<1>2. /\ ResumedExactly' /\ ReportedStable' /\ ReceiptsConsistent'
      /\ Pending' = Pending
      /\ Sealed => Sealed'
      /\ \A f : ReceiptsMatch(f)' <=> ReceiptsMatch(f)
      /\ \A s : Kept(s) => Kept(s)'
      /\ \A n : KeptBelow(n) => KeptBelow(n)'
      /\ planDisk' \subseteq planDisk => PlanInv'
      /\ Pending = {} \/ UNCHANGED <<plan, planDisk>> => PendingInv'
  BY Frame, Facts
<1>3. PlanInv'
  <2>1. Sealed'
    BY <1>2 DEF IInv, ClearInv
  <2>2. QED
    BY <1>2, <2>1, PlanType DEF IInv, PlanInv
<1>4. PendingInv'
  BY <1>2 DEF IInv, HolderInv
<1>5. HolderInv'
  BY <1>2 DEF IInv, HolderInv
<1>6. PlanningInv' /\ LineInv' /\ StageInv' /\ ClearInv' /\ JobInv'
  BY <1>2 DEF IInv, PlanningInv, LineInv, StageInv, ClearInv, JobInv
<1>7. QED
  BY <1>1, <1>2, <1>3, <1>4, <1>5, <1>6 DEF IInv

\* ... and both removals become durable.
LEMMA SyncClearInv ==
    ASSUME IInv, SyncClear
    PROVE  IInv'
<1> USE DEF SyncClear, Return, logVars, gateVars, receiptVars, workVars, historyVars,
        PlanPCs, LinePCs, StagePCs, ClearPCs, JobPCs
<1>1. plan = Absent /\ Pending = {} /\ (mode \in {"append", "resume"} => logDisk = {log})
  BY DEF IInv, ClearInv, HolderInv
<1>2. TypeOK'
  BY Facts DEF IInv, TypeOK, PCs
<1>3. ResumedExactly' /\ ReceiptsConsistent' /\ PlanInv' /\ PendingInv'
  BY <1>1, SameLog, Facts
<1>4. ReportedStable'
  <2>1. CASE acked' = acked
    BY <2>1 DEF IInv, ReportedStable, AcknowledgedBundles, ReplayedStable
  <2>2. CASE acked' = log.lines /\ logDisk = {log}
    BY <2>2, Facts, PrefixRefl DEF IInv, ReportedStable, AcknowledgedBundles, ReplayedStable
  <2>3. QED
    BY <1>1, <2>1, <2>2
<1>5. QED
  BY <1>2, <1>3, <1>4, AtRest DEF IInv

\* A rollback is refused.
LEMMA RollbackRefusedInv ==
    ASSUME IInv, RollbackRefused
    PROVE  IInv'
<1> USE DEF RollbackRefused, Return, logVars, gateVars, receiptVars, workVars,
        historyVars, PlanPCs, LinePCs, StagePCs, ClearPCs, JobPCs
<1>1. TypeOK'
  BY DEF IInv, TypeOK, PCs
<1>2. ResumedExactly' /\ ReportedStable' /\ ReceiptsConsistent' /\ PlanInv' /\ PendingInv'
  BY Frame
<1>3. QED
  BY <1>1, <1>2, AtRest DEF IInv

\* A rollback publishes its intent, ...
LEMMA RecordRollbackInv ==
    ASSUME IInv, RecordRollback
    PROVE  IInv'
<1> USE DEF RecordRollback, logVars, gateVars, receiptVars, workVars, historyVars,
        PlanPCs, LinePCs, StagePCs, ClearPCs, JobPCs
<1> DEFINE n == Len(plan.pre) + done
<1>0. PICK i : i = RollbackIntent
  OBVIOUS
<1>1. /\ mode \in {"append", "resume"} /\ planDisk = {plan} /\ plan \in Plan
      /\ plan.bundle = bundle /\ done < Size[bundle] /\ KeptBelow(n)
      /\ n <= Len(log.lines) /\ ReceiptsMatch(log) /\ Pending = {}
      /\ n \in Nat /\ Len(plan.pre) <= n /\ (done = 0 => n = Len(plan.pre))
  BY Facts DEF IInv, LineInv, HolderInv
<1>2. /\ i.kind = "rollback" /\ i.tail = Upto(log.lines, n)
      /\ i = [kind |-> "rollback", plan |-> NoPlan, tail |-> i.tail, gone |-> Rest(log, n)]
  BY <1>0 DEF RollbackIntent
<1>3. /\ i.tail \in Seq(Line) /\ Len(i.tail) = n /\ Prefix(i.tail, log.lines)
  BY <1>1, <1>2, Facts, UptoType
<1>4. i \in Intent
  <2>1. Rest(log, n) \in Log
    BY <1>1, Facts, RestType
  <2>2. QED
    BY <1>2, <1>3, <2>1 DEF Intent, Kind
<1>5. Fits(plan, Cut(i.tail))
  BY <1>1, <1>2, PlanFits, Facts, FitsCut
<1>6. Kept(i.tail)
  <2>1. Kept(log.lines)
    BY <1>1, KeptLog
  <2>2. \A s \in Seq(Line) : Prefix(s, log.lines) /\ Len(s) <= n => Prefix(s, i.tail)
    BY <1>1, <1>2, Facts, PrefixUpto
  <2>3. QED
    BY <1>1, <2>1, <2>2, Facts, IntentType DEF Kept, KeptBelow
<1>7. /\ Proposable(i) /\ intents' = intents \cup {i} /\ job' = i /\ pc' = "truncate"
      /\ UNCHANGED <<log, logDisk, plan, planDisk, stage, stageDisk, completed, mode,
                     bundle, done, acked, seen, adopted, stops, losses>>
  BY <1>0
<1> HIDE DEF n, RecordRollback
<1>8. /\ AuditOK' /\ Pending' \subseteq {i} /\ i \in Pending'
      /\ intents' \subseteq Intent /\ completed' \subseteq intents'
  BY <1>1, <1>2, <1>4, <1>7, Published
<1>9. Kept(i.tail)' /\ CutInv(i)' /\ \A f : ReceiptsMatch(f)' <=> ReceiptsMatch(f)
  BY <1>1, <1>5, <1>6, <1>7 DEF Kept, CutInv, ReceiptsMatch
<1>10. TypeOK'
  BY <1>4, <1>7, <1>8 DEF IInv, TypeOK, PCs
<1>11. ResumedExactly' /\ ReportedStable'
  BY <1>7 DEF IInv, ResumedExactly, ReportedStable, AcknowledgedBundles, ReplayedStable
<1>12. ReceiptsConsistent'
  BY <1>7, <1>8, <1>9 DEF IInv, ReceiptsConsistent
<1>13. PlanInv'
  BY <1>7, <1>9 DEF IInv, PlanInv, Sealed
<1>14. PendingInv'
  BY <1>2, <1>8, <1>9 DEF PendingInv
<1>15. HolderInv'
  BY <1>1, <1>7, <1>9 DEF HolderInv
<1>16. JobInv'
  BY <1>1, <1>2, <1>3, <1>7, <1>8, <1>9 DEF JobInv
<1>17. PlanningInv' /\ LineInv' /\ StageInv' /\ ClearInv'
  BY <1>7 DEF PlanningInv, LineInv, StageInv, ClearInv
<1>18. QED
  BY <1>10, <1>11, <1>12, <1>13, <1>14, <1>15, <1>16, <1>17 DEF IInv

\* ... the log is cut, ...
LEMMA TruncateInv ==
    ASSUME IInv, Truncate
    PROVE  IInv'
<1> USE DEF Truncate, Goto, logVars, gateVars, receiptVars, workVars, historyVars,
        PlanPCs, LinePCs, StagePCs, ClearPCs, JobPCs
<1>1. /\ job \in Intent /\ job \in intents /\ Pending \subseteq {job} /\ Kept(job.tail)
      /\ CutInv(job) /\ ReceiptsMatch(log)
      /\ job.kind = "rollback" => job \in Pending /\ Prefix(job.tail, log.lines)
      /\ job.kind # "rollback" => log.lines = job.tail
  BY Facts DEF IInv, JobInv, HolderInv
<1>2. job.tail \in Seq(Line)
  BY <1>1, IntentType
<1>3. log' \in Log /\ log'.lines = job.tail /\ log'.frag = 0 /\ log' = Cut(job.tail)
  BY <1>2, CutType
<1>4. Prefix(job.tail, log.lines)
  BY <1>1, <1>2, PrefixRefl
<1>5. /\ logDisk' = logDisk \cup {log'} /\ pc = "truncate" /\ pc' = "trunc_sync"
      /\ UNCHANGED <<plan, planDisk, stage, stageDisk, intents, completed, mode,
                     bundle, done, job, acked, seen, adopted, stops, losses>>
  OBVIOUS
<1> HIDE DEF Truncate
<1>6. Pending' = Pending /\ \A f : ReceiptsMatch(f)' <=> ReceiptsMatch(f)
  BY <1>5 DEF Pending, ReceiptsMatch
<1>7. ReceiptsMatch(log')
  BY <1>1, <1>3 DEF Kept, ReceiptsMatch
<1>8. (\A s : Kept(s) => Kept(s)') /\ (\A j : CutInv(j) => CutInv(j)')
  BY <1>5 DEF Kept, CutInv
<1>9. TypeOK'
  BY <1>3, <1>5 DEF IInv, TypeOK, PCs
<1>10. ResumedExactly'
  <2>1. Exact(log.lines)
    BY Facts DEF IInv, ResumedExactly
  <2>2. Exact(log'.lines)
    BY <1>2, <1>3, <1>4, <2>1, Facts, ExactPrefix
  <2>3. QED
    BY <1>5, <2>2 DEF IInv, ResumedExactly
<1>11. ReportedStable'
  BY <1>1, <1>3, <1>5 DEF Kept, IInv, ReportedStable, AcknowledgedBundles, ReplayedStable
<1>12. ReceiptsConsistent'
  <2>1. AuditOK'
    BY <1>5, <1>6 DEF IInv, ReceiptsConsistent, AuditOK
  <2>2. QED
    BY <1>5, <1>6, <1>7, <2>1 DEF IInv, ReceiptsConsistent
<1>13. PlanInv'
  <2>1. ASSUME NEW p \in planDisk \cap Plan
        PROVE  Fits(p, log')
    <3>1. CASE job.kind = "rollback"
      BY <1>1, <1>3, <2>1, <3>1 DEF CutInv
    <3>2. CASE job.kind # "rollback"
      <4>1. Fits(p, log)
        BY <1>1, Facts DEF IInv, PlanInv
      <4>2. QED
        BY <1>1, <1>3, <3>2, <4>1 DEF Fits
    <3>3. QED
      BY <3>1, <3>2
  <2>2. ASSUME planDisk \cap Unwritten # {}
        PROVE  Sealed'
    <3>1. Sealed
      BY <2>2 DEF IInv, PlanInv
    <3>2. job.kind # "rollback"
      BY <1>1, <2>2, PlanType DEF CutInv, Unwritten
    <3>3. log'.lines = log.lines /\ Whole(log.lines)
      BY <1>1, <1>3, <3>1, <3>2, Facts DEF Sealed
    <3>4. QED
      BY <1>3, <1>5, <1>6, <3>1, <3>3 DEF Sealed
  <2>3. QED
    BY <1>5, <1>6, <2>1, <2>2 DEF IInv, PlanInv
<1>14. PendingInv'
  <2>1. ASSUME \A i \in Pending : i.kind # "rollback"
        PROVE  \A f \in logDisk' : ReceiptsMatch(f)' => Len(f.lines) <= Len(log'.lines)
    <3>1. log'.lines = log.lines
      BY <1>1, <1>3, <2>1
    <3>2. \A f \in logDisk : ReceiptsMatch(f) => Len(f.lines) <= Len(log.lines)
      BY <2>1 DEF IInv, PendingInv
    <3>3. QED
      BY <1>5, <1>6, <3>1, <3>2, Facts
  <2>2. QED
    BY <1>6, <1>8, <2>1 DEF IInv, PendingInv
<1>15. HolderInv'
  BY <1>5, <1>6, <1>7 DEF HolderInv, IInv
<1>16. JobInv'
  <2>1. Kept(job.tail)' /\ CutInv(job)'
    BY <1>1, <1>5, <1>8 DEF Kept, CutInv
  <2>2. Confirmed' = Confirmed \/ job.kind = "rollback"
    BY <1>1, <1>3, <1>5 DEF Confirmed
  <2>3. QED
    BY <1>2, <1>3, <1>5, <1>6, <2>1, <2>2, PrefixRefl DEF IInv, JobInv
<1>17. PlanningInv' /\ LineInv' /\ StageInv' /\ ClearInv'
  BY <1>5 DEF PlanningInv, LineInv, StageInv, ClearInv
<1>18. QED
  BY <1>9, <1>10, <1>11, <1>12, <1>13, <1>14, <1>15, <1>16, <1>17 DEF IInv

\* ... and synced.
LEMMA SyncTruncationInv ==
    ASSUME IInv, SyncTruncation
    PROVE  IInv'
<1> USE DEF SyncTruncation, Goto, logVars, gateVars, receiptVars, workVars, historyVars,
        PlanPCs, LinePCs, StagePCs, ClearPCs, JobPCs
<1>1. TypeOK'
  BY DEF IInv, TypeOK, PCs, Unwritten
<1>2. /\ ResumedExactly' /\ ReportedStable' /\ ReceiptsConsistent'
      /\ Pending' = Pending
      /\ Sealed => Sealed'
      /\ \A f : ReceiptsMatch(f)' <=> ReceiptsMatch(f)
      /\ \A s : Kept(s) => Kept(s)'
      /\ \A n : KeptBelow(n) => KeptBelow(n)'
      /\ planDisk' \subseteq planDisk => PlanInv'
      /\ Pending = {} \/ UNCHANGED <<plan, planDisk>> => PendingInv'
  BY Frame, Facts
<1>3. PlanInv'
  BY <1>2
<1>4. PendingInv'
  BY <1>2 DEF IInv, HolderInv
<1>5. HolderInv'
  BY <1>2 DEF IInv, HolderInv
<1>6. PlanningInv' /\ LineInv' /\ StageInv' /\ ClearInv' /\ JobInv'
  <2>1. JobInv'
    <3>1. Kept(job.tail)' /\ (CutInv(job) => CutInv(job)')
      BY <1>2 DEF IInv, JobInv, CutInv
    <3>2. QED
      BY <1>2, <3>1 DEF IInv, JobInv, Confirmed
  <2>2. QED
    BY <2>1 DEF PlanningInv, LineInv, StageInv, ClearInv
<1>7. QED
  BY <1>1, <1>2, <1>3, <1>4, <1>5, <1>6 DEF IInv

\* The completion is published.
LEMMA CompleteInv ==
    ASSUME IInv, Complete
    PROVE  IInv'
<1> USE DEF Complete, Return, Goto, logVars, gateVars, receiptVars, workVars, historyVars,
        PlanPCs, LinePCs, StagePCs, ClearPCs, JobPCs
<1>1. /\ job \in Intent /\ job \in intents /\ Pending \subseteq {job} /\ ReceiptsMatch(log)
      /\ log = Cut(job.tail) /\ job.kind \in Kind
      /\ job.kind \in {"torn", "rollback"} => logDisk = {log}
  BY Facts, IntentType DEF IInv, JobInv, HolderInv
<1>2. job.tail \in Seq(Line) /\ log.lines = job.tail /\ log.frag = 0
  BY <1>1, IntentType, CutType
<1>3. Pending' = {}
  BY <1>1 DEF Pending
<1>4. \A f : ReceiptsMatch(f)' <=> ReceiptsMatch(f) /\ Prefix(job.tail, f.lines)
  BY DEF ReceiptsMatch
<1>5. adopted => adopted'
  OBVIOUS
<1>6. Sealed => Sealed'
  BY <1>4, <1>5 DEF Sealed
<1>7. job.kind = "stage" => Sealed
  <2>1. job.kind = "stage" => plan = Absent
    BY DEF IInv, JobInv
  <2>2. QED
    BY <2>1, Facts DEF IInv, PlanInv, Unwritten
<1>8. job.kind # "stage" /\ ~adopted' => logDisk = {log}
  BY <1>1 DEF Kind
<1>9. ~adopted' => \A f \in logDisk : ReceiptsMatch(f)'
  <2>1. ASSUME ~adopted', NEW f \in logDisk
        PROVE  ReceiptsMatch(f)'
    <3>1. ReceiptsMatch(f)
      BY <1>5, <2>1 DEF IInv, ReceiptsConsistent
    <3>2. f.lines = log.lines
      BY <1>7, <1>8, <2>1, <3>1 DEF Sealed
    <3>3. QED
      BY <1>2, <1>4, <3>1, <3>2, PrefixRefl
  <2>2. QED
    BY <2>1
<1>10. \A f \in logDisk : ReceiptsMatch(f) => Len(f.lines) <= Len(log.lines)
  <2>1. CASE job.kind = "rollback"
    BY <1>1, <2>1, Facts
  <2>2. CASE job.kind # "rollback"
    BY <1>1, <2>2 DEF IInv, PendingInv
  <2>3. QED
    BY <2>1, <2>2
<1>11. ResumedExactly' /\ ReportedStable'
  BY <1>5 DEF IInv, ResumedExactly, ReportedStable, AcknowledgedBundles, ReplayedStable
<1>12. ReceiptsConsistent'
  <2>1. AuditOK'
    BY <1>3 DEF IInv, ReceiptsConsistent, AuditOK
  <2>2. QED
    BY <1>9, <2>1 DEF ReceiptsConsistent
<1>13. PlanInv'
  BY <1>4, <1>6 DEF IInv, PlanInv
<1>14. PendingInv'
  BY <1>3, <1>4, <1>10 DEF PendingInv
<1>15. ReceiptsMatch(log)'
  BY <1>1, <1>2, <1>4, PrefixRefl
<1>16. completed' \subseteq intents /\ adopted' \in BOOLEAN
  BY <1>1, Facts
<1>17. CASE Return
  <2>1. TypeOK'
    BY <1>16, <1>17 DEF IInv, TypeOK, PCs
  <2>2. QED
    BY <1>11, <1>12, <1>13, <1>14, <1>17, <2>1, AtRest DEF IInv
<1>18. CASE /\ pc' = "clear" /\ UNCHANGED workVars
            /\ \/ job.kind = "rollback" /\ mode # "recover" /\ done = 0
               \/ job.kind = "stage"
  <2>1. TypeOK'
    BY <1>16, <1>18 DEF IInv, TypeOK, PCs
  <2>2. Sealed'
    <3>1. CASE job.kind = "rollback" /\ mode # "recover" /\ done = 0
      <4>1. /\ Len(job.tail) = Len(plan.pre) /\ plan \in Plan /\ Fits(plan, log)
            /\ logDisk = {log}
        BY <1>1, <3>1 DEF IInv, JobInv, CutInv
      <4>2. Whole(log.lines)
        BY <1>1, <1>2, <4>1, PlanFits, Facts, FitsWhole
      <4>3. QED
        BY <1>2, <4>1, <4>2 DEF Sealed
    <3>2. CASE job.kind = "stage"
      BY <1>6, <1>7, <3>2
    <3>3. QED
      BY <1>18, <3>1, <3>2
  <2>3. mode' \in {"append", "resume"} => logDisk' = {log'}
    BY <1>1, <1>18 DEF IInv, JobInv
  <2>4. ClearInv'
    BY <1>18, <2>2, <2>3 DEF ClearInv
  <2>5. HolderInv'
    BY <1>3, <1>15, <1>18 DEF HolderInv
  <2>6. PlanningInv' /\ LineInv' /\ StageInv' /\ JobInv'
    BY <1>18 DEF PlanningInv, LineInv, StageInv, JobInv
  <2>7. QED
    BY <1>11, <1>12, <1>13, <1>14, <2>1, <2>4, <2>5, <2>6 DEF IInv
<1>19. CASE /\ job.kind \in {"torn", "zero", "complete"}
            /\ done' = Confirmed /\ bundle' = plan.bundle /\ pc' = "stage"
            /\ job' = NoJob /\ UNCHANGED mode
  <2>1. /\ plan \in Plan /\ mode \in {"resume", "recover"}
        /\ mode = "resume" => Confirmed \in 1 .. Size[plan.bundle] - 1
    BY <1>19 DEF IInv, JobInv
  <2>2. /\ Confirmed \in 0 .. Size[plan.bundle] /\ Size[plan.bundle] \in 1 .. 3
        /\ Len(log.lines) = Len(plan.pre) + Confirmed
        /\ Fits(plan, log) /\ Whole(plan.pre) /\ plan.bundle \in Bundle
    BY <1>1, <2>1, PlanFits, Facts
  <2>3. TypeOK'
    BY <1>16, <1>19, <2>2 DEF IInv, TypeOK, PCs
  <2>4. ASSUME Confirmed = Size[plan.bundle] \/ Confirmed = 0
        PROVE  Sealed'
    <3>1. Whole(log.lines)
      BY <2>1, <2>2, <2>4, Facts, FitsWhole
    <3>2. ASSUME NEW f \in logDisk, ReceiptsMatch(f)'
          PROVE  f.lines = log.lines /\ (adopted' \/ f.frag = 0)
      <4>1. f.lines \in Seq(Line) /\ Prefix(log.lines, f.lines)
            /\ Len(f.lines) <= Len(log.lines)
        BY <1>2, <1>4, <1>10, <3>2, Facts, LogType
      <4>2. f.lines = log.lines
        BY <4>1, Facts, PrefixEqual
      <4>3. adopted' \/ f.frag = 0
        BY <1>2, <1>8, <1>19
      <4>4. QED
        BY <4>2, <4>3
    <3>3. QED
      BY <3>1, <3>2 DEF Sealed
  <2>5. StageInv'
    BY <1>2, <1>19, <2>1, <2>2, <2>4 DEF StageInv
  <2>6. HolderInv'
    BY <1>3, <1>15, <1>19 DEF HolderInv
  <2>7. PlanningInv' /\ LineInv' /\ ClearInv' /\ JobInv'
    BY <1>19 DEF PlanningInv, LineInv, ClearInv, JobInv
  <2>8. QED
    BY <1>11, <1>12, <1>13, <1>14, <2>3, <2>5, <2>6, <2>7 DEF IInv
<1>20. QED
  <2>1. mode \in {"append", "resume", "recover"}
    BY DEF IInv, JobInv
  <2>2. QED
    BY <1>1, <1>17, <1>18, <1>19, <2>1 DEF AfterCompletion, Kind

\* A pending intent is carried on.
LEMMA ResumePendingInv ==
    ASSUME IInv, ResumePending
    PROVE  IInv'
<1> USE DEF ResumePending, logVars, gateVars, receiptVars, workVars, historyVars, PlanPCs,
        LinePCs, StagePCs, ClearPCs, JobPCs
<1>1. TypeOK'
  BY DEF IInv, TypeOK, PCs, Pending
<1>2. /\ ResumedExactly' /\ ReportedStable' /\ ReceiptsConsistent'
      /\ Pending' = Pending
      /\ Sealed => Sealed'
      /\ \A f : ReceiptsMatch(f)' <=> ReceiptsMatch(f)
      /\ \A s : Kept(s) => Kept(s)'
      /\ \A n : KeptBelow(n) => KeptBelow(n)'
      /\ planDisk' \subseteq planDisk => PlanInv'
      /\ Pending = {} \/ UNCHANGED <<plan, planDisk>> => PendingInv'
  BY Frame, Facts
<1>3. PlanInv'
  BY <1>2
<1>4. PendingInv'
  BY <1>2 DEF IInv, HolderInv
<1>5. HolderInv'
  BY <1>2 DEF IInv, HolderInv
<1>6. PlanningInv' /\ LineInv' /\ StageInv' /\ ClearInv' /\ JobInv'
  <2>1. PICK i \in Pending :
            Resumable(i) /\ job' = i
            /\ pc' = (IF log = Cut(i.tail) THEN "trunc_sync" ELSE "truncate")
    OBVIOUS
  <2>2. /\ Kept(i.tail)' /\ CutInv(i)' /\ i \in intents /\ i.kind \in Kind
        /\ Pending' \subseteq {i} /\ i \in Pending'
    <3>1. Kept(i.tail) /\ CutInv(i)
      BY DEF IInv, PendingInv
    <3>2. Pending \subseteq {i}
      BY DEF IInv, ReceiptsConsistent, AuditOK
    <3>3. CutInv(i)'
      BY <3>1 DEF CutInv
    <3>4. QED
      BY <1>2, <3>1, <3>2, <3>3, Facts, IntentType DEF Pending
  <2>3. Prefix(i.tail, log.lines) /\ mode = "recover"
    BY <2>1 DEF Resumable, IInv, HolderInv
  <2>4. i.kind # "rollback" => log.lines = i.tail
    <3>1. i.kind = "stage" => log.lines = i.tail
      BY <2>1, <2>2, Facts, IntentType, CutType DEF Resumable, ContextOK
    <3>2. QED
      BY <2>1, <3>1 DEF Resumable, ContextOK
  <2>5. i.kind = "stage" => plan = Absent
    BY <2>1 DEF Resumable, ContextOK
  <2>6. i.kind \in {"torn", "zero", "complete"} =>
            /\ plan \in Plan
            /\ i.kind = "zero" => Confirmed = 0
            /\ i.kind = "complete" => Confirmed = Size[plan.bundle]
    BY <2>1 DEF Resumable, ContextOK, Inspectable
  <2>7. Confirmed' = Confirmed
    BY DEF Confirmed
  <2>8. JobInv'
    BY <2>1, <2>2, <2>3, <2>4, <2>5, <2>6, <2>7 DEF JobInv, Kind
  <2>9. pc' \in JobPCs
    BY <2>1
  <2>10. QED
    BY <2>8, <2>9 DEF PlanningInv, LineInv, StageInv, ClearInv
<1>7. QED
  BY <1>1, <1>2, <1>3, <1>4, <1>5, <1>6 DEF IInv

\* Recovery publishes an intent.
LEMMA ProposeRecoveryInv ==
    ASSUME IInv, ProposeRecovery
    PROVE  IInv'
<1> USE DEF ProposeRecovery, logVars, gateVars, receiptVars, workVars, historyVars,
        PlanPCs, LinePCs, StagePCs, ClearPCs, JobPCs
<1>1. /\ mode = "recover" /\ ReceiptsMatch(log) /\ Pending = {} /\ ProposalDue
      /\ plan \in Plan \/ plan = Absent
  BY DEF IInv, HolderInv, ProposalDue, Inspectable
<1>2. ASSUME plan = Absent
      PROVE  log.frag = 0
  BY <1>1, <1>2, PlanType DEF ProposalDue, Inspectable
<1>3. /\ mode' = "recover" /\ UNCHANGED <<log, logDisk, plan, planDisk>>
      /\ PublishIntent /\ UNCHANGED <<stage, stageDisk, acked, seen, adopted, stops, losses>>
  BY <1>1
<1>4. plan \in Plan /\ log.frag = 0 => Confirmed = 0 \/ Confirmed = Size[plan.bundle]
  <2>1. plan \in Plan /\ log.frag = 0 => ~(Confirmed \in 1 .. Size[plan.bundle] - 1)
    BY <1>1, PlanType DEF ProposalDue, Interior
  <2>2. QED
    BY <1>1, <2>1, PlanFits
<1> HIDE DEF ProposeRecovery
<1>5. QED
  BY <1>1, <1>2, <1>3, <1>4, PublishStep

\* Recovery reports an interrupted bundle.
LEMMA RecoverInteriorInv ==
    ASSUME IInv, RecoverInterior
    PROVE  IInv'
<1> USE DEF RecoverInterior, RebuildStage, logVars, gateVars, receiptVars, workVars,
        historyVars, PlanPCs, LinePCs, StagePCs, ClearPCs, JobPCs
<1>1. TypeOK'
  <2>1. plan \in Plan /\ ReceiptsMatch(log)
    BY DEF IInv, HolderInv, Interior, Inspectable
  <2>2. Confirmed \in 0 .. 3 /\ plan.bundle \in Bundle
    BY <2>1, PlanFits, Facts
  <2>3. QED
    BY <2>2 DEF IInv, TypeOK, PCs
<1>2. /\ ResumedExactly' /\ ReportedStable' /\ ReceiptsConsistent'
      /\ Pending' = Pending
      /\ Sealed => Sealed'
      /\ \A f : ReceiptsMatch(f)' <=> ReceiptsMatch(f)
      /\ \A s : Kept(s) => Kept(s)'
      /\ \A n : KeptBelow(n) => KeptBelow(n)'
      /\ planDisk' \subseteq planDisk => PlanInv'
      /\ Pending = {} \/ UNCHANGED <<plan, planDisk>> => PendingInv'
  BY Frame, Facts
<1>3. PlanInv'
  BY <1>2
<1>4. PendingInv'
  BY <1>2 DEF IInv, HolderInv
<1>5. HolderInv'
  BY <1>2 DEF IInv, HolderInv
<1>6. PlanningInv' /\ LineInv' /\ StageInv' /\ ClearInv' /\ JobInv'
  <2>1. plan \in Plan /\ ReceiptsMatch(log) /\ mode = "recover"
    BY DEF IInv, HolderInv, Interior, Inspectable
  <2>2. Confirmed \in 1 .. Size[plan.bundle] - 1
        /\ Len(log.lines) = Len(plan.pre) + Confirmed /\ Size[plan.bundle] \in 1 .. 3
    BY <2>1, PlanFits DEF Interior
  <2>3. StageInv'
    BY <2>1, <2>2 DEF StageInv
  <2>4. QED
    BY <2>3 DEF PlanningInv, LineInv, ClearInv, JobInv
<1>7. QED
  BY <1>1, <1>2, <1>3, <1>4, <1>5, <1>6 DEF IInv

\* Recovery is refused.
LEMMA RecoveryRefusedInv ==
    ASSUME IInv, RecoveryRefused
    PROVE  IInv'
<1> USE DEF RecoveryRefused, Return, logVars, gateVars, receiptVars, workVars,
        historyVars, PlanPCs, LinePCs, StagePCs, ClearPCs, JobPCs
<1>1. TypeOK'
  BY DEF IInv, TypeOK, PCs
<1>2. ResumedExactly' /\ ReportedStable' /\ ReceiptsConsistent' /\ PlanInv' /\ PendingInv'
  BY Frame
<1>3. QED
  BY <1>1, <1>2, AtRest DEF IInv

\* Recovery takes the lock.
LEMMA OpenRecoveryInv ==
    ASSUME IInv, OpenRecovery
    PROVE  IInv'
<1> USE DEF OpenRecovery, logVars, gateVars, receiptVars, workVars, historyVars, PlanPCs,
        LinePCs, StagePCs, ClearPCs, JobPCs
<1>1. TypeOK'
  BY DEF IInv, TypeOK, PCs, Unwritten
<1>2. /\ ResumedExactly' /\ ReportedStable' /\ ReceiptsConsistent'
      /\ Pending' = Pending
      /\ Sealed => Sealed'
      /\ \A f : ReceiptsMatch(f)' <=> ReceiptsMatch(f)
      /\ \A s : Kept(s) => Kept(s)'
      /\ \A n : KeptBelow(n) => KeptBelow(n)'
      /\ planDisk' \subseteq planDisk => PlanInv'
      /\ Pending = {} \/ UNCHANGED <<plan, planDisk>> => PendingInv'
  BY Frame, Facts
<1>3. PlanInv'
  BY <1>2
<1>4. PendingInv'
  BY <1>2 DEF IInv, HolderInv
<1>5. HolderInv'
  BY <1>2 DEF IInv, HolderInv
<1>6. PlanningInv' /\ LineInv' /\ StageInv' /\ ClearInv' /\ JobInv'
  BY DEF PlanningInv, LineInv, StageInv, ClearInv, JobInv
<1>7. QED
  BY <1>1, <1>2, <1>3, <1>4, <1>5, <1>6 DEF IInv

\* An interrupted bundle is taken up again.
LEMMA OpenResumeInv ==
    ASSUME IInv, OpenResume
    PROVE  IInv'
<1> USE DEF OpenResume, logVars, gateVars, receiptVars, workVars, historyVars, PlanPCs,
        LinePCs, StagePCs, ClearPCs, JobPCs
<1>1. /\ Interior /\ plan \in Plan /\ ReceiptsMatch(log) /\ Pending = {}
  BY DEF Interior, Inspectable
<1>2. /\ Confirmed \in 1 .. Size[plan.bundle] - 1 /\ Size[plan.bundle] \in 1 .. 3
      /\ Len(log.lines) = Len(plan.pre) + Confirmed /\ plan.bundle \in Bundle
  BY <1>1, PlanFits, Facts DEF Interior
<1>3. CASE log.frag > 0
  <2>1. /\ mode' = "resume" /\ PublishIntent
        /\ UNCHANGED <<log, logDisk, plan, planDisk, stage, stageDisk, acked, seen,
                       adopted, stops, losses>>
    BY <1>3
  <2> HIDE DEF OpenResume
  <2>2. QED
    BY <1>1, <1>2, <1>3, <2>1, PlanType, PublishStep
<1>4. CASE ~(log.frag > 0)
  <2>1. log.frag = 0 /\ RebuildStage
    BY <1>4, Facts
  <2> USE DEF RebuildStage
  <2>2. TypeOK'
    BY <1>2, <2>1 DEF IInv, TypeOK, PCs
  <2>3. /\ ResumedExactly' /\ ReportedStable' /\ ReceiptsConsistent'
        /\ Pending' = Pending
        /\ \A f : ReceiptsMatch(f)' <=> ReceiptsMatch(f)
        /\ PlanInv' /\ PendingInv'
    BY <2>1, Frame
  <2>4. HolderInv'
    BY <1>1, <2>1, <2>3 DEF HolderInv
  <2>5. StageInv'
    BY <1>1, <1>2, <2>1 DEF StageInv
  <2>6. PlanningInv' /\ LineInv' /\ ClearInv' /\ JobInv'
    BY <2>1 DEF PlanningInv, LineInv, ClearInv, JobInv
  <2>7. QED
    BY <2>2, <2>3, <2>4, <2>5, <2>6 DEF IInv
<1>5. QED
  BY <1>3, <1>4

\* A reader replays the log.
LEMMA ReplayInv ==
    ASSUME IInv, Replay
    PROVE  IInv'
<1> USE DEF Replay, OpenAdmitted, GateOpen, logVars, gateVars, receiptVars, workVars,
        historyVars, PlanPCs, LinePCs, StagePCs, ClearPCs, JobPCs
<1>1. plan = Absent /\ plan \in planDisk /\ Pending = {}
  BY Facts
<1>2. Sealed
  BY <1>1 DEF IInv, PlanInv, Unwritten
<1>3. TypeOK'
  BY Facts DEF IInv, TypeOK
<1>4. /\ ResumedExactly' /\ ReceiptsConsistent' /\ PlanInv' /\ PendingInv'
      /\ Pending' = Pending
  BY <1>1, SameLog
<1>5. ReportedStable'
  <2>1. ASSUME ~adopted, NEW f \in logDisk
        PROVE  Prefix(log.lines, f.lines)
    <3>1. f.lines = log.lines
      BY <1>2, <2>1 DEF IInv, ReceiptsConsistent, Sealed
    <3>2. QED
      BY <3>1, Facts, PrefixRefl
  <2>2. QED
    BY <2>1 DEF IInv, ReportedStable, AcknowledgedBundles, ReplayedStable
<1>6. HolderInv' /\ PlanningInv' /\ LineInv' /\ StageInv' /\ ClearInv' /\ JobInv'
  <2>1. mode = "none" /\ job = NoJob /\ done = 0
    BY DEF IInv, HolderInv
  <2>2. QED
    BY <2>1, AtRest
<1>7. QED
  BY <1>3, <1>4, <1>5, <1>6 DEF IInv

\* A bundle is handed to a new session.
LEMMA BeginBundleInv ==
    ASSUME NEW b \in Bundle, IInv, BeginBundle(b)
    PROVE  IInv'
<1> USE DEF BeginBundle, OpenAdmitted, GateOpen, logVars, gateVars, receiptVars, workVars,
        historyVars, PlanPCs, LinePCs, StagePCs, ClearPCs, JobPCs
<1>1. plan = Absent /\ plan \in planDisk /\ Pending = {} /\ ReceiptsMatch(log) /\ log.frag = 0
  BY Facts
<1>2. Sealed
  BY <1>1 DEF IInv, PlanInv, Unwritten
<1>3. TypeOK'
  BY Facts DEF IInv, TypeOK, PCs
<1>4. /\ ResumedExactly' /\ ReceiptsConsistent' /\ PlanInv' /\ PendingInv'
      /\ Pending' = Pending /\ Sealed' /\ \A f : ReceiptsMatch(f)' <=> ReceiptsMatch(f)
  BY <1>1, <1>2, SameLog
<1>5. ReportedStable'
  <2>1. ASSUME ~adopted, NEW f \in logDisk
        PROVE  Prefix(log.lines, f.lines)
    <3>1. f.lines = log.lines
      BY <1>2, <2>1 DEF IInv, ReceiptsConsistent, Sealed
    <3>2. QED
      BY <3>1, Facts, PrefixRefl
  <2>2. QED
    BY <2>1 DEF IInv, ReportedStable, AcknowledgedBundles, ReplayedStable
<1>6. HolderInv'
  BY <1>1, <1>4 DEF HolderInv
<1>7. PlanningInv'
  <2>1. Whole(log.lines) /\ NewTo(b, log.lines)
    BY <1>1, <1>2, Facts DEF Sealed, NewTo
  <2>2. QED
    BY <1>1, <1>4, <2>1 DEF PlanningInv
<1>8. LineInv' /\ StageInv' /\ ClearInv' /\ JobInv'
  BY DEF LineInv, StageInv, ClearInv, JobInv
<1>9. QED
  BY <1>3, <1>4, <1>5, <1>6, <1>7, <1>8 DEF IInv

\* A call fails or the process is killed.
LEMMA StopInv ==
    ASSUME IInv, Stop
    PROVE  IInv'
<1> USE DEF Stop, Return, logVars, gateVars, receiptVars, workVars, historyVars, PlanPCs,
        LinePCs, StagePCs, ClearPCs, JobPCs
<1>1. TypeOK'
  BY BoundAssumption DEF IInv, TypeOK, PCs
<1>2. ResumedExactly' /\ ReportedStable' /\ ReceiptsConsistent' /\ PlanInv' /\ PendingInv'
  BY Frame
<1>3. QED
  BY <1>1, <1>2, AtRest DEF IInv

\* The write of a line fails.
LEMMA FailWriteInv ==
    ASSUME IInv, FailWrite
    PROVE  IInv'
<1> USE DEF FailWrite, Goto, logVars, gateVars, receiptVars, workVars, historyVars,
        PlanPCs, LinePCs, StagePCs, ClearPCs, JobPCs
<1>1. TypeOK'
  BY BoundAssumption DEF IInv, TypeOK, PCs
<1>2. /\ ResumedExactly' /\ ReportedStable' /\ ReceiptsConsistent'
      /\ Pending' = Pending
      /\ Sealed => Sealed'
      /\ \A f : ReceiptsMatch(f)' <=> ReceiptsMatch(f)
      /\ \A s : Kept(s) => Kept(s)'
      /\ \A n : KeptBelow(n) => KeptBelow(n)'
      /\ planDisk' \subseteq planDisk => PlanInv'
      /\ Pending = {} \/ UNCHANGED <<plan, planDisk>> => PendingInv'
  BY Frame, Facts
<1>3. PlanInv'
  BY <1>2
<1>4. PendingInv'
  BY <1>2 DEF IInv, HolderInv
<1>5. HolderInv'
  BY <1>2 DEF IInv, HolderInv
<1>6. PlanningInv' /\ LineInv' /\ StageInv' /\ ClearInv' /\ JobInv'
  BY <1>2 DEF IInv, PlanningInv, LineInv, StageInv, ClearInv, JobInv
<1>7. QED
  BY <1>1, <1>2, <1>3, <1>4, <1>5, <1>6 DEF IInv

\* Power fails.
LEMMA PowerLossInv ==
    ASSUME IInv, PowerLoss
    PROVE  IInv'
<1> USE DEF PowerLoss, Return, logVars, gateVars, receiptVars, workVars, historyVars,
        PlanPCs, LinePCs, StagePCs, ClearPCs, JobPCs
<1>1. PICK f \in logDisk, p \in planDisk, s \in stageDisk :
          /\ log' = f /\ logDisk' = {f}
          /\ plan' = p /\ planDisk' = {p}
          /\ stage' = s /\ stageDisk' = {s}
  OBVIOUS
<1>2. TypeOK'
  BY <1>1, BoundAssumption DEF IInv, TypeOK, PCs
<1>3. Pending' = Pending /\ \A g : ReceiptsMatch(g)' <=> ReceiptsMatch(g)
  BY DEF Pending, ReceiptsMatch
<1>4. ResumedExactly'
  BY <1>1 DEF IInv, ResumedExactly
<1>5. ReportedStable'
  BY <1>1 DEF IInv, ReportedStable, AcknowledgedBundles, ReplayedStable
<1>6. ReceiptsConsistent'
  <2>1. AuditOK'
    BY <1>3 DEF IInv, ReceiptsConsistent, AuditOK
  <2>2. QED
    BY <1>1, <1>3, <2>1 DEF IInv, ReceiptsConsistent
<1>7. PlanInv'
  <2>1. planDisk' \cap Unwritten # {} => Sealed'
    BY <1>1, <1>3 DEF IInv, PlanInv, Sealed
  <2>2. QED
    BY <1>1, <1>3, <2>1 DEF IInv, PlanInv
<1>8. PendingInv'
  <2>1. \A g : Kept(g) => Kept(g)'
    BY DEF Kept
  <2>2. \A i : CutInv(i) => CutInv(i)'
    BY <1>1 DEF CutInv
  <2>3. \A g \in logDisk' : Len(g.lines) <= Len(log'.lines)
    BY <1>1, Facts, LogType
  <2>4. QED
    BY <1>3, <2>1, <2>2, <2>3 DEF IInv, PendingInv
<1>9. QED
  BY <1>2, <1>4, <1>5, <1>6, <1>7, <1>8, AtRest DEF IInv

\* Nothing happens.
LEMMA StutterInv ==
    ASSUME IInv, UNCHANGED vars
    PROVE  IInv'
<1> USE DEF vars, logVars, gateVars, receiptVars, workVars, historyVars
<1>1. TypeOK'
  BY DEF IInv, TypeOK
<1>2. /\ ResumedExactly' /\ ReportedStable' /\ ReceiptsConsistent' /\ PlanInv' /\ PendingInv'
      /\ Pending' = Pending
      /\ Sealed => Sealed'
      /\ \A f : ReceiptsMatch(f)' <=> ReceiptsMatch(f)
      /\ \A s : Kept(s) => Kept(s)'
      /\ \A n : KeptBelow(n) => KeptBelow(n)'
  BY Frame
<1>3. HolderInv'
  BY <1>2 DEF IInv, HolderInv
<1>4. PlanningInv' /\ LineInv' /\ StageInv' /\ ClearInv'
  <2>1. KeptBelow(Len(plan.pre) + done) => KeptBelow(Len(plan.pre) + done)'
    BY <1>2
  <2>2. LineInv'
    BY <2>1 DEF IInv, LineInv
  <2>3. QED
    BY <1>2, <2>2 DEF IInv, PlanningInv, StageInv, ClearInv
<1>5. JobInv'
  <2>1. (Kept(job.tail) => Kept(job.tail)') /\ (CutInv(job) => CutInv(job)')
    BY <1>2 DEF CutInv
  <2>2. QED
    BY <1>2, <2>1 DEF IInv, JobInv, Confirmed
<1>6. QED
  BY <1>1, <1>2, <1>3, <1>4, <1>5 DEF IInv

\* A new run has an empty log and no gate.
LEMMA InitInv == Init => IInv
<1> SUFFICES ASSUME Init PROVE IInv
  OBVIOUS
<1> USE DEF Init, Empty
<1>1. <<>> \in Seq(Line) /\ Len(<<>>) = 0 /\ Empty \in Log /\ Empty.lines = <<>>
      /\ Empty.frag = 0
  BY DEF Log
<1>2. TypeOK
  <2> HIDE DEF Empty
  <2>1. stops \in 0 .. MaxStops /\ losses \in 0 .. MaxLosses /\ done \in 0 .. 3
    BY BoundAssumption
  <2>2. /\ log \in Log /\ logDisk \subseteq Log /\ log \in logDisk
        /\ acked \in Seq(Line) /\ seen \in Seq(Line)
    BY <1>1
  <2>3. QED
    BY <2>1, <2>2 DEF TypeOK, PCs, Unwritten
<1>3. \A s \in Seq(Line) : Prefix(<<>>, s)
  BY DEF Prefix
<1>4. Exact(<<>>) /\ Whole(<<>>)
  BY DEF Exact, InOrder, Whole
<1> HIDE DEF Empty
<1>5. ResumedExactly /\ ReportedStable
  BY <1>1, <1>3, <1>4 DEF ResumedExactly, ReportedStable, AcknowledgedBundles, ReplayedStable
<1>6. ReceiptsConsistent /\ Pending = {}
  BY DEF ReceiptsConsistent, AuditOK, Pending, ReceiptsMatch
<1>7. PlanInv
  BY <1>1, <1>4, PlanType DEF PlanInv, Sealed
<1>8. PendingInv
  BY <1>1, <1>6 DEF PendingInv
<1>9. HolderInv /\ PlanningInv /\ LineInv /\ StageInv /\ ClearInv /\ JobInv
  BY DEF HolderInv, PlanningInv, LineInv, StageInv, ClearInv, JobInv,
         PlanPCs, LinePCs, StagePCs, ClearPCs, JobPCs
<1>10. QED
  BY <1>2, <1>5, <1>6, <1>7, <1>8, <1>9 DEF IInv

\* Every step of every process preserves the inductive invariant.
LEMMA NextInv == IInv /\ [Next]_vars => IInv'
<1> SUFFICES ASSUME IInv, [Next]_vars PROVE IInv'
  OBVIOUS
<1>1. CASE Step
  BY <1>1, CreatePlanInv, WritePlanInv, CreateStageInv, WriteStageZeroInv, SyncGateInv,
     WriteUnitInv, SyncLineInv, WriteStageInv, SyncStageInv, UnlinkStageInv,
     UnlinkPlanInv, SyncClearInv, RecordRollbackInv, RollbackRefusedInv, TruncateInv,
     SyncTruncationInv, CompleteInv, ResumePendingInv, ProposeRecoveryInv,
     RecoverInteriorInv, RecoveryRefusedInv DEF Step
<1>2. CASE Next
  BY <1>1, <1>2, ReplayInv, BeginBundleInv, OpenRecoveryInv, OpenResumeInv, StopInv,
     FailWriteInv, PowerLossInv DEF Next
<1>3. QED
  BY <1>2, StutterInv

-----------------------------------------------------------------------------
(***************************************************************************)
(* The theorems                                                            *)
(***************************************************************************)

\* The inductive invariant of bundle append, rollback, recovery and resumption:
\* which logs each gate file may be found with, and what the holder of the lock
\* may rely on at each step.
THEOREM BundleInv == Spec => []IInv
BY InitInv, NextInv, PTL DEF Spec

\* All of a bundle or nothing, for bundles appended, rolled back, recovered and
\* resumed any number of times: where no plan may be found, every log that may
\* be found consists of whole bundles, unless an unsynced log was adopted.
THEOREM BundlesAreWhole == Spec => []AllOrNothing
<1>1. ASSUME IInv PROVE AllOrNothing
  <2>1. ASSUME Absent \in planDisk, ~adopted, NEW f \in logDisk
        PROVE  f.frag = 0 /\ Whole(f.lines)
    <3>1. ReceiptsMatch(f)
      BY <1>1, <2>1 DEF IInv, ReceiptsConsistent
    <3>2. Sealed
      BY <1>1, <2>1 DEF IInv, PlanInv, Unwritten
    <3>3. QED
      BY <2>1, <3>1, <3>2 DEF Sealed
  <2>2. QED
    BY <2>1 DEF AllOrNothing
<1>2. QED
  BY <1>1, BundleInv, PTL

\* resume_verification_bundle_suffix appends exactly the missing lines, also
\* after an adopted log was lost: every log in order, no line twice.
THEOREM ResumptionsAreExact == Spec => []ResumedExactly
<1>1. IInv => ResumedExactly
  BY DEF IInv
<1>2. QED
  BY <1>1, BundleInv, PTL

\* What append_verification_bundle_suffix or a resumption acknowledged stays,
\* and so does what was replayed, unless an unsynced log was adopted.
THEOREM ReportedBundlesStay == Spec => []ReportedStable
<1>1. IInv => ReportedStable
  BY DEF IInv
<1>2. QED
  BY <1>1, BundleInv, PTL

\* recovery_audit accepts every set of receipts that rollbacks, recoveries and
\* resumptions leave behind, and so does validate_completed_receipts.
THEOREM BundleReceiptsAreConsistent == Spec => []ReceiptsConsistent
<1>1. IInv => ReceiptsConsistent
  BY DEF IInv
<1>2. QED
  BY <1>1, BundleInv, PTL

=============================================================================
