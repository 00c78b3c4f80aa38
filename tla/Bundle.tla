------------------------------- MODULE Bundle -------------------------------
(***************************************************************************)
(* The verification bundle of crates/reviewgraphen-store/src/journal.rs:   *)
(* up to three events that must enter the log together, appended line by   *)
(* line behind a plan file (verification-bundle.pending.json) and an       *)
(* advisory stage file (verification-bundle.pending.stage), with their     *)
(* rollback, their recovery and the resumption of a partial bundle.        *)
(*                                                                         *)
(* A line is the k-th event of a bundle.  The log is its complete lines    *)
(* and the length of the unterminated fragment after them (0, 1 or 2 of    *)
(* the 3 units a line takes); a hash stands for the bytes it was computed  *)
(* over, so an offset is a prefix of the lines.  A receipt is published in *)
(* one step: module Journal has the link and the directory sync apart, and *)
(* every operation begins with a sync of the receipt directories.  The     *)
(* generic append and its marker, and the receipt limits, are Journal's.   *)
(***************************************************************************)
EXTENDS Naturals, Sequences

CONSTANTS
    Bundle,     \* the bundles that may be appended
    Size,       \* the number of events of each, one to three
    MaxStops,   \* failed calls and kills in a behaviour (a bound of the model)
    MaxLosses,  \* power failures in a behaviour (a bound of the model)
    Absent,     \* a file that does not exist
    Blank,      \* a file that was created but not written
    NoPlan,     \* the plan of a recovery that belongs to no plan
    NoJob       \* "no recovery intent"

ASSUME SizeAssumption == Size \in [Bundle -> 1 .. 3]
ASSUME BoundAssumption == MaxStops \in Nat /\ MaxLosses \in Nat

Line == Bundle \X (1 .. 3)
Log == [lines : Seq(Line), frag : 0 .. 2]

\* VerificationBundlePendingMarkerV3: the bundle and the log it was planned on.
Plan == [bundle : Bundle, pre : Seq(Line)]
Unwritten == {Absent, Blank}

\* RecoveryIntent.  tail is what remains of the log, gone what is discarded;
\* "rollback" is an intent with no bundle_recovery_kind.  A completion repeats
\* its intent's identity and the hash of the prefix that the intent names.
Kind == {"rollback", "torn", "zero", "complete", "stage"}
Intent == [kind : Kind, plan : Plan \cup {NoPlan}, tail : Seq(Line), gone : Log]

ASSUME FileAssumption == /\ Absent # Blank
                         /\ Absent \notin Plan \cup (0 .. 3)
                         /\ Blank \notin Plan \cup (0 .. 3)
ASSUME NoPlanAssumption == NoPlan \notin Plan
ASSUME NoJobAssumption == NoJob \notin Intent

VARIABLES
    log,        \* events.jsonl as every process reads it
    logDisk,    \* the set of contents it may have on the medium
    plan,       \* the plan file: absent, created but unwritten, or a Plan
    planDisk,   \* the set of states it may have on the medium
    stage,      \* the stage file: absent, created but unwritten, or a number
    stageDisk,  \* the set of states it may have on the medium
    intents,    \* recovery/intents
    completed,  \* the intents that recovery/completions answers
    pc,         \* where the holder of the exclusive lock is
    mode,       \* which operation it carries out
    bundle,     \* the bundle it works on
    done,       \* how many lines of that bundle it has confirmed
    job,        \* the recovery intent it carries out, or NoJob
    acked,      \* the log when an append or a resumption last succeeded
    seen,       \* the log that was last replayed through an open gate
    adopted,    \* recovery has accepted a log that is not known to be durable
    stops,      \* failed calls and kills so far
    losses      \* power failures so far

logVars == <<log, logDisk>>
gateVars == <<plan, planDisk, stage, stageDisk>>
receiptVars == <<intents, completed>>
workVars == <<mode, bundle, done, job>>
historyVars == <<acked, seen, adopted>>
vars == <<logVars, gateVars, receiptVars, pc, workVars, historyVars, stops, losses>>

-----------------------------------------------------------------------------
Upto(s, n) == SubSeq(s, 1, n)
After(s, n) == SubSeq(s, n + 1, Len(s))
Prefix(s, t) == Len(s) <= Len(t) /\ \A i \in 1 .. Len(s) : s[i] = t[i]

\* The envelopes of a bundle.
Planned(b) == [k \in 1 .. Size[b] |-> <<b, k>>]

Empty == [lines |-> <<>>, frag |-> 0]
Cut(tail) == [lines |-> tail, frag |-> 0]
Rest(f, n) == [lines |-> After(f.lines, n), frag |-> f.frag]

\* inspect_bundle_pending_file_locked: the log is the planned prefix followed
\* by the first confirmed_events of the plan and at most a fragment.
Inspectable ==
    /\ plan \in Plan
    /\ Prefix(plan.pre, log.lines)
    /\ Prefix(After(log.lines, Len(plan.pre)), Planned(plan.bundle))
Confirmed == Len(log.lines) - Len(plan.pre)

\* The gate of refuse_pending_markers and refuse_bundle_resume_gate.
GateOpen == plan = Absent /\ stage = Absent

-----------------------------------------------------------------------------
(***************************************************************************)
(* Receipts                                                                *)
(***************************************************************************)
Pending == intents \ completed

\* bundle_discard_ranges_overlap: ranges shorter than a line meet only when
\* they begin at the same offset.
Overlap(e, p) ==
    e.kind = "torn" /\ p.kind = "torn" /\ Len(e.tail) = Len(p.tail)

\* same_bundle_recovery_lineage.
SameLineage(e, p) ==
    /\ e.kind # "rollback" /\ e.kind = p.kind
    /\ e.plan = p.plan
    /\ Len(e.tail) = Len(p.tail)
    /\ e.gone.frag = p.gone.frag

\* recovery_inventory_conflicts.
Conflicts(e, p) ==
    IF e.kind = "rollback" \/ p.kind = "rollback"
    THEN Len(e.tail) = Len(p.tail)
    ELSE IF SameLineage(e, p) THEN e # p ELSE Overlap(e, p)

\* recovery_audit and validate_completed_receipts.
AuditOK == /\ \A i, j \in intents : i # j => ~Conflicts(i, j)
           /\ \A i, j \in Pending : i = j
ReceiptsMatch(f) == \A i \in completed : Prefix(i.tail, f.lines)

\* Mutant: a second receipt is published at the offset of an earlier one.
ProposableAlways(i) == i \notin intents

\* validate_proposed_recovery_lineage.  A bundle recovery has a name derived
\* from its content, so that a retry meets its own intent; a rollback has a
\* random one.
Proposable(i) == \A e \in intents : (e = i /\ i.kind # "rollback") \/ ~Conflicts(e, i)

-----------------------------------------------------------------------------
Init ==
    /\ log = Empty /\ logDisk = {Empty}
    /\ plan = Absent /\ planDisk = {Absent}
    /\ stage = Absent /\ stageDisk = {Absent}
    /\ intents = {} /\ completed = {}
    /\ pc = "idle" /\ mode = "none" /\ bundle \in Bundle /\ done = 0 /\ job = NoJob
    /\ acked = <<>> /\ seen = <<>> /\ adopted = FALSE
    /\ stops = 0 /\ losses = 0

\* The holder returns and drops the lock.
Return == pc' = "idle" /\ mode' = "none" /\ done' = 0 /\ job' = NoJob /\ UNCHANGED bundle

Goto(next) == pc' = next /\ UNCHANGED workVars

-----------------------------------------------------------------------------
(***************************************************************************)
(* append_verification_bundle_suffix                                       *)
(***************************************************************************)

\* Mutant: a session opens beside the plan of an interrupted bundle.
OpenAdmittedUngated == log.frag = 0 /\ AuditOK /\ ReceiptsMatch(log) /\ Pending = {}

\* What a session or a reader checks before it trusts the log.
OpenAdmitted ==
    GateOpen /\ log.frag = 0 /\ AuditOK /\ ReceiptsMatch(log) /\ Pending = {}

\* A reader or a session replays the log.
Replay ==
    /\ pc = "idle"
    /\ OpenAdmitted
    /\ seen' = log.lines
    /\ UNCHANGED <<logVars, gateVars, receiptVars, pc, workVars, acked, adopted,
                   stops, losses>>

\* A session is opened and a bundle, whose events are new, is handed to it.
BeginBundle(b) ==
    /\ pc = "idle"
    /\ OpenAdmitted
    /\ \A i \in 1 .. Len(log.lines) : log.lines[i][1] # b
    /\ seen' = log.lines
    /\ pc' = "plan_create"
    /\ mode' = "append"
    /\ bundle' = b
    /\ done' = 0
    /\ job' = NoJob
    /\ UNCHANGED <<logVars, gateVars, receiptVars, acked, adopted, stops, losses>>

\* publish_bundle_pending: create the plan, write and sync it, ...
CreatePlan ==
    /\ pc = "plan_create"
    /\ plan' = Blank
    /\ planDisk' = planDisk \cup {Blank}
    /\ Goto("plan_write")
    /\ UNCHANGED <<logVars, stage, stageDisk, receiptVars, historyVars, stops, losses>>

WritePlan ==
    /\ pc = "plan_write"
    /\ plan' = [bundle |-> bundle, pre |-> log.lines]
    /\ planDisk' = (planDisk \ {Blank}) \cup {plan'}
    /\ Goto("stage_create")
    /\ UNCHANGED <<logVars, stage, stageDisk, receiptVars, historyVars, stops, losses>>

\* ... then the same for the stage, ...
CreateStage ==
    /\ pc = "stage_create"
    /\ stage' = Blank
    /\ stageDisk' = stageDisk \cup {Blank}
    /\ Goto("stage_write")
    /\ UNCHANGED <<logVars, plan, planDisk, receiptVars, historyVars, stops, losses>>

WriteStageZero ==
    /\ pc = "stage_write"
    /\ stage' = 0
    /\ stageDisk' = (stageDisk \ {Blank}) \cup {0}
    /\ Goto("run_sync")
    /\ UNCHANGED <<logVars, plan, planDisk, receiptVars, historyVars, stops, losses>>

\* Mutant: the log is written before the plan's directory entry is durable.
SyncGateSkipped ==
    /\ pc = "run_sync"
    /\ Goto("line")
    /\ UNCHANGED <<logVars, gateVars, receiptVars, historyVars, stops, losses>>

\* ... and make both names durable.
SyncGate ==
    /\ pc = "run_sync"
    /\ planDisk' = {plan}
    /\ stageDisk' = {stage}
    /\ Goto("line")
    /\ UNCHANGED <<logVars, plan, stage, receiptVars, historyVars, stops, losses>>

\* append_bundle_lines: write_candidate, a unit at a time, ...
WriteUnit ==
    /\ pc = "line"
    /\ Len(log.lines) = Len(plan.pre) + done
    /\ log' = IF log.frag < 2 THEN [log EXCEPT !.frag = @ + 1]
              ELSE Cut(Append(log.lines, <<bundle, done + 1>>))
    /\ logDisk' = logDisk \cup {log'}
    /\ UNCHANGED <<gateVars, receiptVars, pc, workVars, historyVars, stops, losses>>

\* Mutant: a line counts as confirmed before it is synced.
SyncLineSkipped ==
    /\ pc = "line"
    /\ Len(log.lines) > Len(plan.pre) + done
    /\ done' = done + 1
    /\ pc' = "stage"
    /\ UNCHANGED <<logVars, gateVars, receiptVars, mode, bundle, job, historyVars,
                   stops, losses>>

\* ... and sync_data, which confirms the line.
SyncLine ==
    /\ pc = "line"
    /\ Len(log.lines) > Len(plan.pre) + done
    /\ logDisk' = {log}
    /\ done' = done + 1
    /\ pc' = "stage"
    /\ UNCHANGED <<log, gateVars, receiptVars, mode, bundle, job, historyVars,
                   stops, losses>>

\* persist_bundle_stage_file: create the stage if it is missing, write it, ...
WriteStage ==
    /\ pc = "stage"
    /\ IF stage = Absent
       THEN stage' = Blank /\ Goto("stage")
       ELSE stage' = done /\ Goto("stage_sync")
    /\ stageDisk' = stageDisk \cup {stage'}
    /\ UNCHANGED <<logVars, plan, planDisk, receiptVars, historyVars, stops, losses>>

\* Mutant: one line more is expected than the bundle has.
AfterStageLate ==
    IF done > Size[bundle] \/ (mode = "recover" /\ done = 0) THEN Goto("clear")
    ELSE IF mode = "recover" THEN Return
    ELSE Goto("line")

\* Mutant: recovery leaves the gate of a bundle none of which was written.
AfterStageKeeps ==
    IF done = Size[bundle] THEN Goto("clear")
    ELSE IF mode = "recover" THEN Return
    ELSE Goto("line")

\* Where the holder goes once the stage is durable: append_bundle_lines writes
\* the next line or clears the gate; recovery clears the gate when nothing or
\* everything is confirmed and otherwise reports an interrupted bundle, from
\* which a resumption goes on.
AfterStage ==
    IF done = Size[bundle] \/ (mode = "recover" /\ done = 0) THEN Goto("clear")
    ELSE IF mode = "recover" THEN Return
    ELSE Goto("line")

\* ... sync it and the run directory.
SyncStage ==
    /\ pc = "stage_sync"
    /\ planDisk' = {plan}
    /\ stageDisk' = {stage}
    /\ AfterStage
    /\ UNCHANGED <<logVars, plan, stage, receiptVars, historyVars, stops, losses>>

\* clear_bundle_pending, clear_bundle_pending_after_receipt: the stage, ...
UnlinkStage ==
    /\ pc = "clear"
    /\ stage' = Absent
    /\ stageDisk' = stageDisk \cup {Absent}
    /\ Goto("clear_plan")
    /\ UNCHANGED <<logVars, plan, planDisk, receiptVars, historyVars, stops, losses>>

\* ... the plan, ...
UnlinkPlan ==
    /\ pc = "clear_plan"
    /\ plan' = Absent
    /\ planDisk' = planDisk \cup {Absent}
    /\ Goto("clear_sync")
    /\ UNCHANGED <<logVars, stage, stageDisk, receiptVars, historyVars, stops, losses>>

\* ... and the directory sync, after which an append that was not rolled back
\* and a resumption return their receipts.
SyncClear ==
    /\ pc = "clear_sync"
    /\ planDisk' = {plan}
    /\ stageDisk' = {stage}
    /\ acked' = IF mode \in {"append", "resume"} /\ job = NoJob THEN log.lines ELSE acked
    /\ Return
    /\ UNCHANGED <<logVars, plan, stage, receiptVars, seen, adopted, stops, losses>>

-----------------------------------------------------------------------------
(***************************************************************************)
(* The rollback of a line whose write or sync failed                       *)
(***************************************************************************)

\* record_rollback_intent.
RollbackIntent ==
    LET n == Len(plan.pre) + done
    IN [kind |-> "rollback", plan |-> NoPlan,
        tail |-> Upto(log.lines, n), gone |-> Rest(log, n)]

RecordRollback ==
    /\ pc = "rollback"
    /\ Proposable(RollbackIntent)
    /\ intents' = intents \cup {RollbackIntent}
    /\ job' = RollbackIntent
    /\ pc' = "truncate"
    /\ UNCHANGED <<logVars, gateVars, completed, mode, bundle, done, historyVars,
                   stops, losses>>

\* An earlier receipt ends at this offset: the session is uncertain.
RollbackRefused ==
    /\ pc = "rollback"
    /\ ~Proposable(RollbackIntent)
    /\ Return
    /\ UNCHANGED <<logVars, gateVars, receiptVars, historyVars, stops, losses>>

\* set_len, ...
Truncate ==
    /\ pc = "truncate"
    /\ log' = Cut(job.tail)
    /\ logDisk' = logDisk \cup {log'}
    /\ Goto("trunc_sync")
    /\ UNCHANGED <<gateVars, receiptVars, historyVars, stops, losses>>

\* ... sync_data.
SyncTruncation ==
    /\ pc = "trunc_sync"
    /\ logDisk' = {log}
    /\ Goto("complete")
    /\ UNCHANGED <<log, gateVars, receiptVars, historyVars, stops, losses>>

\* Mutant: a rolled back line ends the whole bundle.
AfterCompletionClears ==
    IF mode \in {"append", "resume"} THEN Goto("clear")
    ELSE IF job.kind = "rollback" THEN Return
    ELSE IF job.kind = "stage" THEN Goto("clear")
    ELSE /\ done' = Confirmed
         /\ bundle' = plan.bundle
         /\ pc' = "stage"
         /\ UNCHANGED <<mode, job>>

\* What follows the completion: a rolled back first line clears the gate, any
\* other leaves it for a resumption; recovery removes a lone stage file or
\* brings the stage up to date.
AfterCompletion ==
    IF mode \in {"append", "resume"} /\ job.kind = "rollback"
    THEN IF done = 0 THEN Goto("clear") ELSE Return
    ELSE IF job.kind = "rollback" THEN Return
    ELSE IF job.kind = "stage" THEN Goto("clear")
    ELSE /\ done' = Confirmed
         /\ bundle' = plan.bundle
         /\ pc' = "stage"
         /\ job' = NoJob
         /\ UNCHANGED mode

\* complete_rollback_intent, and the completion of a recovery.
Complete ==
    /\ pc = "complete"
    /\ completed' = completed \cup {job}
    /\ adopted' = (adopted \/ (job.kind \in {"zero", "complete"} /\ logDisk # {log}))
    /\ AfterCompletion
    /\ UNCHANGED <<logVars, gateVars, intents, acked, seen, stops, losses>>

-----------------------------------------------------------------------------
(***************************************************************************)
(* recover and recover_verification_bundle_resume                          *)
(***************************************************************************)

\* Take the lock, audit the receipts.
OpenRecovery ==
    /\ pc = "idle"
    /\ AuditOK
    /\ ReceiptsMatch(log)
    /\ ~(GateOpen /\ log.frag = 0 /\ Pending = {})
    /\ pc' = "recover"
    /\ mode' = "recover"
    /\ UNCHANGED <<logVars, gateVars, receiptVars, bundle, done, job, historyVars,
                   stops, losses>>

\* The active bundle's offset, which a pending rollback may not share.
ActiveBundle == Inspectable \/ (plan = Absent /\ stage # Absent)

\* validate_pending_bundle_recovery_context.
ContextOK(i) ==
    IF i.kind = "stage"
    THEN plan = Absent /\ stage = 0 /\ log = Cut(i.tail)
    ELSE /\ Inspectable
         /\ i.plan = plan
         /\ i.tail = log.lines
         /\ i.kind = "zero" => Confirmed = 0
         /\ i.kind = "complete" => Confirmed = Size[plan.bundle]
         /\ IF i.kind = "torn" THEN log.frag \in {i.gone.frag, 0} ELSE log.frag = 0

\* A pending intent can be carried on.
Resumable(i) ==
    /\ IF i.kind = "rollback"
       THEN /\ plan = Absent \/ Inspectable
            /\ ActiveBundle => Len(i.tail) # Len(log.lines)
       ELSE ContextOK(i)
    /\ Prefix(i.tail, log.lines)
    /\ log # Cut(i.tail) => Rest(log, Len(i.tail)) = i.gone

ResumePending ==
    /\ pc = "recover"
    /\ \E i \in Pending :
          /\ Resumable(i)
          /\ job' = i
          /\ pc' = IF log = Cut(i.tail) THEN "trunc_sync" ELSE "truncate"
    /\ UNCHANGED <<logVars, gateVars, receiptVars, mode, bundle, done, historyVars,
                   stops, losses>>

\* Part of the bundle, on a line boundary.
Interior == Inspectable /\ Confirmed \in 1 .. Size[plan.bundle] - 1

\* The intent for what recovery finds: a stage file without its plan, a torn
\* line, or all or nothing of the bundle.
Proposal ==
    [kind |-> IF plan = Absent THEN "stage"
              ELSE IF log.frag > 0 THEN "torn"
              ELSE IF Confirmed = 0 THEN "zero" ELSE "complete",
     plan |-> IF plan = Absent THEN NoPlan ELSE plan,
     tail |-> log.lines,
     gone |-> Rest(log, Len(log.lines))]

\* Such an intent is due: without its plan, only a stage of zero and a
\* complete log are accepted.
ProposalDue ==
    \/ plan = Absent /\ stage = 0 /\ log.frag = 0
    \/ Inspectable /\ (log.frag > 0 \/ ~Interior)

\* publish_bundle_recovery_receipt_locked, up to the intent.  Only a torn log
\* is truncated, and only a truncated log is synced.
PublishIntent ==
    /\ Proposable(Proposal)
    /\ intents' = intents \cup {Proposal}
    /\ job' = Proposal
    /\ pc' = IF log.frag > 0 THEN "truncate" ELSE "complete"
    /\ UNCHANGED <<completed, bundle, done>>

ProposeRecovery ==
    /\ pc = "recover"
    /\ Pending = {}
    /\ ProposalDue
    /\ PublishIntent
    /\ UNCHANGED <<logVars, gateVars, mode, historyVars, stops, losses>>

\* An interior prefix needs no receipt: the stage is rebuilt.
RebuildStage ==
    /\ done' = Confirmed
    /\ bundle' = plan.bundle
    /\ job' = NoJob
    /\ pc' = "stage"
    /\ UNCHANGED receiptVars

RecoverInterior ==
    /\ pc = "recover"
    /\ Pending = {}
    /\ Interior
    /\ log.frag = 0
    /\ RebuildStage
    /\ UNCHANGED <<logVars, gateVars, mode, historyVars, stops, losses>>

\* recover_verification_bundle_resume: only an interior prefix is resumed.
OpenResume ==
    /\ pc = "idle"
    /\ AuditOK
    /\ ReceiptsMatch(log)
    /\ Pending = {}
    /\ Interior
    /\ mode' = "resume"
    /\ IF log.frag > 0 THEN PublishIntent ELSE RebuildStage
    /\ UNCHANGED <<logVars, gateVars, historyVars, stops, losses>>

\* recover returns an error and changes nothing.
RecoveryRefused ==
    /\ pc = "recover"
    /\ \/ \E i \in Pending : ~Resumable(i)
       \/ Pending = {} /\ ProposalDue /\ ~Proposable(Proposal)
       \/ Pending = {} /\ ~ProposalDue /\ ~(Interior /\ log.frag = 0)
    /\ Return
    /\ UNCHANGED <<logVars, gateVars, receiptVars, historyVars, stops, losses>>

-----------------------------------------------------------------------------
(***************************************************************************)
(* Faults                                                                  *)
(***************************************************************************)

\* A call fails or the process is killed; whatever it did stays.
Stop ==
    /\ pc # "idle"
    /\ stops < MaxStops
    /\ stops' = stops + 1
    /\ Return
    /\ UNCHANGED <<logVars, gateVars, receiptVars, historyVars, losses>>

\* write_all or sync_data of a line fails.
FailWrite ==
    /\ pc = "line"
    /\ stops < MaxStops
    /\ stops' = stops + 1
    /\ Goto("rollback")
    /\ UNCHANGED <<logVars, gateVars, receiptVars, historyVars, losses>>

\* Power fails: log, plan and stage each come back in a state of the medium.
PowerLoss ==
    /\ losses < MaxLosses
    /\ losses' = losses + 1
    /\ \E f \in logDisk, p \in planDisk, s \in stageDisk :
          /\ log' = f /\ logDisk' = {f}
          /\ plan' = p /\ planDisk' = {p}
          /\ stage' = s /\ stageDisk' = {s}
    /\ Return
    /\ UNCHANGED <<receiptVars, historyVars, stops>>

Step ==
    \/ CreatePlan \/ WritePlan \/ CreateStage \/ WriteStageZero \/ SyncGate
    \/ WriteUnit \/ SyncLine \/ WriteStage \/ SyncStage
    \/ UnlinkStage \/ UnlinkPlan \/ SyncClear
    \/ RecordRollback \/ RollbackRefused \/ Truncate \/ SyncTruncation \/ Complete
    \/ ResumePending \/ ProposeRecovery \/ RecoverInterior \/ RecoveryRefused

Next ==
    \/ Replay
    \/ \E b \in Bundle : BeginBundle(b)
    \/ Step
    \/ OpenRecovery \/ OpenResume
    \/ Stop \/ FailWrite \/ PowerLoss

Spec == Init /\ [][Next]_vars

-----------------------------------------------------------------------------
(***************************************************************************)
(* Properties                                                              *)
(***************************************************************************)
PCs == {"idle", "plan_create", "plan_write", "stage_create", "stage_write",
        "run_sync", "line", "stage", "stage_sync", "clear", "clear_plan",
        "clear_sync", "rollback", "truncate", "trunc_sync", "complete", "recover"}

\* Every variable has its type, and what is read is a state of the medium.
TypeOK ==
    /\ log \in Log /\ logDisk \subseteq Log /\ log \in logDisk
    /\ plan \in Unwritten \cup Plan
    /\ planDisk \subseteq Unwritten \cup Plan /\ plan \in planDisk
    /\ stage \in Unwritten \cup (0 .. 3)
    /\ stageDisk \subseteq Unwritten \cup (0 .. 3) /\ stage \in stageDisk
    /\ intents \subseteq Intent /\ completed \subseteq intents
    /\ pc \in PCs /\ mode \in {"none", "append", "resume", "recover"}
    /\ bundle \in Bundle /\ done \in 0 .. 3 /\ job \in Intent \cup {NoJob}
    /\ acked \in Seq(Line) /\ seen \in Seq(Line) /\ adopted \in BOOLEAN
    /\ stops \in 0 .. MaxStops /\ losses \in 0 .. MaxLosses

\* A line that ends its bundle.
Final(line) == line[2] = Size[line[1]]

\* Each line of s continues the bundle before it or begins one after the end
\* of another.
InOrder(s) ==
    \A i \in 1 .. Len(s) :
        \/ s[i][2] = 1 /\ (i > 1 => Final(s[i - 1]))
        \/ i > 1 /\ s[i - 1] = <<s[i][1], s[i][2] - 1>>

\* No bundle is left unfinished at the end of s.
Whole(s) == s # <<>> => Final(s[Len(s)])

\* All of a bundle or nothing (append_verification_bundle_suffix and its
\* recovery): whenever neither gate file is there, or power may fail and leave
\* neither, every log the medium may hold consists of whole bundles and ends
\* with a line.  The one exception is a log that recovery has adopted without
\* syncing it.
AllOrNothing ==
    (Absent \in planDisk /\ Absent \in stageDisk /\ ~adopted) =>
        \A f \in logDisk : f.frag = 0 /\ Whole(f.lines)

\* No line of s is there twice, none is skipped, and no bundle begins behind
\* an unfinished one.
Exact(s) ==
    /\ InOrder(s)
    /\ \A i, j \in 1 .. Len(s) : s[i] = s[j] => i = j

\* resume_verification_bundle_suffix appends exactly what is missing: in every
\* log the medium may hold no line is there twice, none is skipped, and no
\* bundle begins behind an unfinished one.
ResumedExactly == \A f \in logDisk : Exact(f.lines)

\* The events of a bundle whose append or resumption returned its receipts
\* stay in the log, whatever rollbacks and recoveries of later bundles follow.
AcknowledgedBundles == \A f \in logDisk : Prefix(acked, f.lines)

\* What a session or a reader replayed through the open gate is never taken
\* back, unless such a log was adopted.
ReplayedStable == adopted \/ \A f \in logDisk : Prefix(seen, f.lines)

\* Whatever was reported, by a receipt or by a replay, stays.
ReportedStable == AcknowledgedBundles /\ ReplayedStable

\* The receipts never contradict each other, and never the log that a power
\* failure leaves, unless a log was adopted: recovery_audit and
\* validate_completed_receipts pass, so that recovery is never locked out by
\* its own records.
ReceiptsConsistent == AuditOK /\ (adopted \/ \A f \in logDisk : ReceiptsMatch(f))

\* docs/adr/0021, section 8: "A bundle append commits each event and its
\* in-memory aggregate stage only after that line is durable".  Whenever the
\* gate is open, the log is durable.
CommittedDurable == (pc = "idle" /\ GateOpen) => logDisk = {log}

\* Fairness: the holder of the lock goes on, and somebody runs recovery and
\* resumes what recovery reports as interrupted.
FairSpec ==
    /\ Spec
    /\ WF_vars(Step)
    /\ SF_vars(OpenRecovery)
    /\ SF_vars(OpenResume)

\* With one failed call or kill, and no power failure, an interrupted bundle
\* is always finished or removed, and the gate opens again.
BundleSettles ==
    [](losses = 0 /\ stops <= 1) => (plan \in Plan ~> GateOpen)

-----------------------------------------------------------------------------
(***************************************************************************)
(* The inductive invariant                                                 *)
(*                                                                         *)
(* A log that contradicts a completed receipt is dead: no operation goes   *)
(* past the audit with it.  What the code relies on holds for the others.  *)
(***************************************************************************)

\* f is the log that p was planned on, followed by lines of its bundle.
Fits(p, f) ==
    LET n == Len(p.pre)
    IN  /\ n <= Len(f.lines) /\ Len(f.lines) <= n + Size[p.bundle]
        /\ \A k \in 1 .. n : f.lines[k] = p.pre[k]
        /\ \A k \in n + 1 .. Len(f.lines) : f.lines[k] = <<p.bundle, k - n>>
        /\ Len(f.lines) = n + Size[p.bundle] => f.frag = 0

\* No line of s belongs to b.
NewTo(b, s) == \A i \in 1 .. Len(s) : s[i][1] # b

\* Power may fail now: the log keeps its lines, and they are whole bundles.
Sealed ==
    \A f \in logDisk : ReceiptsMatch(f) =>
        f.lines = log.lines /\ Whole(f.lines) /\ (adopted \/ f.frag = 0)

\* Whatever somebody relies on is in s.
Kept(s) ==
    /\ Prefix(acked, s)
    /\ adopted \/ Prefix(seen, s)
    /\ \A i \in completed : Prefix(i.tail, s)

\* The same for the first n lines of the log.
KeptBelow(n) ==
    /\ Len(acked) <= n
    /\ adopted \/ Len(seen) <= n
    /\ \A i \in completed : Len(i.tail) <= n

\* A plan that may be found was made on a log of whole bundles without its
\* own, and fits every log that may be found with it; where no written plan
\* may be found, the log may be left as it is.
PlanInv ==
    /\ \A p \in planDisk \cap Plan :
          /\ Whole(p.pre) /\ NewTo(p.bundle, p.pre)
          /\ \A f \in logDisk : ReceiptsMatch(f) => Fits(p, f)
    /\ planDisk \cap Unwritten # {} => Sealed

\* A rollback cuts behind the log its bundle was planned on.
CutInv(i) ==
    i.kind = "rollback" =>
        planDisk = {plan} /\ plan \in Plan /\ Fits(plan, Cut(i.tail))

\* A pending intent discards nothing that somebody relies on, and only a
\* pending rollback leaves longer logs than the present one on the medium.
PendingInv ==
    /\ \A i \in Pending : Kept(i.tail) /\ CutInv(i)
    /\ (\A i \in Pending : i.kind # "rollback") =>
          \A f \in logDisk : ReceiptsMatch(f) => Len(f.lines) <= Len(log.lines)

PlanPCs == {"plan_create", "plan_write", "stage_create", "stage_write", "run_sync"}
LinePCs == {"line", "rollback"}
StagePCs == {"stage", "stage_sync"}
ClearPCs == {"clear", "clear_plan", "clear_sync"}
JobPCs == {"truncate", "trunc_sync", "complete"}

\* publish_bundle_pending has changed nothing but the gate.
PlanningInv ==
    pc \in PlanPCs =>
        /\ mode = "append" /\ done = 0 /\ log.frag = 0
        /\ pc \in {"plan_create", "plan_write"} =>
              Sealed /\ NewTo(bundle, log.lines) /\ Whole(log.lines)
        /\ pc \notin {"plan_create", "plan_write"} =>
              plan = [bundle |-> bundle, pre |-> log.lines]

\* append_bundle_lines is at the line after those it has confirmed.
LineInv ==
    pc \in LinePCs =>
        LET n == Len(plan.pre) + done
        IN  /\ mode \in {"append", "resume"}
            /\ planDisk = {plan} /\ plan \in Plan /\ plan.bundle = bundle
            /\ done < Size[bundle]
            /\ Len(log.lines) = n \/ (Len(log.lines) = n + 1 /\ log.frag = 0)
            /\ KeptBelow(n)

\* The stage is written for what the log confirms, and the gate is removed
\* only from a log that may be left as it is.
StageInv ==
    pc \in StagePCs =>
        /\ mode # "none"
        /\ plan \in Plan /\ plan.bundle = bundle
        /\ Len(log.lines) = Len(plan.pre) + done /\ log.frag = 0
        /\ done = Size[bundle] \/ (mode = "recover" /\ done = 0) => Sealed
        /\ mode # "recover" /\ done = Size[bundle] => logDisk = {log}

ClearInv ==
    pc \in ClearPCs =>
        /\ Sealed
        /\ mode \in {"append", "resume"} => logDisk = {log}
        /\ pc = "clear_sync" => plan = Absent

\* The intent in hand is on record and fits what is on disk.
JobInv ==
    pc \in JobPCs =>
        /\ job \in intents /\ Pending \subseteq {job}
        /\ Kept(job.tail) /\ CutInv(job)
        /\ mode \in {"append", "resume", "recover"}
        /\ IF job.kind = "rollback"
           THEN /\ Prefix(job.tail, log.lines)
                /\ job \in Pending
                /\ mode # "recover" /\ done = 0 => Len(job.tail) = Len(plan.pre)
           ELSE log.lines = job.tail
        /\ job.kind = "stage" => plan = Absent /\ mode = "recover"
        /\ job.kind \in {"torn", "zero", "complete"} =>
              /\ plan \in Plan /\ mode # "append"
              /\ job.kind = "zero" => Confirmed = 0
              /\ job.kind = "complete" => Confirmed = Size[plan.bundle]
              /\ mode = "resume" => Confirmed \in 1 .. Size[plan.bundle] - 1
        /\ pc \in {"trunc_sync", "complete"} => log = Cut(job.tail)
        /\ pc = "complete" /\ job.kind \in {"torn", "rollback"} => logDisk = {log}

\* Only a log that passed the audit is worked on, and only recovery starts
\* with an intent pending.
HolderInv ==
    /\ pc = "idle" => mode = "none" /\ job = NoJob /\ done = 0
    /\ pc = "recover" => mode = "recover"
    /\ pc # "idle" => ReceiptsMatch(log)
    /\ pc \in PlanPCs \cup LinePCs \cup StagePCs \cup ClearPCs => Pending = {}

\* The inductive invariant.
IInv ==
    /\ TypeOK
    /\ ResumedExactly /\ ReportedStable /\ ReceiptsConsistent
    /\ PlanInv /\ PendingInv
    /\ HolderInv /\ PlanningInv /\ LineInv /\ StageInv /\ ClearInv /\ JobInv

=============================================================================
