# A TLA+ verification of ReviewGraphen's durable core

ReviewGraphen reviews source changes and keeps everything it decides in an
append-only, hash-chained event log, one per run, on the local disk, next to a
content-addressed store for the bytes the events refer to.  The log is the only
authority: obligations, plans, executions, claims, verifications and reports
are replayed from it.  What can be wrong in such a program and is hard to test
is what happens when a call fails, a process is killed or the machine loses
power between two calls, and when two processes do this at the same time.
This project models that code, checks it with TLC and proves the main results
with TLAPS.

## 1. The system

### Inventory

| part | source (below `crates/`) | state | operations | what makes it correct | module |
|---|---|---|---|---|---|
| event journal | `reviewgraphen-store/src/journal.rs` | `events.jsonl`, `append.pending`, `recovery/intents`, `recovery/completions`, the flock on the log, the writer's offset | open for reading or writing, append a batch, roll back, recover | acknowledged and observed events stay; every truncation is on record; a closed journal can be reopened | `Journal` |
| content-addressed store | `reviewgraphen-store/src/lib.rs` | `artifacts/sha256/<prefix>/<hash>`, `artifacts/tmp`, the flock on each staging file | `put`, `read`, `gc_tmp` | a key names its bytes or nothing; objects are never replaced; the collector never disturbs a writer | `Cas` |
| durable attempt | `reviewgraphen-runtime/src/durable.rs` | the replayed session; through it journal and store | `run_fresh_fake_attempt`, `resume_fake_attempt` | the reviewer is asked at most once per attempt with durable progress; executions come from registered output | `Attempt` |
| verification bundle | `journal.rs` (`append_verification_bundle_suffix`), `core/src/m4.rs`, `runtime/src/m4_verification.rs` | the plan file, the stage file, the log, the recovery receipts | append several events as one, roll back, recover, resume | all of the bundle or none; a resumption writes exactly what is missing | `Bundle` (V3) |
| V4 bootstrap, keyed recovery | `journal.rs` | the name of the log, its first line, recovery keys | publish, inspect, recover | a run exists entirely or not at all; an old key changes nothing | `Keyed` (V5 is not modelled) |
| event log and replay | `core/src/event.rs`, `canonical.rs`, `id.rs` | the hash chain | stage, append, replay | replay accepts what a session wrote and gives the same state | `Assessment` has the V3 records; the chain itself is abstracted |
| review aggregate | `core/src/review.rs` | obligations, claims, evidence, bindings, verifications, decisions, findings | one per event kind | no accepted claim without its chain of evidence | `Attempt` (executions), `Assessment` (V3 claims) |
| incremental staleness | `core/src/m6.rs` | links between snapshots | invalidate, carry over | nothing stale counts as current | planned |
| planning, coverage, gluing | `core/src/planning.rs`, `coverage.rs`, `m5.rs` | none (pure) | build waves, count, glue local sections | agree with their definition | planned |
| derived index, reports | `store/src/index*.rs`, `report/src/report_v*.rs` | the active image, candidates, two locks | rebuild, read, two-pass report | an image older than the log is refused; publication is atomic | `Index` |
| artifact root | `cli/src/artifact_root.rs` | held descriptors, files created so far | publish, unwind | never removes or follows what it did not create | planned |
| contexts, program space, synthesis, profiles | `core/src/context.rs`, `program.rs`, `synthesize.rs`, ... | none | build and validate records | byte-level and data-driven | not modelled |
| generic runtime, verifier, reviewer protocol | `runtime/src/generic*`, `verifier`, `reviewer` | none of their own | sequential pipelines, parsing | durable steps are those above | not modelled |
| ingestion, report formats, command line, benchmark | `ingest`, `report`, `cli/src/lib.rs`, `benchmark` | none | parse, format | sequential | not modelled |

### How the parts interact

A command opens a *session*: it takes the exclusive lock on the run's journal,
refuses to go on if `append.pending` or a pending recovery receipt is found,
replays the whole log into an aggregate in memory and keeps the lock.  A change
is first staged on a copy of that aggregate, then appended to the journal, then
committed to memory.  An append whose outcome is unknown makes the session
useless; somebody has to run recovery and open a new one.  Bytes too large for
an event go to the content-addressed store before the event that names them is
appended.  The store is shared by all runs and has no lock of its own: it
relies on create-only links and on one flock per staging file.

### What is hard

* The log is appended in place and truncated in place.  Only the order of
  marker, write, sync, receipt, truncation and unlink makes this safe.
* `fsync` of a file, of its directory and of the directory above are three
  different calls, and between any two of them power may fail.
* Reader, writer, recovery and collector are different processes.
* A retry starts from whatever the previous try left.
* An attempt is four durable steps in two stores, and any may be the last.

`PROJECT.json` lists the hazards one by one, with the line where each bites and
the properties that would catch it.

## 2. The models

### `Journal`: the log of one run

Bytes are abstracted to two units per line, the body and the newline, so that a
file of odd length is torn; a hash is the bytes it was computed over.  For each
thing on disk there are two variables: what every process sees (`file`,
`marker`, `intents`, `completions`) and what power failure may leave (`disk`
and `markerDisk` are sets of possible contents; `intentsDisk` and
`completionsDisk` are what cannot be lost).  A sync makes the second equal to
the first.  The exclusive holder of the lock is one program counter.

| actions | code |
|---|---|
| `OpenReader`, `OpenWriter`, `OpenRefused` | `reader_with_limits`, `writer_locked`, `refuse_pending_markers` |
| `BeginAppend`, `CreateMarker`, `WriteMarker`, `SyncMarker`, `MarkerExists` | the checks of `append_batch`, then `record_append_marker` |
| `WriteUnit`, `SyncLog` | `write_candidate` |
| `RecordRollbackIntent`, `SyncIntent`, `Truncate`, `SyncTruncation`, `LinkCompletion`, `SyncCompletion`, `RollbackRefused` | the error path of `append_batch` |
| `UnlinkMarker`, `SyncUnlink`, `NoUnlink` | `clear_append_marker`, `clear_append_marker_if_present` |
| `OpenRecovery`, `ResumePending`, `SyncMarkedLog`, `ProposeRecovery`, `RecoveryRefused` | `recover`, `recover_with_locked_file` |
| `FailMarker`, `FailWrite`, `FailCall`, `Crash`, `PowerLoss` | every `?` of the above, a kill, a power failure |

`EventStream` is what the journal promises, without bytes, markers or receipts:
a stream that grows at its end, of which a reported prefix is kept for ever.
`ImplementsStream` maps the complete lines of `file` to its log, those of
`disk` to the logs that may survive, and `acked` or `seen`, whichever is
longer, to what is kept.

### `Bundle`: several events as one

The same lock, log and receipts, but another gate: a plan file that names the
log it was made on and a stage file that counts confirmed lines.  A line takes
three units, so that it can be cut off in two places.  The steps of
`append_verification_bundle_suffix` are `BeginBundle`, `CreatePlan` to
`SyncGate`, then `WriteUnit`, `SyncLine`, `WriteStage`, `SyncStage` for each
line, then `UnlinkStage`, `UnlinkPlan`, `SyncClear`.  Its error path is
`RecordRollback` to `Complete`.  `ResumePending`, `ProposeRecovery`,
`RebuildStage` and `RecoverInterior` are the cases of
`recover_with_locked_file`: torn, nothing confirmed, already complete, stage
only, and a bundle cut off inside, which recovery leaves for `OpenResume`
(`resume_verification_bundle_suffix`).  `Stop` is a failed call or a kill.  The
variable `adopted` remembers that recovery accepted a log without syncing it;
the properties that rest on durability say so, and the run `committed_durable`
shows what follows from it.

### `Keyed`: the log of a V4 run

`Keyed` extends `Journal`: appends, rollbacks, readers and faults are the same
actions.  It adds the birth of the log (`Stage`, `Link`, `SyncLink`,
`Published`, where the log has its bytes before it has its name), and replaces
`recover` by inspection and keyed recovery.  `key` is the one-shot key the caller
holds, possibly for long; `KeyMatches` compares it with the disk under the
locks.  `Tail...` are the steps of `recover_replayed_v4_session`.  `told` is what
the caller of the bootstrap was told, so that a verdict can be compared with
what happens afterwards: `"not_committed"` is the error of `publish_new_v4`,
`"absent"` the verdict of `recover_new_v4`.  `PublishError` gives the error of each
failed call: before the link it is `GenesisNotCommittedV4` whether or not the run
has a log already, so `stood` remembers if there was one when the publication
began.

### `Assessment`: what a claim rests on

The state of `ClaimAssessmentV3` and every operation that changes it
(`RecordBinding`, `RecordVerification`, `RecordDecision`, `RecordFinding`, with
`InvalidateTrace`), the admission rules of the V3 log, and a session that opens
by replay.  A decision, finding or bundle is minted as a token on one state of
the log and appended later (`Mint...`, `AppendToken`), by which time other
events may have been appended; `minted` remembers when each event was minted, and
`trail` the aggregate its writer had in memory.  A bundle may stop after any line and is completed by the next session.

### `Index`: the derived index and the reports

Two runs with different contracts share one `indexes/` directory.  A rebuild
takes `index.lock`, audits leftover candidates, takes the locks of the log, and
publishes by sync, link, sync, rename, sync; `disk` is the set of directories a
power failure may leave.  Only then does `verify_unchanged` look at the lock once
more (`Verified`); it may fail too.  `Answers` says what the caller is told of a
failed call: `PublicationDurabilityUncertain` between the rename and the last
sync, an ordinary error before and after.  For schema 3 `rebuild` calls
`verify_unchanged` after a failed publication as well and returns its error
instead, so both answers are possible there.  The audit counts candidates and
their bytes (`Admits`); `Size` gives the bytes of an image.  A read validates the image against the log and
visits it.  A report validates a snapshot, compares it with the log once more
(`Recheck`) and visits it twice, taking its locks anew for each pass; only a
snapshot of schema 5 keeps the lock on the index in between.  `AppendEvent` lets
the log move on whenever nobody holds its lock.

### `Cas`: the content-addressed store

A hash stands for the bytes it names and `Junk` for any other content.  An
inode is created anonymous, locked and only then named, so creation is one
step; after that each system call of `put` and each step of `gc_tmp` is an
action.  `dirs`/`dirsDisk` are the prefix directories, `entry`/`entryDisk` the
names in them, `data`/`synced` the bytes of the inodes, `tmp`/`tmpDisk` the
staging names.  `Age` lets any staging file become old at any time, so that no
property rests on `min_tmp_gc_age`.  In the sources read, `gc_tmp` is called
by tests only; the model lets it run at any time and claims no progress for it.

### `Attempt`: one reviewer attempt made durable

Several runs share one store; each has one obligation and a journal seen from
outside: an append succeeds, fails with nothing written, or is uncertain (the
event may or may not be found by recovery).  `log` is what the journal holds
and `view` what the open session has in memory.  `Begin...`, `Review`, `Put`
and `Append` are the steps of `run_fresh_fake_attempt` and
`resume_fake_attempt`; `FakeAttemptState` and `RecordAdmitted` are translated
from the aggregate.  `Withdraw` stands for the other legal lifecycle steps out
of `in_progress` and `completed`, taken by another session.  Power failures are left
to the other two modules: the model assumes what they establish about
registered objects and acknowledged events.

## 3. Runs

All runs use a few model values; symmetry is used for values that are
interchangeable (inodes, writers, keys, runs), never with a liveness property.
Deadlock is checked for `assessment`.  Elsewhere it is not: the system may stop,
and the bounded supplies of faults, nonces, inodes and operations end every
behaviour.

| run | instance | checks |
|---|---|---|
| `journal` | 2 events, at most 3 in the log, batches of up to 2, 1 reader, 3 nonces, 4 receipts, 3 faults, with fairness | `AcknowledgedDurable`, `ObservedStable`, `ReceiptsConsistent`, `RoomToRecover`, `ReceiptedTruncation`, `ImplementsStream`, `GateReopens`, `IInv` |
| `cas` | 2 keys in one prefix, 2 inodes, 2 writers, the collector, 2 faults | `NeverCorrupted`, `ReceiptsTrue`, `InFlightProtected`, `ObjectsImmutable`, `IInv` |
| `attempt` | 2 runs, 2 attempts, output of its own per attempt or shared malformed output, 2 faults | `NeverReinvoked`, `NeverAmbiguous`, `RecordedFromRegistered`, `IInv` |
| `attempt_settles` | 1 run, 2 attempts in order, 2 faults, with fairness | `ResumeSettles` |
| `bundle` | a bundle of 3 lines and one of 1, 2 failed calls or kills, 1 power failure, with fairness | `AllOrNothing`, `ResumedExactly`, `ReportedStable`, `ReceiptsConsistent`, `BundleSettles`, `IInv` |
| `assessment` | 1 claim, 3 verifier runs (reproducing, static, without evidence), 2 humans, 7 events, 2 tokens | `AcceptedRestsOnLog`, `StandingMatchesLog`, `CurrentFindingExact`, `DecisionSawItsClosure`, `ReplayNeverRefuses`, `SessionIsCurrent`, `IInv` |
| `index` | 2 processes, 2 runs (schemas 4 and 5), 2 events, 3 operations, 1 candidate of 1 byte allowed and images of 1 and 2 bytes, 1 fault, 1 power failure, with fairness | `ReadsAreCurrent`, `PublicationAtomic`, `CandidatesStayBounded`, `OperationsReturn`, `IInv` |
| `keyed` | 2 events, at most 3 in the log, 1 reader, 2 nonces, 2 faults, with fairness | `PublishedStays`, `NotCommittedIsFinal`, `TailReopens`, `IInvV4` |

Why the bounds are enough to be interesting.  Three faults let an append fail,
its rollback be cut off and the recovery be cut off as well; a batch of two
lets a crash keep a whole first line and a torn second one; four receipts are
two complete recoveries, so the limit is met.  Two writers and two inodes give
every race between publications, and one prefix directory makes them share it;
the collector meets an abandoned and a leased file.  Two runs are what it takes
to see the shared store, two attempts to see their order.  A bundle of three
lines has an interior on both sides, and a second bundle meets the receipts of
the first.  Seven events are a claim with all its records, a decision, a finding
and one event too late; claims are independent of each other, so one is enough.
Three operations are a rebuild, a report that spans it and a second rebuild;
one candidate is the least limit that admits any, and of the two images one is
within the limit of bytes and one beyond, so that audits pass and refuse.  Schema
3, which differs in `Answers` and in its locks, is left to the proofs.  In `keyed`, two
faults cut off a publication or an append and then its recovery.

Fairness.  `GateReopens` assumes that the process with the lock goes on unless
it is killed, that readers close, and that somebody runs recovery; the code
blocks on nothing else while it holds the lock.  It is about behaviours with at
most one fault: with more, the states under "Disagreements" and "Observations"
are reached.  `ResumeSettles` assumes the same of a call that has begun, that
the caller reopens the session, and, strongly, that it resumes each attempt
again and again.  `BundleSettles` and `TailReopens` assume that the holder of the
lock goes on, and, strongly, that recovery and resumption (inspection and keyed
recovery) are run again and again even though others take the lock in between.
Nothing retries by itself in the code, so these are assumptions about the
caller and are stated as such.  `OperationsReturn` assumes only that each process
runs on when its lock is free; with finitely many operations the question of
starvation by `flock` does not arise.

### Disagreements with the documentation

Each is a run that checks what a document, a comment or an error message says,
and finds it violated.  `PROJECT.json` quotes the text.

| run | what happens |
|---|---|
| `marked_log_recovers` | A marker left behind by a completed rollback or recovery sits on an offset that already has a receipt.  The next recovery proposes that offset again and is refused, for ever. |
| `fresh_receipts_survive` | Only the creator of a prefix directory syncs its parent.  A second writer publishes into it and returns `existed: false` for an object that a power failure can take. |
| `committed_durable` | Recovery of a bundle whose last line was written and not synced calls it complete and opens the gate without a sync.  Sessions replay events that a power failure can still take. |
| `tail_recovery_editable` | Keyed recovery removes the marker and only then meets the pending intent of an interrupted rollback, which it does not complete.  It returns an error, and no operation of a V4 run completes the intent later. |

### Observations

Seen while modelling, within what the documents allow or say nothing of.

* A rollback intent records the hash of bytes that were never synced.  If power
  fails before the truncation, fewer of them may come back, and the intent can
  never be resumed.
* `append.pending` and the plan file are created before they are written.  A
  kill in between leaves an empty file that every operation calls corrupt.
* `existed: true` is returned for an object whose link another writer has not
  synced.
* Attempt 2 may be registered before attempt 1 is recorded; once attempt 1 has
  completed the obligation, attempt 2 is never recorded.  `ResumeSettles` is
  therefore about callers that keep the order.
* The orphan check of an attempt looks at the shared store, so output that
  another run registered counts as unregistered here.
* A Defer or Exception decision clears the current finding, and a finding that
  would say the same as the last one is refused as redundant; it can be
  re-recorded only after something else changes.
* A stage file without a plan that says anything but 0 is refused by every
  operation, and so is a rollback intent pending at the offset of an active
  bundle.
* Keyed recovery of a log that is complete does not sync it before it removes the
  marker, and `recover_new_v4` reports a committed genesis without syncing the
  run directory.
* `publish_new_v4` does not look for a log before its `linkat`.  Published again, a
  run whose log is durable gets `ReceiptCorruption` if everything before the link
  works, and `GenesisNotCommittedV4` if anything fails.  The comment on
  `publish_initial_log_v4` ("Before link publication every failure is
  known-not-committed", journal.rs:11034) is true of the attempt, not of the run;
  only inspection and `recover_new_v4` tell which.
* `verify_unchanged` runs after a rebuild has published for good, and its failure is
  returned as an ordinary error: the caller of a rebuild that "failed" may find
  the new image active.  In the index of schema 3 (index.rs:566) the same call can
  replace `PublicationDurabilityUncertain`, which ADR 0015 (lines 575-579)
  prescribes after the rename, so there an ordinary error does not even say that
  the outcome is settled.
* `max_tmp_gc_scan_bytes` and `max_tmp_gc_entries` are not related to the size of an
  image by `IndexLimits::validate`.  If the scan limit is below the size of an
  image, or no entry is allowed, one rebuild cut off between link and rename makes
  every later read and rebuild return `Incomplete`, and nothing in the program
  removes the candidate.

## 4. Proofs

Every invariant and every action property that a run checks is also a theorem,
for all values of the constants: any number of processes, events, claims,
bundles and faults.  The runs check the same inductive invariants (`IInv`,
`IInvV4`) on their instances.  The theorems assume only the named `ASSUME`s: the
special values are distinct from the ordinary ones, limits are natural numbers,
a bundle has one to three events, the structured outputs are outputs, grants
are pairs of a human and an outcome.

| module | theorems about | properties proved, besides the inductive invariant |
|---|---|---|
| `JournalProofs` | `Journal` | `AcknowledgedDurable`, `ObservedStable`, `ReceiptsConsistent`, `RoomToRecover`, `ReceiptedTruncation` |
| `StreamProofs` | `Journal`, `EventStream` | `ImplementsStream` |
| `BundleProofs` | `Bundle` | `AllOrNothing`, `ResumedExactly`, `ReportedStable`, `ReceiptsConsistent` |
| `KeyedProofs` | `Keyed` | `PublishedStays`, `NotCommittedIsFinal` |
| `CasProofs` | `Cas` | `NeverCorrupted`, `ReceiptsTrue`, `InFlightProtected`, `ObjectsImmutable` |
| `AttemptProofs` | `Attempt` | `NeverReinvoked`, `NeverAmbiguous`, `RecordedFromRegistered` |
| `AssessmentProofs` | `Assessment` | `AcceptedRestsOnLog`, `StandingMatchesLog`, `CurrentFindingExact`, `DecisionSawItsClosure`, `ReplayNeverRefuses`, `SessionIsCurrent` |
| `IndexProofs` | `Index` | `ReadsAreCurrent`, `PublicationAtomic`, `CandidatesStayBounded` |

Each module has lemmas about the operators of its model, then one lemma per
action that the action preserves the inductive invariant, then the theorems.

**`JournalProofs`.**  That an acknowledged event is in every log the medium may
hold is not inductive: a power failure may choose any of them and a rollback
cuts at an offset fixed earlier.  The invariant `IInv` therefore adds that every
prefix somebody relies on (a caller, a reader, a completed receipt) lies below
the offset of any open intent and of the append in progress (`StableInv`); that
without a durable marker the log is durable (`UngatedLogDurable`); that at most
one intent lacks a durable completion (`ReceiptInv`); and what the holder of the
lock knows at each step (`WriterInv`, `JobInv`).  From it follow
`AcknowledgedAreDurable`, `ObservedAreStable`, `GateIsSound`,
`ReceiptsMatchAlways`, `AuditPasses`, `CompletionChecks` (together
`ReceiptsAreConsistent`) and the action property `TruncationIsReceipted`.
`AlwaysRoomToRecover` is an invariant of its own, `RoomInv`, relative to `IInv`:
the receipt directories are finite, an append has room for two receipts until
its rollback publishes the first, and for one from then on.  It counts receipts
with the cardinality theorems of `FiniteSetTheorems`.

**`StreamProofs`.**  `JournalImplementsStream`: under `IInv`, every step of the
journal is a step of `EventStream` or leaves its three variables alone.  Lemmas
about complete lines carry the argument: writing a body unit changes nothing,
writing a newline adds one event, a truncation lands at or above what was
reported (`StableInv`), and a report happens only when the log is durable.

**`BundleProofs`.**  A log that contradicts a completed receipt is dead: it
fails the audit with which every operation begins, so the invariant speaks of
the others.  `PlanInv` says what each gate file may be found with: a written
plan fits every live log (`Fits`: the log it was made on, then lines of its
bundle in order), and where no plan may be found, all live logs have the lines
of the present one, which are whole bundles (`Sealed`).  `PendingInv` puts
everything somebody relies on below the cut of a pending intent, and says that
only a pending rollback leaves longer logs behind than the present one; this is
what makes the adoption of an unsynced log by recovery harmless for order and
completeness (`ResumptionsAreExact` has no exception for it), although not for
durability.  `PlanningInv`, `LineInv`, `StageInv`, `ClearInv` and `JobInv` say what
the holder knows at each step: the gate is removed from a sealed log only, and
a receipt is returned only for a synced one.

**`KeyedProofs`.**  `UngatedLogDurable` does not hold here: keyed recovery removes
the marker of a complete log without a sync.  The invariant therefore has two
other anchors.  `KeptInv`: the first line and the acknowledged events are in
every log that may be found under the run's name, and below whatever a writer
may cut.  `NameInv`: everybody who relies on the name (an intent, an
acknowledgement, a session about to open, a writer past its first directory
sync) does so after the name became durable.  `NotCommittedStaysFinal` holds
because the verdict is given under the lock with no name on the medium: by
`recover_new_v4` after it has looked, by a publication that found no log before
it gave the log a name.

**`CasProofs`.**  The argument is about leases: a writer holds the lock on its
inode from before it has a name until it returns, and every lock belongs to
one writer or to the collector (`LeaseInv`).  Hence an inode still being staged
is named by no key and by no other writer (`PutInv`), so what is published was
hashed and synced (`TreeInv`).  `ObjectsAreWhole`, `LeasesProtect`,
`ReceiptsAreTrue`, `SweepsAreComplete` and `ObjectsStay` follow.  Note what
`ReceiptsTrue` says and what it does not: a fresh receipt means that the entry
is durable in its prefix directory, not that the directory is durable in its
parent; the violation runs are about that difference.

**`AttemptProofs`.**  An open session knows the whole log (`ViewInv`), which is
why an uncertain append has to end it, and a call that has asked the reviewer
works on an attempt with no registration and no execution (`CallInv`).  Hence
registrations are unique (`UniqueInv`) and the other properties follow, among
them the action property `ReviewersAskedOnce`.

**`AssessmentProofs`.**  The invariant has a part about the log, whoever wrote it,
and a part about the session.  `ChainInv`: each event was admitted by the rules at
its place, and minted there; `ClaimInv`: the aggregate at the end of the log holds
exactly the records the log has of each claim, a decision in force still has
exactly its sources, and the standing and the current finding are what the
events say.  The session adds that its aggregate is one the log passed through
(`SessionIsCurrent`), and that an interrupted bundle lacks a tail of its lines, of
which the rules admit the next (`PlanInv`), without which replay and completion
could be refused.  The six theorems follow, `AcceptanceRestsOnTheLog` from the
standing, the sources and the grants together.

**`IndexProofs`.**  Again leases: a rebuild has `index.lock` to itself from its audit
to its end, and whoever compares an image with a log holds the log's lock
(`LeaseInv`).  A file gets its name after its bytes are durable (`FileInv`), at
most one candidate exists now or after a power failure (`CandidateInv`), and
operations are told apart by numbers, so that an operation can have replaced the
image only if it came to the steps after its rename (`NumberInv`).  From there
`ErrorsAreDecided` follows: an ordinary error comes from before the rename, or from
`verify_unchanged` when every directory the medium may hold has the new image.
`AuditsTakeOneCandidate` adds up the bytes of the one candidate with the
cardinality theorems and makes no assumption on the limits.

Only model-checked: the liveness properties `GateReopens`, `ResumeSettles`,
`BundleSettles`, `OperationsReturn` and `TailReopens`.  They rest on fairness and
`ENABLED`, which the prover does not handle.  The four disagreements are
counterexamples, found by TLC.

## 5. What is not modelled

The repository is large, and most of it decides from the bytes of one record
whether that record is well formed.  `event.rs`, `m6.rs`, `context.rs` and the
record halves of `m4.rs` and `m5.rs` consist of constructors, canonical
encoders, decoders and their validation, repeated for each version of the
event contract, and of unit tests beside them; the index modules consist mainly
of SQL text and row conversion.  This code has neither interleavings nor a
state that outlives a call, and its properties are about data that a model
would have to copy.  The project therefore covers the durable protocols and
the decisions taken from replayed state, which is a small share of the lines.

In the journal: publication of a V5 target predecessor, the bundle resumption of
a V4 run, byte limits (only the number of events and of receipts), and complete
but invalid lines, which no operation of the store writes.  In the store: the
creation of the three outer directories, foreign files, changed modes and
symbolic links, which the code refuses.  In the attempt: byte accounting,
request construction and parsing; a V3 registration, which this path refuses.
In the assessment: timestamps, memory budgets, registration of inputs.  In the
index: the projections and `index_v6.rs`.  Of the rest, incremental staleness,
planning, coverage and gluing are pure functions, and the artifact root is one
process against directories that others may rename; `PROJECT.json` gives the
reason for each part.

## 6. Plan

1. Refinements: `Keyed` as an implementation of `EventStream` once its name is
   durable, and `Bundle` as one of a stream that grows by whole bundles.
2. `ArtifactRoot`: publication and unwinding against concurrent renames.
3. Planning, coverage and gluing as functions against reference definitions.
