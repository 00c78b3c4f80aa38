-------------------------------- MODULE Keyed --------------------------------
(***************************************************************************)
(* A V4 run (crates/reviewgraphen-store/src/journal.rs): its log is        *)
(* created by EventJournal::publish_new_v4, appended to by the protocol of *)
(* Journal, and repaired by keyed recovery instead of RunJournal::recover, *)
(* which refuses V4.  An inspection returns a key that seals the bytes and *)
(* the marker it saw; recovery checks the key again under the locks before *)
(* it changes anything.  The process that holds the exclusive lock on the  *)
(* store root, the run and the log is Journal's holder.                    *)
(*                                                                         *)
(* What the code does about a log with no complete line is left out: the   *)
(* log is synced before it gets its name, which PublishedStays shows.      *)
(* Markers of verification bundles are the subject of Bundle.              *)
(***************************************************************************)
EXTENDS Journal

CONSTANTS
    NoKey,       \* the caller holds no recovery key
    NoLog        \* pre_recovery_file_hash = None

VARIABLES
    linked,      \* events.jsonl has its name in the run directory
    linkDisk,    \* whether it may have it after a power failure
    key,         \* the RecoveryKeyV4 the caller holds, or NoKey
    told,        \* what the caller of the bootstrap was last told
    stood        \* events.jsonl had its name when the last publication began

keyedVars == <<linked, linkDisk, key, told, stood>>
allVars == <<vars, keyedVars>>

ASSUME NoLogAssumption == NoLog \notin Seq(Unit)

Key == [kind : {"genesis", "tail"}, file : Seq(Unit) \cup {NoLog},
        marker : {"absent", "present"}]

ASSUME NoKeyAssumption == NoKey \notin Key

FirstLine == Lines(<<Genesis>>)

InitV4 ==
    /\ file = <<>> /\ disk = {<<>>}
    /\ marker = "absent" /\ markerDisk = {"absent"}
    /\ intents = {} /\ intentsDisk = {}
    /\ completions = {} /\ completionsDisk = {}
    /\ holder = "none" /\ readers = {} /\ pc = "idle"
    /\ batch = <<>> /\ confirmed = 0 /\ job = NoIntent
    /\ acked = <<>> /\ seen = <<>> /\ faults = 0
    /\ linked = FALSE /\ linkDisk = {FALSE}
    /\ key = NoKey /\ told = "nothing" /\ stood = FALSE

\* acquire_v4_root_lock and acquire_v4_run_lock: nobody has a session.
Unlocked == holder = "none" /\ readers = {}

-----------------------------------------------------------------------------
(***************************************************************************)
(* EventJournal::publish_new_v4                                            *)
(***************************************************************************)

\* Take the locks and publish the genesis object and the directories.
BeginPublish ==
    /\ Unlocked
    /\ holder' = "publisher"
    /\ pc' = "stage"
    /\ told' = "nothing"
    /\ stood' = linked
    /\ UNCHANGED <<logVars, markerVars, receiptVars, readers, writerVars,
                   historyVars, faults, linked, linkDisk, key>>

\* publish_initial_log_v4: write the line into an inode without a name and
\* sync it, ...
Stage ==
    /\ pc = "stage"
    /\ pc' = "link"
    /\ UNCHANGED <<logVars, markerVars, receiptVars, lockVars, writerVars,
                   historyVars, faults, keyedVars>>

\* Mutant: the inode gets its name before its bytes are synced.
LinkUnsynced ==
    /\ pc = "link"
    /\ ~linked
    /\ linked' = TRUE
    /\ linkDisk' = {FALSE, TRUE}
    /\ file' = FirstLine
    /\ disk' = {<<>>, FirstLine}
    /\ pc' = "link_sync"
    /\ UNCHANGED <<markerVars, receiptVars, lockVars, writerVars, historyVars,
                   faults, key, told, stood>>

\* ... give it its name, ...
Link ==
    /\ pc = "link"
    /\ ~linked
    /\ linked' = TRUE
    /\ linkDisk' = {FALSE, TRUE}
    /\ file' = FirstLine
    /\ disk' = {FirstLine}
    /\ pc' = "link_sync"
    /\ UNCHANGED <<markerVars, receiptVars, lockVars, writerVars, historyVars,
                   faults, key, told, stood>>

\* ... which fails with EEXIST, ReceiptCorruption, when there is a log, ...
LinkExists ==
    /\ pc = "link"
    /\ linked
    /\ Release
    /\ told' = "exists"
    /\ UNCHANGED <<logVars, markerVars, receiptVars, readers, historyVars,
                   faults, linked, linkDisk, key, stood>>

\* Mutant: the run directory is not synced.
SyncLinkSkipped ==
    /\ pc = "link_sync"
    /\ Release
    /\ told' = "opening"
    /\ UNCHANGED <<logVars, markerVars, receiptVars, readers, historyVars,
                   faults, linked, linkDisk, key, stood>>

\* ... and sync the run directory.  The locks are released before the journal
\* is opened for the caller.
SyncLink ==
    /\ pc = "link_sync"
    /\ linkDisk' = {linked}
    /\ Release
    /\ told' = "opening"
    /\ UNCHANGED <<logVars, markerVars, receiptVars, readers, historyVars,
                   faults, linked, key, stood>>

\* open_with_limits, and the receipt of the committed genesis; others may have
\* appended in the meantime, ...
Published ==
    /\ told = "opening"
    /\ told' = "committed"
    /\ acked' = IF acked = <<>> THEN FirstLine ELSE acked
    /\ UNCHANGED <<logVars, markerVars, receiptVars, lockVars, pc, writerVars,
                   seen, faults, linked, linkDisk, key, stood>>

\* ... or GenesisSessionUncertainV4.
SessionFails ==
    /\ told = "opening"
    /\ Fault
    /\ told' = "uncertain"
    /\ UNCHANGED <<logVars, markerVars, receiptVars, lockVars, pc, writerVars,
                   historyVars, linked, linkDisk, key, stood>>

PublishPCs == {"stage", "link", "link_sync"}

\* What a failed call of the publication returns: before the link
\* GenesisNotCommittedV4, whether or not there is a log of an earlier
\* publication, after it GenesisSessionUncertainV4.
PublishError == IF pc = "link_sync" THEN "uncertain" ELSE "not_committed"

\* A call of publish_new_v4 fails.
PublishFails ==
    /\ pc \in PublishPCs
    /\ Fault
    /\ Release
    /\ told' = PublishError
    /\ UNCHANGED <<logVars, markerVars, receiptVars, readers, historyVars,
                   linked, linkDisk, key, stood>>

-----------------------------------------------------------------------------
(***************************************************************************)
(* inspect_recovery_v4                                                     *)
(***************************************************************************)
Observed(kind) ==
    [kind |-> kind, file |-> IF linked THEN file ELSE NoLog, marker |-> marker]

\* GenesisBootstrap: no log, or one with its first line and no more.
InspectGenesis ==
    /\ Unlocked
    /\ marker = "absent"
    /\ linked => Len(file) = 2
    /\ key' = Observed("genesis")
    /\ UNCHANGED <<vars, linked, linkDisk, told, stood>>

\* Mutant: only a fragment is worth a recovery.
InspectTailTorn ==
    /\ Unlocked
    /\ linked
    /\ marker # "partial"
    /\ Torn(file)
    /\ key' = Observed("tail")
    /\ UNCHANGED <<vars, linked, linkDisk, told, stood>>

\* CanonicalTail: a fragment or a marker was left behind.
InspectTail ==
    /\ Unlocked
    /\ linked
    /\ marker # "partial"
    /\ Torn(file) \/ marker = "present"
    /\ key' = Observed("tail")
    /\ UNCHANGED <<vars, linked, linkDisk, told, stood>>

\* v4_key_matches, and the conditions for a missing log.
KeyMatches == key = Observed(key.kind)

-----------------------------------------------------------------------------
(***************************************************************************)
(* recover_new_v4                                                          *)
(***************************************************************************)

\* Mutant: the verdict is taken from the key alone.
RecoverNewUnchecked ==
    /\ Unlocked
    /\ key # NoKey
    /\ key.kind = "genesis"
    /\ told' = IF key.file = NoLog THEN "absent" ELSE "recovered"
    /\ key' = NoKey
    /\ UNCHANGED <<vars, linked, linkDisk, stood>>

\* The key still holds: there is no log, GenesisRecoveryV4::NotCommitted, or
\* exactly the committed line.
RecoverNew ==
    /\ Unlocked
    /\ key # NoKey
    /\ key.kind = "genesis"
    /\ KeyMatches
    /\ told' = IF linked THEN "recovered" ELSE "absent"
    /\ key' = NoKey
    /\ UNCHANGED <<vars, linked, linkDisk, stood>>

\* RecoveryKeyMismatchV4: the key is consumed and nothing else changes.
KeyRefused ==
    /\ Unlocked
    /\ key # NoKey
    /\ ~KeyMatches
    /\ key' = NoKey
    /\ UNCHANGED <<vars, linked, linkDisk, told, stood>>

-----------------------------------------------------------------------------
(***************************************************************************)
(* recover_replayed_v4_session with a CanonicalTail key                    *)
(***************************************************************************)

\* What is left to do once the marker stands.
TailWork == IF Torn(file) THEN "tail_cut" ELSE "tail_unlink"

\* Check the key.
BeginTail ==
    /\ Unlocked
    /\ key # NoKey
    /\ key.kind = "tail"
    /\ KeyMatches
    /\ holder' = "keyed"
    /\ pc' = IF marker = "absent" THEN "tail_create" ELSE TailWork
    /\ key' = NoKey
    /\ UNCHANGED <<logVars, markerVars, receiptVars, readers, writerVars,
                   historyVars, faults, linked, linkDisk, told, stood>>

\* ensure_v4_append_pending: create the marker, ...
TailCreate ==
    /\ pc = "tail_create"
    /\ marker' = "partial"
    /\ markerDisk' = markerDisk \cup {"partial"}
    /\ pc' = "tail_write"
    /\ UNCHANGED <<logVars, receiptVars, lockVars, writerVars, historyVars,
                   faults, keyedVars>>

\* ... write and sync its bytes, ...
TailWrite ==
    /\ pc = "tail_write"
    /\ marker' = "present"
    /\ markerDisk' = (markerDisk \ {"partial"}) \cup {"present"}
    /\ pc' = "tail_mark_sync"
    /\ UNCHANGED <<logVars, receiptVars, lockVars, writerVars, historyVars,
                   faults, keyedVars>>

\* ... and sync the directory.
TailSyncMarker ==
    /\ pc = "tail_mark_sync"
    /\ markerDisk' = {marker}
    /\ linkDisk' = {linked}
    /\ pc' = TailWork
    /\ UNCHANGED <<logVars, marker, receiptVars, lockVars, writerVars,
                   historyVars, faults, linked, key, told, stood>>

\* set_len(good_offset), ...
TailCut ==
    /\ pc = "tail_cut"
    /\ file' = Upto(file, GoodOffset(file))
    /\ disk' = disk \cup {file'}
    /\ pc' = "tail_sync"
    /\ UNCHANGED <<markerVars, receiptVars, lockVars, writerVars, historyVars,
                   faults, keyedVars>>

\* ... sync_all.
TailSync ==
    /\ pc = "tail_sync"
    /\ disk' = {file}
    /\ pc' = "tail_unlink"
    /\ UNCHANGED <<file, markerVars, receiptVars, lockVars, writerVars,
                   historyVars, faults, keyedVars>>

\* Remove the marker, ...
TailUnlink ==
    /\ pc = "tail_unlink"
    /\ marker' = "absent"
    /\ markerDisk' = markerDisk \cup {"absent"}
    /\ pc' = "tail_unlink_sync"
    /\ UNCHANGED <<logVars, receiptVars, lockVars, writerVars, historyVars,
                   faults, keyedVars>>

\* ... sync the run directory, ...
TailSyncUnlink ==
    /\ pc = "tail_unlink_sync"
    /\ markerDisk' = {marker}
    /\ linkDisk' = {linked}
    /\ pc' = "tail_open"
    /\ UNCHANGED <<logVars, marker, receiptVars, lockVars, writerVars,
                   historyVars, faults, linked, key, told, stood>>

\* ... audit the receipts, and replay the log into an editable session ...
TailOpen ==
    /\ pc = "tail_open"
    /\ AuditOK(intents, completions)
    /\ SyncReceiptDirs
    /\ LogAdmitted
    /\ holder' = "writer"
    /\ pc' = "ready"
    /\ confirmed' = GoodOffset(file)
    /\ UNCHANGED <<logVars, markerVars, readers, batch, job, historyVars,
                   faults, keyedVars>>

\* ... or find a pending rollback intent and return CorruptNeedsRecovery.
TailRefused ==
    /\ pc = "tail_open"
    /\ AuditOK(intents, completions)
    /\ ~LogAdmitted
    /\ SyncReceiptDirs
    /\ Release
    /\ UNCHANGED <<logVars, markerVars, readers, historyVars, faults, keyedVars>>

TailPCs == {"tail_create", "tail_write", "tail_mark_sync", "tail_cut",
            "tail_sync", "tail_unlink", "tail_unlink_sync", "tail_open"}

\* A call of the recovery fails without effect
\* (RecoveryDurabilityUncertainV4, or the error of the call).
TailFails ==
    /\ pc \in TailPCs
    /\ Fault
    /\ Release
    /\ UNCHANGED <<logVars, markerVars, receiptVars, readers, historyVars,
                   keyedVars>>

-----------------------------------------------------------------------------
(***************************************************************************)
(* The journal of the run                                                  *)
(***************************************************************************)

\* The two syncs of the run directory in append_batch: they make the name of
\* the log durable as well.
SyncRunDir == (SyncMarker \/ SyncUnlink) /\ linkDisk' = {linked}

\* The other steps of append_batch and its rollback.
AppendStep ==
    \/ CreateMarker \/ MarkerExists \/ WriteMarker \/ WriteUnit \/ SyncLog
    \/ RecordRollbackIntent \/ RollbackRefused \/ SyncIntent \/ Truncate
    \/ SyncTruncation \/ LinkCompletion \/ SyncCompletion \/ UnlinkMarker

\* replayed_v4_session and the readers of a V4 journal.
Opens ==
    /\ linked
    /\ \/ OpenWriter \/ OpenRefused
       \/ \E r \in Reader : OpenReader(r)

\* Power fails and the name of the log, if it has one, is kept, ...
PowerLossV4 ==
    /\ PowerLoss
    /\ linkDisk' = {linked}
    /\ told' = IF told = "opening" THEN "nothing" ELSE told
    /\ UNCHANGED <<linked, key, stood>>

\* ... or was not durable and is gone, and the bytes with it.  No receipt can
\* have been published since: every append syncs the run directory first.
NameLost ==
    /\ Fault
    /\ FALSE \in linkDisk
    /\ linked
    /\ linked' = FALSE
    /\ linkDisk' = {FALSE}
    /\ file' = <<>>
    /\ disk' = {<<>>}
    /\ marker' \in markerDisk
    /\ markerDisk' = {marker'}
    /\ Release
    /\ readers' = {}
    /\ UNCHANGED <<receiptVars, historyVars, key, told, stood>>

KeyedStep ==
    \/ Stage \/ Link \/ LinkExists \/ SyncLink \/ Published
    \/ TailCreate \/ TailWrite \/ TailSyncMarker \/ TailCut \/ TailSync
    \/ TailUnlink \/ TailSyncUnlink \/ TailOpen \/ TailRefused
    \/ SyncRunDir /\ UNCHANGED <<linked, key, told, stood>>
    \/ AppendStep /\ UNCHANGED keyedVars

NextV4 ==
    \/ KeyedStep
    \/ BeginPublish \/ PublishFails \/ SessionFails
    \/ InspectGenesis \/ InspectTail \/ RecoverNew \/ KeyRefused
    \/ BeginTail \/ TailFails
    \/ (\/ Opens \/ CloseWriter
        \/ \E r \in Reader : CloseReader(r)
        \/ \E events \in Batches : BeginAppend(events)
        \/ FailMarker \/ FailWrite \/ FailCall \/ Crash) /\ UNCHANGED keyedVars
    \/ PowerLossV4 \/ NameLost

SpecV4 == InitV4 /\ [][NextV4]_allVars

\* Fairness: the process with the locks runs on unless it is killed, readers
\* close, and somebody inspects and recovers again and again, however often
\* others take the locks in between.
FairSpecV4 ==
    /\ SpecV4
    /\ WF_allVars(KeyedStep)
    /\ SF_allVars(InspectTail)
    /\ SF_allVars(BeginTail)
    /\ \A r \in Reader : WF_allVars(CloseReader(r) /\ UNCHANGED keyedVars)

-----------------------------------------------------------------------------
(***************************************************************************)
(* Properties                                                              *)
(***************************************************************************)

\* Every variable has its type; a log without a name has no bytes and no
\* receipts; the holder's program counter belongs to its operation.
TypeOKV4 ==
    /\ file \in disk /\ marker \in markerDisk /\ linked \in linkDisk
    /\ intentsDisk \subseteq intents /\ completionsDisk \subseteq completions
    /\ ~linked => file = <<>> /\ intents = {} /\ linkDisk = {FALSE}
    /\ \/ key = NoKey
       \/ key.kind = "genesis" /\ key.marker = "absent"
       \/ key.kind = "tail" /\ key.file # NoLog
    /\ told \in {"nothing", "exists", "not_committed", "uncertain", "opening",
                 "committed", "recovered", "absent"}
    /\ stood \in BOOLEAN
    /\ holder = "none" <=> pc = "idle"
    /\ holder = "publisher" <=> pc \in PublishPCs
    /\ holder = "keyed" <=> pc \in TailPCs
    /\ holder # "none" => readers = {}

\* A V4 log is never found without its first line, and neither a committed
\* genesis nor an acknowledged event is lost to any fault or keyed recovery.
PublishedStays ==
    /\ TRUE \in linkDisk => \A d \in disk : Prefix(FirstLine, d)
    /\ acked # <<>> => linkDisk = {TRUE}
    /\ \A d \in disk : Prefix(acked, d)

\* Not committed is final: unless somebody publishes again, a run never
\* appears that recover_new_v4 called NotCommitted, however old the key was,
\* or for which a publication that found no log returned GenesisNotCommittedV4.
\* The error alone does not say so: publishing a run again that has a log may
\* return it as well.
NotCommittedIsFinal ==
    told = "absent" \/ (told = "not_committed" /\ ~stood) => linkDisk = {FALSE}

\* After one fault, a V4 journal closed by append.pending becomes readable
\* again by keyed recovery alone.
TailReopens ==
    [](faults <= 1) => ((holder = "none" /\ marker = "present") ~> Readable)

\* The comment on recover_replayed_v4_session: "Canonical-tail recovery always
\* returns an editable session".  When it has removed the marker, nothing is
\* left to keep it from opening the session.
TailRecoveryEditable ==
    pc = "tail_open" => Pending(intents, completions) = {}

-----------------------------------------------------------------------------
(***************************************************************************)
(* The inductive invariant.  UngatedLogDurable of Journal is no part of    *)
(* it: keyed recovery removes the marker of a log without syncing the log  *)
(* when every line is complete, and the events it shows may be lost again. *)
(***************************************************************************)

WriterPCs == {"ready", "poisoned", "mark_create", "mark_write", "mark_sync",
              "write", "rollback", "unlink", "unlink_sync"} \cup JobPCs

\* The writer's steps after its first sync of the run directory.
LatePCs == {"write", "rollback", "unlink", "unlink_sync"} \cup JobPCs

BytesInv ==
    /\ disk \subseteq Seq(Unit) /\ batch \in Seq(Unit) /\ acked \in Seq(Unit)
    /\ confirmed \in Nat /\ key \in Key \cup {NoKey}
    /\ marker \in MarkerState /\ markerDisk \subseteq MarkerState
    /\ holder \in {"none", "publisher", "keyed", "writer"}
    /\ holder = "writer" <=> pc \in WriterPCs

\* The name of the log: who relies on it, and who may still lack it.
NameInv ==
    /\ linked \in BOOLEAN /\ linkDisk \subseteq BOOLEAN
    /\ ~linked => disk = {<<>>}
    /\ (intents # {} \/ acked # <<>> \/ told = "opening" \/ pc \in LatePCs)
          => linkDisk = {TRUE}
    /\ pc \in WriterPCs \cup TailPCs \cup {"link_sync"} => linked
    /\ pc \in PublishPCs => told = "nothing"
    /\ pc \in {"stage", "link"} => stood = linked

\* The first line and what was acknowledged end at a line end, are in every log
\* the medium may hold, and below everything that a writer may remove.
KeptInv ==
    \A s \in {FirstLine, acked} :
       /\ Len(s) % 2 = 0
       /\ TRUE \in linkDisk => \A d \in disk : Prefix(s, d)
       /\ pc \in WriterPCs \ {"poisoned"} => Len(s) <= confirmed

\* What the writer knows at each of its steps.
AppendInv ==
    /\ pc \in WriterPCs \ {"poisoned"} => confirmed % 2 = 0 /\ confirmed <= Len(file)
    /\ pc \in {"ready", "mark_create", "mark_write", "mark_sync", "unlink", "unlink_sync",
               "trunc_sync", "complete_link", "complete_sync"} => Len(file) = confirmed
    /\ pc \in {"mark_create", "mark_write", "mark_sync"} => Len(batch) % 2 = 0
    /\ pc \in {"write", "rollback"} => (Len(file) + Len(batch)) % 2 = 0
    /\ pc \in JobPCs => job # NoIntent /\ job.good = confirmed
    /\ pc \in {"unlink", "unlink_sync"} /\ job = NoIntent => disk = {file}

IInvV4 ==
    /\ TypeOKV4 /\ BytesInv /\ NameInv /\ KeptInv /\ AppendInv
    /\ NotCommittedIsFinal

=============================================================================
