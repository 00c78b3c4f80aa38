------------------------------ MODULE Journal ------------------------------
(***************************************************************************)
(* The durable event journal of one run                                    *)
(* (crates/reviewgraphen-store/src/journal.rs): the generic append         *)
(* protocol of JournalWriter::append_batch, its rollback, and              *)
(* RunJournal::recover, over a log file, the append.pending marker and the *)
(* two immutable receipt directories.  Every fallible call of the code may *)
(* fail, the process may be killed and the machine may lose power between  *)
(* any two calls.                                                          *)
(*                                                                         *)
(* Bytes are abstracted to two units per line: the event's body and its    *)
(* newline.  An offset is a number of units, so a file whose length is odd *)
(* ends in an unterminated fragment.  A hash stands for the bytes it was   *)
(* computed over.                                                          *)
(***************************************************************************)
EXTENDS Naturals, Sequences, FiniteSets

CONSTANTS
    Event,        \* event envelopes (their canonical bytes without newline)
    Genesis,      \* the first event, published by RunJournal::initialize_v2
    NL,           \* the newline that terminates a line
    Reader,       \* processes that may hold a JournalReader
    Nonce,        \* recovery nonces; each names one recovery intent
    MaxEvents,    \* JournalLimits::max_events
    MaxBatch,     \* longest batch handed to append_batch (a bound of the model)
    MaxReceipts,  \* JournalLimits::max_receipt_files
    MaxFaults,    \* number of faults in a behaviour (a bound of the model)
    NoIntent      \* "no recovery intent"

ASSUME GenesisAssumption == Genesis \in Event
ASSUME NLAssumption == NL \notin Event
ASSUME LimitAssumption == /\ MaxEvents \in Nat \ {0}
                          /\ MaxBatch \in Nat \ {0}
                          /\ MaxReceipts \in Nat
                          /\ MaxFaults \in Nat

\* Bytes, and the records RecoveryIntent and RecoveryCompletion: tail stands
\* for pre_tail_hash, discarded for discarded_hash, post for post_file_hash.
Unit == Event \cup {NL}
Intent == [id : Nonce, good : Nat, discarded : Seq(Unit), tail : Seq(Unit)]
Completion == [id : Nonce, post : Seq(Unit)]

ASSUME NoIntentAssumption == NoIntent \notin Intent

VARIABLES
    (***********************************************************************)
    (* The run directory.  A variable whose name ends in Disk says what a  *)
    (* power failure may leave of its volatile counterpart.                *)
    (***********************************************************************)
    file,            \* the log's bytes as every process reads them
    disk,            \* the set of contents the log may have on the medium
    marker,          \* append.pending: "absent", "partial" or "present"
    markerDisk,      \* the set of states the marker may have on the medium
    intents,         \* recovery/intents
    intentsDisk,     \* the intents that no power failure can remove
    completions,     \* recovery/completions
    completionsDisk, \* the completions that no power failure can remove
    (***********************************************************************)
    (* The processes.                                                      *)
    (***********************************************************************)
    holder,          \* who has the exclusive flock on the log
    readers,         \* who shares it
    pc,              \* where the exclusive holder is
    batch,           \* bytes of the current append not yet written
    confirmed,       \* JournalWriter::state.confirmed_offset
    job,             \* the recovery intent being carried out, or NoIntent
    (***********************************************************************)
    (* History: what callers have been told.                               *)
    (***********************************************************************)
    acked,           \* bytes of the events whose append returned a receipt
    seen,            \* bytes the latest JournalReader replayed
    faults           \* faults so far

logVars == <<file, disk>>
markerVars == <<marker, markerDisk>>
receiptVars == <<intents, intentsDisk, completions, completionsDisk>>
lockVars == <<holder, readers>>
writerVars == <<batch, confirmed, job>>
historyVars == <<acked, seen>>
vars == <<logVars, markerVars, receiptVars, lockVars, pc, writerVars,
          historyVars, faults>>

-----------------------------------------------------------------------------
(***************************************************************************)
(* Bytes                                                                   *)
(***************************************************************************)
\* The canonical lines of a sequence of events.
Lines(events) ==
    [i \in 1 .. 2 * Len(events) |->
        IF i % 2 = 1 THEN events[(i + 1) \div 2] ELSE NL]

\* The first n bytes of f and the bytes after them.
Upto(f, n) == SubSeq(f, 1, n)
After(f, n) == SubSeq(f, n + 1, Len(f))

\* s is a prefix of t.
Prefix(s, t) == Len(s) <= Len(t) /\ \A i \in 1 .. Len(s) : s[i] = t[i]

\* scan: the end of the last newline-terminated line, and whether an
\* unterminated fragment follows it.
GoodOffset(f) == Len(f) - (Len(f) % 2)
Torn(f) == Len(f) % 2 = 1

Batches == UNION {[1 .. n -> Event] : n \in 1 .. MaxBatch}

-----------------------------------------------------------------------------
(***************************************************************************)
(* Receipts                                                                *)
(***************************************************************************)
Ids(receipts) == {r.id : r \in receipts}

\* Intents with and without their completion.
Completed(is, cs) == {i \in is : i.id \in Ids(cs)}
Pending(is, cs) == {i \in is : i.id \notin Ids(cs)}

\* recovery_inventory_conflicts, for intents that belong to no bundle.
Conflicts(existing, proposed) == existing.good = proposed.good

\* recovery_audit: what the receipt directories must satisfy before the log
\* is trusted.
AuditOK(is, cs) ==
    /\ Ids(cs) \subseteq Ids(is)
    /\ \A i, j \in is : i.id = j.id => i = j
    /\ \A c, d \in cs : c.id = d.id => c = d
    /\ \A i, j \in is : i # j => ~Conflicts(i, j)
    /\ \A i, j \in Pending(is, cs) : i = j

\* validate_completed_receipts: the log still contains the prefix that every
\* completed recovery bound.
ReceiptsMatch(f, is, cs) ==
    \A i \in is, c \in cs :
        i.id = c.id => /\ i.good <= GoodOffset(f)
                       /\ Upto(f, i.good) = i.tail
                       /\ Upto(f, i.good) = c.post

\* validate_proposed_recovery_lineage.
LineageOK(proposed) ==
    \A i \in intents : i.id # proposed.id => ~Conflicts(i, proposed)

\* reserve_recovery_capacity for n more receipts.
Reserve(n) ==
    Cardinality(intents) + Cardinality(completions) + n <= MaxReceipts

\* The intent that discards everything after offset good.
IntentAt(id, good) ==
    [id |-> id, good |-> good,
     discarded |-> After(file, good), tail |-> Upto(file, good)]

FreshNonce == Nonce \ (Ids(intents) \cup Ids(completions))

-----------------------------------------------------------------------------
(***************************************************************************)
(* Init: RunJournal::initialize_v2 has published the genesis line.         *)
(***************************************************************************)
Init ==
    /\ file = Lines(<<Genesis>>)
    /\ disk = {Lines(<<Genesis>>)}
    /\ marker = "absent"
    /\ markerDisk = {"absent"}
    /\ intents = {}
    /\ intentsDisk = {}
    /\ completions = {}
    /\ completionsDisk = {}
    /\ holder = "none"
    /\ readers = {}
    /\ pc = "idle"
    /\ batch = <<>>
    /\ confirmed = 0
    /\ job = NoIntent
    /\ acked = Lines(<<Genesis>>)
    /\ seen = <<>>
    /\ faults = 0

-----------------------------------------------------------------------------
\* The exclusive holder drops its handle, and with it the lock.
Release ==
    /\ holder' = "none"
    /\ pc' = "idle"
    /\ batch' = <<>>
    /\ confirmed' = 0
    /\ job' = NoIntent

\* What an error does to the holder: the writer is poisoned and keeps the
\* lock, recovery returns.
Abort ==
    \/ /\ holder = "writer"
       /\ pc' = "poisoned"
       /\ UNCHANGED <<holder, writerVars>>
    \/ holder = "recovery" /\ Release

-----------------------------------------------------------------------------
(***************************************************************************)
(* Opening                                                                 *)
(***************************************************************************)

\* sync_recovery_dirs.
SyncReceiptDirs ==
    /\ intentsDisk' = intents
    /\ completionsDisk' = completions
    /\ UNCHANGED <<intents, completions>>

\* The checks between the marker gate and the returned handle.
LogAdmitted ==
    /\ ReceiptsMatch(file, intents, completions)
    /\ Pending(intents, completions) = {}
    /\ ~Torn(file)

\* Mutant: a reader that does not look for the marker.
OpenReaderUngated(r) ==
    /\ holder = "none"
    /\ r \notin readers
    /\ AuditOK(intents, completions)
    /\ SyncReceiptDirs
    /\ LogAdmitted
    /\ readers' = readers \cup {r}
    /\ seen' = file
    /\ UNCHANGED <<logVars, markerVars, holder, pc, writerVars, acked, faults>>

\* RunJournal::reader.
OpenReader(r) ==
    /\ holder = "none"
    /\ r \notin readers
    /\ marker = "absent"
    /\ AuditOK(intents, completions)
    /\ SyncReceiptDirs
    /\ LogAdmitted
    /\ readers' = readers \cup {r}
    /\ seen' = file
    /\ UNCHANGED <<logVars, markerVars, holder, pc, writerVars, acked, faults>>

CloseReader(r) ==
    /\ r \in readers
    /\ readers' = readers \ {r}
    /\ UNCHANGED <<logVars, markerVars, receiptVars, holder, pc, writerVars,
                   historyVars, faults>>

\* RunJournal::writer_locked.
OpenWriter ==
    /\ holder = "none"
    /\ readers = {}
    /\ marker = "absent"
    /\ AuditOK(intents, completions)
    /\ SyncReceiptDirs
    /\ LogAdmitted
    /\ holder' = "writer"
    /\ pc' = "ready"
    /\ confirmed' = GoodOffset(file)
    /\ batch' = <<>>
    /\ job' = NoIntent
    /\ UNCHANGED <<logVars, markerVars, readers, historyVars, faults>>

\* An open that passes the marker gate and the audit, syncs the receipt
\* directories and is then refused.
OpenRefused ==
    /\ holder = "none"
    /\ marker = "absent"
    /\ AuditOK(intents, completions)
    /\ ~LogAdmitted
    /\ SyncReceiptDirs
    /\ UNCHANGED <<logVars, markerVars, lockVars, pc, writerVars, historyVars,
                   faults>>

CloseWriter ==
    /\ holder = "writer"
    /\ pc \in {"ready", "poisoned"}
    /\ Release
    /\ UNCHANGED <<logVars, markerVars, receiptVars, readers, historyVars, faults>>

-----------------------------------------------------------------------------
(***************************************************************************)
(* JournalWriter::append_batch                                             *)
(***************************************************************************)

\* Mutant: the append reserves no room for its rollback receipts.
BeginAppendUnreserved(events) ==
    /\ holder = "writer"
    /\ pc = "ready"
    /\ confirmed + 2 * Len(events) <= 2 * MaxEvents
    /\ AuditOK(intents, completions)
    /\ SyncReceiptDirs
    /\ batch' = Lines(events)
    /\ job' = NoIntent
    /\ pc' = "mark_create"
    /\ UNCHANGED <<logVars, markerVars, lockVars, confirmed, historyVars, faults>>

\* The checks before the first mutation: limits, audit, room for the two
\* receipts a rollback would need.
BeginAppend(events) ==
    /\ holder = "writer"
    /\ pc = "ready"
    /\ confirmed + 2 * Len(events) <= 2 * MaxEvents
    /\ AuditOK(intents, completions)
    /\ SyncReceiptDirs
    /\ Reserve(2)
    /\ batch' = Lines(events)
    /\ job' = NoIntent
    /\ pc' = "mark_create"
    /\ UNCHANGED <<logVars, markerVars, lockVars, confirmed, historyVars, faults>>

\* record_append_marker: create the file, ...
CreateMarker ==
    /\ pc = "mark_create"
    /\ marker = "absent"
    /\ marker' = "partial"
    /\ markerDisk' = markerDisk \cup {"partial"}
    /\ pc' = "mark_write"
    /\ UNCHANGED <<logVars, receiptVars, lockVars, writerVars, historyVars, faults>>

\* ... which fails with EEXIST when an earlier marker was left behind, ...
MarkerExists ==
    /\ pc = "mark_create"
    /\ marker # "absent"
    /\ pc' = "ready"
    /\ UNCHANGED <<logVars, markerVars, receiptVars, lockVars, writerVars,
                   historyVars, faults>>

\* ... write and sync its bytes, ...
WriteMarker ==
    /\ pc = "mark_write"
    /\ marker' = "present"
    /\ markerDisk' = (markerDisk \ {"partial"}) \cup {"present"}
    /\ pc' = "mark_sync"
    /\ UNCHANGED <<logVars, receiptVars, lockVars, writerVars, historyVars, faults>>

\* ... and sync the directory.
SyncMarker ==
    /\ pc = "mark_sync"
    /\ markerDisk' = {marker}
    /\ pc' = "write"
    /\ UNCHANGED <<logVars, marker, receiptVars, lockVars, writerVars,
                   historyVars, faults>>

\* write_candidate: the kernel takes the bytes one unit at a time and may
\* write any of them back.
WriteUnit ==
    /\ pc = "write"
    /\ batch # <<>>
    /\ file' = Append(file, Head(batch))
    /\ disk' = disk \cup {file'}
    /\ batch' = Tail(batch)
    /\ UNCHANGED <<markerVars, receiptVars, lockVars, pc, confirmed, job,
                   historyVars, faults>>

\* Mutant: the append is confirmed without sync_data.
SyncLogSkipped ==
    /\ pc = "write"
    /\ batch = <<>>
    /\ confirmed' = Len(file)
    /\ pc' = "unlink"
    /\ UNCHANGED <<logVars, markerVars, receiptVars, lockVars, batch, job,
                   historyVars, faults>>

\* sync_data, after which the writer advances its confirmed state.
SyncLog ==
    /\ pc = "write"
    /\ batch = <<>>
    /\ disk' = {file}
    /\ confirmed' = Len(file)
    /\ pc' = "unlink"
    /\ UNCHANGED <<file, markerVars, receiptVars, lockVars, batch, job,
                   historyVars, faults>>

-----------------------------------------------------------------------------
(***************************************************************************)
(* Receipted truncation, shared by the writer's rollback and recovery.     *)
(***************************************************************************)

\* Mutant: the log is truncated before the intent is durable.
LinkIntentUnsynced(i) ==
    /\ intents' = intents \cup {i}
    /\ job' = i
    /\ pc' = "truncate"
    /\ UNCHANGED <<intentsDisk, completions, completionsDisk>>

\* publish_receipt_with_limits, up to the create-only link.
LinkIntent(i) ==
    /\ intents' = intents \cup {i}
    /\ job' = i
    /\ pc' = "intent_sync"
    /\ UNCHANGED <<intentsDisk, completions, completionsDisk>>

\* record_rollback_intent.
RecordRollbackIntent ==
    /\ pc = "rollback"
    /\ AuditOK(intents, completions)
    /\ \E id \in FreshNonce :
          /\ LineageOK(IntentAt(id, confirmed))
          /\ LinkIntent(IntentAt(id, confirmed))
    /\ UNCHANGED <<logVars, markerVars, lockVars, batch, confirmed, historyVars,
                   faults>>

\* record_rollback_intent refuses: an earlier recovery ended at this offset.
RollbackRefused ==
    /\ pc = "rollback"
    /\ \E i \in intents : i.good = confirmed
    /\ Abort
    /\ UNCHANGED <<logVars, markerVars, receiptVars, readers, historyVars, faults>>

\* The directory sync that makes the intent durable.  Recovery of a complete
\* log discards nothing and skips the truncation.
SyncIntent ==
    /\ pc = "intent_sync"
    /\ intentsDisk' = intents
    /\ pc' = IF holder = "recovery" /\ job.discarded = <<>>
             THEN "complete_link" ELSE "truncate"
    /\ UNCHANGED <<logVars, markerVars, intents, completions, completionsDisk,
                   lockVars, writerVars, historyVars, faults>>

\* set_len(good_offset), ...
Truncate ==
    /\ pc = "truncate"
    /\ file' = Upto(file, job.good)
    /\ disk' = disk \cup {file'}
    /\ pc' = "trunc_sync"
    /\ UNCHANGED <<markerVars, receiptVars, lockVars, writerVars, historyVars, faults>>

\* ... sync_data.
SyncTruncation ==
    /\ pc = "trunc_sync"
    /\ disk' = {file}
    /\ pc' = "complete_link"
    /\ UNCHANGED <<file, markerVars, receiptVars, lockVars, writerVars,
                   historyVars, faults>>

\* complete_rollback_intent, and recovery's completion: link, ...
LinkCompletion ==
    /\ pc = "complete_link"
    /\ completions' = completions \cup
                        {[id |-> job.id, post |-> Upto(file, job.good)]}
    /\ pc' = "complete_sync"
    /\ UNCHANGED <<logVars, markerVars, intents, intentsDisk, completionsDisk,
                   lockVars, writerVars, historyVars, faults>>

\* Mutant: the marker is removed before the completion is durable.
SyncCompletionSkipped ==
    /\ pc = "complete_sync"
    /\ pc' = "unlink"
    /\ UNCHANGED <<logVars, markerVars, receiptVars, lockVars, writerVars,
                   historyVars, faults>>

\* ... and sync the directory.
SyncCompletion ==
    /\ pc = "complete_sync"
    /\ completionsDisk' = completions
    /\ pc' = "unlink"
    /\ UNCHANGED <<logVars, markerVars, intents, intentsDisk, completions,
                   lockVars, writerVars, historyVars, faults>>

\* clear_append_marker, clear_append_marker_if_present: unlink, ...
UnlinkMarker ==
    /\ pc = "unlink"
    /\ marker = "present"
    /\ marker' = "absent"
    /\ markerDisk' = markerDisk \cup {"absent"}
    /\ pc' = "unlink_sync"
    /\ UNCHANGED <<logVars, receiptVars, lockVars, writerVars, historyVars, faults>>

\* ... sync the directory, and return: an append that was not rolled back
\* returns its receipts, a rolled back one an error, recovery its receipt.
SyncUnlink ==
    /\ pc = "unlink_sync"
    /\ markerDisk' = {marker}
    /\ \/ /\ holder = "writer"
          /\ pc' = "ready"
          /\ acked' = IF job = NoIntent THEN Upto(file, confirmed) ELSE acked
          /\ UNCHANGED <<holder, writerVars>>
       \/ /\ holder = "recovery"
          /\ Release
          /\ UNCHANGED acked
    /\ UNCHANGED <<logVars, marker, receiptVars, readers, seen, faults>>

\* clear_append_marker_if_present finds no marker, or one whose bytes are not
\* the expected ones (marker_exists: ReceiptCorruption); recovery returns.
NoUnlink ==
    /\ pc = "unlink"
    /\ marker # "present"
    /\ Release
    /\ UNCHANGED <<logVars, markerVars, receiptVars, readers, historyVars, faults>>

-----------------------------------------------------------------------------
(***************************************************************************)
(* RunJournal::recover                                                     *)
(***************************************************************************)

\* Take the exclusive lock, audit and sync the receipts.
OpenRecovery ==
    /\ holder = "none"
    /\ readers = {}
    /\ AuditOK(intents, completions)
    /\ SyncReceiptDirs
    /\ ReceiptsMatch(file, intents, completions)
    /\ holder' = "recovery"
    /\ pc' = "recover"
    /\ batch' = <<>>
    /\ job' = NoIntent
    /\ UNCHANGED <<logVars, markerVars, readers, confirmed, historyVars, faults>>

\* A pending intent can be resumed.
Resumable(i) ==
    /\ i.good <= Len(file)
    /\ Upto(file, i.good) = i.tail
    /\ Reserve(1)
    /\ Len(file) > i.good => After(file, i.good) = i.discarded

\* An intent was left without completion: redo what is missing.
ResumePending ==
    /\ pc = "recover"
    /\ \E i \in Pending(intents, completions) :
          /\ Resumable(i)
          /\ job' = i
          /\ pc' = IF Len(file) > i.good THEN "truncate" ELSE "trunc_sync"
    /\ UNCHANGED <<logVars, markerVars, receiptVars, lockVars, batch, confirmed,
                   historyVars, faults>>

\* Mutant: recovery adopts a complete log without syncing it.
SyncMarkedLogSkipped ==
    /\ pc = "recover"
    /\ Pending(intents, completions) = {}
    /\ marker = "present"
    /\ ~Torn(file)
    /\ pc' = "marker_intent"
    /\ UNCHANGED <<logVars, markerVars, receiptVars, lockVars, writerVars,
                   historyVars, faults>>

\* The marker was left and every line is complete: sync the log first.
SyncMarkedLog ==
    /\ pc = "recover"
    /\ Pending(intents, completions) = {}
    /\ marker = "present"
    /\ ~Torn(file)
    /\ disk' = {file}
    /\ pc' = "marker_intent"
    /\ UNCHANGED <<file, markerVars, receiptVars, lockVars, writerVars,
                   historyVars, faults>>

\* A new recovery intent at offset good is admitted.
Proposable(good) == Reserve(2) /\ \A i \in intents : i.good # good

\* Mutant: recovery only handles a log whose lines are complete.
ProposeRecoveryCompleteOnly ==
    /\ pc = "marker_intent"
    /\ Proposable(GoodOffset(file))
    /\ \E id \in FreshNonce : LinkIntent(IntentAt(id, GoodOffset(file)))
    /\ UNCHANGED <<logVars, markerVars, lockVars, batch, confirmed, historyVars,
                   faults>>

\* Publish the empty-discard intent of a complete log, or the intent that
\* discards an unterminated fragment.
ProposeRecovery ==
    /\ \/ pc = "marker_intent"
       \/ /\ pc = "recover"
          /\ Pending(intents, completions) = {}
          /\ marker # "partial"
          /\ Torn(file)
    /\ Proposable(GoodOffset(file))
    /\ \E id \in FreshNonce : LinkIntent(IntentAt(id, GoodOffset(file)))
    /\ UNCHANGED <<logVars, markerVars, lockVars, batch, confirmed, historyVars,
                   faults>>

\* recover returns an error without touching the log.
RecoveryRefused ==
    /\ \/ /\ pc = "recover"
          /\ \/ \E i \in Pending(intents, completions) : ~Resumable(i)
             \/ /\ Pending(intents, completions) = {}
                /\ \/ marker = "partial"
                   \/ marker = "absent" /\ ~Torn(file)
                   \/ marker # "partial" /\ Torn(file)
                        /\ ~Proposable(GoodOffset(file))
       \/ pc = "marker_intent" /\ ~Proposable(GoodOffset(file))
    /\ Abort
    /\ UNCHANGED <<logVars, markerVars, receiptVars, readers, historyVars, faults>>

-----------------------------------------------------------------------------
(***************************************************************************)
(* Faults                                                                  *)
(***************************************************************************)
Fault == faults < MaxFaults /\ faults' = faults + 1

\* record_append_marker fails; what it created stays, the writer is not
\* poisoned.
FailMarker ==
    /\ pc \in {"mark_create", "mark_write", "mark_sync"}
    /\ Fault
    /\ \/ UNCHANGED markerVars
       \/ /\ pc = "mark_write"
          /\ marker' = "present"
          /\ markerDisk' = markerDisk \cup {"present"}
    /\ pc' = "ready"
    /\ UNCHANGED <<logVars, receiptVars, lockVars, writerVars, historyVars>>

\* write_all, flush or sync_data of write_candidate fails.
FailWrite ==
    /\ pc = "write"
    /\ Fault
    /\ pc' = "rollback"
    /\ UNCHANGED <<logVars, markerVars, receiptVars, lockVars, writerVars, historyVars>>

\* A call of the receipted truncation, of the marker's removal or of recovery
\* fails without effect.
FailCall ==
    /\ pc \in {"rollback", "intent_sync", "truncate", "trunc_sync",
               "complete_link", "complete_sync", "unlink", "unlink_sync",
               "recover", "marker_intent"}
    /\ Fault
    /\ Abort
    /\ UNCHANGED <<logVars, markerVars, receiptVars, readers, historyVars>>

\* The process that holds the lock is killed in the middle of an operation.
Crash ==
    /\ pc \notin {"idle", "ready", "poisoned"}
    /\ Fault
    /\ Release
    /\ UNCHANGED <<logVars, markerVars, receiptVars, readers, historyVars>>

\* The machine loses power: every volatile state collapses to one of the
\* states the medium may hold.
PowerLoss ==
    /\ Fault
    /\ \E f \in disk, m \in markerDisk,
          i \in SUBSET (intents \ intentsDisk),
          c \in SUBSET (completions \ completionsDisk) :
          /\ file' = f
          /\ disk' = {f}
          /\ marker' = m
          /\ markerDisk' = {m}
          /\ intents' = intentsDisk \cup i
          /\ intentsDisk' = intentsDisk \cup i
          /\ completions' = completionsDisk \cup c
          /\ completionsDisk' = completionsDisk \cup c
    /\ Release
    /\ readers' = {}
    /\ UNCHANGED historyVars

-----------------------------------------------------------------------------
\* What the process that holds the exclusive lock does next.
Step ==
    \/ CreateMarker \/ MarkerExists \/ WriteMarker \/ SyncMarker
    \/ WriteUnit \/ SyncLog
    \/ RecordRollbackIntent \/ RollbackRefused
    \/ SyncIntent \/ Truncate \/ SyncTruncation
    \/ LinkCompletion \/ SyncCompletion \/ UnlinkMarker \/ SyncUnlink \/ NoUnlink
    \/ ResumePending \/ SyncMarkedLog \/ ProposeRecovery \/ RecoveryRefused

Next ==
    \/ \E r \in Reader : OpenReader(r) \/ CloseReader(r)
    \/ OpenWriter \/ OpenRefused \/ CloseWriter
    \/ \E events \in Batches : BeginAppend(events)
    \/ Step
    \/ OpenRecovery
    \/ FailMarker \/ FailWrite \/ FailCall \/ Crash \/ PowerLoss

Spec == Init /\ [][Next]_vars

-----------------------------------------------------------------------------
(***************************************************************************)
(* Properties                                                              *)
(***************************************************************************)
PCs == {"idle", "ready", "poisoned", "mark_create", "mark_write", "mark_sync",
        "write", "rollback", "intent_sync", "truncate", "trunc_sync",
        "complete_link", "complete_sync", "unlink", "unlink_sync",
        "recover", "marker_intent"}

MarkerState == {"absent", "partial", "present"}

\* Every variable has its type, the volatile state is one of the states the
\* medium may come to hold, and a process has a program counter of its role.
TypeOK ==
    /\ file \in Seq(Unit)
    /\ disk \subseteq Seq(Unit)
    /\ file \in disk
    /\ marker \in MarkerState
    /\ markerDisk \subseteq MarkerState
    /\ marker \in markerDisk
    /\ intents \subseteq Intent
    /\ intentsDisk \subseteq intents
    /\ completions \subseteq Completion
    /\ completionsDisk \subseteq completions
    /\ holder \in {"none", "writer", "recovery"}
    /\ readers \subseteq Reader
    /\ pc \in PCs
    /\ batch \in Seq(Unit)
    /\ confirmed \in Nat
    /\ job \in Intent \cup {NoIntent}
    /\ acked \in Seq(Unit)
    /\ seen \in Seq(Unit)
    /\ faults \in 0 .. MaxFaults
    /\ holder = "none" <=> pc = "idle"

\* Once append_batch has returned its receipts, the events are in the log
\* whatever crashes, power failures, failed rollbacks and recoveries follow.
AcknowledgedDurable == \A d \in disk : Prefix(acked, d)

\* Once a JournalReader has replayed an event, every later log contains it:
\* no reader ever sees bytes that a rollback or a recovery then removes.
ObservedStable == \A d \in disk : Prefix(seen, d)

\* refuse_pending_markers is a sound gate: while the marker is missing, or
\* could be missing after a power failure, the log is complete and durable.
UngatedLogDurable ==
    markerDisk # {"present"} => disk = {file} /\ ~Torn(file)

\* Completed receipts never contradict the log, nor any log that a power
\* failure could leave: validate_completed_receipts never refuses a journal
\* that only this protocol has written.
ReceiptsAlwaysMatch == \A d \in disk : ReceiptsMatch(d, intents, completions)

\* The receipt directories a power failure could leave always pass
\* recovery_audit: no orphan completion, no second pending intent, no two
\* recoveries of one offset.
AuditAlwaysPasses ==
    \A i \in SUBSET (intents \ intentsDisk),
       c \in SUBSET (completions \ completionsDisk) :
          AuditOK(intentsDisk \cup i, completionsDisk \cup c)

\* Neither the audit nor the comparison with the log ever locks recovery out of
\* a journal by the receipts that recovery itself has written.
ReceiptsConsistent == ReceiptsAlwaysMatch /\ AuditAlwaysPasses

\* While the log is torn or not known to be durable, the receipt limit leaves
\* room for the receipts its recovery needs (reserve_recovery_capacity).
RoomToRecover ==
    (disk # {file} \/ Torn(file)) =>
        Reserve(IF Pending(intents, completions) = {} THEN 2 ELSE 1)

\* The checks that complete_rollback_intent makes before it publishes a
\* completion cannot fail, for the writer and for recovery.
CompletionChecksPass ==
    pc = "complete_link" => /\ Len(file) = job.good
                            /\ file = job.tail
                            /\ disk = {file}

\* Intents that a power failure could leave without their completion.
Open == {i \in intents : i.id \notin Ids(completionsDisk)}

\* Prefixes somebody relies on: a caller, a reader, a completed recovery.
Stables == {acked, seen} \cup {c.post : c \in completions}

\* Those prefixes end at a line end, are in every log the medium may hold and
\* below everything that a rollback or a pending recovery may remove.
StableInv ==
    \A s \in Stables :
       /\ Len(s) % 2 = 0
       /\ \A d \in disk : Prefix(s, d)
       /\ \A i \in Open : Len(s) <= i.good
       /\ pc \in {"write", "rollback"} => Len(s) <= confirmed

\* The receipt directories.
ReceiptInv ==
    /\ \A i, j \in intents : i.id = j.id \/ i.good = j.good => i = j
    /\ \A c, d \in completions : c.id = d.id => c = d
    /\ \A c \in completions : \E i \in intentsDisk : i.id = c.id
    /\ \A i, j \in Open : i = j
    /\ \A i \in intents, c \in completions :
          i.id = c.id => c.post = i.tail /\ Len(c.post) = i.good
    /\ \A i \in Open : /\ i.good % 2 = 0
                       /\ markerDisk # {"present"} => i.good = Len(file)

\* What the exclusive holder knows at each of its steps.
WriterInv ==
    /\ pc \in {"ready", "mark_create", "mark_write", "mark_sync"} =>
          /\ holder = "writer"
          /\ disk = {file}
          /\ ~Torn(file)
          /\ Len(file) = confirmed
          /\ pc # "ready" => Len(batch) % 2 = 0
    /\ pc = "mark_write" => marker # "absent"
    /\ pc = "mark_sync" => marker = "present"
    /\ pc \in {"write", "rollback"} =>
          /\ holder = "writer"
          /\ markerDisk = {"present"}
          /\ confirmed % 2 = 0
          /\ confirmed <= Len(file)
          /\ (Len(file) + Len(batch)) % 2 = 0

JobPCs == {"intent_sync", "truncate", "trunc_sync", "complete_link",
           "complete_sync"}

JobInv ==
    /\ pc \in {"ready", "mark_create", "mark_write", "mark_sync", "write",
              "rollback", "unlink", "unlink_sync", "marker_intent"} => Open = {}
    /\ pc \in {"recover", "marker_intent"} =>
          /\ holder = "recovery"
          /\ completionsDisk = completions
          /\ intentsDisk = intents
    /\ pc \in JobPCs =>
          /\ job \in intents
          /\ \A i \in intents : i = job \/ i.id \in Ids(completionsDisk)
          /\ job.good <= Len(file)
          /\ Upto(file, job.good) = job.tail
          /\ holder = "writer" => job.good = confirmed /\ markerDisk = {"present"}
    /\ pc \in JobPCs \ {"complete_sync"} => job.id \notin Ids(completions)
    /\ pc = "complete_sync" => job.id \in Ids(completions)
    /\ pc \in JobPCs \ {"intent_sync"} => job \in intentsDisk
    /\ pc \in {"intent_sync", "truncate"} => After(file, job.good) = job.discarded
    /\ pc \in {"trunc_sync", "complete_link", "complete_sync"} =>
          Len(file) = job.good
    /\ (pc = "intent_sync" /\ holder = "recovery" /\ job.discarded = <<>>) =>
          disk = {file} /\ Len(file) = job.good
    /\ pc \in {"complete_link", "complete_sync", "unlink", "unlink_sync",
              "marker_intent"} => disk = {file} /\ ~Torn(file)
    /\ (holder = "writer" /\ pc \in {"unlink", "unlink_sync"}) =>
          /\ Len(file) = confirmed
          /\ pc = "unlink" => markerDisk = {"present"}

\* The inductive invariant.
IInv == /\ TypeOK
        /\ StableInv
        /\ UngatedLogDurable
        /\ ReceiptInv
        /\ WriterInv
        /\ JobInv

\* The log could be, or become, other than the complete lines that are durable.
Shaky == disk # {file} \/ Torn(file)

\* Where the writer and recovery have the room that RoomToRecover needs before
\* they make the log shaky.
RoomInv ==
    /\ IsFiniteSet(intents) /\ IsFiniteSet(completions)
    /\ pc \in {"mark_create", "mark_write", "mark_sync", "write", "rollback"} => Reserve(2)
    /\ pc \in {"intent_sync", "truncate"} => Reserve(1)
    /\ RoomToRecover

\* The log is only ever shortened to the offset of a durable intent that has
\* no completion yet and that binds exactly the bytes removed.
ReceiptedTruncation ==
    [][(holder # "none" /\ holder' = holder /\ Len(file') < Len(file)) =>
          \E i \in intentsDisk :
             /\ i.id \notin Ids(completions)
             /\ i.good = Len(file')
             /\ i.discarded = After(file, i.good)]_vars

-----------------------------------------------------------------------------
(***************************************************************************)
(* The stream of events that the journal implements                        *)
(***************************************************************************)

\* The events of the complete lines of f.
EventsOf(f) == [k \in 1 .. Len(f) \div 2 |-> f[2 * k - 1]]

\* The longest prefix that a receipt or a reader has reported.
Reported == IF Len(acked) >= Len(seen) THEN acked ELSE seen

Stream == INSTANCE EventStream WITH
              log <- EventsOf(file),
              possible <- {EventsOf(d) : d \in disk},
              kept <- EventsOf(Reported)

\* The log file, with its marker, its receipts and its recoveries, is a stream
\* whose reported events are never lost, reordered or rewritten; an event is
\* reported only once it cannot be lost (append_batch, reader, recover).
ImplementsStream == Stream!StreamSpec

-----------------------------------------------------------------------------
(***************************************************************************)
(* What the documentation says of recovery                                 *)
(***************************************************************************)

\* docs/adr/0014, section 6: "Recovery handles a complete valid log by
\* publishing an empty-discard receipt before it clears the marker".
MarkedLogRecovers ==
    (/\ holder = "none"
     /\ marker = "present"
     /\ ~Torn(file)
     /\ Pending(intents, completions) = {}
     /\ Reserve(2)) => Proposable(GoodOffset(file))

\* The state in which readers and writers are admitted.
Readable ==
    /\ marker = "absent"
    /\ Pending(intents, completions) = {}
    /\ ~Torn(file)

\* Fairness: the process that holds the lock runs on unless it is killed,
\* readers eventually close, and an operator runs recovery.
FairSpec ==
    /\ Spec
    /\ WF_vars(Step)
    /\ WF_vars(OpenRecovery)
    /\ \A r \in Reader : WF_vars(CloseReader(r))

\* After one fault, a journal whose marker gate is closed becomes readable
\* again by recovery alone.
GateReopens ==
    [](faults <= 1) => ((holder = "none" /\ marker = "present") ~> Readable)

=============================================================================
