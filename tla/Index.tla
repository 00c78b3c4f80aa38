-------------------------------- MODULE Index -------------------------------
(***************************************************************************)
(* The derived index of crates/reviewgraphen-store/src (index.rs,          *)
(* index_v4.rs, index_v5.rs) and the two-pass reports that                 *)
(* crates/reviewgraphen-report/src builds from it.                         *)
(*                                                                         *)
(* A store root has one directory indexes/ with one active image, which    *)
(* all its runs share: a run's event contract fixes the schema (3, 4 or 5) *)
(* of its images and how strongly it locks its log.  An image is the run   *)
(* and the number of events that it was projected from; its hash and its   *)
(* marker stand for these two.  indexes/ is changed by the program alone,  *)
(* so the checks that an entry is still the same inode find it unchanged;  *)
(* a call that they make may fail like any other.                          *)
(*                                                                         *)
(* flock keeps processes apart, first on index.lock, then on the log (for  *)
(* schema 5, on the root and the run before it, always in that order).     *)
(* Power failure: a directory may be on the medium in any state that it    *)
(* went through since it was last synced; a file that was never synced may *)
(* come back torn.                                                         *)
(***************************************************************************)
EXTENDS Naturals, Sequences, FiniteSets

CONSTANTS
    Process,        \* processes that use the index
    Run,            \* runs of the store root
    Schema,         \* the index schema of each run: 3, 4 or 5
    Size,           \* the bytes of each image
    MaxCandidates,  \* max_tmp_gc_entries
    MaxScanBytes,   \* max_tmp_gc_scan_bytes
    MaxEvents,      \* events of a log; the first to reach it ends the appends (a bound
                    \* of the model)
    MaxOps,         \* operations in a behaviour (a bound of the model)
    MaxFaults,      \* failed calls and kills (a bound of the model)
    MaxLosses,      \* power failures (a bound of the model)
    None            \* no file, no image, no operation

ASSUME SchemaAssumption == Schema \in [Run -> {3, 4, 5}]
ASSUME LimitAssumption == {MaxCandidates, MaxScanBytes} \subseteq Nat
ASSUME BoundAssumption == /\ {MaxEvents, MaxOps} \subseteq Nat \ {0}
                          /\ {MaxFaults, MaxLosses} \subseteq Nat

Image == [run : Run, upto : 0 .. MaxEvents]
\* id is the operation that wrote the file; data tells whether its bytes would
\* survive a power failure.
File == [image : Image, id : 1 .. MaxOps, data : {"cached", "durable", "torn"}]
Directory == [active : File \cup {None}, candidates : SUBSET File]
Operation == [kind : {"rebuild", "read", "report"}, run : Run, id : 1 .. MaxOps]

ASSUME SizeAssumption == Size \in [Image -> Nat]
ASSUME NoneAssumption == None \notin File \cup Image \cup Operation

VARIABLES
    tail,       \* the number of events of each run's log
    dir,        \* indexes/ as every process sees it
    disk,       \* the states that indexes/ may have on the medium
    pc,         \* where each process is
    op,         \* the operation it carries out
    indexLock,  \* its lock on index.lock
    logLock,    \* its lock on the log of the operation's run
    file,       \* the file that a rebuild publishes
    snapshot,   \* the image that a read or a report has validated
    seen,       \* the images that the passes of a report have visited
    ops,        \* operations begun so far
    acked,      \* the file of the last rebuild to succeed, until the next rename
    failed,     \* the rebuilds that returned an error other than
                \* PublicationDurabilityUncertain
    faults,     \* failed calls and kills so far
    losses      \* power failures so far

dirVars == <<dir, disk>>
lockVars == <<indexLock, logLock>>
workVars == <<file, snapshot, seen>>
ackVars == <<acked, failed>>
countVars == <<ops, faults, losses>>
vars == <<tail, dirVars, pc, op, lockVars, workVars, ackVars, countVars>>

Mode == {"none", "shared", "exclusive"}

-----------------------------------------------------------------------------
(***************************************************************************)
(* Locks                                                                   *)
(***************************************************************************)
Compatible(m, n) == m = "none" \/ n = "none" \/ (m = "shared" /\ n = "shared")

\* flock of index.lock and of the log of a run, as another process holds them.
IndexFree(p, mode) == \A q \in Process \ {p} : Compatible(indexLock[q], mode)
LogFree(p, r, mode) ==
    \A q \in Process \ {p} : op[q] # None /\ op[q].run = r => Compatible(logLock[q], mode)

IndexMode(p) == IF op[p].kind = "rebuild" THEN "exclusive" ELSE "shared"

\* index_reader; replayed_v3_session, an exclusive writer whatever it is for;
\* replayed_v4_session and replayed_v4_read_only_session.
LogMode(p) ==
    LET s == Schema[op[p].run]
    IN  IF s = 4 \/ (s = 5 /\ op[p].kind = "rebuild") THEN "exclusive" ELSE "shared"

\* Closing the descriptors releases the locks.
Leave(p) ==
    /\ pc' = [pc EXCEPT ![p] = "idle"]
    /\ op' = [op EXCEPT ![p] = None]
    /\ indexLock' = [indexLock EXCEPT ![p] = "none"]
    /\ logLock' = [logLock EXCEPT ![p] = "none"]
    /\ file' = [file EXCEPT ![p] = None]
    /\ snapshot' = [snapshot EXCEPT ![p] = None]
    /\ seen' = [seen EXCEPT ![p] = <<>>]

Goto(p, l) == pc' = [pc EXCEPT ![p] = l]

Begin(p, kind, r) ==
    /\ pc[p] = "idle" /\ ops < MaxOps
    /\ kind = "report" => Schema[r] # 3
    /\ ops' = ops + 1
    /\ op' = [op EXCEPT ![p] = [kind |-> kind, run |-> r, id |-> ops + 1]]
    /\ Goto(p, "index")
    /\ UNCHANGED <<tail, dirVars, lockVars, workVars, ackVars, faults, losses>>

\* Mutant: a rebuild locks the log of its run before index.lock.
LockIndexAfterLog(p) ==
    /\ pc[p] = "index"
    /\ IF op[p].kind = "rebuild" /\ logLock[p] = "none"
       THEN /\ LogFree(p, op[p].run, LogMode(p))
            /\ logLock' = [logLock EXCEPT ![p] = LogMode(p)]
            /\ UNCHANGED <<pc, indexLock>>
       ELSE /\ IndexFree(p, IndexMode(p))
            /\ indexLock' = [indexLock EXCEPT ![p] = IndexMode(p)]
            /\ Goto(p, "audit")
            /\ UNCHANGED logLock
    /\ UNCHANGED <<tail, dirVars, op, workVars, ackVars, countVars>>

LockIndex(p) ==
    /\ pc[p] = "index"
    /\ IndexFree(p, IndexMode(p))
    /\ indexLock' = [indexLock EXCEPT ![p] = IndexMode(p)]
    /\ Goto(p, "audit")
    /\ UNCHANGED <<tail, dirVars, op, logLock, workVars, ackVars, countVars>>

LockLog(p) ==
    /\ pc[p] = "log"
    /\ LogFree(p, op[p].run, LogMode(p))
    /\ logLock' = [logLock EXCEPT ![p] = LogMode(p)]
    /\ Goto(p, IF op[p].kind = "rebuild" THEN "build" ELSE "compare")
    /\ UNCHANGED <<tail, dirVars, op, indexLock, workVars, ackVars, countVars>>

-----------------------------------------------------------------------------
(***************************************************************************)
(* The directory                                                           *)
(***************************************************************************)
Change(d) == dir' = d /\ disk' = disk \cup {d}
Sync == disk' = {dir} /\ UNCHANGED dir

\* apparent_bytes, the sum of the sizes of the candidates.
ApparentBytes(d) == Cardinality(UNION {{f} \X (1 .. Size[f.image]) : f \in d.candidates})

\* audit_candidates refuses more candidates than max_tmp_gc_entries, and more
\* bytes of them than max_tmp_gc_scan_bytes.
Admits(d) ==
    /\ Cardinality(d.candidates) <= MaxCandidates
    /\ ApparentBytes(d) <= MaxScanBytes

\* Mutant: a rebuild removes no candidate that an earlier one left.
AuditedNever(p) == FALSE

\* It removes the candidates that it admits for a rebuild.  publish_image_locked audits again,
\* and under the exclusive lock finds the directory as the first audit left it.
Audited(p) == op[p].kind = "rebuild" /\ dir.candidates # {}

Audit(p) ==
    /\ pc[p] = "audit"
    /\ IF Admits(dir)
       THEN /\ IF Audited(p)
               THEN Change([dir EXCEPT !.candidates = {}]) /\ Goto(p, "auditsync")
               ELSE UNCHANGED dirVars /\ Goto(p, "log")
            /\ UNCHANGED <<op, lockVars, workVars>>
       ELSE Leave(p) /\ UNCHANGED dirVars
    /\ UNCHANGED <<tail, ackVars, countVars>>

SyncAudit(p) ==
    /\ pc[p] = "auditsync"
    /\ Sync
    /\ Goto(p, "log")
    /\ UNCHANGED <<tail, op, lockVars, workVars, ackVars, countVars>>

-----------------------------------------------------------------------------
(***************************************************************************)
(* Rebuild and publication                                                 *)
(***************************************************************************)
\* The image that a log projects to; the file is unnamed (O_TMPFILE).
Build(p) ==
    /\ pc[p] = "build"
    /\ file' = [file EXCEPT ![p] = [image |-> [run |-> op[p].run, upto |-> tail[op[p].run]],
                                    id |-> op[p].id, data |-> "cached"]]
    /\ Goto(p, "sync")
    /\ UNCHANGED <<tail, dirVars, op, lockVars, snapshot, seen, ackVars, countVars>>

\* Mutant: the candidate gets its name before its bytes are synced.
SyncFileSkipped(p) ==
    /\ pc[p] = "sync"
    /\ Goto(p, "link")
    /\ UNCHANGED <<tail, dirVars, op, lockVars, workVars, ackVars, countVars>>

SyncFile(p) ==
    /\ pc[p] = "sync"
    /\ file' = [file EXCEPT ![p].data = "durable"]
    /\ Goto(p, "link")
    /\ UNCHANGED <<tail, dirVars, op, lockVars, snapshot, seen, ackVars, countVars>>

Link(p) ==
    /\ pc[p] = "link"
    /\ Change([dir EXCEPT !.candidates = @ \cup {file[p]}])
    /\ Goto(p, "linksync")
    /\ UNCHANGED <<tail, op, lockVars, workVars, ackVars, countVars>>

SyncLink(p) ==
    /\ pc[p] = "linksync"
    /\ Sync
    /\ Goto(p, "rename")
    /\ UNCHANGED <<tail, op, lockVars, workVars, ackVars, countVars>>

\* The candidate is opened again, hashed and validated before the rename.
Rename(p) ==
    /\ pc[p] = "rename"
    /\ file[p] \in dir.candidates
    /\ Change([active |-> file[p], candidates |-> dir.candidates \ {file[p]}])
    /\ acked' = None
    /\ Goto(p, "activesync")
    /\ UNCHANGED <<tail, op, lockVars, workVars, failed, countVars>>

\* The active entry is opened and hashed again, and its directory synced.
SyncActive(p) ==
    /\ pc[p] = "activesync"
    /\ Sync
    /\ Goto(p, "verify")
    /\ UNCHANGED <<tail, op, lockVars, workVars, ackVars, countVars>>

\* verify_unchanged looks at index.lock once more before the receipt is returned.
Verified(p) ==
    /\ pc[p] = "verify"
    /\ acked' = file[p]
    /\ Leave(p)
    /\ UNCHANGED <<tail, dirVars, failed, countVars>>

\* Mutant: a failure after the rename is reported as any other.
AnswersNeverUncertain(p) == {"error"}

\* What the caller of a rebuild is told of a failed call.  A failure between
\* the rename and the sync that follows it is PublicationDurabilityUncertain.
\* For schema 3 verify_unchanged runs after a failed publication as well, and
\* its own error takes the place of that answer.  Once the directory is synced,
\* a failure of verify_unchanged is an error like those before the rename.
Answers(p) ==
    IF pc[p] # "activesync" THEN {"error"}
    ELSE {"uncertain"} \cup (IF Schema[op[p].run] = 3 THEN {"error"} ELSE {})

\* A call that fails, or a kill; a rename is never rolled back.
Fail(p) ==
    /\ pc[p] # "idle" /\ faults < MaxFaults
    /\ faults' = faults + 1
    /\ \E answer \in Answers(p) :
          failed' = IF op[p].kind = "rebuild" /\ answer = "error"
                    THEN failed \cup {op[p].id} ELSE failed
    /\ Leave(p)
    /\ UNCHANGED <<tail, dirVars, acked, ops, losses>>

-----------------------------------------------------------------------------
(***************************************************************************)
(* Reading                                                                 *)
(***************************************************************************)
Readable == dir.active # None /\ dir.active.data # "torn"
Current(p) == [run |-> op[p].run, upto |-> tail[op[p].run]]

\* snapshot_current and validated_snapshot_current_v4 and _v5: the image must
\* be of this run, hence of its schema, and have the log's tail.
Validated(p) == Readable /\ dir.active.image = Current(p)

Compare(p) ==
    /\ pc[p] = "compare" /\ snapshot[p] = None
    /\ Validated(p)
    /\ snapshot' = [snapshot EXCEPT ![p] = dir.active.image]
    /\ Goto(p, "served")
    /\ UNCHANGED <<tail, dirVars, op, lockVars, file, seen, ackVars, countVars>>

\* Mutant: a pass trusts the image hash and does not look at the log again.
RevisitableByImage(p) == Readable /\ dir.active.image = snapshot[p]

\* visit_selection: the log and the image must still be those of the snapshot.
Revisitable(p) ==
    /\ Current(p) = snapshot[p]
    /\ Readable /\ dir.active.image = snapshot[p]

Visit(p) ==
    /\ pc[p] = "compare" /\ snapshot[p] # None
    /\ Revisitable(p)
    /\ seen' = [seen EXCEPT ![p] = Append(@, dir.active.image)]
    /\ Goto(p, "served")
    /\ UNCHANGED <<tail, dirVars, op, lockVars, file, snapshot, ackVars, countVars>>

ReadRefused(p) ==
    /\ pc[p] = "compare"
    /\ ~(IF snapshot[p] = None THEN Validated(p) ELSE Revisitable(p))
    /\ Leave(p)
    /\ UNCHANGED <<tail, dirVars, ackVars, countVars>>

\* A read and the second pass of a report end the operation.
Finished(p) == op[p].kind = "read" \/ Len(seen[p]) = 2

Finish(p) ==
    /\ pc[p] = "served" /\ Finished(p)
    /\ Leave(p)
    /\ UNCHANGED <<tail, dirVars, ackVars, countVars>>

\* Between the passes of a report no lock is held, except that
\* ValidatedIndexSnapshotV5 keeps its shared lock on the index.
Release(p) ==
    /\ pc[p] = "served" /\ ~Finished(p)
    /\ logLock' = [logLock EXCEPT ![p] = "none"]
    /\ indexLock' = [indexLock EXCEPT ![p] = IF Schema[op[p].run] = 5 THEN @ ELSE "none"]
    /\ Goto(p, IF seen[p] = <<>> THEN "recheck" ELSE "index")
    /\ UNCHANGED <<tail, dirVars, op, workVars, ackVars, countVars>>

\* generate compares the snapshot with a fresh reader of the journal.
Recheck(p) ==
    /\ pc[p] = "recheck"
    /\ LogFree(p, op[p].run, "shared")
    /\ IF Current(p) = snapshot[p]
       THEN Goto(p, "index") /\ UNCHANGED <<op, lockVars, workVars>>
       ELSE Leave(p)
    /\ UNCHANGED <<tail, dirVars, ackVars, countVars>>

-----------------------------------------------------------------------------
(***************************************************************************)
(* The log, and power failure                                              *)
(***************************************************************************)
\* A session of another process appends an event; it never takes index.lock.
AppendEvent(r) ==
    /\ \A q \in Run : tail[q] < MaxEvents
    /\ \A q \in Process : op[q] # None /\ op[q].run = r => logLock[q] = "none"
    /\ tail' = [tail EXCEPT ![r] = @ + 1]
    /\ UNCHANGED <<dirVars, pc, op, lockVars, workVars, ackVars, countVars>>

Tear(f) == IF f # None /\ f.data = "cached" THEN [f EXCEPT !.data = "torn"] ELSE f
Torn(d) == [active |-> Tear(d.active), candidates |-> {Tear(f) : f \in d.candidates}]

PowerLoss ==
    /\ losses < MaxLosses
    /\ losses' = losses + 1
    /\ \E d \in disk : dir' \in {d, Torn(d)}
    /\ disk' = {dir'}
    /\ pc' = [p \in Process |-> "idle"]
    /\ op' = [p \in Process |-> None]
    /\ indexLock' = [p \in Process |-> "none"]
    /\ logLock' = [p \in Process |-> "none"]
    /\ file' = [p \in Process |-> None]
    /\ snapshot' = [p \in Process |-> None]
    /\ seen' = [p \in Process |-> <<>>]
    /\ UNCHANGED <<tail, ackVars, ops, faults>>

-----------------------------------------------------------------------------
Init ==
    /\ tail = [r \in Run |-> 1]
    /\ dir = [active |-> None, candidates |-> {}]
    /\ disk = {dir}
    /\ pc = [p \in Process |-> "idle"]
    /\ op = [p \in Process |-> None]
    /\ indexLock = [p \in Process |-> "none"]
    /\ logLock = [p \in Process |-> "none"]
    /\ file = [p \in Process |-> None]
    /\ snapshot = [p \in Process |-> None]
    /\ seen = [p \in Process |-> <<>>]
    /\ ops = 0
    /\ acked = None
    /\ failed = {}
    /\ faults = 0
    /\ losses = 0

Publish(p) ==
    \/ Build(p) \/ SyncFile(p) \/ Link(p) \/ SyncLink(p)
    \/ Rename(p) \/ SyncActive(p) \/ Verified(p)

Read(p) ==
    \/ Compare(p) \/ Visit(p) \/ ReadRefused(p) \/ Finish(p) \/ Release(p) \/ Recheck(p)

Step(p) ==
    \/ LockIndex(p) \/ LockLog(p)
    \/ Audit(p) \/ SyncAudit(p)
    \/ Publish(p)
    \/ Read(p)

Next ==
    \/ \E p \in Process :
        \/ \E kind \in {"rebuild", "read", "report"}, r \in Run : Begin(p, kind, r)
        \/ Step(p)
        \/ Fail(p)
    \/ \E r \in Run : AppendEvent(r)
    \/ PowerLoss

Spec == Init /\ [][Next]_vars

\* A process that can run runs; flock lets a waiting process in once no other
\* holds the lock.
FairSpec == Spec /\ \A p \in Process : WF_vars(Step(p))

-----------------------------------------------------------------------------
(***************************************************************************)
(* Properties                                                              *)
(***************************************************************************)
\* Every variable has its type.
TypeOK ==
    /\ tail \in [Run -> 0 .. MaxEvents]
    /\ dir \in Directory
    /\ disk \subseteq Directory
    /\ pc \in [Process -> {"idle", "index", "audit", "auditsync", "log", "build", "sync",
                           "link", "linksync", "rename", "activesync", "verify", "compare",
                           "served", "recheck"}]
    /\ op \in [Process -> Operation \cup {None}]
    /\ indexLock \in [Process -> Mode]
    /\ logLock \in [Process -> Mode]
    /\ file \in [Process -> File \cup {None}]
    /\ snapshot \in [Process -> Image \cup {None}]
    /\ seen \in [Process -> {<<>>} \cup (Image \X Image) \cup {<<i>> : i \in Image}]
    /\ ops \in 0 .. MaxOps
    /\ acked \in File \cup {None}
    /\ failed \subseteq 1 .. MaxOps
    /\ faults \in 0 .. MaxFaults
    /\ losses \in 0 .. MaxLosses

\* Whatever appends and rebuilds happen between the steps of a reader, the rows
\* that it is served are those of its run's log as the log is at that moment,
\* and both passes of a report are served the same rows as its snapshot
\* (snapshot_current, validated_snapshot_current_v4 and _v5, visit_selection).
ReadsAreCurrent ==
    \A p \in Process : pc[p] = "served" =>
        /\ snapshot[p] = Current(p)
        /\ \A i \in 1 .. Len(seen[p]) : seen[p][i] = Current(p)

\* The active image is the whole of some rebuild's image, and would be after a
\* power failure at any moment (publish_image_locked syncs the candidate before
\* it has a name).
ActiveIsWhole ==
    \A d \in disk \cup {dir} : d.active # None => d.active.data = "durable"

\* Once a rebuild has returned its receipt, its image is the active one after
\* any crash or power failure, until another rebuild renames over it.
ReceiptsSurvive ==
    acked # None => \A d \in disk \cup {dir} : d.active = acked

\* An error other than PublicationDurabilityUncertain leaves nothing undecided,
\* though it may come after the image was published: while the image of a
\* rebuild that returned one is active, it is active after any power failure.
\* (Of schema 3 this cannot be said: verify_unchanged may hide the uncertainty.)
ErrorsAreDecided ==
    dir.active # None /\ dir.active.id \in failed /\ Schema[dir.active.image.run] # 3 =>
        \A d \in disk : d.active = dir.active

\* Publication is atomic and durable as the caller was told: the active image
\* is always a whole one, a receipt means that it stays, and any error but
\* PublicationDurabilityUncertain that power failures change nothing about
\* which image is active (publish_image_locked, verify_unchanged).
PublicationAtomic == ActiveIsWhole /\ ReceiptsSurvive /\ ErrorsAreDecided

\* However often rebuilds fail, die or lose power half way, they leave at most
\* one candidate behind.  So audit_candidates refuses to read or to rebuild
\* only if the limits cannot take that one: no entry at all may be there, or
\* it alone has more bytes than max_tmp_gc_scan_bytes.
CandidatesStayBounded ==
    \A d \in disk \cup {dir} :
        /\ Cardinality(d.candidates) <= 1
        /\ MaxCandidates >= 1 /\ (\A f \in d.candidates : Size[f.image] <= MaxScanBytes) =>
              Admits(d)

\* No two operations wait for each other's locks: each operation that has
\* begun returns (index.lock is taken before any lock of a log).
OperationsReturn == \A p \in Process : pc[p] # "idle" ~> pc[p] = "idle"

-----------------------------------------------------------------------------
(***************************************************************************)
(* The inductive invariant                                                 *)
(***************************************************************************)
Publishing == {"auditsync", "build", "sync", "link", "linksync", "rename", "activesync",
               "verify"}
Named == {"link", "linksync", "rename", "activesync", "verify"}

\* Who holds which lock at which step: a rebuild has index.lock to itself from
\* its audit to its end, and whoever looks at a log holds its lock.
LeaseInv ==
    /\ \A p \in Process :
        /\ op[p] = None <=> pc[p] = "idle"
        /\ pc[p] \in Publishing => op[p].kind = "rebuild"
        /\ pc[p] \in {"compare", "served", "recheck"} => op[p].kind # "rebuild"
        /\ pc[p] \notin {"idle", "index", "recheck"} => indexLock[p] = IndexMode(p)
        /\ pc[p] \in {"idle", "index", "recheck"} => indexLock[p] # "exclusive"
        /\ pc[p] \in {"build", "compare", "served"} => logLock[p] # "none"
    /\ \A p, q \in Process : p # q => Compatible(indexLock[p], indexLock[q])

\* What a reader has seen so far is its snapshot, and never more than two passes.
ReadInv ==
    \A p \in Process :
        /\ snapshot[p] = None => seen[p] = <<>>
        /\ pc[p] # "served" => Len(seen[p]) < 2
        /\ \A i \in 1 .. Len(seen[p]) : seen[p][i] = snapshot[p]
        /\ pc[p] = "served" => snapshot[p] = Current(p)

\* The file of a rebuild is its own, has its bytes on the medium before it has
\* a name, and nobody else changes the directory while it is published.
FileInv ==
    \A p \in Process :
        /\ pc[p] \in {"sync"} \cup Named =>
              file[p] # None /\ file[p].id = op[p].id /\ file[p].image.run = op[p].run
        /\ pc[p] \in Named => file[p].data = "durable"
        /\ pc[p] \in {"activesync", "verify"} => dir.active = file[p]
        /\ pc[p] = "verify" => \A d \in disk : d.active = file[p]
        /\ pc[p] \in {"auditsync", "log", "build", "sync", "link"} /\ op[p].kind = "rebuild" =>
              dir.candidates = {}

\* At most one candidate, now or after a power failure.
CandidateInv ==
    \A d \in disk \cup {dir} : \A f, g \in d.candidates : f = g

\* Operations are told apart by their numbers; an operation has replaced the
\* active image only if it has come to the steps that follow its rename.
NumberInv ==
    /\ failed \subseteq 1 .. ops
    /\ \A d \in disk \cup {dir} : d.active # None => d.active.id <= ops
    /\ \A p \in Process : op[p] # None =>
        /\ op[p].id <= ops /\ op[p].id \notin failed
        /\ \A q \in Process : op[q] # None /\ op[q].id = op[p].id => q = p
        /\ pc[p] \notin {"activesync", "verify"} =>
              \A d \in disk \cup {dir} : d.active # None => d.active.id # op[p].id

\* Everything above together is preserved by every step.
IInv == /\ TypeOK
        /\ LeaseInv
        /\ ReadInv
        /\ FileInv
        /\ CandidateInv
        /\ NumberInv
        /\ PublicationAtomic

=============================================================================
