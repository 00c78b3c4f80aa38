-------------------------------- MODULE Cas --------------------------------
(***************************************************************************)
(* The content-addressed store (crates/reviewgraphen-store/src/lib.rs):    *)
(* CasStore::put, read and gc_tmp, run by any number of processes over one *)
(* artifacts directory.  Every call may fail, a process may be killed and  *)
(* the machine may lose power between any two calls.                       *)
(*                                                                         *)
(* A hash stands for the bytes that hash to it.  Junk is any content that  *)
(* hashes to no key in use: the empty file, a partial write, other bytes.  *)
(* The directories artifacts, sha256 and tmp exist from the start; the     *)
(* prefix directories below sha256 are created on demand.                  *)
(***************************************************************************)
EXTENDS Naturals, FiniteSets

CONSTANTS
    Hash,        \* CasHash: the keys, and the bytes they name
    Junk,        \* bytes that no key names
    Dir,         \* prefix directories below sha256
    DirOf,       \* CasHash::prefix
    Temp,        \* staging inodes, each with its own random name in tmp
    NoTemp,      \* no inode
    Writer,      \* processes that call put
    Collector,   \* the process that calls gc_tmp
    NoOne,       \* nobody holds the lease
    MaxFaults    \* number of faults in a behaviour (a bound of the model)

ASSUME CasAssumption == /\ Junk \notin Hash
                        /\ DirOf \in [Hash -> Dir]
                        /\ NoTemp \notin Temp
                        /\ Collector \notin Writer
                        /\ NoOne \notin Writer \cup {Collector}
                        /\ MaxFaults \in Nat

VARIABLES
    (***********************************************************************)
    (* The artifacts directory.  A variable whose name ends in Disk says   *)
    (* what a power failure leaves of its volatile counterpart.            *)
    (***********************************************************************)
    dirs,       \* prefix directories that exist
    dirsDisk,   \* those no power failure can remove
    entry,      \* the inode each key names in its prefix directory
    entryDisk,  \* keys whose entry is durable in its prefix directory
    data,       \* the bytes of each inode
    synced,     \* inodes whose bytes are durable
    tmp,        \* inodes named in artifacts/tmp
    tmpDisk,    \* inodes a power failure may leave named there
    used,       \* inodes created so far
    aged,       \* inodes not modified for min_tmp_gc_age
    lease,      \* who holds the flock on each inode
    (***********************************************************************)
    (* The calls of put.                                                   *)
    (***********************************************************************)
    pc, want, mine, result,
    (***********************************************************************)
    (* The pass of gc_tmp.                                                 *)
    (***********************************************************************)
    gcPc,       \* where the pass is
    todo,       \* directory entries still to visit
    target,     \* the entry the pass has opened
    swept,      \* whether the latest pass reported success
    (***********************************************************************)
    (* History.                                                            *)
    (***********************************************************************)
    stale,      \* what was collectable when the latest pass began
    fresh,      \* keys for which put returned existed = false
    faults

treeVars == <<dirs, dirsDisk, entry, entryDisk>>
inodeVars == <<data, synced>>
tmpVars == <<tmp, tmpDisk>>
putVars == <<pc, want, mine, result>>
gcVars == <<gcPc, todo, target, swept, stale>>
historyVars == <<fresh>>
vars == <<treeVars, inodeVars, tmpVars, used, aged, lease, putVars, gcVars,
          historyVars, faults>>

Visible(h) == entry[h] # NoTemp

\* CasStore::read and CasReader::read: the bytes found under a key are
\* returned only if they hash to it.
Read(h) == IF ~Visible(h) THEN "MissingArtifact"
           ELSE IF data[entry[h]] = h THEN "ok" ELSE "CorruptedArtifact"

Init ==
    /\ dirs = {}
    /\ dirsDisk = {}
    /\ entry = [h \in Hash |-> NoTemp]
    /\ entryDisk = {}
    /\ data = [t \in Temp |-> Junk]
    /\ synced = {}
    /\ tmp = {}
    /\ tmpDisk = {}
    /\ used = {}
    /\ aged = {}
    /\ lease = [t \in Temp |-> NoOne]
    /\ pc = [w \in Writer |-> "idle"]
    /\ want \in [Writer -> Hash]
    /\ mine = [w \in Writer |-> NoTemp]
    /\ result = [w \in Writer |-> "none"]
    /\ gcPc = "idle"
    /\ todo = {}
    /\ target = NoTemp
    /\ swept = FALSE
    /\ stale = {}
    /\ fresh = {}
    /\ faults = 0

-----------------------------------------------------------------------------
(***************************************************************************)
(* put                                                                     *)
(***************************************************************************)
At(w, l) == pc[w] = l
Goto(w, l) == pc' = [pc EXCEPT ![w] = l]
Outcome(w, r) == result' = [result EXCEPT ![w] = r]

\* create_temp: the inode is made anonymously, locked, and only then named,
\* so nothing of it is visible before the lease is held.
CreateTemp(w, h, t) ==
    /\ At(w, "idle") /\ Goto(w, "stream")
    /\ t \notin used
    /\ want' = [want EXCEPT ![w] = h]
    /\ mine' = [mine EXCEPT ![w] = t]
    /\ Outcome(w, "none")
    /\ used' = used \cup {t}
    /\ lease' = [lease EXCEPT ![t] = w]
    /\ tmp' = tmp \cup {t}
    /\ tmpDisk' = tmpDisk \cup {t}
    /\ UNCHANGED <<treeVars, inodeVars, aged, gcVars, historyVars, faults>>

\* Mutant: the hash of what was written is not compared with the key.
StreamUnchecked(w, c) ==
    /\ At(w, "stream") /\ Goto(w, "sync")
    /\ data' = [data EXCEPT ![mine[w]] = c]
    /\ aged' = aged \ {mine[w]}
    /\ UNCHANGED <<treeVars, synced, tmpVars, used, lease, want, mine, result,
                   gcVars, historyVars, faults>>

\* The input is copied and hashed: c is what was written.  A stream error, a
\* size over its limit or unlike the declared one, and a wrong hash all abort.
Stream(w, c) ==
    /\ At(w, "stream")
    /\ data' = [data EXCEPT ![mine[w]] = c]
    /\ aged' = aged \ {mine[w]}
    /\ \/ c = want[w] /\ Goto(w, "sync") /\ UNCHANGED result
       \/ c # want[w] /\ Goto(w, "unlink") /\ Outcome(w, "err")
    /\ UNCHANGED <<treeVars, synced, tmpVars, used, lease, want, mine, gcVars,
                   historyVars, faults>>

\* Mutant: the bytes are published without File::sync_all.
SyncTempSkipped(w) ==
    /\ At(w, "sync") /\ Goto(w, "mkdir")
    /\ UNCHANGED <<treeVars, inodeVars, tmpVars, used, aged, lease, want, mine,
                   result, gcVars, historyVars, faults>>

SyncTemp(w) ==
    /\ At(w, "sync") /\ Goto(w, "mkdir")
    /\ synced' = synced \cup {mine[w]}
    /\ UNCHANGED <<treeVars, data, tmpVars, used, aged, lease, want, mine,
                   result, gcVars, historyVars, faults>>

\* open_or_create_dir: only the process that creates the directory syncs its
\* parent.
MakePrefix(w) ==
    /\ At(w, "mkdir")
    /\ \/ DirOf[want[w]] \in dirs /\ Goto(w, "publish") /\ UNCHANGED dirs
       \/ /\ DirOf[want[w]] \notin dirs
          /\ Goto(w, "sync_parent")
          /\ dirs' = dirs \cup {DirOf[want[w]]}
    /\ UNCHANGED <<dirsDisk, entry, entryDisk, inodeVars, tmpVars, used, aged,
                   lease, want, mine, result, gcVars, historyVars, faults>>

SyncParent(w) ==
    /\ At(w, "sync_parent") /\ Goto(w, "publish")
    /\ dirsDisk' = dirs
    /\ UNCHANGED <<dirs, entry, entryDisk, inodeVars, tmpVars, used, aged,
                   lease, want, mine, result, gcVars, historyVars, faults>>

\* Mutant: a publication that replaces what is there.
PublishReplacing(w) ==
    /\ At(w, "publish") /\ Goto(w, "sync_prefix")
    /\ entry' = [entry EXCEPT ![want[w]] = mine[w]]
    /\ tmp' = tmp \ {mine[w]}
    /\ UNCHANGED <<dirs, dirsDisk, entryDisk, inodeVars, tmpDisk, used, aged,
                   lease, want, mine, result, gcVars, historyVars, faults>>

\* publish_create_only: linkat, or renameat2 with RENAME_NOREPLACE where the
\* file system has no hard links.
Publish(w) ==
    /\ At(w, "publish")
    /\ \/ /\ ~Visible(want[w])
          /\ Goto(w, "sync_prefix")
          /\ entry' = [entry EXCEPT ![want[w]] = mine[w]]
          /\ tmp' \in {tmp, tmp \ {mine[w]}}
       \/ Visible(want[w]) /\ Goto(w, "verify") /\ UNCHANGED <<entry, tmp>>
    /\ UNCHANGED <<dirs, dirsDisk, entryDisk, inodeVars, tmpDisk, used, aged,
                   lease, want, mine, result, gcVars, historyVars, faults>>

\* Mutant: the prefix directory is not synced after the link.
SyncPrefixSkipped(w) ==
    /\ At(w, "sync_prefix") /\ Goto(w, "unlink") /\ Outcome(w, "fresh")
    /\ UNCHANGED <<treeVars, inodeVars, tmpVars, used, aged, lease, want, mine,
                   gcVars, historyVars, faults>>

SyncPrefix(w) ==
    /\ At(w, "sync_prefix") /\ Goto(w, "unlink") /\ Outcome(w, "fresh")
    /\ entryDisk' = entryDisk \cup
            {h \in Hash : Visible(h) /\ DirOf[h] = DirOf[want[w]]}
    /\ UNCHANGED <<dirs, dirsDisk, entry, inodeVars, tmpVars, used, aged, lease,
                   want, mine, gcVars, historyVars, faults>>

\* EEXIST: the object that is there is read back and rehashed.
VerifyExisting(w) ==
    /\ At(w, "verify") /\ Goto(w, "unlink")
    /\ Outcome(w, IF Read(want[w]) = "ok" THEN "existed" ELSE "err")
    /\ UNCHANGED <<treeVars, inodeVars, tmpVars, used, aged, lease, want, mine,
                   gcVars, historyVars, faults>>

\* The cleanup after every outcome; ENOENT skips the fsync.
UnlinkTemp(w) ==
    /\ At(w, "unlink")
    /\ Goto(w, IF mine[w] \in tmp THEN "sync_tmp" ELSE "return")
    /\ tmp' = tmp \ {mine[w]}
    /\ UNCHANGED <<treeVars, inodeVars, tmpDisk, used, aged, lease, want, mine,
                   result, gcVars, historyVars, faults>>

SyncTmp(w) ==
    /\ At(w, "sync_tmp") /\ Goto(w, "return")
    /\ tmpDisk' = tmp
    /\ UNCHANGED <<treeVars, inodeVars, tmp, used, aged, lease, want, mine,
                   result, gcVars, historyVars, faults>>

\* The lease goes with the descriptor.
Drop(w) ==
    /\ Goto(w, "idle")
    /\ lease' = [lease EXCEPT ![mine[w]] = NoOne]
    /\ mine' = [mine EXCEPT ![w] = NoTemp]
    /\ Outcome(w, "none")
    /\ UNCHANGED want

Return(w) ==
    /\ At(w, "return")
    /\ fresh' = fresh \cup {h \in {want[w]} : result[w] = "fresh"}
    /\ Drop(w)
    /\ UNCHANGED <<treeVars, inodeVars, tmpVars, used, aged, gcVars, faults>>

-----------------------------------------------------------------------------
(***************************************************************************)
(* gc_tmp                                                                  *)
(***************************************************************************)

\* Time passes.
Age(t) ==
    /\ t \in tmp \ aged
    /\ aged' = aged \cup {t}
    /\ UNCHANGED <<treeVars, inodeVars, tmpVars, used, lease, putVars, gcVars,
                   historyVars, faults>>

\* The directory is opened and its entries are read.
GcStart ==
    /\ gcPc = "idle"
    /\ gcPc' = "scan"
    /\ todo' = tmp
    /\ stale' = {t \in tmp \cap aged : lease[t] = NoOne}
    /\ swept' = FALSE
    /\ UNCHANGED <<treeVars, inodeVars, tmpVars, used, aged, lease, putVars,
                   target, historyVars, faults>>

\* An entry that is gone or young is passed over, any other one is opened.
GcVisit(t) ==
    /\ gcPc = "scan"
    /\ t \in todo
    /\ todo' = todo \ {t}
    /\ \/ t \in tmp \cap aged /\ gcPc' = "opened" /\ target' = t
       \/ t \notin tmp \cap aged /\ UNCHANGED <<gcPc, target>>
    /\ UNCHANGED <<treeVars, inodeVars, tmpVars, used, aged, lease, putVars,
                   swept, stale, historyVars, faults>>

\* Mutant: a held lease does not stop the collector.
GcLockForced ==
    /\ gcPc = "opened"
    /\ gcPc' = "locked"
    /\ lease' = [lease EXCEPT ![target] = Collector]
    /\ UNCHANGED <<treeVars, inodeVars, tmpVars, used, aged, putVars, todo,
                   target, swept, stale, historyVars, faults>>

\* The non-blocking exclusive flock.
GcLock ==
    /\ gcPc = "opened"
    /\ \/ /\ lease[target] = NoOne
          /\ gcPc' = "locked"
          /\ lease' = [lease EXCEPT ![target] = Collector]
          /\ UNCHANGED target
       \/ /\ lease[target] # NoOne
          /\ gcPc' = "scan"
          /\ target' = NoTemp
          /\ UNCHANGED lease
    /\ UNCHANGED <<treeVars, inodeVars, tmpVars, used, aged, putVars, todo,
                   swept, stale, historyVars, faults>>

\* The name goes, the descriptor is dropped; the directory is not synced.
GcUnlink ==
    /\ gcPc = "locked"
    /\ gcPc' = "scan"
    /\ tmp' = tmp \ {target}
    /\ lease' = [lease EXCEPT ![target] = NoOne]
    /\ target' = NoTemp
    /\ UNCHANGED <<treeVars, inodeVars, tmpDisk, used, aged, putVars, todo,
                   swept, stale, historyVars, faults>>

GcEnd ==
    /\ gcPc = "scan" /\ todo = {}
    /\ gcPc' = "idle"
    /\ swept' = TRUE
    /\ UNCHANGED <<treeVars, inodeVars, tmpVars, used, aged, lease, putVars,
                   todo, target, stale, historyVars, faults>>

\* max_tmp_gc_entries or max_tmp_gc_scan_bytes is met, or a call fails, with
\* entries left: the pass ends in an error.
GcIncomplete ==
    /\ gcPc = "scan" /\ todo # {}
    /\ gcPc' = "idle"
    /\ stale' = {}
    /\ todo' = {}
    /\ UNCHANGED <<treeVars, inodeVars, tmpVars, used, aged, lease, putVars,
                   target, swept, historyVars, faults>>

-----------------------------------------------------------------------------
(***************************************************************************)
(* Faults                                                                  *)
(***************************************************************************)
Fault == faults < MaxFaults /\ faults' = faults + 1

\* A system call of put returns an error.  Before the cleanup this leads to
\* it; a failed cleanup turns a receipt into an error.
FailCall(w) ==
    /\ Fault
    /\ pc[w] \in {"sync", "mkdir", "sync_parent", "publish", "sync_prefix",
                  "verify", "unlink", "sync_tmp"}
    /\ Goto(w, IF pc[w] \in {"unlink", "sync_tmp"} THEN "return" ELSE "unlink")
    /\ Outcome(w, "err")
    /\ UNCHANGED <<treeVars, inodeVars, tmpVars, used, aged, lease, want, mine,
                   gcVars, historyVars>>

\* The process that runs put is killed.
Kill(w) ==
    /\ Fault
    /\ ~At(w, "idle")
    /\ Drop(w)
    /\ UNCHANGED <<treeVars, inodeVars, tmpVars, used, aged, gcVars,
                   historyVars>>

\* The process that runs gc_tmp is killed.
GcKill ==
    /\ Fault
    /\ gcPc # "idle"
    /\ gcPc' = "idle"
    /\ stale' = {}
    /\ todo' = {}
    /\ target' = NoTemp
    /\ lease' = [t \in Temp |->
                    IF lease[t] = Collector THEN NoOne ELSE lease[t]]
    /\ UNCHANGED <<treeVars, inodeVars, tmpVars, used, aged, putVars, swept,
                   historyVars>>

\* Power fails.  ds are the prefix directories and es the keys that are left,
\* ts the names left in tmp, lost the inodes whose unsynced bytes are gone.
PowerLoss(ds, es, ts, lost) ==
    /\ Fault
    /\ dirsDisk \subseteq ds
    /\ {h \in entryDisk : DirOf[h] \in ds} \subseteq es
    /\ \A h \in es : Visible(h) /\ DirOf[h] \in ds
    /\ dirs' = ds
    /\ dirsDisk' = ds
    /\ entry' = [h \in Hash |-> IF h \in es THEN entry[h] ELSE NoTemp]
    /\ entryDisk' = es
    /\ data' = [t \in Temp |-> IF t \in lost THEN Junk ELSE data[t]]
    /\ synced' = used
    /\ tmp' = ts
    /\ tmpDisk' = ts
    /\ lease' = [t \in Temp |-> NoOne]
    /\ pc' = [w \in Writer |-> "idle"]
    /\ mine' = [w \in Writer |-> NoTemp]
    /\ result' = [w \in Writer |-> "none"]
    /\ gcPc' = "idle"
    /\ todo' = {}
    /\ target' = NoTemp
    /\ swept' = FALSE
    /\ stale' = {}
    /\ UNCHANGED <<used, aged, want, historyVars>>

-----------------------------------------------------------------------------
Next ==
    \/ \E w \in Writer, h \in Hash, t \in Temp : CreateTemp(w, h, t)
    \/ \E w \in Writer, c \in Hash \cup {Junk} : Stream(w, c)
    \/ \E w \in Writer : \/ SyncTemp(w) \/ MakePrefix(w) \/ SyncParent(w)
                         \/ Publish(w) \/ SyncPrefix(w) \/ VerifyExisting(w)
                         \/ UnlinkTemp(w) \/ SyncTmp(w) \/ Return(w)
    \/ \E t \in Temp : Age(t) \/ GcVisit(t)
    \/ GcStart \/ GcLock \/ GcUnlink \/ GcEnd \/ GcIncomplete
    \/ \E w \in Writer : FailCall(w) \/ Kill(w)
    \/ GcKill
    \/ \E ds \in SUBSET dirs, es \in SUBSET Hash, ts \in SUBSET tmpDisk,
          lost \in SUBSET (used \ synced) : PowerLoss(ds, es, ts, lost)

Spec == Init /\ [][Next]_vars

-----------------------------------------------------------------------------
(***************************************************************************)
(* Properties                                                              *)
(***************************************************************************)
PCs == {"idle", "stream", "sync", "mkdir", "sync_parent", "publish",
        "sync_prefix", "verify", "unlink", "sync_tmp", "return"}

\* Every variable has its type; what is durable is part of what exists.
TypeOK ==
    /\ dirs \in SUBSET Dir /\ dirsDisk \in SUBSET dirs
    /\ entry \in [Hash -> Temp \cup {NoTemp}]
    /\ entryDisk \in SUBSET Hash
    /\ data \in [Temp -> Hash \cup {Junk}]
    /\ used \in SUBSET Temp /\ synced \in SUBSET used
    /\ tmpDisk \in SUBSET used /\ tmp \in SUBSET tmpDisk
    /\ aged \in SUBSET used
    /\ lease \in [Temp -> Writer \cup {Collector, NoOne}]
    /\ pc \in [Writer -> PCs]
    /\ want \in [Writer -> Hash]
    /\ mine \in [Writer -> Temp \cup {NoTemp}]
    /\ result \in [Writer -> {"none", "fresh", "existed", "err"}]
    /\ gcPc \in {"idle", "scan", "opened", "locked"}
    /\ todo \in SUBSET Temp
    /\ target \in Temp \cup {NoTemp}
    /\ swept \in BOOLEAN
    /\ stale \in SUBSET used
    /\ fresh \in SUBSET Hash
    /\ faults \in Nat

\* ADR 0014 invariants 1 and 2: whatever calls ran, failed or were cut off,
\* and whatever a power failure took, a key that is visible names complete
\* bytes that hash to it, so no read reports CorruptedArtifact.
NeverCorrupted == \A h \in Hash : Read(h) # "CorruptedArtifact"

\* ADR 0014 invariant 16 and the comment "never an unlocked in-flight writer":
\* gc_tmp never takes the staging name of a call that has still to publish it.
Staging == {"stream", "sync", "mkdir", "sync_parent", "publish"}
InFlightProtected == \A w \in Writer : pc[w] \in Staging => mine[w] \in tmp

\* What a receipt of put says: existed = false means that the entry it made is
\* durable in the prefix directory, existed = true that the object reads back.
ReceiptsTrue ==
    \A w \in Writer : /\ result[w] = "fresh" => want[w] \in entryDisk
                      /\ result[w] = "existed" => Read(want[w]) = "ok"

\* ADR 0014 invariant 14: a pass of gc_tmp that reports success has removed
\* every staging name that was old and without a lease when it began; one that
\* met a limit is an error, never a truncated success.
SweepComplete == swept => stale \cap tmp = {}

\* A published object never disappears or changes its inode, except that a
\* power failure may take one whose directory entries were not both synced.
ObjectsImmutable ==
    [][\A h \in Hash : Visible(h) =>
        \/ entry'[h] = entry[h]
        \/ /\ entry'[h] = NoTemp
           /\ h \notin entryDisk \/ DirOf[h] \notin dirsDisk]_vars

-----------------------------------------------------------------------------
(***************************************************************************)
(* The inductive invariant                                                 *)
(***************************************************************************)

\* A call holds the lease on its inode from before the inode has a name until
\* it returns, and every lease belongs to a call or to the collector's entry.
LeaseInv ==
    /\ \A w \in Writer : pc[w] = "idle" => mine[w] = NoTemp
    /\ \A w \in Writer : pc[w] # "idle" => mine[w] \in used /\ lease[mine[w]] = w
    /\ \A t \in Temp : /\ lease[t] \in Writer => mine[lease[t]] = t
                       /\ lease[t] = Collector => gcPc = "locked" /\ target = t
    /\ gcPc \in {"opened", "locked"} => target \in used
    /\ gcPc \notin {"opened", "locked"} => target = NoTemp
    /\ gcPc = "locked" => lease[target] = Collector

\* Visible objects are complete and durable, and durable entries are visible.
TreeInv ==
    /\ \A h \in Hash : Visible(h) => /\ entry[h] \in synced
                                     /\ data[entry[h]] = h
                                     /\ DirOf[h] \in dirs
    /\ \A h \in entryDisk : Visible(h)

\* What a call has established when it reaches each of its steps; an inode
\* still staged is no object yet.
PutInv ==
    \A w \in Writer :
        /\ pc[w] \in Staging => \A h \in Hash : entry[h] # mine[w]
        /\ pc[w] \in Staging \ {"stream"} => data[mine[w]] = want[w]
        /\ pc[w] \in {"mkdir", "sync_parent", "publish"} => mine[w] \in synced
        /\ pc[w] \in {"sync_parent", "publish"} => DirOf[want[w]] \in dirs
        /\ pc[w] \in {"sync_prefix", "verify"} => Visible(want[w])

\* The pass has still to visit whatever it must remove, and no call can take
\* an abandoned inode up again.
SweepInv ==
    /\ \A t \in stale : t \in aged /\ lease[t] \notin Writer
    /\ gcPc # "idle" => ~swept /\ stale \cap tmp \subseteq todo \cup {target}

\* Everything above together is preserved by every step.
IInv == /\ TypeOK
        /\ LeaseInv
        /\ TreeInv
        /\ PutInv
        /\ InFlightProtected
        /\ ReceiptsTrue
        /\ SweepInv
        /\ SweepComplete

-----------------------------------------------------------------------------
(***************************************************************************)
(* What the documents say and the code does not do                         *)
(***************************************************************************)

\* An object for which put returned existed = false survives a power failure.
FreshReceiptsSurvive == \A h \in fresh : Visible(h)

=============================================================================
