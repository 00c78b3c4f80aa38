----------------------------- MODULE CasProofs -----------------------------
(***************************************************************************)
(* Proofs about Cas, for any number of keys, writers and staging inodes    *)
(* and any number of faults.                                               *)
(***************************************************************************)
EXTENDS Cas, TLAPS

-----------------------------------------------------------------------------
(***************************************************************************)
(* Every step preserves the inductive invariant.                           *)
(***************************************************************************)

\* create_temp leases a new inode and names it.
LEMMA CreateTempStep ==
    ASSUME NEW w \in Writer, NEW h \in Hash, NEW t \in Temp, IInv, CreateTemp(w, h, t)
    PROVE  IInv'
<1> USE CasAssumption
    DEF CreateTemp, At, Goto, Outcome, IInv, TypeOK, Visible,
        treeVars, inodeVars, tmpVars, putVars, gcVars, historyVars
<1>1. TypeOK'
  BY DEF PCs
<1>2. LeaseInv'
  BY DEF LeaseInv
<1>3. TreeInv'
  BY DEF TreeInv
<1>4. PutInv'
  <2>1. \A h1 \in Hash : entry[h1] # t
    BY DEF TreeInv
  <2>2. QED
    BY <2>1 DEF PutInv, Staging, LeaseInv
<1>5. InFlightProtected'
  BY DEF InFlightProtected, Staging, LeaseInv
<1>6. ReceiptsTrue'
  BY DEF ReceiptsTrue, Read
<1>7. SweepInv'
  BY DEF SweepInv
<1>8. SweepComplete'
  BY DEF SweepComplete
<1>9. QED
  BY <1>1, <1>2, <1>3, <1>4, <1>5, <1>6, <1>7, <1>8 DEF IInv

\* The input is copied into the leased inode.
LEMMA StreamStep ==
    ASSUME NEW w \in Writer, NEW c \in Hash \cup {Junk}, IInv, Stream(w, c)
    PROVE  IInv'
<1> USE CasAssumption
    DEF Stream, At, Goto, Outcome, IInv, TypeOK, Visible,
        treeVars, inodeVars, tmpVars, putVars, gcVars, historyVars
<1>1. TypeOK'
  BY DEF PCs
<1>2. LeaseInv'
  BY DEF LeaseInv
<1>3. TreeInv'
  BY DEF TreeInv, PutInv, Staging
<1>4. PutInv'
  BY DEF PutInv, Staging, LeaseInv
<1>5. InFlightProtected'
  BY DEF InFlightProtected, Staging, LeaseInv
<1>6. ReceiptsTrue'
  BY DEF ReceiptsTrue, Read, PutInv, Staging
<1>7. SweepInv'
  <2>1. mine[w] \notin stale
    BY DEF SweepInv, LeaseInv
  <2>2. QED
    BY <2>1 DEF SweepInv
<1>8. SweepComplete'
  BY DEF SweepComplete
<1>9. QED
  BY <1>1, <1>2, <1>3, <1>4, <1>5, <1>6, <1>7, <1>8 DEF IInv

\* The staged bytes are durable.
LEMMA SyncTempStep ==
    ASSUME NEW w \in Writer, IInv, SyncTemp(w)
    PROVE  IInv'
<1> USE CasAssumption
    DEF SyncTemp, At, Goto, IInv, TypeOK, Visible,
        treeVars, inodeVars, tmpVars, putVars, gcVars, historyVars
<1>1. TypeOK'
  <2>1. mine[w] \in used
    BY DEF LeaseInv
  <2>2. QED
    BY <2>1 DEF PCs
<1>2. LeaseInv'
  BY DEF LeaseInv
<1>3. TreeInv'
  BY DEF TreeInv
<1>4. PutInv'
  BY DEF PutInv, Staging, LeaseInv
<1>5. InFlightProtected'
  BY DEF InFlightProtected, Staging, LeaseInv
<1>6. ReceiptsTrue'
  BY DEF ReceiptsTrue, Read
<1>7. SweepInv'
  BY DEF SweepInv
<1>8. SweepComplete'
  BY DEF SweepComplete
<1>9. QED
  BY <1>1, <1>2, <1>3, <1>4, <1>5, <1>6, <1>7, <1>8 DEF IInv

\* The prefix directory exists.
LEMMA MakePrefixStep ==
    ASSUME NEW w \in Writer, IInv, MakePrefix(w)
    PROVE  IInv'
<1> USE CasAssumption
    DEF MakePrefix, At, Goto, IInv, TypeOK, Visible,
        treeVars, inodeVars, tmpVars, putVars, gcVars, historyVars
<1>1. TypeOK'
  BY DEF PCs
<1>2. LeaseInv'
  BY DEF LeaseInv
<1>3. TreeInv'
  BY DEF TreeInv
<1>4. PutInv'
  BY DEF PutInv, Staging, LeaseInv
<1>5. InFlightProtected'
  BY DEF InFlightProtected, Staging, LeaseInv
<1>6. ReceiptsTrue'
  BY DEF ReceiptsTrue, Read
<1>7. SweepInv'
  BY DEF SweepInv
<1>8. SweepComplete'
  BY DEF SweepComplete
<1>9. QED
  BY <1>1, <1>2, <1>3, <1>4, <1>5, <1>6, <1>7, <1>8 DEF IInv

\* The prefix directory's own name is durable.
LEMMA SyncParentStep ==
    ASSUME NEW w \in Writer, IInv, SyncParent(w)
    PROVE  IInv'
<1> USE CasAssumption
    DEF SyncParent, At, Goto, IInv, TypeOK, Visible,
        treeVars, inodeVars, tmpVars, putVars, gcVars, historyVars
<1>1. TypeOK'
  BY DEF PCs
<1>2. LeaseInv'
  BY DEF LeaseInv
<1>3. TreeInv'
  BY DEF TreeInv
<1>4. PutInv'
  BY DEF PutInv, Staging, LeaseInv
<1>5. InFlightProtected'
  BY DEF InFlightProtected, Staging, LeaseInv
<1>6. ReceiptsTrue'
  BY DEF ReceiptsTrue, Read
<1>7. SweepInv'
  BY DEF SweepInv
<1>8. SweepComplete'
  BY DEF SweepComplete
<1>9. QED
  BY <1>1, <1>2, <1>3, <1>4, <1>5, <1>6, <1>7, <1>8 DEF IInv

\* The object appears under its key, or is found there.
LEMMA PublishStep ==
    ASSUME NEW w \in Writer, IInv, Publish(w)
    PROVE  IInv'
<1> USE CasAssumption
    DEF Publish, At, Goto, IInv, TypeOK, Visible,
        treeVars, inodeVars, tmpVars, putVars, gcVars, historyVars
<1>1. TypeOK'
  BY DEF PCs
<1>2. LeaseInv'
  BY DEF LeaseInv
<1>3. TreeInv'
  BY DEF TreeInv, PutInv, Staging
<1>4. PutInv'
  BY DEF PutInv, Staging, LeaseInv
<1>5. InFlightProtected'
  BY DEF InFlightProtected, Staging, LeaseInv
<1>6. ReceiptsTrue'
  BY DEF ReceiptsTrue, Read
<1>7. SweepInv'
  BY DEF SweepInv
<1>8. SweepComplete'
  BY DEF SweepComplete
<1>9. QED
  BY <1>1, <1>2, <1>3, <1>4, <1>5, <1>6, <1>7, <1>8 DEF IInv

\* The entries of the prefix directory are durable.
LEMMA SyncPrefixStep ==
    ASSUME NEW w \in Writer, IInv, SyncPrefix(w)
    PROVE  IInv'
<1> USE CasAssumption
    DEF SyncPrefix, At, Goto, Outcome, IInv, TypeOK, Visible,
        treeVars, inodeVars, tmpVars, putVars, gcVars, historyVars
<1>1. TypeOK'
  BY DEF PCs
<1>2. LeaseInv'
  BY DEF LeaseInv
<1>3. TreeInv'
  BY DEF TreeInv
<1>4. PutInv'
  BY DEF PutInv, Staging, LeaseInv
<1>5. InFlightProtected'
  BY DEF InFlightProtected, Staging, LeaseInv
<1>6. ReceiptsTrue'
  BY DEF ReceiptsTrue, Read, PutInv
<1>7. SweepInv'
  BY DEF SweepInv
<1>8. SweepComplete'
  BY DEF SweepComplete
<1>9. QED
  BY <1>1, <1>2, <1>3, <1>4, <1>5, <1>6, <1>7, <1>8 DEF IInv

\* The object found there is rehashed.
LEMMA VerifyExistingStep ==
    ASSUME NEW w \in Writer, IInv, VerifyExisting(w)
    PROVE  IInv'
<1> USE CasAssumption
    DEF VerifyExisting, At, Goto, Outcome, IInv, TypeOK, Visible,
        treeVars, inodeVars, tmpVars, putVars, gcVars, historyVars
<1>1. TypeOK'
  BY DEF PCs
<1>2. LeaseInv'
  BY DEF LeaseInv
<1>3. TreeInv'
  BY DEF TreeInv
<1>4. PutInv'
  BY DEF PutInv, Staging, LeaseInv
<1>5. InFlightProtected'
  BY DEF InFlightProtected, Staging, LeaseInv
<1>6. ReceiptsTrue'
  BY DEF ReceiptsTrue, Read
<1>7. SweepInv'
  BY DEF SweepInv
<1>8. SweepComplete'
  BY DEF SweepComplete
<1>9. QED
  BY <1>1, <1>2, <1>3, <1>4, <1>5, <1>6, <1>7, <1>8 DEF IInv

\* The staging name goes.
LEMMA UnlinkTempStep ==
    ASSUME NEW w \in Writer, IInv, UnlinkTemp(w)
    PROVE  IInv'
<1> USE CasAssumption
    DEF UnlinkTemp, At, Goto, IInv, TypeOK, Visible,
        treeVars, inodeVars, tmpVars, putVars, gcVars, historyVars
<1>1. TypeOK'
  BY DEF PCs
<1>2. LeaseInv'
  BY DEF LeaseInv
<1>3. TreeInv'
  BY DEF TreeInv
<1>4. PutInv'
  BY DEF PutInv, Staging, LeaseInv
<1>5. InFlightProtected'
  BY DEF InFlightProtected, Staging, LeaseInv
<1>6. ReceiptsTrue'
  BY DEF ReceiptsTrue, Read
<1>7. SweepInv'
  BY DEF SweepInv
<1>8. SweepComplete'
  BY DEF SweepComplete
<1>9. QED
  BY <1>1, <1>2, <1>3, <1>4, <1>5, <1>6, <1>7, <1>8 DEF IInv

\* The staging directory is synced.
LEMMA SyncTmpStep ==
    ASSUME NEW w \in Writer, IInv, SyncTmp(w)
    PROVE  IInv'
<1> USE CasAssumption
    DEF SyncTmp, At, Goto, IInv, TypeOK, Visible,
        treeVars, inodeVars, tmpVars, putVars, gcVars, historyVars
<1>1. TypeOK'
  BY DEF PCs
<1>2. LeaseInv'
  BY DEF LeaseInv
<1>3. TreeInv'
  BY DEF TreeInv
<1>4. PutInv'
  BY DEF PutInv, Staging, LeaseInv
<1>5. InFlightProtected'
  BY DEF InFlightProtected, Staging, LeaseInv
<1>6. ReceiptsTrue'
  BY DEF ReceiptsTrue, Read
<1>7. SweepInv'
  BY DEF SweepInv
<1>8. SweepComplete'
  BY DEF SweepComplete
<1>9. QED
  BY <1>1, <1>2, <1>3, <1>4, <1>5, <1>6, <1>7, <1>8 DEF IInv

\* put returns and drops its lease.
LEMMA ReturnStep ==
    ASSUME NEW w \in Writer, IInv, Return(w)
    PROVE  IInv'
<1> USE CasAssumption
    DEF Return, At, Goto, Outcome, Drop, IInv, TypeOK, Visible,
        treeVars, inodeVars, tmpVars, putVars, gcVars, historyVars
<1>1. TypeOK'
  BY DEF PCs
<1>2. LeaseInv'
  BY DEF LeaseInv
<1>3. TreeInv'
  BY DEF TreeInv
<1>4. PutInv'
  BY DEF PutInv, Staging, LeaseInv
<1>5. InFlightProtected'
  BY DEF InFlightProtected, Staging, LeaseInv
<1>6. ReceiptsTrue'
  BY DEF ReceiptsTrue, Read
<1>7. SweepInv'
  BY DEF SweepInv
<1>8. SweepComplete'
  BY DEF SweepComplete
<1>9. QED
  BY <1>1, <1>2, <1>3, <1>4, <1>5, <1>6, <1>7, <1>8 DEF IInv

\* An inode grows old enough to be collected.
LEMMA AgeStep ==
    ASSUME NEW t \in Temp, IInv, Age(t)
    PROVE  IInv'
<1> USE CasAssumption
    DEF Age, IInv, TypeOK, Visible,
        treeVars, inodeVars, tmpVars, putVars, gcVars, historyVars
<1>1. TypeOK'
  BY DEF PCs
<1>2. LeaseInv'
  BY DEF LeaseInv
<1>3. TreeInv'
  BY DEF TreeInv
<1>4. PutInv'
  BY DEF PutInv, Staging, LeaseInv
<1>5. InFlightProtected'
  BY DEF InFlightProtected, Staging, LeaseInv
<1>6. ReceiptsTrue'
  BY DEF ReceiptsTrue, Read
<1>7. SweepInv'
  BY DEF SweepInv
<1>8. SweepComplete'
  BY DEF SweepComplete
<1>9. QED
  BY <1>1, <1>2, <1>3, <1>4, <1>5, <1>6, <1>7, <1>8 DEF IInv

\* gc_tmp reads the directory.
LEMMA GcStartStep ==
    ASSUME IInv, GcStart
    PROVE  IInv'
<1> USE CasAssumption
    DEF GcStart, IInv, TypeOK, Visible,
        treeVars, inodeVars, tmpVars, putVars, gcVars, historyVars
<1>1. TypeOK'
  BY DEF PCs
<1>2. LeaseInv'
  BY DEF LeaseInv
<1>3. TreeInv'
  BY DEF TreeInv
<1>4. PutInv'
  BY DEF PutInv, Staging, LeaseInv
<1>5. InFlightProtected'
  BY DEF InFlightProtected, Staging, LeaseInv
<1>6. ReceiptsTrue'
  BY DEF ReceiptsTrue, Read
<1>7. SweepInv'
  BY DEF SweepInv
<1>8. SweepComplete'
  BY DEF SweepComplete
<1>9. QED
  BY <1>1, <1>2, <1>3, <1>4, <1>5, <1>6, <1>7, <1>8 DEF IInv

\* gc_tmp opens an entry or passes it over.
LEMMA GcVisitStep ==
    ASSUME NEW t \in Temp, IInv, GcVisit(t)
    PROVE  IInv'
<1> USE CasAssumption
    DEF GcVisit, IInv, TypeOK, Visible,
        treeVars, inodeVars, tmpVars, putVars, gcVars, historyVars
<1>1. TypeOK'
  BY DEF PCs
<1>2. LeaseInv'
  BY DEF LeaseInv
<1>3. TreeInv'
  BY DEF TreeInv
<1>4. PutInv'
  BY DEF PutInv, Staging, LeaseInv
<1>5. InFlightProtected'
  BY DEF InFlightProtected, Staging, LeaseInv
<1>6. ReceiptsTrue'
  BY DEF ReceiptsTrue, Read
<1>7. SweepInv'
  BY DEF SweepInv, LeaseInv
<1>8. SweepComplete'
  BY DEF SweepComplete
<1>9. QED
  BY <1>1, <1>2, <1>3, <1>4, <1>5, <1>6, <1>7, <1>8 DEF IInv

\* gc_tmp tries to take the entry's lease.
LEMMA GcLockStep ==
    ASSUME IInv, GcLock
    PROVE  IInv'
<1> USE CasAssumption
    DEF GcLock, IInv, TypeOK, Visible,
        treeVars, inodeVars, tmpVars, putVars, gcVars, historyVars
<1>1. TypeOK'
  BY DEF PCs
<1>2. LeaseInv'
  BY DEF LeaseInv
<1>3. TreeInv'
  BY DEF TreeInv
<1>4. PutInv'
  BY DEF PutInv, Staging, LeaseInv
<1>5. InFlightProtected'
  BY DEF InFlightProtected, Staging, LeaseInv
<1>6. ReceiptsTrue'
  BY DEF ReceiptsTrue, Read
<1>7. SweepInv'
  <2>1. target \in stale => lease[target] = NoOne
    BY DEF SweepInv, LeaseInv
  <2>2. QED
    BY <2>1 DEF SweepInv, LeaseInv
<1>8. SweepComplete'
  BY DEF SweepComplete
<1>9. QED
  BY <1>1, <1>2, <1>3, <1>4, <1>5, <1>6, <1>7, <1>8 DEF IInv

\* gc_tmp removes the name whose lease it holds.
LEMMA GcUnlinkStep ==
    ASSUME IInv, GcUnlink
    PROVE  IInv'
<1> USE CasAssumption
    DEF GcUnlink, IInv, TypeOK, Visible,
        treeVars, inodeVars, tmpVars, putVars, gcVars, historyVars
<1>1. TypeOK'
  BY DEF PCs
<1>2. LeaseInv'
  BY DEF LeaseInv
<1>3. TreeInv'
  BY DEF TreeInv
<1>4. PutInv'
  BY DEF PutInv, Staging, LeaseInv
<1>5. InFlightProtected'
  BY DEF InFlightProtected, Staging, LeaseInv
<1>6. ReceiptsTrue'
  BY DEF ReceiptsTrue, Read
<1>7. SweepInv'
  BY DEF SweepInv
<1>8. SweepComplete'
  BY DEF SweepComplete
<1>9. QED
  BY <1>1, <1>2, <1>3, <1>4, <1>5, <1>6, <1>7, <1>8 DEF IInv

\* gc_tmp reports success.
LEMMA GcEndStep ==
    ASSUME IInv, GcEnd
    PROVE  IInv'
<1> USE CasAssumption
    DEF GcEnd, IInv, TypeOK, Visible,
        treeVars, inodeVars, tmpVars, putVars, gcVars, historyVars
<1>1. TypeOK'
  BY DEF PCs
<1>2. LeaseInv'
  BY DEF LeaseInv
<1>3. TreeInv'
  BY DEF TreeInv
<1>4. PutInv'
  BY DEF PutInv, Staging, LeaseInv
<1>5. InFlightProtected'
  BY DEF InFlightProtected, Staging, LeaseInv
<1>6. ReceiptsTrue'
  BY DEF ReceiptsTrue, Read
<1>7. SweepInv'
  BY DEF SweepInv
<1>8. SweepComplete'
  <2>1. stale \cap tmp \subseteq todo \cup {target} /\ target = NoTemp
    BY DEF SweepInv, LeaseInv
  <2>2. QED
    BY <2>1 DEF SweepComplete
<1>9. QED
  BY <1>1, <1>2, <1>3, <1>4, <1>5, <1>6, <1>7, <1>8 DEF IInv

\* gc_tmp stops at a limit or at an error.
LEMMA GcIncompleteStep ==
    ASSUME IInv, GcIncomplete
    PROVE  IInv'
<1> USE CasAssumption
    DEF GcIncomplete, IInv, TypeOK, Visible,
        treeVars, inodeVars, tmpVars, putVars, gcVars, historyVars
<1>1. TypeOK'
  BY DEF PCs
<1>2. LeaseInv'
  BY DEF LeaseInv
<1>3. TreeInv'
  BY DEF TreeInv
<1>4. PutInv'
  BY DEF PutInv, Staging, LeaseInv
<1>5. InFlightProtected'
  BY DEF InFlightProtected, Staging, LeaseInv
<1>6. ReceiptsTrue'
  BY DEF ReceiptsTrue, Read
<1>7. SweepInv'
  BY DEF SweepInv
<1>8. SweepComplete'
  BY DEF SweepComplete
<1>9. QED
  BY <1>1, <1>2, <1>3, <1>4, <1>5, <1>6, <1>7, <1>8 DEF IInv

\* A call of put fails.
LEMMA FailCallStep ==
    ASSUME NEW w \in Writer, IInv, FailCall(w)
    PROVE  IInv'
<1> USE CasAssumption
    DEF FailCall, Fault, Goto, Outcome, IInv, TypeOK, Visible,
        treeVars, inodeVars, tmpVars, putVars, gcVars, historyVars
<1>1. TypeOK'
  BY DEF PCs
<1>2. LeaseInv'
  BY DEF LeaseInv
<1>3. TreeInv'
  BY DEF TreeInv
<1>4. PutInv'
  BY DEF PutInv, Staging, LeaseInv
<1>5. InFlightProtected'
  BY DEF InFlightProtected, Staging, LeaseInv
<1>6. ReceiptsTrue'
  BY DEF ReceiptsTrue, Read
<1>7. SweepInv'
  BY DEF SweepInv
<1>8. SweepComplete'
  BY DEF SweepComplete
<1>9. QED
  BY <1>1, <1>2, <1>3, <1>4, <1>5, <1>6, <1>7, <1>8 DEF IInv

\* The process that runs put is killed.
LEMMA KillStep ==
    ASSUME NEW w \in Writer, IInv, Kill(w)
    PROVE  IInv'
<1> USE CasAssumption
    DEF Kill, Fault, At, Goto, Outcome, Drop, IInv, TypeOK, Visible,
        treeVars, inodeVars, tmpVars, putVars, gcVars, historyVars
<1>1. TypeOK'
  <2>1. /\ lease' \in [Temp -> Writer \cup {Collector, NoOne}]
        /\ mine' \in [Writer -> Temp \cup {NoTemp}]
        /\ pc' \in [Writer -> PCs]
        /\ result' \in [Writer -> {"none", "fresh", "existed", "err"}]
    BY DEF PCs
  <2>2. faults' \in Nat
    OBVIOUS
  <2>3. QED
    BY <2>1, <2>2
<1>2. LeaseInv'
  BY DEF LeaseInv
<1>3. TreeInv'
  BY DEF TreeInv
<1>4. PutInv'
  BY DEF PutInv, Staging, LeaseInv
<1>5. InFlightProtected'
  BY DEF InFlightProtected, Staging, LeaseInv
<1>6. ReceiptsTrue'
  BY DEF ReceiptsTrue, Read
<1>7. SweepInv'
  BY DEF SweepInv
<1>8. SweepComplete'
  BY DEF SweepComplete
<1>9. QED
  BY <1>1, <1>2, <1>3, <1>4, <1>5, <1>6, <1>7, <1>8 DEF IInv

\* The process that runs gc_tmp is killed.
LEMMA GcKillStep ==
    ASSUME IInv, GcKill
    PROVE  IInv'
<1> USE CasAssumption
    DEF GcKill, Fault, IInv, TypeOK, Visible,
        treeVars, inodeVars, tmpVars, putVars, gcVars, historyVars
<1>1. TypeOK'
  BY DEF PCs
<1>2. LeaseInv'
  BY DEF LeaseInv
<1>3. TreeInv'
  BY DEF TreeInv
<1>4. PutInv'
  BY DEF PutInv, Staging, LeaseInv
<1>5. InFlightProtected'
  BY DEF InFlightProtected, Staging, LeaseInv
<1>6. ReceiptsTrue'
  BY DEF ReceiptsTrue, Read
<1>7. SweepInv'
  BY DEF SweepInv
<1>8. SweepComplete'
  BY DEF SweepComplete
<1>9. QED
  BY <1>1, <1>2, <1>3, <1>4, <1>5, <1>6, <1>7, <1>8 DEF IInv

\* Power fails: what was synced is left, nobody runs.
LEMMA PowerLossStep ==
    ASSUME NEW ds \in SUBSET dirs, NEW es \in SUBSET Hash,
           NEW ts \in SUBSET tmpDisk, NEW lost \in SUBSET (used \ synced),
           IInv, PowerLoss(ds, es, ts, lost)
    PROVE  IInv'
<1> USE CasAssumption
    DEF PowerLoss, Fault, IInv, TypeOK, Visible,
        treeVars, inodeVars, tmpVars, putVars, gcVars, historyVars
<1>1. TypeOK'
  <2>1. /\ dirs' \in SUBSET Dir /\ dirsDisk' \in SUBSET dirs'
        /\ entry' \in [Hash -> Temp \cup {NoTemp}]
        /\ entryDisk' \in SUBSET Hash
        /\ data' \in [Temp -> Hash \cup {Junk}]
    OBVIOUS
  <2>2. /\ used' \in SUBSET Temp /\ synced' \in SUBSET used'
        /\ tmpDisk' \in SUBSET used' /\ tmp' \in SUBSET tmpDisk'
        /\ aged' \in SUBSET used'
        /\ todo' \in SUBSET Temp /\ stale' \in SUBSET used'
        /\ target' \in Temp \cup {NoTemp}
    OBVIOUS
  <2>3. /\ lease' \in [Temp -> Writer \cup {Collector, NoOne}]
        /\ pc' \in [Writer -> PCs]
        /\ want' \in [Writer -> Hash]
        /\ mine' \in [Writer -> Temp \cup {NoTemp}]
        /\ result' \in [Writer -> {"none", "fresh", "existed", "err"}]
    BY DEF PCs
  <2>4. /\ gcPc' \in {"idle", "scan", "opened", "locked"}
        /\ swept' \in BOOLEAN
        /\ fresh' \in SUBSET Hash
    OBVIOUS
  <2>5. faults' \in Nat
    OBVIOUS
  <2>6. QED
    BY <2>1, <2>2, <2>3, <2>4, <2>5
<1>2. LeaseInv'
  BY DEF LeaseInv
<1>3. TreeInv'
  BY DEF TreeInv
<1>4. PutInv'
  BY DEF PutInv, Staging, LeaseInv
<1>5. InFlightProtected'
  BY DEF InFlightProtected, Staging, LeaseInv
<1>6. ReceiptsTrue'
  BY DEF ReceiptsTrue, Read
<1>7. SweepInv'
  BY DEF SweepInv
<1>8. SweepComplete'
  BY DEF SweepComplete
<1>9. QED
  BY <1>1, <1>2, <1>3, <1>4, <1>5, <1>6, <1>7, <1>8 DEF IInv

-----------------------------------------------------------------------------
(***************************************************************************)
(* The theorems                                                            *)
(***************************************************************************)

\* The inductive invariant of the content-addressed store.
THEOREM CasInv == Spec => []IInv
<1>1. Init => IInv
  <2> SUFFICES ASSUME Init PROVE IInv
    OBVIOUS
  <2>1. TypeOK
    BY CasAssumption DEF Init, TypeOK, PCs
  <2>2. LeaseInv /\ SweepInv /\ SweepComplete
    BY CasAssumption DEF Init, LeaseInv, SweepInv, SweepComplete
  <2>3. TreeInv /\ PutInv /\ InFlightProtected /\ ReceiptsTrue
    BY DEF Init, TreeInv, PutInv, Staging, InFlightProtected, ReceiptsTrue,
       Visible
  <2>4. QED
    BY <2>1, <2>2, <2>3 DEF IInv
<1>2. IInv /\ [Next]_vars => IInv'
  <2> SUFFICES ASSUME IInv, [Next]_vars PROVE IInv'
    OBVIOUS
  <2>1. CASE Next
    BY <2>1, CreateTempStep, StreamStep, SyncTempStep, MakePrefixStep,
       SyncParentStep, PublishStep, SyncPrefixStep, VerifyExistingStep,
       UnlinkTempStep, SyncTmpStep, ReturnStep, AgeStep, GcStartStep,
       GcVisitStep, GcLockStep, GcUnlinkStep, GcEndStep, GcIncompleteStep,
       FailCallStep, KillStep, GcKillStep, PowerLossStep DEF Next
  <2>2. CASE UNCHANGED vars
    BY <2>2 DEF vars, treeVars, inodeVars, tmpVars, putVars, gcVars,
       historyVars, IInv, TypeOK, LeaseInv, TreeInv, PutInv, InFlightProtected,
       ReceiptsTrue, SweepInv, SweepComplete, Visible, Read
  <2>3. QED
    BY <2>1, <2>2
<1>3. QED
  BY <1>1, <1>2, PTL DEF Spec

\* No read ever finds bytes under a key that do not hash to it, whatever
\* crashed before.
THEOREM ObjectsAreWhole == Spec => []NeverCorrupted
<1>1. IInv => NeverCorrupted
  BY DEF IInv, TreeInv, NeverCorrupted, Read, Visible
<1>2. QED
  BY <1>1, CasInv, PTL

\* The collector never takes a staging name from a call that needs it.
THEOREM LeasesProtect == Spec => []InFlightProtected
<1>1. IInv => InFlightProtected
  BY DEF IInv
<1>2. QED
  BY <1>1, CasInv, PTL

\* The receipts of put are true when it computes them and until it returns.
THEOREM ReceiptsAreTrue == Spec => []ReceiptsTrue
<1>1. IInv => ReceiptsTrue
  BY DEF IInv
<1>2. QED
  BY <1>1, CasInv, PTL

\* A successful pass of the collector is a complete one.
THEOREM SweepsAreComplete == Spec => []SweepComplete
<1>1. IInv => SweepComplete
  BY DEF IInv
<1>2. QED
  BY <1>1, CasInv, PTL

\* A published object is never replaced, and only a power failure before both
\* of its directory entries are synced removes it.
THEOREM ObjectsStay == Spec => ObjectsImmutable
<1> DEFINE Kept == \A h \in Hash : Visible(h) =>
                      \/ entry'[h] = entry[h]
                      \/ /\ entry'[h] = NoTemp
                         /\ h \notin entryDisk \/ DirOf[h] \notin dirsDisk
<1>1. ASSUME IInv, [Next]_vars PROVE [Kept]_vars
  <2>1. ASSUME NEW w \in Writer, Publish(w) PROVE Kept
    BY <1>1, <2>1 DEF IInv, TypeOK, Publish, Visible
  <2>2. ASSUME NEW ds \in SUBSET dirs, NEW es \in SUBSET Hash,
               NEW ts \in SUBSET tmpDisk, NEW lost \in SUBSET (used \ synced),
               PowerLoss(ds, es, ts, lost)
        PROVE  Kept
    BY <1>1, <2>2 DEF IInv, TypeOK, PowerLoss, Visible
  <2>3. CASE UNCHANGED entry
    BY <2>3
  <2>4. QED
    BY <1>1, <2>1, <2>2, <2>3 DEF Next, vars, CreateTemp, Stream, SyncTemp,
       MakePrefix, SyncParent, SyncPrefix, VerifyExisting, UnlinkTemp, SyncTmp,
       Return, Age, GcStart, GcVisit, GcLock, GcUnlink, GcEnd, GcIncomplete,
       FailCall, Kill, GcKill, treeVars
<1>2. QED
  BY <1>1, CasInv, PTL DEF Spec, ObjectsImmutable
=============================================================================
