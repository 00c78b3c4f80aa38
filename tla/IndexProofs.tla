---------------------------- MODULE IndexProofs ----------------------------
(***************************************************************************)
(* Proofs about Index, for any number of processes, runs, events, faults   *)
(* and power failures.                                                     *)
(***************************************************************************)
EXTENDS Index, FiniteSetTheorems, SequenceTheorems, TLAPS

-----------------------------------------------------------------------------
(***************************************************************************)
(* Every step preserves the inductive invariant.                           *)
(***************************************************************************)

\* The fields of the records.
LEMMA Fields ==
    /\ \A d \in Directory : d.active \in File \cup {None} /\ d.candidates \in SUBSET File
    /\ \A f \in File : /\ f.image \in Image /\ f.id \in 1 .. MaxOps
                       /\ f.data \in {"cached", "durable", "torn"}
    /\ \A o \in Operation : /\ o.kind \in {"rebuild", "read", "report"}
                            /\ o.run \in Run /\ o.id \in 1 .. MaxOps
BY DEF Directory, File, Operation

\* A directory whose candidates are replaced.
LEMMA NewDirectory ==
    ASSUME NEW d \in Directory, NEW c \in SUBSET File
    PROVE  /\ [d EXCEPT !.candidates = c] \in Directory
           /\ [d EXCEPT !.candidates = c].active = d.active
           /\ [d EXCEPT !.candidates = c].candidates = c
BY DEF Directory

\* While a rebuild is past its lock on index.lock, no other process is.
LEMMA Alone ==
    ASSUME IInv, NEW p \in Process, NEW q \in Process, p # q,
           pc[p] \notin {"idle", "index", "recheck"}, op[p].kind = "rebuild"
    PROVE  pc[q] \in {"idle", "index", "recheck"}
<1>1. indexLock[p] = "exclusive" /\ indexLock[q] = "none"
  BY DEF IInv, TypeOK, Mode, LeaseInv, IndexMode, Compatible
<1>2. QED
  BY <1>1 DEF IInv, LeaseInv, IndexMode

\* The image of a log.
LEMMA CurrentType ==
    ASSUME TypeOK, NEW p \in Process, op[p] # None
    PROVE  Current(p) \in Image
<1>1. op[p].run \in Run
  BY Fields DEF TypeOK
<1>2. tail[op[p].run] \in 0 .. MaxEvents
  BY <1>1 DEF TypeOK
<1>3. QED
  BY <1>1, <1>2 DEF Current, Image

\* A second pass after a first one.
LEMMA SecondPass ==
    ASSUME NEW i \in Image, NEW j \in Image
    PROVE  Append(<<i>>, j) \in Image \X Image
<1>1. Append(<<i>>, j) = <<i, j>>
  <2> HIDE DEF Image
  <2>1. /\ Append(<<i>>, j) \in Seq(Image) /\ Len(Append(<<i>>, j)) = 2
        /\ Append(<<i>>, j)[1] = i /\ Append(<<i>>, j)[2] = j
    OBVIOUS
  <2>2. /\ <<i, j>> \in Seq(Image) /\ Len(<<i, j>>) = 2
        /\ <<i, j>>[1] = i /\ <<i, j>>[2] = j
    OBVIOUS
  <2>3. \A k \in 1 .. 2 : Append(<<i>>, j)[k] = <<i, j>>[k]
    <3>1. \A k \in 1 .. 2 : k = 1 \/ k = 2
      OBVIOUS
    <3>2. QED
      BY <2>1, <2>2, <3>1
  <2>4. QED
    BY <2>1, <2>2, <2>3, SeqEqual, Zenon
<1>2. QED
  BY <1>1

\* An operation returns without a change to the directory.
LEMMA LeftStep ==
    ASSUME NEW p \in Process, IInv, pc[p] # "idle", Leave(p),
           UNCHANGED <<tail, dirVars, ackVars, countVars>>
    PROVE  IInv'
<1> USE NoneAssumption, SchemaAssumption, BoundAssumption
    DEF Leave, IInv, TypeOK, dirVars, lockVars,
        workVars, ackVars, countVars, Mode
<1>1. TypeOK'
  OBVIOUS
<1>2. LeaseInv'
  BY DEF LeaseInv, IndexMode, Compatible, Publishing
<1>3. ReadInv'
  BY DEF ReadInv, Current, LeaseInv
<1>4. FileInv'
  BY DEF FileInv, LeaseInv, IndexMode, Compatible, Publishing, Named
<1>5. CandidateInv'
  BY DEF CandidateInv
<1>6. NumberInv'
  BY DEF NumberInv, LeaseInv
<1>7. PublicationAtomic'
  BY DEF PublicationAtomic, ActiveIsWhole, ReceiptsSurvive,
     ErrorsAreDecided
<1>8. QED
  BY <1>1, <1>2, <1>3, <1>4, <1>5, <1>6, <1>7 DEF IInv

\* An operation begins, under a number of its own.
LEMMA BeginStep ==
    ASSUME NEW p \in Process, NEW kind \in {"rebuild", "read", "report"},
           NEW r \in Run, IInv, Begin(p, kind, r)
    PROVE  IInv'
<1> USE NoneAssumption, SchemaAssumption, BoundAssumption
    DEF Begin, Goto, IInv, TypeOK, dirVars, lockVars,
        workVars, ackVars, countVars, Mode
<1> DEFINE new == [kind |-> kind, run |-> r, id |-> ops + 1]
<1>a. new \in Operation /\ new # None /\ new.kind = kind /\ new.id = ops + 1
  BY DEF Operation
<1>b. op[p] = None /\ indexLock[p] # "exclusive"
  BY DEF LeaseInv
<1>c. op' = [op EXCEPT ![p] = new]
  OBVIOUS
<1> HIDE DEF new
<1>1. TypeOK'
  BY <1>a, <1>c
<1>2. LeaseInv'
  BY <1>a, <1>b, <1>c DEF LeaseInv, IndexMode, Compatible, Publishing
<1>3. ReadInv'
  BY <1>a, <1>c DEF ReadInv, Current
<1>4. FileInv'
  BY <1>a, <1>c DEF FileInv, LeaseInv, Publishing, Named
<1>5. CandidateInv'
  BY DEF CandidateInv
<1>6. NumberInv'
  <2>1. failed' \subseteq 1 .. ops'
    BY DEF NumberInv
  <2>2. \A d \in disk \cup {dir} : d.active # None => d.active.id \in 1 .. MaxOps /\ d.active.id <= ops
    BY Fields DEF NumberInv
  <2>3. \A q \in Process : op[q] # None => op[q].id \in 1 .. MaxOps /\ op[q].id <= ops
    BY Fields DEF NumberInv
  <2>4. \A q \in Process : q # p => op'[q] = op[q] /\ pc'[q] = pc[q]
    OBVIOUS
  <2>5. op'[p].id = ops + 1 /\ ops + 1 \notin failed
    BY <1>a, <1>c DEF NumberInv
  <2>6. QED
    BY <2>1, <2>2, <2>3, <2>4, <2>5 DEF NumberInv
<1>7. PublicationAtomic'
  BY DEF PublicationAtomic, ActiveIsWhole, ReceiptsSurvive,
     ErrorsAreDecided
<1>8. QED
  BY <1>1, <1>2, <1>3, <1>4, <1>5, <1>6, <1>7 DEF IInv

\* index.lock is taken.
LEMMA LockIndexStep ==
    ASSUME NEW p \in Process, IInv, LockIndex(p)
    PROVE  IInv'
<1> USE NoneAssumption, SchemaAssumption, BoundAssumption
    DEF LockIndex, Goto, IndexMode, IndexFree, IInv, TypeOK, dirVars, lockVars,
        workVars, ackVars, countVars, Mode
<1>1. TypeOK'
  OBVIOUS
<1>2. LeaseInv'
  BY DEF LeaseInv, IndexMode, Compatible, Publishing
<1>3. ReadInv'
  BY DEF ReadInv, Current, LeaseInv
<1>4. FileInv'
  BY DEF FileInv, LeaseInv, IndexMode, Compatible, Publishing, Named
<1>5. CandidateInv'
  BY DEF CandidateInv
<1>6. NumberInv'
  BY DEF NumberInv, LeaseInv
<1>7. PublicationAtomic'
  BY DEF PublicationAtomic, ActiveIsWhole, ReceiptsSurvive,
     ErrorsAreDecided
<1>8. QED
  BY <1>1, <1>2, <1>3, <1>4, <1>5, <1>6, <1>7 DEF IInv

\* The lock on the log is taken.
LEMMA LockLogStep ==
    ASSUME NEW p \in Process, IInv, LockLog(p)
    PROVE  IInv'
<1> USE NoneAssumption, SchemaAssumption, BoundAssumption
    DEF LockLog, Goto, IInv, TypeOK, dirVars, lockVars,
        workVars, ackVars, countVars, Mode
<1>a. LogMode(p) \in {"shared", "exclusive"}
  BY DEF LogMode
<1>b. op[p] # None /\ op[p] \in Operation
  BY DEF LeaseInv
<1>1. TypeOK'
  BY <1>a
<1>2. LeaseInv'
  BY <1>a, <1>b, Fields DEF LeaseInv, IndexMode, Compatible, Publishing
<1>3. ReadInv'
  BY DEF ReadInv, Current, LeaseInv
<1>4. FileInv'
  BY DEF FileInv, LeaseInv, IndexMode, Compatible, Publishing, Named
<1>5. CandidateInv'
  BY DEF CandidateInv
<1>6. NumberInv'
  BY DEF NumberInv, LeaseInv
<1>7. PublicationAtomic'
  BY DEF PublicationAtomic, ActiveIsWhole, ReceiptsSurvive,
     ErrorsAreDecided
<1>8. QED
  BY <1>1, <1>2, <1>3, <1>4, <1>5, <1>6, <1>7 DEF IInv

\* A rebuild removes leftover candidates.
LEMMA AuditRemoveStep ==
    ASSUME NEW p \in Process, IInv, Audit(p), Admits(dir), Audited(p)
    PROVE  IInv'
<1> USE NoneAssumption, SchemaAssumption, BoundAssumption
    DEF Audit, Goto, Change, IInv, TypeOK, dirVars, lockVars,
        workVars, ackVars, countVars, Mode
<1>a. /\ dir' \in Directory /\ dir'.active = dir.active /\ dir'.candidates = {}
      /\ disk' = disk \cup {dir'} /\ pc' = [pc EXCEPT ![p] = "auditsync"]
      /\ op[p].kind = "rebuild" /\ pc[p] = "audit"
  <2>1. /\ dir' = [dir EXCEPT !.candidates = {}] /\ disk' = disk \cup {dir'}
        /\ pc' = [pc EXCEPT ![p] = "auditsync"] /\ pc[p] = "audit"
    OBVIOUS
  <2>2. op[p].kind = "rebuild"
    BY DEF Audited
  <2>3. {} \in SUBSET File /\ dir \in Directory
    OBVIOUS
  <2>4. QED
    BY <2>1, <2>2, <2>3, NewDirectory
<1>b. UNCHANGED <<tail, op, lockVars, workVars, ackVars, countVars>>
  OBVIOUS
<1>c. \A q \in Process : q # p => pc[q] \in {"idle", "index", "recheck"}
  BY <1>a, Alone
<1> HIDE DEF Audit, Change, Goto
<1>1. TypeOK'
  BY <1>a, <1>b
<1>2. LeaseInv'
  BY <1>a, <1>b DEF LeaseInv, IndexMode, Compatible, Publishing, Audit
<1>3. ReadInv'
  BY <1>a, <1>b DEF ReadInv, Current
<1>4. FileInv'
  BY <1>a, <1>b, <1>c DEF FileInv, Named
<1>5. CandidateInv'
  BY <1>a DEF CandidateInv
<1>6. NumberInv'
  BY <1>a, <1>b DEF NumberInv, Audit
<1>7. PublicationAtomic'
  BY <1>a, <1>b DEF PublicationAtomic, ActiveIsWhole, ReceiptsSurvive,
     ErrorsAreDecided
<1>8. QED
  BY <1>1, <1>2, <1>3, <1>4, <1>5, <1>6, <1>7 DEF IInv

\* There are no candidates to remove.
LEMMA AuditPassStep ==
    ASSUME NEW p \in Process, IInv, Audit(p), Admits(dir), ~Audited(p)
    PROVE  IInv'
<1> USE NoneAssumption, SchemaAssumption, BoundAssumption
    DEF Audit, Goto, Audited, IInv, TypeOK, dirVars, lockVars,
        workVars, ackVars, countVars, Mode
<1>a. /\ pc[p] = "audit" /\ pc' = [pc EXCEPT ![p] = "log"]
      /\ op[p].kind = "rebuild" => dir.candidates = {}
      /\ UNCHANGED <<tail, dirVars, op, lockVars, workVars, ackVars, countVars>>
  OBVIOUS
<1> HIDE DEF Audit, Audited, Goto
<1> USE <1>a
<1>1. TypeOK'
  OBVIOUS
<1>2. LeaseInv'
  BY DEF LeaseInv, IndexMode, Compatible, Publishing
<1>3. ReadInv'
  BY DEF ReadInv, Current, LeaseInv
<1>4. FileInv'
  BY DEF FileInv, LeaseInv, IndexMode, Compatible, Publishing, Named
<1>5. CandidateInv'
  BY DEF CandidateInv
<1>6. NumberInv'
  BY DEF NumberInv, LeaseInv
<1>7. PublicationAtomic'
  BY DEF PublicationAtomic, ActiveIsWhole, ReceiptsSurvive,
     ErrorsAreDecided
<1>8. QED
  BY <1>1, <1>2, <1>3, <1>4, <1>5, <1>6, <1>7 DEF IInv

\* audit_candidates passes, removes the candidates or refuses.
LEMMA AuditStep ==
    ASSUME NEW p \in Process, IInv, Audit(p)
    PROVE  IInv'
<1>1. CASE Admits(dir) /\ Audited(p)
  BY <1>1, AuditRemoveStep
<1>2. CASE Admits(dir) /\ ~Audited(p)
  BY <1>2, AuditPassStep
<1>3. CASE ~Admits(dir)
  BY <1>3, LeftStep DEF Audit
<1>4. QED
  BY <1>1, <1>2, <1>3

\* Their removal is synced.
LEMMA SyncAuditStep ==
    ASSUME NEW p \in Process, IInv, SyncAudit(p)
    PROVE  IInv'
<1> USE NoneAssumption, SchemaAssumption, BoundAssumption
    DEF SyncAudit, Goto, Sync, IInv, TypeOK, dirVars, lockVars,
        workVars, ackVars, countVars, Mode
<1>1. TypeOK'
  OBVIOUS
<1>2. LeaseInv'
  BY DEF LeaseInv, IndexMode, Compatible, Publishing
<1>3. ReadInv'
  BY DEF ReadInv, Current, LeaseInv
<1>4. FileInv'
  <2>1. \A q \in Process : q # p => pc[q] \in {"idle", "index", "recheck"}
    BY Alone DEF LeaseInv, Publishing
  <2>2. QED
    BY <2>1 DEF FileInv, Named
<1>5. CandidateInv'
  BY DEF CandidateInv
<1>6. NumberInv'
  BY DEF NumberInv, LeaseInv
<1>7. PublicationAtomic'
  BY DEF PublicationAtomic, ActiveIsWhole, ReceiptsSurvive,
     ErrorsAreDecided
<1>8. QED
  BY <1>1, <1>2, <1>3, <1>4, <1>5, <1>6, <1>7 DEF IInv

\* The image of the log is written to an unnamed file.
LEMMA BuildStep ==
    ASSUME NEW p \in Process, IInv, Build(p)
    PROVE  IInv'
<1> USE NoneAssumption, SchemaAssumption, BoundAssumption
    DEF Build, Goto, IInv, TypeOK, dirVars, lockVars,
        workVars, ackVars, countVars, Mode
<1> DEFINE new == [image |-> Current(p), id |-> op[p].id, data |-> "cached"]
<1>a. op[p] # None /\ op[p] \in Operation /\ op[p].kind = "rebuild"
  BY DEF LeaseInv, Publishing
<1>b. new \in File /\ new # None /\ new.id = op[p].id /\ new.image.run = op[p].run
  BY <1>a, Fields, CurrentType DEF File, Current
<1>c. file' = [file EXCEPT ![p] = new]
  BY DEF Current
<1> HIDE DEF new
<1>1. TypeOK'
  BY <1>b, <1>c
<1>2. LeaseInv'
  BY DEF LeaseInv, IndexMode, Compatible, Publishing
<1>3. ReadInv'
  BY DEF ReadInv, Current, LeaseInv
<1>4. FileInv'
  BY <1>a, <1>b, <1>c DEF FileInv, Named
<1>5. CandidateInv'
  BY DEF CandidateInv
<1>6. NumberInv'
  BY DEF NumberInv, LeaseInv
<1>7. PublicationAtomic'
  BY DEF PublicationAtomic, ActiveIsWhole, ReceiptsSurvive,
     ErrorsAreDecided
<1>8. QED
  BY <1>1, <1>2, <1>3, <1>4, <1>5, <1>6, <1>7 DEF IInv

\* Its bytes are synced.
LEMMA SyncFileStep ==
    ASSUME NEW p \in Process, IInv, SyncFile(p)
    PROVE  IInv'
<1> USE NoneAssumption, SchemaAssumption, BoundAssumption
    DEF SyncFile, Goto, IInv, TypeOK, dirVars, lockVars,
        workVars, ackVars, countVars, Mode
<1> DEFINE new == [file[p] EXCEPT !.data = "durable"]
<1>a. /\ file[p] \in File /\ file[p].id = op[p].id /\ op[p].kind = "rebuild"
      /\ file[p].image.run = op[p].run
  BY DEF FileInv, LeaseInv, Publishing
<1>b. /\ new \in File /\ new # None /\ new.id = op[p].id /\ new.data = "durable"
      /\ new.image = file[p].image
  BY <1>a DEF File
<1>c. file' = [file EXCEPT ![p] = new]
  OBVIOUS
<1> HIDE DEF new
<1>1. TypeOK'
  BY <1>b, <1>c
<1>2. LeaseInv'
  BY DEF LeaseInv, IndexMode, Compatible, Publishing
<1>3. ReadInv'
  BY DEF ReadInv, Current, LeaseInv
<1>4. FileInv'
  <2>1. \A q \in Process : q # p => pc'[q] = pc[q] /\ file'[q] = file[q]
    OBVIOUS
  <2>2. pc[p] = "sync" /\ pc'[p] = "link" /\ file'[p] = new
    BY <1>c
  <2>3. UNCHANGED <<dir, disk, op>>
    OBVIOUS
  <2> HIDE DEF SyncFile, Goto, TypeOK
  <2>4. QED
    BY <1>a, <1>b, <2>1, <2>2, <2>3 DEF FileInv, Named
<1>5. CandidateInv'
  BY DEF CandidateInv
<1>6. NumberInv'
  BY DEF NumberInv, LeaseInv
<1>7. PublicationAtomic'
  BY DEF PublicationAtomic, ActiveIsWhole, ReceiptsSurvive,
     ErrorsAreDecided
<1>8. QED
  BY <1>1, <1>2, <1>3, <1>4, <1>5, <1>6, <1>7 DEF IInv

\* It is named as a candidate.
LEMMA LinkStep ==
    ASSUME NEW p \in Process, IInv, Link(p)
    PROVE  IInv'
<1> USE NoneAssumption, SchemaAssumption, BoundAssumption
    DEF Link, Goto, Change, IInv, TypeOK, dirVars, lockVars,
        workVars, ackVars, countVars, Mode
<1>a. /\ file[p] \in File /\ op[p].kind = "rebuild" /\ dir.candidates = {}
      /\ file[p].data = "durable"
  BY DEF FileInv, LeaseInv, Publishing, Named
<1>b. /\ dir' \in Directory /\ dir'.active = dir.active /\ dir'.candidates = {file[p]}
      /\ disk' = disk \cup {dir'}
  <2>1. dir' = [dir EXCEPT !.candidates = {file[p]}] /\ disk' = disk \cup {dir'}
    BY <1>a
  <2>2. {file[p]} \in SUBSET File /\ dir \in Directory
    BY <1>a
  <2> HIDE DEF Link, Change, Goto, IInv, TypeOK
  <2>3. QED
    BY <2>1, <2>2, NewDirectory
<1>c. \A q \in Process : q # p => pc[q] \in {"idle", "index", "recheck"}
  BY <1>a, Alone
<1>d. /\ pc[p] = "link" /\ pc' = [pc EXCEPT ![p] = "linksync"]
      /\ UNCHANGED <<tail, op, lockVars, workVars, ackVars, countVars>>
  OBVIOUS
<1> HIDE DEF Link, Change
<1>1. TypeOK'
  BY <1>b, <1>d
<1>2. LeaseInv'
  BY <1>d DEF LeaseInv, IndexMode, Compatible, Publishing
<1>3. ReadInv'
  BY <1>d DEF ReadInv, Current
<1>4. FileInv'
  BY <1>b, <1>c, <1>d DEF FileInv, Named
<1>5. CandidateInv'
  BY <1>b DEF CandidateInv
<1>6. NumberInv'
  BY <1>b, <1>d DEF NumberInv
<1>7. PublicationAtomic'
  BY <1>b, <1>d DEF PublicationAtomic, ActiveIsWhole, ReceiptsSurvive,
     ErrorsAreDecided
<1>8. QED
  BY <1>1, <1>2, <1>3, <1>4, <1>5, <1>6, <1>7 DEF IInv

\* The candidate's name is synced.
LEMMA SyncLinkStep ==
    ASSUME NEW p \in Process, IInv, SyncLink(p)
    PROVE  IInv'
<1> USE NoneAssumption, SchemaAssumption, BoundAssumption
    DEF SyncLink, Goto, Sync, IInv, TypeOK, dirVars, lockVars,
        workVars, ackVars, countVars, Mode
<1>1. TypeOK'
  OBVIOUS
<1>2. LeaseInv'
  BY DEF LeaseInv, IndexMode, Compatible, Publishing
<1>3. ReadInv'
  BY DEF ReadInv, Current, LeaseInv
<1>4. FileInv'
  BY DEF FileInv, LeaseInv, IndexMode, Compatible, Publishing, Named
<1>5. CandidateInv'
  BY DEF CandidateInv
<1>6. NumberInv'
  BY DEF NumberInv, LeaseInv
<1>7. PublicationAtomic'
  BY DEF PublicationAtomic, ActiveIsWhole, ReceiptsSurvive,
     ErrorsAreDecided
<1>8. QED
  BY <1>1, <1>2, <1>3, <1>4, <1>5, <1>6, <1>7 DEF IInv

\* The candidate replaces the active image.
LEMMA RenameStep ==
    ASSUME NEW p \in Process, IInv, Rename(p)
    PROVE  IInv'
<1> USE NoneAssumption, SchemaAssumption, BoundAssumption
    DEF Rename, Goto, Change, IInv, TypeOK, dirVars, lockVars,
        workVars, ackVars, countVars, Mode
<1>a. /\ file[p] \in File /\ file[p].id = op[p].id /\ file[p].data = "durable"
      /\ op[p].kind = "rebuild" /\ op[p] # None /\ file[p].image.run = op[p].run
  BY DEF FileInv, LeaseInv, Publishing, Named
<1>b. /\ dir' \in Directory /\ dir'.active = file[p]
      /\ dir'.candidates = dir.candidates \ {file[p]}
      /\ disk' = disk \cup {dir'}
  BY <1>a, Fields DEF Directory
<1>c. \A q \in Process : q # p => pc[q] \in {"idle", "index", "recheck"}
  BY <1>a, Alone
<1>d. /\ pc[p] = "rename" /\ pc' = [pc EXCEPT ![p] = "activesync"] /\ acked' = None
      /\ UNCHANGED <<tail, op, lockVars, workVars, failed, countVars>>
  OBVIOUS
<1> HIDE DEF Rename, Change
<1>1. TypeOK'
  BY <1>b, <1>d
<1>2. LeaseInv'
  BY <1>d DEF LeaseInv, IndexMode, Compatible, Publishing
<1>3. ReadInv'
  BY <1>d DEF ReadInv, Current
<1>4. FileInv'
  <2>1. pc'[p] = "activesync" /\ \A q \in Process : q # p => pc'[q] = pc[q]
    BY <1>d
  <2>2. UNCHANGED <<op, file>>
    BY <1>d
  <2> HIDE DEF Goto, TypeOK
  <2>3. QED
    BY <1>a, <1>b, <1>c, <2>1, <2>2 DEF FileInv, Named
<1>5. CandidateInv'
  BY <1>b DEF CandidateInv
<1>6. NumberInv'
  <2>1. \A d \in disk' \cup {dir'} : d \in disk \cup {dir} \/ d.active = file[p]
    BY <1>b
  <2>2. QED
    BY <1>a, <1>d, <2>1 DEF NumberInv
<1>7. PublicationAtomic'
  <2>1. \A d \in disk' \cup {dir'} : d \in disk \cup {dir} \/ d.active = file[p]
    BY <1>b
  <2>2. file[p].id \notin failed
    BY <1>a DEF NumberInv
  <2>3. QED
    BY <1>a, <1>b, <1>d, <2>1, <2>2 DEF PublicationAtomic, ActiveIsWhole, ReceiptsSurvive,
       ErrorsAreDecided
<1>8. QED
  BY <1>1, <1>2, <1>3, <1>4, <1>5, <1>6, <1>7 DEF IInv

\* The replacement is synced.
LEMMA SyncActiveStep ==
    ASSUME NEW p \in Process, IInv, SyncActive(p)
    PROVE  IInv'
<1> USE NoneAssumption, SchemaAssumption, BoundAssumption
    DEF SyncActive, Goto, Sync, IInv, TypeOK, dirVars, lockVars,
        workVars, ackVars, countVars, Mode
<1>1. TypeOK'
  OBVIOUS
<1>2. LeaseInv'
  BY DEF LeaseInv, IndexMode, Compatible, Publishing
<1>3. ReadInv'
  BY DEF ReadInv, Current, LeaseInv
<1>4. FileInv'
  <2>1. dir.active = file[p] /\ disk' = {dir} /\ dir' = dir /\ file' = file
    BY DEF FileInv
  <2>2. \A q \in Process : q # p => pc[q] \in {"idle", "index", "recheck"}
    BY Alone DEF LeaseInv, Publishing
  <2>3. QED
    BY <2>1, <2>2 DEF FileInv, Named
<1>5. CandidateInv'
  BY DEF CandidateInv
<1>6. NumberInv'
  BY DEF NumberInv, LeaseInv
<1>7. PublicationAtomic'
  BY DEF PublicationAtomic, ActiveIsWhole, ReceiptsSurvive,
     ErrorsAreDecided
<1>8. QED
  BY <1>1, <1>2, <1>3, <1>4, <1>5, <1>6, <1>7 DEF IInv

\* index.lock is looked at again and the receipt returned.
LEMMA VerifiedStep ==
    ASSUME NEW p \in Process, IInv, Verified(p)
    PROVE  IInv'
<1> USE NoneAssumption, SchemaAssumption, BoundAssumption
    DEF Verified, Leave, IInv, TypeOK, dirVars, lockVars,
        workVars, ackVars, countVars, Mode
<1>1. TypeOK'
  OBVIOUS
<1>2. LeaseInv'
  BY DEF LeaseInv, IndexMode, Compatible, Publishing
<1>3. ReadInv'
  BY DEF ReadInv, Current, LeaseInv
<1>4. FileInv'
  BY DEF FileInv, LeaseInv, IndexMode, Compatible, Publishing, Named
<1>5. CandidateInv'
  BY DEF CandidateInv
<1>6. NumberInv'
  BY DEF NumberInv, LeaseInv
<1>7. PublicationAtomic'
  <2>1. /\ dir.active = file[p] /\ \A d \in disk : d.active = file[p]
        /\ UNCHANGED <<dir, disk, failed>> /\ acked' = file[p]
    BY DEF FileInv
  <2>2. QED
    BY <2>1 DEF PublicationAtomic, ActiveIsWhole, ReceiptsSurvive, ErrorsAreDecided
<1>8. QED
  BY <1>1, <1>2, <1>3, <1>4, <1>5, <1>6, <1>7 DEF IInv

\* A reader validates its snapshot.
LEMMA CompareStep ==
    ASSUME NEW p \in Process, IInv, Compare(p)
    PROVE  IInv'
<1> USE NoneAssumption, SchemaAssumption, BoundAssumption
    DEF Compare, Goto, Validated, IInv, TypeOK, dirVars, lockVars,
        workVars, ackVars, countVars, Mode
<1>1. TypeOK'
  <2>1. dir.active.image \in Image
    BY Fields DEF Readable
  <2>2. QED
    BY <2>1
<1>2. LeaseInv'
  BY DEF LeaseInv, IndexMode, Compatible, Publishing
<1>3. ReadInv'
  BY DEF ReadInv, Current, LeaseInv
<1>4. FileInv'
  BY DEF FileInv, LeaseInv, IndexMode, Compatible, Publishing, Named
<1>5. CandidateInv'
  BY DEF CandidateInv
<1>6. NumberInv'
  BY DEF NumberInv, LeaseInv
<1>7. PublicationAtomic'
  BY DEF PublicationAtomic, ActiveIsWhole, ReceiptsSurvive,
     ErrorsAreDecided
<1>8. QED
  BY <1>1, <1>2, <1>3, <1>4, <1>5, <1>6, <1>7 DEF IInv

\* A pass of a report reads the image.
LEMMA VisitStep ==
    ASSUME NEW p \in Process, IInv, Visit(p)
    PROVE  IInv'
<1> USE NoneAssumption, SchemaAssumption, BoundAssumption
    DEF Visit, Goto, Revisitable, IInv, TypeOK, dirVars, lockVars,
        workVars, ackVars, countVars, Mode
<1>1. TypeOK'
  <2>1. dir.active.image \in Image
    BY Fields DEF Readable
  <2>2. seen[p] \in {<<>>} \cup {<<i>> : i \in Image}
    <3>1. Len(seen[p]) < 2
      BY DEF ReadInv
    <3>2. \A s \in Image \X Image : Len(s) = 2
      OBVIOUS
    <3>3. seen[p] \in {<<>>} \cup (Image \X Image) \cup {<<i>> : i \in Image}
      OBVIOUS
    <3>4. QED
      BY <3>1, <3>2, <3>3
  <2>3. Append(seen[p], dir.active.image) \in
           {<<>>} \cup (Image \X Image) \cup {<<i>> : i \in Image}
    <3>1. CASE seen[p] = <<>>
      BY <2>1, <3>1
    <3>2. ASSUME NEW i \in Image, seen[p] = <<i>>
          PROVE  Append(seen[p], dir.active.image) \in Image \X Image
      BY <2>1, <3>2, SecondPass
    <3>3. QED
      BY <2>2, <3>1, <3>2
  <2>4. QED
    BY <2>3
<1>2. LeaseInv'
  BY DEF LeaseInv, IndexMode, Compatible, Publishing
<1>3. ReadInv'
  BY DEF ReadInv, Current, LeaseInv
<1>4. FileInv'
  BY DEF FileInv, LeaseInv, IndexMode, Compatible, Publishing, Named
<1>5. CandidateInv'
  BY DEF CandidateInv
<1>6. NumberInv'
  BY DEF NumberInv, LeaseInv
<1>7. PublicationAtomic'
  BY DEF PublicationAtomic, ActiveIsWhole, ReceiptsSurvive,
     ErrorsAreDecided
<1>8. QED
  BY <1>1, <1>2, <1>3, <1>4, <1>5, <1>6, <1>7 DEF IInv

\* A reader finds the image stale.
LEMMA ReadRefusedStep ==
    ASSUME NEW p \in Process, IInv, ReadRefused(p)
    PROVE  IInv'
BY LeftStep DEF ReadRefused

\* A reader returns.
LEMMA FinishStep ==
    ASSUME NEW p \in Process, IInv, Finish(p)
    PROVE  IInv'
BY LeftStep DEF Finish

\* A report releases its locks between passes.
LEMMA ReleaseStep ==
    ASSUME NEW p \in Process, IInv, Release(p)
    PROVE  IInv'
<1> USE NoneAssumption, SchemaAssumption, BoundAssumption
    DEF Release, Goto, Finished, IInv, TypeOK, dirVars, lockVars,
        workVars, ackVars, countVars, Mode
<1>1. TypeOK'
  OBVIOUS
<1>2. LeaseInv'
  BY DEF LeaseInv, IndexMode, Compatible, Publishing
<1>3. ReadInv'
  <2>1. Len(seen[p]) < 2
    <3>1. seen[p] = <<>> \/ seen[p] \in Image \X Image \/ \E i \in Image : seen[p] = <<i>>
      OBVIOUS
    <3>2. Len(seen[p]) # 2
      OBVIOUS
    <3> HIDE DEF Release, Goto, Finished, IInv, TypeOK
    <3>3. \A s \in Image \X Image : Len(s) = 2
      OBVIOUS
    <3>4. CASE seen[p] = <<>>
      BY <3>4
    <3>5. ASSUME NEW i \in Image, seen[p] = <<i>> PROVE Len(seen[p]) < 2
      <4>1. Len(<<i>>) = 1
        OBVIOUS
      <4>2. QED
        BY <3>5, <4>1
    <3>6. QED
      BY <3>1, <3>2, <3>3, <3>4, <3>5
  <2>2. /\ pc'[p] # "served" /\ \A q \in Process : q # p => pc'[q] = pc[q]
        /\ UNCHANGED <<tail, op, snapshot, seen>>
    OBVIOUS
  <2> HIDE DEF Release, Goto, Finished, TypeOK
  <2>3. QED
    BY <2>1, <2>2 DEF ReadInv, Current
<1>4. FileInv'
  BY DEF FileInv, LeaseInv, IndexMode, Compatible, Publishing, Named
<1>5. CandidateInv'
  BY DEF CandidateInv
<1>6. NumberInv'
  BY DEF NumberInv, LeaseInv
<1>7. PublicationAtomic'
  BY DEF PublicationAtomic, ActiveIsWhole, ReceiptsSurvive,
     ErrorsAreDecided
<1>8. QED
  BY <1>1, <1>2, <1>3, <1>4, <1>5, <1>6, <1>7 DEF IInv

\* The snapshot of a report is still the log's.
LEMMA RecheckPassStep ==
    ASSUME NEW p \in Process, IInv, Recheck(p), Current(p) = snapshot[p]
    PROVE  IInv'
<1> USE NoneAssumption, SchemaAssumption, BoundAssumption
    DEF Recheck, Goto, IInv, TypeOK, dirVars, lockVars,
        workVars, ackVars, countVars, Mode
<1>a. /\ pc[p] = "recheck" /\ pc' = [pc EXCEPT ![p] = "index"]
      /\ UNCHANGED <<tail, dirVars, op, lockVars, workVars, ackVars, countVars>>
  OBVIOUS
<1> HIDE DEF Recheck, Goto
<1> USE <1>a
<1>1. TypeOK'
  OBVIOUS
<1>2. LeaseInv'
  BY DEF LeaseInv, IndexMode, Compatible, Publishing
<1>3. ReadInv'
  BY DEF ReadInv, Current, LeaseInv
<1>4. FileInv'
  BY DEF FileInv, LeaseInv, IndexMode, Compatible, Publishing, Named
<1>5. CandidateInv'
  BY DEF CandidateInv
<1>6. NumberInv'
  BY DEF NumberInv, LeaseInv
<1>7. PublicationAtomic'
  BY DEF PublicationAtomic, ActiveIsWhole, ReceiptsSurvive,
     ErrorsAreDecided
<1>8. QED
  BY <1>1, <1>2, <1>3, <1>4, <1>5, <1>6, <1>7 DEF IInv

\* A report compares its snapshot with the log.
LEMMA RecheckStep ==
    ASSUME NEW p \in Process, IInv, Recheck(p)
    PROVE  IInv'
<1>1. CASE Current(p) = snapshot[p]
  BY <1>1, RecheckPassStep
<1>2. CASE Current(p) # snapshot[p]
  BY <1>2, LeftStep DEF Recheck
<1>3. QED
  BY <1>1, <1>2

\* A call fails or the process is killed.
LEMMA FailStep ==
    ASSUME NEW p \in Process, IInv, Fail(p)
    PROVE  IInv'
<1> USE NoneAssumption, SchemaAssumption, BoundAssumption
    DEF Fail, Leave, IInv, TypeOK, dirVars, lockVars,
        workVars, ackVars, countVars, Mode
<1>1. TypeOK'
  <2>1. op[p] # None /\ op[p].id \in 1 .. MaxOps
    BY Fields DEF LeaseInv
  <2>2. failed' \subseteq 1 .. MaxOps /\ faults' \in 0 .. MaxFaults
    <3>1. failed' \in {failed, failed \cup {op[p].id}} /\ failed \subseteq 1 .. MaxOps
      OBVIOUS
    <3>2. faults \in Nat /\ faults < MaxFaults /\ faults' = faults + 1 /\ MaxFaults \in Nat
      OBVIOUS
    <3> HIDE DEF Fail, Leave, Answers, TypeOK, IInv
    <3>3. QED
      BY <2>1, <3>1, <3>2
  <2>3. QED
    BY <2>2
<1>2. LeaseInv'
  BY DEF LeaseInv, IndexMode, Compatible, Publishing
<1>3. ReadInv'
  BY DEF ReadInv, Current, LeaseInv
<1>4. FileInv'
  BY DEF FileInv, LeaseInv, IndexMode, Compatible, Publishing, Named
<1>5. CandidateInv'
  BY DEF CandidateInv
<1>6. NumberInv'
  <2>1. op[p] # None /\ op[p].id \in 1 .. MaxOps /\ op[p].id <= ops
    BY Fields DEF LeaseInv, NumberInv
  <2>2. failed' \subseteq failed \cup {op[p].id} /\ ops' = ops
    OBVIOUS
  <2>3. failed' \subseteq 1 .. ops'
    <3>1. failed \subseteq 1 .. ops /\ op[p].id \in 1 .. ops
      BY <2>1 DEF NumberInv
    <3> HIDE DEF Fail, Leave, Answers, TypeOK, IInv
    <3>2. QED
      BY <2>2, <3>1
  <2>4. \A q \in Process : q # p => op'[q] = op[q] /\ pc'[q] = pc[q]
    OBVIOUS
  <2>5. QED
    BY <2>1, <2>2, <2>3, <2>4 DEF NumberInv
<1>7. PublicationAtomic'
  <2>1. /\ failed' = failed
        \/ /\ op[p].kind = "rebuild" /\ failed' = failed \cup {op[p].id}
           /\ pc[p] = "activesync" => Schema[op[p].run] = 3
    BY DEF Answers
  <2>2. op[p] # None /\ UNCHANGED <<dir, disk, acked>>
    BY DEF LeaseInv
  <2>3. ASSUME dir.active # None, dir.active.id = op[p].id, op[p].kind = "rebuild"
        PROVE  /\ pc[p] \in {"activesync", "verify"} /\ dir.active.image.run = op[p].run
               /\ pc[p] = "verify" => \A d \in disk : d.active = dir.active
    <3>1. pc[p] \in {"activesync", "verify"}
      BY <2>2, <2>3 DEF NumberInv
    <3>2. QED
      BY <3>1 DEF FileInv, Named
  <2>4. ErrorsAreDecided'
    <3>1. ErrorsAreDecided
      BY DEF PublicationAtomic
    <3> HIDE DEF Fail, Leave, IInv, TypeOK
    <3>2. QED
      BY <2>1, <2>2, <2>3, <3>1 DEF ErrorsAreDecided
  <2>5. QED
    BY <2>2, <2>4 DEF PublicationAtomic, ActiveIsWhole, ReceiptsSurvive
<1>8. QED
  BY <1>1, <1>2, <1>3, <1>4, <1>5, <1>6, <1>7 DEF IInv

\* The log moves on.
LEMMA AppendEventStep ==
    ASSUME NEW r \in Run, IInv, AppendEvent(r)
    PROVE  IInv'
<1> USE NoneAssumption, SchemaAssumption, BoundAssumption
    DEF AppendEvent, IInv, TypeOK, dirVars, lockVars,
        workVars, ackVars, countVars, Mode
<1>1. TypeOK'
  OBVIOUS
<1>2. LeaseInv'
  BY DEF LeaseInv, IndexMode, Compatible, Publishing
<1>3. ReadInv'
  BY DEF ReadInv, Current, LeaseInv
<1>4. FileInv'
  BY DEF FileInv, LeaseInv, IndexMode, Compatible, Publishing, Named
<1>5. CandidateInv'
  BY DEF CandidateInv
<1>6. NumberInv'
  BY DEF NumberInv, LeaseInv
<1>7. PublicationAtomic'
  BY DEF PublicationAtomic, ActiveIsWhole, ReceiptsSurvive,
     ErrorsAreDecided
<1>8. QED
  BY <1>1, <1>2, <1>3, <1>4, <1>5, <1>6, <1>7 DEF IInv

\* Power fails: one of the directories on the medium is left, nobody runs.
LEMMA PowerLossStep ==
    ASSUME IInv, PowerLoss
    PROVE  IInv'
<1> USE NoneAssumption, SchemaAssumption, BoundAssumption
    DEF PowerLoss, Tear, Torn, IInv, TypeOK, dirVars, lockVars,
        workVars, ackVars, countVars, Mode
<1>a. PICK d \in disk : dir' \in {d, Torn(d)}
  OBVIOUS
<1>b. d \in Directory /\ (d.active # None => d.active.data = "durable")
  BY DEF PublicationAtomic, ActiveIsWhole
<1>c. \A f \in File : Tear(f) \in File
  BY DEF File
<1>d. dir' \in Directory /\ dir'.active = d.active
  <2>1. CASE dir' = d
    BY <1>b, <2>1
  <2>2. CASE dir' = Torn(d)
    <3>1. Tear(d.active) = d.active
      BY <1>b
    <3>2. {Tear(f) : f \in d.candidates} \in SUBSET File
      BY <1>b, <1>c, Fields
    <3>3. QED
      BY <1>b, <2>2, <3>1, <3>2, Fields DEF Directory
  <2>3. QED
    BY <1>a, <2>1, <2>2
<1>e. \A f, g \in dir'.candidates : f = g
  <2>1. \A f, g \in d.candidates : f = g
    BY DEF CandidateInv
  <2>2. CASE dir' = Torn(d)
    <3>1. dir'.candidates = {Tear(f) : f \in d.candidates}
      BY <2>2
    <3> HIDE DEF Tear, Torn, PowerLoss, IInv, TypeOK
    <3>2. QED
      BY <2>1, <3>1
  <2>3. QED
    BY <1>a, <2>1, <2>2
<1>1. TypeOK'
  BY <1>d
<1>2. LeaseInv'
  BY DEF LeaseInv, IndexMode, Compatible, Publishing
<1>3. ReadInv'
  BY DEF ReadInv, Current, LeaseInv
<1>4. FileInv'
  BY DEF FileInv, LeaseInv, IndexMode, Compatible, Publishing, Named
<1>5. CandidateInv'
  BY <1>e DEF CandidateInv
<1>6. NumberInv'
  BY <1>d DEF NumberInv
<1>7. PublicationAtomic'
  BY <1>d DEF PublicationAtomic, ActiveIsWhole, ReceiptsSurvive,
     ErrorsAreDecided
<1>8. QED
  BY <1>1, <1>2, <1>3, <1>4, <1>5, <1>6, <1>7 DEF IInv

-----------------------------------------------------------------------------
(***************************************************************************)
(* The theorems                                                            *)
(***************************************************************************)

\* The inductive invariant of the derived index: who holds index.lock and the
\* log, what a rebuild has published when, and which operation it was.
THEOREM IndexInv == Spec => []IInv
<1>1. Init => IInv
  <2> SUFFICES ASSUME Init PROVE IInv
    OBVIOUS
  <2> USE NoneAssumption, BoundAssumption DEF Init
  <2>1. TypeOK
    BY DEF TypeOK, Directory, Mode
  <2>2. LeaseInv /\ ReadInv
    BY DEF LeaseInv, ReadInv, Compatible, Publishing
  <2>3. FileInv /\ CandidateInv
    BY DEF FileInv, CandidateInv, Named
  <2>4. NumberInv /\ PublicationAtomic
    BY DEF NumberInv, PublicationAtomic, ActiveIsWhole, ReceiptsSurvive,
       ErrorsAreDecided
  <2>5. QED
    BY <2>1, <2>2, <2>3, <2>4 DEF IInv
<1>2. IInv /\ [Next]_vars => IInv'
  <2> SUFFICES ASSUME IInv, [Next]_vars PROVE IInv'
    OBVIOUS
  <2>1. ASSUME NEW p \in Process, Step(p) PROVE IInv'
    BY <2>1, LockIndexStep, LockLogStep, AuditStep, SyncAuditStep, BuildStep,
       SyncFileStep, LinkStep, SyncLinkStep, RenameStep, SyncActiveStep,
       VerifiedStep, CompareStep, VisitStep, ReadRefusedStep, FinishStep, ReleaseStep,
       RecheckStep DEF Step, Publish, Read
  <2>2. CASE Next
    BY <2>1, <2>2, BeginStep, FailStep, AppendEventStep, PowerLossStep DEF Next
  <2>3. CASE UNCHANGED vars
    BY <2>3 DEF vars, dirVars, lockVars, workVars, ackVars, countVars, IInv,
       TypeOK, LeaseInv, ReadInv, FileInv, CandidateInv, NumberInv,
       PublicationAtomic, ActiveIsWhole, ReceiptsSurvive,
       ErrorsAreDecided, IndexMode, Current
  <2>4. QED
    BY <2>2, <2>3
<1>3. QED
  BY <1>1, <1>2, PTL DEF Spec

\* Whatever a reader is served is the log of its run as it is at that moment,
\* and a report is served the same in both passes.
THEOREM ReadersSeeTheLog == Spec => []ReadsAreCurrent
<1>1. IInv => ReadsAreCurrent
  BY DEF IInv, ReadInv, ReadsAreCurrent
<1>2. QED
  BY <1>1, IndexInv, PTL

\* The active image is replaced as a whole; a receipt means for good, and any
\* error but PublicationDurabilityUncertain that no power failure changes which
\* image is active (for the schemas whose verify_unchanged cannot hide one).
THEOREM PublicationIsAtomic == Spec => []PublicationAtomic
<1>1. IInv => PublicationAtomic
  BY DEF IInv
<1>2. QED
  BY <1>1, IndexInv, PTL

\* The bytes of a directory with no candidate, and with one.
LEMMA ApparentBytesOfOne ==
    /\ \A d \in Directory : d.candidates = {} => ApparentBytes(d) = 0
    /\ \A d \in Directory, f \in File :
          d.candidates = {f} => ApparentBytes(d) = Size[f.image]
<1>1. ASSUME NEW d \in Directory, d.candidates = {} PROVE ApparentBytes(d) = 0
  <2>1. UNION {{f} \X (1 .. Size[f.image]) : f \in d.candidates} = {}
    BY <1>1
  <2>2. QED
    BY <2>1, FS_EmptySet DEF ApparentBytes
<1>2. ASSUME NEW d \in Directory, NEW f \in File, d.candidates = {f}
      PROVE  ApparentBytes(d) = Size[f.image]
  <2>1. f.image \in Image /\ Size[f.image] \in Nat
    BY Fields, SizeAssumption
  <2>2. UNION {{g} \X (1 .. Size[g.image]) : g \in d.candidates} = {f} \X (1 .. Size[f.image])
    BY <1>2
  <2>3. IsFiniteSet({f}) /\ Cardinality({f}) = 1
    BY FS_Singleton
  <2>4. /\ IsFiniteSet(1 .. Size[f.image])
        /\ Cardinality(1 .. Size[f.image]) = Size[f.image]
    BY <2>1, FS_Interval
  <2>5. Cardinality({f} \X (1 .. Size[f.image])) = Size[f.image]
    <3>1. \A S, T : IsFiniteSet(S) /\ IsFiniteSet(T) =>
             Cardinality(S \X T) = Cardinality(S) * Cardinality(T)
      BY FS_Product, Zenon
    <3>2. Cardinality({f} \X (1 .. Size[f.image])) =
             Cardinality({f}) * Cardinality(1 .. Size[f.image])
      BY <2>3, <2>4, <3>1, Zenon
    <3>3. Cardinality({f} \X (1 .. Size[f.image])) = 1 * Size[f.image]
      BY <2>3, <2>4, <3>2, Zenon
    <3>4. \A n \in Nat : 1 * n = n
      OBVIOUS
    <3>5. QED
      BY <2>1, <3>3, <3>4, Zenon
  <2>6. QED
    BY <2>1, <2>2, <2>5 DEF ApparentBytes
<1>3. QED
  BY <1>1, <1>2

\* Interrupted rebuilds leave at most one candidate, so audit_candidates refuses
\* only when its limits cannot take one image, whatever the limits are.
THEOREM AuditsTakeOneCandidate == Spec => []CandidatesStayBounded
<1>1. ASSUME IInv PROVE CandidatesStayBounded
  <2> SUFFICES ASSUME NEW d \in disk \cup {dir}
               PROVE  /\ Cardinality(d.candidates) <= 1
                      /\ /\ MaxCandidates >= 1
                         /\ \A f \in d.candidates : Size[f.image] <= MaxScanBytes
                         => Admits(d)
    BY DEF CandidatesStayBounded
  <2>1. \A f, g \in d.candidates : f = g
    BY <1>1 DEF IInv, CandidateInv
  <2>2. d \in Directory /\ d.candidates \in SUBSET File
    BY <1>1, Fields DEF IInv, TypeOK
  <2>3. MaxCandidates \in Nat /\ MaxScanBytes \in Nat
    BY LimitAssumption
  <2>4. CASE d.candidates = {}
    <3>1. Cardinality(d.candidates) = 0 /\ ApparentBytes(d) = 0
      BY <2>2, <2>4, FS_EmptySet, ApparentBytesOfOne
    <3>2. QED
      BY <2>3, <3>1 DEF Admits
  <2>5. CASE d.candidates # {}
    <3>1. PICK f \in File : d.candidates = {f}
      BY <2>1, <2>2, <2>5
    <3>2. Cardinality(d.candidates) = 1
      BY <3>1, FS_Singleton
    <3>3. ApparentBytes(d) = Size[f.image]
      BY <2>2, <3>1, ApparentBytesOfOne
    <3>4. QED
      BY <2>3, <3>1, <3>2, <3>3 DEF Admits
  <2>6. QED
    BY <2>4, <2>5
<1>2. QED
  BY <1>1, IndexInv, PTL
=============================================================================
