---------------------------- MODULE KeyedProofs ----------------------------
(***************************************************************************)
(* Proofs about Keyed, for every value of its constants.  The facts about  *)
(* bytes are those of JournalProofs.                                       *)
(***************************************************************************)
EXTENDS Keyed, JournalProofs

-----------------------------------------------------------------------------
(***************************************************************************)
(* Every step preserves the inductive invariant.                           *)
(***************************************************************************)

\* The first line is one complete line.
LEMMA FirstLineType == FirstLine \in Seq(Unit) /\ Len(FirstLine) = 2 /\ FirstLine # <<>>
<1>1. <<Genesis>> \in Seq(Event) /\ Len(<<Genesis>>) = 1
  BY GenesisAssumption
<1>2. FirstLine \in Seq(Unit) /\ Len(FirstLine) = 2
  <2>1. /\ Lines(<<Genesis>>) \in Seq(Unit)
        /\ Len(Lines(<<Genesis>>)) = 2 * Len(<<Genesis>>)
    BY <1>1, LinesType
  <2>2. QED
    BY <1>1, <2>1 DEF FirstLine
<1> HIDE DEF FirstLine
<1>3. QED
  BY <1>2

\* What is kept is bytes.
LEMMA KeptType ==
    ASSUME IInvV4
    PROVE  /\ \A s \in {FirstLine, acked} : s \in Seq(Unit) /\ Len(s) \in Nat
           /\ file \in Seq(Unit) /\ Len(file) \in Nat
BY FirstLineType DEF IInvV4, BytesInv, TypeOKV4

\* A key is not the missing key, and it is the one that was observed.
LEMMA ObservedType ==
    ASSUME NEW kind \in {"genesis", "tail"}, IInvV4, marker # "partial"
    PROVE  /\ Observed(kind) \in Key
           /\ Observed(kind).kind = kind /\ Observed(kind).marker = marker
           /\ linked => Observed(kind).file # NoLog
<1>1. file \in Seq(Unit) /\ marker \in {"absent", "present"}
  BY DEF IInvV4, BytesInv, TypeOKV4, MarkerState
<1> DEFINE f == IF linked THEN file ELSE NoLog
<1>2. f \in Seq(Unit) \cup {NoLog} /\ (linked => f # NoLog)
  BY <1>1, NoLogAssumption
<1>3. Observed(kind) = [kind |-> kind, file |-> f, marker |-> marker]
  BY DEF Observed
<1> HIDE DEF f
<1>4. QED
  BY <1>1, <1>2, <1>3 DEF Key

\* A publication takes the locks.
LEMMA BeginPublishV4 ==
    ASSUME IInvV4, BeginPublish
    PROVE  IInvV4'
<1> USE DEF BeginPublish, Unlocked, IInvV4, TypeOKV4, PublishPCs, TailPCs, JobPCs,
        vars, logVars, markerVars, receiptVars, lockVars, writerVars, historyVars, keyedVars
<1>1. TypeOKV4'
  BY DEF NameInv, BytesInv, WriterPCs
<1>2. BytesInv'
  BY DEF BytesInv, WriterPCs, MarkerState
<1>3. NameInv'
  BY DEF NameInv, WriterPCs, LatePCs
<1>4. KeptInv'
  BY DEF KeptInv, WriterPCs
<1>5. AppendInv'
  BY DEF AppendInv, WriterPCs
<1>6. NotCommittedIsFinal'
  BY DEF NotCommittedIsFinal, NameInv
<1>7. QED
  BY <1>1, <1>2, <1>3, <1>4, <1>5, <1>6 DEF IInvV4

\* The first line is written to an inode without a name.
LEMMA StageV4 ==
    ASSUME IInvV4, Stage
    PROVE  IInvV4'
<1> USE DEF Stage, IInvV4, TypeOKV4, PublishPCs, TailPCs, JobPCs,
        vars, logVars, markerVars, receiptVars, lockVars, writerVars, historyVars, keyedVars
<1>1. TypeOKV4'
  BY DEF NameInv, BytesInv, WriterPCs
<1>2. BytesInv'
  BY DEF BytesInv, WriterPCs, MarkerState
<1>3. NameInv'
  BY DEF NameInv, WriterPCs, LatePCs
<1>4. KeptInv'
  BY DEF KeptInv, WriterPCs
<1>5. AppendInv'
  BY DEF AppendInv, WriterPCs
<1>6. NotCommittedIsFinal'
  BY DEF NotCommittedIsFinal, NameInv
<1>7. QED
  BY <1>1, <1>2, <1>3, <1>4, <1>5, <1>6 DEF IInvV4

\* The inode gets its name.
LEMMA LinkV4 ==
    ASSUME IInvV4, Link
    PROVE  IInvV4'
<1> USE DEF Link, IInvV4, TypeOKV4, PublishPCs, TailPCs, JobPCs,
        vars, logVars, markerVars, receiptVars, lockVars, writerVars, historyVars, keyedVars
<1>a. acked = <<>> /\ pc' = "link_sync"
  BY DEF NameInv
<1>1. TypeOKV4'
  BY DEF NameInv, BytesInv, WriterPCs
<1>2. BytesInv'
  BY FirstLineType DEF BytesInv, WriterPCs
<1>3. NameInv'
  BY DEF NameInv, WriterPCs, LatePCs
<1>4. KeptInv'
  <2>1. Prefix(FirstLine, FirstLine) /\ Prefix(<<>>, FirstLine)
    BY FirstLineType, PrefixRefl DEF Prefix
  <2>2. QED
    BY <1>a, <2>1 DEF KeptInv, WriterPCs
<1>5. AppendInv'
  BY DEF AppendInv, WriterPCs
<1>6. NotCommittedIsFinal'
  BY DEF NotCommittedIsFinal, NameInv
<1>7. QED
  BY <1>1, <1>2, <1>3, <1>4, <1>5, <1>6 DEF IInvV4

\* There is a log already.
LEMMA LinkExistsV4 ==
    ASSUME IInvV4, LinkExists
    PROVE  IInvV4'
<1> USE DEF LinkExists, Release, IInvV4, TypeOKV4, PublishPCs, TailPCs, JobPCs,
        vars, logVars, markerVars, receiptVars, lockVars, writerVars, historyVars, keyedVars
<1>1. TypeOKV4'
  BY DEF NameInv, BytesInv, WriterPCs
<1>2. BytesInv'
  BY DEF BytesInv, WriterPCs, MarkerState
<1>3. NameInv'
  BY DEF NameInv, WriterPCs, LatePCs
<1>4. KeptInv'
  BY DEF KeptInv, WriterPCs
<1>5. AppendInv'
  BY DEF AppendInv, WriterPCs
<1>6. NotCommittedIsFinal'
  BY DEF NotCommittedIsFinal, NameInv
<1>7. QED
  BY <1>1, <1>2, <1>3, <1>4, <1>5, <1>6 DEF IInvV4

\* The name is synced.
LEMMA SyncLinkV4 ==
    ASSUME IInvV4, SyncLink
    PROVE  IInvV4'
<1> USE DEF SyncLink, Release, IInvV4, TypeOKV4, PublishPCs, TailPCs, JobPCs,
        vars, logVars, markerVars, receiptVars, lockVars, writerVars, historyVars, keyedVars
<1>1. TypeOKV4'
  BY DEF NameInv, BytesInv, WriterPCs
<1>2. BytesInv'
  BY DEF BytesInv, WriterPCs, MarkerState
<1>3. NameInv'
  BY DEF NameInv, WriterPCs, LatePCs
<1>4. KeptInv'
  BY DEF KeptInv, WriterPCs
<1>5. AppendInv'
  BY DEF AppendInv, WriterPCs
<1>6. NotCommittedIsFinal'
  BY DEF NotCommittedIsFinal, NameInv
<1>7. QED
  BY <1>1, <1>2, <1>3, <1>4, <1>5, <1>6 DEF IInvV4

\* The genesis is reported as committed.
LEMMA PublishedV4 ==
    ASSUME IInvV4, Published
    PROVE  IInvV4'
<1> USE DEF Published, IInvV4, TypeOKV4, PublishPCs, TailPCs, JobPCs,
        vars, logVars, markerVars, receiptVars, lockVars, writerVars, historyVars, keyedVars
<1>1. TypeOKV4'
  BY DEF NameInv, BytesInv, WriterPCs
<1>2. BytesInv'
  BY FirstLineType DEF BytesInv
<1>3. NameInv'
  BY DEF NameInv, WriterPCs, LatePCs
<1>4. KeptInv'
  BY DEF KeptInv, WriterPCs
<1>5. AppendInv'
  BY DEF AppendInv, WriterPCs
<1>6. NotCommittedIsFinal'
  BY DEF NotCommittedIsFinal, NameInv
<1>7. QED
  BY <1>1, <1>2, <1>3, <1>4, <1>5, <1>6 DEF IInvV4

\* The committed genesis is reported as uncertain.
LEMMA SessionFailsV4 ==
    ASSUME IInvV4, SessionFails
    PROVE  IInvV4'
<1> USE DEF SessionFails, Fault, IInvV4, TypeOKV4, PublishPCs, TailPCs, JobPCs,
        vars, logVars, markerVars, receiptVars, lockVars, writerVars, historyVars, keyedVars
<1>1. TypeOKV4'
  BY DEF NameInv, BytesInv, WriterPCs
<1>2. BytesInv'
  BY DEF BytesInv, WriterPCs, MarkerState
<1>3. NameInv'
  BY DEF NameInv, WriterPCs, LatePCs
<1>4. KeptInv'
  BY DEF KeptInv, WriterPCs
<1>5. AppendInv'
  BY DEF AppendInv, WriterPCs
<1>6. NotCommittedIsFinal'
  BY DEF NotCommittedIsFinal, NameInv
<1>7. QED
  BY <1>1, <1>2, <1>3, <1>4, <1>5, <1>6 DEF IInvV4

\* A call of the publication fails.
LEMMA PublishFailsV4 ==
    ASSUME IInvV4, PublishFails
    PROVE  IInvV4'
<1> USE DEF PublishFails, Fault, Release, PublishError, IInvV4, TypeOKV4, PublishPCs, TailPCs, JobPCs,
        vars, logVars, markerVars, receiptVars, lockVars, writerVars, historyVars, keyedVars
<1>1. TypeOKV4'
  BY DEF NameInv, BytesInv, WriterPCs
<1>2. BytesInv'
  BY DEF BytesInv, WriterPCs, MarkerState
<1>3. NameInv'
  BY DEF NameInv, WriterPCs, LatePCs
<1>4. KeptInv'
  BY DEF KeptInv, WriterPCs
<1>5. AppendInv'
  BY DEF AppendInv, WriterPCs
<1>6. NotCommittedIsFinal'
  BY DEF NotCommittedIsFinal, NameInv
<1>7. QED
  BY <1>1, <1>2, <1>3, <1>4, <1>5, <1>6 DEF IInvV4

\* A bootstrap is inspected.
LEMMA InspectGenesisV4 ==
    ASSUME IInvV4, InspectGenesis
    PROVE  IInvV4'
<1> USE DEF InspectGenesis, Unlocked, IInvV4, TypeOKV4, PublishPCs, TailPCs, JobPCs,
        vars, logVars, markerVars, receiptVars, lockVars, writerVars, historyVars, keyedVars
<1>a. /\ key' \in Key /\ key'.kind = "genesis" /\ key'.marker = "absent"
  BY ObservedType
<1>1. TypeOKV4'
  BY <1>a
<1>2. BytesInv'
  BY <1>a DEF BytesInv
<1>3. NameInv'
  BY DEF NameInv, WriterPCs, LatePCs
<1>4. KeptInv'
  BY DEF KeptInv, WriterPCs
<1>5. AppendInv'
  BY DEF AppendInv, WriterPCs
<1>6. NotCommittedIsFinal'
  BY DEF NotCommittedIsFinal, NameInv
<1>7. QED
  BY <1>1, <1>2, <1>3, <1>4, <1>5, <1>6 DEF IInvV4

\* A tail is inspected.
LEMMA InspectTailV4 ==
    ASSUME IInvV4, InspectTail
    PROVE  IInvV4'
<1> USE DEF InspectTail, Unlocked, IInvV4, TypeOKV4, PublishPCs, TailPCs, JobPCs,
        vars, logVars, markerVars, receiptVars, lockVars, writerVars, historyVars, keyedVars
<1>a. /\ key' \in Key /\ key'.kind = "tail" /\ key'.file # NoLog
  BY ObservedType
<1>1. TypeOKV4'
  BY <1>a
<1>2. BytesInv'
  BY <1>a DEF BytesInv
<1>3. NameInv'
  BY DEF NameInv, WriterPCs, LatePCs
<1>4. KeptInv'
  BY DEF KeptInv, WriterPCs
<1>5. AppendInv'
  BY DEF AppendInv, WriterPCs
<1>6. NotCommittedIsFinal'
  BY DEF NotCommittedIsFinal, NameInv
<1>7. QED
  BY <1>1, <1>2, <1>3, <1>4, <1>5, <1>6 DEF IInvV4

\* A bootstrap is recovered, or was never committed.
LEMMA RecoverNewV4 ==
    ASSUME IInvV4, RecoverNew
    PROVE  IInvV4'
<1> USE DEF RecoverNew, Unlocked, IInvV4, TypeOKV4, PublishPCs, TailPCs, JobPCs,
        vars, logVars, markerVars, receiptVars, lockVars, writerVars, historyVars, keyedVars
<1>1. TypeOKV4'
  BY DEF NameInv, BytesInv, WriterPCs
<1>2. BytesInv'
  BY DEF BytesInv, WriterPCs, MarkerState
<1>3. NameInv'
  BY DEF NameInv, WriterPCs, LatePCs
<1>4. KeptInv'
  BY DEF KeptInv, WriterPCs
<1>5. AppendInv'
  BY DEF AppendInv, WriterPCs
<1>6. NotCommittedIsFinal'
  BY DEF NotCommittedIsFinal, NameInv
<1>7. QED
  BY <1>1, <1>2, <1>3, <1>4, <1>5, <1>6 DEF IInvV4

\* A stale key is refused.
LEMMA KeyRefusedV4 ==
    ASSUME IInvV4, KeyRefused
    PROVE  IInvV4'
<1> USE DEF KeyRefused, Unlocked, IInvV4, TypeOKV4, PublishPCs, TailPCs, JobPCs,
        vars, logVars, markerVars, receiptVars, lockVars, writerVars, historyVars, keyedVars
<1>1. TypeOKV4'
  BY DEF NameInv, BytesInv, WriterPCs
<1>2. BytesInv'
  BY DEF BytesInv, WriterPCs, MarkerState
<1>3. NameInv'
  BY DEF NameInv, WriterPCs, LatePCs
<1>4. KeptInv'
  BY DEF KeptInv, WriterPCs
<1>5. AppendInv'
  BY DEF AppendInv, WriterPCs
<1>6. NotCommittedIsFinal'
  BY DEF NotCommittedIsFinal, NameInv
<1>7. QED
  BY <1>1, <1>2, <1>3, <1>4, <1>5, <1>6 DEF IInvV4

\* Keyed recovery begins.
LEMMA BeginTailV4 ==
    ASSUME IInvV4, BeginTail
    PROVE  IInvV4'
<1> USE DEF BeginTail, Unlocked, TailWork, IInvV4, TypeOKV4, PublishPCs, TailPCs, JobPCs,
        vars, logVars, markerVars, receiptVars, lockVars, writerVars, historyVars, keyedVars
<1>a. linked
  BY DEF KeyMatches, Observed
<1>1. TypeOKV4'
  BY DEF NameInv, BytesInv, WriterPCs
<1>2. BytesInv'
  BY DEF BytesInv, WriterPCs, MarkerState
<1>3. NameInv'
  BY <1>a DEF NameInv, WriterPCs, LatePCs
<1>4. KeptInv'
  BY DEF KeptInv, WriterPCs
<1>5. AppendInv'
  BY DEF AppendInv, WriterPCs
<1>6. NotCommittedIsFinal'
  BY DEF NotCommittedIsFinal, NameInv
<1>7. QED
  BY <1>1, <1>2, <1>3, <1>4, <1>5, <1>6 DEF IInvV4

\* It creates the marker, ...
LEMMA TailCreateV4 ==
    ASSUME IInvV4, TailCreate
    PROVE  IInvV4'
<1> USE DEF TailCreate, IInvV4, TypeOKV4, PublishPCs, TailPCs, JobPCs,
        vars, logVars, markerVars, receiptVars, lockVars, writerVars, historyVars, keyedVars
<1>1. TypeOKV4'
  BY DEF NameInv, BytesInv, WriterPCs
<1>2. BytesInv'
  BY DEF BytesInv, WriterPCs, MarkerState
<1>3. NameInv'
  BY DEF NameInv, WriterPCs, LatePCs
<1>4. KeptInv'
  BY DEF KeptInv, WriterPCs
<1>5. AppendInv'
  BY DEF AppendInv, WriterPCs
<1>6. NotCommittedIsFinal'
  BY DEF NotCommittedIsFinal, NameInv
<1>7. QED
  BY <1>1, <1>2, <1>3, <1>4, <1>5, <1>6 DEF IInvV4

\* ... writes it, ...
LEMMA TailWriteV4 ==
    ASSUME IInvV4, TailWrite
    PROVE  IInvV4'
<1> USE DEF TailWrite, IInvV4, TypeOKV4, PublishPCs, TailPCs, JobPCs,
        vars, logVars, markerVars, receiptVars, lockVars, writerVars, historyVars, keyedVars
<1>1. TypeOKV4'
  BY DEF NameInv, BytesInv, WriterPCs
<1>2. BytesInv'
  BY DEF BytesInv, WriterPCs, MarkerState
<1>3. NameInv'
  BY DEF NameInv, WriterPCs, LatePCs
<1>4. KeptInv'
  BY DEF KeptInv, WriterPCs
<1>5. AppendInv'
  BY DEF AppendInv, WriterPCs
<1>6. NotCommittedIsFinal'
  BY DEF NotCommittedIsFinal, NameInv
<1>7. QED
  BY <1>1, <1>2, <1>3, <1>4, <1>5, <1>6 DEF IInvV4

\* ... and syncs the run directory.
LEMMA TailSyncMarkerV4 ==
    ASSUME IInvV4, TailSyncMarker
    PROVE  IInvV4'
<1> USE DEF TailSyncMarker, TailWork, IInvV4, TypeOKV4, PublishPCs, TailPCs, JobPCs,
        vars, logVars, markerVars, receiptVars, lockVars, writerVars, historyVars, keyedVars
<1>1. TypeOKV4'
  BY DEF NameInv, BytesInv, WriterPCs
<1>2. BytesInv'
  BY DEF BytesInv, WriterPCs, MarkerState
<1>3. NameInv'
  BY DEF NameInv, WriterPCs, LatePCs
<1>4. KeptInv'
  BY DEF KeptInv, WriterPCs
<1>5. AppendInv'
  BY DEF AppendInv, WriterPCs
<1>6. NotCommittedIsFinal'
  BY DEF NotCommittedIsFinal, NameInv
<1>7. QED
  BY <1>1, <1>2, <1>3, <1>4, <1>5, <1>6 DEF IInvV4

\* It cuts the fragment off, ...
LEMMA TailCutV4 ==
    ASSUME IInvV4, TailCut
    PROVE  IInvV4'
<1> USE DEF TailCut, IInvV4, TypeOKV4, PublishPCs, TailPCs, JobPCs,
        vars, logVars, markerVars, receiptVars, lockVars, writerVars, historyVars, keyedVars
<1>a. file' \in Seq(Unit) /\ file' = Upto(file, GoodOffset(file)) /\ disk' = disk \cup {file'}
  BY KeptType, GoodOffsetType, UptoType
<1>1. TypeOKV4'
  BY DEF NameInv, BytesInv, WriterPCs
<1>2. BytesInv'
  BY <1>a DEF BytesInv, WriterPCs
<1>3. NameInv'
  BY DEF NameInv, WriterPCs, LatePCs
<1>4. KeptInv'
  <2>1. ASSUME NEW s \in {FirstLine, acked}, TRUE \in linkDisk
        PROVE  Prefix(s, file')
    <3>1. s \in Seq(Unit) /\ file \in Seq(Unit) /\ Prefix(s, file) /\ Len(s) % 2 = 0
      BY <2>1, KeptType DEF KeptInv
    <3>2. Len(s) <= GoodOffset(file) /\ GoodOffset(file) \in Nat /\ GoodOffset(file) <= Len(file)
      BY <3>1, PrefixEven, GoodOffsetType
    <3>3. QED
      BY <1>a, <3>1, <3>2, PrefixUpto
  <2>2. QED
    BY <1>a, <2>1 DEF KeptInv, WriterPCs
<1>5. AppendInv'
  BY DEF AppendInv, WriterPCs
<1>6. NotCommittedIsFinal'
  BY DEF NotCommittedIsFinal, NameInv
<1>7. QED
  BY <1>1, <1>2, <1>3, <1>4, <1>5, <1>6 DEF IInvV4

\* ... syncs the log, ...
LEMMA TailSyncV4 ==
    ASSUME IInvV4, TailSync
    PROVE  IInvV4'
<1> USE DEF TailSync, IInvV4, TypeOKV4, PublishPCs, TailPCs, JobPCs,
        vars, logVars, markerVars, receiptVars, lockVars, writerVars, historyVars, keyedVars
<1>1. TypeOKV4'
  BY DEF NameInv, BytesInv, WriterPCs
<1>2. BytesInv'
  BY DEF BytesInv, WriterPCs, MarkerState
<1>3. NameInv'
  BY DEF NameInv, WriterPCs, LatePCs
<1>4. KeptInv'
  BY DEF KeptInv, WriterPCs
<1>5. AppendInv'
  BY DEF AppendInv, WriterPCs
<1>6. NotCommittedIsFinal'
  BY DEF NotCommittedIsFinal, NameInv
<1>7. QED
  BY <1>1, <1>2, <1>3, <1>4, <1>5, <1>6 DEF IInvV4

\* ... removes the marker ...
LEMMA TailUnlinkV4 ==
    ASSUME IInvV4, TailUnlink
    PROVE  IInvV4'
<1> USE DEF TailUnlink, IInvV4, TypeOKV4, PublishPCs, TailPCs, JobPCs,
        vars, logVars, markerVars, receiptVars, lockVars, writerVars, historyVars, keyedVars
<1>1. TypeOKV4'
  BY DEF NameInv, BytesInv, WriterPCs
<1>2. BytesInv'
  BY DEF BytesInv, WriterPCs, MarkerState
<1>3. NameInv'
  BY DEF NameInv, WriterPCs, LatePCs
<1>4. KeptInv'
  BY DEF KeptInv, WriterPCs
<1>5. AppendInv'
  BY DEF AppendInv, WriterPCs
<1>6. NotCommittedIsFinal'
  BY DEF NotCommittedIsFinal, NameInv
<1>7. QED
  BY <1>1, <1>2, <1>3, <1>4, <1>5, <1>6 DEF IInvV4

\* ... and syncs the run directory again.
LEMMA TailSyncUnlinkV4 ==
    ASSUME IInvV4, TailSyncUnlink
    PROVE  IInvV4'
<1> USE DEF TailSyncUnlink, IInvV4, TypeOKV4, PublishPCs, TailPCs, JobPCs,
        vars, logVars, markerVars, receiptVars, lockVars, writerVars, historyVars, keyedVars
<1>1. TypeOKV4'
  BY DEF NameInv, BytesInv, WriterPCs
<1>2. BytesInv'
  BY DEF BytesInv, WriterPCs, MarkerState
<1>3. NameInv'
  BY DEF NameInv, WriterPCs, LatePCs
<1>4. KeptInv'
  BY DEF KeptInv, WriterPCs
<1>5. AppendInv'
  BY DEF AppendInv, WriterPCs
<1>6. NotCommittedIsFinal'
  BY DEF NotCommittedIsFinal, NameInv
<1>7. QED
  BY <1>1, <1>2, <1>3, <1>4, <1>5, <1>6 DEF IInvV4

\* It becomes a session, ...
LEMMA TailOpenV4 ==
    ASSUME IInvV4, TailOpen
    PROVE  IInvV4'
<1> USE DEF TailOpen, SyncReceiptDirs, LogAdmitted, IInvV4, TypeOKV4, PublishPCs, TailPCs, JobPCs,
        vars, logVars, markerVars, receiptVars, lockVars, writerVars, historyVars, keyedVars
<1>a. /\ confirmed' = Len(file) /\ Len(file) \in Nat /\ Len(file) % 2 = 0
      /\ pc' = "ready" /\ pc = "tail_open" /\ linked
  BY KeptType, GoodOffsetType DEF NameInv
<1>b. \A s \in {FirstLine, acked} : Len(s) <= Len(file)
  BY <1>a DEF KeptInv, Prefix
<1>1. TypeOKV4'
  BY DEF NameInv, BytesInv, WriterPCs
<1>2. BytesInv'
  BY <1>a DEF BytesInv, WriterPCs
<1>3. NameInv'
  BY DEF NameInv, WriterPCs, LatePCs
<1>4. KeptInv'
  BY <1>a, <1>b DEF KeptInv, WriterPCs
<1>5. AppendInv'
  BY <1>a DEF AppendInv
<1>6. NotCommittedIsFinal'
  BY DEF NotCommittedIsFinal, NameInv
<1>7. QED
  BY <1>1, <1>2, <1>3, <1>4, <1>5, <1>6 DEF IInvV4

\* ... or is refused one.
LEMMA TailRefusedV4 ==
    ASSUME IInvV4, TailRefused
    PROVE  IInvV4'
<1> USE DEF TailRefused, SyncReceiptDirs, Release, IInvV4, TypeOKV4, PublishPCs, TailPCs, JobPCs,
        vars, logVars, markerVars, receiptVars, lockVars, writerVars, historyVars, keyedVars
<1>1. TypeOKV4'
  BY DEF NameInv, BytesInv, WriterPCs
<1>2. BytesInv'
  BY DEF BytesInv, WriterPCs, MarkerState
<1>3. NameInv'
  BY DEF NameInv, WriterPCs, LatePCs
<1>4. KeptInv'
  BY DEF KeptInv, WriterPCs
<1>5. AppendInv'
  BY DEF AppendInv, WriterPCs
<1>6. NotCommittedIsFinal'
  BY DEF NotCommittedIsFinal, NameInv
<1>7. QED
  BY <1>1, <1>2, <1>3, <1>4, <1>5, <1>6 DEF IInvV4

\* A call of keyed recovery fails.
LEMMA TailFailsV4 ==
    ASSUME IInvV4, TailFails
    PROVE  IInvV4'
<1> USE DEF TailFails, Fault, Release, IInvV4, TypeOKV4, PublishPCs, TailPCs, JobPCs,
        vars, logVars, markerVars, receiptVars, lockVars, writerVars, historyVars, keyedVars
<1>1. TypeOKV4'
  BY DEF NameInv, BytesInv, WriterPCs
<1>2. BytesInv'
  BY DEF BytesInv, WriterPCs, MarkerState
<1>3. NameInv'
  BY DEF NameInv, WriterPCs, LatePCs
<1>4. KeptInv'
  BY DEF KeptInv, WriterPCs
<1>5. AppendInv'
  BY DEF AppendInv, WriterPCs
<1>6. NotCommittedIsFinal'
  BY DEF NotCommittedIsFinal, NameInv
<1>7. QED
  BY <1>1, <1>2, <1>3, <1>4, <1>5, <1>6 DEF IInvV4

\* A writer opens the log.
LEMMA OpenWriterV4 ==
    ASSUME IInvV4, OpenWriter, linked, UNCHANGED keyedVars
    PROVE  IInvV4'
<1> USE DEF OpenWriter, SyncReceiptDirs, LogAdmitted, IInvV4, TypeOKV4, PublishPCs, TailPCs, JobPCs,
        vars, logVars, markerVars, receiptVars, lockVars, writerVars, historyVars, keyedVars
<1>a. /\ confirmed' = Len(file) /\ Len(file) \in Nat /\ Len(file) % 2 = 0
      /\ pc' = "ready" /\ linked
  BY KeptType, GoodOffsetType
<1>b. \A s \in {FirstLine, acked} : Len(s) <= Len(file)
  BY <1>a DEF KeptInv, Prefix
<1>1. TypeOKV4'
  BY DEF NameInv, BytesInv, WriterPCs
<1>2. BytesInv'
  BY <1>a DEF BytesInv, WriterPCs
<1>3. NameInv'
  BY DEF NameInv, WriterPCs, LatePCs
<1>4. KeptInv'
  BY <1>a, <1>b DEF KeptInv, WriterPCs
<1>5. AppendInv'
  BY <1>a DEF AppendInv
<1>6. NotCommittedIsFinal'
  BY DEF NotCommittedIsFinal, NameInv
<1>7. QED
  BY <1>1, <1>2, <1>3, <1>4, <1>5, <1>6 DEF IInvV4

\* An open is refused.
LEMMA OpenRefusedV4 ==
    ASSUME IInvV4, OpenRefused, linked, UNCHANGED keyedVars
    PROVE  IInvV4'
<1> USE DEF OpenRefused, SyncReceiptDirs, IInvV4, TypeOKV4, PublishPCs, TailPCs, JobPCs,
        vars, logVars, markerVars, receiptVars, lockVars, writerVars, historyVars, keyedVars
<1>1. TypeOKV4'
  BY DEF NameInv, BytesInv, WriterPCs
<1>2. BytesInv'
  BY DEF BytesInv, WriterPCs, MarkerState
<1>3. NameInv'
  BY DEF NameInv, WriterPCs, LatePCs
<1>4. KeptInv'
  BY DEF KeptInv, WriterPCs
<1>5. AppendInv'
  BY DEF AppendInv, WriterPCs
<1>6. NotCommittedIsFinal'
  BY DEF NotCommittedIsFinal, NameInv
<1>7. QED
  BY <1>1, <1>2, <1>3, <1>4, <1>5, <1>6 DEF IInvV4

\* A reader opens the log.
LEMMA OpenReaderV4 ==
    ASSUME NEW r \in Reader, IInvV4, OpenReader(r), linked, UNCHANGED keyedVars
    PROVE  IInvV4'
<1> USE DEF OpenReader, SyncReceiptDirs, IInvV4, TypeOKV4, PublishPCs, TailPCs, JobPCs,
        vars, logVars, markerVars, receiptVars, lockVars, writerVars, historyVars, keyedVars
<1>1. TypeOKV4'
  BY DEF NameInv, BytesInv, WriterPCs
<1>2. BytesInv'
  BY DEF BytesInv, WriterPCs, MarkerState
<1>3. NameInv'
  BY DEF NameInv, WriterPCs, LatePCs
<1>4. KeptInv'
  BY DEF KeptInv, WriterPCs
<1>5. AppendInv'
  BY DEF AppendInv, WriterPCs
<1>6. NotCommittedIsFinal'
  BY DEF NotCommittedIsFinal, NameInv
<1>7. QED
  BY <1>1, <1>2, <1>3, <1>4, <1>5, <1>6 DEF IInvV4

\* A reader closes it.
LEMMA CloseReaderV4 ==
    ASSUME NEW r \in Reader, IInvV4, CloseReader(r), UNCHANGED keyedVars
    PROVE  IInvV4'
<1> USE DEF CloseReader, IInvV4, TypeOKV4, PublishPCs, TailPCs, JobPCs,
        vars, logVars, markerVars, receiptVars, lockVars, writerVars, historyVars, keyedVars
<1>1. TypeOKV4'
  BY DEF NameInv, BytesInv, WriterPCs
<1>2. BytesInv'
  BY DEF BytesInv, WriterPCs, MarkerState
<1>3. NameInv'
  BY DEF NameInv, WriterPCs, LatePCs
<1>4. KeptInv'
  BY DEF KeptInv, WriterPCs
<1>5. AppendInv'
  BY DEF AppendInv, WriterPCs
<1>6. NotCommittedIsFinal'
  BY DEF NotCommittedIsFinal, NameInv
<1>7. QED
  BY <1>1, <1>2, <1>3, <1>4, <1>5, <1>6 DEF IInvV4

\* The writer closes it.
LEMMA CloseWriterV4 ==
    ASSUME IInvV4, CloseWriter, UNCHANGED keyedVars
    PROVE  IInvV4'
<1> USE DEF CloseWriter, Release, IInvV4, TypeOKV4, PublishPCs, TailPCs, JobPCs,
        vars, logVars, markerVars, receiptVars, lockVars, writerVars, historyVars, keyedVars
<1>1. TypeOKV4'
  BY DEF NameInv, BytesInv, WriterPCs
<1>2. BytesInv'
  BY DEF BytesInv, WriterPCs, MarkerState
<1>3. NameInv'
  BY DEF NameInv, WriterPCs, LatePCs
<1>4. KeptInv'
  BY DEF KeptInv, WriterPCs
<1>5. AppendInv'
  BY DEF AppendInv, WriterPCs
<1>6. NotCommittedIsFinal'
  BY DEF NotCommittedIsFinal, NameInv
<1>7. QED
  BY <1>1, <1>2, <1>3, <1>4, <1>5, <1>6 DEF IInvV4

\* An append begins.
LEMMA BeginAppendV4 ==
    ASSUME NEW events \in Batches, IInvV4, BeginAppend(events), UNCHANGED keyedVars
    PROVE  IInvV4'
<1> USE DEF BeginAppend, SyncReceiptDirs, IInvV4, TypeOKV4, PublishPCs, TailPCs, JobPCs,
        vars, logVars, markerVars, receiptVars, lockVars, writerVars, historyVars, keyedVars
<1>a. batch' \in Seq(Unit) /\ Len(batch') % 2 = 0 /\ pc' = "mark_create" /\ pc = "ready"
  BY BatchLines
<1>1. TypeOKV4'
  BY DEF NameInv, BytesInv, WriterPCs
<1>2. BytesInv'
  BY <1>a DEF BytesInv, WriterPCs
<1>3. NameInv'
  BY DEF NameInv, WriterPCs, LatePCs
<1>4. KeptInv'
  BY DEF KeptInv, WriterPCs
<1>5. AppendInv'
  BY <1>a DEF AppendInv, WriterPCs
<1>6. NotCommittedIsFinal'
  BY DEF NotCommittedIsFinal, NameInv
<1>7. QED
  BY <1>1, <1>2, <1>3, <1>4, <1>5, <1>6 DEF IInvV4

\* It creates the marker, ...
LEMMA CreateMarkerV4 ==
    ASSUME IInvV4, CreateMarker, UNCHANGED keyedVars
    PROVE  IInvV4'
<1> USE DEF CreateMarker, IInvV4, TypeOKV4, PublishPCs, TailPCs, JobPCs,
        vars, logVars, markerVars, receiptVars, lockVars, writerVars, historyVars, keyedVars
<1>1. TypeOKV4'
  BY DEF NameInv, BytesInv, WriterPCs
<1>2. BytesInv'
  BY DEF BytesInv, WriterPCs, MarkerState
<1>3. NameInv'
  BY DEF NameInv, WriterPCs, LatePCs
<1>4. KeptInv'
  BY DEF KeptInv, WriterPCs
<1>5. AppendInv'
  BY DEF AppendInv, WriterPCs
<1>6. NotCommittedIsFinal'
  BY DEF NotCommittedIsFinal, NameInv
<1>7. QED
  BY <1>1, <1>2, <1>3, <1>4, <1>5, <1>6 DEF IInvV4

\* ... finds one, ...
LEMMA MarkerExistsV4 ==
    ASSUME IInvV4, MarkerExists, UNCHANGED keyedVars
    PROVE  IInvV4'
<1> USE DEF MarkerExists, IInvV4, TypeOKV4, PublishPCs, TailPCs, JobPCs,
        vars, logVars, markerVars, receiptVars, lockVars, writerVars, historyVars, keyedVars
<1>1. TypeOKV4'
  BY DEF NameInv, BytesInv, WriterPCs
<1>2. BytesInv'
  BY DEF BytesInv, WriterPCs, MarkerState
<1>3. NameInv'
  BY DEF NameInv, WriterPCs, LatePCs
<1>4. KeptInv'
  BY DEF KeptInv, WriterPCs
<1>5. AppendInv'
  BY DEF AppendInv, WriterPCs
<1>6. NotCommittedIsFinal'
  BY DEF NotCommittedIsFinal, NameInv
<1>7. QED
  BY <1>1, <1>2, <1>3, <1>4, <1>5, <1>6 DEF IInvV4

\* ... or writes it, ...
LEMMA WriteMarkerV4 ==
    ASSUME IInvV4, WriteMarker, UNCHANGED keyedVars
    PROVE  IInvV4'
<1> USE DEF WriteMarker, IInvV4, TypeOKV4, PublishPCs, TailPCs, JobPCs,
        vars, logVars, markerVars, receiptVars, lockVars, writerVars, historyVars, keyedVars
<1>1. TypeOKV4'
  BY DEF NameInv, BytesInv, WriterPCs
<1>2. BytesInv'
  BY DEF BytesInv, WriterPCs, MarkerState
<1>3. NameInv'
  BY DEF NameInv, WriterPCs, LatePCs
<1>4. KeptInv'
  BY DEF KeptInv, WriterPCs
<1>5. AppendInv'
  BY DEF AppendInv, WriterPCs
<1>6. NotCommittedIsFinal'
  BY DEF NotCommittedIsFinal, NameInv
<1>7. QED
  BY <1>1, <1>2, <1>3, <1>4, <1>5, <1>6 DEF IInvV4

\* ... and syncs the run directory.
LEMMA SyncMarkerV4 ==
    ASSUME IInvV4, SyncMarker, linkDisk' = {linked}, UNCHANGED <<linked, key, told, stood>>
    PROVE  IInvV4'
<1> USE DEF SyncMarker, IInvV4, TypeOKV4, PublishPCs, TailPCs, JobPCs,
        vars, logVars, markerVars, receiptVars, lockVars, writerVars, historyVars, keyedVars
<1>1. TypeOKV4'
  BY DEF NameInv, BytesInv, WriterPCs
<1>2. BytesInv'
  BY DEF BytesInv, WriterPCs, MarkerState
<1>3. NameInv'
  BY DEF NameInv, WriterPCs, LatePCs
<1>4. KeptInv'
  BY DEF KeptInv, WriterPCs
<1>5. AppendInv'
  BY DEF AppendInv, WriterPCs
<1>6. NotCommittedIsFinal'
  BY DEF NotCommittedIsFinal, NameInv
<1>7. QED
  BY <1>1, <1>2, <1>3, <1>4, <1>5, <1>6 DEF IInvV4

\* A byte is written.
LEMMA WriteUnitV4 ==
    ASSUME IInvV4, WriteUnit, UNCHANGED keyedVars
    PROVE  IInvV4'
<1> USE DEF WriteUnit, IInvV4, TypeOKV4, PublishPCs, TailPCs, JobPCs,
        vars, logVars, markerVars, receiptVars, lockVars, writerVars, historyVars, keyedVars
<1>a. /\ file \in Seq(Unit) /\ batch \in Seq(Unit) /\ batch # <<>> /\ Head(batch) \in Unit
      /\ file' = Append(file, Head(batch)) /\ batch' = Tail(batch) /\ disk' = disk \cup {file'}
  BY KeptType DEF BytesInv
<1>b. /\ file' \in Seq(Unit) /\ batch' \in Seq(Unit)
      /\ Len(file') = Len(file) + 1 /\ Len(batch') = Len(batch) - 1
      /\ Len(file) \in Nat /\ Len(batch) \in Nat
  BY <1>a
<1>1. TypeOKV4'
  BY DEF NameInv, BytesInv, WriterPCs
<1>2. BytesInv'
  BY <1>a, <1>b DEF BytesInv, WriterPCs
<1>3. NameInv'
  BY DEF NameInv, WriterPCs, LatePCs
<1>4. KeptInv'
  <2>1. ASSUME NEW s \in {FirstLine, acked}, TRUE \in linkDisk
        PROVE  Prefix(s, file')
    BY <1>a, <2>1, KeptType, PrefixAppend DEF KeptInv
  <2>2. QED
    BY <1>a, <2>1 DEF KeptInv, WriterPCs
<1>5. AppendInv'
  <2>1. /\ pc = "write" /\ pc' = "write" /\ confirmed' = confirmed /\ confirmed \in Nat
        /\ confirmed % 2 = 0 /\ confirmed <= Len(file)
        /\ (Len(file) + Len(batch)) % 2 = 0
    BY DEF AppendInv, BytesInv, WriterPCs
  <2>2. confirmed <= Len(file') /\ (Len(file') + Len(batch')) % 2 = 0
    <3>1. Len(file') + Len(batch') = Len(file) + Len(batch)
      BY <1>b
    <3>2. (Len(file') + Len(batch')) % 2 = 0
      BY <2>1, <3>1, Zenon
    <3>3. confirmed <= Len(file')
      <4>1. \A m, n, k \in Nat : m <= n /\ k = n + 1 => m <= k
        OBVIOUS
      <4>2. /\ confirmed \in Nat /\ Len(file) \in Nat /\ Len(file') \in Nat
            /\ confirmed <= Len(file) /\ Len(file') = Len(file) + 1
        BY <1>b, <2>1
      <4>3. QED
        BY <4>1, <4>2, Zenon
    <3>4. QED
      BY <3>2, <3>3
  <2>3. QED
    BY <2>1, <2>2 DEF AppendInv
<1>6. NotCommittedIsFinal'
  BY DEF NotCommittedIsFinal, NameInv
<1>7. QED
  BY <1>1, <1>2, <1>3, <1>4, <1>5, <1>6 DEF IInvV4

\* The bytes are synced.
LEMMA SyncLogV4 ==
    ASSUME IInvV4, SyncLog, UNCHANGED keyedVars
    PROVE  IInvV4'
<1> USE DEF SyncLog, IInvV4, TypeOKV4, PublishPCs, TailPCs, JobPCs,
        vars, logVars, markerVars, receiptVars, lockVars, writerVars, historyVars, keyedVars
<1>1. TypeOKV4'
  BY DEF NameInv, BytesInv, WriterPCs
<1>2. BytesInv'
  BY DEF BytesInv, WriterPCs, MarkerState
<1>3. NameInv'
  BY DEF NameInv, WriterPCs, LatePCs
<1>4. KeptInv'
  <2>1. \A s \in {FirstLine, acked} : Len(s) <= Len(file)
    BY DEF KeptInv, NameInv, LatePCs, Prefix
  <2>2. QED
    BY <2>1 DEF KeptInv, WriterPCs
<1>5. AppendInv'
  BY DEF AppendInv, WriterPCs
<1>6. NotCommittedIsFinal'
  BY DEF NotCommittedIsFinal, NameInv
<1>7. QED
  BY <1>1, <1>2, <1>3, <1>4, <1>5, <1>6 DEF IInvV4

\* A rollback publishes its intent, ...
LEMMA RecordRollbackIntentV4 ==
    ASSUME IInvV4, RecordRollbackIntent, UNCHANGED keyedVars
    PROVE  IInvV4'
<1> USE DEF RecordRollbackIntent, LinkIntent, IInvV4, TypeOKV4, PublishPCs, TailPCs, JobPCs,
        vars, logVars, markerVars, receiptVars, lockVars, writerVars, historyVars, keyedVars
<1>a. job' \in Intent /\ job' # NoIntent /\ job'.good = confirmed
  <2>1. PICK id \in FreshNonce : job' = IntentAt(id, confirmed)
    OBVIOUS
  <2>2. /\ confirmed \in Nat /\ confirmed <= Len(file) /\ file \in Seq(Unit) /\ id \in Nonce
    BY KeptType DEF BytesInv, AppendInv, WriterPCs, FreshNonce
  <2>3. Upto(file, confirmed) \in Seq(Unit) /\ After(file, confirmed) \in Seq(Unit)
    BY <2>2, UptoType, AfterType
  <2>4. QED
    BY <2>1, <2>2, <2>3, NoIntentAssumption DEF IntentAt, Intent
<1>1. TypeOKV4'
  BY DEF NameInv, BytesInv, WriterPCs
<1>2. BytesInv'
  BY DEF BytesInv, WriterPCs, MarkerState
<1>3. NameInv'
  BY DEF NameInv, WriterPCs, LatePCs
<1>4. KeptInv'
  BY DEF KeptInv, WriterPCs
<1>5. AppendInv'
  BY <1>a DEF AppendInv, WriterPCs
<1>6. NotCommittedIsFinal'
  BY DEF NotCommittedIsFinal, NameInv
<1>7. QED
  BY <1>1, <1>2, <1>3, <1>4, <1>5, <1>6 DEF IInvV4

\* ... or is refused, ...
LEMMA RollbackRefusedV4 ==
    ASSUME IInvV4, RollbackRefused, UNCHANGED keyedVars
    PROVE  IInvV4'
<1> USE DEF RollbackRefused, Abort, Release, IInvV4, TypeOKV4, PublishPCs, TailPCs, JobPCs,
        vars, logVars, markerVars, receiptVars, lockVars, writerVars, historyVars, keyedVars
<1>1. TypeOKV4'
  BY DEF NameInv, BytesInv, WriterPCs
<1>2. BytesInv'
  BY DEF BytesInv, WriterPCs, MarkerState
<1>3. NameInv'
  BY DEF NameInv, WriterPCs, LatePCs
<1>4. KeptInv'
  BY DEF KeptInv, WriterPCs
<1>5. AppendInv'
  BY DEF AppendInv, WriterPCs
<1>6. NotCommittedIsFinal'
  BY DEF NotCommittedIsFinal, NameInv
<1>7. QED
  BY <1>1, <1>2, <1>3, <1>4, <1>5, <1>6 DEF IInvV4

\* ... syncs it, ...
LEMMA SyncIntentV4 ==
    ASSUME IInvV4, SyncIntent, UNCHANGED keyedVars
    PROVE  IInvV4'
<1> USE DEF SyncIntent, IInvV4, TypeOKV4, PublishPCs, TailPCs, JobPCs,
        vars, logVars, markerVars, receiptVars, lockVars, writerVars, historyVars, keyedVars
<1>1. TypeOKV4'
  BY DEF NameInv, BytesInv, WriterPCs
<1>2. BytesInv'
  BY DEF BytesInv, WriterPCs, MarkerState
<1>3. NameInv'
  BY DEF NameInv, WriterPCs, LatePCs
<1>4. KeptInv'
  BY DEF KeptInv, WriterPCs
<1>5. AppendInv'
  <2>1. holder = "writer" /\ pc' = "truncate"
    BY DEF BytesInv, WriterPCs
  <2>2. QED
    BY <2>1 DEF AppendInv, WriterPCs
<1>6. NotCommittedIsFinal'
  BY DEF NotCommittedIsFinal, NameInv
<1>7. QED
  BY <1>1, <1>2, <1>3, <1>4, <1>5, <1>6 DEF IInvV4

\* ... truncates the log, ...
LEMMA TruncateV4 ==
    ASSUME IInvV4, Truncate, UNCHANGED keyedVars
    PROVE  IInvV4'
<1> USE DEF Truncate, IInvV4, TypeOKV4, PublishPCs, TailPCs, JobPCs,
        vars, logVars, markerVars, receiptVars, lockVars, writerVars, historyVars, keyedVars
<1>a. /\ confirmed \in Nat /\ confirmed <= Len(file) /\ confirmed % 2 = 0
      /\ file \in Seq(Unit) /\ job.good = confirmed /\ job # NoIntent
  BY KeptType DEF BytesInv, AppendInv, WriterPCs
<1>b. /\ file' = Upto(file, confirmed) /\ disk' = disk \cup {file'} /\ pc' = "trunc_sync"
      /\ file' \in Seq(Unit) /\ Len(file') = confirmed
  BY <1>a, UptoType
<1>1. TypeOKV4'
  BY DEF NameInv, BytesInv, WriterPCs
<1>2. BytesInv'
  BY <1>b DEF BytesInv, WriterPCs
<1>3. NameInv'
  BY DEF NameInv, WriterPCs, LatePCs
<1>4. KeptInv'
  <2>1. ASSUME NEW s \in {FirstLine, acked}, TRUE \in linkDisk
        PROVE  Prefix(s, file')
    <3>1. s \in Seq(Unit) /\ Prefix(s, file) /\ Len(s) <= confirmed
      BY <2>1, KeptType DEF KeptInv, WriterPCs
    <3>2. QED
      BY <1>a, <1>b, <3>1, PrefixUpto
  <2>2. QED
    BY <1>b, <2>1 DEF KeptInv, WriterPCs
<1>5. AppendInv'
  BY <1>a, <1>b DEF AppendInv, WriterPCs
<1>6. NotCommittedIsFinal'
  BY DEF NotCommittedIsFinal, NameInv
<1>7. QED
  BY <1>1, <1>2, <1>3, <1>4, <1>5, <1>6 DEF IInvV4

\* ... syncs the log, ...
LEMMA SyncTruncationV4 ==
    ASSUME IInvV4, SyncTruncation, UNCHANGED keyedVars
    PROVE  IInvV4'
<1> USE DEF SyncTruncation, IInvV4, TypeOKV4, PublishPCs, TailPCs, JobPCs,
        vars, logVars, markerVars, receiptVars, lockVars, writerVars, historyVars, keyedVars
<1>1. TypeOKV4'
  BY DEF NameInv, BytesInv, WriterPCs
<1>2. BytesInv'
  BY DEF BytesInv, WriterPCs, MarkerState
<1>3. NameInv'
  BY DEF NameInv, WriterPCs, LatePCs
<1>4. KeptInv'
  BY DEF KeptInv, WriterPCs
<1>5. AppendInv'
  BY DEF AppendInv, WriterPCs
<1>6. NotCommittedIsFinal'
  BY DEF NotCommittedIsFinal, NameInv
<1>7. QED
  BY <1>1, <1>2, <1>3, <1>4, <1>5, <1>6 DEF IInvV4

\* ... publishes its completion ...
LEMMA LinkCompletionV4 ==
    ASSUME IInvV4, LinkCompletion, UNCHANGED keyedVars
    PROVE  IInvV4'
<1> USE DEF LinkCompletion, IInvV4, TypeOKV4, PublishPCs, TailPCs, JobPCs,
        vars, logVars, markerVars, receiptVars, lockVars, writerVars, historyVars, keyedVars
<1>1. TypeOKV4'
  BY DEF NameInv, BytesInv, WriterPCs
<1>2. BytesInv'
  BY DEF BytesInv, WriterPCs, MarkerState
<1>3. NameInv'
  BY DEF NameInv, WriterPCs, LatePCs
<1>4. KeptInv'
  BY DEF KeptInv, WriterPCs
<1>5. AppendInv'
  BY DEF AppendInv, WriterPCs
<1>6. NotCommittedIsFinal'
  BY DEF NotCommittedIsFinal, NameInv
<1>7. QED
  BY <1>1, <1>2, <1>3, <1>4, <1>5, <1>6 DEF IInvV4

\* ... and syncs that.
LEMMA SyncCompletionV4 ==
    ASSUME IInvV4, SyncCompletion, UNCHANGED keyedVars
    PROVE  IInvV4'
<1> USE DEF SyncCompletion, IInvV4, TypeOKV4, PublishPCs, TailPCs, JobPCs,
        vars, logVars, markerVars, receiptVars, lockVars, writerVars, historyVars, keyedVars
<1>1. TypeOKV4'
  BY DEF NameInv, BytesInv, WriterPCs
<1>2. BytesInv'
  BY DEF BytesInv, WriterPCs, MarkerState
<1>3. NameInv'
  BY DEF NameInv, WriterPCs, LatePCs
<1>4. KeptInv'
  BY DEF KeptInv, WriterPCs
<1>5. AppendInv'
  BY DEF AppendInv, WriterPCs
<1>6. NotCommittedIsFinal'
  BY DEF NotCommittedIsFinal, NameInv
<1>7. QED
  BY <1>1, <1>2, <1>3, <1>4, <1>5, <1>6 DEF IInvV4

\* The marker is removed ...
LEMMA UnlinkMarkerV4 ==
    ASSUME IInvV4, UnlinkMarker, UNCHANGED keyedVars
    PROVE  IInvV4'
<1> USE DEF UnlinkMarker, IInvV4, TypeOKV4, PublishPCs, TailPCs, JobPCs,
        vars, logVars, markerVars, receiptVars, lockVars, writerVars, historyVars, keyedVars
<1>1. TypeOKV4'
  BY DEF NameInv, BytesInv, WriterPCs
<1>2. BytesInv'
  BY DEF BytesInv, WriterPCs, MarkerState
<1>3. NameInv'
  BY DEF NameInv, WriterPCs, LatePCs
<1>4. KeptInv'
  BY DEF KeptInv, WriterPCs
<1>5. AppendInv'
  BY DEF AppendInv, WriterPCs
<1>6. NotCommittedIsFinal'
  BY DEF NotCommittedIsFinal, NameInv
<1>7. QED
  BY <1>1, <1>2, <1>3, <1>4, <1>5, <1>6 DEF IInvV4

\* ... for good, and the append returns.
LEMMA SyncUnlinkV4 ==
    ASSUME IInvV4, SyncUnlink, linkDisk' = {linked}, UNCHANGED <<linked, key, told, stood>>
    PROVE  IInvV4'
<1> USE DEF SyncUnlink, Release, IInvV4, TypeOKV4, PublishPCs, TailPCs, JobPCs,
        vars, logVars, markerVars, receiptVars, lockVars, writerVars, historyVars, keyedVars
<1>a. /\ pc = "unlink_sync" /\ holder = "writer" /\ pc' = "ready" /\ linked
      /\ UNCHANGED <<holder, batch, confirmed, job>>
  BY DEF BytesInv, WriterPCs, NameInv
<1>b. /\ file \in Seq(Unit) /\ confirmed = Len(file) /\ confirmed \in Nat /\ confirmed % 2 = 0
      /\ Upto(file, confirmed) = file /\ Upto(file, confirmed) \in Seq(Unit)
  BY <1>a, KeptType, UptoAll DEF BytesInv, AppendInv, WriterPCs
<1>c. \/ acked' = acked
      \/ acked' = file /\ disk = {file}
  BY <1>a, <1>b DEF AppendInv
<1>1. TypeOKV4'
  BY DEF NameInv, BytesInv, WriterPCs
<1>2. BytesInv'
  BY <1>a, <1>b, <1>c DEF BytesInv, WriterPCs, MarkerState
<1>3. NameInv'
  BY DEF NameInv, WriterPCs, LatePCs
<1>4. KeptInv'
  <2>1. Prefix(file, file)
    BY <1>b, PrefixRefl
  <2>2. linkDisk = {TRUE} /\ linkDisk' = {TRUE}
    BY <1>a DEF NameInv, LatePCs
  <2>3. QED
    BY <1>a, <1>b, <1>c, <2>1, <2>2 DEF KeptInv, WriterPCs
<1>5. AppendInv'
  BY DEF AppendInv, WriterPCs
<1>6. NotCommittedIsFinal'
  BY DEF NotCommittedIsFinal, NameInv
<1>7. QED
  BY <1>1, <1>2, <1>3, <1>4, <1>5, <1>6 DEF IInvV4

\* A call on the marker fails.
LEMMA FailMarkerV4 ==
    ASSUME IInvV4, FailMarker, UNCHANGED keyedVars
    PROVE  IInvV4'
<1> USE DEF FailMarker, Fault, IInvV4, TypeOKV4, PublishPCs, TailPCs, JobPCs,
        vars, logVars, markerVars, receiptVars, lockVars, writerVars, historyVars, keyedVars
<1>1. TypeOKV4'
  BY DEF NameInv, BytesInv, WriterPCs
<1>2. BytesInv'
  BY DEF BytesInv, WriterPCs, MarkerState
<1>3. NameInv'
  BY DEF NameInv, WriterPCs, LatePCs
<1>4. KeptInv'
  BY DEF KeptInv, WriterPCs
<1>5. AppendInv'
  BY DEF AppendInv, WriterPCs
<1>6. NotCommittedIsFinal'
  BY DEF NotCommittedIsFinal, NameInv
<1>7. QED
  BY <1>1, <1>2, <1>3, <1>4, <1>5, <1>6 DEF IInvV4

\* A write fails.
LEMMA FailWriteV4 ==
    ASSUME IInvV4, FailWrite, UNCHANGED keyedVars
    PROVE  IInvV4'
<1> USE DEF FailWrite, Fault, IInvV4, TypeOKV4, PublishPCs, TailPCs, JobPCs,
        vars, logVars, markerVars, receiptVars, lockVars, writerVars, historyVars, keyedVars
<1>1. TypeOKV4'
  BY DEF NameInv, BytesInv, WriterPCs
<1>2. BytesInv'
  BY DEF BytesInv, WriterPCs, MarkerState
<1>3. NameInv'
  BY DEF NameInv, WriterPCs, LatePCs
<1>4. KeptInv'
  BY DEF KeptInv, WriterPCs
<1>5. AppendInv'
  BY DEF AppendInv, WriterPCs
<1>6. NotCommittedIsFinal'
  BY DEF NotCommittedIsFinal, NameInv
<1>7. QED
  BY <1>1, <1>2, <1>3, <1>4, <1>5, <1>6 DEF IInvV4

\* Another call fails.
LEMMA FailCallV4 ==
    ASSUME IInvV4, FailCall, UNCHANGED keyedVars
    PROVE  IInvV4'
<1> USE DEF FailCall, Fault, Abort, Release, IInvV4, TypeOKV4, PublishPCs, TailPCs, JobPCs,
        vars, logVars, markerVars, receiptVars, lockVars, writerVars, historyVars, keyedVars
<1>a. holder = "writer" /\ pc' = "poisoned" /\ UNCHANGED <<holder, writerVars>>
      /\ pc \in LatePCs
  BY DEF BytesInv, WriterPCs, LatePCs
<1>1. TypeOKV4'
  BY DEF NameInv, BytesInv, WriterPCs
<1>2. BytesInv'
  BY DEF BytesInv, WriterPCs, MarkerState
<1>3. NameInv'
  BY <1>a DEF NameInv, WriterPCs, LatePCs
<1>4. KeptInv'
  BY DEF KeptInv, WriterPCs
<1>5. AppendInv'
  BY DEF AppendInv, WriterPCs
<1>6. NotCommittedIsFinal'
  BY DEF NotCommittedIsFinal, NameInv
<1>7. QED
  BY <1>1, <1>2, <1>3, <1>4, <1>5, <1>6 DEF IInvV4

\* The process is killed.
LEMMA CrashV4 ==
    ASSUME IInvV4, Crash, UNCHANGED keyedVars
    PROVE  IInvV4'
<1> USE DEF Crash, Fault, Release, IInvV4, TypeOKV4, PublishPCs, TailPCs, JobPCs,
        vars, logVars, markerVars, receiptVars, lockVars, writerVars, historyVars, keyedVars
<1>1. TypeOKV4'
  BY DEF NameInv, BytesInv, WriterPCs
<1>2. BytesInv'
  BY DEF BytesInv, WriterPCs, MarkerState
<1>3. NameInv'
  BY DEF NameInv, WriterPCs, LatePCs
<1>4. KeptInv'
  BY DEF KeptInv, WriterPCs
<1>5. AppendInv'
  BY DEF AppendInv, WriterPCs
<1>6. NotCommittedIsFinal'
  BY DEF NotCommittedIsFinal, NameInv
<1>7. QED
  BY <1>1, <1>2, <1>3, <1>4, <1>5, <1>6 DEF IInvV4

\* Power fails, and the log keeps its name.
LEMMA PowerLossStepV4 ==
    ASSUME IInvV4, PowerLossV4
    PROVE  IInvV4'
<1> USE DEF PowerLossV4, PowerLoss, Fault, Release, IInvV4, TypeOKV4, PublishPCs, TailPCs, JobPCs,
        vars, logVars, markerVars, receiptVars, lockVars, writerVars, historyVars, keyedVars
<1>1. TypeOKV4'
  BY DEF NameInv, BytesInv, WriterPCs
<1>2. BytesInv'
  BY DEF BytesInv, WriterPCs, MarkerState
<1>3. NameInv'
  BY DEF NameInv, WriterPCs, LatePCs
<1>4. KeptInv'
  BY DEF KeptInv, WriterPCs
<1>5. AppendInv'
  BY DEF AppendInv, WriterPCs
<1>6. NotCommittedIsFinal'
  BY DEF NotCommittedIsFinal, NameInv
<1>7. QED
  BY <1>1, <1>2, <1>3, <1>4, <1>5, <1>6 DEF IInvV4

\* Power fails, and the name is lost.
LEMMA NameLostV4 ==
    ASSUME IInvV4, NameLost
    PROVE  IInvV4'
<1> USE DEF NameLost, Fault, Release, IInvV4, TypeOKV4, PublishPCs, TailPCs, JobPCs,
        vars, logVars, markerVars, receiptVars, lockVars, writerVars, historyVars, keyedVars
<1>1. TypeOKV4'
  BY DEF NameInv, BytesInv, WriterPCs
<1>2. BytesInv'
  BY DEF BytesInv, WriterPCs, MarkerState
<1>3. NameInv'
  BY DEF NameInv, WriterPCs, LatePCs
<1>4. KeptInv'
  BY DEF KeptInv, WriterPCs
<1>5. AppendInv'
  BY DEF AppendInv, WriterPCs
<1>6. NotCommittedIsFinal'
  BY DEF NotCommittedIsFinal, NameInv
<1>7. QED
  BY <1>1, <1>2, <1>3, <1>4, <1>5, <1>6 DEF IInvV4

\* Nothing happens.
LEMMA StutterV4 ==
    ASSUME IInvV4, UNCHANGED allVars
    PROVE  IInvV4'
<1> USE DEF allVars, vars, logVars, markerVars, receiptVars, lockVars, writerVars,
        historyVars, keyedVars
<1>1. TypeOKV4'
  BY DEF IInvV4, TypeOKV4
<1>2. BytesInv'
  BY DEF IInvV4, BytesInv
<1>3. NameInv'
  BY DEF IInvV4, NameInv
<1>4. KeptInv'
  BY DEF IInvV4, KeptInv
<1>5. AppendInv'
  BY DEF IInvV4, AppendInv
<1>6. NotCommittedIsFinal'
  BY DEF IInvV4, NotCommittedIsFinal
<1>7. QED
  BY <1>1, <1>2, <1>3, <1>4, <1>5, <1>6 DEF IInvV4

\* Before the bootstrap there is no log and nobody at work.
LEMMA InitV4Inv == InitV4 => IInvV4
<1> SUFFICES ASSUME InitV4 PROVE IInvV4
  OBVIOUS
<1> USE DEF InitV4
<1>1. TypeOKV4
  BY DEF TypeOKV4, PublishPCs, TailPCs
<1>2. BytesInv
  BY DEF BytesInv, WriterPCs, JobPCs, MarkerState
<1>3. NameInv
  BY DEF NameInv, WriterPCs, LatePCs, JobPCs, TailPCs, PublishPCs
<1>4. KeptInv
  <2>1. Len(FirstLine) % 2 = 0 /\ Len(<<>>) % 2 = 0
    BY FirstLineType
  <2>2. TRUE \notin linkDisk /\ pc \notin WriterPCs /\ acked = <<>>
    BY DEF WriterPCs, JobPCs
  <2> HIDE DEF InitV4
  <2>3. QED
    BY <2>1, <2>2 DEF KeptInv
<1>5. AppendInv
  BY DEF AppendInv, WriterPCs, JobPCs
<1>6. NotCommittedIsFinal
  BY DEF NotCommittedIsFinal
<1>7. QED
  BY <1>1, <1>2, <1>3, <1>4, <1>5, <1>6 DEF IInvV4

LEMMA NextV4Inv == IInvV4 /\ [NextV4]_allVars => IInvV4'
<1> SUFFICES ASSUME IInvV4, [NextV4]_allVars PROVE IInvV4'
  OBVIOUS
<1>1. CASE KeyedStep
  <2>1. CASE AppendStep /\ UNCHANGED keyedVars
    BY <2>1, CreateMarkerV4, MarkerExistsV4, WriteMarkerV4, WriteUnitV4, SyncLogV4,
       RecordRollbackIntentV4, RollbackRefusedV4, SyncIntentV4, TruncateV4,
       SyncTruncationV4, LinkCompletionV4, SyncCompletionV4, UnlinkMarkerV4 DEF AppendStep
  <2>2. CASE SyncRunDir /\ UNCHANGED <<linked, key, told, stood>>
    BY <2>2, SyncMarkerV4, SyncUnlinkV4 DEF SyncRunDir
  <2>3. QED
    BY <1>1, <2>1, <2>2, StageV4, LinkV4, LinkExistsV4, SyncLinkV4, PublishedV4,
       TailCreateV4, TailWriteV4, TailSyncMarkerV4, TailCutV4, TailSyncV4, TailUnlinkV4,
       TailSyncUnlinkV4, TailOpenV4, TailRefusedV4 DEF KeyedStep
<1>2. CASE /\ \/ Opens \/ CloseWriter
              \/ \E r \in Reader : CloseReader(r)
              \/ \E events \in Batches : BeginAppend(events)
              \/ FailMarker \/ FailWrite \/ FailCall \/ Crash
           /\ UNCHANGED keyedVars
  BY <1>2, OpenWriterV4, OpenRefusedV4, OpenReaderV4, CloseWriterV4, CloseReaderV4,
     BeginAppendV4, FailMarkerV4, FailWriteV4, FailCallV4, CrashV4 DEF Opens
<1>3. CASE NextV4
  BY <1>1, <1>2, <1>3, BeginPublishV4, PublishFailsV4, SessionFailsV4,
     InspectGenesisV4, InspectTailV4, RecoverNewV4, KeyRefusedV4, BeginTailV4,
     TailFailsV4, PowerLossStepV4, NameLostV4 DEF NextV4
<1>4. QED
  BY <1>3, StutterV4

-----------------------------------------------------------------------------
(***************************************************************************)
(* The theorems                                                            *)
(***************************************************************************)

\* The inductive invariant of a V4 run: who relies on the name of the log, and
\* what no writer and no keyed recovery may cut off.
THEOREM KeyedInv == SpecV4 => []IInvV4
BY InitV4Inv, NextV4Inv, PTL DEF SpecV4

\* publish_new_v4 syncs the line before it gives the log its name, and an
\* acknowledgement waits for the sync of the run directory: what was committed
\* or acknowledged outlives every fault and every keyed recovery.
THEOREM PublishedLogsStay == SpecV4 => []PublishedStays
<1>1. ASSUME IInvV4 PROVE PublishedStays
  <2>1. TRUE \in linkDisk => \A d \in disk : Prefix(FirstLine, d)
    BY <1>1 DEF IInvV4, KeptInv
  <2>2. acked # <<>> => linkDisk = {TRUE}
    BY <1>1 DEF IInvV4, NameInv
  <2>3. ASSUME NEW d \in disk
        PROVE  Prefix(acked, d)
    <3>1. CASE acked = <<>>
      BY <1>1, <3>1 DEF Prefix, IInvV4, BytesInv
    <3>2. CASE acked # <<>>
      BY <1>1, <2>2, <3>2 DEF IInvV4, KeptInv
    <3>3. QED
      BY <3>1, <3>2
  <2>4. QED
    BY <2>1, <2>2, <2>3 DEF PublishedStays
<1>2. QED
  BY <1>1, KeyedInv, PTL

\* The verdict of recover_new_v4 that a run is not committed, and that of a
\* publication that found no log, is reversed by no later power failure.
THEOREM NotCommittedStaysFinal == SpecV4 => []NotCommittedIsFinal
<1>1. IInvV4 => NotCommittedIsFinal
  BY DEF IInvV4
<1>2. QED
  BY <1>1, KeyedInv, PTL

=============================================================================
