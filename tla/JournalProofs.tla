---------------------------- MODULE JournalProofs ----------------------------
(***************************************************************************)
(* Proofs about Journal for every value of its constants.                  *)
(***************************************************************************)
EXTENDS Journal, FiniteSetTheorems, TLAPS

-----------------------------------------------------------------------------
(***************************************************************************)
(* Facts about bytes                                                       *)
(***************************************************************************)

\* The lines of a batch are bytes, two units for every event.
LEMMA LinesType ==
    ASSUME NEW events \in Seq(Event)
    PROVE  /\ Lines(events) \in Seq(Unit)
           /\ Len(Lines(events)) = 2 * Len(events)
<1> DEFINE n == 2 * Len(events)
<1>1. n \in Nat
  OBVIOUS
<1>2. ASSUME NEW i \in 1 .. n
      PROVE  (IF i % 2 = 1 THEN events[(i + 1) \div 2] ELSE NL) \in Unit
  <2>1. CASE i % 2 = 1
    <3>1. (i + 1) \div 2 \in 1 .. Len(events)
      BY <2>1
    <3>2. QED
      BY <2>1, <3>1 DEF Unit
  <2>2. CASE i % 2 # 1
    BY <2>2 DEF Unit
  <2>3. QED
    BY <2>1, <2>2
<1>3. Lines(events) \in [1 .. n -> Unit]
  BY <1>2 DEF Lines
<1>4. QED
  BY <1>1, <1>3

\* A prefix and the bytes after it are bytes of the expected length.
LEMMA UptoType ==
    ASSUME NEW f \in Seq(Unit), NEW n \in Nat, n <= Len(f)
    PROVE  /\ Upto(f, n) \in Seq(Unit)
           /\ Len(Upto(f, n)) = n
           /\ \A i \in 1 .. n : Upto(f, n)[i] = f[i]
BY DEF Upto

\* The bytes after an offset are bytes.
LEMMA AfterType ==
    ASSUME NEW f \in Seq(Unit), NEW n \in Nat
    PROVE  After(f, n) \in Seq(Unit)
BY DEF After

\* The offset scan returns is a line end inside the file, and all of it when the
\* file is not torn.
LEMMA GoodOffsetType ==
    ASSUME NEW f \in Seq(Unit)
    PROVE  /\ GoodOffset(f) \in Nat
           /\ GoodOffset(f) <= Len(f)
           /\ GoodOffset(f) % 2 = 0
           /\ ~Torn(f) => GoodOffset(f) = Len(f)
           /\ Torn(f) => GoodOffset(f) = Len(f) - 1
BY DEF GoodOffset, Torn

\* A prefix as long as the file is the file.
LEMMA UptoAll ==
    ASSUME NEW f \in Seq(Unit), NEW n, n = Len(f)
    PROVE  Upto(f, n) = f
BY DEF Upto

\* Prefixes survive a truncation above them and an appended byte.
LEMMA PrefixUpto ==
    ASSUME NEW s \in Seq(Unit), NEW f \in Seq(Unit), NEW n \in Nat,
           n <= Len(f), Len(s) <= n, Prefix(s, f)
    PROVE  Prefix(s, Upto(f, n))
BY UptoType DEF Prefix

\* An appended byte leaves every prefix in place.
LEMMA PrefixAppend ==
    ASSUME NEW s \in Seq(Unit), NEW f \in Seq(Unit), NEW u \in Unit, Prefix(s, f)
    PROVE  Prefix(s, Append(f, u))
BY DEF Prefix

\* Every log contains itself.
LEMMA PrefixRefl ==
    ASSUME NEW s \in Seq(Unit)
    PROVE  Prefix(s, s)
BY DEF Prefix

\* A prefix that ends at a line end is part of the complete lines.
LEMMA PrefixEven ==
    ASSUME NEW s \in Seq(Unit), NEW f \in Seq(Unit), Prefix(s, f), Len(s) % 2 = 0
    PROVE  Len(s) <= GoodOffset(f)
BY DEF Prefix, GoodOffset

\* The bytes of a batch are complete lines.
LEMMA BatchLines ==
    ASSUME NEW events \in Batches
    PROVE  Lines(events) \in Seq(Unit) /\ Len(Lines(events)) % 2 = 0
<1>1. PICK n \in 1 .. MaxBatch : events \in [1 .. n -> Event]
  BY LimitAssumption DEF Batches
<1>2. events \in Seq(Event) /\ Len(events) = n
  BY <1>1, LimitAssumption
<1>3. QED
  BY <1>2, LinesType

\* The prefixes somebody relies on are bytes.
LEMMA StablesType ==
    ASSUME TypeOK
    PROVE  \A s \in Stables : s \in Seq(Unit)
BY DEF TypeOK, Stables, Completion

\* sync_recovery_dirs closes intents and opens none.
LEMMA SyncOpen ==
    ASSUME TypeOK, SyncReceiptDirs
    PROVE  Open' = Pending(intents, completions) /\ Open' \subseteq Open
BY DEF TypeOK, SyncReceiptDirs, Open, Pending, Ids

\* A proposed intent is well formed.
LEMMA IntentAtType ==
    ASSUME TypeOK, NEW id \in Nonce, NEW good \in Nat, good <= Len(file)
    PROVE  /\ IntentAt(id, good) \in Intent
           /\ IntentAt(id, good).id = id
           /\ IntentAt(id, good).good = good
           /\ IntentAt(id, good).tail = Upto(file, good)
           /\ IntentAt(id, good).discarded = After(file, good)
BY UptoType, AfterType DEF TypeOK, IntentAt, Intent

\* Appending complete lines to complete lines leaves complete lines.
LEMMA EvenSum ==
    ASSUME NEW a \in Nat, NEW b \in Nat, a % 2 = 0, b % 2 = 0
    PROVE  (a + b) % 2 = 0
OBVIOUS

-----------------------------------------------------------------------------
(***************************************************************************)
(* Every step preserves the inductive invariant.                           *)
(***************************************************************************)

\* RunJournal::reader admits a reader: it relies on a log that is durable.
LEMMA OpenReaderStep == ASSUME NEW r \in Reader, IInv, OpenReader(r) PROVE IInv'
<1> USE DEF OpenReader, SyncReceiptDirs, LogAdmitted, IInv, TypeOK,
            logVars, markerVars, receiptVars, lockVars, writerVars, historyVars
<1>1. TypeOK'
  BY DEF PCs, MarkerState
<1>2. StableInv'
  <2>1. disk = {file} /\ Len(file) % 2 = 0
    BY DEF UngatedLogDurable, Torn
  <2>2. Open' = {}
    BY SyncOpen
  <2>3. \A s \in Stables' : s \in Stables \/ s = file
    BY DEF Stables
  <2>4. QED
    BY <2>1, <2>2, <2>3, PrefixRefl DEF StableInv
<1>3. UngatedLogDurable'
  BY DEF UngatedLogDurable
<1>4. ReceiptInv'
  BY SyncOpen DEF ReceiptInv
<1>5. WriterInv'
  BY DEF WriterInv, JobInv
<1>6. JobInv'
  BY DEF JobInv, JobPCs
<1>7. QED
  BY <1>1, <1>2, <1>3, <1>4, <1>5, <1>6 DEF IInv

\* A reader drops its shared lock.
LEMMA CloseReaderStep == ASSUME NEW r \in Reader, IInv, CloseReader(r) PROVE IInv'
<1> USE DEF CloseReader, IInv, TypeOK,
            logVars, markerVars, receiptVars, lockVars, writerVars, historyVars
<1>1. TypeOK'
  BY DEF PCs, MarkerState
<1>2. StableInv'
  BY DEF StableInv, Stables, Open, WriterInv, JobInv
<1>3. UngatedLogDurable'
  BY DEF UngatedLogDurable, WriterInv, JobInv
<1>4. ReceiptInv'
  BY DEF ReceiptInv, Open, WriterInv, JobInv
<1>5. WriterInv'
  BY DEF WriterInv, JobInv
<1>6. JobInv'
  BY DEF JobInv, Open, JobPCs, WriterInv
<1>7. QED
  BY <1>1, <1>2, <1>3, <1>4, <1>5, <1>6 DEF IInv

\* RunJournal::writer_locked hands out a writer at the end of a complete log.
LEMMA OpenWriterStep == ASSUME IInv, OpenWriter PROVE IInv'
<1> USE DEF OpenWriter, SyncReceiptDirs, LogAdmitted, IInv, TypeOK,
            logVars, markerVars, receiptVars, lockVars, writerVars, historyVars
<1>1. TypeOK'
  BY GoodOffsetType DEF PCs, MarkerState
<1>2. StableInv'
  BY SyncOpen DEF StableInv, Stables
<1>3. UngatedLogDurable'
  BY DEF UngatedLogDurable, WriterInv, JobInv
<1>4. ReceiptInv'
  BY SyncOpen DEF ReceiptInv
<1>5. WriterInv'
  BY GoodOffsetType DEF WriterInv, UngatedLogDurable
<1>6. JobInv'
  BY SyncOpen DEF JobInv, JobPCs
<1>7. QED
  BY <1>1, <1>2, <1>3, <1>4, <1>5, <1>6 DEF IInv

\* An open that is refused has only synced the receipt directories.
LEMMA OpenRefusedStep == ASSUME IInv, OpenRefused PROVE IInv'
<1> USE DEF OpenRefused, SyncReceiptDirs, IInv, TypeOK,
            logVars, markerVars, receiptVars, lockVars, writerVars, historyVars
<1>1. TypeOK'
  BY DEF PCs, MarkerState
<1>2. StableInv'
  BY SyncOpen DEF StableInv, Stables
<1>3. UngatedLogDurable'
  BY DEF UngatedLogDurable, WriterInv, JobInv
<1>4. ReceiptInv'
  BY SyncOpen DEF ReceiptInv
<1>5. WriterInv'
  BY DEF WriterInv, JobInv
<1>6. JobInv'
  BY DEF JobInv, JobPCs
<1>7. QED
  BY <1>1, <1>2, <1>3, <1>4, <1>5, <1>6 DEF IInv

\* The writer drops its lock.
LEMMA CloseWriterStep == ASSUME IInv, CloseWriter PROVE IInv'
<1> USE DEF CloseWriter, Release, IInv, TypeOK,
            logVars, markerVars, receiptVars, lockVars, writerVars, historyVars
<1>1. TypeOK'
  BY DEF PCs, MarkerState
<1>2. StableInv'
  BY DEF StableInv, Stables, Open, WriterInv, JobInv
<1>3. UngatedLogDurable'
  BY DEF UngatedLogDurable, WriterInv, JobInv
<1>4. ReceiptInv'
  BY DEF ReceiptInv, Open, WriterInv, JobInv
<1>5. WriterInv'
  BY DEF WriterInv, JobInv
<1>6. JobInv'
  BY DEF JobInv, Open, JobPCs, WriterInv
<1>7. QED
  BY <1>1, <1>2, <1>3, <1>4, <1>5, <1>6 DEF IInv

\* append_batch passes its checks and has written nothing yet.
LEMMA BeginAppendStep == ASSUME NEW events \in Batches, IInv, BeginAppend(events) PROVE IInv'
<1> USE DEF BeginAppend, SyncReceiptDirs, IInv, TypeOK,
            logVars, markerVars, receiptVars, lockVars, writerVars, historyVars
<1>1. TypeOK'
  BY BatchLines DEF PCs, MarkerState
<1>2. StableInv'
  BY SyncOpen DEF StableInv, Stables
<1>3. UngatedLogDurable'
  BY DEF UngatedLogDurable, WriterInv, JobInv
<1>4. ReceiptInv'
  BY SyncOpen DEF ReceiptInv
<1>5. WriterInv'
  BY BatchLines DEF WriterInv
<1>6. JobInv'
  BY SyncOpen DEF JobInv, JobPCs
<1>7. QED
  BY <1>1, <1>2, <1>3, <1>4, <1>5, <1>6 DEF IInv

\* The marker file exists, empty.
LEMMA CreateMarkerStep == ASSUME IInv, CreateMarker PROVE IInv'
<1> USE DEF CreateMarker, IInv, TypeOK,
            logVars, markerVars, receiptVars, lockVars, writerVars, historyVars
<1>1. TypeOK'
  BY DEF PCs, MarkerState
<1>2. StableInv'
  BY DEF StableInv, Stables, Open, WriterInv, JobInv
<1>3. UngatedLogDurable'
  BY DEF UngatedLogDurable, WriterInv, JobInv
<1>4. ReceiptInv'
  BY DEF ReceiptInv, Open, WriterInv, JobInv
<1>5. WriterInv'
  BY DEF WriterInv, JobInv
<1>6. JobInv'
  BY DEF JobInv, Open, JobPCs, WriterInv
<1>7. QED
  BY <1>1, <1>2, <1>3, <1>4, <1>5, <1>6 DEF IInv

\* The marker file was there already and the append is refused.
LEMMA MarkerExistsStep == ASSUME IInv, MarkerExists PROVE IInv'
<1> USE DEF MarkerExists, IInv, TypeOK,
            logVars, markerVars, receiptVars, lockVars, writerVars, historyVars
<1>1. TypeOK'
  BY DEF PCs, MarkerState
<1>2. StableInv'
  BY DEF StableInv, Stables, Open, WriterInv, JobInv
<1>3. UngatedLogDurable'
  BY DEF UngatedLogDurable, WriterInv, JobInv
<1>4. ReceiptInv'
  BY DEF ReceiptInv, Open, WriterInv, JobInv
<1>5. WriterInv'
  BY DEF WriterInv, JobInv
<1>6. JobInv'
  BY DEF JobInv, Open, JobPCs, WriterInv
<1>7. QED
  BY <1>1, <1>2, <1>3, <1>4, <1>5, <1>6 DEF IInv

\* The marker has its bytes.
LEMMA WriteMarkerStep == ASSUME IInv, WriteMarker PROVE IInv'
<1> USE DEF WriteMarker, IInv, TypeOK,
            logVars, markerVars, receiptVars, lockVars, writerVars, historyVars
<1>1. TypeOK'
  BY DEF PCs, MarkerState
<1>2. StableInv'
  BY DEF StableInv, Stables, Open, WriterInv, JobInv
<1>3. UngatedLogDurable'
  BY DEF UngatedLogDurable, WriterInv, JobInv
<1>4. ReceiptInv'
  BY DEF ReceiptInv, Open, WriterInv, JobInv
<1>5. WriterInv'
  BY DEF WriterInv, JobInv
<1>6. JobInv'
  BY DEF JobInv, Open, JobPCs, WriterInv
<1>7. QED
  BY <1>1, <1>2, <1>3, <1>4, <1>5, <1>6 DEF IInv

\* The marker is durable: from here the log may change.
LEMMA SyncMarkerStep == ASSUME IInv, SyncMarker PROVE IInv'
<1> USE DEF SyncMarker, IInv, TypeOK,
            logVars, markerVars, receiptVars, lockVars, writerVars, historyVars
<1>1. TypeOK'
  BY DEF PCs, MarkerState
<1>2. StableInv'
  BY DEF StableInv, Stables, Open, WriterInv, Prefix
<1>3. UngatedLogDurable'
  BY DEF UngatedLogDurable, WriterInv, JobInv
<1>4. ReceiptInv'
  BY DEF ReceiptInv, Open, WriterInv, JobInv
<1>5. WriterInv'
  <2>1. Len(file) = confirmed /\ Len(file) % 2 = 0 /\ Len(batch) % 2 = 0
    BY DEF WriterInv, Torn
  <2>2. (Len(file) + Len(batch)) % 2 = 0
    <3>1. Len(file) \in Nat /\ Len(batch) \in Nat
      OBVIOUS
    <3>2. QED
      BY <2>1, <3>1, EvenSum
  <2>3. QED
    BY <2>1, <2>2 DEF WriterInv
<1>6. JobInv'
  BY DEF JobInv, Open, JobPCs, WriterInv
<1>7. QED
  BY <1>1, <1>2, <1>3, <1>4, <1>5, <1>6 DEF IInv

\* A byte of the batch reaches the page cache.
LEMMA WriteUnitStep == ASSUME IInv, WriteUnit PROVE IInv'
<1> USE DEF WriteUnit, IInv, TypeOK,
            logVars, markerVars, receiptVars, lockVars, writerVars, historyVars
<1>1. TypeOK'
  <2>1. Head(batch) \in Unit /\ Tail(batch) \in Seq(Unit)
    OBVIOUS
  <2>2. file' \in Seq(Unit)
    BY <2>1
  <2>3. QED
    BY <2>1, <2>2 DEF PCs, MarkerState
<1>2. StableInv'
  <2>1. Head(batch) \in Unit
    OBVIOUS
  <2>2. \A s \in Stables : Prefix(s, file')
    BY <2>1, PrefixAppend, StablesType DEF StableInv
  <2>3. QED
    BY <2>2 DEF StableInv, Stables, Open
<1>3. UngatedLogDurable'
  BY DEF UngatedLogDurable, WriterInv, JobInv
<1>4. ReceiptInv'
  BY DEF ReceiptInv, Open, WriterInv, JobInv
<1>5. WriterInv'
  <2>1. confirmed <= Len(file) /\ Len(file) \in Nat /\ confirmed \in Nat
    BY DEF WriterInv
  <2>2. Len(file') = Len(file) + 1 /\ Len(batch') = Len(batch) - 1
    OBVIOUS
  <2>3. confirmed' <= Len(file') /\ (Len(file') + Len(batch')) = Len(file) + Len(batch)
    BY <2>1, <2>2
  <2>4. QED
    BY <2>3 DEF WriterInv
<1>6. JobInv'
  BY DEF JobInv, Open, JobPCs, WriterInv
<1>7. QED
  BY <1>1, <1>2, <1>3, <1>4, <1>5, <1>6 DEF IInv

\* The batch is durable and the writer's offset advances.
LEMMA SyncLogStep == ASSUME IInv, SyncLog PROVE IInv'
<1> USE DEF SyncLog, IInv, TypeOK,
            logVars, markerVars, receiptVars, lockVars, writerVars, historyVars
<1>1. TypeOK'
  BY DEF PCs, MarkerState
<1>2. StableInv'
  BY DEF StableInv, Stables, Open, WriterInv, JobInv
<1>3. UngatedLogDurable'
  BY DEF UngatedLogDurable, WriterInv, JobInv
<1>4. ReceiptInv'
  BY DEF ReceiptInv, Open, WriterInv, JobInv
<1>5. WriterInv'
  BY DEF WriterInv, JobInv
<1>6. JobInv'
  BY DEF JobInv, Open, JobPCs, WriterInv, Torn
<1>7. QED
  BY <1>1, <1>2, <1>3, <1>4, <1>5, <1>6 DEF IInv

\* The rollback intent is linked.
LEMMA RecordRollbackIntentStep == ASSUME IInv, RecordRollbackIntent PROVE IInv'
<1> USE DEF RecordRollbackIntent, LinkIntent, IInv, TypeOK,
            logVars, markerVars, receiptVars, lockVars, writerVars, historyVars
<1>0. PICK id \in FreshNonce :
         /\ LineageOK(IntentAt(id, confirmed))
         /\ LinkIntent(IntentAt(id, confirmed))
  OBVIOUS
<1> DEFINE new == IntentAt(id, confirmed)
<1>a. /\ id \in Nonce /\ id \notin Ids(intents) /\ id \notin Ids(completions)
      /\ new \in Intent /\ new.id = id /\ new.good = confirmed
      /\ new.tail = Upto(file, confirmed) /\ new.discarded = After(file, confirmed)
  BY IntentAtType DEF FreshNonce, WriterInv
<1>b. intents' = intents \cup {new} /\ job' = new /\ pc' = "intent_sync"
  BY <1>0
<1>c. Open = {} /\ holder = "writer" /\ markerDisk = {"present"}
      /\ confirmed % 2 = 0 /\ confirmed <= Len(file)
  BY DEF WriterInv, JobInv
<1>d. Open' = {new}
  BY <1>a, <1>b, <1>c DEF Open, Ids
<1>e. \A i \in intents : i.id # id /\ i.good # confirmed
  BY <1>0, <1>a DEF LineageOK, Conflicts, Ids
<1> HIDE DEF new
<1>1. TypeOK'
  BY <1>a, <1>b DEF PCs, MarkerState
<1>2. StableInv'
  BY <1>a, <1>b, <1>d DEF StableInv, Stables
<1>3. UngatedLogDurable'
  BY DEF UngatedLogDurable, WriterInv, JobInv
<1>4. ReceiptInv'
  <2>1. \A i, j \in intents' : i.id = j.id \/ i.good = j.good => i = j
    BY <1>a, <1>b, <1>e DEF ReceiptInv
  <2>2. \A i \in intents', c \in completions' :
           i.id = c.id => c.post = i.tail /\ Len(c.post) = i.good
    BY <1>a, <1>b DEF ReceiptInv, Ids
  <2>3. \A i \in Open' : i.good % 2 = 0 /\ markerDisk' = {"present"}
    BY <1>a, <1>c, <1>d
  <2>4. QED
    BY <1>d, <2>1, <2>2, <2>3 DEF ReceiptInv
<1>5. WriterInv'
  BY <1>b DEF WriterInv
<1>6. JobInv'
  BY <1>a, <1>b, <1>c DEF JobInv, JobPCs, Open, Ids
<1>7. QED
  BY <1>1, <1>2, <1>3, <1>4, <1>5, <1>6 DEF IInv

\* The rollback is refused and the writer poisoned.
LEMMA RollbackRefusedStep == ASSUME IInv, RollbackRefused PROVE IInv'
<1> USE DEF RollbackRefused, Abort, Release, IInv, TypeOK,
            logVars, markerVars, receiptVars, lockVars, writerVars, historyVars
<1>1. TypeOK'
  BY DEF WriterInv, PCs, MarkerState
<1>2. StableInv'
  BY DEF StableInv, Stables, Open, WriterInv, JobInv
<1>3. UngatedLogDurable'
  BY DEF UngatedLogDurable, WriterInv, JobInv
<1>4. ReceiptInv'
  BY DEF ReceiptInv, Open, WriterInv, JobInv
<1>5. WriterInv'
  BY DEF WriterInv, JobInv
<1>6. JobInv'
  BY DEF JobInv, Open, JobPCs, WriterInv
<1>7. QED
  BY <1>1, <1>2, <1>3, <1>4, <1>5, <1>6 DEF IInv

\* The intent is durable.
LEMMA SyncIntentStep == ASSUME IInv, SyncIntent PROVE IInv'
<1> USE DEF SyncIntent, IInv, TypeOK,
            logVars, markerVars, receiptVars, lockVars, writerVars, historyVars
<1>1. TypeOK'
  BY DEF PCs, MarkerState
<1>2. StableInv'
  BY DEF StableInv, Stables, Open, WriterInv, JobInv
<1>3. UngatedLogDurable'
  BY DEF UngatedLogDurable, WriterInv, JobInv
<1>4. ReceiptInv'
  BY DEF ReceiptInv, Open, WriterInv, JobInv
<1>5. WriterInv'
  BY DEF WriterInv, JobInv
<1>6. JobInv'
  <2>1. job \in Open /\ job.good % 2 = 0
    BY DEF JobInv, JobPCs, Open, ReceiptInv, Ids
  <2>2. QED
    BY <2>1 DEF JobInv, JobPCs, Open, Torn
<1>7. QED
  BY <1>1, <1>2, <1>3, <1>4, <1>5, <1>6 DEF IInv

\* The log is cut at the intent's offset.
LEMMA TruncateStep == ASSUME IInv, Truncate PROVE IInv'
<1> USE DEF Truncate, IInv, TypeOK,
            logVars, markerVars, receiptVars, lockVars, writerVars, historyVars
<1>0. /\ job \in intents /\ job \in Intent /\ job.good \in Nat
      /\ job.good <= Len(file) /\ job.id \notin Ids(completions)
      /\ job \in Open /\ job.good % 2 = 0
  BY DEF JobInv, JobPCs, Open, Intent, Ids, ReceiptInv
<1>a. /\ file' \in Seq(Unit) /\ Len(file') = job.good
      /\ \A i \in 1 .. job.good : file'[i] = file[i]
  BY <1>0, UptoType
<1>b. markerDisk # {"present"} => file' = file
  BY <1>0, UptoAll DEF ReceiptInv
<1>c. Open' = Open /\ Stables' = Stables
  BY DEF Open, Stables
<1>1. TypeOK'
  BY <1>a DEF PCs, MarkerState
<1>2. StableInv'
  <2>1. \A s \in Stables : Prefix(s, file')
    BY <1>0, PrefixUpto, StablesType DEF StableInv
  <2>2. QED
    BY <1>c, <2>1 DEF StableInv
<1>3. UngatedLogDurable'
  BY <1>b DEF UngatedLogDurable
<1>4. ReceiptInv'
  BY <1>b, <1>c DEF ReceiptInv
<1>5. WriterInv'
  BY DEF WriterInv, JobInv
<1>6. JobInv'
  <2>1. Upto(file', job.good) = job.tail
    BY <1>a, UptoAll DEF JobInv, JobPCs
  <2>2. QED
    BY <1>a, <1>c, <2>1 DEF JobInv, JobPCs
<1>7. QED
  BY <1>1, <1>2, <1>3, <1>4, <1>5, <1>6 DEF IInv

\* The cut is durable.
LEMMA SyncTruncationStep == ASSUME IInv, SyncTruncation PROVE IInv'
<1> USE DEF SyncTruncation, IInv, TypeOK,
            logVars, markerVars, receiptVars, lockVars, writerVars, historyVars
<1>1. TypeOK'
  BY DEF PCs, MarkerState
<1>2. StableInv'
  BY DEF StableInv, Stables, Open
<1>3. UngatedLogDurable'
  BY DEF UngatedLogDurable, WriterInv, JobInv
<1>4. ReceiptInv'
  BY DEF ReceiptInv, Open, WriterInv, JobInv
<1>5. WriterInv'
  BY DEF WriterInv, JobInv
<1>6. JobInv'
  <2>1. job.good % 2 = 0
    BY DEF JobInv, JobPCs, ReceiptInv, Open, Ids
  <2>2. QED
    BY <2>1 DEF JobInv, JobPCs, Open, Torn
<1>7. QED
  BY <1>1, <1>2, <1>3, <1>4, <1>5, <1>6 DEF IInv

\* The completion is linked.
LEMMA LinkCompletionStep == ASSUME IInv, LinkCompletion PROVE IInv'
<1> USE DEF LinkCompletion, IInv, TypeOK,
            logVars, markerVars, receiptVars, lockVars, writerVars, historyVars
<1> DEFINE new == [id |-> job.id, post |-> Upto(file, job.good)]
<1>0. /\ job \in intents /\ job \in Intent /\ job.good = Len(file)
      /\ job.id \in Nonce /\ job.id \notin Ids(completions) /\ job \in Open
      /\ job \in intentsDisk /\ job.tail = file
      /\ disk = {file} /\ Len(file) % 2 = 0
  BY UptoAll DEF JobInv, JobPCs, Open, Intent, Ids, Torn
<1>a. /\ new \in Completion /\ new.id = job.id /\ new.post = file
      /\ completions' = completions \cup {new}
  BY <1>0, UptoAll DEF Completion
<1>b. Open' = Open
  BY DEF Open
<1> HIDE DEF new
<1>1. TypeOK'
  BY <1>a DEF PCs, MarkerState
<1>2. StableInv'
  <2>1. \A s \in Stables' : s \in Stables \/ s = file
    BY <1>a DEF Stables
  <2>2. \A i \in Open : i = job
    BY <1>0 DEF ReceiptInv
  <2>3. QED
    BY <1>0, <1>b, <2>1, <2>2, PrefixRefl DEF StableInv
<1>3. UngatedLogDurable'
  BY DEF UngatedLogDurable, WriterInv, JobInv
<1>4. ReceiptInv'
  BY <1>0, <1>a, <1>b DEF ReceiptInv, Ids
<1>5. WriterInv'
  BY DEF WriterInv, JobInv
<1>6. JobInv'
  BY <1>0, <1>a, <1>b DEF JobInv, JobPCs, Ids
<1>7. QED
  BY <1>1, <1>2, <1>3, <1>4, <1>5, <1>6 DEF IInv

\* The completion is durable and its intent closed.
LEMMA SyncCompletionStep == ASSUME IInv, SyncCompletion PROVE IInv'
<1> USE DEF SyncCompletion, IInv, TypeOK,
            logVars, markerVars, receiptVars, lockVars, writerVars, historyVars
<1>0. Open' = {} /\ completions' = completions /\ disk = {file}
  BY DEF JobInv, JobPCs, Open, Ids
<1>1. TypeOK'
  BY DEF PCs, MarkerState
<1>2. StableInv'
  BY <1>0 DEF StableInv, Stables
<1>3. UngatedLogDurable'
  BY DEF UngatedLogDurable, WriterInv, JobInv
<1>4. ReceiptInv'
  BY <1>0 DEF ReceiptInv
<1>5. WriterInv'
  BY DEF WriterInv, JobInv
<1>6. JobInv'
  BY <1>0 DEF JobInv, JobPCs
<1>7. QED
  BY <1>1, <1>2, <1>3, <1>4, <1>5, <1>6 DEF IInv

\* The marker is removed.
LEMMA UnlinkMarkerStep == ASSUME IInv, UnlinkMarker PROVE IInv'
<1> USE DEF UnlinkMarker, IInv, TypeOK,
            logVars, markerVars, receiptVars, lockVars, writerVars, historyVars
<1>1. TypeOK'
  BY DEF PCs, MarkerState
<1>2. StableInv'
  BY DEF StableInv, Stables, Open, WriterInv, JobInv
<1>3. UngatedLogDurable'
  BY DEF UngatedLogDurable, WriterInv, JobInv
<1>4. ReceiptInv'
  BY DEF ReceiptInv, Open, WriterInv, JobInv
<1>5. WriterInv'
  BY DEF WriterInv, JobInv
<1>6. JobInv'
  BY DEF JobInv, Open, JobPCs, WriterInv
<1>7. QED
  BY <1>1, <1>2, <1>3, <1>4, <1>5, <1>6 DEF IInv

\* The removal is durable and the call returns.
LEMMA SyncUnlinkStep == ASSUME IInv, SyncUnlink PROVE IInv'
<1> USE DEF SyncUnlink, Release, IInv, TypeOK,
            logVars, markerVars, receiptVars, lockVars, writerVars, historyVars
<1>1. TypeOK'
  <2>1. CASE holder = "writer"
    <3>1. Upto(file, confirmed) = file
      BY <2>1, UptoAll DEF JobInv
    <3>2. acked' \in Seq(Unit)
      BY <2>1, <3>1
    <3>3. QED
      BY <2>1, <3>2 DEF PCs, MarkerState
  <2>2. CASE holder = "recovery"
    BY <2>2 DEF PCs, MarkerState
  <2>3. QED
    BY <2>1, <2>2
<1>2. StableInv'
  <2>1. Upto(file, confirmed) = file \/ holder = "recovery"
    BY UptoAll DEF JobInv
  <2>2. disk = {file} /\ Len(file) % 2 = 0 /\ Open = {} /\ Open' = {}
    BY DEF JobInv, Torn, Open
  <2>3. \A s \in Stables' : s \in Stables \/ s = file
    BY <2>1 DEF Stables
  <2>4. QED
    BY <2>2, <2>3, PrefixRefl DEF StableInv
<1>3. UngatedLogDurable'
  BY DEF UngatedLogDurable, WriterInv, JobInv
<1>4. ReceiptInv'
  BY DEF ReceiptInv, Open, WriterInv, JobInv
<1>5. WriterInv'
  BY DEF WriterInv, JobInv
<1>6. JobInv'
  BY DEF JobInv, Open, JobPCs, WriterInv
<1>7. QED
  BY <1>1, <1>2, <1>3, <1>4, <1>5, <1>6 DEF IInv

\* Recovery returns without removing a marker.
LEMMA NoUnlinkStep == ASSUME IInv, NoUnlink PROVE IInv'
<1> USE DEF NoUnlink, Release, IInv, TypeOK,
            logVars, markerVars, receiptVars, lockVars, writerVars, historyVars
<1>1. TypeOK'
  BY DEF PCs, MarkerState
<1>2. StableInv'
  BY DEF StableInv, Stables, Open, WriterInv, JobInv
<1>3. UngatedLogDurable'
  BY DEF UngatedLogDurable, WriterInv, JobInv
<1>4. ReceiptInv'
  BY DEF ReceiptInv, Open, WriterInv, JobInv
<1>5. WriterInv'
  BY DEF WriterInv, JobInv
<1>6. JobInv'
  BY DEF JobInv, Open, JobPCs, WriterInv
<1>7. QED
  BY <1>1, <1>2, <1>3, <1>4, <1>5, <1>6 DEF IInv

\* Recovery takes up the intent that was left pending.
LEMMA ResumePendingStep == ASSUME IInv, ResumePending PROVE IInv'
<1> USE DEF ResumePending, IInv, TypeOK,
            logVars, markerVars, receiptVars, lockVars, writerVars, historyVars
<1>0. PICK i \in Pending(intents, completions) :
         /\ Resumable(i)
         /\ job' = i
         /\ pc' = IF Len(file) > i.good THEN "truncate" ELSE "trunc_sync"
  OBVIOUS
<1>a. /\ i \in intents /\ i.id \notin Ids(completions) /\ i \in Open
      /\ completionsDisk = completions /\ intentsDisk = intents
      /\ holder = "recovery"
  BY <1>0 DEF Pending, Open, JobInv
<1>b. i \in Intent /\ i.good \in Nat
  BY <1>a DEF Intent
<1>1. TypeOK'
  BY <1>0, <1>a, <1>b DEF PCs, MarkerState
<1>2. StableInv'
  BY DEF StableInv, Stables, Open, WriterInv, JobInv
<1>3. UngatedLogDurable'
  BY DEF UngatedLogDurable, WriterInv, JobInv
<1>4. ReceiptInv'
  BY DEF ReceiptInv, Open, WriterInv, JobInv
<1>5. WriterInv'
  BY DEF WriterInv, JobInv
<1>6. JobInv'
  <2>1. \A k \in intents : k = i \/ k.id \in Ids(completionsDisk)
    BY <1>a DEF ReceiptInv, Open
  <2>2. Len(file) > i.good => After(file, i.good) = i.discarded
    BY <1>0 DEF Resumable
  <2>3. i.good <= Len(file) /\ Upto(file, i.good) = i.tail
    BY <1>0 DEF Resumable
  <2>4. QED
    BY <1>0, <1>a, <1>b, <2>1, <2>2, <2>3 DEF JobInv, JobPCs
<1>7. QED
  BY <1>1, <1>2, <1>3, <1>4, <1>5, <1>6 DEF IInv

\* Recovery makes a complete marked log durable before it adopts it.
LEMMA SyncMarkedLogStep == ASSUME IInv, SyncMarkedLog PROVE IInv'
<1> USE DEF SyncMarkedLog, IInv, TypeOK,
            logVars, markerVars, receiptVars, lockVars, writerVars, historyVars
<1>1. TypeOK'
  BY DEF PCs, MarkerState
<1>2. StableInv'
  BY DEF StableInv, Stables, Open
<1>3. UngatedLogDurable'
  BY DEF UngatedLogDurable, WriterInv, JobInv
<1>4. ReceiptInv'
  BY DEF ReceiptInv, Open, WriterInv, JobInv
<1>5. WriterInv'
  BY DEF WriterInv, JobInv
<1>6. JobInv'
  <2>1. Open = {}
    BY DEF Open, Pending, JobInv
  <2>2. QED
    BY <2>1 DEF JobInv, JobPCs, Open
<1>7. QED
  BY <1>1, <1>2, <1>3, <1>4, <1>5, <1>6 DEF IInv

\* Recovery links an intent of its own.
LEMMA ProposeRecoveryStep == ASSUME IInv, ProposeRecovery PROVE IInv'
<1> USE DEF ProposeRecovery, LinkIntent, IInv, TypeOK,
            logVars, markerVars, receiptVars, lockVars, writerVars, historyVars
<1> DEFINE good == GoodOffset(file)
<1>0. PICK id \in FreshNonce : LinkIntent(IntentAt(id, good))
  OBVIOUS
<1> DEFINE new == IntentAt(id, good)
<1>a. /\ good \in Nat /\ good <= Len(file) /\ good % 2 = 0
      /\ (~Torn(file) => good = Len(file)) /\ (Torn(file) => good = Len(file) - 1)
  BY GoodOffsetType
<1>b. /\ id \in Nonce /\ id \notin Ids(intents) /\ id \notin Ids(completions)
      /\ new \in Intent /\ new.id = id /\ new.good = good
      /\ new.tail = Upto(file, good) /\ new.discarded = After(file, good)
  BY <1>a, IntentAtType DEF FreshNonce
<1>c. intents' = intents \cup {new} /\ job' = new /\ pc' = "intent_sync"
  BY <1>0
<1>d. /\ Open = {} /\ holder = "recovery" /\ completionsDisk = completions
      /\ \A i \in intents : i.good # good /\ i.id # id
      /\ pc \in {"recover", "marker_intent"}
      /\ pc = "recover" => Torn(file)
      /\ pc = "marker_intent" => disk = {file} /\ ~Torn(file)
  BY <1>b DEF JobInv, Open, Pending, Proposable, Ids
<1>e. Open' = {new}
  BY <1>b, <1>c, <1>d DEF Open, Ids
<1> HIDE DEF new, good
<1>1. TypeOK'
  BY <1>b, <1>c, <1>d DEF PCs, MarkerState
<1>2. StableInv'
  <2>1. \A s \in Stables : Len(s) <= good
    BY PrefixEven, StablesType DEF StableInv, good
  <2>2. QED
    BY <1>b, <1>c, <1>e, <2>1 DEF StableInv, Stables
<1>3. UngatedLogDurable'
  BY DEF UngatedLogDurable, WriterInv, JobInv
<1>4. ReceiptInv'
  <2>1. markerDisk # {"present"} => good = Len(file)
    BY <1>a DEF UngatedLogDurable
  <2>2. \A i, j \in intents' : i.id = j.id \/ i.good = j.good => i = j
    BY <1>b, <1>c, <1>d DEF ReceiptInv
  <2>3. \A i \in intents', c \in completions' :
           i.id = c.id => c.post = i.tail /\ Len(c.post) = i.good
    BY <1>b, <1>c DEF ReceiptInv, Ids
  <2>4. QED
    BY <1>a, <1>b, <1>e, <2>1, <2>2, <2>3 DEF ReceiptInv
<1>5. WriterInv'
  BY <1>c DEF WriterInv
<1>6. JobInv'
  <2>1. new.discarded = <<>> => ~Torn(file)
    BY <1>a, <1>b DEF After
  <2>2. job'.discarded = <<>> => disk' = {file'} /\ Len(file') = job'.good
    BY <1>a, <1>b, <1>c, <1>d, <2>1
  <2>3. \A i \in intents' : i = job' \/ i.id \in Ids(completionsDisk')
    BY <1>c, <1>d DEF Open, Ids
  <2>4. job'.id \notin Ids(completions')
    BY <1>b, <1>c DEF Ids
  <2>5. QED
    BY <1>a, <1>b, <1>c, <1>d, <2>2, <2>3, <2>4 DEF JobInv, JobPCs
<1>7. QED
  BY <1>1, <1>2, <1>3, <1>4, <1>5, <1>6 DEF IInv

\* Recovery returns an error.
LEMMA RecoveryRefusedStep == ASSUME IInv, RecoveryRefused PROVE IInv'
<1> USE DEF RecoveryRefused, Abort, Release, IInv, TypeOK,
            logVars, markerVars, receiptVars, lockVars, writerVars, historyVars
<1>1. TypeOK'
  <2>1. Abort /\ UNCHANGED <<logVars, markerVars, receiptVars, readers, historyVars, faults>>
    OBVIOUS
  <2>2. CASE holder = "writer"
    BY <2>1, <2>2 DEF PCs, MarkerState
  <2>3. CASE holder = "recovery"
    BY <2>1, <2>3 DEF PCs, MarkerState
  <2>4. QED
    BY <2>1, <2>2, <2>3
<1>2. StableInv'
  BY DEF StableInv, Stables, Open, WriterInv, JobInv
<1>3. UngatedLogDurable'
  BY DEF UngatedLogDurable, WriterInv, JobInv
<1>4. ReceiptInv'
  BY DEF ReceiptInv, Open, WriterInv, JobInv
<1>5. WriterInv'
  BY DEF WriterInv, JobInv
<1>6. JobInv'
  BY DEF JobInv, Open, JobPCs, WriterInv
<1>7. QED
  BY <1>1, <1>2, <1>3, <1>4, <1>5, <1>6 DEF IInv

\* Recovery has the lock and durable receipt directories.
LEMMA OpenRecoveryStep == ASSUME IInv, OpenRecovery PROVE IInv'
<1> USE DEF OpenRecovery, SyncReceiptDirs, IInv, TypeOK,
            logVars, markerVars, receiptVars, lockVars, writerVars, historyVars
<1>1. TypeOK'
  BY DEF PCs, MarkerState
<1>2. StableInv'
  BY SyncOpen DEF StableInv, Stables
<1>3. UngatedLogDurable'
  BY DEF UngatedLogDurable, WriterInv, JobInv
<1>4. ReceiptInv'
  BY SyncOpen DEF ReceiptInv
<1>5. WriterInv'
  BY DEF WriterInv, JobInv
<1>6. JobInv'
  BY SyncOpen DEF JobInv, JobPCs
<1>7. QED
  BY <1>1, <1>2, <1>3, <1>4, <1>5, <1>6 DEF IInv

\* record_append_marker fails; the log is untouched.
LEMMA FailMarkerStep == ASSUME IInv, FailMarker PROVE IInv'
<1> USE DEF FailMarker, Fault, IInv, TypeOK,
            logVars, markerVars, receiptVars, lockVars, writerVars, historyVars
<1>1. TypeOK'
  <2>1. holder = "writer" /\ pc' = "ready" /\ pc # "idle"
    BY DEF WriterInv
  <2>2. marker' \in markerDisk' /\ markerDisk' \subseteq MarkerState
    BY DEF MarkerState
  <2>3. faults' \in 0 .. MaxFaults
    BY LimitAssumption
  <2>4. QED
    BY <2>1, <2>2, <2>3 DEF PCs, MarkerState
<1>2. StableInv'
  BY DEF StableInv, Stables, Open, WriterInv, JobInv
<1>3. UngatedLogDurable'
  BY DEF UngatedLogDurable, WriterInv, JobInv
<1>4. ReceiptInv'
  BY DEF ReceiptInv, Open, WriterInv, JobInv
<1>5. WriterInv'
  BY DEF WriterInv, JobInv
<1>6. JobInv'
  BY DEF JobInv, Open, JobPCs, WriterInv
<1>7. QED
  BY <1>1, <1>2, <1>3, <1>4, <1>5, <1>6 DEF IInv

\* A failed write sends the writer into its rollback.
LEMMA FailWriteStep == ASSUME IInv, FailWrite PROVE IInv'
<1> USE DEF FailWrite, Fault, IInv, TypeOK,
            logVars, markerVars, receiptVars, lockVars, writerVars, historyVars
<1>1. TypeOK'
  BY LimitAssumption DEF PCs, MarkerState
<1>2. StableInv'
  BY DEF StableInv, Stables, Open, WriterInv, JobInv
<1>3. UngatedLogDurable'
  BY DEF UngatedLogDurable, WriterInv, JobInv
<1>4. ReceiptInv'
  BY DEF ReceiptInv, Open, WriterInv, JobInv
<1>5. WriterInv'
  BY DEF WriterInv, JobInv
<1>6. JobInv'
  BY DEF JobInv, Open, JobPCs, WriterInv
<1>7. QED
  BY <1>1, <1>2, <1>3, <1>4, <1>5, <1>6 DEF IInv

\* A failed call aborts the operation.
LEMMA FailCallStep == ASSUME IInv, FailCall PROVE IInv'
<1> USE DEF FailCall, Fault, Abort, Release, IInv, TypeOK,
            logVars, markerVars, receiptVars, lockVars, writerVars, historyVars
<1>1. TypeOK'
  <2>1. faults' \in 0 .. MaxFaults
    BY LimitAssumption
  <2>2. CASE holder = "writer"
    BY <2>1, <2>2 DEF PCs, MarkerState
  <2>3. CASE holder = "recovery"
    BY <2>1, <2>3 DEF PCs, MarkerState
  <2>4. QED
    BY <2>2, <2>3
<1>2. StableInv'
  BY DEF StableInv, Stables, Open, WriterInv, JobInv
<1>3. UngatedLogDurable'
  BY DEF UngatedLogDurable, WriterInv, JobInv
<1>4. ReceiptInv'
  BY DEF ReceiptInv, Open, WriterInv, JobInv
<1>5. WriterInv'
  BY DEF WriterInv, JobInv
<1>6. JobInv'
  BY DEF JobInv, Open, JobPCs, WriterInv
<1>7. QED
  BY <1>1, <1>2, <1>3, <1>4, <1>5, <1>6 DEF IInv

\* The process is killed.
LEMMA CrashStep == ASSUME IInv, Crash PROVE IInv'
<1> USE DEF Crash, Fault, Release, IInv, TypeOK,
            logVars, markerVars, receiptVars, lockVars, writerVars, historyVars
<1>1. TypeOK'
  BY LimitAssumption DEF PCs, MarkerState
<1>2. StableInv'
  BY DEF StableInv, Stables, Open, WriterInv, JobInv
<1>3. UngatedLogDurable'
  BY DEF UngatedLogDurable, WriterInv, JobInv
<1>4. ReceiptInv'
  BY DEF ReceiptInv, Open, WriterInv, JobInv
<1>5. WriterInv'
  BY DEF WriterInv, JobInv
<1>6. JobInv'
  BY DEF JobInv, Open, JobPCs, WriterInv
<1>7. QED
  BY <1>1, <1>2, <1>3, <1>4, <1>5, <1>6 DEF IInv

\* The machine loses power and the medium's state becomes the state.
LEMMA PowerLossStep == ASSUME IInv, PowerLoss PROVE IInv'
<1> USE DEF PowerLoss, Fault, Release, IInv, TypeOK,
            logVars, markerVars, receiptVars, lockVars, writerVars, historyVars
<1> USE DEF Ids
<1>1. TypeOK'
  BY LimitAssumption DEF PCs, MarkerState
<1>2. StableInv'
  BY DEF StableInv, Stables, Open, WriterInv, JobInv
<1>3. UngatedLogDurable'
  BY DEF UngatedLogDurable, WriterInv, JobInv
<1>4. ReceiptInv'
  <2>1. /\ intents' \subseteq intents /\ intentsDisk \subseteq intentsDisk'
        /\ completions' \subseteq completions
        /\ completionsDisk \subseteq completionsDisk'
    OBVIOUS
  <2>2. Open' \subseteq Open
    BY <2>1 DEF Open
  <2>3. markerDisk' # {"present"} => file' = file
    BY DEF UngatedLogDurable
  <2>4. /\ \A i, j \in intents' : i.id = j.id \/ i.good = j.good => i = j
        /\ \A c, d \in completions' : c.id = d.id => c = d
        /\ \A c \in completions' : \E i \in intentsDisk' : i.id = c.id
    <3> HIDE DEF PowerLoss, Ids
    <3> QED
      BY <2>1 DEF ReceiptInv
  <2>5. \A i \in intents', c \in completions' :
           i.id = c.id => c.post = i.tail /\ Len(c.post) = i.good
    <3> HIDE DEF PowerLoss, Ids
    <3> QED
      BY <2>1 DEF ReceiptInv
  <2>6. markerDisk' # {"present"} => markerDisk # {"present"}
    OBVIOUS
  <2>7. /\ \A i, j \in Open' : i = j
        /\ \A i \in Open' : /\ i.good % 2 = 0
                            /\ markerDisk' # {"present"} => i.good = Len(file')
    <3> HIDE DEF PowerLoss, Ids
    <3> QED
      BY <2>2, <2>3, <2>6 DEF ReceiptInv
  <2>8. QED
    BY <2>4, <2>5, <2>7 DEF ReceiptInv
<1>5. WriterInv'
  BY DEF WriterInv, JobInv
<1>6. JobInv'
  BY DEF JobInv, Open, JobPCs, WriterInv
<1>7. QED
  BY <1>1, <1>2, <1>3, <1>4, <1>5, <1>6 DEF IInv

-----------------------------------------------------------------------------
(***************************************************************************)
(* The theorems                                                            *)
(***************************************************************************)

\* The freshly initialized journal satisfies the inductive invariant.
LEMMA InitInv == Init => IInv
<1> SUFFICES ASSUME Init PROVE IInv
  OBVIOUS
<1> DEFINE g == Lines(<<Genesis>>)
<1>1. g \in Seq(Unit) /\ Len(g) % 2 = 0
  <2>1. <<Genesis>> \in Seq(Event) /\ Len(<<Genesis>>) = 1
    BY GenesisAssumption
  <2>2. g \in Seq(Unit) /\ Len(g) = 2 * Len(<<Genesis>>)
    <3> HIDE DEF g
    <3> QED
      BY <2>1, LinesType DEF g
  <2> HIDE DEF g
  <2>3. Len(g) = 2
    BY <2>1, <2>2
  <2>4. QED
    BY <2>2, <2>3
<1> HIDE DEF g
<1>2. file = g /\ disk = {g} /\ acked = g
  BY DEF Init, g
<1>3. Open = {} /\ Stables = {g, <<>>} /\ completions = {}
  BY <1>2 DEF Init, Open, Stables
<1>4. TypeOK
  BY <1>1, <1>2, LimitAssumption DEF Init, TypeOK, PCs, MarkerState
<1>5. StableInv
  <2>1. Len(<<>>) % 2 = 0 /\ Prefix(<<>>, g)
    BY <1>1 DEF Prefix
  <2>2. QED
    BY <1>1, <1>2, <1>3, <2>1, PrefixRefl DEF Init, StableInv
<1>6. UngatedLogDurable
  BY <1>1, <1>2 DEF UngatedLogDurable, Torn
<1>7. ReceiptInv /\ WriterInv /\ JobInv
  BY <1>3 DEF Init, ReceiptInv, WriterInv, JobInv, JobPCs
<1>8. QED
  BY <1>4, <1>5, <1>6, <1>7 DEF IInv

\* Steps that leave every variable unchanged.
LEMMA StutterStep == ASSUME IInv, UNCHANGED vars PROVE IInv'
<1> USE DEF vars, logVars, markerVars, receiptVars, lockVars, writerVars, historyVars
<1>1. TypeOK' /\ UngatedLogDurable'
  BY DEF IInv, TypeOK, UngatedLogDurable
<1>2. StableInv' /\ ReceiptInv'
  BY DEF IInv, StableInv, ReceiptInv, Open, Stables
<1>3. WriterInv' /\ JobInv'
  BY DEF IInv, WriterInv, JobInv, Open, JobPCs
<1>4. QED
  BY <1>1, <1>2, <1>3 DEF IInv

\* Every step of the journal, fault or crash included, preserves it.
LEMMA NextInv == IInv /\ [Next]_vars => IInv'
<1> SUFFICES ASSUME IInv, [Next]_vars PROVE IInv'
  OBVIOUS
<1>1. CASE Step
  BY <1>1, CreateMarkerStep, MarkerExistsStep, WriteMarkerStep, SyncMarkerStep,
     WriteUnitStep, SyncLogStep, RecordRollbackIntentStep, RollbackRefusedStep,
     SyncIntentStep, TruncateStep, SyncTruncationStep, LinkCompletionStep,
     SyncCompletionStep, UnlinkMarkerStep, SyncUnlinkStep, NoUnlinkStep,
     ResumePendingStep, SyncMarkedLogStep, ProposeRecoveryStep,
     RecoveryRefusedStep DEF Step
<1>2. CASE UNCHANGED vars
  BY <1>2, StutterStep
<1>3. QED
  BY <1>1, <1>2, OpenReaderStep, CloseReaderStep, OpenWriterStep,
     OpenRefusedStep, CloseWriterStep, BeginAppendStep, OpenRecoveryStep,
     FailMarkerStep, FailWriteStep, FailCallStep, CrashStep, PowerLossStep
     DEF Next

\* The inductive invariant holds in every reachable state.
THEOREM JournalInv == Spec => []IInv
BY InitInv, NextInv, PTL DEF Spec

\* Type correctness of the journal.
THEOREM TypeCorrect == Spec => []TypeOK
<1>1. IInv => TypeOK
  BY DEF IInv
<1>2. QED
  BY <1>1, JournalInv, PTL

\* An acknowledged append survives every later crash, power failure, failed
\* rollback and recovery (append_batch returned Ok).
THEOREM AcknowledgedAreDurable == Spec => []AcknowledgedDurable
<1>1. IInv => AcknowledgedDurable
  BY DEF IInv, StableInv, Stables, AcknowledgedDurable
<1>2. QED
  BY <1>1, JournalInv, PTL

\* Nothing a JournalReader has replayed is ever removed from the log.
THEOREM ObservedAreStable == Spec => []ObservedStable
<1>1. IInv => ObservedStable
  BY DEF IInv, StableInv, Stables, ObservedStable
<1>2. QED
  BY <1>1, JournalInv, PTL

\* The append.pending marker is a sound gate.
THEOREM GateIsSound == Spec => []UngatedLogDurable
<1>1. IInv => UngatedLogDurable
  BY DEF IInv
<1>2. QED
  BY <1>1, JournalInv, PTL

\* validate_completed_receipts never refuses a journal this protocol wrote.
THEOREM ReceiptsMatchAlways == Spec => []ReceiptsAlwaysMatch
<1>1. ASSUME IInv, NEW d \in disk, NEW i \in intents, NEW c \in completions,
             i.id = c.id
      PROVE  /\ i.good <= GoodOffset(d)
             /\ Upto(d, i.good) = i.tail
             /\ Upto(d, i.good) = c.post
  <2>1. c.post = i.tail /\ Len(c.post) = i.good
    BY <1>1 DEF IInv, ReceiptInv
  <2>2. c.post \in Stables /\ c.post \in Seq(Unit) /\ d \in Seq(Unit)
    BY <1>1, StablesType DEF IInv, TypeOK, Stables
  <2>3. Prefix(c.post, d) /\ Len(c.post) % 2 = 0
    BY <1>1, <2>2 DEF IInv, StableInv
  <2>4. i.good <= GoodOffset(d)
    BY <2>1, <2>2, <2>3, PrefixEven
  <2>5. Upto(d, i.good) = c.post
    <3>1. i.good \in Nat /\ i.good <= Len(d)
      BY <2>1, <2>2, <2>3 DEF Prefix
    <3>2. /\ Upto(d, i.good) \in Seq(Unit) /\ Len(Upto(d, i.good)) = i.good
          /\ \A k \in 1 .. i.good : Upto(d, i.good)[k] = d[k]
      BY <2>2, <3>1, UptoType
    <3>3. QED
      BY <2>1, <2>2, <2>3, <3>1, <3>2 DEF Prefix
  <2>6. QED
    BY <2>1, <2>4, <2>5
<1>2. IInv => ReceiptsAlwaysMatch
  BY <1>1 DEF ReceiptsAlwaysMatch, ReceiptsMatch
<1>3. QED
  BY <1>2, JournalInv, PTL

\* recovery_audit passes after every power failure.
THEOREM AuditPasses == Spec => []AuditAlwaysPasses
<1>1. ASSUME IInv,
             NEW i \in SUBSET (intents \ intentsDisk),
             NEW c \in SUBSET (completions \ completionsDisk)
      PROVE  AuditOK(intentsDisk \cup i, completionsDisk \cup c)
  <2> DEFINE is == intentsDisk \cup i
             cs == completionsDisk \cup c
  <2>1. is \subseteq intents /\ cs \subseteq completions
        /\ intentsDisk \subseteq is /\ completionsDisk \subseteq cs
    BY <1>1 DEF IInv, TypeOK
  <2> HIDE DEF is, cs
  <2>2. Ids(cs) \subseteq Ids(is)
    BY <1>1, <2>1 DEF IInv, ReceiptInv, Ids
  <2>3. Pending(is, cs) \subseteq Open
    BY <2>1 DEF Pending, Open, Ids
  <2>4. \A k, l \in is : (k.id = l.id => k = l) /\ (k # l => ~Conflicts(k, l))
    BY <1>1, <2>1 DEF IInv, ReceiptInv, Conflicts
  <2>5. QED
    BY <1>1, <2>1, <2>2, <2>3, <2>4 DEF IInv, ReceiptInv, AuditOK, is, cs
<1>2. IInv => AuditAlwaysPasses
  BY <1>1 DEF AuditAlwaysPasses
<1>3. QED
  BY <1>2, JournalInv, PTL

\* Recovery is never locked out by receipts of its own making.
THEOREM ReceiptsAreConsistent == Spec => []ReceiptsConsistent
<1>1. ReceiptsAlwaysMatch /\ AuditAlwaysPasses => ReceiptsConsistent
  BY DEF ReceiptsConsistent
<1>2. QED
  BY <1>1, ReceiptsMatchAlways, AuditPasses, PTL

\* The completion of a rollback or recovery binds exactly the durable log.
THEOREM CompletionChecks == Spec => []CompletionChecksPass
<1>1. IInv => CompletionChecksPass
  BY UptoAll DEF IInv, TypeOK, JobInv, JobPCs, CompletionChecksPass
<1>2. QED
  BY <1>1, JournalInv, PTL

\* The log is only shortened under a durable, uncompleted intent for exactly
\* the bytes removed.
THEOREM TruncationIsReceipted == Spec => ReceiptedTruncation
<1> DEFINE Cut == (holder # "none" /\ holder' = holder /\ Len(file') < Len(file)) =>
                     \E i \in intentsDisk :
                        /\ i.id \notin Ids(completions)
                        /\ i.good = Len(file')
                        /\ i.discarded = After(file, i.good)
<1>1. ASSUME IInv, [Next]_vars PROVE [Cut]_vars
  <2>1. CASE Truncate
    <3>1. /\ job \in intentsDisk /\ job.id \notin Ids(completions)
          /\ job \in Intent /\ job.good <= Len(file)
          /\ After(file, job.good) = job.discarded
      BY <1>1, <2>1 DEF IInv, TypeOK, JobInv, JobPCs, Truncate
    <3>2. Len(file') = job.good
      BY <1>1, <2>1, <3>1, UptoType DEF IInv, TypeOK, Truncate, Intent
    <3>3. QED
      BY <3>1, <3>2
  <2>2. CASE WriteUnit
    BY <1>1, <2>2 DEF IInv, TypeOK, WriteUnit
  <2>3. CASE PowerLoss
    BY <2>3 DEF PowerLoss, Release
  <2>4. CASE UNCHANGED vars
    BY <2>4
  <2>5. CASE UNCHANGED file
    BY <1>1, <2>5 DEF IInv, TypeOK
  <2>6. QED
    BY <1>1, <2>1, <2>2, <2>3, <2>4, <2>5 DEF Next, Step, OpenReader,
       CloseReader, OpenWriter, OpenRefused, CloseWriter, BeginAppend,
       CreateMarker, MarkerExists, WriteMarker, SyncMarker, SyncLog,
       RecordRollbackIntent, RollbackRefused, SyncIntent, SyncTruncation,
       LinkCompletion, SyncCompletion, UnlinkMarker, SyncUnlink, NoUnlink,
       ResumePending, SyncMarkedLog, ProposeRecovery, RecoveryRefused,
       OpenRecovery, FailMarker, FailWrite, FailCall, Crash, logVars
<1>2. QED
  BY <1>1, JournalInv, PTL DEF Spec, ReceiptedTruncation
-----------------------------------------------------------------------------
(***************************************************************************)
(* The receipt limit                                                       *)
(***************************************************************************)

\* Receipts that are lost make room; one more receipt takes the room of one.
LEMMA ReceiptRoom ==
    ASSUME IsFiniteSet(intents), IsFiniteSet(completions)
    PROVE  /\ Cardinality(intents) \in Nat /\ Cardinality(completions) \in Nat
           /\ \A n \in {1, 2} : Reserve(n) => Reserve(1)
           /\ \A is \in SUBSET intents, cs \in SUBSET completions :
                /\ IsFiniteSet(is) /\ IsFiniteSet(cs)
                /\ Cardinality(is) \in Nat /\ Cardinality(cs) \in Nat
                /\ Cardinality(is) + Cardinality(cs)
                      <= Cardinality(intents) + Cardinality(completions)
                /\ is # intents =>
                      Cardinality(is) + Cardinality(cs) + 1
                         <= Cardinality(intents) + Cardinality(completions)
           /\ \A i : /\ IsFiniteSet(intents \cup {i})
                     /\ Cardinality(intents \cup {i}) \in Nat
                     /\ Cardinality(intents \cup {i}) <= Cardinality(intents) + 1
<1>1. Cardinality(intents) \in Nat /\ Cardinality(completions) \in Nat
  BY FS_CardinalityType
<1>2. \A n \in {1, 2} : Reserve(n) => Reserve(1)
  BY <1>1, LimitAssumption DEF Reserve
<1>3. ASSUME NEW is \in SUBSET intents, NEW cs \in SUBSET completions
      PROVE  /\ IsFiniteSet(is) /\ IsFiniteSet(cs)
             /\ Cardinality(is) \in Nat /\ Cardinality(cs) \in Nat
             /\ Cardinality(is) + Cardinality(cs)
                   <= Cardinality(intents) + Cardinality(completions)
             /\ is # intents =>
                   Cardinality(is) + Cardinality(cs) + 1
                      <= Cardinality(intents) + Cardinality(completions)
  <2>1. /\ IsFiniteSet(is) /\ Cardinality(is) <= Cardinality(intents)
        /\ Cardinality(is) = Cardinality(intents) => is = intents
    BY FS_Subset
  <2>2. IsFiniteSet(cs) /\ Cardinality(cs) <= Cardinality(completions)
    BY FS_Subset
  <2>3. Cardinality(is) \in Nat /\ Cardinality(cs) \in Nat
    BY <2>1, <2>2, FS_CardinalityType
  <2>4. QED
    BY <1>1, <2>1, <2>2, <2>3
<1>4. ASSUME NEW i
      PROVE  /\ IsFiniteSet(intents \cup {i})
             /\ Cardinality(intents \cup {i}) \in Nat
             /\ Cardinality(intents \cup {i}) <= Cardinality(intents) + 1
  <2>1. /\ IsFiniteSet(intents \cup {i})
        /\ \/ Cardinality(intents \cup {i}) = Cardinality(intents)
           \/ Cardinality(intents \cup {i}) = Cardinality(intents) + 1
    BY FS_AddElement
  <2>2. QED
    BY <1>1, <2>1
<1>5. QED
  BY <1>1, <1>2, <1>3, <1>4

\* A step that leaves the receipts alone keeps the room, if the log it makes
\* shaky has its room already.
LEMMA SameReceipts ==
    ASSUME RoomInv, UNCHANGED <<intents, completions>>,
           pc' \in {"mark_create", "mark_write", "mark_sync", "write", "rollback"} => Reserve(2),
           pc' \in {"intent_sync", "truncate"} => Reserve(1),
           Shaky' => \/ Shaky \/ Reserve(2)
                     \/ Reserve(1) /\ Pending(intents, completions) # {}
    PROVE  RoomInv'
<1>1. Pending(intents, completions)' = Pending(intents, completions)
  BY DEF Pending, Ids
<1>2. Reserve(1)' = Reserve(1) /\ Reserve(2)' = Reserve(2)
  BY DEF Reserve
<1>3. Reserve(2) => Reserve(1)
  BY ReceiptRoom DEF RoomInv
<1>4. RoomToRecover'
  BY <1>1, <1>2, <1>3 DEF RoomToRecover, RoomInv, Shaky
<1>5. QED
  BY <1>2, <1>4 DEF RoomInv

\* A new intent uses one of the two places that were reserved.
LEMMA OneReceipt ==
    ASSUME IInv, RoomInv, Reserve(2), NEW i, i.id \notin Ids(completions),
           intents' = intents \cup {i}, UNCHANGED completions, pc' = "intent_sync"
    PROVE  RoomInv'
<1>1. Pending(intents', completions') # {}
  BY DEF Pending
<1>2. /\ IsFiniteSet(intents') /\ Cardinality(intents') \in Nat
      /\ Cardinality(intents') <= Cardinality(intents) + 1
      /\ Cardinality(intents) \in Nat /\ Cardinality(completions) \in Nat
  BY ReceiptRoom DEF RoomInv
<1>3. Reserve(1)'
  BY <1>2, LimitAssumption DEF Reserve
<1>4. QED
  BY <1>1, <1>2, <1>3 DEF RoomInv, RoomToRecover

\* Every step keeps the room that RoomToRecover needs.
LEMMA RoomStep ==
    ASSUME IInv, IInv', RoomInv, Next
    PROVE  RoomInv'
<1> USE DEF logVars, markerVars, receiptVars, lockVars, writerVars, historyVars
<1>1. ASSUME UNCHANGED <<logVars, intents, completions>>,
             pc' \notin {"mark_create", "write", "intent_sync", "truncate"},
             pc' \in {"mark_write", "mark_sync", "rollback"} =>
                pc \in {"mark_create", "mark_write", "mark_sync", "write", "rollback"}
      PROVE  RoomInv'
  <2>1. Shaky' = Shaky
    BY <1>1 DEF Shaky, Torn
  <2>2. QED
    BY <1>1, <2>1, SameReceipts DEF RoomInv
<1>2. ASSUME NEW r \in Reader, OpenReader(r) \/ CloseReader(r)
      PROVE  RoomInv'
  <2>1. UNCHANGED <<logVars, intents, completions, pc>>
    BY <1>2 DEF OpenReader, CloseReader, SyncReceiptDirs
  <2>2. Shaky' = Shaky
    BY <2>1 DEF Shaky, Torn
  <2>3. QED
    BY <2>1, <2>2, SameReceipts DEF RoomInv
<1>3. CASE OpenWriter \/ OpenRefused \/ CloseWriter \/ OpenRecovery
  <2>1. CASE OpenRefused
    <3>1. UNCHANGED <<logVars, intents, completions, pc>>
      BY <2>1 DEF OpenRefused, SyncReceiptDirs
    <3>2. Shaky' = Shaky
      BY <3>1 DEF Shaky, Torn
    <3>3. QED
      BY <3>1, <3>2, SameReceipts DEF RoomInv
  <2>2. QED
    BY <1>1, <1>3, <2>1 DEF OpenWriter, CloseWriter, OpenRecovery, SyncReceiptDirs, Release
<1>4. ASSUME NEW events \in Batches, BeginAppend(events)
      PROVE  RoomInv'
  <2>1. UNCHANGED <<logVars, intents, completions>> /\ pc' = "mark_create" /\ Reserve(2)
    BY <1>4 DEF BeginAppend, SyncReceiptDirs
  <2>2. Shaky' = Shaky
    BY <2>1 DEF Shaky, Torn
  <2>3. QED
    BY <2>1, <2>2, SameReceipts
<1>5. CASE CreateMarker \/ MarkerExists \/ WriteMarker \/ FailMarker \/ FailWrite
  BY <1>1, <1>5 DEF CreateMarker, MarkerExists, WriteMarker, FailMarker, FailWrite
<1>6. CASE SyncMarker
  <2>1. UNCHANGED <<logVars, intents, completions>> /\ pc' = "write" /\ Reserve(2)
    BY <1>6 DEF SyncMarker, RoomInv
  <2>2. Shaky' = Shaky
    BY <2>1 DEF Shaky, Torn
  <2>3. QED
    BY <2>1, <2>2, SameReceipts
<1>7. CASE WriteUnit
  <2>1. UNCHANGED <<intents, completions>> /\ pc' = "write" /\ Reserve(2)
    BY <1>7 DEF WriteUnit, RoomInv
  <2>2. QED
    BY <2>1, SameReceipts
<1>8. CASE SyncLog \/ SyncTruncation \/ SyncMarkedLog
  <2>1. UNCHANGED <<intents, completions>> /\ disk' = {file'}
        /\ pc' \in {"unlink", "complete_link", "marker_intent"}
    BY <1>8 DEF SyncLog, SyncTruncation, SyncMarkedLog
  <2>2. ~Torn(file')
    BY <2>1 DEF IInv, JobInv, Torn
  <2>3. ~Shaky'
    BY <2>1, <2>2 DEF Shaky, Torn
  <2>4. QED
    BY <2>1, <2>3, SameReceipts
<1>9. CASE RecordRollbackIntent
  <2>1. PICK id \in FreshNonce : LinkIntent(IntentAt(id, confirmed))
    BY <1>9 DEF RecordRollbackIntent
  <2> DEFINE i == IntentAt(id, confirmed)
  <2>2. /\ intents' = intents \cup {i} /\ UNCHANGED completions /\ pc' = "intent_sync"
        /\ i.id \notin Ids(completions)
    BY <2>1 DEF LinkIntent, IntentAt, FreshNonce
  <2>3. Reserve(2)
    BY <1>9 DEF RecordRollbackIntent, RoomInv
  <2> HIDE DEF i
  <2>4. QED
    BY <2>2, <2>3, OneReceipt
<1>10. CASE ProposeRecovery
  <2> DEFINE good == GoodOffset(file)
  <2>1. PICK id \in FreshNonce : LinkIntent(IntentAt(id, good))
    BY <1>10 DEF ProposeRecovery
  <2> DEFINE i == IntentAt(id, good)
  <2>2. /\ intents' = intents \cup {i} /\ UNCHANGED completions /\ pc' = "intent_sync"
        /\ i.id \notin Ids(completions)
    BY <2>1 DEF LinkIntent, IntentAt, FreshNonce
  <2>3. Reserve(2)
    BY <1>10 DEF ProposeRecovery, Proposable
  <2> HIDE DEF i
  <2>4. QED
    BY <2>2, <2>3, OneReceipt
<1>11. CASE RollbackRefused \/ RecoveryRefused \/ FailCall \/ Crash
  BY <1>1, <1>11 DEF RollbackRefused, RecoveryRefused, FailCall, Crash, Abort, Release
<1>12. CASE SyncIntent
  <2>1. /\ UNCHANGED <<logVars, intents, completions>> /\ pc' \in {"complete_link", "truncate"}
        /\ Reserve(1)
    BY <1>12 DEF SyncIntent, RoomInv
  <2>2. Shaky' = Shaky
    BY <2>1 DEF Shaky, Torn
  <2>3. QED
    BY <2>1, <2>2, SameReceipts
<1>13. CASE Truncate
  <2>1. UNCHANGED <<intents, completions>> /\ pc' = "trunc_sync" /\ Reserve(1)
    BY <1>13 DEF Truncate, RoomInv
  <2>2. Pending(intents, completions) # {}
    BY <1>13 DEF Truncate, IInv, JobInv, JobPCs, Pending
  <2>3. QED
    BY <2>1, <2>2, SameReceipts
<1>14. CASE LinkCompletion
  <2>1. /\ UNCHANGED <<logVars, intents>> /\ pc' = "complete_sync"
        /\ completions' = completions \cup {[id |-> job.id, post |-> Upto(file, job.good)]}
    BY <1>14 DEF LinkCompletion
  <2>2. ~Shaky'
    BY <2>1 DEF IInv, JobInv, Shaky
  <2>3. IsFiniteSet(completions')
    BY <2>1, FS_AddElement DEF RoomInv
  <2>4. QED
    BY <2>1, <2>2, <2>3 DEF RoomInv, RoomToRecover, Shaky
<1>15. CASE SyncCompletion \/ UnlinkMarker \/ SyncUnlink \/ NoUnlink
  BY <1>1, <1>15 DEF SyncCompletion, UnlinkMarker, SyncUnlink, NoUnlink, Release
<1>16. CASE ResumePending
  <2>1. UNCHANGED <<logVars, intents, completions>> /\ pc' \in {"truncate", "trunc_sync"}
        /\ Reserve(1)
    BY <1>16 DEF ResumePending, Resumable
  <2>2. Shaky' = Shaky
    BY <2>1 DEF Shaky, Torn
  <2>3. QED
    BY <2>1, <2>2, SameReceipts
<1>17. CASE PowerLoss
  <2>1. /\ intents' \in SUBSET intents /\ completions' \in SUBSET completions
        /\ file' \in disk /\ disk' = {file'} /\ pc' = "idle"
    BY <1>17 DEF PowerLoss, Release, IInv, TypeOK
  <2>2. /\ IsFiniteSet(intents') /\ IsFiniteSet(completions')
        /\ Cardinality(intents') \in Nat /\ Cardinality(completions') \in Nat
        /\ Cardinality(intents) \in Nat /\ Cardinality(completions) \in Nat
        /\ Cardinality(intents') + Cardinality(completions')
              <= Cardinality(intents) + Cardinality(completions)
        /\ intents' # intents =>
              Cardinality(intents') + Cardinality(completions') + 1
                 <= Cardinality(intents) + Cardinality(completions)
    BY <2>1, ReceiptRoom DEF RoomInv
  <2>3. Shaky' => Shaky
    BY <2>1 DEF Shaky, Torn
  <2>4. ASSUME Shaky', Pending(intents, completions) = {}
        PROVE  Reserve(2)' /\ Reserve(1)'
    <3>1. Reserve(2)
      BY <2>3, <2>4 DEF RoomInv, RoomToRecover, Shaky
    <3>2. QED
      BY <2>2, <3>1, LimitAssumption DEF Reserve
  <2>5. ASSUME Shaky', Pending(intents, completions) # {}
        PROVE  Reserve(1)' /\ (Pending(intents, completions)' = {} => Reserve(2)')
    <3>1. Reserve(1)
      BY <2>3, <2>5 DEF RoomInv, RoomToRecover, Shaky
    <3>2. Pending(intents, completions)' = {} => intents' # intents
      BY <2>1, <2>5 DEF Pending, Ids
    <3>3. QED
      BY <2>2, <3>1, <3>2, LimitAssumption DEF Reserve
  <2>6. RoomToRecover'
    BY <2>4, <2>5 DEF RoomToRecover, Shaky
  <2>7. QED
    BY <2>1, <2>2, <2>6 DEF RoomInv
<1>18. QED
  BY <1>2, <1>3, <1>4, <1>5, <1>6, <1>7, <1>8, <1>9, <1>10, <1>11, <1>12, <1>13,
     <1>14, <1>15, <1>16, <1>17 DEF Next, Step

\* However appends, rollbacks, recoveries and power failures interleave, a
\* journal that needs a recovery has the room for its receipts.
THEOREM AlwaysRoomToRecover == Spec => []RoomToRecover
<1>1. Init => RoomInv
  <2> SUFFICES ASSUME Init PROVE RoomInv
    OBVIOUS
  <2>1. ~Torn(file) /\ disk = {file}
    BY InitInv DEF Init, IInv, UngatedLogDurable
  <2>2. QED
    BY <2>1, FS_EmptySet DEF Init, RoomInv, RoomToRecover
<1>2. IInv /\ IInv' /\ RoomInv /\ [Next]_vars => RoomInv'
  <2> SUFFICES ASSUME IInv, IInv', RoomInv, [Next]_vars PROVE RoomInv'
    OBVIOUS
  <2>1. CASE UNCHANGED vars
    <3>1. UNCHANGED <<file, disk, intents, completions, pc>>
      BY <2>1 DEF vars, logVars, receiptVars
    <3>2. Shaky' = Shaky
      BY <3>1 DEF Shaky, Torn
    <3>3. QED
      BY <3>1, <3>2, SameReceipts DEF RoomInv
  <2>2. QED
    BY <2>1, RoomStep
<1>3. RoomInv => RoomToRecover
  BY DEF RoomInv
<1>4. QED
  BY <1>1, <1>2, <1>3, JournalInv, PTL DEF Spec

=============================================================================
