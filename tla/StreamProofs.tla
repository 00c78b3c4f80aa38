---------------------------- MODULE StreamProofs ----------------------------
(***************************************************************************)
(* The journal implements the abstract event stream, for every value of    *)
(* the constants.                                                          *)
(***************************************************************************)
EXTENDS JournalProofs

-----------------------------------------------------------------------------
(***************************************************************************)
(* Events of a file                                                        *)
(***************************************************************************)

\* A file has an event for every two units.
LEMMA EventsType ==
    ASSUME NEW f \in Seq(Unit)
    PROVE  /\ EventsOf(f) \in Seq(Unit)
           /\ Len(EventsOf(f)) = Len(f) \div 2
           /\ \A k \in 1 .. Len(f) \div 2 : EventsOf(f)[k] = f[2 * k - 1]
<1>1. Len(f) \div 2 \in Nat
  OBVIOUS
<1>2. \A k \in 1 .. Len(f) \div 2 : 2 * k - 1 \in 1 .. Len(f)
  OBVIOUS
<1>3. EventsOf(f) \in [1 .. Len(f) \div 2 -> Unit]
  BY <1>2 DEF EventsOf
<1>4. QED
  BY <1>1, <1>3 DEF EventsOf

\* A longer file has the events of its prefixes.
LEMMA EventsOfPrefix ==
    ASSUME NEW f \in Seq(Unit), NEW g \in Seq(Unit), Prefix(f, g)
    PROVE  Stream!Extends(EventsOf(g), EventsOf(f))
<1>1. Len(f) \div 2 <= Len(g) \div 2
  BY DEF Prefix
<1>2. ASSUME NEW k \in 1 .. Len(f) \div 2
      PROVE  EventsOf(g)[k] = EventsOf(f)[k]
  <2>1. k \in 1 .. Len(g) \div 2 /\ 2 * k - 1 \in 1 .. Len(f)
    BY <1>1
  <2>2. f[2 * k - 1] = g[2 * k - 1]
    BY <2>1 DEF Prefix
  <2>3. QED
    BY <2>1, <2>2, EventsType
<1>3. QED
  BY <1>1, <1>2, EventsType DEF Stream!Extends

\* The unit that completes a line adds an event, any other adds none.
LEMMA EventsOfAppend ==
    ASSUME NEW f \in Seq(Unit), NEW u \in Unit
    PROVE  /\ Len(f) % 2 = 1 =>
                Len(EventsOf(Append(f, u))) = Len(EventsOf(f)) + 1
           /\ Len(f) % 2 = 0 => EventsOf(Append(f, u)) = EventsOf(f)
<1> DEFINE g == Append(f, u)
<1>1. g \in Seq(Unit) /\ Len(g) = Len(f) + 1 /\ \A i \in 1 .. Len(f) : g[i] = f[i]
  OBVIOUS
<1> HIDE DEF g
<1>2. Len(f) % 2 = 1 => Len(g) \div 2 = Len(f) \div 2 + 1
  BY <1>1
<1>3. Len(f) % 2 = 0 => Len(g) \div 2 = Len(f) \div 2
  BY <1>1
<1>4. \A k \in 1 .. Len(f) \div 2 : g[2 * k - 1] = f[2 * k - 1]
  BY <1>1
<1>5. Len(f) % 2 = 0 => EventsOf(g) = EventsOf(f)
  BY <1>3, <1>4 DEF EventsOf
<1>6. QED
  BY <1>1, <1>2, <1>5, EventsType DEF g

\* What is reported is a prefix of every log that the medium may hold.
LEMMA ReportedPrefix ==
    ASSUME IInv
    PROVE  /\ Reported \in Seq(Unit)
           /\ \A d \in disk : Prefix(Reported, d)
BY DEF IInv, TypeOK, StableInv, Stables, Reported

\* Steps that leave the log and the reports alone do not change the stream.
LEMMA StreamStutter ==
    ASSUME UNCHANGED <<logVars, historyVars>>
    PROVE  UNCHANGED Stream!streamVars
BY DEF logVars, historyVars, Stream!streamVars, Reported

-----------------------------------------------------------------------------
(***************************************************************************)
(* One lemma for each step that changes the stream                         *)
(***************************************************************************)

\* A reader reports the log, which the marker gate knows to be durable.
LEMMA OpenReaderReports ==
    ASSUME NEW r \in Reader, IInv, OpenReader(r) PROVE Stream!Report
<1>1. disk = {file} /\ file \in Seq(Unit) /\ acked \in Seq(Unit) /\ Prefix(acked, file)
  BY DEF IInv, TypeOK, UngatedLogDurable, OpenReader, StableInv, Stables
<1>2. seen' = file /\ UNCHANGED <<file, disk, acked>>
  BY DEF OpenReader, logVars
<1>3. Reported' = file
  <2>1. Len(acked) >= Len(file) => acked = file
    BY <1>1 DEF Prefix
  <2>2. QED
    BY <1>2, <2>1 DEF Reported
<1>4. QED
  BY <1>1, <1>2, <1>3 DEF Stream!Report

\* A unit of the batch: the newline adds the event.
LEMMA WriteUnitWrites ==
    ASSUME IInv, WriteUnit PROVE Stream!Write \/ UNCHANGED Stream!streamVars
<1> DEFINE u == Head(batch)
<1>1. file \in Seq(Unit) /\ file \in disk /\ u \in Unit
  BY DEF IInv, TypeOK, WriteUnit
<1>2. file' = Append(file, u) /\ disk' = disk \cup {file'} /\ UNCHANGED <<acked, seen>>
  BY DEF WriteUnit, historyVars
<1> HIDE DEF u
<1>3. Prefix(file, file') /\ file' \in Seq(Unit)
  BY <1>1, <1>2 DEF Prefix
<1>4. Stream!Extends(EventsOf(file'), EventsOf(file))
  BY <1>1, <1>3, EventsOfPrefix
<1>5. {EventsOf(d) : d \in disk'} = {EventsOf(d) : d \in disk} \cup {EventsOf(file')}
  BY <1>2
<1>6. Reported' = Reported
  BY <1>2 DEF Reported
<1>7. Len(file) % 2 = 0 \/ Len(file) % 2 = 1
  BY <1>1
<1>8. CASE Len(file) % 2 = 1
  BY <1>1, <1>2, <1>4, <1>5, <1>6, <1>8, EventsOfAppend DEF Stream!Write
<1>9. CASE Len(file) % 2 = 0
  <2>1. EventsOf(file') = EventsOf(file)
    BY <1>1, <1>2, <1>9, EventsOfAppend
  <2>2. EventsOf(file) \in {EventsOf(d) : d \in disk}
    BY <1>1
  <2>3. {EventsOf(d) : d \in disk'} = {EventsOf(d) : d \in disk}
    BY <1>5, <2>1, <2>2
  <2>4. QED
    BY <1>6, <2>1, <2>3 DEF Stream!streamVars
<1>10. QED
  BY <1>7, <1>8, <1>9

\* A sync of the log settles the stream.
LEMMA SyncSettles ==
    ASSUME disk' = {file}, UNCHANGED <<file, acked, seen>> PROVE Stream!Settle
BY DEF Stream!Settle, Reported

\* A truncation discards events that nobody was told of.
LEMMA TruncateDiscards ==
    ASSUME IInv, Truncate PROVE Stream!Discard
<1>1. /\ file \in Seq(Unit) /\ file \in disk
      /\ job \in intents /\ job.good <= Len(file) /\ job.good \in Nat
      /\ job.id \notin Ids(completionsDisk)
  <2>1. job \in intents /\ job.good <= Len(file) /\ job.id \notin Ids(completions)
    BY DEF IInv, JobInv, JobPCs, Truncate
  <2>2. job \in Intent /\ completionsDisk \subseteq completions
    BY <2>1 DEF IInv, TypeOK
  <2>3. job.good \in Nat
    BY <2>2 DEF Intent
  <2>4. job.id \notin Ids(completionsDisk)
    BY <2>1, <2>2 DEF Ids
  <2>5. QED
    BY <2>1, <2>3, <2>4 DEF IInv, TypeOK
<1>2. job \in Open
  BY <1>1 DEF Open
<1>3. file' = Upto(file, job.good) /\ disk' = disk \cup {file'} /\ UNCHANGED <<acked, seen>>
  BY DEF Truncate, historyVars
<1>4. /\ file' \in Seq(Unit) /\ Len(file') = job.good
      /\ \A i \in 1 .. job.good : file'[i] = file[i]
  BY <1>1, <1>3, UptoType
<1>5. Prefix(file', file)
  BY <1>1, <1>4 DEF Prefix
<1>6. Reported \in Stables /\ Reported \in Seq(Unit) /\ Prefix(Reported, file)
  BY <1>1, ReportedPrefix DEF Reported, Stables
<1>7. Len(Reported) <= job.good
  BY <1>2, <1>6 DEF IInv, StableInv
<1>8. Prefix(Reported, file')
  BY <1>1, <1>4, <1>6, <1>7 DEF Prefix
<1>9. /\ Stream!Extends(EventsOf(file), EventsOf(file'))
      /\ Stream!Extends(EventsOf(file'), EventsOf(Reported))
  BY <1>1, <1>4, <1>5, <1>6, <1>8, EventsOfPrefix
<1>10. {EventsOf(d) : d \in disk'} = {EventsOf(d) : d \in disk} \cup {EventsOf(file')}
  BY <1>3
<1>11. Reported' = Reported
  BY <1>3 DEF Reported
<1>12. QED
  BY <1>9, <1>10, <1>11 DEF Stream!Discard

\* An append that was not rolled back reports its events.
LEMMA SyncUnlinkReports ==
    ASSUME IInv, SyncUnlink PROVE Stream!Report \/ UNCHANGED Stream!streamVars
<1>1. disk = {file} /\ file \in Seq(Unit) /\ seen \in Seq(Unit) /\ Prefix(seen, file)
  BY DEF IInv, TypeOK, JobInv, SyncUnlink, StableInv, Stables
<1>2. UNCHANGED <<file, disk, seen>>
  BY DEF SyncUnlink, logVars
<1>3. CASE acked' = acked
  BY <1>2, <1>3 DEF Reported, Stream!streamVars
<1>4. CASE acked' # acked
  <2>1. acked' = Upto(file, confirmed) /\ Len(file) = confirmed
    BY <1>4 DEF SyncUnlink, IInv, JobInv
  <2>2. acked' = file
    BY <1>1, <2>1, UptoAll
  <2>3. Reported' = file
    BY <1>1, <1>2, <2>2 DEF Reported, Prefix
  <2>4. QED
    BY <1>1, <1>2, <2>3 DEF Stream!Report
<1>5. QED
  BY <1>3, <1>4

\* A power failure leaves one of the possible logs.
LEMMA PowerLossLoses ==
    ASSUME PowerLoss PROVE Stream!Lose
<1>1. PICK f \in disk : file' = f /\ disk' = {f}
  BY DEF PowerLoss
<1>2. UNCHANGED <<acked, seen>>
  BY DEF PowerLoss, historyVars
<1>3. EventsOf(file') \in {EventsOf(d) : d \in disk}
  BY <1>1
<1>4. {EventsOf(d) : d \in disk'} = {EventsOf(file')}
  BY <1>1
<1>5. Reported' = Reported
  BY <1>2 DEF Reported
<1>6. QED
  BY <1>3, <1>4, <1>5 DEF Stream!Lose

-----------------------------------------------------------------------------
\* Every step of the journal is a step of the stream or leaves it unchanged.
LEMMA StepImplements ==
    ASSUME IInv, [Next]_vars PROVE [Stream!StreamNext]_Stream!streamVars
<1> USE DEF Stream!StreamNext
<1>1. CASE \E r \in Reader : OpenReader(r)
  BY <1>1, OpenReaderReports
<1>2. CASE WriteUnit
  BY <1>2, WriteUnitWrites
<1>3. CASE SyncLog \/ SyncTruncation \/ SyncMarkedLog
  BY <1>3, SyncSettles DEF SyncLog, SyncTruncation, SyncMarkedLog, historyVars
<1>4. CASE Truncate
  BY <1>4, TruncateDiscards
<1>5. CASE SyncUnlink
  BY <1>5, SyncUnlinkReports
<1>6. CASE PowerLoss
  BY <1>6, PowerLossLoses
<1>7. CASE UNCHANGED <<logVars, historyVars>>
  BY <1>7, StreamStutter
<1>8. CASE UNCHANGED vars
  BY <1>7, <1>8 DEF vars
<1>9. CASE \E r \in Reader : CloseReader(r)
  BY <1>7, <1>9 DEF CloseReader
<1>10. CASE OpenWriter \/ OpenRefused \/ CloseWriter \/ OpenRecovery
  BY <1>7, <1>10 DEF OpenWriter, OpenRefused, CloseWriter, OpenRecovery
<1>11. CASE \E events \in Batches : BeginAppend(events)
  BY <1>7, <1>11 DEF BeginAppend
<1>12. CASE CreateMarker \/ MarkerExists \/ WriteMarker \/ SyncMarker
  BY <1>7, <1>12 DEF CreateMarker, MarkerExists, WriteMarker, SyncMarker
<1>13. CASE RecordRollbackIntent \/ RollbackRefused \/ SyncIntent
  BY <1>7, <1>13 DEF RecordRollbackIntent, RollbackRefused, SyncIntent
<1>14. CASE LinkCompletion \/ SyncCompletion \/ UnlinkMarker \/ NoUnlink
  BY <1>7, <1>14 DEF LinkCompletion, SyncCompletion, UnlinkMarker, NoUnlink
<1>15. CASE ResumePending \/ ProposeRecovery \/ RecoveryRefused
  BY <1>7, <1>15 DEF ResumePending, ProposeRecovery, RecoveryRefused
<1>16. CASE FailMarker \/ FailWrite \/ FailCall \/ Crash
  BY <1>7, <1>16 DEF FailMarker, FailWrite, FailCall, Crash
<1>17. QED
  BY <1>1, <1>2, <1>3, <1>4, <1>5, <1>6, <1>8, <1>9, <1>10, <1>11, <1>12, <1>13,
     <1>14, <1>15, <1>16 DEF Next, Step

\* A freshly initialized journal is a fresh stream.
LEMMA InitImplements == Init => Stream!StreamInit
<1> SUFFICES ASSUME Init PROVE Stream!StreamInit
  OBVIOUS
<1> DEFINE g == Lines(<<Genesis>>)
<1>1. <<Genesis>> \in Seq(Event) /\ Len(<<Genesis>>) = 1
  BY GenesisAssumption
<1>2. g \in Seq(Unit) /\ Len(g) = 2 /\ g[1] = Genesis
  <2>1. g \in Seq(Unit) /\ Len(g) = 2
    <3>1. g \in Seq(Unit) /\ Len(g) = 2 * Len(<<Genesis>>)
      <4> HIDE DEF g
      <4> QED
        BY <1>1, LinesType DEF g
    <3> HIDE DEF g
    <3>2. QED
      BY <1>1, <3>1
  <2>2. g[1] = Genesis
    BY <1>1 DEF Lines
  <2>3. QED
    BY <2>1, <2>2
<1> HIDE DEF g
<1>3. EventsOf(g) = <<Genesis>>
  <2> DEFINE n == Len(g) \div 2
  <2>0. n = 1
    BY <1>2
  <2>1. /\ EventsOf(g) \in Seq(Unit) /\ Len(EventsOf(g)) = n
        /\ \A k \in 1 .. n : EventsOf(g)[k] = g[2 * k - 1]
    BY <1>2, EventsType
  <2> HIDE DEF n
  <2>2. EventsOf(g)[1] = Genesis
    BY <1>2, <2>0, <2>1
  <2>3. QED
    BY <2>0, <2>1, <2>2
<1>4. file = g /\ disk = {g} /\ acked = g /\ seen = <<>>
  BY DEF Init, g
<1>5. Reported = g
  BY <1>2, <1>4 DEF Reported
<1>6. QED
  BY <1>3, <1>4, <1>5 DEF Stream!StreamInit

\* The journal implements the event stream: whatever faults happen, reported
\* events are never lost, reordered or rewritten, and an event is reported
\* only once it cannot be lost (append_batch, reader, recover).
THEOREM JournalImplementsStream == Spec => ImplementsStream
<1>1. IInv /\ [Next]_vars => [Stream!StreamNext]_Stream!streamVars
  BY StepImplements
<1>2. QED
  BY <1>1, InitImplements, JournalInv, PTL DEF Spec, ImplementsStream, Stream!StreamSpec

=============================================================================
