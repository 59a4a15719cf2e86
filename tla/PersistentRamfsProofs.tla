------------------------- MODULE PersistentRamfsProofs -------------------------
(***************************************************************************)
(* Proofs about PersistentRamfs for every disk size, sequence width, name  *)
(* and content, whatever the disk does wrong: the journal invariant, then  *)
(* that the sector protocol implements DurableLog and that a torn log is   *)
(* left alone, then that every replay applies and that the file table is   *)
(* the replay of what was acknowledged.                                    *)
(***************************************************************************)
EXTENDS PersistentRamfs, TLAPS, WellFoundedInduction

----------------------------------------------------------------------------
(* Facts about scans. *)

(* scan_log has one answer. *)
LEMMA ScanUnique ==
  ASSUME NEW l \in [Slots -> Sector],
         NEW n \in 0..DataSectors, IsScan(l, n),
         NEW m \in 0..DataSectors, IsScan(l, m)
  PROVE  n = m
<1>1. ASSUME NEW a \in 0..DataSectors, NEW b \in 0..DataSectors,
             IsScan(l, a), IsScan(l, b), a < b
      PROVE  FALSE
  <2>1. l[a].state = "committed"
    BY <1>1, JournalConstants DEF IsScan
  <2>2. l[a].state \in {"empty", "prepared"}
    BY <1>1, JournalConstants DEF IsScan
  <2> QED BY <2>1, <2>2, Zenon
<1> QED BY <1>1, JournalConstants

LEMMA CountIsScan ==
  ASSUME NEW l \in [Slots -> Sector], ScanOk(l)
  PROVE  RecordCount(l) \in 0..DataSectors /\ IsScan(l, RecordCount(l))
BY Zenon DEF ScanOk, RecordCount

LEMMA CountOf ==
  ASSUME NEW l \in [Slots -> Sector], NEW n \in 0..DataSectors, IsScan(l, n)
  PROVE  ScanOk(l) /\ RecordCount(l) = n
<1>1. ScanOk(l)
  BY Zenon DEF ScanOk
<1>2. RecordCount(l) \in 0..DataSectors /\ IsScan(l, RecordCount(l))
  BY <1>1, CountIsScan, Zenon
<1> QED BY <1>1, <1>2, ScanUnique, Zenon

(* The sequence number a scan has reached is a number, and so is each      *)
(* committed entry an entry.                                               *)
LEMMA ScannedEntries ==
  ASSUME NEW l \in [Slots -> Sector], NEW n \in 0..DataSectors, IsScan(l, n)
  PROVE  /\ \A i \in 0..n - 1 : l[i].entry \in Entry
         /\ SequenceBefore(l, n) \in 0..MaxSequence
         /\ CommittedEntries(l) = [i \in 1..n |-> l[i - 1].entry]
         /\ CommittedEntries(l) \in Seq(Entry)
         /\ Len(CommittedEntries(l)) = n
<1>1. ASSUME NEW i \in 0..n - 1 PROVE l[i].entry \in Entry
  <2>1. i \in Slots /\ l[i].state = "committed"
    BY JournalConstants DEF IsScan, Slots
  <2> QED BY <2>1 DEF Sector, EmptySector, TornSector
<1>2. SequenceBefore(l, n) \in 0..MaxSequence
  <2>1. CASE n = 0
    BY <2>1, JournalConstants DEF SequenceBefore
  <2>2. CASE n # 0
    <3>1. l[n - 1].entry \in Entry
      BY <2>2, <1>1, JournalConstants
    <3> QED BY <2>2, <3>1, JournalConstants DEF SequenceBefore, Entry
  <2> QED BY <2>1, <2>2, Zenon
<1>3. CommittedEntries(l) = [i \in 1..n |-> l[i - 1].entry]
  BY CountOf, Zenon DEF CommittedEntries
<1>4. \A i \in 1..n : l[i - 1].entry \in Entry
  BY <1>1, JournalConstants
<1>5. CommittedEntries(l) \in Seq(Entry) /\ Len(CommittedEntries(l)) = n
  BY <1>3, <1>4, JournalConstants
<1> QED BY <1>1, <1>2, <1>3, <1>5, Zenon

(* The log m differs from l at most in slot n. *)
DiffersAt(l, m, n) == \A i \in Slots : i # n => m[i] = l[i]

LEMMA SameSequences ==
  ASSUME NEW l \in [Slots -> Sector], NEW m \in [Slots -> Sector], NEW n \in Slots,
         DiffersAt(l, m, n)
  PROVE  /\ \A i \in 0..n : SequenceBefore(m, i) = SequenceBefore(l, i)
         /\ \A i \in 1..n : m[i - 1] = l[i - 1]
<1>1. \A i \in 0..n : i # 0 => i - 1 \in Slots /\ i - 1 # n
  BY JournalConstants DEF Slots
<1>2. \A i \in 0..n : SequenceBefore(m, i) = SequenceBefore(l, i)
  BY <1>1, Zenon DEF SequenceBefore, DiffersAt
<1>3. \A i \in 1..n : i \in 0..n /\ i # 0
  BY JournalConstants DEF Slots
<1> QED BY <1>1, <1>2, <1>3, Zenon DEF DiffersAt

(* Rewriting the slot after the committed records with a prepared record   *)
(* that is newer, or leaving it, changes nothing a replay would see.       *)
LEMMA PrepareKeepsScan ==
  ASSUME NEW l \in [Slots -> Sector], NEW m \in [Slots -> Sector], NEW n \in Slots,
         IsScan(l, n), DiffersAt(l, m, n),
         \/ m[n] = l[n]
         \/ /\ m[n].state = "prepared"
            /\ SequenceIsNewer(m[n].entry.sequence, SequenceBefore(l, n))
  PROVE  /\ IsScan(m, n)
         /\ SequenceBefore(m, n) = SequenceBefore(l, n)
         /\ CommittedEntries(m) = CommittedEntries(l)
<1>0. n \in 0..DataSectors /\ n < DataSectors /\ n \in 0..n
  BY JournalConstants DEF Slots
<1>1. \A i \in 0..n : SequenceBefore(m, i) = SequenceBefore(l, i)
  BY SameSequences, Zenon
<1>2. \/ m[n].state = "empty"
      \/ /\ m[n].state = "prepared"
         /\ SequenceIsNewer(m[n].entry.sequence, SequenceBefore(m, n))
  BY <1>0, <1>1, Zenon DEF IsScan
<1>3. \A i \in 0..n - 1 :
        /\ m[i].state = "committed"
        /\ SequenceIsNewer(m[i].entry.sequence, SequenceBefore(m, i))
  <2>1. \A i \in 0..n - 1 : i \in Slots /\ i # n /\ i \in 0..n
    BY JournalConstants DEF Slots
  <2> QED BY <1>1, <2>1, Zenon DEF IsScan, DiffersAt
<1>4. \A i \in n + 1..DataSectors - 1 : m[i].state = "empty"
  <2>1. \A i \in n + 1..DataSectors - 1 : i \in Slots /\ i # n
    BY JournalConstants DEF Slots
  <2> QED BY <2>1, Zenon DEF IsScan, DiffersAt
<1>5. IsScan(m, n)
  BY <1>2, <1>3, <1>4, Zenon DEF IsScan
<1>6. CommittedEntries(m) = CommittedEntries(l)
  <2>1. /\ CommittedEntries(m) = [i \in 1..n |-> m[i - 1].entry]
        /\ CommittedEntries(l) = [i \in 1..n |-> l[i - 1].entry]
    BY <1>0, <1>5, ScannedEntries, Zenon
  <2>2. \A i \in 1..n : m[i - 1] = l[i - 1]
    BY SameSequences, Zenon
  <2> QED BY <2>1, <2>2, Zenon
<1> QED BY <1>0, <1>1, <1>5, <1>6, Zenon

(* Committing a newer record there appends it to what a replay sees. *)
LEMMA CommitAppends ==
  ASSUME NEW l \in [Slots -> Sector], NEW m \in [Slots -> Sector], NEW n \in Slots,
         IsScan(l, n), DiffersAt(l, m, n),
         m[n].state = "committed",
         SequenceIsNewer(m[n].entry.sequence, SequenceBefore(l, n))
  PROVE  /\ n + 1 \in 0..DataSectors
         /\ IsScan(m, n + 1)
         /\ SequenceBefore(m, n + 1) = m[n].entry.sequence
         /\ CommittedEntries(m) = Append(CommittedEntries(l), m[n].entry)
<1>0. /\ n \in 0..DataSectors /\ n + 1 \in 0..DataSectors /\ n < DataSectors
      /\ n \in Nat /\ n \in 0..n /\ (n + 1) - 1 = n /\ n + 1 # 0
  BY JournalConstants DEF Slots
<1>1. \A i \in 0..n : SequenceBefore(m, i) = SequenceBefore(l, i)
  BY SameSequences, Zenon
<1>2. \A i \in 0..n : /\ m[i].state = "committed"
                      /\ SequenceIsNewer(m[i].entry.sequence, SequenceBefore(m, i))
  <2>1. \A i \in 0..n : i # n => i \in 0..n - 1 /\ i \in Slots
    BY JournalConstants DEF Slots
  <2> QED BY <1>0, <1>1, <2>1, Zenon DEF IsScan, DiffersAt
<1>3. \A i \in n + 1..DataSectors - 1 : m[i].state = "empty"
  <2>1. \A i \in n + 1..DataSectors - 1 : i \in Slots /\ i # n
    BY JournalConstants DEF Slots
  <2> QED BY <2>1, Zenon DEF IsScan, DiffersAt
<1>4. IsScan(m, n + 1)
  <2>1. \A i \in (n + 1) + 1..DataSectors - 1 : i \in n + 1..DataSectors - 1
    BY <1>0, JournalConstants
  <2>2. n + 1 < DataSectors => n + 1 \in n + 1..DataSectors - 1
    BY <1>0, JournalConstants
  <2> QED BY <1>0, <1>2, <1>3, <2>1, <2>2, Zenon DEF IsScan
<1>5. SequenceBefore(m, n + 1) = m[n].entry.sequence
  BY <1>0, Zenon DEF SequenceBefore
<1>6. CommittedEntries(m) = Append(CommittedEntries(l), m[n].entry)
  <2>1. /\ CommittedEntries(m) = [i \in 1..n + 1 |-> m[i - 1].entry]
        /\ CommittedEntries(l) = [i \in 1..n |-> l[i - 1].entry]
        /\ CommittedEntries(l) \in Seq(Entry) /\ Len(CommittedEntries(l)) = n
    BY <1>0, <1>4, ScannedEntries, Zenon
  <2>2. \A i \in 1..n : m[i - 1] = l[i - 1]
    BY SameSequences, Zenon
  <2> QED BY <2>1, <2>2, <1>0
<1> QED BY <1>0, <1>4, <1>5, <1>6, Zenon

----------------------------------------------------------------------------
(* The invariant holds initially. *)

LEMMA EmptyLogScans ==
  ASSUME NEW l \in [Slots -> Sector], \A i \in Slots : l[i].state = "empty"
  PROVE  ScanOk(l) /\ CommittedEntries(l) = <<>>
<1>1. 0 \in Slots /\ 0 \in 0..DataSectors /\ 0 < DataSectors
  BY JournalConstants DEF Slots
<1>2. \A i \in 0 + 1..DataSectors - 1 : i \in Slots
  BY JournalConstants DEF Slots
<1>3. IsScan(l, 0)
  BY <1>1, <1>2 DEF IsScan
<1>4. ScanOk(l) /\ RecordCount(l) = 0
  BY <1>1, <1>3, CountOf, Zenon
<1>5. CommittedEntries(l) \in Seq(Entry) /\ Len(CommittedEntries(l)) = 0
  BY <1>1, <1>3, ScannedEntries, Zenon
<1> QED BY <1>4, <1>5

LEMMA EmptyLogIsEmpty ==
  EmptyLog \in [Slots -> Sector] /\ \A i \in Slots : EmptyLog[i].state = "empty"
BY Zenon DEF EmptyLog, Sector, EmptySector

LEMMA SeededLogScans ==
  ASSUME NEW s \in 1..MaxSequence, NEW n \in ValidNames, NEW l, l = SeededLog(s, n)
  PROVE  /\ l \in [Slots -> Sector] /\ ScanOk(l)
         /\ CommittedEntries(l) \in Seq(Entry) /\ Len(CommittedEntries(l)) = 1
<1> DEFINE e == EntryFor("write", s, n, Default)
<1>3. e \in Entry
  BY RamfsConstants, Zenon DEF EntryFor, Entry
<1> HIDE DEF e
<1>2a. l = [EmptyLog EXCEPT ![0] = Encode(e, TRUE)]
  BY Zenon DEF SeededLog, e
<1>4. 0 \in Slots /\ 0 \in 0..DataSectors /\ 1 \in 0..DataSectors
  BY JournalConstants DEF Slots
<1>5. l \in [Slots -> Sector]
  <2>1. Encode(e, TRUE) \in Sector
    BY <1>3, Zenon DEF Encode, Sector
  <2> QED BY <1>2a, <2>1, EmptyLogIsEmpty, Zenon
<1>6. \A i \in Slots : i # 0 => l[i].state = "empty"
  BY <1>2a, EmptyLogIsEmpty, Zenon
<1>7. l[0] = [state |-> "committed", entry |-> e]
  BY <1>2a, <1>4, EmptyLogIsEmpty, Zenon DEF Encode
<1>8. SequenceIsNewer(l[0].entry.sequence, 0)
  BY <1>3, <1>7, JournalConstants DEF Entry, SequenceIsNewer
<1>9. IsScan(l, 1)
  <2>1. \A i \in 0..1 - 1 : i = 0
    OBVIOUS
  <2>2. \A i \in 1 + 1..DataSectors - 1 : i \in Slots /\ i # 0
    BY JournalConstants DEF Slots
  <2>3. 1 < DataSectors => 1 \in Slots
    BY JournalConstants DEF Slots
  <2> QED BY <1>6, <1>7, <1>8, <2>1, <2>2, <2>3 DEF IsScan, SequenceBefore
<1> QED BY <1>4, <1>5, <1>9, CountOf, ScannedEntries, Zenon

LEMMA InitInv == Init => JournalInv
<1> SUFFICES ASSUME Init PROVE JournalInv
  BY Zenon
<1>1. EmptyLog \in [Slots -> Sector] /\ ScanOk(EmptyLog) /\ CommittedEntries(EmptyLog) = <<>>
  BY EmptyLogIsEmpty, EmptyLogScans, Zenon
<1>2. log \in [Slots -> Sector]
  <2>1. UsedTail \in [Slots -> Sector]
    BY EmptyLogIsEmpty, Zenon DEF UsedTail, Sector
  <2> QED BY <1>1, <2>1, SeededLogScans, Zenon DEF Init, InitialDisk
<1>3. superblock = "valid" => ScanOk(log) /\ CommittedEntries(log) \in Seq(Entry)
  <2>1. CASE log = EmptyLog
    BY <1>1, <2>1
  <2>2. CASE \E s \in 1..MaxSequence, n \in ValidNames : log = SeededLog(s, n)
    BY <2>2, SeededLogScans, Zenon
  <2> QED BY <2>1, <2>2, Zenon DEF Init, InitialDisk
<1>4. superblock \in {"empty", "valid", "foreign"}
  BY Zenon DEF Init, InitialDisk
<1>5. 0 \in Slots /\ 0 \in 0..MaxSequence
  BY JournalConstants DEF Slots
<1>6. acked = IF superblock = "valid" THEN CommittedEntries(log) ELSE <<>>
  BY Zenon DEF Init
<1>7. JournalTypeOK
  BY <1>2, <1>3, <1>4, <1>5, <1>6 DEF Init, JournalTypeOK, Phases
<1>8. LogAlwaysScans /\ AcknowledgedIsDurable
  BY <1>3, <1>6, Zenon DEF LogAlwaysScans, AcknowledgedIsDurable
<1> QED BY <1>6, <1>7, <1>8, Zenon DEF Init, JournalInv

----------------------------------------------------------------------------
(* Each step preserves it. *)

(* The kernel stops using the journal, or goes on without it. *)
LEMMA JournalOffStep ==
  ASSUME JournalInv, UNCHANGED <<disk, ghosts>>, JournalTypeOK',
         phase' \in {"off", "panic", "idle"}, enabled' = FALSE
  PROVE  JournalInv'
<1>1. LogAlwaysScans' /\ AcknowledgedIsDurable'
  BY Zenon DEF JournalInv, LogAlwaysScans, AcknowledgedIsDurable, disk, ghosts
<1> QED BY <1>1, Zenon DEF JournalInv, disk, ghosts

(* A command ends without having changed anything the journal depends on. *)
LEMMA CommandOverStep ==
  ASSUME JournalInv, UNCHANGED <<disk, ghosts, enabled, nextSequence>>, JournalTypeOK',
         phase' = "idle"
  PROVE  JournalInv'
<1>1. LogAlwaysScans' /\ AcknowledgedIsDurable'
  BY Zenon DEF JournalInv, LogAlwaysScans, AcknowledgedIsDurable, disk, ghosts
<1> QED BY <1>1, Zenon DEF JournalInv, InDoubt, disk, ghosts

LEMMA PanicTypes ==
  ASSUME JournalTypeOK, UNCHANGED <<disk, ghosts>>, Panic
  PROVE  JournalTypeOK'
BY JournalConstants DEF JournalTypeOK, disk, ghosts, Panic, Phases, Slots

LEMMA BootStep ==
  ASSUME JournalInv, BootVolatile \/ BootJournal \/ BootFails \/ PowerLoss
  PROVE  JournalInv'
<1>1. JournalTypeOK
  BY Zenon DEF JournalInv
<1>0. 0 \in Slots /\ 0 \in 0..MaxSequence
  BY JournalConstants DEF Slots
<1>2. CASE BootVolatile
  <2>1. JournalTypeOK'
    <3>1. CASE SelfTestPasses(InitialFiles)
      BY <1>0, <1>1, <1>2, <3>1, Zenon DEF BootVolatile, Start, JournalTypeOK, disk, ghosts, Phases
    <3>2. CASE ~SelfTestPasses(InitialFiles)
      BY <1>1, <1>2, <3>2, PanicTypes, Zenon DEF BootVolatile, Start
    <3> QED BY <3>1, <3>2, Zenon
  <2> QED BY <1>2, <2>1, JournalOffStep, Zenon DEF BootVolatile, Start, Panic
<1>3. CASE BootFails
  BY <1>1, <1>3, PanicTypes, JournalOffStep, Zenon DEF BootFails, Panic
<1>4. CASE PowerLoss
  <2>1. JournalTypeOK'
    BY <1>0, <1>1, <1>4, Zenon DEF PowerLoss, JournalTypeOK, disk, ghosts, Phases
  <2> QED BY <1>4, <2>1, JournalOffStep, Zenon DEF PowerLoss
<1>5. CASE BootJournal
  <2>1. /\ superblock = "valid" /\ superblock' = "valid" /\ log' = log /\ region' = region
        /\ acked' = CommittedEntries(log) /\ inflight' = NoEntry
        /\ ScanOk(log)
    BY <1>5, Zenon DEF BootJournal, disk
  <2>2. /\ CommittedEntries(log) \in Seq(Entry)
        /\ LastSequence(log) \in 0..MaxSequence
    BY <1>1, <2>1, CountIsScan, ScannedEntries, Zenon DEF JournalTypeOK, LastSequence
  <2>3. /\ phase' \in {"idle", "panic"}
        /\ enabled' \in BOOLEAN /\ window' \in BOOLEAN
        /\ nextSequence' \in 0..MaxSequence
        /\ request' \in Entry \cup {NoEntry} /\ target' \in Slots
        /\ reply' \in {"none", "ok", "failed"}
    <3>1. PICK b \in BOOLEAN, q \in 0..MaxSequence : Start(Replay(log), b, q)
      <4>1. CASE LastSequence(log) # MaxSequence /\ Start(Replay(log), TRUE, LastSequence(log) + 1)
        <5>1. LastSequence(log) + 1 \in 0..MaxSequence
          BY <2>2, <4>1, JournalConstants
        <5> QED BY <4>1, <5>1, Zenon
      <4>2. CASE Start(Replay(log), FALSE, 0)
        BY <4>2, <1>0, Zenon
      <4> QED BY <1>5, <4>1, <4>2, Zenon DEF BootJournal
    <3> QED BY <1>0, <1>1, <3>1, Zenon DEF Start, Panic, JournalTypeOK
  <2>4. JournalTypeOK'
    BY <1>1, <2>1, <2>2, <2>3, Zenon DEF JournalTypeOK, Phases
  <2>5. LogAlwaysScans' /\ AcknowledgedIsDurable'
    BY <2>1, Zenon DEF LogAlwaysScans, AcknowledgedIsDurable
  <2> QED BY <2>1, <2>3, <2>4, <2>5, Zenon DEF JournalInv
<1> QED BY <1>2, <1>3, <1>4, <1>5, Zenon

LEMMA VolatileStep ==
  ASSUME JournalInv, NEW n \in Names, NEW c \in Contents,
         VolatileWrite(n, c) \/ VolatileRemove(n)
  PROVE  JournalInv'
<1>1. JournalTypeOK'
  BY Zenon DEF JournalInv, JournalTypeOK, VolatileWrite, VolatileRemove, disk, ghosts, append
<1>2. UNCHANGED <<disk, ghosts, enabled, nextSequence>> /\ phase' = "idle"
  BY Zenon DEF VolatileWrite, VolatileRemove
<1> QED BY <1>1, <1>2, CommandOverStep, Zenon

LEMMA FinishTypes ==
  ASSUME JournalTypeOK, UNCHANGED <<disk, ghosts, enabled, nextSequence>>, window' \in BOOLEAN,
         NEW r \in {"ok", "failed"}, Finish(r)
  PROVE  JournalTypeOK'
<1>1. 0 \in Slots
  BY JournalConstants DEF Slots
<1> QED BY <1>1, Zenon DEF JournalTypeOK, disk, ghosts, Finish, Phases

LEMMA RefuseStep ==
  ASSUME JournalInv, Refuse
  PROVE  JournalInv'
<1>1. JournalTypeOK'
  BY FinishTypes, Zenon DEF JournalInv, JournalTypeOK, Refuse, memory
<1> QED BY <1>1, CommandOverStep, Zenon DEF Refuse, Finish, memory

(* An append starts only when no record is in doubt. *)
LEMMA BeginStep ==
  ASSUME JournalInv, NEW op \in {"write", "remove"}, NEW n \in ValidNames,
         NEW c \in ShortContents,
         enabled, nextSequence # 0, AppendAdmits, BeginAppend(op, n, c)
  PROVE  JournalInv'
<1>1. JournalTypeOK /\ superblock = "valid" /\ ScanOk(log)
  BY Zenon DEF JournalInv, AppendAdmits
<1>2. RecordCount(log) \in 0..DataSectors /\ IsScan(log, RecordCount(log))
  BY <1>1, CountIsScan, Zenon DEF JournalTypeOK
<1>3. RecordCount(log) \in Slots
  BY <1>2, JournalConstants DEF AppendAdmits, Slots
<1>4. SequenceIsNewer(nextSequence, SequenceBefore(log, RecordCount(log)))
  BY Zenon DEF AppendAdmits, LastSequence
<1>5. LastSequence(log) \in 0..MaxSequence
  BY <1>1, <1>2, ScannedEntries, Zenon DEF JournalTypeOK, LastSequence
<1>6. LastSequence(log) # nextSequence
  BY <1>1, <1>5, JournalConstants DEF AppendAdmits, SequenceIsNewer, JournalTypeOK
<1>7. CommittedEntries(log) = acked
  BY <1>1, <1>6, Zenon DEF JournalInv, InDoubt
<1>8. request' \in Entry /\ request'.sequence = nextSequence
  <2>1. nextSequence \in 1..MaxSequence
    BY <1>1, JournalConstants DEF JournalTypeOK
  <2> QED BY <2>1, RamfsConstants, Zenon DEF BeginAppend, EntryFor, Entry
<1>9. /\ UNCHANGED <<disk, memory, reply, ghosts>> /\ phase' = "prepare"
      /\ target' = RecordCount(log)
  BY Zenon DEF BeginAppend
<1>10. JournalTypeOK'
  BY <1>1, <1>3, <1>8, <1>9, Zenon DEF JournalTypeOK, disk, memory, ghosts, Phases
<1>11. LogAlwaysScans' /\ AcknowledgedIsDurable'
  BY <1>9, Zenon DEF JournalInv, LogAlwaysScans, AcknowledgedIsDurable, disk, ghosts
<1> QED BY <1>1, <1>2, <1>4, <1>7, <1>8, <1>9, <1>10, <1>11, Zenon
        DEF JournalInv, disk, memory, ghosts

LEMMA CommandStep ==
  ASSUME JournalInv, NEW n \in Names, NEW c \in Contents,
         PersistentWrite(n, c) \/ PersistentRemove(n)
  PROVE  JournalInv'
<1>1. CASE Refuse
  BY <1>1, RefuseStep, Zenon
<1>2. CASE PersistentWrite(n, c) /\ ~Refuse
  <2>1. /\ enabled /\ nextSequence # 0 /\ CanWriteFile(files, n, c) /\ AppendAdmits
        /\ BeginAppend("write", n, c)
    BY <1>2, Zenon DEF PersistentWrite
  <2>2. n \in ValidNames /\ c \in ShortContents
    BY <2>1, Zenon DEF CanWriteFile
  <2> QED BY <2>1, <2>2, BeginStep, Zenon
<1>3. CASE PersistentRemove(n) /\ ~Refuse
  <2>1. /\ enabled /\ nextSequence # 0 /\ HasFile(files, n) /\ AppendAdmits
        /\ BeginAppend("remove", n, Default)
    BY <1>3, Zenon DEF PersistentRemove
  <2>2. n \in ValidNames /\ Default \in ShortContents
    BY <2>1, RamfsConstants, Zenon DEF HasFile
  <2> QED BY <2>1, <2>2, BeginStep, Zenon
<1> QED BY <1>1, <1>2, <1>3, Zenon

LEMMA TornBlocksScan ==
  ASSUME NEW l \in [Slots -> Sector], NEW k \in Slots, l[k].state = "torn"
  PROVE  ~ScanOk(l)
<1> SUFFICES ASSUME NEW n \in 0..DataSectors, IsScan(l, n) PROVE FALSE
  BY Zenon DEF ScanOk
<1>1. k \in 0..n - 1 \/ (k = n /\ n < DataSectors) \/ k \in n + 1..DataSectors - 1
  BY JournalConstants DEF Slots
<1> QED BY <1>1, Zenon DEF IsScan

(* What a record write may leave in its slot. A torn write reports failure. *)
LEMMA RecordWritten ==
  ASSUME JournalTypeOK, request \in Entry,
         NEW committed \in BOOLEAN, NEW ok \in BOOLEAN, WriteRecord(committed, ok)
  PROVE  /\ log' \in [Slots -> Sector]
         /\ DiffersAt(log, log', target)
         /\ \/ log'[target] = log[target]
            \/ log'[target] = Encode(request, committed)
            \/ ~ok /\ log'[target].state = "torn"
<1>1. PICK s \in {Encode(request, committed), log[target], TornSector} :
        /\ WriteOutcome(Encode(request, committed), log[target], TornSector, s, ok)
        /\ log' = [log EXCEPT ![target] = s]
  BY Zenon DEF WriteRecord
<1>2. s = Encode(request, committed) \/ s = log[target] \/ (~ok /\ s = TornSector)
  BY <1>1, Zenon DEF WriteOutcome
<1>3. target \in Slots /\ log \in [Slots -> Sector]
  BY Zenon DEF JournalTypeOK
<1>4. s \in Sector
  <2>1. Encode(request, committed) \in Sector
    BY Zenon DEF Encode, Sector
  <2>2. TornSector \in Sector
    BY Zenon DEF Sector
  <2> QED BY <1>2, <1>3, <2>1, <2>2, Zenon
<1>5. TornSector.state = "torn"
  BY Zenon DEF TornSector
<1> QED BY <1>1, <1>2, <1>3, <1>4, <1>5, Zenon DEF DiffersAt

(* A torn write ends its command and leaves a log that does not scan. *)
LEMMA TornStep ==
  ASSUME JournalInv, log' \in [Slots -> Sector], log'[target].state = "torn",
         Finish("failed"), inflight' \in Entry \cup {NoEntry},
         UNCHANGED <<region, superblock, memory, acked>>
  PROVE  JournalInv'
<1>1. JournalTypeOK
  BY Zenon DEF JournalInv
<1>2. ~ScanOk(log') /\ ~\A i \in Slots : log'[i].state # "torn"
  BY <1>1, TornBlocksScan, Zenon DEF JournalTypeOK
<1>3. LogAlwaysScans' /\ AcknowledgedIsDurable'
  BY <1>2, Zenon DEF LogAlwaysScans, AcknowledgedIsDurable
<1>4. 0 \in Slots
  BY JournalConstants DEF Slots
<1>5. JournalTypeOK'
  BY <1>1, <1>4, Zenon DEF JournalTypeOK, Finish, memory, Phases
<1> QED BY <1>2, <1>3, <1>5, Zenon DEF JournalInv, Finish, memory

LEMMA PrepareStep ==
  ASSUME JournalInv, PrepareRecord, log'[target].state # "torn"
  PROVE  JournalInv'
<1>1. /\ JournalTypeOK /\ enabled /\ superblock = "valid" /\ request \in Entry
      /\ request.sequence = nextSequence /\ IsScan(log, target)
      /\ SequenceIsNewer(nextSequence, SequenceBefore(log, target))
      /\ CommittedEntries(log) = acked
  BY Zenon DEF JournalInv, PrepareRecord
<1>2. target \in Slots /\ target \in 0..DataSectors
  BY <1>1, JournalConstants DEF JournalTypeOK, Slots
<1>3. /\ log' \in [Slots -> Sector]
      /\ DiffersAt(log, log', target)
      /\ log'[target] = log[target] \/ log'[target] = Encode(request, FALSE)
  BY <1>1, RecordWritten, Zenon DEF PrepareRecord
<1>4. /\ IsScan(log', target)
      /\ SequenceBefore(log', target) = SequenceBefore(log, target)
      /\ CommittedEntries(log') = CommittedEntries(log)
  <2>1. \/ log'[target] = log[target]
        \/ /\ log'[target].state = "prepared"
           /\ SequenceIsNewer(log'[target].entry.sequence, SequenceBefore(log, target))
    BY <1>1, <1>3 DEF Encode
  <2> QED BY <1>1, <1>2, <1>3, <2>1, PrepareKeepsScan, Zenon DEF JournalTypeOK
<1>5. ScanOk(log')
  BY <1>2, <1>3, <1>4, CountOf, Zenon
<1>6. /\ superblock' = superblock /\ region' = region /\ enabled' = enabled
      /\ nextSequence' = nextSequence /\ window' = window /\ acked' = acked
      /\ inflight' = inflight
  BY Zenon DEF PrepareRecord, memory, ghosts
<1>7. LogAlwaysScans' /\ AcknowledgedIsDurable'
  BY <1>1, <1>4, <1>5, <1>6, Zenon DEF LogAlwaysScans, AcknowledgedIsDurable
<1>8. CASE phase' = "commit" /\ UNCHANGED <<append, reply>>
  <2>1. JournalTypeOK'
    BY <1>1, <1>3, <1>6, <1>8, Zenon DEF JournalTypeOK, append, Phases
  <2> QED BY <1>1, <1>4, <1>6, <1>7, <1>8, <2>1, Zenon DEF JournalInv, append
<1>9. CASE Finish("failed")
  <2>1. JournalTypeOK'
    <3>1. 0 \in Slots
      BY JournalConstants DEF Slots
    <3> QED BY <1>1, <1>3, <1>6, <1>9, <3>1, Zenon DEF JournalTypeOK, Finish, Phases
  <2> QED BY <1>1, <1>4, <1>6, <1>7, <1>9, <2>1, Zenon DEF JournalInv, Finish
<1> QED BY <1>8, <1>9, Zenon DEF PrepareRecord

LEMMA CommitStep ==
  ASSUME JournalInv, CommitRecord, log'[target].state # "torn"
  PROVE  JournalInv'
<1>1. /\ JournalTypeOK /\ enabled /\ superblock = "valid" /\ request \in Entry
      /\ request.sequence = nextSequence /\ IsScan(log, target)
      /\ SequenceIsNewer(nextSequence, SequenceBefore(log, target))
      /\ CommittedEntries(log) = acked
  BY Zenon DEF JournalInv, CommitRecord
<1>2. target \in Slots /\ target \in 0..DataSectors
  BY <1>1, JournalConstants DEF JournalTypeOK, Slots
<1>3. /\ log' \in [Slots -> Sector]
      /\ DiffersAt(log, log', target)
      /\ log'[target] = log[target] \/ log'[target] = Encode(request, TRUE)
  BY <1>1, RecordWritten, Zenon DEF CommitRecord
<1>4. /\ superblock' = superblock /\ region' = region /\ enabled' = enabled
      /\ nextSequence' = nextSequence /\ window' = window /\ acked' = acked
      /\ inflight' = request /\ request # NoEntry
  BY <1>1, JournalConstants, Zenon DEF CommitRecord, memory
(* Not stored: the slot still holds what was prepared, or nothing. *)
<1>5. ASSUME log'[target] = log[target]
      PROVE  /\ ScanOk(log')
             /\ CommittedEntries(log') = acked
             /\ log'[target].state # "committed"
  <2>1. IsScan(log', target) /\ CommittedEntries(log') = CommittedEntries(log)
    BY <1>1, <1>2, <1>3, <1>5, PrepareKeepsScan, Zenon DEF JournalTypeOK
  <2>2. log'[target].state # "committed"
    BY <1>1, <1>2, <1>5, JournalConstants DEF IsScan, Slots
  <2> QED BY <1>1, <1>2, <1>3, <2>1, <2>2, CountOf, Zenon
<1>6. ASSUME log'[target] = Encode(request, TRUE)
      PROVE  /\ ScanOk(log')
             /\ CommittedEntries(log') = Append(acked, request)
             /\ LastSequence(log') = nextSequence
  <2>1. /\ log'[target].state = "committed" /\ log'[target].entry = request
    BY <1>6 DEF Encode
  <2>2. /\ target + 1 \in 0..DataSectors
        /\ IsScan(log', target + 1)
        /\ SequenceBefore(log', target + 1) = nextSequence
        /\ CommittedEntries(log') = Append(acked, request)
    BY <1>1, <1>2, <1>3, <2>1, CommitAppends, Zenon DEF JournalTypeOK
  <2>3. ScanOk(log') /\ RecordCount(log') = target + 1
    BY <1>3, <2>2, CountOf, Zenon
  <2> QED BY <2>2, <2>3, Zenon DEF LastSequence
<1>7. /\ ScanOk(log')
      /\ CommittedEntries(log') = acked \/ InDoubt'
      /\ CommittedEntries(log') = acked
           \/ (inflight' # NoEntry /\ CommittedEntries(log') = Append(acked, inflight'))
      /\ log'[target].state = "committed" => CommittedEntries(log') = Append(acked, request)
  <2>1. CASE log'[target] = log[target]
    <3>1. ScanOk(log') /\ CommittedEntries(log') = acked /\ log'[target].state # "committed"
      BY <1>5, <2>1, Zenon
    <3> QED BY <3>1, Zenon
  <2>2. CASE log'[target] = Encode(request, TRUE)
    <3>1. CommittedEntries(log') = Append(acked, request) /\ LastSequence(log') = nextSequence
      BY <1>6, <2>2, Zenon
    <3>2. InDoubt'
      BY <1>4, <3>1, Zenon DEF InDoubt
    <3> QED BY <1>4, <1>6, <2>2, <3>1, <3>2, Zenon
  <2> QED BY <1>3, <2>1, <2>2, Zenon
<1>8. LogAlwaysScans' /\ AcknowledgedIsDurable'
  BY <1>4, <1>7, Zenon DEF LogAlwaysScans, AcknowledgedIsDurable
<1>9. CASE phase' = "verify" /\ UNCHANGED <<append, reply>>
  <2>1. JournalTypeOK'
    BY <1>1, <1>3, <1>4, <1>9, Zenon DEF JournalTypeOK, append, Phases
  <2> QED BY <1>1, <1>4, <1>7, <1>8, <1>9, <2>1, Zenon DEF JournalInv, append
<1>10. CASE Finish("failed")
  <2>1. JournalTypeOK'
    <3>1. 0 \in Slots
      BY JournalConstants DEF Slots
    <3> QED BY <1>1, <1>3, <1>4, <1>10, <3>1, Zenon DEF JournalTypeOK, Finish, Phases
  <2> QED BY <1>1, <1>4, <1>7, <1>8, <1>10, <2>1, Zenon DEF JournalInv, Finish
<1> QED BY <1>9, <1>10, Zenon DEF CommitRecord

LEMMA TornPrepareStep ==
  ASSUME JournalInv, PrepareRecord, log'[target].state = "torn"
  PROVE  JournalInv'
<1>1. /\ JournalTypeOK /\ request \in Entry /\ IsScan(log, target) /\ target \in Slots
  BY Zenon DEF JournalInv, JournalTypeOK, PrepareRecord
<1>2. log[target].state # "torn" /\ Encode(request, FALSE).state # "torn"
  BY <1>1, JournalConstants DEF IsScan, Slots, Encode
<1>3. log' \in [Slots -> Sector]
  BY <1>1, RecordWritten, Zenon DEF PrepareRecord
<1>4. ~WriteRecord(FALSE, TRUE)
  BY <1>1, <1>2, RecordWritten, Zenon
<1>5. Finish("failed") /\ inflight' \in Entry \cup {NoEntry}
      /\ UNCHANGED <<region, superblock, memory, acked>>
  BY <1>1, <1>4, Zenon DEF PrepareRecord, JournalTypeOK, ghosts
<1> QED BY <1>3, <1>5, TornStep, Zenon

LEMMA TornCommitStep ==
  ASSUME JournalInv, CommitRecord, log'[target].state = "torn"
  PROVE  JournalInv'
<1>1. /\ JournalTypeOK /\ request \in Entry /\ IsScan(log, target) /\ target \in Slots
  BY Zenon DEF JournalInv, JournalTypeOK, CommitRecord
<1>2. log[target].state # "torn" /\ Encode(request, TRUE).state # "torn"
  BY <1>1, JournalConstants DEF IsScan, Slots, Encode
<1>3. log' \in [Slots -> Sector]
  BY <1>1, RecordWritten, Zenon DEF CommitRecord
<1>4. ~WriteRecord(TRUE, TRUE)
  BY <1>1, <1>2, RecordWritten, Zenon
<1>5. Finish("failed") /\ inflight' \in Entry \cup {NoEntry}
      /\ UNCHANGED <<region, superblock, memory, acked>>
  BY <1>1, <1>4, Zenon DEF CommitRecord, JournalTypeOK
<1> QED BY <1>3, <1>5, TornStep

LEMMA VerifyStep ==
  ASSUME JournalInv, VerifyRecord
  PROVE  JournalInv'
<1>1. /\ JournalTypeOK /\ enabled /\ superblock = "valid" /\ request \in Entry
      /\ request.sequence = nextSequence
      /\ CommittedEntries(log) = Append(acked, request)
  BY Zenon DEF JournalInv, VerifyRecord, AdvanceSequence
<1>2. /\ superblock' = superblock /\ region' = region /\ log' = log
      /\ acked' = CommittedEntries(log) /\ inflight' = NoEntry
  BY <1>1, Zenon DEF VerifyRecord, AdvanceSequence, disk
<1>3. CommittedEntries(log) \in Seq(Entry)
  BY <1>1 DEF JournalTypeOK
<1>4. LogAlwaysScans' /\ AcknowledgedIsDurable'
  BY <1>2, Zenon DEF JournalInv, LogAlwaysScans, AcknowledgedIsDurable
<1>5. 0 \in Slots /\ 0 \in 0..MaxSequence
  BY JournalConstants DEF Slots
<1>6. CASE CanApply(files, request)
  <2>1. /\ nextSequence' = (IF nextSequence = MaxSequence THEN 0 ELSE nextSequence + 1)
        /\ Finish("ok") /\ UNCHANGED <<enabled, window>>
    BY <1>6, Zenon DEF VerifyRecord, AdvanceSequence
  <2>2. nextSequence' \in 0..MaxSequence
    BY <1>1, <2>1, JournalConstants DEF JournalTypeOK
  <2>3. JournalTypeOK'
    BY <1>1, <1>2, <1>3, <1>5, <2>1, <2>2, Zenon DEF JournalTypeOK, Finish, Phases
  <2> QED BY <1>1, <1>2, <1>4, <2>1, <2>3, Zenon DEF JournalInv, Finish
<1>7. CASE ~CanApply(files, request)
  <2>1. Panic
    BY <1>7, Zenon DEF VerifyRecord, AdvanceSequence
  <2>2. JournalTypeOK'
    BY <1>1, <1>2, <1>3, <1>5, <2>1, Zenon DEF JournalTypeOK, Panic, Phases
  <2> QED BY <1>1, <1>2, <1>4, <2>1, <2>2, Zenon DEF JournalInv, Panic
<1> QED BY <1>6, <1>7, Zenon

LEMMA FormatStep ==
  ASSUME JournalInv, Format
  PROVE  JournalInv'
<1>1. CASE FormatAdmits /\ phase' = "format" /\ window' = TRUE
           /\ UNCHANGED <<files, enabled, nextSequence, append, reply>>
  <2>1. UNCHANGED <<disk, ghosts>>
    BY Zenon DEF Format
  <2>2. JournalTypeOK'
    BY <1>1, <2>1, Zenon DEF JournalInv, JournalTypeOK, disk, ghosts, append, Phases
  <2>3. LogAlwaysScans' /\ AcknowledgedIsDurable'
    BY <2>1, Zenon DEF JournalInv, LogAlwaysScans, AcknowledgedIsDurable, disk, ghosts
  <2> QED BY <1>1, <2>1, <2>2, <2>3, Zenon DEF JournalInv, FormatAdmits, disk, ghosts
<1>2. CASE Finish("failed") /\ UNCHANGED memory
  <2>1. UNCHANGED <<disk, ghosts>>
    BY DEF Format
  <2>2. Refuse
    BY <1>2, <2>1, Zenon DEF Refuse
  <2> QED BY <2>2, RefuseStep, Zenon
<1> QED BY <1>1, <1>2, Zenon DEF Format

LEMMA FormatWriteStep ==
  ASSUME JournalInv, FormatWrite
  PROVE  JournalInv'
<1>1. /\ JournalTypeOK /\ ~enabled /\ acked = <<>>
      /\ \A i \in Slots : log[i].state = "empty"
  BY Zenon DEF JournalInv, FormatWrite
<1>2. /\ region' = region /\ log' = log /\ enabled' = enabled
      /\ nextSequence' = nextSequence /\ acked' = acked /\ inflight' = inflight
  BY Zenon DEF FormatWrite, ghosts
<1>3. superblock' \in {"valid", superblock, "foreign"}
  BY Zenon DEF FormatWrite, WriteSuperblock
<1>4. ScanOk(log) /\ CommittedEntries(log) = <<>>
  BY <1>1, EmptyLogScans, Zenon DEF JournalTypeOK
<1>5. LogAlwaysScans' /\ AcknowledgedIsDurable'
  BY <1>1, <1>2, <1>4, Zenon DEF LogAlwaysScans, AcknowledgedIsDurable
<1>6. CASE phase' = "format_verify" /\ UNCHANGED <<window, append, reply>>
  <2>1. JournalTypeOK'
    BY <1>1, <1>2, <1>3, <1>6, Zenon DEF JournalTypeOK, append, Phases
  <2> QED BY <1>1, <1>2, <1>5, <1>6, <2>1, Zenon DEF JournalInv
<1>7. CASE window' = FALSE /\ Finish("failed")
  <2>1. JournalTypeOK'
    <3>1. 0 \in Slots
      BY JournalConstants DEF Slots
    <3> QED BY <1>1, <1>2, <1>3, <1>7, <3>1, ZenonT(30) DEF JournalTypeOK, Finish, Phases
  <2> QED BY <1>1, <1>2, <1>5, <1>7, <2>1, Zenon DEF JournalInv, Finish
<1> QED BY <1>6, <1>7, Zenon DEF FormatWrite

LEMMA FormatVerifyStep ==
  ASSUME JournalInv, FormatVerify
  PROVE  JournalInv'
<1>1. /\ JournalTypeOK /\ ~enabled /\ acked = <<>>
      /\ \A i \in Slots : log[i].state = "empty"
  BY Zenon DEF JournalInv, FormatVerify
<1>2. UNCHANGED <<disk, ghosts>> /\ phase' = "idle"
  BY Zenon DEF FormatVerify, Finish
<1>3. ScanOk(log) /\ CommittedEntries(log) = <<>>
  BY <1>1, EmptyLogScans DEF JournalTypeOK
<1>4. LogAlwaysScans' /\ AcknowledgedIsDurable'
  BY <1>2, Zenon DEF JournalInv, LogAlwaysScans, AcknowledgedIsDurable, disk, ghosts
<1>5. 0 \in Slots /\ 1 \in 0..MaxSequence
  BY JournalConstants DEF Slots
<1>6. JournalTypeOK'
  BY <1>1, <1>2, <1>5, Zenon DEF FormatVerify, JournalTypeOK, Finish, disk, ghosts, Phases
<1>7. enabled' => superblock = "valid"
  BY <1>1, Zenon DEF FormatVerify
<1> QED BY <1>1, <1>2, <1>3, <1>4, <1>6, <1>7, Zenon DEF JournalInv, disk, ghosts

LEMMA StepInv ==
  ASSUME JournalInv, [Next]_vars
  PROVE  JournalInv'
<1>1. CASE UNCHANGED vars
  BY <1>1 DEF vars, disk, memory, append, ghosts, JournalInv, JournalTypeOK, LogAlwaysScans,
       AcknowledgedIsDurable, InDoubt
<1>2. CASE BootVolatile \/ BootJournal \/ BootFails \/ PowerLoss
  BY <1>2, BootStep, Zenon
<1>3. CASE Command
  <2>1. CASE Format
    BY <2>1, FormatStep, Zenon
  <2>2. ASSUME NEW n \in Names, NEW c \in Contents, VolatileWrite(n, c) \/ PersistentWrite(n, c)
        PROVE  JournalInv'
    BY <2>2, VolatileStep, CommandStep, Zenon
  <2>3. ASSUME NEW n \in Names, VolatileRemove(n) \/ PersistentRemove(n)
        PROVE  JournalInv'
    <3>1. Default \in Contents
      BY RamfsConstants, Zenon
    <3> QED BY <2>3, <3>1, VolatileStep, CommandStep, Zenon
  <2> QED BY <1>3, <2>1, <2>2, <2>3, Zenon DEF Command
<1>4. CASE PrepareRecord
  BY <1>4, PrepareStep, TornPrepareStep, Zenon
<1>5. CASE CommitRecord
  BY <1>5, CommitStep, TornCommitStep
<1>6. CASE VerifyRecord
  BY <1>6, VerifyStep
<1>7. CASE VerifyFails
  BY <1>7, RefuseStep, Zenon DEF VerifyFails
<1>8. CASE FormatWrite
  BY <1>8, FormatWriteStep
<1>9. CASE FormatVerify
  BY <1>9, FormatVerifyStep
<1> QED BY <1>1, <1>2, <1>3, <1>4, <1>5, <1>6, <1>7, <1>8, <1>9, Zenon DEF Next

----------------------------------------------------------------------------

(* The inductive invariant of the journal holds in every reachable state   *)
(* of every instance.                                                      *)
THEOREM JournalInvariance ==
  Spec => []JournalInv
<1>1. Init => JournalInv
  BY InitInv, Zenon
<1>2. JournalInv /\ [Next]_vars => JournalInv'
  BY StepInv, Zenon
<1> QED BY <1>1, <1>2, PTL DEF Spec

(* Whatever fails or crashes, the committed records on a formatted disk    *)
(* are the acknowledged ones and at most one record in doubt after them.   *)
THEOREM Durability ==
  Spec => []AcknowledgedIsDurable
<1>1. JournalInv => AcknowledgedIsDurable
  BY Zenon DEF JournalInv
<1> QED BY <1>1, JournalInvariance, PTL

(* Until the disk tears a sector, scan_log never refuses a formatted log:  *)
(* crashes and failed, late or lost writes cannot stop the next boot.      *)
THEOREM AlwaysScans ==
  Spec => []LogAlwaysScans
<1>1. JournalInv => LogAlwaysScans
  BY Zenon DEF JournalInv
<1> QED BY <1>1, JournalInvariance, PTL


----------------------------------------------------------------------------
(* What the two results need beyond JournalInv: a kernel that is off has   *)
(* no journal, an append under way can be applied to the table, and the    *)
(* log scans when a commit is read back.                                   *)
CommandInv ==
  /\ phase = "off" => ~enabled
  /\ phase \in {"prepare", "commit", "verify"} => CanApply(files, request)
  /\ phase = "verify" => ScanOk(log)

(* A write of a prepared record changes nothing a recovery would find. *)
LEMMA PrepareEffect ==
  ASSUME JournalInv, PrepareRecord
  PROVE  /\ superblock = "valid" /\ enabled /\ ScanOk(log) /\ CommittedEntries(log) = acked
         /\ ScanOk(log') => CommittedEntries(log') = acked
<1>1. /\ JournalTypeOK /\ enabled /\ superblock = "valid" /\ request \in Entry
      /\ request.sequence = nextSequence /\ IsScan(log, target)
      /\ SequenceIsNewer(nextSequence, SequenceBefore(log, target))
      /\ CommittedEntries(log) = acked
  BY Zenon DEF JournalInv, PrepareRecord
<1>2. target \in Slots /\ target \in 0..DataSectors
  BY <1>1, JournalConstants DEF JournalTypeOK, Slots
<1>3. /\ log' \in [Slots -> Sector]
      /\ DiffersAt(log, log', target)
      /\ \/ log'[target] = log[target]
         \/ log'[target] = Encode(request, FALSE)
         \/ log'[target].state = "torn"
  BY <1>1, RecordWritten, Zenon DEF PrepareRecord
<1>4. ScanOk(log)
  BY <1>1, <1>2, Zenon DEF ScanOk
<1>5. CASE log'[target].state = "torn"
  BY <1>1, <1>2, <1>3, <1>4, <1>5, TornBlocksScan, Zenon
<1>6. CASE log'[target] = log[target] \/ log'[target] = Encode(request, FALSE)
  <2>1. \/ log'[target] = log[target]
        \/ /\ log'[target].state = "prepared"
           /\ SequenceIsNewer(log'[target].entry.sequence, SequenceBefore(log, target))
    BY <1>1, <1>6 DEF Encode
  <2>2. CommittedEntries(log') = CommittedEntries(log)
    BY <1>1, <1>2, <1>3, <2>1, PrepareKeepsScan, Zenon DEF JournalTypeOK
  <2> QED BY <1>1, <1>4, <2>2, Zenon
<1> QED BY <1>3, <1>5, <1>6, Zenon

(* The commit write stores the record behind the acknowledged ones, or     *)
(* nothing, or tears the log.                                              *)
LEMMA CommitEffect ==
  ASSUME JournalInv, CommitRecord
  PROVE  /\ superblock = "valid" /\ enabled /\ ScanOk(log) /\ CommittedEntries(log) = acked
         /\ request \in Entry
         /\ ScanOk(log') => CommittedEntries(log') \in {acked, Append(acked, request)}
         /\ phase' = "verify" => ScanOk(log')
<1>1. /\ JournalTypeOK /\ enabled /\ superblock = "valid" /\ request \in Entry
      /\ request.sequence = nextSequence /\ IsScan(log, target)
      /\ SequenceIsNewer(nextSequence, SequenceBefore(log, target))
      /\ CommittedEntries(log) = acked
  BY Zenon DEF JournalInv, CommitRecord
<1>2. target \in Slots /\ target \in 0..DataSectors
  BY <1>1, JournalConstants DEF JournalTypeOK, Slots
<1>3. /\ log' \in [Slots -> Sector]
      /\ DiffersAt(log, log', target)
      /\ \/ log'[target] = log[target]
         \/ log'[target] = Encode(request, TRUE)
         \/ ~WriteRecord(TRUE, TRUE) /\ log'[target].state = "torn"
  <2>1. CASE WriteRecord(TRUE, TRUE)
    BY <1>1, <2>1, RecordWritten, Zenon
  <2>2. CASE ~WriteRecord(TRUE, TRUE)
    BY <1>1, <2>2, RecordWritten, Zenon DEF CommitRecord
  <2> QED BY <2>1, <2>2, Zenon
<1>4. ScanOk(log)
  BY <1>1, <1>2 DEF ScanOk
<1>5. CASE ~WriteRecord(TRUE, TRUE) /\ log'[target].state = "torn"
  <2>1. ~ScanOk(log')
    BY <1>2, <1>3, <1>5, TornBlocksScan, Zenon
  <2>2. phase' = "idle"
    BY <1>5, Zenon DEF CommitRecord, Finish
  <2> QED BY <1>1, <1>4, <2>1, <2>2, Zenon
<1>6. CASE log'[target] = log[target]
  <2>1. IsScan(log', target) /\ CommittedEntries(log') = CommittedEntries(log)
    BY <1>1, <1>2, <1>3, <1>6, PrepareKeepsScan, Zenon DEF JournalTypeOK
  <2> QED BY <1>1, <1>2, <1>4, <2>1, Zenon DEF ScanOk
<1>7. CASE log'[target] = Encode(request, TRUE)
  <2>1. log'[target].state = "committed" /\ log'[target].entry = request
    BY <1>7 DEF Encode
  <2>2. /\ target + 1 \in 0..DataSectors
        /\ IsScan(log', target + 1)
        /\ CommittedEntries(log') = Append(acked, request)
    BY <1>1, <1>2, <1>3, <2>1, CommitAppends, Zenon DEF JournalTypeOK
  <2> QED BY <1>1, <1>4, <2>2, Zenon DEF ScanOk
<1> QED BY <1>3, <1>5, <1>6, <1>7, Zenon

LEMMA CommandInit == Init => CommandInv
BY Zenon DEF Init, CommandInv

(* A command is begun only when the table accepts it. *)
LEMMA BeginApplies ==
  ASSUME NEW op \in {"write", "remove"}, NEW n, NEW c, BeginAppend(op, n, c),
         op = "write" => CanWriteFile(files, n, c)
  PROVE  phase' = "prepare" /\ CanApply(files', request')
<1>1. files' = files /\ request' = EntryFor(op, nextSequence, n, c) /\ phase' = "prepare"
  BY Zenon DEF BeginAppend, memory
<1> QED BY <1>1, Zenon DEF CanApply, EntryFor

LEMMA CommandStepInv ==
  ASSUME JournalInv, CommandInv, [Next]_vars
  PROVE  CommandInv'
<1>1. CASE UNCHANGED vars
  BY <1>1, Zenon DEF vars, disk, memory, append, ghosts, CommandInv
<1>2. CASE BootVolatile \/ BootFails \/ PowerLoss \/ BootJournal
  <2>1. phase' \in {"off", "panic", "idle"} /\ (phase' = "off" => ~enabled')
    BY <1>2, Zenon DEF BootVolatile, BootFails, PowerLoss, BootJournal, Start, Panic
  <2> QED BY <2>1, Zenon DEF CommandInv
<1>3. ASSUME Refuse \/ Format \/ FormatWrite \/ FormatVerify PROVE CommandInv'
  <2>1. phase' \in {"idle", "format", "format_verify"}
    BY <1>3, Zenon DEF Refuse, Format, FormatWrite, FormatVerify, Finish
  <2> QED BY <2>1, Zenon DEF CommandInv
<1>4. ASSUME NEW n, NEW c, PersistentWrite(n, c) PROVE CommandInv'
  <2>1. CASE Refuse
    BY <1>3, <2>1, Zenon
  <2>2. CASE CanWriteFile(files, n, c) /\ BeginAppend("write", n, c)
    <3>1. phase' = "prepare" /\ CanApply(files', request')
      BY <2>2, BeginApplies, Zenon
    <3> QED BY <3>1, Zenon DEF CommandInv
  <2> QED BY <1>4, <2>1, <2>2, Zenon DEF PersistentWrite
<1>5. ASSUME NEW n, PersistentRemove(n) PROVE CommandInv'
  <2>1. CASE Refuse
    BY <1>3, <2>1
  <2>2. CASE BeginAppend("remove", n, Default)
    <3>1. phase' = "prepare" /\ CanApply(files', request')
      BY <2>2, BeginApplies, Zenon
    <3> QED BY <3>1 DEF CommandInv
  <2> QED BY <1>5, <2>1, <2>2, Zenon DEF PersistentRemove
<1>6. CASE Command
  <2>1. ASSUME NEW n, NEW c, VolatileWrite(n, c) \/ VolatileRemove(n) PROVE CommandInv'
    BY <2>1, Zenon DEF VolatileWrite, VolatileRemove, CommandInv
  <2> QED BY <1>3, <1>4, <1>5, <1>6, <2>1, Zenon DEF Command
<1>7. CASE PrepareRecord
  <2>1. CASE phase' = "commit" /\ UNCHANGED <<append, files>>
    BY <1>7, <2>1, Zenon DEF CommandInv, PrepareRecord, append
  <2>2. CASE phase' = "idle"
    BY <2>2, Zenon DEF CommandInv
  <2> QED BY <1>7, <2>1, <2>2, Zenon DEF PrepareRecord, Finish, memory
<1>8. CASE CommitRecord
  <2>1. CASE phase' = "verify" /\ UNCHANGED <<append, files>>
    BY <1>8, <2>1, CommitEffect, Zenon DEF CommandInv, CommitRecord, append
  <2>2. CASE phase' = "idle"
    BY <2>2 DEF CommandInv
  <2> QED BY <1>8, <2>1, <2>2, Zenon DEF CommitRecord, Finish, memory
<1>9. CASE VerifyRecord
  <2>1. phase' \in {"idle", "panic"}
    BY <1>9, Zenon DEF VerifyRecord, Finish, Panic
  <2> QED BY <2>1, Zenon DEF CommandInv
<1>10. CASE VerifyFails
  BY <1>3, <1>10, Zenon DEF VerifyFails
<1> QED BY <1>1, <1>2, <1>3, <1>6, <1>7, <1>8, <1>9, <1>10, Zenon DEF Next

LEMMA CommandInvariance == Spec => [](JournalInv /\ CommandInv)
<1>1. Init => CommandInv
  BY CommandInit, Zenon
<1>2. JournalInv /\ CommandInv /\ [Next]_vars => CommandInv'
  BY CommandStepInv, Zenon
<1> QED BY <1>1, <1>2, JournalInvariance, PTL DEF Spec

----------------------------------------------------------------------------
(* Steps that leave the disk and the acknowledged records alone. *)
Passive == UNCHANGED <<superblock, log, acked>>

LEMMA BootIsPassive ==
  ASSUME BootVolatile \/ BootFails \/ PowerLoss
  PROVE  Passive /\ enabled' = FALSE
BY Zenon DEF BootVolatile, BootFails, PowerLoss, Start, Panic, Passive, disk, ghosts

LEMMA CommandIsPassive ==
  ASSUME Command \/ VerifyFails
  PROVE  Passive /\ enabled' = enabled
<1>1. ASSUME Refuse PROVE Passive /\ enabled' = enabled
  BY <1>1, Zenon DEF Refuse, Passive, disk, memory, ghosts
<1>2. ASSUME NEW op, NEW n, NEW c, BeginAppend(op, n, c) PROVE Passive /\ enabled' = enabled
  BY <1>2, Zenon DEF BeginAppend, Passive, disk, memory, ghosts
<1>3. ASSUME NEW n, NEW c, PersistentWrite(n, c) PROVE Passive /\ enabled' = enabled
  BY <1>1, <1>2, <1>3, Zenon DEF PersistentWrite
<1>4. ASSUME NEW n, PersistentRemove(n) PROVE Passive /\ enabled' = enabled
  BY <1>1, <1>2, <1>4, Zenon DEF PersistentRemove
<1>5. ASSUME NEW n, NEW c, VolatileWrite(n, c) \/ VolatileRemove(n)
      PROVE  Passive /\ enabled' = enabled
  BY <1>5, Zenon DEF VolatileWrite, VolatileRemove, Passive, disk, ghosts
<1>6. ASSUME Format PROVE Passive /\ enabled' = enabled
  BY <1>6, Zenon DEF Format, Passive, disk, memory, ghosts
<1>7. CASE VerifyFails
  BY <1>1, <1>7, Zenon DEF VerifyFails
<1> QED BY <1>3, <1>4, <1>5, <1>6, <1>7, Zenon DEF Command

LEMMA FormatPhase ==
  ASSUME JournalInv, phase \in {"format", "format_verify"}
  PROVE  ScanOk(log) /\ CommittedEntries(log) = <<>> /\ acked = <<>> /\ ~enabled
<1>1. /\ log \in [Slots -> Sector] /\ \A i \in Slots : log[i].state = "empty"
      /\ acked = <<>> /\ ~enabled
  BY Zenon DEF JournalInv, JournalTypeOK
<1> QED BY <1>1, EmptyLogScans, Zenon

----------------------------------------------------------------------------
LEMMA TornStepFact ==
  ASSUME JournalInv, CommandInv, Next, superblock = "valid", ~ScanOk(log)
  PROVE  Passive
<1>1. CASE BootVolatile \/ BootFails \/ PowerLoss
  BY <1>1, BootIsPassive, Zenon
<1>2. CASE Command \/ VerifyFails
  BY <1>2, CommandIsPassive, Zenon
<1>3. ~BootJournal
  BY Zenon DEF BootJournal
<1>4. ~PrepareRecord /\ ~CommitRecord
  BY PrepareEffect, CommitEffect, Zenon
<1>5. ~VerifyRecord
  BY Zenon DEF VerifyRecord, CommandInv
<1>6. ~FormatWrite /\ ~FormatVerify
  BY FormatPhase, Zenon DEF FormatWrite, FormatVerify
<1> QED BY <1>1, <1>2, <1>3, <1>4, <1>5, <1>6, Zenon DEF Next

(* Once a write has torn the log, no step writes to it or acknowledges a   *)
(* record, across crashes and reboots: the scan that journal_append begins *)
(* with keeps out every later command.                                     *)
THEOREM TornLogStays ==
  Spec => TornLogIsLeftAlone
<1>1. JournalInv /\ CommandInv /\ [Next]_vars =>
        [superblock = "valid" /\ ~ScanOk(log) => UNCHANGED <<superblock, log, acked>>]_vars
  BY TornStepFact, Zenon DEF Passive
<1> QED BY <1>1, CommandInvariance, PTL DEF Spec, TornLogIsLeftAlone

----------------------------------------------------------------------------
(* The refinement: initial states, then one lemma for each kind of step.   *)
LEMMA RefinesInit ==
  ASSUME Init
  PROVE  Abstract!Init
<1>1. JournalInv
  BY InitInv, Zenon
<1>2. acked \in Seq(Entry)
  BY <1>1, Zenon DEF JournalInv, JournalTypeOK
<1>3. Stored = acked
  BY Zenon DEF Init, Stored
<1>4. enabled = FALSE
  BY Zenon DEF Init
<1> QED BY <1>2, <1>3, <1>4, Zenon DEF Abstract!Init

LEMMA RefinesPassive ==
  ASSUME Passive, enabled \in BOOLEAN, enabled' \in {FALSE, enabled}
  PROVE  [Abstract!Next]_(Abstract!vars)
<1>1. Stored' = Stored /\ acked' = acked
  BY Zenon DEF Passive, Stored
<1> QED BY <1>1, Zenon DEF Abstract!Next, Abstract!Shut, Abstract!vars

LEMMA RefinesBoot ==
  ASSUME JournalInv, CommandInv, BootJournal
  PROVE  Abstract!Next
<1>1. /\ superblock = "valid" /\ ScanOk(log) /\ acked' = CommittedEntries(log)
      /\ superblock' = superblock /\ log' = log
  BY Zenon DEF BootJournal, disk
<1>2. ~enabled
  BY Zenon DEF CommandInv, BootJournal
<1>3. enabled' \in BOOLEAN
  BY Zenon DEF BootJournal, Start, Panic
<1>4. Stored = CommittedEntries(log) /\ Stored' = CommittedEntries(log)
  BY <1>1, Zenon DEF Stored
<1>5. Abstract!Recover
  BY <1>1, <1>2, <1>3, <1>4, Zenon DEF Abstract!Recover
<1> QED BY <1>5, Zenon DEF Abstract!Next

LEMMA RefinesPrepare ==
  ASSUME JournalInv, PrepareRecord
  PROVE  UNCHANGED Abstract!vars
<1>1. /\ superblock' = superblock /\ enabled' = enabled /\ acked' = acked
  BY Zenon DEF PrepareRecord, memory, ghosts
<1>2. Stored = acked /\ Stored' = acked'
  BY <1>1, PrepareEffect, Zenon DEF Stored
<1> QED BY <1>1, <1>2, Zenon DEF Abstract!vars

LEMMA RefinesCommit ==
  ASSUME JournalInv, CommitRecord
  PROVE  [Abstract!Next]_(Abstract!vars)
<1>1. /\ superblock' = superblock /\ enabled' = enabled /\ acked' = acked
  BY Zenon DEF CommitRecord, memory
<1>2. Stored = acked /\ enabled /\ request \in Entry /\ superblock = "valid"
  BY CommitEffect, Zenon DEF Stored
<1>3. Stored' = acked \/ Stored' = Append(acked, request)
  BY <1>1, <1>2, CommitEffect, Zenon DEF Stored
<1>4. CASE Stored' = acked
  BY <1>1, <1>2, <1>4, Zenon DEF Abstract!vars
<1>5. CASE Stored' = Append(acked, request)
  <2>1. Abstract!Store(request)
    BY <1>1, <1>2, <1>5, Zenon DEF Abstract!Store
  <2> QED BY <1>2, <2>1, Zenon DEF Abstract!Next
<1> QED BY <1>3, <1>4, <1>5, Zenon

LEMMA RefinesVerify ==
  ASSUME JournalInv, CommandInv, VerifyRecord
  PROVE  Abstract!Next
<1>1. /\ superblock = "valid" /\ enabled /\ ScanOk(log) /\ CanApply(files, request)
      /\ CommittedEntries(log) = Append(acked, request) /\ acked \in Seq(Entry)
      /\ request \in Entry
  BY Zenon DEF JournalInv, JournalTypeOK, CommandInv, VerifyRecord
<1>2. /\ superblock' = superblock /\ log' = log /\ enabled' = enabled
      /\ acked' = Append(acked, request)
  BY <1>1, Zenon DEF VerifyRecord, disk
<1>3. Stored = Append(acked, request) /\ Stored' = Append(acked, request)
  BY <1>1, <1>2, Zenon DEF Stored
<1>4. acked # Append(acked, request)
  <2>1. Len(Append(acked, request)) = Len(acked) + 1 /\ Len(acked) \in Nat
    BY <1>1
  <2> QED BY <2>1
<1>5. Abstract!Acknowledge
  BY <1>1, <1>2, <1>3, <1>4, Zenon DEF Abstract!Acknowledge
<1> QED BY <1>5, Zenon DEF Abstract!Next

LEMMA RefinesFormat ==
  ASSUME JournalInv, FormatWrite \/ FormatVerify
  PROVE  [Abstract!Next]_(Abstract!vars)
<1>1. /\ ScanOk(log) /\ CommittedEntries(log) = <<>> /\ acked = <<>> /\ enabled = FALSE
  BY FormatPhase, Zenon DEF FormatWrite, FormatVerify, JournalInv, JournalTypeOK
<1>2. log' = log /\ acked' = acked
  BY Zenon DEF FormatWrite, FormatVerify, disk, ghosts
<1>3. Stored = acked /\ Stored' = acked
  BY <1>1, <1>2, Zenon DEF Stored
<1>4. CASE FormatWrite
  BY <1>2, <1>3, <1>4, Zenon DEF FormatWrite, Abstract!vars
<1>5. CASE FormatVerify
  <2>1. enabled' \in BOOLEAN
    BY <1>1, <1>5, Zenon DEF FormatVerify
  <2>2. Abstract!Recover
    BY <1>1, <1>2, <1>3, <2>1, Zenon DEF Abstract!Recover
  <2> QED BY <2>2, Zenon DEF Abstract!Next
<1> QED BY <1>4, <1>5, Zenon

LEMMA RefinesStep ==
  ASSUME JournalInv, CommandInv, [Next]_vars
  PROVE  [Abstract!Next]_(Abstract!vars)
<1>0. enabled \in BOOLEAN
  BY Zenon DEF JournalInv, JournalTypeOK
<1>1. CASE UNCHANGED vars
  <2>1. Passive /\ enabled' = enabled
    BY <1>1, Zenon DEF vars, disk, memory, ghosts, Passive
  <2> QED BY <1>0, <2>1, RefinesPassive, Zenon
<1>2. CASE BootVolatile \/ BootFails \/ PowerLoss
  BY <1>0, <1>2, BootIsPassive, RefinesPassive, Zenon
<1>3. CASE Command \/ VerifyFails
  BY <1>0, <1>3, CommandIsPassive, RefinesPassive, Zenon
<1>4. CASE BootJournal
  BY <1>4, RefinesBoot, Zenon
<1>5. CASE PrepareRecord
  BY <1>5, RefinesPrepare, Zenon
<1>6. CASE CommitRecord
  BY <1>6, RefinesCommit, Zenon
<1>7. CASE VerifyRecord
  BY <1>7, RefinesVerify
<1>8. CASE FormatWrite \/ FormatVerify
  BY <1>8, RefinesFormat, Zenon
<1> QED BY <1>1, <1>2, <1>3, <1>4, <1>5, <1>6, <1>7, <1>8, Zenon DEF Next

(* journal_append, scan_log and persistent.c together are an append-only   *)
(* log with at most one record in doubt: the commit write stores, the      *)
(* verified read-back acknowledges, and only a boot adopts a record that   *)
(* was stored and never acknowledged.                                      *)
THEOREM ImplementsLog ==
  Spec => ImplementsDurableLog
<1>1. Init => Abstract!Init
  BY RefinesInit, Zenon
<1>2. JournalInv /\ CommandInv /\ [Next]_vars => [Abstract!Next]_(Abstract!vars)
  BY RefinesStep, Zenon
<1> QED BY <1>1, <1>2, CommandInvariance, PTL DEF Spec, ImplementsDurableLog, Abstract!Spec

----------------------------------------------------------------------------
(* The file table: at most one file of a name. *)
Tables == {f \in Seq(File) : \A i, j \in 1..Len(f) : f[i].name = f[j].name => i = j}

(* Sequences with the same elements are the same. *)
LEMMA SameSequence ==
  ASSUME NEW X, NEW s \in Seq(X), NEW t \in Seq(X), Len(s) = Len(t),
         \A i \in 1..Len(s) : s[i] = t[i]
  PROVE  s = t
<1>1. s \in [1..Len(s) -> X] /\ t \in [1..Len(s) -> X]
  OBVIOUS
<1> QED BY <1>1

(* Where IndexOf finds a file. *)
LEMMA IndexIs ==
  ASSUME NEW f \in Tables, NEW k \in 1..Len(f)
  PROVE  f[k].name \in NamesIn(f) /\ IndexOf(f, f[k].name) = k
<1> DEFINE S == {i \in 1..Len(f) : f[i].name = f[k].name}
<1>1. S = {k}
  BY Zenon DEF Tables
<1>2. k \in Int
  BY DEF Tables
<1>3. Min(S) = CHOOSE x \in {k} : \A y \in {k} : x <= y
  BY <1>1, Zenon DEF Min
<1>4. k <= k
  BY <1>2
<1>5. Min(S) = k
  BY <1>3, <1>4, Zenon
<1> QED BY <1>5, Zenon DEF IndexOf, NamesIn

(* IndexOf finds the one file of a name that the table has. *)
LEMMA IndexFacts ==
  ASSUME NEW f \in Tables, NEW x \in NamesIn(f)
  PROVE  /\ IndexOf(f, x) \in 1..Len(f) /\ f[IndexOf(f, x)].name = x
         /\ \A i \in 1..Len(f) : f[i].name = x => i = IndexOf(f, x)
<1>1. PICK k \in 1..Len(f) : f[k].name = x
  BY Zenon DEF NamesIn
<1>2. IndexOf(f, x) = k
  BY <1>1, IndexIs, Zenon
<1> QED BY <1>1, <1>2, Zenon DEF Tables

(* The three changes of a table. *)
Replaced(f, k, c) == [f EXCEPT ![k].contents = c]

Added(f, x, c) == Append(f, [name |-> x, contents |-> c])

Cut(f, p) == [i \in 1..Len(f) - 1 |-> IF i < p THEN f[i] ELSE f[i + 1]]

Put(f, x, c) == IF x \in NamesIn(f) THEN Replaced(f, IndexOf(f, x), c) ELSE Added(f, x, c)

(* What each change leaves. *)
IsReplaced(g, f, k, c) ==
  /\ g \in Tables /\ Len(g) = Len(f)
  /\ g[k] = [name |-> f[k].name, contents |-> c]
  /\ \A i \in 1..Len(f) : (i # k => g[i] = f[i]) /\ g[i].name = f[i].name
  /\ NamesIn(g) = NamesIn(f)

IsAdded(g, f, x, c) ==
  /\ g \in Tables /\ Len(g) = Len(f) + 1
  /\ g[Len(f) + 1] = [name |-> x, contents |-> c]
  /\ \A i \in 1..Len(f) : g[i] = f[i]
  /\ NamesIn(g) = NamesIn(f) \cup {x}

IsCut(g, f, p) ==
  /\ g \in Tables /\ Len(g) = Len(f) - 1
  /\ \A i \in 1..Len(f) - 1 : g[i] = IF i < p THEN f[i] ELSE f[i + 1]
  /\ NamesIn(g) = NamesIn(f) \ {f[p].name}

(* The fields of a file. *)
LEMMA FileFields ==
  ASSUME NEW x \in ValidNames, NEW c \in ShortContents
  PROVE  /\ [name |-> x, contents |-> c] \in File
         /\ [name |-> x, contents |-> c].name = x /\ [name |-> x, contents |-> c].contents = c
  BY Zenon DEF File

(* Contents replaced in place: ramfs_write_file on a file that exists. *)
LEMMA ReplacedFacts ==
  ASSUME NEW f \in Tables, NEW k \in 1..Len(f), NEW c \in ShortContents
  PROVE  IsReplaced(Replaced(f, k, c), f, k, c)
<1> DEFINE g == Replaced(f, k, c)
           r == [f[k] EXCEPT !.contents = c]
<1>1. f \in Seq(File) /\ f[k] \in File
  BY DEF Tables
<1>2. r = [name |-> f[k].name, contents |-> c] /\ r \in File
  BY <1>1 DEF File
<1>3. g = [f EXCEPT ![k] = r]
  BY Zenon DEF Replaced
<1> HIDE DEF g, r
<1>4. /\ g \in Seq(File) /\ Len(g) = Len(f) /\ g[k] = r
      /\ \A i \in 1..Len(f) : i # k => g[i] = f[i]
  BY <1>1, <1>2, <1>3
<1>5. r.name = f[k].name
  BY <1>2, Zenon
<1>6. \A i \in 1..Len(f) : g[i].name = f[i].name
  BY <1>4, <1>5, Zenon
<1>7. g \in Tables
  BY <1>4, <1>6, Zenon DEF Tables
<1>8. NamesIn(g) = NamesIn(f)
  BY <1>4, <1>6, Zenon DEF NamesIn
<1> QED BY <1>2, <1>4, <1>6, <1>7, <1>8, Zenon DEF g, IsReplaced

(* A file added behind the others: add_file. *)
LEMMA AddedFacts ==
  ASSUME NEW f \in Tables, NEW x \in ValidNames \ NamesIn(f), NEW c \in ShortContents
  PROVE  IsAdded(Added(f, x, c), f, x, c)
<1> DEFINE g == Added(f, x, c)
           r == [name |-> x, contents |-> c]
<1>1. r \in File /\ r.name = x
  BY FileFields, Zenon
<1> HIDE DEF r
<1>2. f \in Seq(File) /\ Len(f) \in Nat
  BY DEF Tables
<1>3. g = Append(f, r)
  BY Zenon DEF Added, r
<1> HIDE DEF g
<1>4. /\ g \in Seq(File) /\ Len(g) = Len(f) + 1 /\ g[Len(f) + 1] = r
      /\ \A i \in 1..Len(f) : g[i] = f[i]
  BY <1>1, <1>2, <1>3
<1>5. 1..Len(g) = (1..Len(f)) \cup {Len(f) + 1}
  BY <1>2, <1>4
<1>6. \A i \in 1..Len(f) : f[i].name # x
  BY Zenon DEF NamesIn
<1>7. g \in Tables
  BY <1>1, <1>4, <1>5, <1>6, Zenon DEF Tables
<1>8. NamesIn(g) = NamesIn(f) \cup {x}
  BY <1>1, <1>4, <1>5, ZenonT(30) DEF NamesIn
<1> QED BY <1>4, <1>7, <1>8, Zenon DEF g, r, IsAdded

(* The gap closed: ramfs_remove_file. *)
LEMMA CutFacts ==
  ASSUME NEW f \in Tables, NEW p \in 1..Len(f)
  PROVE  IsCut(Cut(f, p), f, p)
<1> DEFINE g == Cut(f, p)
<1>2. f \in Seq(File) /\ Len(f) \in Nat /\ Len(f) - 1 \in Nat
  BY DEF Tables
<1>3. \A i \in 1..Len(f) - 1 : g[i] = IF i < p THEN f[i] ELSE f[i + 1]
  BY Zenon DEF Cut
<1>4. g \in Seq(File) /\ Len(g) = Len(f) - 1
  BY <1>2 DEF Cut
<1> HIDE DEF g
<1>5. \A i \in 1..Len(g) : \E k \in 1..Len(f) :
        g[i] = f[k] /\ k # p /\ k = IF i < p THEN i ELSE i + 1
  BY <1>2, <1>3, <1>4
<1>6. \A k \in 1..Len(f) : k # p => \E i \in 1..Len(g) : g[i] = f[k]
  <2> TAKE k \in 1..Len(f)
  <2>1. CASE k < p
    BY <1>2, <1>3, <1>4, <2>1
  <2>2. CASE k > p
    <3>1. k - 1 \in 1..Len(g) /\ g[k - 1] = f[k]
      BY <1>2, <1>3, <1>4, <2>2
    <3> QED BY <3>1
  <2> QED BY <1>2, <2>1, <2>2
<1>7. g \in Tables
  <2>1. ASSUME NEW i \in 1..Len(g), NEW j \in 1..Len(g), g[i].name = g[j].name PROVE i = j
    <3>1. PICK k \in 1..Len(f) : g[i] = f[k] /\ k = IF i < p THEN i ELSE i + 1
      BY <1>5, Zenon
    <3>2. PICK l \in 1..Len(f) : g[j] = f[l] /\ l = IF j < p THEN j ELSE j + 1
      BY <1>5, Zenon
    <3>3. k = l
      BY <2>1, <3>1, <3>2, Zenon DEF Tables
    <3> QED BY <1>2, <1>4, <3>1, <3>2, <3>3
  <2> QED BY <1>4, <2>1, Zenon DEF Tables
<1>8. NamesIn(g) = NamesIn(f) \ {f[p].name}
  <2>1. \A k \in 1..Len(f) : k # p => f[k].name # f[p].name
    BY Zenon DEF Tables
  <2>2. \A i \in 1..Len(g) : g[i].name \in NamesIn(f) \ {f[p].name}
    BY <1>5, <2>1, Zenon DEF NamesIn
  <2>3. \A k \in 1..Len(f) : f[k].name # f[p].name => f[k].name \in NamesIn(g)
    BY <1>6, Zenon DEF NamesIn
  <2> QED BY <2>2, <2>3, Zenon DEF NamesIn
<1> QED BY <1>3, <1>4, <1>7, <1>8, Zenon DEF g, IsCut

(* Cutting a file out commutes with the other changes. *)
LEMMA CutReplaced ==
  ASSUME NEW f \in Tables, NEW p \in 1..Len(f), NEW k \in 1..Len(f), k # p,
         NEW c \in ShortContents, NEW l, l = IF k < p THEN k ELSE k - 1
  PROVE  /\ l \in 1..Len(f) - 1 /\ Cut(f, p)[l] = f[k]
         /\ Cut(Replaced(f, k, c), p) = Replaced(Cut(f, p), l, c)
<1> DEFINE g == Replaced(f, k, c)
           d == Cut(f, p)
           a == Cut(g, p)
           b == Replaced(d, l, c)
<1>0. Len(f) \in Nat
  BY DEF Tables
<1>1. l \in 1..Len(f) - 1
  BY <1>0
<1>2. IsCut(d, f, p) /\ IsReplaced(g, f, k, c)
  BY CutFacts, ReplacedFacts, Zenon
<1> HIDE DEF d, g
<1>3. d[l] = f[k]
  BY <1>0, <1>1, <1>2 DEF IsCut
<1>4. g \in Tables /\ Len(g) = Len(f) /\ d \in Tables /\ Len(d) = Len(f) - 1
  BY <1>2, Zenon DEF IsCut, IsReplaced
<1>5. IsCut(a, g, p) /\ IsReplaced(b, d, l, c)
  BY <1>1, <1>4, CutFacts, ReplacedFacts, Zenon
<1> HIDE DEF a, b
<1>6. /\ Len(a) = Len(f) - 1 /\ Len(b) = Len(f) - 1 /\ a \in Tables /\ b \in Tables
      /\ \A i \in 1..Len(f) - 1 : a[i] = IF i < p THEN g[i] ELSE g[i + 1]
  BY <1>4, <1>5, Zenon DEF IsCut, IsReplaced
<1>7. a[l] = b[l]
  <2>1. a[l] = g[k]
    BY <1>0, <1>1, <1>6
  <2> QED BY <1>2, <1>3, <1>5, <2>1, Zenon DEF IsReplaced
<1>8. ASSUME NEW i \in 1..Len(f) - 1, i # l PROVE a[i] = b[i]
  <2>1. i \in 1..Len(f) /\ i + 1 \in 1..Len(f) /\ (i < p => i # k) /\ (~(i < p) => i + 1 # k)
    BY <1>0, <1>1, <1>8
  <2>2. b[i] = d[i]
    BY <1>4, <1>5, <1>8, Zenon DEF IsReplaced
  <2>3. d[i] = IF i < p THEN f[i] ELSE f[i + 1]
    BY <1>2, Zenon DEF IsCut
  <2>4. (i < p => g[i] = f[i]) /\ (~(i < p) => g[i + 1] = f[i + 1])
    BY <1>2, <2>1, Zenon DEF IsReplaced
  <2> QED BY <1>6, <2>2, <2>3, <2>4, Zenon
<1>9. a = b
  <2>1. a \in Seq(File) /\ b \in Seq(File)
    BY <1>6, Zenon DEF Tables
  <2>2. \A i \in 1..Len(a) : a[i] = b[i]
    BY <1>6, <1>7, <1>8, Zenon
  <2> QED BY <1>6, <2>1, <2>2, SameSequence, Zenon
<1> QED BY <1>1, <1>3, <1>9, Zenon DEF a, b, d, g

(* Adding a file and taking another one out commute. *)
LEMMA CutAdded ==
  ASSUME NEW f \in Tables, NEW p \in 1..Len(f), NEW x \in ValidNames \ NamesIn(f),
         NEW c \in ShortContents
  PROVE  Cut(Added(f, x, c), p) = Added(Cut(f, p), x, c)
<1> DEFINE g == Added(f, x, c)
           d == Cut(f, p)
           a == Cut(g, p)
           b == Added(d, x, c)
<1>0. Len(f) \in Nat /\ p \in 1..Len(f) + 1
  BY DEF Tables
<1>2. IsCut(d, f, p) /\ IsAdded(g, f, x, c)
  BY CutFacts, AddedFacts, Zenon
<1> HIDE DEF d, g
<1>4. /\ g \in Tables /\ Len(g) = Len(f) + 1 /\ d \in Tables /\ Len(d) = Len(f) - 1
      /\ x \notin NamesIn(d)
  BY <1>2, Zenon DEF IsCut, IsAdded
<1>5. IsCut(a, g, p) /\ IsAdded(b, d, x, c)
  BY <1>0, <1>4, CutFacts, AddedFacts, Zenon
<1> HIDE DEF a, b
<1>6. /\ Len(d) + 1 = Len(f) /\ Len(g) - 1 = Len(f)
      /\ a \in Tables /\ b \in Tables /\ Len(a) = Len(f) /\ Len(b) = Len(f)
      /\ \A i \in 1..Len(f) : a[i] = IF i < p THEN g[i] ELSE g[i + 1]
  <2>1. Len(d) + 1 = Len(f) /\ Len(g) - 1 = Len(f)
    BY <1>0, <1>4
  <2> QED BY <1>5, <2>1, Zenon DEF IsCut, IsAdded
<1>8. ASSUME NEW i \in 1..Len(f) PROVE a[i] = b[i]
  <2>1. CASE i = Len(f)
    <3>1. ~(i < p)
      BY <1>0, <2>1
    <3>2. a[i] = g[Len(f) + 1] /\ b[i] = b[Len(d) + 1]
      BY <1>6, <2>1, <3>1, Zenon
    <3> QED BY <1>2, <1>5, <3>2, Zenon DEF IsAdded
  <2>2. CASE i # Len(f)
    <3>1. i \in 1..Len(f) - 1 /\ i \in 1..Len(d) /\ i + 1 \in 1..Len(f)
      BY <1>0, <1>4, <2>2
    <3>2. d[i] = (IF i < p THEN f[i] ELSE f[i + 1]) /\ b[i] = d[i]
      BY <1>2, <1>5, <3>1, Zenon DEF IsCut, IsAdded
    <3>3. g[i] = f[i] /\ g[i + 1] = f[i + 1]
      BY <1>2, <3>1, Zenon DEF IsAdded
    <3> QED BY <1>6, <3>2, <3>3, Zenon
  <2> QED BY <2>1, <2>2, Zenon
<1>9. a = b
  <2>1. a \in Seq(File) /\ b \in Seq(File)
    BY <1>6, Zenon DEF Tables
  <2> QED BY <1>6, <1>8, <2>1, SameSequence, Zenon
<1> QED BY <1>9, Zenon DEF a, b, d, g

(* Taking out two files in either order leaves the same table. *)
LEMMA CutCut ==
  ASSUME NEW f \in Tables, NEW p \in 1..Len(f), NEW k \in 1..Len(f), k < p
  PROVE  /\ p - 1 \in 1..Len(f) - 1 /\ Cut(f, k)[p - 1] = f[p]
         /\ k \in 1..Len(f) - 1 /\ Cut(f, p)[k] = f[k]
         /\ Cut(Cut(f, k), p - 1) = Cut(Cut(f, p), k)
<1> DEFINE g == Cut(f, k)
           d == Cut(f, p)
           a == Cut(g, p - 1)
           b == Cut(d, k)
<1>0. Len(f) \in Nat /\ p - 1 \in 1..Len(f) - 1 /\ k \in 1..Len(f) - 1
  BY DEF Tables
<1>2. IsCut(d, f, p) /\ IsCut(g, f, k)
  BY CutFacts, Zenon
<1> HIDE DEF d, g
<1>4. g \in Tables /\ Len(g) = Len(f) - 1 /\ d \in Tables /\ Len(d) = Len(f) - 1
  BY <1>2, Zenon DEF IsCut
<1>5. IsCut(a, g, p - 1) /\ IsCut(b, d, k)
  BY <1>0, <1>4, CutFacts, Zenon
<1> HIDE DEF a, b
<1>6. /\ a \in Tables /\ b \in Tables /\ Len(a) = Len(f) - 1 - 1 /\ Len(b) = Len(f) - 1 - 1
  BY <1>4, <1>5, Zenon DEF IsCut
<1>7. d[k] = f[k] /\ g[p - 1] = f[p]
  BY <1>0, <1>2 DEF IsCut
<1>8. ASSUME NEW i \in 1..Len(f) - 1 - 1 PROVE a[i] = b[i]
  <2>1. i \in 1..Len(f) - 1 /\ i + 1 \in 1..Len(f) - 1
    BY <1>0
  <2>2. /\ a[i] = IF i < p - 1 THEN g[i] ELSE g[i + 1]
        /\ b[i] = IF i < k THEN d[i] ELSE d[i + 1]
    BY <1>4, <1>5, Zenon DEF IsCut
  <2>3. /\ g[i] = IF i < k THEN f[i] ELSE f[i + 1]
        /\ g[i + 1] = IF i + 1 < k THEN f[i + 1] ELSE f[i + 1 + 1]
        /\ d[i] = IF i < p THEN f[i] ELSE f[i + 1]
        /\ d[i + 1] = IF i + 1 < p THEN f[i + 1] ELSE f[i + 1 + 1]
    BY <1>2, <2>1, Zenon DEF IsCut
  <2>4. CASE i < k
    <3>1. i < p - 1 /\ i < p
      BY <2>4
    <3> QED BY <2>2, <2>3, <2>4, <3>1, Zenon
  <2>5. CASE ~(i < k) /\ i < p - 1
    <3>1. i + 1 < p
      BY <2>5
    <3> QED BY <2>2, <2>3, <2>5, <3>1, Zenon
  <2>6. CASE ~(i < k) /\ ~(i < p - 1)
    <3>1. ~(i + 1 < p) /\ ~(i + 1 < k)
      BY <2>6
    <3> QED BY <2>2, <2>3, <2>6, <3>1, Zenon
  <2> QED BY <2>4, <2>5, <2>6, Zenon
<1>9. a = b
  <2>1. a \in Seq(File) /\ b \in Seq(File)
    BY <1>6, Zenon DEF Tables
  <2> QED BY <1>6, <1>8, <2>1, SameSequence, Zenon
<1> QED BY <1>0, <1>7, <1>9, Zenon DEF a, b, d, g

(* The operations of ramfs.c in terms of these changes. *)
LEMMA RemoveIs ==
  ASSUME NEW f \in Tables, NEW x \in ValidNames
  PROVE  /\ x \in NamesIn(f) => RemoveFile(f, x) = Cut(f, IndexOf(f, x))
         /\ x \notin NamesIn(f) => RemoveFile(f, x) = f
         /\ RemoveFile(f, x) \in Tables /\ NamesIn(RemoveFile(f, x)) = NamesIn(f) \ {x}
<1>1. CASE x \in NamesIn(f)
  <2>1. RemoveFile(f, x) = Cut(f, IndexOf(f, x))
    BY <1>1, Zenon DEF RemoveFile, HasFile, Cut
  <2>2. IndexOf(f, x) \in 1..Len(f) /\ f[IndexOf(f, x)].name = x
    BY <1>1, IndexFacts, Zenon
  <2>3. IsCut(Cut(f, IndexOf(f, x)), f, IndexOf(f, x))
    BY <2>2, CutFacts, Zenon
  <2> QED BY <1>1, <2>1, <2>2, <2>3, Zenon DEF IsCut
<1>2. CASE x \notin NamesIn(f)
  BY <1>2, Zenon DEF RemoveFile, HasFile
<1> QED BY <1>1, <1>2, Zenon

(* An accepted ramfs_write_file replaces or adds. *)
LEMMA PutFacts ==
  ASSUME NEW f \in Tables, NEW x \in ValidNames, NEW c \in ShortContents
  PROVE  /\ Put(f, x, c) \in Tables /\ NamesIn(Put(f, x, c)) = NamesIn(f) \cup {x}
         /\ CanWriteFile(f, x, c) => WriteFile(f, x, c) = Put(f, x, c)
<1>1. Put(f, x, c) \in Tables /\ NamesIn(Put(f, x, c)) = NamesIn(f) \cup {x}
  <2>1. CASE x \in NamesIn(f)
    <3>1. IsReplaced(Put(f, x, c), f, IndexOf(f, x), c)
      BY <2>1, IndexFacts, ReplacedFacts, Zenon DEF Put
    <3> QED BY <2>1, <3>1, Zenon DEF IsReplaced
  <2>2. CASE x \notin NamesIn(f)
    <3>1. IsAdded(Put(f, x, c), f, x, c)
      BY <2>2, AddedFacts, Zenon DEF Put
    <3> QED BY <3>1, Zenon DEF IsAdded
  <2> QED BY <2>1, <2>2, Zenon
<1>2. CanWriteFile(f, x, c) => WriteFile(f, x, c) = Put(f, x, c)
  BY Zenon DEF WriteFile, CanWriteFile, Put, AddFile, Replaced, Added
<1> QED BY <1>1, <1>2, Zenon

----------------------------------------------------------------------------
(* The file of the self-test: the rest of the table does not depend on it. *)
LEMMA TestIsValid == TestName \in ValidNames /\ TestContent \in ShortContents
  BY RamfsConstants

(* The table without the file of the self-test. *)
LEMMA WithoutFacts ==
  ASSUME NEW f \in Tables
  PROVE  /\ WithoutTest(f) \in Tables /\ NamesIn(WithoutTest(f)) = NamesIn(f) \ {TestName}
         /\ TestName \notin NamesIn(f) => WithoutTest(f) = f
         /\ TestName \in NamesIn(f) => WithoutTest(f) = Cut(f, IndexOf(f, TestName))
         /\ WithoutTest(WithoutTest(f)) = WithoutTest(f)
<1>1. /\ WithoutTest(f) \in Tables /\ NamesIn(WithoutTest(f)) = NamesIn(f) \ {TestName}
      /\ TestName \notin NamesIn(f) => WithoutTest(f) = f
      /\ TestName \in NamesIn(f) => WithoutTest(f) = Cut(f, IndexOf(f, TestName))
  BY RemoveIs, TestIsValid, Zenon DEF WithoutTest
<1>2. \A g \in Tables : TestName \notin NamesIn(g) => WithoutTest(g) = g
  BY RemoveIs, TestIsValid, Zenon DEF WithoutTest
<1> QED BY <1>1, <1>2, Zenon

(* A write of another file and the removal of TEST commute. *)
LEMMA WriteOther ==
  ASSUME NEW f \in Tables, NEW x \in ValidNames, x # TestName, NEW c \in ShortContents
  PROVE  WithoutTest(Put(f, x, c)) = Put(WithoutTest(f), x, c)
<1>0. Put(f, x, c) \in Tables /\ NamesIn(Put(f, x, c)) = NamesIn(f) \cup {x}
  BY PutFacts, Zenon
<1>1. CASE TestName \notin NamesIn(f)
  BY <1>0, <1>1, WithoutFacts, Zenon
<1>2. CASE TestName \in NamesIn(f) /\ x \in NamesIn(f)
  <2> DEFINE p == IndexOf(f, TestName)
             k == IndexOf(f, x)
             l == IF k < p THEN k ELSE k - 1
             g == Replaced(f, k, c)
  <2>1. /\ p \in 1..Len(f) /\ k \in 1..Len(f) /\ f[p].name = TestName /\ f[k].name = x
        /\ k # p
    BY <1>2, IndexFacts, Zenon
  <2>2. Put(f, x, c) = g /\ WithoutTest(f) = Cut(f, p)
    BY <1>2, WithoutFacts, Zenon DEF Put
  <2> HIDE DEF p, k
  <2>9. IsReplaced(g, f, k, c)
    BY <2>1, ReplacedFacts, Zenon
  <2>3. g \in Tables /\ Len(g) = Len(f) /\ g[p].name = TestName
    BY <2>1, <2>9, Zenon DEF IsReplaced
  <2>4. IndexOf(g, TestName) = p /\ TestName \in NamesIn(g)
    BY <2>1, <2>3, IndexIs, Zenon
  <2>5. WithoutTest(g) = Cut(g, p)
    BY <2>3, <2>4, WithoutFacts, Zenon
  <2>6. l \in 1..Len(f) - 1 /\ Cut(f, p)[l] = f[k] /\ Cut(g, p) = Replaced(Cut(f, p), l, c)
    BY <2>1, CutReplaced
  <2> HIDE DEF l, g
  <2>7. Cut(f, p) \in Tables /\ Len(Cut(f, p)) = Len(f) - 1
    BY <2>1, CutFacts, Zenon DEF IsCut
  <2>8. IndexOf(Cut(f, p), x) = l /\ x \in NamesIn(Cut(f, p))
    BY <2>1, <2>6, <2>7, IndexIs, Zenon
  <2> QED BY <2>2, <2>5, <2>6, <2>8, Zenon DEF Put
<1>3. CASE TestName \in NamesIn(f) /\ x \notin NamesIn(f)
  <2> DEFINE p == IndexOf(f, TestName)
             g == Added(f, x, c)
  <2>1. p \in 1..Len(f) /\ f[p].name = TestName
    BY <1>3, IndexFacts, Zenon
  <2>2. Put(f, x, c) = g /\ WithoutTest(f) = Cut(f, p)
    BY <1>3, WithoutFacts, Zenon DEF Put
  <2> HIDE DEF p
  <2>9. IsAdded(g, f, x, c)
    BY <1>3, AddedFacts, Zenon
  <2>3. g \in Tables /\ Len(g) = Len(f) + 1 /\ g[p].name = TestName
    BY <2>1, <2>9, Zenon DEF IsAdded
  <2>0. p \in 1..Len(g)
    BY <2>1, <2>3 DEF Tables
  <2>4. IndexOf(g, TestName) = p /\ TestName \in NamesIn(g)
    BY <2>0, <2>3, IndexIs, Zenon
  <2>5. WithoutTest(g) = Cut(g, p)
    BY <2>3, <2>4, WithoutFacts, Zenon
  <2>6. Cut(g, p) = Added(Cut(f, p), x, c)
    BY <1>3, <2>1, CutAdded, Zenon
  <2>7. x \notin NamesIn(Cut(f, p))
    BY <1>3, <2>1, CutFacts, Zenon DEF IsCut
  <2> QED BY <2>2, <2>5, <2>6, <2>7, Zenon DEF Put
<1> QED BY <1>1, <1>2, <1>3

(* A write of TEST is undone by the removal of TEST. *)
LEMMA WriteTest ==
  ASSUME NEW f \in Tables, NEW c \in ShortContents
  PROVE  WithoutTest(Put(f, TestName, c)) = WithoutTest(f)
<1>7. Put(f, TestName, c) \in Tables /\ NamesIn(Put(f, TestName, c)) = NamesIn(f) \cup {TestName}
  BY PutFacts, TestIsValid, Zenon
<1> DEFINE g == Put(f, TestName, c)
           k == IndexOf(g, TestName)
           a == Cut(g, k)
<1>0. Len(f) \in Nat
  BY DEF Tables
<1>1. g \in Tables /\ TestName \in NamesIn(g)
  BY <1>7, Zenon
<1> HIDE DEF g
<1>2. k \in 1..Len(g) /\ g[k].name = TestName
  BY <1>1, IndexFacts, Zenon
<1>6. WithoutTest(g) = a
  BY <1>1, WithoutFacts, Zenon
<1> HIDE DEF k
<1>5. IsCut(a, g, k)
  BY <1>1, <1>2, CutFacts, Zenon
<1> HIDE DEF a
<1>3. CASE TestName \in NamesIn(f)
  <2> DEFINE p == IndexOf(f, TestName)
             d == Cut(f, p)
  <2>1. p \in 1..Len(f) /\ f[p].name = TestName /\ WithoutTest(f) = d
    BY <1>3, IndexFacts, WithoutFacts, Zenon
  <2> HIDE DEF p
  <2>2. IsReplaced(g, f, p, c) /\ IsCut(d, f, p)
    BY <1>3, <2>1, ReplacedFacts, CutFacts, Zenon DEF Put, g, p
  <2> HIDE DEF d
  <2>3. Len(g) = Len(f) /\ g[p].name = TestName /\ \A i \in 1..Len(f) : i # p => g[i] = f[i]
    BY <2>1, <2>2, Zenon DEF IsReplaced
  <2>4. k = p
    BY <1>1, <2>1, <2>3, IndexIs, Zenon DEF k
  <2>5. /\ a \in Seq(File) /\ Len(a) = Len(f) - 1 /\ d \in Seq(File) /\ Len(d) = Len(f) - 1
        /\ \A i \in 1..Len(f) - 1 : /\ a[i] = IF i < p THEN g[i] ELSE g[i + 1]
                                    /\ d[i] = IF i < p THEN f[i] ELSE f[i + 1]
    BY <1>5, <2>2, <2>3, <2>4, Zenon DEF IsCut, Tables
  <2>7. ASSUME NEW i \in 1..Len(f) - 1 PROVE a[i] = d[i]
    <3>1. /\ i \in 1..Len(f) /\ i + 1 \in 1..Len(f)
          /\ (i < p => i # p) /\ (~(i < p) => i + 1 # p)
      BY <1>0, <2>1, SMT
    <3>2. (i < p => g[i] = f[i]) /\ (~(i < p) => g[i + 1] = f[i + 1])
      BY <2>3, <3>1, Zenon
    <3>3. CASE i < p
      BY <2>5, <3>2, <3>3, Zenon
    <3>4. CASE ~(i < p)
      BY <2>5, <3>2, <3>4, Zenon
    <3> QED BY <3>3, <3>4, Zenon
  <2>9. a = d
    BY <2>5, <2>7, SameSequence, Zenon
  <2> QED BY <1>6, <2>1, <2>9, Zenon DEF g
<1>4. CASE TestName \notin NamesIn(f)
  <2>1. IsAdded(g, f, TestName, c) /\ WithoutTest(f) = f
    BY <1>4, AddedFacts, TestIsValid, WithoutFacts, Zenon DEF Put, g
  <2>2. /\ Len(g) = Len(f) + 1 /\ g[Len(f) + 1].name = TestName
        /\ \A i \in 1..Len(f) : g[i] = f[i]
    BY <2>1, TestIsValid, FileFields DEF IsAdded
  <2>3. Len(f) + 1 \in 1..Len(g)
    BY <1>0, <2>2
  <2>4. k = Len(f) + 1
    BY <1>1, <2>2, <2>3, IndexIs, Zenon DEF k
  <2>5. /\ a \in Seq(File) /\ Len(a) = Len(g) - 1 /\ f \in Seq(File)
        /\ \A i \in 1..Len(g) - 1 : a[i] = IF i < k THEN g[i] ELSE g[i + 1]
    BY <1>5, Zenon DEF IsCut, Tables
  <2>6. Len(a) = Len(f) /\ \A i \in 1..Len(f) : a[i] = g[i]
    BY <1>0, <2>2, <2>4, <2>5
  <2>8. a = f
    BY <2>2, <2>5, <2>6, SameSequence, Zenon
  <2> QED BY <1>6, <2>1, <2>8, Zenon DEF g
<1> QED BY <1>3, <1>4

(* A removal of another file and the removal of TEST commute. *)
LEMMA RemoveOther ==
  ASSUME NEW f \in Tables, NEW x \in ValidNames, x # TestName
  PROVE  WithoutTest(RemoveFile(f, x)) = RemoveFile(WithoutTest(f), x)
<1>0. RemoveFile(f, x) \in Tables /\ NamesIn(RemoveFile(f, x)) = NamesIn(f) \ {x}
  BY RemoveIs, Zenon
<1>1. CASE TestName \notin NamesIn(f)
  BY <1>0, <1>1, WithoutFacts, Zenon
<1>2. CASE x \notin NamesIn(f)
  <2>1. RemoveFile(f, x) = f
    BY <1>2, RemoveIs, Zenon
  <2>2. WithoutTest(f) \in Tables /\ x \notin NamesIn(WithoutTest(f))
    BY <1>2, WithoutFacts, Zenon
  <2>3. RemoveFile(WithoutTest(f), x) = WithoutTest(f)
    BY <2>2, RemoveIs, Zenon
  <2> QED BY <2>1, <2>3, Zenon
<1>3. CASE TestName \in NamesIn(f) /\ x \in NamesIn(f)
  <2> DEFINE p == IndexOf(f, TestName)
             k == IndexOf(f, x)
             g == Cut(f, k)
             d == Cut(f, p)
  <2>1. /\ p \in 1..Len(f) /\ k \in 1..Len(f) /\ f[p].name = TestName /\ f[k].name = x
        /\ k # p /\ RemoveFile(f, x) = g /\ WithoutTest(f) = d
    BY <1>3, IndexFacts, WithoutFacts, RemoveIs, Zenon
  <2> HIDE DEF p, k
  <2>2. PICK q \in 1..Len(f) - 1, l \in 1..Len(f) - 1 :
          g[q] = f[p] /\ d[l] = f[k] /\ Cut(g, q) = Cut(d, l)
    <3>1. CASE k < p
      BY <2>1, <3>1, CutCut, Zenon
    <3>2. CASE p < k
      BY <2>1, <3>2, CutCut, Zenon
    <3>3. k < p \/ p < k
      BY <2>1
    <3> QED BY <3>1, <3>2, <3>3, Zenon
  <2>3. IsCut(g, f, k) /\ IsCut(d, f, p)
    BY <2>1, CutFacts, Zenon
  <2> HIDE DEF g, d
  <2>4. g \in Tables /\ Len(g) = Len(f) - 1 /\ d \in Tables /\ Len(d) = Len(f) - 1
    BY <2>3, Zenon DEF IsCut
  <2>5. /\ IndexOf(g, TestName) = q /\ TestName \in NamesIn(g)
        /\ IndexOf(d, x) = l /\ x \in NamesIn(d)
    BY <2>1, <2>2, <2>4, IndexIs, Zenon
  <2>6. WithoutTest(g) = Cut(g, q) /\ RemoveFile(d, x) = Cut(d, l)
    BY <2>4, <2>5, WithoutFacts, RemoveIs, Zenon
  <2> QED BY <2>1, <2>2, <2>6, Zenon
<1> QED BY <1>1, <1>2, <1>3, Zenon

----------------------------------------------------------------------------
(* The same command keeps two tables alike, and equal on what it names. *)
LEMMA AlikeIndex ==
  ASSUME NEW u \in Tables, NEW v \in Tables, NEW A, Alike(u, v, A), NEW x
  PROVE  /\ NamesIn(u) = NamesIn(v)
         /\ x \in NamesIn(u) => IndexOf(u, x) = IndexOf(v, x)
<1>1. NamesIn(u) = NamesIn(v)
  BY Zenon DEF NamesIn, Alike
<1>2. ASSUME x \in NamesIn(u) PROVE IndexOf(u, x) = IndexOf(v, x)
  <2>1. IndexOf(u, x) \in 1..Len(u) /\ u[IndexOf(u, x)].name = x
    BY <1>2, IndexFacts, Zenon
  <2>2. IndexOf(u, x) \in 1..Len(v) /\ v[IndexOf(u, x)].name = x
    BY <2>1, Zenon DEF Alike
  <2> QED BY <2>2, IndexIs, Zenon
<1> QED BY <1>1, <1>2, Zenon

(* A write keeps two tables alike, and makes them agree on its contents. *)
LEMMA AlikePut ==
  ASSUME NEW u \in Tables, NEW v \in Tables, NEW A, Alike(u, v, A),
         NEW x \in ValidNames, NEW c \in ShortContents
  PROVE  Alike(Put(u, x, c), Put(v, x, c), A \cup {x})
<1>0. /\ NamesIn(u) = NamesIn(v) /\ Len(u) = Len(v) /\ Len(u) \in Nat
      /\ x \in NamesIn(u) => IndexOf(u, x) = IndexOf(v, x)
  <2>1. Len(u) \in Nat
    BY DEF Tables
  <2> QED BY <2>1, AlikeIndex, Zenon DEF Alike
<1>1. CASE x \in NamesIn(u)
  <2> DEFINE k == IndexOf(u, x)
             g == Replaced(u, k, c)
             h == Replaced(v, k, c)
  <2>1. Put(u, x, c) = g /\ Put(v, x, c) = h
    BY <1>0, <1>1, Zenon DEF Put
  <2>2. /\ k \in 1..Len(u) /\ u[k].name = x /\ v[k].name = x
        /\ \A i \in 1..Len(u) : u[i].name = x => i = k
    BY <1>1, IndexFacts, Zenon DEF Alike
  <2> HIDE DEF k
  <2>5. IsReplaced(g, u, k, c) /\ IsReplaced(h, v, k, c)
    BY <1>0, <2>2, ReplacedFacts, Zenon
  <2> HIDE DEF g, h
  <2>3. /\ Len(g) = Len(u) /\ Len(h) = Len(u) /\ g[k] = h[k]
        /\ \A i \in 1..Len(u) : i # k => g[i] = u[i] /\ h[i] = v[i]
    BY <1>0, <2>2, <2>5, Zenon DEF IsReplaced
  <2>4. ASSUME NEW i \in 1..Len(g)
        PROVE  /\ g[i].name = h[i].name
               /\ g[i].name \in A \cup {x} => g[i].contents = h[i].contents
    <3>1. CASE i = k
      BY <2>3, <3>1, Zenon
    <3>2. CASE i # k
      <4>1. g[i] = u[i] /\ h[i] = v[i] /\ u[i].name # x
        BY <2>2, <2>3, <3>2, Zenon
      <4> QED BY <2>3, <4>1, Zenon DEF Alike
    <3> QED BY <3>1, <3>2, Zenon
  <2> QED BY <2>1, <2>3, <2>4, Zenon DEF Alike
<1>2. CASE x \notin NamesIn(u)
  <2> DEFINE g == Added(u, x, c)
             h == Added(v, x, c)
  <2>1. Put(u, x, c) = g /\ Put(v, x, c) = h
    BY <1>0, <1>2, Zenon DEF Put
  <2>2. /\ Len(g) = Len(u) + 1 /\ Len(h) = Len(u) + 1 /\ g[Len(u) + 1] = h[Len(u) + 1]
        /\ \A i \in 1..Len(u) : g[i] = u[i] /\ h[i] = v[i] /\ u[i].name # x
    <3>1. \A i \in 1..Len(u) : u[i].name # x
      BY <1>2, Zenon DEF NamesIn
    <3>2. IsAdded(g, u, x, c) /\ IsAdded(h, v, x, c)
      BY <1>0, <1>2, AddedFacts, Zenon
    <3> HIDE DEF g, h
    <3> QED BY <1>0, <3>1, <3>2, Zenon DEF IsAdded
  <2> HIDE DEF g, h
  <2>3. 1..Len(g) = 1..Len(u) \cup {Len(u) + 1}
    BY <1>0, <2>2
  <2>4. ASSUME NEW i \in 1..Len(g)
        PROVE  /\ g[i].name = h[i].name
               /\ g[i].name \in A \cup {x} => g[i].contents = h[i].contents
    <3>1. CASE i = Len(u) + 1
      BY <2>2, <3>1, Zenon
    <3>2. CASE i \in 1..Len(u)
      <4>1. g[i] = u[i] /\ h[i] = v[i] /\ u[i].name # x
        BY <2>2, <3>2, Zenon
      <4> QED BY <3>2, <4>1, Zenon DEF Alike
    <3> QED BY <2>3, <3>1, <3>2, Zenon
  <2> QED BY <2>1, <2>2, <2>4, Zenon DEF Alike
<1> QED BY <1>1, <1>2, Zenon

(* A removal keeps two tables alike. *)
LEMMA AlikeRemove ==
  ASSUME NEW u \in Tables, NEW v \in Tables, NEW A, Alike(u, v, A), NEW x \in ValidNames
  PROVE  Alike(RemoveFile(u, x), RemoveFile(v, x), A \cup {x})
<1>0. /\ NamesIn(u) = NamesIn(v) /\ Len(u) = Len(v) /\ Len(u) \in Nat
      /\ x \in NamesIn(u) => IndexOf(u, x) = IndexOf(v, x)
  <2>1. Len(u) \in Nat
    BY DEF Tables
  <2> QED BY <2>1, AlikeIndex, Zenon DEF Alike
<1>1. CASE x \in NamesIn(u)
  <2> DEFINE k == IndexOf(u, x)
             g == Cut(u, k)
             h == Cut(v, k)
  <2>1. /\ RemoveFile(u, x) = g /\ RemoveFile(v, x) = h
        /\ k \in 1..Len(u) /\ \A i \in 1..Len(u) : u[i].name = x => i = k
    BY <1>0, <1>1, RemoveIs, IndexFacts, Zenon
  <2> HIDE DEF k
  <2>4. IsCut(g, u, k) /\ IsCut(h, v, k)
    BY <1>0, <2>1, CutFacts, Zenon
  <2> HIDE DEF g, h
  <2>2. /\ Len(g) = Len(u) - 1 /\ Len(h) = Len(u) - 1
        /\ \A i \in 1..Len(u) - 1 : /\ g[i] = IF i < k THEN u[i] ELSE u[i + 1]
                                    /\ h[i] = IF i < k THEN v[i] ELSE v[i + 1]
    BY <1>0, <2>4, Zenon DEF IsCut
  <2>3. ASSUME NEW i \in 1..Len(g)
        PROVE  \E j \in 1..Len(u) : j # k /\ g[i] = u[j] /\ h[i] = v[j]
    <3>1. CASE i < k
      BY <1>0, <2>1, <2>2, <3>1
    <3>2. CASE ~(i < k)
      <4>1. i + 1 \in 1..Len(u) /\ i + 1 # k /\ i \in 1..Len(u) - 1
        BY <1>0, <2>1, <2>2, <3>2
      <4> QED BY <2>2, <3>2, <4>1, Zenon
    <3> QED BY <3>1, <3>2, Zenon
  <2>5. ASSUME NEW i \in 1..Len(g)
        PROVE  /\ g[i].name = h[i].name
               /\ g[i].name \in A \cup {x} => g[i].contents = h[i].contents
    <3>1. PICK j \in 1..Len(u) : j # k /\ g[i] = u[j] /\ h[i] = v[j]
      BY <2>3, Zenon
    <3>2. u[j].name # x
      BY <2>1, <3>1, Zenon
    <3> QED BY <3>1, <3>2, Zenon DEF Alike
  <2> QED BY <2>1, <2>2, <2>5, Zenon DEF Alike
<1>2. CASE x \notin NamesIn(u)
  <2>1. RemoveFile(u, x) = u /\ RemoveFile(v, x) = v
    BY <1>0, <1>2, RemoveIs, Zenon
  <2>2. \A i \in 1..Len(u) : u[i].name # x
    BY <1>2, Zenon DEF NamesIn
  <2> QED BY <2>1, <2>2, Zenon DEF Alike
<1> QED BY <1>1, <1>2, Zenon

(* ramfs_apply_journal_entry. *)
LEMMA ApplyFacts ==
  ASSUME NEW f \in Tables, NEW e \in Entry
  PROVE  /\ ApplyEntry(f, e) \in Tables
         /\ NamesIn(ApplyEntry(f, e)) \subseteq NamesIn(f) \cup {e.name}
         /\ e.operation = "remove" => ApplyEntry(f, e) = RemoveFile(f, e.name)
         /\ e.operation = "write" /\ CanApply(f, e) => ApplyEntry(f, e) = Put(f, e.name, e.content)
<1>1. /\ e.name \in ValidNames /\ e.content \in ShortContents
      /\ e.operation \in {"write", "remove"}
  BY Zenon DEF Entry
<1>2. CASE e.operation = "remove"
  BY <1>1, <1>2, RemoveIs, Zenon DEF ApplyEntry
<1>3. CASE e.operation = "write"
  <2>1. ApplyEntry(f, e) = WriteFile(f, e.name, e.content)
    BY <1>3, Zenon DEF ApplyEntry
  <2>2. CASE CanWriteFile(f, e.name, e.content)
    <3>1. ApplyEntry(f, e) = Put(f, e.name, e.content)
      BY <1>1, <2>1, <2>2, PutFacts, Zenon
    <3>2. Put(f, e.name, e.content) \in Tables
      BY <1>1, <2>2, PutFacts, Zenon DEF CanWriteFile
    <3>3. NamesIn(Put(f, e.name, e.content)) = NamesIn(f) \cup {e.name}
      BY <1>1, PutFacts, Zenon
    <3> QED BY <1>3, <3>1, <3>2, <3>3, Zenon
  <2>3. CASE ~CanWriteFile(f, e.name, e.content)
    <3>1. ApplyEntry(f, e) = f
      BY <2>1, <2>3, Zenon DEF WriteFile
    <3> QED BY <1>3, <2>3, <3>1, Zenon DEF CanApply
  <2> QED BY <2>2, <2>3, Zenon
<1> QED BY <1>1, <1>2, <1>3, Zenon

(* A record that both accept keeps two tables alike, TEST left aside. *)
LEMMA ApplyKeepsAlike ==
  ASSUME NEW f \in Tables, NEW g \in Tables, NEW A, NEW e \in Entry,
         Alike(WithoutTest(f), WithoutTest(g), A), CanApply(f, e), CanApply(g, e)
  PROVE  Alike(WithoutTest(ApplyEntry(f, e)), WithoutTest(ApplyEntry(g, e)), A \cup {e.name})
<1> DEFINE u == WithoutTest(f)
           v == WithoutTest(g)
<1>0. /\ e.name \in ValidNames /\ e.content \in ShortContents
      /\ e.operation \in {"write", "remove"}
  BY Zenon DEF Entry
<1>1. u \in Tables /\ v \in Tables /\ TestName \notin NamesIn(u)
  BY WithoutFacts, Zenon
<1>2. CASE e.name # TestName
  <2>1. CASE e.operation = "write"
    <3>1. /\ WithoutTest(ApplyEntry(f, e)) = Put(u, e.name, e.content)
          /\ WithoutTest(ApplyEntry(g, e)) = Put(v, e.name, e.content)
      <4>1. /\ ApplyEntry(f, e) = Put(f, e.name, e.content)
            /\ ApplyEntry(g, e) = Put(g, e.name, e.content)
        BY <2>1, ApplyFacts, Zenon
      <4> QED BY <1>0, <1>2, <4>1, WriteOther
    <3> HIDE DEF u, v
    <3>2. Alike(Put(u, e.name, e.content), Put(v, e.name, e.content), A \cup {e.name})
      BY <1>0, <1>1, AlikePut, Zenon DEF u, v
    <3> QED BY <3>1, <3>2, Zenon
  <2>2. CASE e.operation = "remove"
    <3>1. /\ WithoutTest(ApplyEntry(f, e)) = RemoveFile(u, e.name)
          /\ WithoutTest(ApplyEntry(g, e)) = RemoveFile(v, e.name)
      BY <1>0, <1>2, <2>2, ApplyFacts, RemoveOther, Zenon
    <3>2. Alike(RemoveFile(u, e.name), RemoveFile(v, e.name), A \cup {e.name})
      BY <1>0, <1>1, AlikeRemove, Zenon
    <3> QED BY <3>1, <3>2, Zenon
  <2> QED BY <1>0, <2>1, <2>2, Zenon
<1>3. CASE e.name = TestName
  <2>1. WithoutTest(ApplyEntry(f, e)) = u /\ WithoutTest(ApplyEntry(g, e)) = v
    <3>1. CASE e.operation = "write"
      BY <1>0, <1>3, <3>1, ApplyFacts, WriteTest, Zenon
    <3>2. CASE e.operation = "remove"
      <4>1. ApplyEntry(f, e) = WithoutTest(f) /\ ApplyEntry(g, e) = WithoutTest(g)
        BY <1>3, <3>2, ApplyFacts, Zenon DEF WithoutTest
      <4> QED BY <4>1, WithoutFacts, Zenon
    <3> QED BY <1>0, <3>1, <3>2, Zenon
  <2>2. \A i \in 1..Len(u) : u[i].name # TestName
    BY <1>1, Zenon DEF NamesIn
  <2> HIDE DEF u, v
  <2>3. Alike(u, v, A \cup {TestName})
    BY <2>2, Zenon DEF Alike, u, v
  <2> QED BY <1>3, <2>1, <2>3, Zenon
<1> QED BY <1>2, <1>3, Zenon

----------------------------------------------------------------------------
(* Replays. *)

(* Induction up to a bound, with the property given as a set. *)
LEMMA UpTo ==
  ASSUME NEW m \in Nat, NEW S, 0 \in S, \A n \in 0..m - 1 : n \in S => n + 1 \in S
  PROVE  \A n \in 0..m : n \in S
<1> DEFINE T == {n \in 0..m : n \notin S}
           R == {ab \in Nat \X Nat : ab[1] < ab[2]}
<1> SUFFICES ASSUME T # {} PROVE FALSE
  BY Zenon
<1>1. T \subseteq Nat
  OBVIOUS
<1>2. IsWellFoundedOn(R, Nat)
  BY NatLessThanWellFounded, Zenon DEF OpToRel
<1>3. PICK x \in T : \A y \in T : ~(<<y, x>> \in R)
  <2> HIDE DEF R, T
  <2> QED BY <1>1, <1>2, WFMin, Zenon
<1>4. x \in Nat /\ x # 0 /\ x - 1 \in 0..m - 1 /\ x - 1 \in 0..m /\ x - 1 < x /\ x = (x - 1) + 1
  BY <1>3
<1>5. x - 1 \in Nat /\ <<x - 1, x>> \in R
  BY <1>4
<1>6. x - 1 \in S
  BY <1>3, <1>4, <1>5, Zenon
<1> QED BY <1>3, <1>4, <1>6, Zenon

(* The tables that a replay of s goes through. *)
IsReplay(t, s) ==
  /\ t[0] = InitialFiles
  /\ \A n \in 1..Len(s) : t[n] = ApplyEntry(t[n - 1], s[n])

(* What ramfs_init installs. *)
LEMMA InitialIsTable ==
  /\ InitialFiles \in Tables /\ Len(InitialFiles) = Len(Builtin)
  /\ \A i \in 1..Len(Builtin) : InitialFiles[i].name = Builtin[i]
  /\ TestName \notin NamesIn(InitialFiles)
<1>1. /\ Len(Builtin) \in Nat /\ \A i \in 1..Len(Builtin) : Builtin[i] \in ValidNames
      /\ Default \in ShortContents
  BY RamfsConstants
<1>2. \A i \in 1..Len(Builtin) : /\ InitialFiles[i] = [name |-> Builtin[i], contents |-> Default]
                                 /\ InitialFiles[i] \in File /\ InitialFiles[i].name = Builtin[i]
  BY <1>1, Zenon DEF InitialFiles, File
<1>3. InitialFiles \in Seq(File) /\ Len(InitialFiles) = Len(Builtin)
  BY <1>1, <1>2 DEF InitialFiles
<1>4. InitialFiles \in Tables
  <2>1. ASSUME NEW i \in 1..Len(InitialFiles), NEW j \in 1..Len(InitialFiles),
               InitialFiles[i].name = InitialFiles[j].name
        PROVE  i = j
    <3>1. Builtin[i] = Builtin[j]
      BY <1>2, <1>3, <2>1, Zenon
    <3> QED BY <1>3, <3>1, RamfsConstants
  <2> QED BY <1>3, <2>1, Zenon DEF Tables
<1>5. TestName \notin NamesIn(InitialFiles)
  <2>1. ASSUME NEW i \in 1..Len(InitialFiles) PROVE InitialFiles[i].name # TestName
    <3>1. Builtin[i] # TestName
      BY <1>3, RamfsConstants
    <3> QED BY <1>2, <1>3, <3>1, Zenon
  <2> QED BY <2>1, Zenon DEF NamesIn
<1> QED BY <1>2, <1>3, <1>4, <1>5, Zenon

(* The replay of any part of a log goes through some tables, ... *)
LEMMA ReplayExists ==
  ASSUME NEW s \in Seq(Entry), NEW m \in 0..Len(s)
  PROVE  \E t \in [0..m -> Tables] :
           t[0] = InitialFiles /\ \A n \in 1..m : t[n] = ApplyEntry(t[n - 1], s[n])
<1> DEFINE Good(t, k) == /\ t \in [0..k -> Tables] /\ t[0] = InitialFiles
                         /\ \A n \in 1..k : t[n] = ApplyEntry(t[n - 1], s[n])
           S == {k \in 0..Len(s) : \E t : Good(t, k)}
<1>0. Len(s) \in Nat /\ \A n \in 1..Len(s) : s[n] \in Entry
  OBVIOUS
<1>1. 0 \in S
  <2>1. Good([i \in 0..0 |-> InitialFiles], 0)
    BY InitialIsTable
  <2> HIDE DEF Good
  <2> QED BY <1>0, <2>1
<1>2. ASSUME NEW k \in 0..Len(s) - 1, k \in S PROVE k + 1 \in S
  <2>1. PICK t : Good(t, k)
    BY <1>2, Zenon
  <2> DEFINE r == [i \in 0..k + 1 |-> IF i <= k THEN t[i] ELSE ApplyEntry(t[k], s[k + 1])]
  <2>2. k \in Nat /\ k + 1 \in 1..Len(s) /\ k \in 0..k /\ k + 1 \in 0..Len(s)
    BY <1>0
  <2>3. t[k] \in Tables /\ ApplyEntry(t[k], s[k + 1]) \in Tables
    BY <1>0, <2>1, <2>2, ApplyFacts, Zenon
  <2>4. /\ \A i \in 0..k : i \in 0..k + 1 /\ r[i] = t[i]
        /\ k + 1 \in 0..k + 1 /\ r[k + 1] = ApplyEntry(t[k], s[k + 1])
    BY <2>2
  <2>5. r \in [0..k + 1 -> Tables] /\ r[0] = InitialFiles
    <3>1. \A i \in 0..k + 1 : i \in 0..k \/ i = k + 1
      BY <2>2
    <3>2. \A i \in 0..k + 1 : r[i] \in Tables
      BY <2>1, <2>3, <2>4, <3>1, Zenon
    <3>3. 0 \in 0..k
      BY <2>2
    <3> QED BY <2>1, <2>4, <3>2, <3>3, Zenon
  <2> HIDE DEF r
  <2>6. ASSUME NEW n \in 1..k + 1 PROVE r[n] = ApplyEntry(r[n - 1], s[n])
    <3>1. CASE n = k + 1
      <4>1. n - 1 = k
        BY <2>2, <3>1
      <4> QED BY <2>2, <2>4, <3>1, <4>1, Zenon
    <3>2. CASE n # k + 1
      <4>1. n \in 1..k /\ n \in 0..k /\ n - 1 \in 0..k
        BY <2>2, <3>2
      <4> QED BY <2>1, <2>4, <4>1, Zenon
    <3> QED BY <3>1, <3>2, Zenon
  <2>7. Good(r, k + 1)
    BY <2>5, <2>6, Zenon
  <2> HIDE DEF Good
  <2> QED BY <2>2, <2>7, Zenon
<1> HIDE DEF S
<1>3. \A k \in 0..Len(s) : k \in S
  BY <1>0, <1>1, <1>2, UpTo, Zenon
<1> QED BY <1>3, Zenon DEF S

(* ... and the loop of journal_replay computes the last of them. *)
LEMMA ReplayLoop ==
  ASSUME NEW s \in Seq(Entry)
  PROVE  \E t \in [0..Len(s) -> Tables] : IsReplay(t, s) /\ ApplyAll(s) = t[Len(s)]
<1> DEFINE step(f) == [n \in 0..Len(s) |->
                         IF n = 0 THEN InitialFiles ELSE ApplyEntry(f[n - 1], s[n])]
           K == CHOOSE h : h = step(h)
<1>0. Len(s) \in Nat /\ Len(s) \in 0..Len(s)
  OBVIOUS
<1>1. PICK t \in [0..Len(s) -> Tables] :
        t[0] = InitialFiles /\ \A n \in 1..Len(s) : t[n] = ApplyEntry(t[n - 1], s[n])
  BY <1>0, ReplayExists, Zenon
<1>2. t = step(t)
  <2>1. ASSUME NEW n \in 0..Len(s) PROVE t[n] = step(t)[n]
    <3>1. CASE n = 0
      BY <1>1, <3>1, Zenon
    <3>2. CASE n # 0
      <4>1. n \in 1..Len(s)
        BY <1>0, <3>2
      <4> QED BY <1>1, <3>2, <4>1, Zenon
    <3> QED BY <3>1, <3>2, Zenon
  <2> QED BY <1>1, <2>1, Zenon
<1>3. ApplyAll(s) = K[Len(s)]
  BY Zenon DEF ApplyAll
<1>4. K = step(K)
  <2> HIDE DEF step
  <2> QED BY <1>2, Zenon
<1>5. \A n \in 0..Len(s) : K[n] = IF n = 0 THEN InitialFiles ELSE ApplyEntry(K[n - 1], s[n])
  <2> HIDE DEF K
  <2> QED BY <1>4, Zenon
<1> HIDE DEF K
<1>6. DOMAIN K = 0..Len(s) /\ K = [n \in 0..Len(s) |-> K[n]]
  BY <1>4, Zenon
<1> HIDE DEF step
<1>7. IsReplay(K, s)
  <2>1. 0 \in 0..Len(s) /\ \A n \in 1..Len(s) : n \in 0..Len(s) /\ n # 0
    BY <1>0
  <2> QED BY <1>5, <2>1, Zenon DEF IsReplay
<1>8. \A n \in 0..Len(s) : n \in {k \in 0..Len(s) : K[k] \in Tables}
  <2> DEFINE S == {k \in 0..Len(s) : K[k] \in Tables}
  <2>1. 0 \in S
    <3>1. 0 \in 0..Len(s)
      BY <1>0
    <3> QED BY <1>7, <3>1, InitialIsTable, Zenon DEF IsReplay
  <2>2. ASSUME NEW n \in 0..Len(s) - 1, n \in S PROVE n + 1 \in S
    <3>1. n + 1 \in 1..Len(s) /\ n + 1 \in 0..Len(s) /\ (n + 1) - 1 = n /\ s[n + 1] \in Entry
      BY <1>0
    <3>2. K[n + 1] = ApplyEntry(K[n], s[n + 1])
      BY <1>7, <3>1 DEF IsReplay
    <3> QED BY <2>2, <3>1, <3>2, ApplyFacts, Zenon
  <2> HIDE DEF S
  <2>3. \A n \in 0..Len(s) : n \in S
    BY <1>0, <2>1, <2>2, UpTo, Zenon
  <2> QED BY <2>3, Zenon DEF S
<1>9. K \in [0..Len(s) -> Tables]
  BY <1>6, <1>8, Zenon
<1> QED BY <1>3, <1>7, <1>9, Zenon

(* One more record is one more call of ramfs_apply_journal_entry. *)
LEMMA ReplayAppended ==
  ASSUME NEW s \in Seq(Entry), NEW e \in Entry
  PROVE  /\ ApplyAll(s) \in Tables
         /\ ApplyAll(Append(s, e)) = ApplyEntry(ApplyAll(s), e)
<1> DEFINE r == Append(s, e)
<1>1. /\ r \in Seq(Entry) /\ Len(r) = Len(s) + 1 /\ r[Len(s) + 1] = e /\ Len(s) \in Nat
      /\ \A n \in 1..Len(s) : r[n] = s[n]
  OBVIOUS
<1> HIDE DEF r
<1>2. PICK t \in [0..Len(s) -> Tables] : IsReplay(t, s) /\ ApplyAll(s) = t[Len(s)]
  BY ReplayLoop, Zenon
<1>3. PICK u \in [0..Len(r) -> Tables] : IsReplay(u, r) /\ ApplyAll(r) = u[Len(r)]
  BY <1>1, ReplayLoop, Zenon
<1> DEFINE S == {n \in 0..Len(s) : t[n] = u[n]}
<1>4. 0 \in S
  <2>1. 0 \in 0..Len(s)
    BY <1>1
  <2> QED BY <1>2, <1>3, <2>1, Zenon DEF IsReplay
<1>5. ASSUME NEW n \in 0..Len(s) - 1, n \in S PROVE n + 1 \in S
  <2>1. /\ n + 1 \in 1..Len(s) /\ n + 1 \in 1..Len(r) /\ n + 1 \in 0..Len(s)
        /\ (n + 1) - 1 = n
    BY <1>1
  <2>2. t[n + 1] = ApplyEntry(t[(n + 1) - 1], s[n + 1])
    BY <1>2, <2>1, Zenon DEF IsReplay
  <2>3. u[n + 1] = ApplyEntry(u[(n + 1) - 1], r[n + 1])
    BY <1>3, <2>1, Zenon DEF IsReplay
  <2> QED BY <1>1, <1>5, <2>1, <2>2, <2>3, Zenon
<1> HIDE DEF S
<1>6. \A n \in 0..Len(s) : n \in S
  BY <1>1, <1>4, <1>5, UpTo, Zenon
<1>7. Len(s) \in 0..Len(s) /\ Len(s) + 1 \in 1..Len(r) /\ (Len(s) + 1) - 1 = Len(s)
  BY <1>1
<1>8. t[Len(s)] = u[Len(s)] /\ t[Len(s)] \in Tables
  BY <1>6, <1>7, Zenon DEF S
<1>9. u[Len(s) + 1] = ApplyEntry(u[(Len(s) + 1) - 1], r[Len(s) + 1])
  BY <1>3, <1>7, Zenon DEF IsReplay
<1> QED BY <1>1, <1>2, <1>3, <1>7, <1>8, <1>9, Zenon DEF r

(* A replay leaves a table. *)
LEMMA ReplayLoopTable ==
  ASSUME NEW s \in Seq(Entry)
  PROVE  ApplyAll(s) \in Tables
<1>1. PICK t \in [0..Len(s) -> Tables] : IsReplay(t, s) /\ ApplyAll(s) = t[Len(s)]
  BY ReplayLoop, Zenon
<1>2. Len(s) \in 0..Len(s)
  OBVIOUS
<1> QED BY <1>1, <1>2, Zenon

(* An empty log leaves what ramfs_init installs. *)
LEMMA ReplayOfNothing == ApplyAll(<<>>) = InitialFiles /\ Applicable(<<>>)
<1>1. <<>> \in Seq(Entry) /\ Len(<<>>) = 0 /\ 1..Len(<<>>) = {}
  OBVIOUS
<1>2. ApplyAll(<<>>) = InitialFiles
  BY <1>1, ReplayLoop, Zenon DEF IsReplay
<1> QED BY <1>1, <1>2, Zenon DEF Applicable

(* A longer log applies when the shorter one and then its last record do. *)
LEMMA ApplicableAppended ==
  ASSUME NEW s \in Seq(Entry), NEW e \in Entry
  PROVE  Applicable(Append(s, e)) <=> Applicable(s) /\ CanApply(ApplyAll(s), e)
<1> DEFINE r == Append(s, e)
<1>1. /\ Len(r) = Len(s) + 1 /\ r[Len(s) + 1] = e /\ Len(s) \in Nat
      /\ \A n \in 1..Len(s) : r[n] = s[n]
  OBVIOUS
<1>2. \A k \in 1..Len(s) : SubSeq(r, 1, k - 1) = SubSeq(s, 1, k - 1)
  BY <1>1
<1>3. SubSeq(r, 1, (Len(s) + 1) - 1) = s
  BY <1>1
<1> HIDE DEF r
<1>4. 1..Len(r) = 1..Len(s) \cup {Len(s) + 1}
  BY <1>1
<1>5. \A k \in 1..Len(s) : CanApply(ApplyAll(SubSeq(r, 1, k - 1)), r[k])
                             <=> CanApply(ApplyAll(SubSeq(s, 1, k - 1)), s[k])
  BY <1>1, <1>2, Zenon
<1>6. CanApply(ApplyAll(SubSeq(r, 1, (Len(s) + 1) - 1)), r[Len(s) + 1])
        <=> CanApply(ApplyAll(s), e)
  BY <1>1, <1>3, Zenon
<1>7. Applicable(r) <=> \A k \in 1..Len(r) : CanApply(ApplyAll(SubSeq(r, 1, k - 1)), r[k])
  BY Zenon DEF Applicable
<1> QED BY <1>4, <1>5, <1>6, <1>7, Zenon DEF Applicable, r

(* Recorded names and TEST, as the log grows by one record. *)
LEMMA RecordedAppended ==
  ASSUME acked \in Seq(Entry), NEW e \in Entry, acked' = Append(acked, e)
  PROVE  /\ Recorded' = Recorded \cup {e.name}
         /\ TestNameFree' => TestNameFree /\ e.name # TestName
<1>1. /\ Len(acked') = Len(acked) + 1 /\ acked'[Len(acked) + 1] = e /\ Len(acked) \in Nat
      /\ \A n \in 1..Len(acked) : acked'[n] = acked[n]
  OBVIOUS
<1>2. 1..Len(acked') = 1..Len(acked) \cup {Len(acked) + 1}
  BY <1>1
<1>3. Recorded' = Recorded \cup {e.name}
  BY <1>1, <1>2 DEF Recorded
<1>4. TestNameFree' => TestNameFree
  BY <1>1, <1>2, Zenon DEF TestNameFree
<1>5. TestNameFree' => e.name # TestName
  BY <1>1, <1>2, Zenon DEF TestNameFree
<1> QED BY <1>3, <1>4, <1>5, Zenon

(* ramfs_self_test leaves the table without TEST. *)
LEMMA AfterTest ==
  ASSUME NEW f \in Tables, SelfTestPasses(f)
  PROVE  AfterSelfTest(f) = WithoutTest(f)
<1>1. WriteFile(f, TestName, TestContent) = Put(f, TestName, TestContent)
  BY TestIsValid, PutFacts, Zenon DEF SelfTestPasses
<1> QED BY <1>1, TestIsValid, WriteTest, Zenon DEF AfterSelfTest, WithoutTest

(* A table is like itself. *)
LEMMA AlikeSelf ==
  ASSUME NEW f, NEW A
  PROVE  Alike(f, f, A)
  BY Zenon DEF Alike

(* Two tables with the same names accept the same records. *)
LEMMA AlikeAccepts ==
  ASSUME NEW f \in Tables, NEW g \in Tables, NEW A, NEW e,
         TestName \notin NamesIn(f), TestName \notin NamesIn(g),
         Alike(WithoutTest(f), WithoutTest(g), A), CanApply(f, e)
  PROVE  CanApply(g, e)
<1>1. Alike(f, g, A)
  BY WithoutFacts, Zenon
<1>2. Len(f) = Len(g) /\ NamesIn(f) = NamesIn(g)
  <2>1. Len(f) = Len(g) /\ \A i \in 1..Len(f) : f[i].name = g[i].name
    BY <1>1, Zenon DEF Alike
  <2> QED BY <2>1, Zenon DEF NamesIn
<1> QED BY <1>2, Zenon DEF CanApply, CanWriteFile

(* pformat starts a log on the names that ramfs_init installs. *)
LEMMA PristineShowsNothing ==
  ASSUME NEW f \in Tables, IsPristine(f)
  PROVE  TestName \notin NamesIn(f) /\ Alike(WithoutTest(f), WithoutTest(InitialFiles), {})
<1>1. /\ Len(f) = Len(InitialFiles)
      /\ \A i \in 1..Len(f) : f[i].name = InitialFiles[i].name
  BY InitialIsTable, Zenon DEF IsPristine
<1>2. NamesIn(f) = NamesIn(InitialFiles)
  BY <1>1, Zenon DEF NamesIn
<1>3. TestName \notin NamesIn(f)
  BY <1>2, InitialIsTable, Zenon
<1>4. WithoutTest(f) = f /\ WithoutTest(InitialFiles) = InitialFiles
  BY <1>3, InitialIsTable, WithoutFacts, Zenon
<1> QED BY <1>1, <1>3, <1>4, Zenon DEF Alike

(* The calls of the shell keep the table a table, whatever their arguments.*)
LEMMA CallsKeepTable ==
  ASSUME NEW f \in Tables, NEW x, NEW c
  PROVE  WriteFile(f, x, c) \in Tables /\ RemoveFile(f, x) \in Tables
<1>1. WriteFile(f, x, c) \in Tables
  <2>1. CASE CanWriteFile(f, x, c)
    <3>1. x \in ValidNames /\ c \in ShortContents
      BY <2>1, Zenon DEF CanWriteFile
    <3> QED BY <2>1, <3>1, PutFacts, Zenon
  <2>2. CASE ~CanWriteFile(f, x, c)
    BY <2>2, Zenon DEF WriteFile
  <2> QED BY <2>1, <2>2, Zenon
<1>2. RemoveFile(f, x) \in Tables
  <2>1. CASE x \in ValidNames
    BY <2>1, RemoveIs, Zenon
  <2>2. CASE x \notin ValidNames
    BY <2>2, Zenon DEF RemoveFile, HasFile
  <2> QED BY <2>1, <2>2, Zenon
<1> QED BY <1>1, <1>2, Zenon

----------------------------------------------------------------------------
(* What every step preserves of the records and of the table. The record   *)
(* in flight has passed the preflight against a table that has the names   *)
(* of the acknowledged records' table, so the replay accepts it as well.   *)
LogApplies ==
  /\ TestNameFree => Applicable(acked) /\ TestName \notin NamesIn(ApplyAll(acked))
  /\ inflight # NoEntry /\ TestNameFree /\ inflight.name # TestName =>
       CanApply(ApplyAll(acked), inflight)

TableInv ==
  /\ LogApplies
  /\ files \in Tables
  /\ enabled /\ Applicable(acked) =>
       Alike(WithoutTest(files), WithoutTest(ApplyAll(acked)), Recorded)
  /\ enabled /\ TestNameFree => TestName \notin NamesIn(files)
  /\ phase \in {"format", "format_verify"} => IsPristine(files)

(* The table before ramfs_init. *)
LEMMA EmptyIsTable == <<>> \in Tables
  BY DEF Tables

(* The first boot: a log of one record at most, which always fits. *)
LEMMA TableInit == Init => TableInv
<1> SUFFICES ASSUME Init PROVE TableInv
  OBVIOUS
<1>1. acked = <<>> \/ \E e \in Entry : acked = Append(<<>>, e)
  <2>1. CASE superblock # "valid"
    BY <2>1, Zenon DEF Init
  <2>2. CASE log = EmptyLog
    BY <2>2, EmptyLogIsEmpty, EmptyLogScans, Zenon DEF Init
  <2>3. ASSUME NEW s \in 1..MaxSequence, NEW n \in ValidNames, log = SeededLog(s, n),
               superblock = "valid"
        PROVE  \E e \in Entry : acked = Append(<<>>, e)
    <3>1. acked = CommittedEntries(log)
      BY <2>3, Zenon DEF Init
    <3>2. acked \in Seq(Entry) /\ Len(acked) = 1
      BY <2>3, <3>1, SeededLogScans, Zenon
    <3>3. acked[1] \in Entry /\ acked = Append(<<>>, acked[1])
      BY <3>2
    <3> QED BY <3>3, Zenon
  <2> QED BY <2>1, <2>2, <2>3, Zenon DEF Init, InitialDisk
<1>2. inflight = NoEntry /\ ~enabled /\ files = <<>> /\ phase = "off"
  BY Zenon DEF Init
<1>3. TestNameFree => Applicable(acked) /\ TestName \notin NamesIn(ApplyAll(acked))
  <2>1. CASE acked = <<>>
    BY <2>1, ReplayOfNothing, InitialIsTable, Zenon
  <2>2. ASSUME NEW e \in Entry, acked = Append(<<>>, e), TestNameFree
        PROVE  Applicable(acked) /\ TestName \notin NamesIn(ApplyAll(acked))
    <3>1. <<>> \in Seq(Entry) /\ Len(acked) = 1 /\ acked[1] = e /\ 1 \in 1..Len(acked)
      BY <2>2
    <3>2. e.name # TestName
      BY <2>2, <3>1, Zenon DEF TestNameFree
    <3>3. CanApply(InitialFiles, e)
      <4>1. Len(InitialFiles) # MaxFiles
        BY InitialIsTable, RamfsConstants
      <4> QED BY <4>1, Zenon DEF CanApply, CanWriteFile, Entry
    <3>4. Applicable(acked)
      BY <2>2, <3>1, <3>3, ApplicableAppended, ReplayOfNothing, Zenon
    <3>5. ApplyAll(acked) = ApplyEntry(InitialFiles, e)
      BY <2>2, <3>1, ReplayAppended, ReplayOfNothing, Zenon
    <3>6. NamesIn(ApplyEntry(InitialFiles, e)) \subseteq NamesIn(InitialFiles) \cup {e.name}
      BY InitialIsTable, ApplyFacts, Zenon
    <3> QED BY <3>2, <3>4, <3>5, <3>6, InitialIsTable, Zenon
  <2> QED BY <1>1, <2>1, <2>2, Zenon
<1> QED BY <1>2, <1>3, EmptyIsTable, Zenon DEF TableInv, LogApplies

(* With the journal off nothing is claimed of the table. *)
LEMMA OffStep ==
  ASSUME TableInv, UNCHANGED ghosts, enabled' = FALSE, files' \in Tables,
         phase' \notin {"format", "format_verify"}
  PROVE  TableInv'
<1>1. acked' = acked /\ inflight' = inflight
  BY Zenon DEF ghosts
<1>2. LogApplies'
  BY <1>1, Zenon DEF TableInv, LogApplies, TestNameFree
<1> QED BY <1>2, Zenon DEF TableInv

(* Nor does anything change while the table and the records stay. *)
LEMMA SteadyStep ==
  ASSUME TableInv, UNCHANGED <<files, enabled, ghosts>>,
         phase' \in {"format", "format_verify"} => IsPristine(files)
  PROVE  TableInv'
<1>1. acked' = acked /\ inflight' = inflight /\ files' = files /\ enabled' = enabled
  BY Zenon DEF ghosts
<1>2. LogApplies'
  BY <1>1, Zenon DEF TableInv, LogApplies, TestNameFree
<1>3. Recorded' = Recorded /\ TestNameFree' = TestNameFree
  BY <1>1, Zenon DEF Recorded, TestNameFree
<1>4. phase' \in {"format", "format_verify"} => IsPristine(files')
  BY <1>1, Zenon
<1>5. (enabled' <=> enabled) /\ (TestNameFree' <=> TestNameFree)
  BY <1>1, <1>3
<1>6. enabled' /\ Applicable(acked') =>
        Alike(WithoutTest(files'), WithoutTest(ApplyAll(acked')), Recorded')
  BY <1>1, <1>3, <1>5, Zenon DEF TableInv
<1>7. enabled' /\ TestNameFree' => TestName \notin NamesIn(files')
  BY <1>1, <1>5, Zenon DEF TableInv
<1> QED BY <1>1, <1>2, <1>4, <1>6, <1>7, Zenon DEF TableInv

(* A boot with a journal: the table is the replay of what it adopts, less  *)
(* the file of the self-test.                                              *)
LEMMA TableBoot ==
  ASSUME JournalInv, TableInv, BootJournal
  PROVE  TableInv'
<1> DEFINE s == CommittedEntries(log)
<1>1. acked' = s /\ inflight' = NoEntry /\ Applicable(s) /\ ScanOk(log) /\ superblock = "valid"
  BY Zenon DEF BootJournal, ReplayApplies
<1>2. /\ acked \in Seq(Entry) /\ inflight \in Entry \cup {NoEntry}
      /\ s = acked \/ (inflight # NoEntry /\ s = Append(acked, inflight))
  BY <1>1, Zenon DEF JournalInv, JournalTypeOK, AcknowledgedIsDurable
<1>3. /\ \/ phase' = "idle" /\ SelfTestPasses(ApplyAll(s)) /\ files' = AfterSelfTest(ApplyAll(s))
         \/ phase' = "panic" /\ files' = <<>> /\ enabled' = FALSE
  BY Zenon DEF BootJournal, Start, Panic, Replay
<1> HIDE DEF s
<1>4. ApplyAll(s) \in Tables /\ (TestNameFree' => TestName \notin NamesIn(ApplyAll(s)))
  <2>1. CASE s = acked
    <3>1. TestNameFree' = TestNameFree
      BY <1>1, <2>1, Zenon DEF TestNameFree
    <3>2. ApplyAll(s) \in Tables
      BY <1>2, <2>1, ReplayLoopTable, Zenon
    <3> QED BY <2>1, <3>1, <3>2, Zenon DEF TableInv, LogApplies
  <2>2. CASE inflight # NoEntry /\ s = Append(acked, inflight)
    <3>1. inflight \in Entry
      BY <1>2, <2>2, Zenon
    <3>2. /\ ApplyAll(acked) \in Tables /\ ApplyAll(s) = ApplyEntry(ApplyAll(acked), inflight)
      BY <1>2, <2>2, <3>1, ReplayAppended, Zenon
    <3>3. TestNameFree' => TestNameFree /\ inflight.name # TestName
      BY <1>1, <1>2, <2>2, <3>1, RecordedAppended, Zenon
    <3>4. /\ ApplyAll(s) \in Tables
          /\ NamesIn(ApplyAll(s)) \subseteq NamesIn(ApplyAll(acked)) \cup {inflight.name}
      BY <3>1, <3>2, ApplyFacts, Zenon
    <3> QED BY <3>3, <3>4, Zenon DEF TableInv, LogApplies
  <2> QED BY <1>2, <2>1, <2>2, Zenon
<1>5. LogApplies'
  BY <1>1, <1>4, Zenon DEF LogApplies
<1>6. CASE phase' = "panic" /\ files' = <<>> /\ enabled' = FALSE
  BY <1>5, <1>6, EmptyIsTable, Zenon DEF TableInv
<1>7. CASE phase' = "idle" /\ SelfTestPasses(ApplyAll(s)) /\ files' = AfterSelfTest(ApplyAll(s))
  <2>1. files' = WithoutTest(ApplyAll(s))
    BY <1>4, <1>7, AfterTest, Zenon
  <2>2. /\ files' \in Tables /\ TestName \notin NamesIn(files')
        /\ WithoutTest(files') = WithoutTest(ApplyAll(s))
    BY <1>4, <2>1, WithoutFacts, Zenon
  <2>3. Alike(WithoutTest(files'), WithoutTest(ApplyAll(acked')), Recorded')
    BY <1>1, <2>2, AlikeSelf, Zenon
  <2> QED BY <1>5, <1>7, <2>2, <2>3, Zenon DEF TableInv
<1> QED BY <1>3, <1>6, <1>7, Zenon

(* The commit write puts a record in flight that the replay will accept. *)
LEMMA TableCommit ==
  ASSUME JournalInv, CommandInv, TableInv, CommitRecord
  PROVE  TableInv'
<1>1. /\ acked' = acked /\ files' = files /\ enabled' = enabled /\ inflight' = request
      /\ phase' \in {"idle", "verify"} /\ phase = "commit"
  BY Zenon DEF CommitRecord, memory, Finish
<1>2. enabled /\ request \in Entry /\ CanApply(files, request) /\ acked \in Seq(Entry)
  BY <1>1, Zenon DEF JournalInv, JournalTypeOK, CommandInv
<1>3. Recorded' = Recorded /\ TestNameFree' = TestNameFree
  BY <1>1, Zenon DEF Recorded, TestNameFree
<1>4. TestNameFree => CanApply(ApplyAll(acked), request)
  <2> SUFFICES ASSUME TestNameFree PROVE CanApply(ApplyAll(acked), request)
    OBVIOUS
  <2>1. /\ TestName \notin NamesIn(files) /\ TestName \notin NamesIn(ApplyAll(acked))
        /\ Alike(WithoutTest(files), WithoutTest(ApplyAll(acked)), Recorded) /\ files \in Tables
    BY <1>2, Zenon DEF TableInv, LogApplies
  <2>2. ApplyAll(acked) \in Tables
    BY <1>2, ReplayLoopTable, Zenon
  <2> QED BY <1>2, <2>1, <2>2, AlikeAccepts, Zenon
<1>5. LogApplies'
  BY <1>1, <1>3, <1>4, Zenon DEF TableInv, LogApplies
<1> QED BY <1>1, <1>3, <1>5, Zenon DEF TableInv

(* The acknowledgement applies to the table what it adds to the records. *)
LEMMA TableVerify ==
  ASSUME JournalInv, CommandInv, TableInv, VerifyRecord
  PROVE  TableInv'
<1>1. /\ acked' = Append(acked, request) /\ inflight' = NoEntry /\ phase = "verify"
      /\ CanApply(files, request) /\ enabled /\ request \in Entry /\ inflight = request
      /\ acked \in Seq(Entry) /\ request # NoEntry
  BY JournalConstants, Zenon DEF VerifyRecord, JournalInv, JournalTypeOK, CommandInv
<1>2. files' = ApplyEntry(files, request) /\ enabled' = enabled /\ phase' = "idle"
  BY <1>1, Zenon DEF VerifyRecord, Finish
<1> DEFINE t == ApplyAll(acked)
<1>3. t \in Tables /\ ApplyAll(acked') = ApplyEntry(t, request)
  BY <1>1, ReplayAppended, Zenon
<1>4. Applicable(acked') <=> Applicable(acked) /\ CanApply(t, request)
  BY <1>1, ApplicableAppended, Zenon
<1>5. /\ Recorded' = Recorded \cup {request.name}
      /\ TestNameFree' => TestNameFree /\ request.name # TestName
  BY <1>1, RecordedAppended, Zenon
<1>6. files \in Tables /\ files' \in Tables
  BY <1>1, <1>2, ApplyFacts, Zenon DEF TableInv
<1>7. /\ NamesIn(files') \subseteq NamesIn(files) \cup {request.name}
      /\ NamesIn(ApplyAll(acked')) \subseteq NamesIn(t) \cup {request.name}
  BY <1>1, <1>2, <1>3, <1>6, ApplyFacts, Zenon
<1>8. LogApplies'
  BY <1>1, <1>4, <1>5, <1>7, Zenon DEF TableInv, LogApplies
<1>9. Applicable(acked') => Alike(WithoutTest(files'), WithoutTest(ApplyAll(acked')), Recorded')
  <2> SUFFICES ASSUME Applicable(acked')
               PROVE  Alike(WithoutTest(files'), WithoutTest(ApplyAll(acked')), Recorded')
    OBVIOUS
  <2>1. Alike(WithoutTest(files), WithoutTest(t), Recorded) /\ CanApply(t, request)
    BY <1>1, <1>4, Zenon DEF TableInv
  <2> HIDE DEF t
  <2>2. Alike(WithoutTest(ApplyEntry(files, request)), WithoutTest(ApplyEntry(t, request)),
              Recorded \cup {request.name})
    BY <1>1, <1>3, <1>6, <2>1, ApplyKeepsAlike, Zenon
  <2> QED BY <1>2, <1>3, <1>5, <2>2, Zenon
<1>10. TestNameFree' => TestName \notin NamesIn(files')
  BY <1>1, <1>5, <1>7, Zenon DEF TableInv
<1> QED BY <1>2, <1>6, <1>8, <1>9, <1>10, Zenon DEF TableInv

(* pformat switches the journal on over an empty log and a pristine table. *)
LEMMA TableFormat ==
  ASSUME JournalInv, TableInv, FormatVerify
  PROVE  TableInv'
<1>1. /\ files' = files /\ UNCHANGED ghosts /\ acked' = acked /\ phase = "format_verify"
      /\ phase' = "idle"
  BY Zenon DEF FormatVerify, Finish, ghosts
<1>2. acked = <<>> /\ ~enabled
  BY <1>1, FormatPhase, Zenon
<1>3. files \in Tables /\ IsPristine(files)
  BY <1>1, Zenon DEF TableInv
<1>4. /\ TestName \notin NamesIn(files)
      /\ Alike(WithoutTest(files), WithoutTest(ApplyAll(acked)), {})
  BY <1>2, <1>3, PristineShowsNothing, ReplayOfNothing, Zenon
<1>5. Recorded' = {}
  <2>1. 1..Len(acked') = {}
    BY <1>1, <1>2
  <2> QED BY <2>1, Zenon DEF Recorded
<1>6. LogApplies'
  BY <1>1, Zenon DEF TableInv, LogApplies, TestNameFree, ghosts
<1> QED BY <1>1, <1>3, <1>4, <1>5, <1>6, Zenon DEF TableInv

(* Every step keeps the invariant of the table. *)
LEMMA TableStep ==
  ASSUME JournalInv, CommandInv, TableInv, [Next]_vars
  PROVE  TableInv'
<1>0. files \in Tables /\ InitialFiles \in Tables
  BY InitialIsTable, Zenon DEF TableInv
<1>1. CASE BootVolatile \/ BootFails \/ PowerLoss
  <2>1. /\ UNCHANGED ghosts /\ enabled' = FALSE /\ phase' \in {"off", "idle", "panic"}
        /\ \/ files' = <<>>
           \/ files' = AfterSelfTest(InitialFiles)
    BY <1>1, Zenon DEF BootVolatile, BootFails, PowerLoss, Start, Panic
  <2>2. files' \in Tables
    BY <1>0, <2>1, EmptyIsTable, CallsKeepTable, Zenon DEF AfterSelfTest
  <2> QED BY <2>1, <2>2, OffStep, Zenon
<1>2. CASE BootJournal
  BY <1>2, TableBoot, Zenon
<1>3. ASSUME NEW n \in Names, NEW c, VolatileWrite(n, c) \/ VolatileRemove(n)
      PROVE  TableInv'
  <2>1. /\ UNCHANGED ghosts /\ enabled' = FALSE /\ phase' = "idle"
        /\ files' \in {WriteFile(files, n, c), RemoveFile(files, n)}
    BY <1>3, Zenon DEF VolatileWrite, VolatileRemove, JournalInv, JournalTypeOK
  <2>2. files' \in Tables
    BY <1>0, <2>1, CallsKeepTable, Zenon
  <2> QED BY <2>1, <2>2, OffStep, Zenon
<1>4. ASSUME NEW n \in Names, NEW c, PersistentWrite(n, c) \/ PersistentRemove(n)
      PROVE  TableInv'
  <2>1. UNCHANGED <<files, enabled, ghosts>> /\ phase' \in {"idle", "prepare"}
    BY <1>4, Zenon DEF PersistentWrite, PersistentRemove, BeginAppend, Refuse, Finish, memory
  <2> QED BY <2>1, SteadyStep, Zenon
<1>5. CASE Format
  <2>1. /\ UNCHANGED <<files, enabled, ghosts>>
        /\ phase' \in {"format", "format_verify"} => IsPristine(files)
    BY <1>5, Zenon DEF Format, FormatAdmits, Finish, memory
  <2> QED BY <2>1, SteadyStep, Zenon
<1>6. CASE PrepareRecord \/ VerifyFails
  <2>1. UNCHANGED <<files, enabled, ghosts>> /\ phase' \in {"idle", "commit"}
    BY <1>6, Zenon DEF PrepareRecord, VerifyFails, Refuse, Finish, memory
  <2> QED BY <2>1, SteadyStep, Zenon
<1>7. CASE CommitRecord
  BY <1>7, TableCommit, Zenon
<1>8. CASE VerifyRecord
  BY <1>8, TableVerify, Zenon
<1>9. CASE FormatWrite
  <2>1. UNCHANGED <<files, enabled, ghosts>> /\ phase = "format"
    BY <1>9, Zenon DEF FormatWrite
  <2>2. IsPristine(files)
    BY <2>1, Zenon DEF TableInv
  <2> QED BY <2>1, <2>2, SteadyStep, Zenon
<1>10. CASE FormatVerify
  BY <1>10, TableFormat, Zenon
<1>11. CASE UNCHANGED vars
  <2>1. UNCHANGED <<files, enabled, ghosts>> /\ phase' = phase
    BY <1>11, Zenon DEF vars, memory
  <2>2. phase' \in {"format", "format_verify"} => IsPristine(files)
    BY <2>1, Zenon DEF TableInv
  <2> QED BY <2>1, <2>2, SteadyStep, Zenon
<1> QED BY <1>1, <1>2, <1>3, <1>4, <1>5, <1>6, <1>7, <1>8, <1>9, <1>10, <1>11, Zenon
        DEF Next, Command

(* The invariant of the table, with the one of the journal that it needs. *)
LEMMA TableInvariance == Spec => [](JournalInv /\ TableInv)
<1>1. Init => JournalInv /\ CommandInv /\ TableInv
  BY InitInv, CommandInit, TableInit
<1>2. JournalInv /\ CommandInv /\ TableInv /\ [Next]_vars => (JournalInv /\ CommandInv /\ TableInv)'
  BY StepInv, CommandStepInv, TableStep
<1> QED BY <1>1, <1>2, PTL DEF Spec

(* The preflight of a command is enough for every later replay, whatever   *)
(* sectors fail and whenever the power goes: as long as no record names    *)
(* the self-test's file, ramfs_apply_journal_entry accepts each committed  *)
(* record when journal_replay hands them to it.                            *)
THEOREM ReplayAlwaysApplies ==
  Spec => []ReplayNeverRefuses
<1>1. JournalInv /\ TableInv => ReplayNeverRefuses
  <2> SUFFICES ASSUME JournalInv, TableInv, superblock = "valid", ScanOk(log), TestNameFree,
                      inflight # NoEntry => inflight.name # TestName
               PROVE  Applicable(CommittedEntries(log))
    BY Zenon DEF ReplayNeverRefuses, ReplayApplies
  <2>1. /\ acked \in Seq(Entry) /\ inflight \in Entry \cup {NoEntry}
        /\ \/ CommittedEntries(log) = acked
           \/ inflight # NoEntry /\ CommittedEntries(log) = Append(acked, inflight)
    BY Zenon DEF JournalInv, JournalTypeOK, AcknowledgedIsDurable
  <2>2. /\ Applicable(acked)
        /\ inflight # NoEntry => CanApply(ApplyAll(acked), inflight)
    BY Zenon DEF TableInv, LogApplies
  <2>3. inflight # NoEntry => Applicable(Append(acked, inflight))
    BY <2>1, <2>2, ApplicableAppended, Zenon
  <2> QED BY <2>1, <2>2, <2>3, Zenon
<1> QED BY <1>1, TableInvariance, PTL

(* While the journal is on, what the shell shows is what was acknowledged: *)
(* the table that ramfs_write_file and ramfs_remove_file maintain has the  *)
(* files of a replay of the acknowledged records, in that order, with the  *)
(* same contents for every recorded name, the self-test's file excepted.   *)
THEOREM TableFollowsLog ==
  Spec => []TableShowsAcknowledged
<1>1. JournalInv /\ TableInv => TableShowsAcknowledged
  BY Zenon DEF TableInv, TableShowsAcknowledged
<1> QED BY <1>1, TableInvariance, PTL

==============================================================================
