------------------------------- MODULE Journal -------------------------------
(***************************************************************************)
(* The on-disk log of fs/journal.c. A data sector is empty, holds a record *)
(* whose commit word is clear (prepared) or set (committed), or is torn:   *)
(* anything journal_decode_internal refuses. The CRC, the reserved-byte    *)
(* and the field checks of the decoder decide only between these.          *)
(***************************************************************************)
EXTENDS Ramfs

CONSTANTS
  DataSectors,   \* records the log has room for
  MaxSequence,   \* 0xFFFFFFFF, the last sequence number
  NoEntry        \* stands for the record of a sector that holds none

Slots == 0..DataSectors - 1

Entry == [operation : {"write", "remove"}, sequence : 1..MaxSequence,
          name : ValidNames, content : ShortContents]

ASSUME JournalConstants ==
  /\ DataSectors \in Nat \ {0}
  /\ MaxSequence \in Nat \ {0}
  /\ NoEntry \notin Entry

EmptySector == [state |-> "empty", entry |-> NoEntry]

TornSector == [state |-> "torn", entry |-> NoEntry]

Sector == [state : {"prepared", "committed"}, entry : Entry] \cup {EmptySector, TornSector}

(* journal_encode_internal; the content of a remove record is empty. *)
Encode(entry, committed) ==
  [state |-> IF committed THEN "committed" ELSE "prepared", entry |-> entry]

EntryFor(operation, sequence, name, content) ==
  [operation |-> operation, sequence |-> sequence, name |-> name,
   content |-> IF operation = "remove" THEN Default ELSE content]

SequenceIsNewer(sequence, previous) == sequence # 0 /\ sequence > previous

SequenceBefore(log, n) == IF n = 0 THEN 0 ELSE log[n - 1].entry.sequence

(* scan_log returns 1 with record_count = n: n committed records with      *)
(* growing sequence numbers, then at most one prepared record that is      *)
(* newer still, then nothing but empty sectors.                            *)
IsScan(log, n) ==
  /\ \A i \in 0..n - 1 :
       /\ log[i].state = "committed"
       /\ SequenceIsNewer(log[i].entry.sequence, SequenceBefore(log, i))
  /\ n < DataSectors =>
       \/ log[n].state = "empty"
       \/ /\ log[n].state = "prepared"
          /\ SequenceIsNewer(log[n].entry.sequence, SequenceBefore(log, n))
  /\ \A i \in n + 1..DataSectors - 1 : log[i].state = "empty"

ScanOk(log) == \E n \in 0..DataSectors : IsScan(log, n)

RecordCount(log) == CHOOSE n \in 0..DataSectors : IsScan(log, n)

LastSequence(log) == SequenceBefore(log, RecordCount(log))

(* The consumer calls of journal_replay's second pass, oldest first. *)
CommittedEntries(log) == [i \in 1..RecordCount(log) |-> log[i - 1].entry]

(* The table those calls leave, starting from what ramfs_init installs. *)
ApplyAll(entries) ==
  LET Table[n \in 0..Len(entries)] ==
        IF n = 0 THEN InitialFiles ELSE ApplyEntry(Table[n - 1], entries[n])
  IN Table[Len(entries)]

Replay(log) == ApplyAll(CommittedEntries(log))

(* Every one of those calls returns 1. *)
Applicable(entries) ==
  \A k \in 1..Len(entries) : CanApply(ApplyAll(SubSeq(entries, 1, k - 1)), entries[k])

ReplayApplies(log) == Applicable(CommittedEntries(log))

==============================================================================
