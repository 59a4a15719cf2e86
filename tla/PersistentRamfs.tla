--------------------------- MODULE PersistentRamfs ---------------------------
(***************************************************************************)
(* Persistent RAMFS: fs/persistent.c over the log of fs/journal.c and the  *)
(* table of fs/ramfs.c, driven by the shell's write, rm and pformat        *)
(* commands and by kernel_main at boot. Only the event-loop task runs the  *)
(* shell, so commands do not overlap; what interrupts one is a power loss  *)
(* between two sector writes or a transfer that fails. A call of the ATA   *)
(* driver that changes the disk is one step; the reads of a command are    *)
(* part of the step that uses them.                                        *)
(***************************************************************************)
EXTENDS Journal

CONSTANT Faults  \* what the disk may do wrong, a subset of FaultKinds

(* "read": a read fails after its retries. "reject": a write fails and     *)
(* stores nothing. "late": a write stores its sector and then fails (the   *)
(* flush of ata_write_sectors times out). "lost": a write is acknowledged  *)
(* and stores nothing. "torn": a write fails and leaves a sector that does *)
(* not decode.                                                             *)
FaultKinds == {"read", "reject", "late", "lost", "torn"}

ASSUME FaultsAreKnown == Faults \subseteq FaultKinds

VARIABLES
  region,        \* the disk has a tail outside the FAT volume for the journal
  superblock,    \* first sector of that tail: "empty", "valid" or "foreign"
  log,           \* the data sectors after it
  phase,         \* what the kernel is doing
  files,         \* the RAMFS table
  enabled,       \* persistent_enabled
  nextSequence,  \* persistent_next_sequence
  window,        \* the ATA driver accepts writes to the journal region
  request,       \* the record journal_append is writing, or NoEntry
  target,        \* its slot
  reply,         \* outcome of the last command
  acked,         \* ghost: the records acknowledged or found at boot, oldest first
  inflight       \* ghost: a record whose commit write was issued, not acknowledged

disk == <<region, superblock, log>>
memory == <<files, enabled, nextSequence, window>>
append == <<request, target>>
ghosts == <<acked, inflight>>
vars == <<disk, phase, memory, append, reply, ghosts>>

Phases == {"off", "panic", "idle", "prepare", "commit", "verify",
           "format", "format_verify"}

JournalTypeOK ==
  /\ region \in BOOLEAN
  /\ superblock \in {"empty", "valid", "foreign"}
  /\ log \in [Slots -> Sector]
  /\ phase \in Phases
  /\ enabled \in BOOLEAN
  /\ nextSequence \in 0..MaxSequence
  /\ window \in BOOLEAN
  /\ request \in Entry \cup {NoEntry}
  /\ target \in Slots
  /\ reply \in {"none", "ok", "failed"}
  /\ acked \in Seq(Entry)
  /\ inflight \in Entry \cup {NoEntry}

EmptyLog == [i \in Slots |-> EmptySector]

(* A disk may come blank, with a tail somebody else uses, or with a        *)
(* journal that was used before: one record of any sequence number.        *)
SeededLog(sequence, name) ==
  [EmptyLog EXCEPT ![0] = Encode(EntryFor("write", sequence, name, Default), TRUE)]

UsedTail == [EmptyLog EXCEPT ![0] = TornSector]

InitialDisk ==
  \/ superblock = "empty" /\ log \in {EmptyLog, UsedTail}
  \/ superblock = "foreign" /\ log = EmptyLog
  \/ superblock = "valid" /\ log = EmptyLog
  \/ superblock = "valid" /\ \E s \in 1..MaxSequence, n \in ValidNames : log = SeededLog(s, n)

Init ==
  /\ region \in BOOLEAN
  /\ InitialDisk
  /\ phase = "off"
  /\ files = <<>>
  /\ enabled = FALSE
  /\ nextSequence = 0
  /\ window = FALSE
  /\ request = NoEntry
  /\ target = 0
  /\ reply = "none"
  /\ acked = IF superblock = "valid" THEN CommittedEntries(log) ELSE <<>>
  /\ inflight = NoEntry

----------------------------------------------------------------------------
(* Sector writes through ata_write_sectors: what the disk holds afterwards *)
(* and whether the call returns 1.                                         *)

WriteOutcome(stored, kept, torn, result, ok) ==
  \/ ok /\ result = stored
  \/ ok /\ "lost" \in Faults /\ result = kept
  \/ ~ok /\ "reject" \in Faults /\ result = kept
  \/ ~ok /\ "late" \in Faults /\ result = stored
  \/ ~ok /\ "torn" \in Faults /\ result = torn

WriteRecord(committed, ok) ==
  /\ window
  /\ \E s \in {Encode(request, committed), log[target], TornSector} :
       /\ WriteOutcome(Encode(request, committed), log[target], TornSector, s, ok)
       /\ log' = [log EXCEPT ![target] = s]

WriteSuperblock(ok) ==
  /\ window
  /\ superblock' \in {"valid", superblock, "foreign"}
  /\ WriteOutcome("valid", superblock, "foreign", superblock', ok)

Finish(outcome) ==
  /\ phase' = "idle"
  /\ reply' = outcome
  /\ request' = NoEntry
  /\ target' = 0

----------------------------------------------------------------------------
(* Boot: ramfs_init, persistent_ramfs_init, ramfs_self_test. *)

Panic ==
  /\ phase' = "panic"
  /\ files' = <<>>
  /\ enabled' = FALSE
  /\ nextSequence' = 0
  /\ window' = FALSE
  /\ request' = NoEntry
  /\ target' = 0
  /\ UNCHANGED reply

(* kernel_main goes on with the table that initialisation left. *)
Start(table, journaled, sequence) ==
  IF SelfTestPasses(table)
  THEN /\ phase' = "idle"
       /\ files' = AfterSelfTest(table)
       /\ enabled' = journaled
       /\ nextSequence' = sequence
       /\ window' = journaled
       /\ UNCHANGED <<request, target, reply>>
  ELSE Panic

(* No usable tail, no decodable superblock, or no way to read it. *)
BootVolatile ==
  /\ phase = "off"
  /\ ~region \/ superblock # "valid" \/ "read" \in Faults
  /\ Start(InitialFiles, FALSE, 0)
  /\ UNCHANGED <<disk, ghosts>>

(* A formatted journal is replayed; the self-test has the last word on the *)
(* table. With the sequence space used up, or the log unreadable the       *)
(* second time, the replayed table stays and writes become volatile.       *)
BootJournal ==
  /\ phase = "off"
  /\ region /\ superblock = "valid"
  /\ ScanOk(log) /\ ReplayApplies(log)
  /\ \/ /\ LastSequence(log) # MaxSequence
        /\ Start(Replay(log), TRUE, LastSequence(log) + 1)
     \/ /\ LastSequence(log) = MaxSequence \/ "read" \in Faults
        /\ Start(Replay(log), FALSE, 0)
  /\ acked' = CommittedEntries(log)
  /\ inflight' = NoEntry
  /\ UNCHANGED disk

(* "Persistent journal initialization failed." *)
BootFails ==
  /\ phase = "off"
  /\ region /\ superblock = "valid"
  /\ ~(ScanOk(log) /\ ReplayApplies(log)) \/ "read" \in Faults
  /\ Panic
  /\ UNCHANGED <<disk, ghosts>>

(* The power goes, or a halted kernel is reset. *)
PowerLoss ==
  /\ phase # "off"
  /\ phase' = "off"
  /\ files' = <<>>
  /\ enabled' = FALSE
  /\ nextSequence' = 0
  /\ window' = FALSE
  /\ request' = NoEntry
  /\ target' = 0
  /\ reply' = "none"
  /\ UNCHANGED <<disk, ghosts>>

----------------------------------------------------------------------------
(* Commands while the journal is off: they change the table only. *)

VolatileWrite(name, contents) ==
  /\ phase = "idle" /\ ~enabled
  /\ files' = WriteFile(files, name, contents)
  /\ reply' = IF CanWriteFile(files, name, contents) THEN "ok" ELSE "failed"
  /\ UNCHANGED <<disk, phase, enabled, nextSequence, window, append, ghosts>>

VolatileRemove(name) ==
  /\ phase = "idle" /\ ~enabled
  /\ files' = RemoveFile(files, name)
  /\ reply' = IF HasFile(files, name) THEN "ok" ELSE "failed"
  /\ UNCHANGED <<disk, phase, enabled, nextSequence, window, append, ghosts>>

(* Mutant of AppendAdmits: the sequence number is not compared. *)
AppendAdmitsAnySequence == ScanOk(log) /\ RecordCount(log) < DataSectors

(* The checks of journal_append before its first write. *)
AppendAdmits ==
  /\ ScanOk(log)
  /\ RecordCount(log) < DataSectors
  /\ SequenceIsNewer(nextSequence, LastSequence(log))

BeginAppend(operation, name, content) ==
  /\ phase' = "prepare"
  /\ request' = EntryFor(operation, nextSequence, name, content)
  /\ target' = RecordCount(log)
  /\ UNCHANGED <<disk, memory, reply, ghosts>>

Refuse ==
  /\ Finish("failed")
  /\ UNCHANGED <<disk, memory, ghosts>>

(* Mutant of PersistentWrite: no RAMFS preflight before the append. *)
PersistentWriteNoPreflight(name, contents) ==
  /\ phase = "idle" /\ enabled
  /\ name \in ValidNames /\ contents \in ShortContents
  /\ nextSequence # 0 /\ AppendAdmits
  /\ BeginAppend("write", name, contents)

PersistentWrite(name, contents) ==
  /\ phase = "idle" /\ enabled
  /\ \/ /\ nextSequence # 0 /\ CanWriteFile(files, name, contents) /\ AppendAdmits
        /\ BeginAppend("write", name, contents)
     \/ /\ \/ "read" \in Faults
           \/ ~(nextSequence # 0 /\ CanWriteFile(files, name, contents) /\ AppendAdmits)
        /\ Refuse

PersistentRemove(name) ==
  /\ phase = "idle" /\ enabled
  /\ \/ /\ nextSequence # 0 /\ HasFile(files, name) /\ AppendAdmits
        /\ BeginAppend("remove", name, Default)
     \/ /\ "read" \in Faults \/ ~(nextSequence # 0 /\ HasFile(files, name) /\ AppendAdmits)
        /\ Refuse

(* Mutant of PrepareRecord: the result of the first write is ignored. *)
PrepareRecordUnchecked ==
  /\ phase = "prepare"
  /\ \E ok \in BOOLEAN : WriteRecord(FALSE, ok)
  /\ phase' = "commit"
  /\ UNCHANGED <<region, superblock, memory, append, reply, ghosts>>

(* journal_append: the record with its commit word clear, ... *)
PrepareRecord ==
  /\ phase = "prepare"
  /\ \/ /\ WriteRecord(FALSE, TRUE)
        /\ phase' = "commit"
        /\ UNCHANGED <<append, reply>>
     \/ /\ WriteRecord(FALSE, FALSE)
        /\ Finish("failed")
  /\ UNCHANGED <<region, superblock, memory, ghosts>>

(* ... the same sector with the commit word set, ... *)
CommitRecord ==
  /\ phase = "commit"
  /\ \/ /\ WriteRecord(TRUE, TRUE)
        /\ phase' = "verify"
        /\ UNCHANGED <<append, reply>>
     \/ /\ WriteRecord(TRUE, FALSE)
        /\ Finish("failed")
  /\ inflight' = request
  /\ UNCHANGED <<region, superblock, memory, acked>>

AdvanceSequence(sequence) == IF sequence = MaxSequence THEN 0 ELSE sequence + 1

(* Mutant of VerifyRecord: the sector is not read back. *)
VerifyRecordBlind ==
  /\ phase = "verify"
  /\ CanApply(files, request)
  /\ files' = ApplyEntry(files, request)
  /\ nextSequence' = AdvanceSequence(nextSequence)
  /\ Finish("ok")
  /\ acked' = Append(acked, request)
  /\ inflight' = NoEntry
  /\ UNCHANGED <<disk, enabled, window>>

(* ... and the sector read back. Only then does the table change. *)
VerifyRecord ==
  /\ phase = "verify"
  /\ log[target].state = "committed"
  /\ IF CanApply(files, request)
     THEN /\ files' = ApplyEntry(files, request)
          /\ nextSequence' = AdvanceSequence(nextSequence)
          /\ Finish("ok")
          /\ UNCHANGED <<enabled, window>>
     ELSE Panic
  /\ acked' = Append(acked, request)
  /\ inflight' = NoEntry
  /\ UNCHANGED disk

(* Mutants of VerifyFails: a failed append consumes its sequence number; a *)
(* failed append is applied to the table all the same.                     *)
VerifyFailsAdvances ==
  /\ phase = "verify"
  /\ log[target].state # "committed" \/ "read" \in Faults
  /\ nextSequence' = AdvanceSequence(nextSequence)
  /\ Finish("failed")
  /\ UNCHANGED <<disk, files, enabled, window, ghosts>>

VerifyFailsApplies ==
  /\ phase = "verify"
  /\ log[target].state # "committed" \/ "read" \in Faults
  /\ files' = ApplyEntry(files, request)
  /\ Finish("failed")
  /\ UNCHANGED <<disk, enabled, nextSequence, window, ghosts>>

VerifyFails ==
  /\ phase = "verify"
  /\ log[target].state # "committed" \/ "read" \in Faults
  /\ Refuse

----------------------------------------------------------------------------
(* pformat *)

FormatAdmits ==
  /\ ~enabled /\ IsPristine(files) /\ region
  /\ superblock = "empty" /\ \A i \in Slots : log[i].state = "empty"

Format ==
  /\ phase = "idle"
  /\ \/ /\ FormatAdmits
        /\ phase' = "format"
        /\ window' = TRUE
        /\ UNCHANGED <<files, enabled, nextSequence, append, reply>>
     \/ /\ ~FormatAdmits \/ "read" \in Faults
        /\ Finish("failed")
        /\ UNCHANGED memory
  /\ UNCHANGED <<disk, ghosts>>

FormatWrite ==
  /\ phase = "format"
  /\ \/ /\ WriteSuperblock(TRUE)
        /\ phase' = "format_verify"
        /\ UNCHANGED <<window, append, reply>>
     \/ /\ WriteSuperblock(FALSE)
        /\ window' = FALSE
        /\ Finish("failed")
  /\ UNCHANGED <<region, log, files, enabled, nextSequence, ghosts>>

FormatVerify ==
  /\ phase = "format_verify"
  /\ \/ /\ superblock = "valid"
        /\ enabled' = TRUE
        /\ nextSequence' = 1
        /\ UNCHANGED window
        /\ Finish("ok")
     \/ /\ superblock # "valid" \/ "read" \in Faults
        /\ window' = FALSE
        /\ UNCHANGED <<enabled, nextSequence>>
        /\ Finish("failed")
  /\ UNCHANGED <<disk, files, ghosts>>

----------------------------------------------------------------------------

Command ==
  \/ \E n \in Names, c \in Contents : VolatileWrite(n, c) \/ PersistentWrite(n, c)
  \/ \E n \in Names : VolatileRemove(n) \/ PersistentRemove(n)
  \/ Format

Next ==
  \/ BootVolatile \/ BootJournal \/ BootFails \/ PowerLoss
  \/ Command
  \/ PrepareRecord \/ CommitRecord \/ VerifyRecord \/ VerifyFails
  \/ FormatWrite \/ FormatVerify

Spec == Init /\ [][Next]_vars

----------------------------------------------------------------------------
(* Durability across crashes and failed transfers: whatever the disk does, *)
(* the committed records of a formatted log that scans are exactly the     *)
(* acknowledged ones, followed by at most one record whose commit was      *)
(* issued and never acknowledged (journal_append against the replies of    *)
(* persistent_ramfs_write_file and persistent_ramfs_remove_file).          *)
AcknowledgedIsDurable ==
  superblock = "valid" /\ ScanOk(log) =>
    \/ CommittedEntries(log) = acked
    \/ inflight # NoEntry /\ CommittedEntries(log) = Append(acked, inflight)

(* A log that does not scan can no longer change, so what it stores is     *)
(* what it had stored before the tear.                                     *)
Stored == IF superblock = "valid" /\ ScanOk(log) THEN CommittedEntries(log) ELSE acked

Abstract == INSTANCE DurableLog WITH stored <- Stored, open <- enabled

(* The sector-level protocol implements that log: a step that stores a     *)
(* record is the commit write, an acknowledgement comes only from the      *)
(* verified read-back, and after a failed append whose record is on disk   *)
(* nothing more is stored until the next boot adopts it.                   *)
ImplementsDurableLog == Abstract!Spec

(* Until the disk tears a sector, the log always scans: crashes, failed    *)
(* and lost writes, and appends that reuse the slot of a failed one leave  *)
(* committed records, at most one prepared record and empty sectors, so    *)
(* the journal never stops the next boot (scan_log).                       *)
LogAlwaysScans ==
  superblock = "valid" /\ (\A i \in Slots : log[i].state # "torn") => ScanOk(log)

(* After a failed append whose record is on disk, persistent_next_sequence *)
(* still holds its number.                                                 *)
InDoubt ==
  /\ inflight # NoEntry
  /\ CommittedEntries(log) = Append(acked, inflight)
  /\ LastSequence(log) = nextSequence

(* What every step of the journal preserves, and why the three properties  *)
(* above hold: a record in doubt blocks further appends because it carries *)
(* the number the next one would get, and an append under way always aims  *)
(* at the slot behind the acknowledged records.                            *)
JournalInv ==
  /\ JournalTypeOK
  /\ LogAlwaysScans
  /\ AcknowledgedIsDurable
  /\ superblock # "valid" => acked = <<>> /\ ~enabled
  /\ enabled /\ ScanOk(log) => CommittedEntries(log) = acked \/ InDoubt
  /\ phase \in {"prepare", "commit", "verify"} =>
       enabled /\ request \in Entry /\ request.sequence = nextSequence
  /\ phase \in {"prepare", "commit"} =>
       /\ IsScan(log, target)
       /\ SequenceIsNewer(nextSequence, SequenceBefore(log, target))
       /\ CommittedEntries(log) = acked
  /\ phase = "verify" =>
       /\ inflight = request
       /\ log[target].state = "committed" => CommittedEntries(log) = Append(acked, request)
  /\ phase \in {"format", "format_verify"} =>
       /\ ~enabled
       /\ acked = <<>>
       /\ \A i \in Slots : log[i].state = "empty"

TestNameFree == \A i \in 1..Len(acked) : acked[i].name # TestName

(* The preflight of a command is enough for every later replay: as long as *)
(* no record names the self-test's file, each committed record is accepted *)
(* by ramfs_apply_journal_entry when the log is replayed from the built-in *)
(* files (ramfs_can_write_file against journal_replay).                    *)
ReplayNeverRefuses ==
  superblock = "valid" /\ ScanOk(log)
    /\ TestNameFree /\ (inflight # NoEntry => inflight.name # TestName)
  => ReplayApplies(log)

WithoutTest(table) == RemoveFile(table, TestName)

Recorded == {acked[k].name : k \in 1..Len(acked)}

Alike(shown, table, names) ==
  /\ Len(shown) = Len(table)
  /\ \A i \in 1..Len(shown) :
       /\ shown[i].name = table[i].name
       /\ shown[i].name \in names => shown[i].contents = table[i].contents

(* While the journal is on, the table shows the acknowledged records: the  *)
(* same files in the same order, with the same contents for every name an  *)
(* acknowledged record mentions.  The file TEST is the exception, because  *)
(* ramfs_self_test removes it from the table at each boot; its records     *)
(* disturb no other file as long as the log as a whole can be replayed.    *)
TableShowsAcknowledged ==
  enabled /\ phase = "idle" /\ Applicable(acked) =>
    Alike(WithoutTest(files), WithoutTest(ApplyAll(acked)), Recorded)

(* A log that does not scan, after a torn write, is left alone: no later   *)
(* command writes to it or is acknowledged (the scan at the start of       *)
(* journal_append).                                                        *)
TornLogIsLeftAlone ==
  [][superblock = "valid" /\ ~ScanOk(log) => UNCHANGED <<superblock, log, acked>>]_vars

----------------------------------------------------------------------------
(* What a document says and the code does not keep. *)

(* SECURITY.md:53, a failed second write leaves a record that is ignored:  *)
(* between commands the committed records are the acknowledged ones. The   *)
(* commit write of journal_append may fail after the sector is stored.     *)
FailedAppendIsIgnored == enabled /\ phase = "idle" => CommittedEntries(log) = acked

==============================================================================
