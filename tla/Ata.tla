-------------------------------- MODULE Ata --------------------------------
(***************************************************************************)
(* The driver of the primary ATA drive (drivers/ata.c, ata_irq_state.c,    *)
(* ata_dma.c): PIO and bus-master reads with three attempts, writes inside *)
(* the transactional window ended by a cache flush, IRQ14 completion with  *)
(* polling as the fallback, and DMA that is given up for PIO on the first  *)
(* failure.  The drive answers late, with an error or never.               *)
(*                                                                         *)
(* PersistentRamfs takes from this driver that an acknowledged write is on *)
(* the medium and that a failed one may be on it in part.                  *)
(***************************************************************************)
EXTENDS Naturals, Sequences

CONSTANTS Sectors,        \* capacity of the drive
          WindowStart,    \* first sector of the write window
          WindowSectors,  \* its length
          MaxCount,       \* most sectors of a request (128)
          ChunkSectors,   \* most sectors of one DMA command (8)
          BusyAtOnce      \* the drive shows BSY at the first read of its
                          \* status after a command, not up to 400 ns later

ASSUME AtaAssumption ==
    /\ {Sectors, WindowSectors, MaxCount, ChunkSectors} \subseteq Nat \ {0}
    /\ WindowStart \in Nat /\ WindowStart + WindowSectors <= Sectors
    /\ BusyAtOnce \in BOOLEAN

VARIABLES
    drive,   \* the drive: its state, its command and the sectors still to go
    line,    \* IRQ14 is latched in the interrupt controller
    bm,      \* the bus-master engine and who owns its two pages
    bounce,  \* what the last DMA command left in the bounce page
    cached,  \* sectors of the write in progress in the cache of the drive
    saved,   \* and on its medium
    irq,     \* irq_state; news: its sequence differs from the snapshot
    dma,     \* dma_enabled
    req,     \* the request in progress
    buffer,  \* what a read has put in its buffer, sector by sector
    pc

vars == <<drive, line, bm, bounce, cached, saved, irq, dma, req, buffer, pc>>

\* What a sector of a buffer holds before data arrives: no sector of the drive.
Nothing == Sectors
Attempts == 3

\* No command: status clear.
IdleDrive == [st |-> "ready", cmd |-> "none", lba |-> 0, left |-> 0, got |-> FALSE]

\* The status register of a drive.
Status(d) ==
    CASE d.st = "ready"    -> {}
      [] d.st = "busy"     -> {"bsy"}
      [] d.st = "data"     -> {"drq"}
      [] d.st = "transfer" -> {"drq"}
      [] d.st = "failed"   -> {"err"}

NoRequest ==
    [op |-> "none", lba |-> 0, n |-> 0, k |-> 0, chunk |-> 0, attempt |-> 0,
     need |-> "quiet", stage |-> "none", flags |-> FALSE,
     early |-> FALSE]

\* After ata_init, with interrupts of the drive off.
Init ==
    /\ drive = IdleDrive
    /\ line = FALSE
    /\ bm = [start |-> FALSE, done |-> FALSE, master |-> FALSE, pages |-> FALSE]
    /\ bounce = <<>>
    /\ cached = {} /\ saved = {}
    /\ irq = [enabled |-> FALSE, news |-> FALSE, status |-> {}]
    /\ dma = FALSE
    /\ req = NoRequest
    /\ buffer = <<>>
    /\ pc = "idle"

-----------------------------------------------------------------------------
(* The drive, between two steps of the driver.  Where it ends a phase it   *)
(* raises IRQ14 unless nIEN is set.                                        *)

Raise == line' = (line \/ irq.enabled)

Medium == <<cached, saved>>

DataReady ==
    /\ drive.st = "busy" /\ drive.cmd \in {"read", "write"} /\ ~drive.got
    /\ drive' = [drive EXCEPT !.st = "data"]
    /\ IF drive.cmd = "read" THEN Raise ELSE line' = line
    /\ UNCHANGED <<bm, bounce, Medium, irq, dma, req, buffer, pc>>

Transfer ==
    /\ drive.st = "busy" /\ drive.cmd = "dma" /\ bm.start /\ bm.master
    /\ drive' = [drive EXCEPT !.st = "transfer"]
    /\ UNCHANGED <<line, bm, bounce, Medium, irq, dma, req, buffer, pc>>

\* The command ends: a written sector is in the cache, a flush has emptied
\* the cache, a DMA command has filled the bounce page.
Finish ==
    /\ \/ drive.st = "busy" /\ (drive.cmd \in {"flush", "mode"} \/ drive.got)
       \/ drive.st = "transfer" /\ bm.start /\ bm.master
    /\ drive' = IdleDrive
    /\ cached' = IF drive.cmd = "write" THEN cached \cup {drive.lba} ELSE cached
    /\ saved' = IF drive.cmd = "flush" THEN saved \cup cached ELSE saved
    /\ bounce' = IF drive.cmd = "dma"
                 THEN [i \in 1..drive.left |-> drive.lba + i - 1] ELSE bounce
    /\ bm' = [bm EXCEPT !.done = drive.cmd = "dma"]
    /\ Raise
    /\ UNCHANGED <<irq, dma, req, buffer, pc>>

\* The command fails; a sector being written may be lost or stored.
Fail ==
    /\ drive.st \in {"busy", "data", "transfer"}
    /\ drive' = [IdleDrive EXCEPT !.st = "failed"]
    /\ \/ cached' = cached
       \/ drive.got /\ cached' = cached \cup {drive.lba}
    /\ Raise
    /\ UNCHANGED <<bm, bounce, saved, irq, dma, req, buffer, pc>>

\* ata_irq_handler: reading the status ends the interrupt.
IrqHandler ==
    /\ line /\ (req.flags \/ pc = "idle")
    /\ line' = FALSE
    /\ irq' = IF irq.enabled
              THEN [irq EXCEPT !.news = TRUE, !.status = Status(drive)] ELSE irq
    /\ UNCHANGED <<drive, bm, bounce, Medium, dma, req, buffer, pc>>

-----------------------------------------------------------------------------
(* wait_status_with_irq and wait_status *)

StatusOK(status) == "bsy" \notin status /\ (req.need = "drq" => "drq" \in status)

\* A command is written.
Command(cmd, lba, n) ==
    drive' = [IdleDrive EXCEPT !.st = "busy", !.cmd = cmd, !.lba = lba, !.left = n]

\* Wait for the next phase; the snapshot was taken before the phase began.
\* Without ata_400ns_delay after the command, a poll may begin so early that
\* the drive does not show BSY yet.
Await(stage, need, delayed) ==
    LET waits == irq.enabled /\ req.flags
    IN /\ irq' = [irq EXCEPT !.news = FALSE]
       /\ req' = [req EXCEPT !.stage = stage, !.need = need,
                             !.early = ~waits /\ ~delayed /\ ~BusyAtOnce]
       /\ pc' = IF waits THEN "irqWait" ELSE "poll"

\* stop_dma_engine, and the same registers after a DMA command.
EngineStopped(b) == [b EXCEPT !.start = FALSE, !.done = FALSE]

\* A wait ends.  ata_read_dma_chunk stops its engine also when the wait failed.
WaitEnds(result) ==
    /\ pc' = result
    /\ bm' = IF result = "failed" /\ req.stage = "dma" THEN EngineStopped(bm) ELSE bm

\* The handler has recorded a status: an error ends the wait; a good status is
\* looked at again before it is believed.
IrqSeen ==
    /\ pc = "irqWait" /\ irq.news
    /\ WaitEnds(IF "err" \in irq.status THEN "failed"
                ELSE IF ~StatusOK(irq.status) THEN "poll"
                ELSE IF "err" \in Status(drive) THEN "failed"
                ELSE IF StatusOK(Status(drive)) THEN "seen" ELSE "poll")
    /\ UNCHANGED <<drive, line, bounce, Medium, irq, dma, req, buffer>>

\* ATA_IRQ_WAIT_TIMEOUT: no interrupt came.
IrqExpired ==
    /\ pc = "irqWait" /\ ~irq.news
    /\ pc' = "poll"
    /\ UNCHANGED <<drive, line, bm, bounce, Medium, irq, dma, req, buffer>>

\* The status is polled until it will do, shows an error, or ATA_TIMEOUT.
Poll ==
    /\ pc = "poll"
    /\ LET status == IF req.early THEN {} ELSE Status(drive)
       IN WaitEnds(IF "err" \notin status /\ StatusOK(status) THEN "seen" ELSE "failed")
    /\ UNCHANGED <<drive, line, bounce, Medium, irq, dma, req, buffer>>

-----------------------------------------------------------------------------
(* Requests.  begin_request refuses one while another is active, so the    *)
(* driver serves one at a time; valid_request bounds it.                   *)

Ranges == {r \in [lba : 0..Sectors - 1, n : 1..MaxCount] : r.n <= Sectors - r.lba}

\* The conditions of ata_write_sectors, with the window of the journal open.
InWindow(r) ==
    /\ r.lba >= WindowStart /\ r.lba - WindowStart < WindowSectors
    /\ r.n <= WindowSectors - (r.lba - WindowStart)

Request(op, r, flags) ==
    /\ pc = "idle"
    /\ op = "write" => InWindow(r)
    /\ req' = [NoRequest EXCEPT !.op = op, !.lba = r.lba, !.n = r.n, !.flags = flags]
    /\ buffer' = <<>>
    /\ pc' = "start"
    /\ UNCHANGED <<drive, line, bm, bounce, Medium, irq, dma>>

\* wait_status(0, BSY) before a command: the drive stays busy.
StartExpired ==
    /\ pc = "start" /\ "bsy" \in Status(drive)
    /\ pc' = "failed"
    /\ UNCHANGED <<drive, line, bm, bounce, Medium, irq, dma, req, buffer>>

Ready(op) == pc = "start" /\ req.op = op /\ "bsy" \notin Status(drive)

End ==
    /\ req' = NoRequest
    /\ buffer' = <<>>
    /\ pc' = "idle"

-----------------------------------------------------------------------------
(* ata_read_sectors *)

\* ata_read_pio_once: one command for all sectors.
PioStart ==
    /\ Ready("read") /\ ~dma
    /\ Command("read", req.lba, req.n)
    /\ buffer' = <<>>
    /\ Await("data", "drq", TRUE)
    /\ UNCHANGED <<line, bm, bounce, Medium, dma>>

\* One sector through the data port.  What a drive that is not sending offers
\* there is not data.
PioSector ==
    /\ pc = "seen" /\ req.op = "read" /\ req.stage = "data"
    /\ buffer' = Append(buffer, IF drive.st = "data" /\ drive.cmd = "read"
                                THEN drive.lba ELSE Nothing)
    /\ drive' = IF drive.st # "data" THEN drive
                ELSE IF drive.left = 1 THEN IdleDrive
                ELSE [drive EXCEPT !.st = "busy", !.lba = @ + 1, !.left = @ - 1]
    /\ irq' = [irq EXCEPT !.news = FALSE]
    /\ IF req.k + 1 < req.n
       THEN /\ req' = [req EXCEPT !.k = @ + 1]
            /\ pc' = IF irq.enabled /\ req.flags THEN "irqWait" ELSE "poll"
       ELSE /\ req' = [req EXCEPT !.k = @ + 1, !.stage = "end", !.need = "quiet"]
            /\ pc' = "poll"
    /\ UNCHANGED <<line, bm, bounce, Medium, dma>>

\* ata_read_dma_chunk: the page is cleared, the engine stopped and set up
\* again, and started after the command.
DmaStart ==
    /\ Ready("read") /\ dma
    /\ LET n == IF req.n - req.k > ChunkSectors THEN ChunkSectors ELSE req.n - req.k
       IN /\ Command("dma", req.lba + req.k, n)
          /\ irq' = [irq EXCEPT !.news = FALSE]
          /\ req' = [req EXCEPT !.chunk = n, !.stage = "dma", !.need = "quiet"]
          /\ bounce' = [i \in 1..n |-> Nothing]
    /\ bm' = [bm EXCEPT !.start = TRUE, !.done = FALSE]
    /\ pc' = IF irq.enabled /\ req.flags THEN "irqWait" ELSE "poll"
    /\ UNCHANGED <<line, Medium, dma, buffer>>

DmaCompleteUnchecked == TRUE

\* ata_dma_status_is_complete: an interrupt, no error, and no longer active.
DmaComplete == bm.done

\* The drive is no longer busy; the engine is stopped, and its status decides.
DmaDone ==
    /\ pc = "seen" /\ req.op = "read" /\ req.stage = "dma"
    /\ bm' = EngineStopped(bm)
    /\ IF DmaComplete
       THEN /\ buffer' = buffer \o bounce
            /\ req' = [req EXCEPT !.k = @ + req.chunk]
            /\ pc' = IF req.k + req.chunk < req.n THEN "start" ELSE "done"
       ELSE pc' = "failed" /\ UNCHANGED <<buffer, req>>
    /\ bounce' = <<>>
    /\ UNCHANGED <<drive, line, Medium, irq, dma>>

\* The quiet status after the last PIO sector.
PioEnd ==
    /\ pc = "seen" /\ req.op = "read" /\ req.stage = "end"
    /\ pc' = "done"
    /\ UNCHANGED <<drive, line, bm, bounce, Medium, irq, dma, req, buffer>>

\* Mutant of DisableDma: DMA stays on.
DisableDmaLater ==
    /\ dma' = dma
    /\ \E master \in {FALSE, bm.master} :
          bm' = [EngineStopped(bm) EXCEPT !.master = master, !.pages = FALSE]

\* disable_dma_after_failure: the result of clearing the bus-master bit is
\* not looked at before the pages are freed.
DisableDma ==
    /\ dma' = FALSE
    /\ \E master \in {FALSE, bm.master} :
          bm' = [EngineStopped(bm) EXCEPT !.master = master, !.pages = FALSE]

\* An attempt failed: no more DMA, a channel reset, and another attempt.
NextAttempt ==
    /\ pc = "failed" /\ req.op = "read"
    /\ IF dma
       THEN DisableDma ELSE UNCHANGED <<dma, bm>>
    /\ IF req.attempt + 1 < Attempts
       THEN /\ drive' \in {IdleDrive, [IdleDrive EXCEPT !.st = "busy"]}
            /\ req' = [req EXCEPT !.attempt = @ + 1, !.k = 0, !.chunk = 0]
            /\ buffer' = <<>>
            /\ pc' = "start"
       ELSE End /\ drive' = drive
    /\ UNCHANGED <<line, bounce, Medium, irq>>

-----------------------------------------------------------------------------
(* ata_write_sectors: one command per sector, then the cache flush. *)

\* Which sectors are this write's is counted from its first command.
WriteStart ==
    /\ Ready("write")
    /\ Command("write", req.lba, 1)
    /\ cached' = {} /\ saved' = {}
    /\ Await("drq", "drq", TRUE)
    /\ UNCHANGED <<line, bm, bounce, dma, buffer>>

\* The data of a sector, to a drive that asks for it.
WriteSector ==
    /\ pc = "seen" /\ req.op = "write" /\ req.stage = "drq"
    /\ drive' = IF drive.st = "data" THEN [drive EXCEPT !.st = "busy", !.got = TRUE]
                ELSE drive
    /\ Await("stored", "quiet", TRUE)
    /\ UNCHANGED <<line, bm, bounce, Medium, dma, buffer>>

FlushSkipped == pc' = "done" /\ UNCHANGED <<drive, irq, req>>

\* FLUSH CACHE, which is not followed by ata_400ns_delay.
Flush ==
    /\ Command("flush", 0, 0)
    /\ Await("flush", "quiet", FALSE)

\* A sector is stored: the next one, or the flush.
WriteStored ==
    /\ pc = "seen" /\ req.op = "write" /\ req.stage = "stored"
    /\ \/ /\ req.k + 1 < req.n
          /\ Command("write", req.lba + req.k + 1, 1)
          /\ irq' = [irq EXCEPT !.news = FALSE]
          /\ req' = [req EXCEPT !.k = @ + 1, !.stage = "drq", !.need = "drq"]
          /\ pc' = IF irq.enabled /\ req.flags THEN "irqWait" ELSE "poll"
       \/ req.k + 1 = req.n /\ Flush
    /\ UNCHANGED <<line, bm, bounce, Medium, dma, buffer>>

WriteFlushed ==
    /\ pc = "seen" /\ req.op = "write" /\ req.stage = "flush"
    /\ pc' = "done"
    /\ UNCHANGED <<drive, line, bm, bounce, Medium, irq, dma, req, buffer>>

\* A write is not tried again and the channel is not reset.
WriteFailed ==
    /\ pc = "failed" /\ req.op = "write"
    /\ End
    /\ UNCHANGED <<drive, line, bm, bounce, Medium, irq, dma>>

Return ==
    /\ pc = "done"
    /\ End
    /\ UNCHANGED <<drive, line, bm, bounce, Medium, irq, dma>>

-----------------------------------------------------------------------------
(* ata_enable_irq_mode and ata_enable_dma_mode, at boot. *)

EnableIrqMode ==
    /\ pc = "idle" /\ ~irq.enabled
    /\ irq' = [irq EXCEPT !.enabled = TRUE]
    /\ UNCHANGED <<drive, line, bm, bounce, Medium, dma, req, buffer, pc>>

\* ata_enable_dma_mode without two pages, or without bus mastering, which it
\* then tries to switch off again: what pages it has go back.
ModeRefused ==
    /\ pc = "idle" /\ irq.enabled /\ ~dma
    /\ \E master \in BOOLEAN : bm' = [bm EXCEPT !.master = master]
    /\ UNCHANGED <<drive, line, bounce, Medium, irq, dma, req, buffer, pc>>

\* Pages and bus mastering, then SET FEATURES.
ModeRequest ==
    /\ pc = "idle" /\ irq.enabled /\ ~dma
    /\ req' = [NoRequest EXCEPT !.op = "mode", !.flags = TRUE]
    /\ bm' = [start |-> FALSE, done |-> FALSE, master |-> TRUE, pages |-> TRUE]
    /\ pc' = "start"
    /\ UNCHANGED <<drive, line, bounce, Medium, irq, dma, buffer>>

ModeStart ==
    /\ Ready("mode")
    /\ Command("mode", 0, 0)
    /\ Await("mode", "quiet", TRUE)
    /\ UNCHANGED <<line, bm, bounce, Medium, dma, buffer>>

ModeSet ==
    /\ pc = "seen" /\ req.op = "mode"
    /\ dma' = TRUE
    /\ End
    /\ UNCHANGED <<drive, line, bm, bounce, Medium, irq>>

ModeFailed ==
    /\ pc = "failed" /\ req.op = "mode"
    /\ drive' \in {IdleDrive, [IdleDrive EXCEPT !.st = "busy"]}
    /\ \E master \in BOOLEAN : bm' = [bm EXCEPT !.master = master, !.pages = FALSE]
    /\ End
    /\ UNCHANGED <<line, bounce, Medium, irq, dma>>

-----------------------------------------------------------------------------
Next ==
    \/ DataReady \/ Transfer \/ Finish \/ Fail \/ IrqHandler
    \/ \E op \in {"read", "write"}, r \in Ranges, flags \in BOOLEAN :
          Request(op, r, flags)
    \/ StartExpired \/ IrqSeen \/ IrqExpired \/ Poll
    \/ PioStart \/ PioSector \/ PioEnd \/ DmaStart \/ DmaDone \/ NextAttempt
    \/ WriteStart \/ WriteSector \/ WriteStored \/ WriteFlushed \/ WriteFailed
    \/ Return
    \/ EnableIrqMode \/ ModeRefused \/ ModeRequest \/ ModeStart \/ ModeSet \/ ModeFailed

Spec == Init /\ [][Next]_vars

-----------------------------------------------------------------------------
\* Every part of the state has its type; only sectors of the write window are
\* ever in the cache or on the medium, and none is saved before it was sent
\* (the window test of ata_write_sectors).
TypeOK ==
    /\ drive.st \in {"ready", "busy", "data", "transfer", "failed"}
    /\ drive.cmd \in {"none", "read", "write", "dma", "flush", "mode"}
    /\ drive.lba \in 0..Sectors - 1 /\ drive.left \in 0..MaxCount
    /\ bm \in [start : BOOLEAN, done : BOOLEAN, master : BOOLEAN, pages : BOOLEAN]
    /\ cached \subseteq WindowStart..WindowStart + WindowSectors - 1
    /\ saved \subseteq cached
    /\ irq \in [enabled : BOOLEAN, news : BOOLEAN, status : SUBSET {"bsy", "drq", "err"}]
    /\ req.k \in 0..MaxCount /\ req.attempt \in 0..Attempts - 1
    /\ pc \in {"idle", "start", "irqWait", "poll", "seen", "failed", "done"}

\* A read that reports success has filled its buffer with exactly the sectors
\* asked for, in order, whether they came by DMA, by PIO, or by PIO after a
\* DMA attempt that failed half way.
ReadDeliversTheDisk ==
    pc = "done" /\ req.op = "read" =>
        buffer = [i \in 1..req.n |-> req.lba + i - 1]

\* A write that reports success is on the medium and not only in the cache of
\* the drive: this is what the journal takes a returned write for.
AcknowledgedWriteIsSaved ==
    pc = "done" /\ req.op = "write" => saved = req.lba..req.lba + req.n - 1

\* The engine runs only while a DMA read waits for it, DMA is on only while
\* the driver has its two pages, and only sectors of the journal's window are
\* written.  So no failure, at whatever point of a read, lets the driver start
\* the engine on pages that it freed or leave it running on them
\* (ata_read_dma_chunk, disable_dma_after_failure, ata_enable_dma_mode).
PagesAreSafe ==
    /\ TypeOK
    /\ dma => bm.pages
    /\ bm.start => dma /\ req.op = "read" /\ pc \in {"irqWait", "poll", "seen"}

=============================================================================
