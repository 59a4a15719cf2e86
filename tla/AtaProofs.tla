----------------------------- MODULE AtaProofs -----------------------------
(***************************************************************************)
(* The driver of drivers/ata.c keeps its word for every capacity, window,  *)
(* request size and chunk size: a read that succeeds delivers the sectors  *)
(* asked for, a write that succeeds is on the medium, and the DMA pages    *)
(* are the driver's while the engine may use them.                         *)
(*                                                                         *)
(* The inductive invariant AtaInv says, for each phase of a request, what  *)
(* the drive is doing and which sectors have already arrived: a drive that *)
(* has not failed is always at the sector the driver is at.                *)
(***************************************************************************)
EXTENDS Ata, TLAPS

Window == WindowStart..WindowStart + WindowSectors - 1

DriveType ==
    [st : {"ready", "busy", "data", "transfer", "failed"},
     cmd : {"none", "read", "write", "dma", "flush", "mode"},
     lba : 0..Sectors - 1, left : 0..MaxCount, got : BOOLEAN]

EngineType == [start : BOOLEAN, done : BOOLEAN, master : BOOLEAN, pages : BOOLEAN]

IrqType == [enabled : BOOLEAN, news : BOOLEAN, status : SUBSET {"bsy", "drq", "err"}]

RequestType ==
    [op : {"none", "read", "write", "mode"}, lba : Nat, n : Nat, k : 0..MaxCount,
     chunk : Nat, attempt : 0..Attempts - 1, need : {"quiet", "drq"},
     stage : {"none", "data", "end", "dma", "drq", "stored", "flush", "mode"},
     flags : BOOLEAN, early : BOOLEAN]

Types ==
    /\ drive \in DriveType
    /\ bm \in EngineType
    /\ irq \in IrqType
    /\ req \in RequestType
    /\ line \in BOOLEAN /\ dma \in BOOLEAN
    /\ cached \in SUBSET Window /\ saved \in SUBSET cached
    /\ pc \in {"idle", "start", "irqWait", "poll", "seen", "failed", "done"}

(* What valid_request and the window test leave of a request, and what a   *)
(* drive may still be doing for one that was given up.                     *)
RequestInv ==
    /\ pc = "idle" <=> req.op = "none"
    /\ req.op \in {"read", "write"} => req.n \in 1..MaxCount /\ req.lba + req.n <= Sectors
    /\ req.op = "write" => req.lba..req.lba + req.n - 1 \subseteq Window
    /\ drive.got => drive.cmd = "write"
    /\ drive.cmd = "write" => drive.lba \in Window
    /\ drive.cmd = "read" => drive.left >= 1 /\ drive.lba + drive.left <= Sectors
    /\ req.early => ~BusyAtOnce /\ req.op = "write" /\ req.stage = "flush"

Waiting == pc \in {"irqWait", "poll", "seen"}

(* The engine and its pages. *)
EngineInv ==
    /\ bm.start => dma /\ req.op = "read" /\ req.stage = "dma" /\ Waiting
    /\ dma => bm.pages
    /\ req.op = "mode" => ~dma /\ ~bm.start /\ bm.pages

(* The phases of a write. *)
AtDrq ==
    /\ req.need = "drq"
    /\ req.k < req.n
    /\ drive.st # "failed" =>
         /\ drive.st \in {"busy", "data"}
         /\ drive.cmd = "write" /\ ~drive.got
         /\ drive.lba = req.lba + req.k
         /\ cached = req.lba..req.lba + req.k - 1
         /\ saved = {}
    /\ pc = "seen" => drive.st # "busy"

AtStored ==
    /\ req.need = "quiet"
    /\ req.k < req.n
    /\ drive.st # "failed" =>
         /\ saved = {}
         /\ \/ /\ drive.st = "busy" /\ drive.cmd = "write" /\ drive.got
               /\ drive.lba = req.lba + req.k
               /\ cached = req.lba..req.lba + req.k - 1
            \/ drive.st = "ready" /\ cached = req.lba..req.lba + req.k
    /\ pc = "seen" => drive.st = "ready"

AtFlush ==
    /\ req.need = "quiet"
    /\ drive.st # "failed" =>
         /\ cached = req.lba..req.lba + req.n - 1
         /\ \/ drive.st = "busy" /\ drive.cmd = "flush"
            \/ drive.st = "ready" /\ saved = cached
    /\ pc = "seen" /\ BusyAtOnce => drive.st = "ready"

WriteInv ==
    req.op = "write" =>
        /\ pc = "start" => req.k = 0
        /\ Waiting => \/ req.stage = "drq" /\ AtDrq
                      \/ req.stage = "stored" /\ AtStored
                      \/ req.stage = "flush" /\ AtFlush
        /\ pc = "done" /\ BusyAtOnce =>
             drive.st = "ready" /\ saved = req.lba..req.lba + req.n - 1

(* The first k sectors of a request are in the buffer. *)
Arrived(k) ==
    /\ buffer \in Seq(Nat) /\ Len(buffer) = k
    /\ \A i \in 1..k : buffer[i] = req.lba + i - 1

AtData ==
    /\ req.need = "drq" /\ req.k < req.n
    /\ buffer \in Seq(Nat)
    /\ drive.st # "failed" =>
         /\ drive.st \in {"busy", "data"}
         /\ drive.cmd = "read"
         /\ drive.lba = req.lba + req.k /\ drive.left = req.n - req.k
         /\ Arrived(req.k)
    /\ pc = "seen" => drive.st # "busy"

AtEnd ==
    /\ req.need = "quiet"
    /\ drive.st \in {"ready", "failed"}
    /\ drive.st = "ready" => Arrived(req.n)
    /\ pc = "seen" => drive.st = "ready"

AtDma ==
    /\ req.need = "quiet" /\ dma
    /\ Arrived(req.k)
    /\ req.chunk \in 1..req.n - req.k
    /\ bm.done => /\ drive.st = "ready"
                  /\ bounce = [i \in 1..req.chunk |-> req.lba + req.k + i - 1]
    /\ drive.st = "ready" => bm.done
    /\ drive.st # "ready" =>
         \/ drive.st = "failed"
         \/ /\ drive.st \in {"busy", "transfer"} /\ drive.cmd = "dma"
            /\ drive.lba = req.lba + req.k /\ drive.left = req.chunk

ReadInv ==
    req.op = "read" =>
        /\ pc = "start" => req.k < req.n /\ (IF dma THEN Arrived(req.k) ELSE req.k = 0)
        /\ Waiting => \/ req.stage = "data" /\ AtData
                      \/ req.stage = "end" /\ AtEnd
                      \/ req.stage = "dma" /\ AtDma
        /\ pc = "done" => Arrived(req.n)

AtaInv == Types /\ RequestInv /\ EngineInv /\ WriteInv /\ ReadInv

-----------------------------------------------------------------------------
(* The drive, its status and its commands. *)

LEMMA ConstantsNat ==
    /\ Sectors \in Nat /\ Sectors > 0 /\ MaxCount \in Nat /\ MaxCount > 0
    /\ ChunkSectors \in Nat /\ ChunkSectors > 0
    /\ WindowStart \in Nat /\ WindowSectors \in Nat
    /\ WindowStart + WindowSectors <= Sectors
  BY AtaAssumption

LEMMA IdleDriveFields ==
    /\ IdleDrive \in DriveType
    /\ IdleDrive.st = "ready" /\ IdleDrive.cmd = "none" /\ IdleDrive.got = FALSE
  BY ConstantsNat DEF IdleDrive, DriveType

(* After a failure or a channel reset. *)
Reset(d) == d \in DriveType /\ d.cmd = "none" /\ ~d.got

LEMMA ResetDrive ==
    ASSUME NEW st \in {"ready", "busy", "data", "transfer", "failed"}
    PROVE  Reset([IdleDrive EXCEPT !.st = st]) /\ [IdleDrive EXCEPT !.st = st].st = st
  BY IdleDriveFields, Zenon DEF DriveType, Reset

LEMMA StoppedEngine ==
    ASSUME bm \in EngineType
    PROVE  /\ EngineStopped(bm) \in EngineType /\ ~EngineStopped(bm).start
           /\ EngineStopped(bm).pages = bm.pages
  BY Zenon DEF EngineStopped, EngineType

LEMMA StatusType ==
    drive \in DriveType => Status(drive) \in SUBSET {"bsy", "drq", "err"}
  BY Zenon DEF Status, DriveType

(* A command that is written is the drive's command, whatever it did before. *)
Commanded(d, cmd, lba, n) ==
    /\ d \in DriveType
    /\ d.st = "busy" /\ d.cmd = cmd /\ ~d.got /\ d.lba = lba /\ d.left = n

LEMMA CommandFields ==
    ASSUME NEW cmd \in {"none", "read", "write", "dma", "flush", "mode"},
           NEW lba \in 0..Sectors - 1, NEW n \in 0..MaxCount, Command(cmd, lba, n)
    PROVE  Commanded(drive', cmd, lba, n)
  BY Zenon DEF Command, IdleDrive, DriveType, Commanded

LEMMA NoRequestFields ==
    NoRequest \in RequestType /\ NoRequest.op = "none" /\ ~NoRequest.early
  BY ConstantsNat DEF NoRequest, RequestType, Attempts

(* One sector further. *)
LEMMA NextSectorFields ==
    ASSUME NEW lba \in 0..Sectors - 1, NEW left \in 0..MaxCount,
           drive \in DriveType, drive.cmd = "read", ~drive.got,
           drive' = [drive EXCEPT !.st = "busy", !.lba = lba, !.left = left]
    PROVE  Commanded(drive', "read", lba, left)
  BY Zenon DEF DriveType, Commanded

Advanced(r, k, stage, need) ==
    /\ r \in RequestType
    /\ r.op = req.op /\ r.lba = req.lba /\ r.n = req.n /\ r.k = k
    /\ r.stage = stage /\ r.need = need /\ (r.early => req.early)

LEMMA AdvancedFields ==
    ASSUME NEW k \in 0..MaxCount, req \in RequestType, req' = [req EXCEPT !.k = k]
    PROVE  Advanced(req', k, req.stage, req.need)
  BY Zenon DEF RequestType, Advanced

LEMMA StagedFields ==
    ASSUME NEW k \in 0..MaxCount, req \in RequestType,
           req' = [req EXCEPT !.k = k, !.stage = "end", !.need = "quiet"]
    PROVE  Advanced(req', k, "end", "quiet")
  BY Zenon DEF RequestType, Advanced

(* What is in the buffer after one more sector, or one more chunk. *)
LEMMA AppendElements ==
    ASSUME NEW s \in Seq(Nat), NEW x \in Nat
    PROVE  /\ Append(s, x) \in Seq(Nat) /\ Len(Append(s, x)) = Len(s) + 1
           /\ \A i \in 1..Len(s) + 1 :
                Append(s, x)[i] = IF i = Len(s) + 1 THEN x ELSE s[i]
  OBVIOUS

LEMMA ConcatElements ==
    ASSUME NEW s \in Seq(Nat), NEW t \in Seq(Nat)
    PROVE  /\ s \o t \in Seq(Nat) /\ Len(s \o t) = Len(s) + Len(t)
           /\ \A i \in 1..Len(s) + Len(t) :
                (s \o t)[i] = IF i <= Len(s) THEN s[i] ELSE t[i - Len(s)]
  OBVIOUS

(* Sectors are sent one after the other. *)
LEMMA OneMore ==
    ASSUME NEW a \in Nat, NEW k \in Nat
    PROVE  (a..a + k - 1) \cup {a + k} = a..a + k
  OBVIOUS


-----------------------------------------------------------------------------
(* The steps of the drive and of the interrupt handler. *)

LEMMA DataReadyKeeps == AtaInv /\ DataReady => AtaInv'
<1> SUFFICES ASSUME AtaInv, DataReady PROVE AtaInv'
  BY Zenon
<1> USE ConstantsNat DEF AtaInv, DataReady, Raise, Medium
<1>1. Types'
  BY DEF Types, DriveType, EngineType, IrqType, RequestType, RequestInv, Window,
     Attempts
<1>2. RequestInv'
  BY Zenon DEF Types, DriveType, RequestType, RequestInv, Window
<1>3. EngineInv'
  BY Zenon DEF Types, EngineType, EngineInv, RequestInv, Waiting
<1>4. WriteInv'
  BY Zenon DEF Types, DriveType, RequestType, RequestInv, WriteInv, Waiting, AtDrq,
     AtStored, AtFlush
<1>5. ReadInv'
  BY Zenon DEF Types, EngineType, DriveType, RequestType, RequestInv, ReadInv, Waiting,
     AtData, AtEnd, AtDma, Arrived
<1> QED BY <1>1, <1>2, <1>3, <1>4, <1>5, Zenon DEF AtaInv

LEMMA TransferKeeps == AtaInv /\ Transfer => AtaInv'
<1> SUFFICES ASSUME AtaInv, Transfer PROVE AtaInv'
  OBVIOUS
<1> USE ConstantsNat DEF AtaInv, Transfer, Medium
<1>1. Types'
  BY DEF Types, DriveType, EngineType, IrqType, RequestType, RequestInv, Window,
     Attempts
<1>2. RequestInv'
  BY Zenon DEF Types, DriveType, RequestType, RequestInv, Window
<1>3. EngineInv'
  BY Zenon DEF Types, EngineType, EngineInv, RequestInv, Waiting
<1>4. WriteInv'
  BY Zenon DEF Types, DriveType, RequestType, RequestInv, WriteInv, Waiting, AtDrq,
     AtStored, AtFlush
<1>5. ReadInv'
  BY Zenon DEF Types, EngineType, DriveType, RequestType, RequestInv, ReadInv, Waiting,
     AtData, AtEnd, AtDma, Arrived
<1> QED BY <1>1, <1>2, <1>3, <1>4, <1>5, Zenon DEF AtaInv

LEMMA FinishKeeps == AtaInv /\ Finish => AtaInv'
<1> SUFFICES ASSUME AtaInv, Finish PROVE AtaInv'
  OBVIOUS
<1> USE ConstantsNat DEF AtaInv, Finish, Raise
<1> USE IdleDriveFields
<1>1. Types'
  <2>1. drive' \in DriveType
    BY Zenon DEF Types
  <2>2. bm' \in EngineType
    BY Zenon DEF Types, EngineType
  <2>3. irq' \in IrqType
    BY Zenon DEF Types, IrqType
  <2>4. req' \in RequestType
    BY Zenon DEF Types, RequestType, RequestInv, Attempts
  <2>5. cached' \in SUBSET Window /\ saved' \in SUBSET cached'
    BY Zenon DEF Types, RequestInv
  <2>6. line' \in BOOLEAN /\ dma' \in BOOLEAN
    BY Zenon DEF Types, IrqType
  <2>7. pc' \in {"idle", "start", "irqWait", "poll", "seen", "failed", "done"}
    BY Zenon DEF Types
  <2> QED BY <2>1, <2>2, <2>3, <2>4, <2>5, <2>6, <2>7, Zenon DEF Types
<1>2. RequestInv'
  BY Zenon DEF Types, DriveType, RequestType, RequestInv, Window
<1>3. EngineInv'
  BY Zenon DEF Types, EngineType, EngineInv, RequestInv, Waiting
<1>4. WriteInv'
  <2> SUFFICES ASSUME req.op = "write" PROVE WriteInv'
    BY Zenon DEF WriteInv
  <2>1. CASE Waiting /\ req.stage = "drq"
    BY <2>1, Zenon DEF Types, DriveType, RequestType, RequestInv, WriteInv, Waiting, AtDrq,
       AtStored, AtFlush
  <2>2. CASE Waiting /\ req.stage = "stored"
    <3>0. req.lba \in Nat /\ req.k \in Nat
      BY DEF Types, RequestType
    <3>1. (req.lba..req.lba + req.k - 1) \cup {req.lba + req.k} = req.lba..req.lba + req.k
      BY <3>0, OneMore, Zenon
    <3>2. drive.st = "busy" /\ drive.cmd = "write"
      BY <2>2, Zenon DEF WriteInv, AtStored
    <3>3. /\ cached = req.lba..req.lba + req.k - 1 /\ drive.lba = req.lba + req.k
          /\ saved = {} /\ pc # "seen"
      BY <2>2, <3>2, Zenon DEF WriteInv, AtStored
    <3>4. cached' = req.lba..req.lba + req.k /\ saved' = {}
      BY <3>1, <3>2, <3>3, Zenon
    <3> QED BY <2>2, <3>3, <3>4, Zenon DEF WriteInv, Waiting, AtStored
  <2>3. CASE Waiting /\ req.stage = "flush"
    BY <2>3, Zenon DEF Types, DriveType, RequestType, RequestInv, WriteInv, Waiting, AtDrq,
       AtStored, AtFlush
  <2>4. CASE ~Waiting
    BY <2>4, Zenon DEF Types, DriveType, RequestType, RequestInv, WriteInv, Waiting, AtDrq,
       AtStored, AtFlush
  <2> QED BY <2>1, <2>2, <2>3, <2>4, Zenon DEF WriteInv
<1>5. ReadInv'
  BY ZenonT(30) DEF Types, EngineType, DriveType, RequestType, RequestInv, ReadInv, Waiting,
     AtData, AtEnd, AtDma, Arrived
<1> QED BY <1>1, <1>2, <1>3, <1>4, <1>5, Zenon DEF AtaInv

LEMMA FailKeeps == AtaInv /\ Fail => AtaInv'
<1> SUFFICES ASSUME AtaInv, Fail PROVE AtaInv'
  OBVIOUS
<1> USE ConstantsNat DEF AtaInv, Fail, Raise
<1>0. drive' \in DriveType /\ drive'.st = "failed" /\ drive'.cmd = "none" /\ ~drive'.got
  BY ResetDrive, Zenon DEF Reset
<1> USE <1>0
<1>1. Types'
  <2>1. drive' \in DriveType
    BY <1>0, Zenon
  <2>2. bm' \in EngineType
    BY Zenon DEF Types, EngineType
  <2>3. irq' \in IrqType
    BY Zenon DEF Types, IrqType
  <2>4. req' \in RequestType
    BY Zenon DEF Types, RequestType, RequestInv, Attempts
  <2>5. cached' \in SUBSET Window /\ saved' \in SUBSET cached'
    BY Zenon DEF Types, RequestInv
  <2>6. line' \in BOOLEAN /\ dma' \in BOOLEAN
    BY Zenon DEF Types, IrqType
  <2>7. pc' \in {"idle", "start", "irqWait", "poll", "seen", "failed", "done"}
    BY Zenon DEF Types
  <2> QED BY <2>1, <2>2, <2>3, <2>4, <2>5, <2>6, <2>7, Zenon DEF Types
<1>2. RequestInv'
  BY Zenon DEF Types, DriveType, RequestType, RequestInv, Window
<1>3. EngineInv'
  BY Zenon DEF Types, EngineType, EngineInv, RequestInv, Waiting
<1>4. WriteInv'
  BY Zenon DEF Types, DriveType, RequestType, RequestInv, WriteInv, Waiting, AtDrq,
     AtStored, AtFlush
<1>5. ReadInv'
  BY ZenonT(30) DEF Types, EngineType, DriveType, RequestType, RequestInv, ReadInv, Waiting,
     AtData, AtEnd, AtDma, Arrived
<1> QED BY <1>1, <1>2, <1>3, <1>4, <1>5, Zenon DEF AtaInv

LEMMA IrqHandlerKeeps == AtaInv /\ IrqHandler => AtaInv'
<1> SUFFICES ASSUME AtaInv, IrqHandler PROVE AtaInv'
  OBVIOUS
<1> USE ConstantsNat DEF AtaInv, IrqHandler, Medium
<1>1. Types'
  <2>1. drive' \in DriveType
    BY Zenon DEF Types, DriveType, RequestType, RequestInv, Window
  <2>2. bm' \in EngineType
    BY Zenon DEF Types, EngineType
  <2>3. irq' \in IrqType
    BY StatusType, Zenon DEF Types, IrqType
  <2>4. req' \in RequestType
    BY Zenon DEF Types, RequestType, RequestInv, Attempts
  <2>5. cached' \in SUBSET Window /\ saved' \in SUBSET cached'
    BY Zenon DEF Types, RequestInv
  <2>6. line' \in BOOLEAN /\ dma' \in BOOLEAN
    BY Zenon DEF Types, IrqType
  <2>7. pc' \in {"idle", "start", "irqWait", "poll", "seen", "failed", "done"}
    BY Zenon DEF Types
  <2> QED BY <2>1, <2>2, <2>3, <2>4, <2>5, <2>6, <2>7, Zenon DEF Types
<1>2. RequestInv'
  BY Zenon DEF Types, DriveType, RequestType, RequestInv, Window
<1>3. EngineInv'
  BY Zenon DEF Types, EngineType, EngineInv, RequestInv, Waiting
<1>4. WriteInv'
  BY DEF Types, DriveType, RequestType, RequestInv, WriteInv, Waiting, AtDrq,
     AtStored, AtFlush
<1>5. ReadInv'
  BY DEF Types, EngineType, DriveType, RequestType, RequestInv, ReadInv, Waiting,
     AtData, AtEnd, AtDma, Arrived
<1> QED BY <1>1, <1>2, <1>3, <1>4, <1>5, Zenon DEF AtaInv

-----------------------------------------------------------------------------
(* The waits: a status that will do is the status of the drive now. *)

LEMMA StartExpiredKeeps == AtaInv /\ StartExpired => AtaInv'
<1> SUFFICES ASSUME AtaInv, StartExpired PROVE AtaInv'
  OBVIOUS
<1> USE ConstantsNat DEF AtaInv, StartExpired, Medium
<1>1. Types'
  BY DEF Types, DriveType, EngineType, IrqType, RequestType, RequestInv, Window,
     Attempts
<1>2. RequestInv'
  BY Zenon DEF Types, DriveType, RequestType, RequestInv, Window
<1>3. EngineInv'
  BY Zenon DEF Types, EngineType, EngineInv, RequestInv, Waiting
<1>4. WriteInv'
  BY Zenon DEF Types, DriveType, RequestType, RequestInv, WriteInv, Waiting, AtDrq,
     AtStored, AtFlush
<1>5. ReadInv'
  BY Zenon DEF Types, EngineType, DriveType, RequestType, RequestInv, ReadInv, Waiting,
     AtData, AtEnd, AtDma, Arrived
<1> QED BY <1>1, <1>2, <1>3, <1>4, <1>5, Zenon DEF AtaInv

LEMMA IrqSeenKeeps == AtaInv /\ IrqSeen => AtaInv'
<1> SUFFICES ASSUME AtaInv, IrqSeen PROVE AtaInv'
  OBVIOUS
<1> USE ConstantsNat DEF AtaInv, IrqSeen, WaitEnds, Status, StatusOK, Medium
<1>0. /\ bm' \in EngineType /\ bm'.pages = bm.pages /\ pc' \in {"poll", "seen", "failed"}
      /\ bm' = bm \/ ~bm'.start
      /\ pc' = "failed" /\ req.stage = "dma" => ~bm'.start
  BY StoppedEngine, Zenon DEF Types
<1>1. Types'
  BY <1>0, Zenon DEF Types
<1>2. RequestInv'
  BY Zenon DEF Types, DriveType, RequestType, RequestInv, Window
<1>3. EngineInv'
  <2>1. /\ bm.start => dma /\ req.op = "read" /\ req.stage = "dma"
        /\ dma => bm.pages
        /\ req.op = "mode" => ~dma /\ ~bm.start /\ bm.pages
    BY Zenon DEF EngineInv
  <2>2. bm'.start => Waiting'
    BY <1>0, <2>1, Zenon DEF Waiting
  <2>3. req' = req /\ dma' = dma
    BY Zenon
  <2> HIDE DEF AtaInv, IrqSeen, Poll, WaitEnds, Status, StatusOK, Medium
  <2> QED BY <1>0, <2>1, <2>2, <2>3, Zenon DEF EngineInv
<1>4. WriteInv'
  BY DEF Types, DriveType, RequestType, RequestInv, WriteInv, Waiting, AtDrq,
     AtStored, AtFlush
<1>5. ReadInv'
  <2> SUFFICES ASSUME req.op = "read" PROVE ReadInv'
    BY Zenon DEF ReadInv
  <2>1. Waiting
    BY Zenon DEF Waiting
  <2>2. CASE req.stage = "data"
    BY <2>1, <2>2, Zenon DEF Types, EngineType, DriveType, RequestType, RequestInv, ReadInv,
       Waiting, AtData, AtEnd, AtDma, Arrived
  <2>3. CASE req.stage = "end"
    BY <2>1, <2>3, Zenon DEF Types, EngineType, DriveType, RequestType, RequestInv, ReadInv,
       Waiting, AtData, AtEnd, AtDma, Arrived
  <2>4. CASE req.stage = "dma"
    BY <2>1, <2>4 DEF Types, EngineType, DriveType, RequestType, RequestInv, ReadInv,
       Waiting, AtData, AtEnd, AtDma, Arrived
  <2> QED BY <2>1, <2>2, <2>3, <2>4, Zenon DEF ReadInv
<1> QED BY <1>1, <1>2, <1>3, <1>4, <1>5, Zenon DEF AtaInv

LEMMA IrqExpiredKeeps == AtaInv /\ IrqExpired => AtaInv'
<1> SUFFICES ASSUME AtaInv, IrqExpired PROVE AtaInv'
  OBVIOUS
<1> USE ConstantsNat DEF AtaInv, IrqExpired, Medium
<1>1. Types'
  BY DEF Types, DriveType, EngineType, IrqType, RequestType, RequestInv, Window,
     Attempts
<1>2. RequestInv'
  BY Zenon DEF Types, DriveType, RequestType, RequestInv, Window
<1>3. EngineInv'
  BY Zenon DEF Types, EngineType, EngineInv, RequestInv, Waiting
<1>4. WriteInv'
  BY Zenon DEF Types, DriveType, RequestType, RequestInv, WriteInv, Waiting, AtDrq,
     AtStored, AtFlush
<1>5. ReadInv'
  BY DEF Types, EngineType, DriveType, RequestType, RequestInv, ReadInv, Waiting,
     AtData, AtEnd, AtDma, Arrived
<1> QED BY <1>1, <1>2, <1>3, <1>4, <1>5, Zenon DEF AtaInv

LEMMA PollKeeps == AtaInv /\ Poll => AtaInv'
<1> SUFFICES ASSUME AtaInv, Poll PROVE AtaInv'
  OBVIOUS
<1> USE ConstantsNat DEF AtaInv, Poll, WaitEnds, Status, StatusOK, Medium
<1>0. /\ bm' \in EngineType /\ bm'.pages = bm.pages /\ pc' \in {"poll", "seen", "failed"}
      /\ bm' = bm \/ ~bm'.start
      /\ pc' = "failed" /\ req.stage = "dma" => ~bm'.start
  BY StoppedEngine, Zenon DEF Types
<1>1. Types'
  BY <1>0, Zenon DEF Types
<1>2. RequestInv'
  BY Zenon DEF Types, DriveType, RequestType, RequestInv, Window
<1>3. EngineInv'
  <2>1. /\ bm.start => dma /\ req.op = "read" /\ req.stage = "dma"
        /\ dma => bm.pages
        /\ req.op = "mode" => ~dma /\ ~bm.start /\ bm.pages
    BY Zenon DEF EngineInv
  <2>2. bm'.start => Waiting'
    BY <1>0, <2>1, Zenon DEF Waiting
  <2>3. req' = req /\ dma' = dma
    BY Zenon
  <2> HIDE DEF AtaInv, IrqSeen, Poll, WaitEnds, Status, StatusOK, Medium
  <2> QED BY <1>0, <2>1, <2>2, <2>3, Zenon DEF EngineInv
<1>4. WriteInv'
  BY DEF Types, DriveType, RequestType, RequestInv, WriteInv, Waiting, AtDrq,
     AtStored, AtFlush
<1>5. ReadInv'
  <2> SUFFICES ASSUME req.op = "read" PROVE ReadInv'
    BY Zenon DEF ReadInv
  <2>1. Waiting
    BY Zenon DEF Waiting
  <2>2. CASE req.stage = "data"
    BY <2>1, <2>2, Zenon DEF Types, EngineType, DriveType, RequestType, RequestInv, ReadInv,
       Waiting, AtData, AtEnd, AtDma, Arrived
  <2>3. CASE req.stage = "end"
    BY <2>1, <2>3, Zenon DEF Types, EngineType, DriveType, RequestType, RequestInv, ReadInv,
       Waiting, AtData, AtEnd, AtDma, Arrived
  <2>4. CASE req.stage = "dma"
    BY <2>1, <2>4 DEF Types, EngineType, DriveType, RequestType, RequestInv, ReadInv,
       Waiting, AtData, AtEnd, AtDma, Arrived
  <2> QED BY <2>1, <2>2, <2>3, <2>4, Zenon DEF ReadInv
<1> QED BY <1>1, <1>2, <1>3, <1>4, <1>5, Zenon DEF AtaInv

-----------------------------------------------------------------------------
(* Reads. *)

LEMMA PioStartKeeps == AtaInv /\ PioStart => AtaInv'
<1> SUFFICES ASSUME AtaInv, PioStart PROVE AtaInv'
  OBVIOUS
<1> USE ConstantsNat DEF AtaInv, PioStart, Ready, Await, Medium
<1>a. req.lba \in 0..Sectors - 1 /\ req.n \in 0..MaxCount
  BY DEF Types, RequestType, RequestInv
<1>0. Commanded(drive', "read", req.lba, req.n)
  BY <1>a, CommandFields, Zenon
<1>1. Types'
  <2>1. drive' \in DriveType
    BY <1>0, Zenon DEF Commanded
  <2>2. bm' \in EngineType
    BY Zenon DEF Types, EngineType
  <2>3. irq' \in IrqType
    BY Zenon DEF Types, IrqType
  <2>4. req' \in RequestType
    BY Zenon DEF Types, RequestType, RequestInv, Attempts
  <2>5. cached' \in SUBSET Window /\ saved' \in SUBSET cached'
    BY Zenon DEF Types, RequestInv
  <2>6. line' \in BOOLEAN /\ dma' \in BOOLEAN
    BY Zenon DEF Types, IrqType
  <2>7. pc' \in {"idle", "start", "irqWait", "poll", "seen", "failed", "done"}
    BY Zenon DEF Types
  <2> QED BY <2>1, <2>2, <2>3, <2>4, <2>5, <2>6, <2>7, Zenon DEF Types
<1>2. RequestInv'
  BY <1>0 DEF Types, RequestType, RequestInv, Commanded
<1>3. EngineInv'
  BY DEF Types, EngineType, EngineInv, RequestInv
<1>4. WriteInv'
  BY Zenon DEF Types, RequestType, WriteInv
<1>5. ReadInv'
  BY <1>0 DEF Types, EngineType, DriveType, RequestType, RequestInv, ReadInv,
     Waiting, AtData, AtEnd, AtDma, Arrived, Commanded
<1> QED BY <1>1, <1>2, <1>3, <1>4, <1>5, Zenon DEF AtaInv

LEMMA PioSectorKeeps == AtaInv /\ PioSector => AtaInv'
<1> SUFFICES ASSUME AtaInv, PioSector PROVE AtaInv'
  OBVIOUS
<1> USE ConstantsNat
<1>a. /\ req.lba \in Nat /\ req.n \in 1..MaxCount /\ req.k \in Nat /\ req.k < req.n
      /\ req.lba + req.n <= Sectors
  BY DEF AtaInv, PioSector, ReadInv, Waiting, Types, RequestType, RequestInv, AtData
<1>s. /\ req.op = "read" /\ req.stage = "data" /\ req.need = "drq" /\ ~req.early
      /\ buffer \in Seq(Nat) /\ drive.st \in {"data", "failed"}
      /\ drive.st = "data" => /\ drive.cmd = "read" /\ ~drive.got
                              /\ drive.lba = req.lba + req.k /\ drive.left = req.n - req.k
                              /\ Arrived(req.k)
  <2>1. AtData /\ req.op = "read" /\ pc = "seen"
    BY Zenon DEF AtaInv, PioSector, ReadInv, Waiting
  <2> QED BY <2>1, Zenon DEF AtaInv, PioSector, Types, RequestType, DriveType, RequestInv,
             AtData
<1>b. /\ drive.st = "failed" => drive' = drive
      /\ drive.st = "data" /\ req.k + 1 = req.n => drive' = IdleDrive
      /\ drive.st = "data" /\ req.k + 1 < req.n =>
           Commanded(drive', "read", req.lba + req.k + 1, req.n - (req.k + 1))
  <2>1. CASE drive.st = "failed"
    BY <2>1, Zenon DEF PioSector
  <2>2. CASE drive.st = "data" /\ req.k + 1 = req.n
    BY <1>a, <1>s, <2>2 DEF PioSector
  <2>3. CASE drive.st = "data" /\ req.k + 1 < req.n
    <3>1. /\ drive' = [drive EXCEPT !.st = "busy", !.lba = @ + 1, !.left = @ - 1]
          /\ drive.lba + 1 = req.lba + req.k + 1 /\ drive.lba + 1 \in 0..Sectors - 1
          /\ drive.left - 1 = req.n - (req.k + 1) /\ drive.left - 1 \in 0..MaxCount
      <4>0. /\ drive.lba = req.lba + req.k /\ drive.left = req.n - req.k /\ req.k + 1 < req.n
        BY <1>s, <2>3, Zenon
      <4>1. drive.left # 1 /\ drive.st = "data"
        BY <1>a, <2>3, <4>0
      <4>2. drive' = [drive EXCEPT !.st = "busy", !.lba = @ + 1, !.left = @ - 1]
        BY <4>1, Zenon DEF PioSector
      <4>3. /\ drive.lba + 1 = req.lba + req.k + 1 /\ drive.lba + 1 \in 0..Sectors - 1
            /\ drive.left - 1 = req.n - (req.k + 1) /\ drive.left - 1 \in 0..MaxCount
        BY <1>a, <4>0
      <4> QED BY <4>2, <4>3, Zenon
    <3>2. drive \in DriveType /\ drive.cmd = "read" /\ ~drive.got
      BY <1>a, <1>s, <2>3, Zenon DEF AtaInv, Types
    <3> DEFINE lba == drive.lba + 1
               left == drive.left - 1
    <3>3. /\ drive' = [drive EXCEPT !.st = "busy", !.lba = lba, !.left = left]
          /\ lba \in 0..Sectors - 1 /\ left \in 0..MaxCount
      BY <3>1, Zenon
    <3>4. lba = req.lba + req.k + 1 /\ left = req.n - (req.k + 1)
      BY <3>1, Zenon
    <3> HIDE DEF lba, left
    <3>5. Commanded(drive', "read", lba, left)
      BY <3>2, <3>3, NextSectorFields, Zenon
    <3> QED BY <1>a, <2>3, <3>4, <3>5
  <2> QED BY <1>a, <1>s, <2>1, <2>2, <2>3, Zenon
<1>c. /\ req' \in RequestType
      /\ req'.op = "read" /\ req'.lba = req.lba /\ req'.n = req.n /\ req'.k = req.k + 1
      /\ ~req'.early
      /\ req.k + 1 < req.n => req'.stage = "data" /\ req'.need = "drq"
      /\ req.k + 1 = req.n => req'.stage = "end" /\ req'.need = "quiet"
  <2>0. req.k + 1 \in 0..MaxCount
    BY <1>a
  <2>1. CASE req.k + 1 < req.n
    <3>1. req' = [req EXCEPT !.k = req.k + 1] /\ req \in RequestType
      BY <2>1, Zenon DEF PioSector, AtaInv, Types
    <3> DEFINE k == req.k + 1
    <3>2. k \in 0..MaxCount /\ req' = [req EXCEPT !.k = k]
      BY <2>0, <3>1, Zenon
    <3> HIDE DEF k
    <3>3. Advanced(req', k, req.stage, req.need)
      BY <3>1, <3>2, AdvancedFields, Zenon
    <3> QED BY <1>a, <1>s, <2>1, <3>3 DEF Advanced, k
  <2>2. CASE req.k + 1 = req.n
    <3>1. /\ req' = [req EXCEPT !.k = req.k + 1, !.stage = "end", !.need = "quiet"]
          /\ req \in RequestType
      BY <1>a, <2>2 DEF PioSector, AtaInv, Types
    <3> DEFINE k == req.k + 1
    <3>2. k \in 0..MaxCount /\ req' = [req EXCEPT !.k = k, !.stage = "end", !.need = "quiet"]
      BY <2>0, <3>1, Zenon
    <3> HIDE DEF k
    <3>3. Advanced(req', k, "end", "quiet")
      BY <3>1, <3>2, StagedFields, Zenon
    <3> QED BY <1>a, <1>s, <2>2, <3>3 DEF Advanced, k
  <2> QED BY <1>a, <1>s, <2>1, <2>2
<1>d. /\ buffer' \in Seq(Nat)
      /\ drive.st = "data" => /\ Len(buffer') = req.k + 1
                              /\ \A i \in 1..req.k + 1 : buffer'[i] = req.lba + i - 1
  <2> DEFINE x == IF drive.st = "data" /\ drive.cmd = "read" THEN drive.lba ELSE Nothing
  <2>1. x \in Nat /\ buffer' = Append(buffer, x)
    BY DEF AtaInv, PioSector, Types, DriveType, Nothing
  <2> HIDE DEF x
  <2>2. buffer' \in Seq(Nat) /\ Len(buffer') = Len(buffer) + 1
    BY <1>s, <2>1, AppendElements, Zenon
  <2>3. \A i \in 1..Len(buffer) + 1 :
           buffer'[i] = IF i = Len(buffer) + 1 THEN x ELSE buffer[i]
    BY <1>s, <2>1, AppendElements, Zenon
  <2>4. drive.st = "data" => x = req.lba + req.k
    BY <1>a, <1>s, Zenon DEF x
  <2>5. drive.st = "data" => Len(buffer) = req.k /\ \A i \in 1..req.k : buffer[i] = req.lba + i - 1
    BY <1>s, Zenon DEF Arrived
  <2>6. ASSUME drive.st = "data", NEW i \in 1..req.k + 1
        PROVE  buffer'[i] = req.lba + i - 1
    <3>1. Len(buffer) = req.k /\ x = req.lba + req.k
      BY <2>4, <2>5, <2>6, Zenon
    <3>2. CASE i = req.k + 1
      BY <1>a, <2>3, <3>1, <3>2
    <3>3. CASE i \in 1..req.k
      <4>1. buffer'[i] = buffer[i]
        BY <1>a, <2>3, <3>1, <3>3
      <4> QED BY <2>5, <2>6, <3>3, <4>1, Zenon
    <3> QED BY <1>a, <3>2, <3>3
  <2> QED BY <1>a, <2>2, <2>5, <2>6, Zenon
<1>e. pc' \in {"irqWait", "poll"} /\ bm' = bm /\ dma' = dma
  BY <1>a, <1>s, Zenon DEF PioSector
<1>1. Types'
  <2>1. drive' \in DriveType
    BY <1>a, <1>s, <1>b, IdleDriveFields DEF AtaInv, Types, Commanded
  <2>2. bm' \in EngineType
    BY <1>e, Zenon DEF AtaInv, Types
  <2>3. irq' \in IrqType
    BY Zenon DEF AtaInv, PioSector, Types, IrqType
  <2>4. req' \in RequestType
    BY <1>c, Zenon
  <2>5. cached' \in SUBSET Window /\ saved' \in SUBSET cached'
    BY Zenon DEF AtaInv, PioSector, Medium, Types
  <2>6. line' \in BOOLEAN /\ dma' \in BOOLEAN
    BY Zenon DEF AtaInv, PioSector, Types
  <2>7. pc' \in {"idle", "start", "irqWait", "poll", "seen", "failed", "done"}
    BY <1>e, Zenon
  <2> QED BY <2>1, <2>2, <2>3, <2>4, <2>5, <2>6, <2>7, Zenon DEF Types
<1>2. RequestInv'
  <2>1. CASE drive.st = "failed"
    BY <1>a, <1>s, <1>b, <1>c, <1>e, <2>1, Zenon DEF AtaInv, RequestInv
  <2>2. CASE drive.st = "data"
    <3>1. CASE req.k + 1 < req.n
      <4>1. /\ Commanded(drive', "read", req.lba + req.k + 1, req.n - (req.k + 1))
            /\ req.n - (req.k + 1) >= 1
            /\ (req.lba + req.k + 1) + (req.n - (req.k + 1)) <= Sectors
        BY <1>a, <1>b, <2>2, <3>1
      <4> QED BY <1>s, <1>c, <1>e, <4>1, Zenon DEF AtaInv, RequestInv, Commanded
    <3>2. CASE req.k + 1 = req.n
      BY <1>s, <1>b, <1>c, <1>e, <2>2, <3>2, IdleDriveFields, Zenon DEF AtaInv, RequestInv
    <3> QED BY <1>a, <3>1, <3>2
  <2> QED BY <1>a, <1>s, <2>1, <2>2, Zenon
<1>3. EngineInv'
  BY <1>a, <1>s, <1>c, <1>e, Zenon DEF AtaInv, EngineInv
<1>4. WriteInv'
  BY <1>c, Zenon DEF WriteInv
<1>5. ReadInv'
  <2>1. CASE req.k + 1 < req.n
    BY <1>a, <1>s, <1>b, <1>c, <1>d, <1>e, <2>1 DEF ReadInv, Waiting, AtData,
       Arrived, Commanded
  <2>2. CASE req.k + 1 = req.n
    BY <1>a, <1>s, <1>b, <1>c, <1>d, <1>e, <2>2, IdleDriveFields, Zenon DEF ReadInv,
       Waiting, AtEnd, Arrived
  <2> QED BY <1>a, <1>s, <2>1, <2>2
<1> QED BY <1>1, <1>2, <1>3, <1>4, <1>5, Zenon DEF AtaInv

LEMMA PioEndKeeps == AtaInv /\ PioEnd => AtaInv'
<1> SUFFICES ASSUME AtaInv, PioEnd PROVE AtaInv'
  OBVIOUS
<1> USE ConstantsNat DEF AtaInv, PioEnd, Medium
<1>1. Types'
  BY DEF Types, DriveType, EngineType, IrqType, RequestType, RequestInv, Window,
     Attempts
<1>2. RequestInv'
  BY Zenon DEF Types, DriveType, RequestType, RequestInv, Window
<1>3. EngineInv'
  BY Zenon DEF Types, EngineType, EngineInv, RequestInv, Waiting
<1>4. WriteInv'
  BY Zenon DEF Types, DriveType, RequestType, RequestInv, WriteInv, Waiting, AtDrq,
     AtStored, AtFlush
<1>5. ReadInv'
  BY Zenon DEF Types, EngineType, DriveType, RequestType, RequestInv, ReadInv, Waiting,
     AtData, AtEnd, AtDma, Arrived
<1> QED BY <1>1, <1>2, <1>3, <1>4, <1>5, Zenon DEF AtaInv

LEMMA DmaStartKeeps == AtaInv /\ DmaStart => AtaInv'
<1> SUFFICES ASSUME AtaInv, DmaStart PROVE AtaInv'
  OBVIOUS
<1> USE ConstantsNat DEF AtaInv, DmaStart, Ready, Medium
<1> DEFINE n == IF req.n - req.k > ChunkSectors THEN ChunkSectors ELSE req.n - req.k
<1>a. /\ req.lba \in Nat /\ req.n \in 1..MaxCount /\ req.k \in Nat /\ req.k < req.n
      /\ req.lba + req.n <= Sectors /\ Arrived(req.k) /\ bm.pages
      /\ ~req.early
  BY DEF Types, RequestType, RequestInv, ReadInv, EngineInv
<1>b. n \in 1..req.n - req.k /\ n \in 0..MaxCount
  BY <1>a
<1>c. Commanded(drive', "dma", req.lba + req.k, n)
  <2>1. Command("dma", req.lba + req.k, n) /\ req.lba + req.k \in 0..Sectors - 1
    BY <1>a
  <2> HIDE DEF n
  <2> QED BY <1>b, <2>1, CommandFields, Zenon
<1>d. /\ req' \in RequestType
      /\ req'.op = "read" /\ req'.lba = req.lba /\ req'.n = req.n /\ req'.k = req.k
      /\ req'.chunk = n /\ req'.stage = "dma" /\ req'.need = "quiet" /\ ~req'.early
  <2>1. req' = [req EXCEPT !.chunk = n, !.stage = "dma", !.need = "quiet"] /\ n \in Nat
    BY <1>a, <1>b
  <2> HIDE DEF n
  <2> QED BY <1>a, <2>1, Zenon DEF Types, RequestType
<1>e. bm'.start /\ ~bm'.done /\ bm'.pages /\ pc' \in {"irqWait", "poll"} /\ buffer' = buffer
  BY <1>a, Zenon DEF Types, EngineType
<1>f. dma'
  BY DEF Types
<1> HIDE DEF n
<1>1. Types'
  <2>1. drive' \in DriveType
    BY <1>c, Zenon DEF Commanded
  <2>2. bm' \in EngineType
    BY Zenon DEF Types, EngineType
  <2>3. irq' \in IrqType
    BY Zenon DEF Types, IrqType
  <2>4. req' \in RequestType
    BY <1>d, Zenon
  <2>5. cached' \in SUBSET Window /\ saved' \in SUBSET cached'
    BY Zenon DEF Types, RequestInv
  <2>6. line' \in BOOLEAN /\ dma' \in BOOLEAN
    BY Zenon DEF Types, IrqType
  <2>7. pc' \in {"idle", "start", "irqWait", "poll", "seen", "failed", "done"}
    BY Zenon DEF Types
  <2> QED BY <2>1, <2>2, <2>3, <2>4, <2>5, <2>6, <2>7, Zenon DEF Types
<1>2. RequestInv'
  BY <1>a, <1>c, <1>d, <1>e, Zenon DEF RequestInv, Commanded
<1>3. EngineInv'
  BY <1>d, <1>e, <1>f, Zenon DEF EngineInv, Waiting
<1>4. WriteInv'
  BY <1>d, Zenon DEF WriteInv
<1>5. ReadInv'
  BY <1>a, <1>b, <1>c, <1>d, <1>e DEF ReadInv, Waiting, AtDma, Arrived, Commanded
<1> QED BY <1>1, <1>2, <1>3, <1>4, <1>5, Zenon DEF AtaInv

LEMMA DmaDoneKeeps == AtaInv /\ DmaDone => AtaInv'
<1> SUFFICES ASSUME AtaInv, DmaDone PROVE AtaInv'
  OBVIOUS
<1> USE ConstantsNat
<1>a. /\ req.lba \in Nat /\ req.n \in 1..MaxCount /\ req.k \in Nat
      /\ req.lba + req.n <= Sectors /\ ~req.early /\ dma
      /\ Arrived(req.k) /\ req.chunk \in 1..req.n - req.k
      /\ bm.done => bounce = [i \in 1..req.chunk |-> req.lba + req.k + i - 1]
  <2>1. AtDma /\ req.op = "read"
    BY Zenon DEF AtaInv, DmaDone, ReadInv, Waiting
  <2> QED BY <2>1 DEF AtaInv, Types, RequestType, RequestInv, AtDma
<1>b. /\ bm' \in EngineType /\ ~bm'.start /\ bm'.pages = bm.pages
      /\ dma' = dma /\ drive' = drive
  BY StoppedEngine, Zenon DEF AtaInv, DmaDone, Types
<1>c. /\ req' \in RequestType
      /\ req'.op = "read" /\ req'.lba = req.lba /\ req'.n = req.n /\ ~req'.early
      /\ bm.done => req'.k = req.k + req.chunk
  <2>1. req.k + req.chunk \in 0..MaxCount
    BY <1>a
  <2>2. CASE bm.done
    BY <1>a, <2>1, <2>2, Zenon DEF AtaInv, DmaDone, DmaComplete, Types, RequestType
  <2>3. CASE ~bm.done
    BY <1>a, <2>3, Zenon DEF AtaInv, DmaDone, DmaComplete, Types, RequestType
  <2> QED BY <2>2, <2>3, Zenon
<1>d. bm.done => /\ buffer' \in Seq(Nat) /\ Len(buffer') = req.k + req.chunk
                 /\ \A i \in 1..req.k + req.chunk : buffer'[i] = req.lba + i - 1
  <2> SUFFICES ASSUME bm.done
               PROVE  /\ buffer' \in Seq(Nat) /\ Len(buffer') = req.k + req.chunk
                      /\ \A i \in 1..req.k + req.chunk : buffer'[i] = req.lba + i - 1
    BY Zenon
  <2>1. /\ bounce = [i \in 1..req.chunk |-> req.lba + req.k + i - 1]
        /\ req.chunk \in Nat /\ \A i \in 1..req.chunk : req.lba + req.k + i - 1 \in Nat
    BY <1>a
  <2>2. bounce \in Seq(Nat) /\ Len(bounce) = req.chunk
    <3>1. bounce \in [1..req.chunk -> Nat]
      BY <2>1, Zenon
    <3>2. bounce \in Seq(Nat)
      BY <2>1, <3>1
    <3>3. DOMAIN bounce = 1..req.chunk
      BY <3>1, Zenon
    <3> QED BY <2>1, <3>2, <3>3
  <2>6. /\ buffer \in Seq(Nat) /\ Len(buffer) = req.k
        /\ \A i \in 1..req.k : buffer[i] = req.lba + i - 1
    BY <1>a, Zenon DEF Arrived
  <2>3. buffer' = buffer \o bounce
    BY Zenon DEF DmaDone, DmaComplete
  <2>4. buffer' \in Seq(Nat) /\ Len(buffer') = Len(buffer) + Len(bounce)
    BY <2>2, <2>3, <2>6, ConcatElements, Zenon
  <2>5. \A i \in 1..Len(buffer) + Len(bounce) :
           buffer'[i] = IF i <= Len(buffer) THEN buffer[i] ELSE bounce[i - Len(buffer)]
    BY <2>2, <2>3, <2>6, ConcatElements, Zenon
  <2>7. \A i \in 1..req.chunk : bounce[i] = req.lba + req.k + i - 1
    BY <2>1, Zenon
  <2>8. ASSUME NEW i \in 1..req.k + req.chunk
        PROVE  buffer'[i] = req.lba + i - 1
    <3>1. CASE i <= req.k
      BY <1>a, <2>2, <2>5, <2>6, <3>1
    <3>2. CASE i > req.k
      <4>1. i - req.k \in 1..req.chunk
        BY <1>a, <3>2
      <4>2. buffer'[i] = bounce[i - req.k]
        BY <1>a, <2>2, <2>5, <2>6, <3>2
      <4>3. bounce[i - req.k] = req.lba + req.k + (i - req.k) - 1
        BY <2>7, <4>1, Zenon
      <4> QED BY <1>a, <4>2, <4>3
    <3> QED BY <1>a, <3>1, <3>2
  <2> QED BY <2>2, <2>4, <2>6, <2>8, Zenon
<1>e. IF bm.done THEN pc' = (IF req.k + req.chunk < req.n THEN "start" ELSE "done")
                 ELSE pc' = "failed"
  BY Zenon DEF DmaDone, DmaComplete
<1>1. Types'
  <2>1. drive' \in DriveType
    BY Zenon DEF AtaInv, DmaDone, Types
  <2>2. bm' \in EngineType
    BY <1>b, Zenon
  <2>3. irq' \in IrqType
    BY Zenon DEF AtaInv, DmaDone, Types
  <2>4. req' \in RequestType
    BY <1>c, Zenon
  <2>5. cached' \in SUBSET Window /\ saved' \in SUBSET cached'
    BY Zenon DEF AtaInv, DmaDone, Medium, Types
  <2>6. line' \in BOOLEAN /\ dma' \in BOOLEAN
    BY Zenon DEF AtaInv, DmaDone, Types
  <2>7. pc' \in {"idle", "start", "irqWait", "poll", "seen", "failed", "done"}
    BY <1>e, Zenon
  <2> QED BY <2>1, <2>2, <2>3, <2>4, <2>5, <2>6, <2>7 DEF Types
<1>2. RequestInv'
  BY <1>a, <1>b, <1>c, <1>e, Zenon DEF AtaInv, DmaDone, RequestInv
<1>3. EngineInv'
  BY <1>b, <1>c, Zenon DEF AtaInv, EngineInv
<1>4. WriteInv'
  BY <1>c, Zenon DEF WriteInv
<1>5. ReadInv'
  <2>1. CASE ~bm.done
    BY <1>e, <2>1, Zenon DEF ReadInv, Waiting
  <2>2. CASE bm.done
    <3>1. pc' = "start" => req.k + req.chunk < req.n
      BY <1>e, <2>2, Zenon
    <3>2. pc' = "done" => req.k + req.chunk = req.n
      <4>1. /\ req.k \in Nat /\ req.n \in Nat /\ req.chunk \in Nat
            /\ req.k + req.chunk <= req.n
        BY <1>a
      <4> QED BY <1>e, <2>2, <4>1
    <3>3. pc' \in {"start", "done"}
      BY <1>e, <2>2, Zenon
    <3>4. Arrived(req.k)'
      BY <1>c, <1>d, <2>2, Zenon DEF Arrived
    <3> QED BY <1>a, <1>b, <1>c, <2>2, <3>1, <3>2, <3>3, <3>4, Zenon DEF ReadInv, Waiting
  <2> QED BY <2>1, <2>2, Zenon
<1> QED BY <1>1, <1>2, <1>3, <1>4, <1>5 DEF AtaInv

LEMMA NextAttemptKeeps == AtaInv /\ NextAttempt => AtaInv'
<1> SUFFICES ASSUME AtaInv, NextAttempt PROVE AtaInv'
  OBVIOUS
<1> USE ConstantsNat DEF AtaInv, NextAttempt, Medium
<1>a. /\ drive' \in DriveType /\ (drive' = drive \/ (drive'.cmd = "none" /\ ~drive'.got))
  BY IdleDriveFields, ResetDrive, Zenon DEF Types, Reset
<1>b. /\ bm' \in EngineType /\ ~dma' /\ dma' \in BOOLEAN
      /\ ~bm'.start
  <2>1. CASE dma
    <3>1. PICK master \in {FALSE, bm.master} :
             bm' = [EngineStopped(bm) EXCEPT !.master = master, !.pages = FALSE]
      BY <2>1, Zenon DEF DisableDma
    <3>2. master \in BOOLEAN
      BY <3>1, Zenon DEF Types, EngineType
    <3> QED BY <2>1, <3>1, <3>2, Zenon DEF DisableDma, EngineStopped, Types, EngineType
  <2>2. CASE ~dma
    BY <2>2, Zenon DEF Types, EngineInv
  <2> QED BY <2>1, <2>2, Zenon
<1>c. \/ /\ pc' = "start" /\ req' \in RequestType
         /\ req'.op = "read" /\ req'.lba = req.lba /\ req'.n = req.n /\ req'.k = 0
         /\ req'.early = req.early
      \/ pc' = "idle" /\ req' = NoRequest
  <2>1. CASE req.attempt + 1 < Attempts
    <3>1. req.attempt + 1 \in 0..Attempts - 1
      BY <2>1 DEF Types, RequestType, Attempts
    <3>2. req' = [req EXCEPT !.attempt = req.attempt + 1, !.k = 0, !.chunk = 0] /\ pc' = "start"
      BY <2>1, Zenon
    <3>3. req \in RequestType /\ req.op = "read"
      BY Zenon DEF Types
    <3>4. 0 \in 0..MaxCount /\ 0 \in Nat
      OBVIOUS
    <3> HIDE DEF AtaInv, NextAttempt, Medium
    <3> QED BY <3>1, <3>2, <3>3, <3>4, Zenon DEF RequestType
  <2>2. CASE ~(req.attempt + 1 < Attempts)
    BY <2>2, Zenon DEF End
  <2> QED BY <2>1, <2>2, Zenon
<1>1. Types'
  <2>1. drive' \in DriveType
    BY <1>a, Zenon
  <2>2. bm' \in EngineType
    BY <1>b, Zenon
  <2>3. irq' \in IrqType
    BY Zenon DEF Types, IrqType
  <2>4. req' \in RequestType
    BY <1>c, NoRequestFields, Zenon
  <2>5. cached' \in SUBSET Window /\ saved' \in SUBSET cached'
    BY Zenon DEF Types, RequestInv
  <2>6. line' \in BOOLEAN /\ dma' \in BOOLEAN
    BY <1>b, Zenon DEF Types
  <2>7. pc' \in {"idle", "start", "irqWait", "poll", "seen", "failed", "done"}
    BY <1>c, Zenon
  <2> QED BY <2>1, <2>2, <2>3, <2>4, <2>5, <2>6, <2>7, Zenon DEF Types
<1>2. RequestInv'
  BY <1>a, <1>c, NoRequestFields, Zenon DEF RequestInv, Types, RequestType
<1>3. EngineInv'
  BY <1>b, <1>c, NoRequestFields, Zenon DEF EngineInv
<1>4. WriteInv'
  BY <1>c, NoRequestFields, Zenon DEF WriteInv
<1>5. ReadInv'
  BY <1>b, <1>c, NoRequestFields DEF ReadInv, Waiting, RequestInv
<1> QED BY <1>1, <1>2, <1>3, <1>4, <1>5, Zenon DEF AtaInv

-----------------------------------------------------------------------------
(* Writes. *)

LEMMA WriteStartKeeps == AtaInv /\ WriteStart => AtaInv'
<1> SUFFICES ASSUME AtaInv, WriteStart PROVE AtaInv'
  OBVIOUS
<1> USE ConstantsNat DEF AtaInv, WriteStart, Ready, Await, Medium
<1>a. req.lba \in 0..Sectors - 1 /\ 1 \in 0..MaxCount
  BY DEF Types, RequestType, RequestInv
<1>0. Commanded(drive', "write", req.lba, 1)
  BY <1>a, CommandFields, Zenon
<1>b. req.lba \in Window
  BY <1>a DEF Types, RequestType, RequestInv
<1>1. Types'
  <2>1. drive' \in DriveType
    BY <1>0, Zenon DEF Commanded
  <2>2. bm' \in EngineType
    BY Zenon DEF Types, EngineType
  <2>3. irq' \in IrqType
    BY Zenon DEF Types, IrqType
  <2>4. req' \in RequestType
    BY Zenon DEF Types, RequestType, RequestInv, Attempts
  <2>5. cached' \in SUBSET Window /\ saved' \in SUBSET cached'
    BY Zenon DEF Types, RequestInv
  <2>6. line' \in BOOLEAN /\ dma' \in BOOLEAN
    BY Zenon DEF Types, IrqType
  <2>7. pc' \in {"idle", "start", "irqWait", "poll", "seen", "failed", "done"}
    BY Zenon DEF Types
  <2> QED BY <2>1, <2>2, <2>3, <2>4, <2>5, <2>6, <2>7, Zenon DEF Types
<1>2. RequestInv'
  BY <1>0, <1>b, Zenon DEF Types, RequestType, RequestInv, Commanded
<1>3. EngineInv'
  BY DEF Types, EngineType, EngineInv, RequestInv
<1>4. WriteInv'
  BY <1>0 DEF Types, DriveType, RequestType, RequestInv, WriteInv, Waiting, AtDrq,
     AtStored, AtFlush, Commanded
<1>5. ReadInv'
  BY Zenon DEF Types, RequestType, ReadInv
<1> QED BY <1>1, <1>2, <1>3, <1>4, <1>5, Zenon DEF AtaInv

LEMMA WriteSectorKeeps == AtaInv /\ WriteSector => AtaInv'
<1> SUFFICES ASSUME AtaInv, WriteSector PROVE AtaInv'
  OBVIOUS
<1> USE ConstantsNat DEF AtaInv, WriteSector, Await, Medium
<1>0. /\ drive'.cmd = drive.cmd /\ drive'.lba = drive.lba /\ drive'.left = drive.left
     /\ drive'.got => drive.cmd = "write"
  <2>1. CASE drive.st = "data"
    BY <2>1, Zenon DEF Types, DriveType, WriteInv, AtDrq, Waiting
  <2>2. CASE drive.st # "data"
    BY <2>2, Zenon DEF RequestInv
  <2> QED BY <2>1, <2>2, Zenon
<1>a. /\ req'.op = req.op /\ req'.lba = req.lba /\ req'.n = req.n /\ ~req'.early
     /\ pc' # "idle" /\ pc # "idle" /\ req.op = "write"
  BY Zenon DEF Types, RequestType
<1>1. Types'
  BY ZenonT(30) DEF Types, DriveType, EngineType, IrqType, RequestType, RequestInv, Window,
     Attempts
<1>2. RequestInv'
  BY <1>0, <1>a DEF RequestInv
<1>3. EngineInv'
  BY DEF Types, EngineType, EngineInv, RequestInv
<1>4. WriteInv'
  BY Zenon DEF Types, DriveType, RequestType, RequestInv, WriteInv, Waiting, AtDrq,
     AtStored, AtFlush
<1>5. ReadInv'
  BY Zenon DEF Types, EngineType, DriveType, RequestType, RequestInv, ReadInv, Waiting,
     AtData, AtEnd, AtDma, Arrived
<1> QED BY <1>1, <1>2, <1>3, <1>4, <1>5, Zenon DEF AtaInv

LEMMA WriteStoredKeeps == AtaInv /\ WriteStored => AtaInv'
<1> SUFFICES ASSUME AtaInv, WriteStored PROVE AtaInv'
  OBVIOUS
<1> USE ConstantsNat
<1>a. /\ req.lba \in Nat /\ req.n \in 1..MaxCount /\ req.k \in Nat /\ req.k < req.n
      /\ req.lba + req.n <= Sectors
  <2>1. AtStored /\ req.op = "write" /\ pc = "seen" /\ req.stage = "stored"
    BY Zenon DEF AtaInv, WriteStored, WriteInv, Waiting
  <2> QED BY <2>1 DEF AtaInv, Types, RequestType, RequestInv, AtStored
<1>s. /\ ~req.early
      /\ req.lba..req.lba + req.n - 1 \subseteq Window
      /\ saved = {} /\ cached = req.lba..req.lba + req.k
  <2>1. AtStored /\ req.op = "write" /\ pc = "seen" /\ req.stage = "stored"
    BY DEF AtaInv, WriteStored, WriteInv, Waiting
  <2> QED BY <2>1, Zenon DEF AtaInv, Types, RequestType, RequestInv, AtStored
<1>d. /\ cached' = cached /\ saved' = saved /\ dma' = dma /\ bm' = bm /\ line' = line
      /\ req.op = "write"
  BY Zenon DEF WriteStored, Medium
<1>b. CASE /\ req.k + 1 < req.n
           /\ Command("write", req.lba + req.k + 1, 1)
           /\ irq' = [irq EXCEPT !.news = FALSE]
           /\ req' = [req EXCEPT !.k = @ + 1, !.stage = "drq", !.need = "drq"]
           /\ pc' = IF irq.enabled /\ req.flags THEN "irqWait" ELSE "poll"
  <2>c. req.lba + req.k + 1 \in 0..Sectors - 1 /\ req.k + 1 \in 0..MaxCount /\ 1 \in 0..MaxCount
    <3>1. req.k + 1 < req.n
      BY <1>b, Zenon
    <3> QED BY <1>a, <3>1
  <2>a. Commanded(drive', "write", req.lba + req.k + 1, 1)
    BY <1>b, <2>c, CommandFields, Zenon
  <2>b. /\ req' \in RequestType
        /\ req'.op = "write" /\ req'.lba = req.lba /\ req'.n = req.n /\ req'.k = req.k + 1
        /\ req'.stage = "drq" /\ req'.need = "drq" /\ ~req'.early
    BY <1>a, <1>s, <1>b, <1>d, <2>c, Zenon DEF AtaInv, Types, RequestType
  <2>1. Types'
    BY <1>b, <1>d, <2>a, <2>b, Zenon DEF AtaInv, Types, IrqType, Commanded
  <2>2. RequestInv'
    <3>1. req.lba + req.k + 1 \in req.lba..req.lba + req.n - 1
      <4>1. req.k + 1 < req.n
        BY <1>b
      <4> QED BY <1>a, <4>1
    <3>3. req.lba + req.k + 1 \in Window
      BY <1>s, <3>1, Zenon
    <3>2. pc' # "idle"
      BY <1>b, Zenon
    <3> QED BY <1>a, <1>s, <2>a, <2>b, <3>2, <3>3, Zenon DEF RequestInv, Commanded
  <2>3. EngineInv'
    BY <1>d, <2>b, Zenon DEF AtaInv, EngineInv
  <2>4. WriteInv'
    BY <1>a, <1>s, <1>b, <1>d, <2>a, <2>b DEF WriteInv, Waiting, AtDrq, Commanded
  <2>5. ReadInv'
    BY <2>b, Zenon DEF ReadInv
  <2> QED BY <2>1, <2>2, <2>3, <2>4, <2>5 DEF AtaInv
<1>c. CASE req.k + 1 = req.n /\ Flush
  <2>a. Commanded(drive', "flush", 0, 0)
    BY <1>c, CommandFields DEF Flush
  <2>b. /\ req' \in RequestType
        /\ req'.op = "write" /\ req'.lba = req.lba /\ req'.n = req.n /\ req'.k = req.k
        /\ req'.stage = "flush" /\ req'.need = "quiet" /\ (req'.early => ~BusyAtOnce)
    BY <1>a, <1>s, <1>c, <1>d, Zenon DEF AtaInv, Types, RequestType, Flush, Await
  <2>c. pc' \in {"irqWait", "poll"} /\ irq' \in IrqType
    BY <1>c, Zenon DEF Flush, Await, AtaInv, Types, IrqType
  <2>1. Types'
    BY <1>d, <2>a, <2>b, <2>c, Zenon DEF AtaInv, Types, Commanded
  <2>2. RequestInv'
    BY <1>a, <1>s, <1>d, <2>a, <2>b, <2>c, Zenon DEF AtaInv, RequestInv, Commanded
  <2>3. EngineInv'
    BY <1>d, <2>b, Zenon DEF AtaInv, EngineInv
  <2>4. WriteInv'
    BY <1>a, <1>s, <1>c, <1>d, <2>a, <2>b, <2>c DEF WriteInv, Waiting, AtFlush,
       Commanded
  <2>5. ReadInv'
    BY <2>b, Zenon DEF ReadInv
  <2> QED BY <2>1, <2>2, <2>3, <2>4, <2>5 DEF AtaInv
<1> QED BY <1>b, <1>c, Zenon DEF WriteStored

LEMMA WriteFlushedKeeps == AtaInv /\ WriteFlushed => AtaInv'
<1> SUFFICES ASSUME AtaInv, WriteFlushed PROVE AtaInv'
  OBVIOUS
<1> USE ConstantsNat DEF AtaInv, WriteFlushed, Medium
<1>1. Types'
  BY DEF Types, DriveType, EngineType, IrqType, RequestType, RequestInv, Window,
     Attempts
<1>2. RequestInv'
  BY Zenon DEF Types, DriveType, RequestType, RequestInv, Window
<1>3. EngineInv'
  BY Zenon DEF Types, EngineType, EngineInv, RequestInv, Waiting
<1>4. WriteInv'
  BY Zenon DEF Types, DriveType, RequestType, RequestInv, WriteInv, Waiting, AtDrq,
     AtStored, AtFlush
<1>5. ReadInv'
  BY Zenon DEF Types, EngineType, DriveType, RequestType, RequestInv, ReadInv, Waiting,
     AtData, AtEnd, AtDma, Arrived
<1> QED BY <1>1, <1>2, <1>3, <1>4, <1>5, Zenon DEF AtaInv

LEMMA WriteFailedKeeps == AtaInv /\ WriteFailed => AtaInv'
<1> SUFFICES ASSUME AtaInv, WriteFailed PROVE AtaInv'
  OBVIOUS
<1> USE ConstantsNat DEF AtaInv, WriteFailed, End, NoRequest, Medium
<1>1. Types'
  BY DEF Types, DriveType, EngineType, IrqType, RequestType, RequestInv, Window,
     Attempts
<1>2. RequestInv'
  BY Zenon DEF Types, DriveType, RequestType, RequestInv, Window
<1>3. EngineInv'
  BY Zenon DEF Types, EngineType, EngineInv, RequestInv, Waiting
<1>4. WriteInv'
  BY Zenon DEF Types, DriveType, RequestType, RequestInv, WriteInv, Waiting, AtDrq,
     AtStored, AtFlush
<1>5. ReadInv'
  BY Zenon DEF Types, EngineType, DriveType, RequestType, RequestInv, ReadInv, Waiting,
     AtData, AtEnd, AtDma, Arrived
<1> QED BY <1>1, <1>2, <1>3, <1>4, <1>5, Zenon DEF AtaInv

LEMMA ReturnKeeps == AtaInv /\ Return => AtaInv'
<1> SUFFICES ASSUME AtaInv, Return PROVE AtaInv'
  OBVIOUS
<1> USE ConstantsNat DEF AtaInv, Return, End, NoRequest, Medium
<1>1. Types'
  BY DEF Types, DriveType, EngineType, IrqType, RequestType, RequestInv, Window,
     Attempts
<1>2. RequestInv'
  BY Zenon DEF Types, DriveType, RequestType, RequestInv, Window
<1>3. EngineInv'
  BY Zenon DEF Types, EngineType, EngineInv, RequestInv, Waiting
<1>4. WriteInv'
  BY Zenon DEF Types, DriveType, RequestType, RequestInv, WriteInv, Waiting, AtDrq,
     AtStored, AtFlush
<1>5. ReadInv'
  BY Zenon DEF Types, EngineType, DriveType, RequestType, RequestInv, ReadInv, Waiting,
     AtData, AtEnd, AtDma, Arrived
<1> QED BY <1>1, <1>2, <1>3, <1>4, <1>5, Zenon DEF AtaInv

-----------------------------------------------------------------------------
(* The modes. *)

LEMMA EnableIrqModeKeeps == AtaInv /\ EnableIrqMode => AtaInv'
<1> SUFFICES ASSUME AtaInv, EnableIrqMode PROVE AtaInv'
  OBVIOUS
<1> USE ConstantsNat DEF AtaInv, EnableIrqMode, Medium
<1>1. Types'
  <2>1. drive' \in DriveType
    BY Zenon DEF Types, DriveType, RequestType, RequestInv, Window
  <2>2. bm' \in EngineType
    BY Zenon DEF Types, EngineType
  <2>3. irq' \in IrqType
    BY Zenon DEF Types, IrqType
  <2>4. req' \in RequestType
    BY Zenon DEF Types, RequestType, RequestInv, Attempts
  <2>5. cached' \in SUBSET Window /\ saved' \in SUBSET cached'
    BY Zenon DEF Types, RequestInv
  <2>6. line' \in BOOLEAN /\ dma' \in BOOLEAN
    BY Zenon DEF Types, IrqType
  <2>7. pc' \in {"idle", "start", "irqWait", "poll", "seen", "failed", "done"}
    BY Zenon DEF Types
  <2> QED BY <2>1, <2>2, <2>3, <2>4, <2>5, <2>6, <2>7, Zenon DEF Types
<1>2. RequestInv'
  BY Zenon DEF Types, DriveType, RequestType, RequestInv, Window
<1>3. EngineInv'
  BY Zenon DEF Types, EngineType, EngineInv, RequestInv, Waiting
<1>4. WriteInv'
  BY Zenon DEF Types, DriveType, RequestType, RequestInv, WriteInv, Waiting, AtDrq,
     AtStored, AtFlush
<1>5. ReadInv'
  BY Zenon DEF Types, EngineType, DriveType, RequestType, RequestInv, ReadInv, Waiting,
     AtData, AtEnd, AtDma, Arrived
<1> QED BY <1>1, <1>2, <1>3, <1>4, <1>5, Zenon DEF AtaInv

LEMMA ModeRefusedKeeps == AtaInv /\ ModeRefused => AtaInv'
<1> SUFFICES ASSUME AtaInv, ModeRefused PROVE AtaInv'
  OBVIOUS
<1> USE ConstantsNat DEF AtaInv, ModeRefused, Medium
<1>1. Types'
  <2>1. drive' \in DriveType
    BY Zenon DEF Types, DriveType, RequestType, RequestInv, Window
  <2>2. bm' \in EngineType
    BY Zenon DEF Types, EngineType
  <2>3. irq' \in IrqType
    BY Zenon DEF Types, IrqType
  <2>4. req' \in RequestType
    BY Zenon DEF Types, RequestType, RequestInv, Attempts
  <2>5. cached' \in SUBSET Window /\ saved' \in SUBSET cached'
    BY Zenon DEF Types, RequestInv
  <2>6. line' \in BOOLEAN /\ dma' \in BOOLEAN
    BY Zenon DEF Types, IrqType
  <2>7. pc' \in {"idle", "start", "irqWait", "poll", "seen", "failed", "done"}
    BY Zenon DEF Types
  <2> QED BY <2>1, <2>2, <2>3, <2>4, <2>5, <2>6, <2>7, Zenon DEF Types
<1>2. RequestInv'
  BY Zenon DEF Types, DriveType, RequestType, RequestInv, Window
<1>3. EngineInv'
  BY Zenon DEF Types, EngineType, EngineInv, RequestInv, Waiting
<1>4. WriteInv'
  BY Zenon DEF Types, DriveType, RequestType, RequestInv, WriteInv, Waiting, AtDrq,
     AtStored, AtFlush
<1>5. ReadInv'
  BY Zenon DEF Types, EngineType, DriveType, RequestType, RequestInv, ReadInv, Waiting,
     AtData, AtEnd, AtDma, Arrived
<1> QED BY <1>1, <1>2, <1>3, <1>4, <1>5, Zenon DEF AtaInv

LEMMA ModeRequestKeeps == AtaInv /\ ModeRequest => AtaInv'
<1> SUFFICES ASSUME AtaInv, ModeRequest PROVE AtaInv'
  OBVIOUS
<1> USE ConstantsNat DEF AtaInv, ModeRequest, Medium
<1> USE NoRequestFields
<1>1. Types'
  <2>1. drive' \in DriveType
    BY Zenon DEF Types, DriveType, RequestType, RequestInv, Window
  <2>2. bm' \in EngineType
    BY Zenon DEF Types, EngineType
  <2>3. irq' \in IrqType
    BY Zenon DEF Types, IrqType
  <2>4. req' \in RequestType
    BY NoRequestFields, Zenon DEF RequestType
  <2>5. cached' \in SUBSET Window /\ saved' \in SUBSET cached'
    BY Zenon DEF Types, RequestInv
  <2>6. line' \in BOOLEAN /\ dma' \in BOOLEAN
    BY Zenon DEF Types, IrqType
  <2>7. pc' \in {"idle", "start", "irqWait", "poll", "seen", "failed", "done"}
    BY Zenon DEF Types
  <2> QED BY <2>1, <2>2, <2>3, <2>4, <2>5, <2>6, <2>7, Zenon DEF Types
<1>2. RequestInv'
  BY Zenon DEF Types, DriveType, RequestType, RequestInv, Window
<1>3. EngineInv'
  BY Zenon DEF Types, EngineType, EngineInv, RequestInv, Waiting
<1>4. WriteInv'
  BY Zenon DEF Types, DriveType, RequestType, RequestInv, WriteInv, Waiting, AtDrq,
     AtStored, AtFlush
<1>5. ReadInv'
  BY Zenon DEF Types, EngineType, DriveType, RequestType, RequestInv, ReadInv, Waiting,
     AtData, AtEnd, AtDma, Arrived
<1> QED BY <1>1, <1>2, <1>3, <1>4, <1>5, Zenon DEF AtaInv

LEMMA ModeStartKeeps == AtaInv /\ ModeStart => AtaInv'
<1> SUFFICES ASSUME AtaInv, ModeStart PROVE AtaInv'
  OBVIOUS
<1> USE ConstantsNat DEF AtaInv, ModeStart, Ready, Await, Medium
<1>0. Commanded(drive', "mode", 0, 0)
  BY CommandFields
<1>1. Types'
  <2>1. drive' \in DriveType
    BY <1>0, Zenon DEF Commanded
  <2>2. bm' \in EngineType
    BY Zenon DEF Types, EngineType
  <2>3. irq' \in IrqType
    BY Zenon DEF Types, IrqType
  <2>4. req' \in RequestType
    BY Zenon DEF Types, RequestType, RequestInv, Attempts
  <2>5. cached' \in SUBSET Window /\ saved' \in SUBSET cached'
    BY Zenon DEF Types, RequestInv
  <2>6. line' \in BOOLEAN /\ dma' \in BOOLEAN
    BY Zenon DEF Types, IrqType
  <2>7. pc' \in {"idle", "start", "irqWait", "poll", "seen", "failed", "done"}
    BY Zenon DEF Types
  <2> QED BY <2>1, <2>2, <2>3, <2>4, <2>5, <2>6, <2>7, Zenon DEF Types
<1>2. RequestInv'
  BY <1>0, Zenon DEF Types, RequestType, RequestInv, Commanded
<1>3. EngineInv'
  BY Zenon DEF Types, EngineType, EngineInv, RequestInv, Waiting
<1>4. WriteInv'
  BY Zenon DEF Types, DriveType, RequestType, RequestInv, WriteInv, Waiting, AtDrq,
     AtStored, AtFlush
<1>5. ReadInv'
  BY Zenon DEF Types, EngineType, DriveType, RequestType, RequestInv, ReadInv, Waiting,
     AtData, AtEnd, AtDma, Arrived
<1> QED BY <1>1, <1>2, <1>3, <1>4, <1>5, Zenon DEF AtaInv

LEMMA ModeSetKeeps == AtaInv /\ ModeSet => AtaInv'
<1> SUFFICES ASSUME AtaInv, ModeSet PROVE AtaInv'
  OBVIOUS
<1> USE ConstantsNat DEF AtaInv, ModeSet, End, Medium
<1> USE NoRequestFields
<1>1. Types'
  BY DEF Types, DriveType, EngineType, IrqType, RequestType, RequestInv, Window,
     Attempts
<1>2. RequestInv'
  BY Zenon DEF Types, DriveType, RequestType, RequestInv, Window
<1>3. EngineInv'
  BY Zenon DEF Types, EngineType, EngineInv, RequestInv, Waiting
<1>4. WriteInv'
  BY Zenon DEF Types, DriveType, RequestType, RequestInv, WriteInv, Waiting, AtDrq,
     AtStored, AtFlush
<1>5. ReadInv'
  BY Zenon DEF Types, EngineType, DriveType, RequestType, RequestInv, ReadInv, Waiting,
     AtData, AtEnd, AtDma, Arrived
<1> QED BY <1>1, <1>2, <1>3, <1>4, <1>5, Zenon DEF AtaInv

LEMMA ModeFailedKeeps == AtaInv /\ ModeFailed => AtaInv'
<1> SUFFICES ASSUME AtaInv, ModeFailed PROVE AtaInv'
  OBVIOUS
<1> USE ConstantsNat DEF AtaInv, ModeFailed, End, NoRequest, Medium
<1>0. drive' \in DriveType /\ drive'.cmd = "none" /\ ~drive'.got
  BY IdleDriveFields, ResetDrive, Zenon DEF Reset
<1>1. Types'
  <2>1. drive' \in DriveType
    BY <1>0, Zenon
  <2>2. bm' \in EngineType
    BY Zenon DEF Types, EngineType
  <2>3. irq' \in IrqType
    BY Zenon DEF Types, IrqType
  <2>4. req' \in RequestType
    BY DEF Types, RequestType, RequestInv, Attempts
  <2>5. cached' \in SUBSET Window /\ saved' \in SUBSET cached'
    BY Zenon DEF Types, RequestInv
  <2>6. line' \in BOOLEAN /\ dma' \in BOOLEAN
    BY Zenon DEF Types, IrqType
  <2>7. pc' \in {"idle", "start", "irqWait", "poll", "seen", "failed", "done"}
    BY Zenon DEF Types
  <2> QED BY <2>1, <2>2, <2>3, <2>4, <2>5, <2>6, <2>7, Zenon DEF Types
<1>2. RequestInv'
  BY <1>0, Zenon DEF Types, RequestType, RequestInv
<1>3. EngineInv'
  BY Zenon DEF Types, EngineType, EngineInv, RequestInv, Waiting
<1>4. WriteInv'
  BY Zenon DEF Types, DriveType, RequestType, RequestInv, WriteInv, Waiting, AtDrq,
     AtStored, AtFlush
<1>5. ReadInv'
  BY Zenon DEF Types, EngineType, DriveType, RequestType, RequestInv, ReadInv, Waiting,
     AtData, AtEnd, AtDma, Arrived
<1> QED BY <1>1, <1>2, <1>3, <1>4, <1>5, Zenon DEF AtaInv

LEMMA RequestKeeps ==
    ASSUME NEW op \in {"read", "write"}, NEW r \in Ranges, NEW flags \in BOOLEAN,
           AtaInv, Request(op, r, flags)
    PROVE  AtaInv'
<1> USE ConstantsNat
<1>a. r.lba \in 0..Sectors - 1 /\ r.n \in 1..MaxCount /\ r.n <= Sectors - r.lba
  BY Zenon DEF Ranges
<1>b. /\ req' = [NoRequest EXCEPT !.op = op, !.lba = r.lba, !.n = r.n, !.flags = flags]
      /\ pc' = "start" /\ buffer' = <<>> /\ dma' = dma /\ bm' = bm /\ drive' = drive
      /\ cached' = cached /\ saved' = saved /\ irq' = irq /\ line' = line
  BY Zenon DEF Request, Medium
<1>c. /\ req' \in RequestType
      /\ req'.op = op /\ req'.lba = r.lba /\ req'.n = r.n /\ req'.k = 0 /\ ~req'.early
  <2>1. r.lba \in Nat /\ r.n \in Nat
    BY <1>a
  <2>2. NoRequest.k = 0
    BY Zenon DEF NoRequest
  <2> QED BY <1>b, <2>1, <2>2, NoRequestFields, Zenon DEF RequestType
<1>1. Types'
  BY <1>b, <1>c, Zenon DEF AtaInv, Types
<1>2. RequestInv'
  <2>1. op = "write" => r.lba..r.lba + r.n - 1 \subseteq Window
    <3>1. op = "write" => InWindow(r)
      BY Zenon DEF Request
    <3> QED BY <1>a, <3>1 DEF InWindow, Window
  <2>2. r.lba + r.n <= Sectors
    BY <1>a
  <2> QED BY <1>a, <1>b, <1>c, <2>1, <2>2, Zenon DEF AtaInv, RequestInv
<1>3. EngineInv'
  <2>1. pc = "idle"
    BY Zenon DEF Request
  <2>2. ~bm.start /\ (dma => bm.pages)
    BY <2>1, Zenon DEF AtaInv, EngineInv, Waiting
  <2> QED BY <1>b, <1>c, <2>2, Zenon DEF EngineInv
<1>4. WriteInv'
  BY <1>b, <1>c, Zenon DEF WriteInv, Waiting
<1>5. ReadInv'
  BY <1>a, <1>b, <1>c DEF ReadInv, Waiting, Arrived
<1> QED BY <1>1, <1>2, <1>3, <1>4, <1>5, Zenon DEF AtaInv

-----------------------------------------------------------------------------
(* The three promises. *)

(* Every phase of every request is as the invariant says: drivers/ata.c    *)
(* and the drive stay in step, whatever the drive does and whenever.       *)
THEOREM AtaInvariance == Spec => []AtaInv
<1>1. Init => AtaInv
  <2> SUFFICES ASSUME Init PROVE AtaInv
    BY Zenon
  <2> USE ConstantsNat, IdleDriveFields, NoRequestFields DEF Init
  <2>1. Types
    BY Zenon DEF Types, EngineType, IrqType
  <2>2. RequestInv
    BY Zenon DEF RequestInv
  <2> QED BY <2>1, <2>2, Zenon DEF AtaInv, EngineInv, WriteInv, ReadInv, Waiting
<1>2. AtaInv /\ [Next]_vars => AtaInv'
  <2> SUFFICES ASSUME AtaInv, [Next]_vars PROVE AtaInv'
    BY Zenon
  <2>1. CASE Next
    <3>1. CASE DataReady \/ Transfer \/ Finish \/ Fail \/ IrqHandler
      BY <3>1, DataReadyKeeps, TransferKeeps, FinishKeeps, FailKeeps, IrqHandlerKeeps, Zenon
    <3>2. CASE StartExpired \/ IrqSeen \/ IrqExpired \/ Poll
      BY <3>2, StartExpiredKeeps, IrqSeenKeeps, IrqExpiredKeeps, PollKeeps, Zenon
    <3>3. CASE PioStart \/ PioSector \/ PioEnd \/ DmaStart \/ DmaDone \/ NextAttempt
      BY <3>3, PioStartKeeps, PioSectorKeeps, PioEndKeeps, DmaStartKeeps, DmaDoneKeeps,
         NextAttemptKeeps, Zenon
    <3>4. CASE \/ WriteStart \/ WriteSector \/ WriteStored \/ WriteFlushed \/ WriteFailed
               \/ Return
      BY <3>4, WriteStartKeeps, WriteSectorKeeps, WriteStoredKeeps, WriteFlushedKeeps,
         WriteFailedKeeps, ReturnKeeps, Zenon
    <3>5. CASE EnableIrqMode \/ ModeRefused \/ ModeRequest \/ ModeStart \/ ModeSet \/ ModeFailed
      BY <3>5, EnableIrqModeKeeps, ModeRefusedKeeps, ModeRequestKeeps, ModeStartKeeps, ModeSetKeeps,
         ModeFailedKeeps
    <3>6. ASSUME NEW op \in {"read", "write"}, NEW r \in Ranges, NEW flags \in BOOLEAN,
                 Request(op, r, flags)
          PROVE  AtaInv'
      BY <3>6, RequestKeeps, Zenon
    <3> QED BY <2>1, <3>1, <3>2, <3>3, <3>4, <3>5, <3>6, Zenon DEF Next
  <2>2. CASE UNCHANGED vars
    BY <2>2 DEF vars, AtaInv, Types, RequestInv, EngineInv, WriteInv, ReadInv,
       Waiting, AtDrq,
                AtStored, AtFlush, AtData, AtEnd, AtDma, Arrived
  <2> QED BY <2>1, <2>2, Zenon
<1> QED BY <1>1, <1>2, PTL DEF Spec

(* The engine runs only while a DMA read waits for it, DMA is on only while *)
(* the driver has its two pages, and only sectors of the write window are   *)
(* ever written, whatever fails and when (ata_read_dma_chunk,               *)
(* disable_dma_after_failure, the window test of ata_write_sectors).        *)
THEOREM PagesAlwaysSafe == Spec => []PagesAreSafe
<1>1. AtaInv => PagesAreSafe
  BY ConstantsNat, Zenon DEF AtaInv, Types, EngineInv, Waiting, PagesAreSafe, TypeOK,
     DriveType, EngineType, IrqType, RequestType, Window
<1> QED BY <1>1, AtaInvariance, PTL

(* A read that succeeds has filled its buffer with the sectors asked for,  *)
(* for every mix of DMA, PIO, errors, late interrupts and resets           *)
(* (ata_read_sectors).                                                     *)
THEOREM ReadsDeliver == Spec => []ReadDeliversTheDisk
<1>1. AtaInv => ReadDeliversTheDisk
  <2> SUFFICES ASSUME AtaInv, pc = "done", req.op = "read"
               PROVE  buffer = [i \in 1..req.n |-> req.lba + i - 1]
    BY Zenon DEF ReadDeliversTheDisk
  <2>1. Arrived(req.n)
    BY Zenon DEF AtaInv, ReadInv
  <2>2. DOMAIN buffer = 1..req.n /\ buffer = [i \in DOMAIN buffer |-> buffer[i]]
    BY <2>1 DEF Arrived
  <2> QED BY <2>1, <2>2, Zenon DEF Arrived
<1> QED BY <1>1, AtaInvariance, PTL

(* A write that succeeds is on the medium, if the drive shows BSY at the   *)
(* first look at its status after FLUSH CACHE (ata_write_sectors).         *)
THEOREM WritesAreSaved == Spec => [](BusyAtOnce => AcknowledgedWriteIsSaved)
<1>1. AtaInv => (BusyAtOnce => AcknowledgedWriteIsSaved)
  BY Zenon DEF AtaInv, WriteInv, AcknowledgedWriteIsSaved
<1> QED BY <1>1, AtaInvariance, PTL

=============================================================================
