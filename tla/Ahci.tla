-------------------------------- MODULE Ahci --------------------------------
(***************************************************************************)
(* The AHCI disk driver (drivers/ahci.c with ahci_irq_state.c,             *)
(* ahci_recovery_state.c and ahci_device_table.c) against a controller     *)
(* that may answer late, fail, lose an interrupt, hang while it is being   *)
(* stopped, refuse a PCI configuration write, and show a different drive   *)
(* after a reset.                                                          *)
(*                                                                         *)
(* The driver is one thread: pc says where in ahci_init or ahci_block_read *)
(* it is.  An action is one stretch of that thread; the completion of a    *)
(* command and ahci_irq_handler run between the stretches.  All ports      *)
(* share the four DMA pages of the driver, and slot 0 is the only command  *)
(* slot.                                                                   *)
(***************************************************************************)
EXTENDS Naturals

CONSTANTS PortCount,        \* how many ports are implemented
          Controllers,      \* how many controllers pci.c lists
          IrqGenerations,   \* the largest interrupt generation (2^32 - 1)
          GenerationLimit   \* the largest controller generation (2^32 - 1)

ASSUME AhciAssumption ==
    /\ PortCount \in Nat \ {0}
    /\ Controllers \in Nat \ {0}
    /\ IrqGenerations \in Nat \ {0} /\ GenerationLimit \in Nat \ {0}

VARIABLES
    hba,    \* registers of the controller and what is behind its ports
    drv,    \* the static variables of ahci.c
    irq,    \* irq_state
    recov,  \* recovery_state.action
    req,    \* the locals of the call in progress
    bounce, \* what the last command brought to the bounce page, and whether
            \* the byte count of slot 0 is the expected one
    pc      \* where the driver is

vars == <<hba, drv, irq, recov, req, bounce, pc>>

Ports == 1..PortCount
Drives == {"first", "second"}
NoPort == 0
NoDrive == "none"
Purposes == {"probe", "revalidate", "read", "portCheck", "hbaCheck", "retry"}

(***************************************************************************)
(* The hardware.  engine: the DMA engines of a port run (PxCMD.CR, FR);    *)
(* based: its command-list and FIS bases hold the driver's pages; cmd: the *)
(* command of slot 0 (PxCI); status: PxIS; ie: PxIE; gie: GHC.IE; master:  *)
(* the PCI bus-master bit; msi: a message waits for the processor; link: a *)
(* SATA drive with a signature answers; drive: which one.                  *)
(***************************************************************************)
FreshHba ==
    [engine |-> [p \in Ports |-> FALSE], based |-> [p \in Ports |-> FALSE],
     cmd |-> [p \in Ports |-> "none"], status |-> [p \in Ports |-> {}],
     ie |-> [p \in Ports |-> FALSE], gie |-> FALSE, master |-> FALSE,
     msi |-> FALSE, link |-> [p \in Ports |-> TRUE],
     drive |-> [p \in Ports |-> "first"]]

\* Can port p write to the pages its bases name?
CanDma(h, p) == h.engine[p] /\ h.based[p] /\ h.master

\* reset_controller_candidate.
FreshDriver ==
    [present |-> FALSE, mmio |-> FALSE, port |-> NoPort, active |-> NoPort,
     pages |-> FALSE, closed |-> FALSE, gen |-> 1, baseline |-> NoDrive,
     table |-> [p \in Ports |-> NoDrive], valid |-> [p \in Ports |-> 0]]

IrqStateReset ==
    [enabled |-> FALSE, active |-> FALSE, gen |-> 0, obsGen |-> 0, obs |-> {}]

NoRequest ==
    [purpose |-> "probe", dev |-> NoPort, flags |-> FALSE, useIrq |-> FALSE,
     gen |-> 0, seen |-> "none", ok |-> FALSE, restore |-> FALSE,
     scan |-> 1, left |-> Controllers]

Blank == [by |-> "nobody", port |-> NoPort, drive |-> NoDrive, full |-> FALSE]

Init ==
    /\ \E up \in [Ports -> BOOLEAN] : hba = [FreshHba EXCEPT !.link = up]
    /\ drv = FreshDriver
    /\ irq = IrqStateReset
    /\ recov = "none"
    /\ req = NoRequest
    /\ bounce = Blank
    /\ pc = "prepare"

-----------------------------------------------------------------------------
(* ahci_irq_state.c *)

IrqDisable(i) == [i EXCEPT !.enabled = FALSE, !.active = FALSE, !.obsGen = 0, !.obs = {}]

\* The next generation; 0 is skipped when the counter wraps.
IrqBegin(i) ==
    [i EXCEPT !.gen = (i.gen % IrqGenerations) + 1, !.obsGen = 0, !.obs = {},
              !.active = TRUE]

IrqRecord(i, status) ==
    IF ~i.enabled \/ status = {} \/ ~i.active THEN i
    ELSE [i EXCEPT !.obs = @ \cup status, !.obsGen = i.gen]

IrqObserve(i, gen) ==
    IF ~i.enabled \/ ~i.active \/ i.gen # gen \/ i.obsGen # gen THEN "none"
    ELSE IF "error" \in i.obs THEN "error"
    ELSE IF "done" \in i.obs THEN "complete" ELSE "none"

IrqFinish(i, gen) ==
    IF ~i.active \/ i.gen # gen THEN i
    ELSE [i EXCEPT !.active = FALSE, !.obsGen = 0, !.obs = {}]

(* ahci_recovery_state.c: the next action, which is also the next state;   *)
(* "complete" leaves the state "none".                                     *)

RecoveryBegin(r) == IF r = "none" THEN "port" ELSE "closed"

RecoveryAdvanceAgain(r, ok) == IF ok THEN "complete" ELSE "port"

RecoveryAdvance(r, ok) ==
    IF ok THEN "complete" ELSE IF r = "port" THEN "hba" ELSE "closed"

RecoveryStateKept(r, action) == IF action = "complete" THEN r ELSE action

RecoveryState(r, action) == IF action = "complete" THEN "none" ELSE action

-----------------------------------------------------------------------------
(* Port operations.  Those that can fail are sets of the results [h, ok]   *)
(* the hardware may give.                                                  *)

PendingKept(h, p) == h

\* clear_pending_interrupts.
ClearPending(h, p) == [h EXCEPT !.status[p] = {}]

\* A running engine may not stop in time; one that stops drops its command.
StopPort(h, p) ==
    {[h |-> [h EXCEPT !.engine[p] = FALSE, !.cmd[p] = "none"], ok |-> TRUE]}
    \cup IF h.engine[p] THEN {[h |-> h, ok |-> FALSE]} ELSE {}

\* mask_hba_interrupts, without its ahci_irq_state_disable.
MaskHba(h, p) == [ClearPending(h, p) EXCEPT !.gie = FALSE, !.ie[p] = FALSE]

\* enable_hba_interrupts: a register that does not read back masks it all.
EnableHba(h, p) ==
    {[h |-> [ClearPending(h, p) EXCEPT !.gie = TRUE, !.ie[p] = TRUE], ok |-> TRUE],
     [h |-> MaskHba(h, p), ok |-> FALSE]}

\* program_port_dma_memory.
ProgramPort(h, p) ==
    [h EXCEPT !.ie[p] = FALSE, !.status[p] = {}, !.based[p] = TRUE]

\* quiesce_active_port of a selected port: its engine is stopped, then bus
\* mastering, then its bases are cleared.
QuiescePort(h, p) ==
    LET masked == ClearPending([h EXCEPT !.ie[p] = FALSE], p)
    IN UNION {IF ~s.ok THEN {[h |-> s.h, ok |-> FALSE]}
              ELSE {[h |-> s.h, ok |-> FALSE],
                    [h |-> [s.h EXCEPT !.master = FALSE], ok |-> FALSE],
                    [h |-> [s.h EXCEPT !.master = FALSE, !.based[p] = FALSE],
                     ok |-> TRUE]}
              : s \in StopPort(masked, p)}

\* activate_port from the choice of the candidate to the restored interrupts.
\* With no drive on the port it is not even selected; irq says whether the
\* interrupt state stays enabled.
SelectPort(h, p, restore) ==
    IF ~h.link[p] THEN {[h |-> h, ok |-> FALSE, port |-> NoPort, irq |-> restore]}
    ELSE UNION
      {LET set     == ProgramPort(s.h, p)
           master  == [set EXCEPT !.master = TRUE]
           started == [master EXCEPT !.engine[p] = TRUE]
           failed  == IF s.ok THEN {s.h, set, master} ELSE {s.h}
           last    == IF ~s.ok THEN {}
                      ELSE IF restore THEN EnableHba(started, p)
                      ELSE {[h |-> started, ok |-> TRUE]}
       IN {[h |-> x, ok |-> FALSE, port |-> p, irq |-> restore] : x \in failed}
          \cup {[h |-> e.h, ok |-> e.ok, port |-> p, irq |-> restore /\ e.ok] : e \in last}
       : s \in StopPort(h, p)}

\* reset_port_link: the drive may have been replaced, its link may stay down,
\* and the engine may refuse to stop; only a clean port is started again.
ResetPortLink(h, p) ==
    LET back(d) == [h EXCEPT !.cmd[p] = "none", !.status[p] = {},
                             !.engine[p] = TRUE, !.drive[p] = d]
    IN {[h |-> back(d), ok |-> TRUE] : d \in Drives}
       \cup {[h |-> [h EXCEPT !.link[p] = FALSE], ok |-> FALSE],
             [h |-> [h EXCEPT !.status[p] = {}], ok |-> FALSE],
             [h |-> [h EXCEPT !.status[p] = {}, !.engine[p] = FALSE,
                              !.cmd[p] = "none"], ok |-> FALSE]}

\* The controller after GHC.HR: every port is stopped and forgets its bases;
\* drives may have been replaced and links may have come or gone.
HbaAfterReset(h, fate) ==
    [FreshHba EXCEPT !.msi = h.msi, !.link = [p \in Ports |-> fate[p] # "gone"],
        !.drive = [p \in Ports |-> IF fate[p] = "same" THEN h.drive[p] ELSE "second"]]

\* hba_reset_and_revalidate up to wait_selected_link.  It fails when bus
\* mastering stays on, when the reset does not end, or when the port does not
\* come back at one of the later steps.
HbaReset(h, p) ==
    (UNION {{[h |-> s.h, ok |-> FALSE],
             [h |-> [s.h EXCEPT !.master = FALSE], ok |-> FALSE]}
            : s \in StopPort(MaskHba(h, p), p)})
    \cup (UNION
      {LET reset   == HbaAfterReset(h, fate)
           set     == ProgramPort(reset, p)
           master  == [set EXCEPT !.master = TRUE]
           started == [master EXCEPT !.engine[p] = TRUE]
       IN IF reset.link[p]
          THEN {[h |-> x, ok |-> FALSE] : x \in {set, master, started}}
               \cup {[h |-> started, ok |-> TRUE]}
          ELSE {[h |-> reset, ok |-> FALSE]}
       : fate \in [Ports -> {"same", "swapped", "gone"}]})

-----------------------------------------------------------------------------
(* The hardware between two stretches of the driver. *)

Interrupts(h, p) == h.ie[p] /\ h.gie /\ h.master

\* The drive on p answers the command in slot 0, perhaps with fewer bytes or
\* a task file that still shows an error; the message may be lost or, for a
\* command that ends without a register FIS, never be sent.
Complete(p) ==
    /\ CanDma(hba, p) /\ hba.cmd[p] # "none" /\ "error" \notin hba.status[p]
    /\ \E full, sent \in BOOLEAN :
          /\ bounce' = [by |-> hba.cmd[p], port |-> p, drive |-> hba.drive[p],
                        full |-> full]
          /\ hba' = [hba EXCEPT !.cmd[p] = "none",
                        !.status[p] = IF sent THEN @ \cup {"done"} ELSE @,
                        !.msi = @ \/ (sent /\ Interrupts(hba, p))]
    /\ UNCHANGED <<drv, irq, recov, req, pc>>

\* A task-file, bus or link error; the command stays in its slot.
Error(p) ==
    /\ CanDma(hba, p) /\ hba.cmd[p] # "none" /\ "error" \notin hba.status[p]
    /\ hba' = [hba EXCEPT !.status[p] = @ \cup {"error"},
                          !.msi = @ \/ Interrupts(hba, p)]
    /\ UNCHANGED <<drv, irq, recov, req, bounce, pc>>

\* ahci_irq_handler, whenever the interrupted code runs with interrupts on.
IrqHandler ==
    /\ hba.msi /\ req.flags
    /\ IF ~drv.mmio \/ drv.port = NoPort \/ ~irq.enabled
       THEN hba' = [hba EXCEPT !.msi = FALSE] /\ irq' = irq
       ELSE /\ hba' = [hba EXCEPT !.msi = FALSE, !.status[drv.port] = {}]
            /\ irq' = IrqRecord(irq, hba.status[drv.port])
    /\ UNCHANGED <<drv, recov, req, bounce, pc>>

-----------------------------------------------------------------------------
(* issue_slot_zero, in three stretches: the command is issued with         *)
(* interrupts off, the driver waits, and the outcome is judged with        *)
(* interrupts off again.                                                   *)

Kind(purpose) == IF purpose \in {"read", "retry"} THEN "read" ELSE "identify"

\* A busy slot or a task file that stays busy: nothing is issued.
IssueRefused ==
    /\ pc = "issue"
    /\ req' = [req EXCEPT !.ok = FALSE]
    /\ pc' = "issued"
    /\ UNCHANGED <<hba, drv, irq, recov, bounce>>

Issue ==
    /\ pc = "issue" /\ hba.cmd[drv.port] = "none"
    /\ LET useIrq == irq.enabled /\ req.flags
       IN /\ \/ useIrq /\ ~irq.active /\ irq' = IrqBegin(irq)
             \/ ~useIrq /\ irq' = irq
          /\ req' = [req EXCEPT !.useIrq = useIrq, !.gen = IF useIrq THEN irq'.gen ELSE 0,
                                !.ok = FALSE]
    /\ hba' = [ClearPending(hba, drv.port) EXCEPT !.cmd[drv.port] = Kind(req.purpose)]
    /\ bounce' = Blank
    /\ pc' = "wait"
    /\ UNCHANGED <<drv, recov>>

\* The loop ends when the handler, or without interrupts the port, has news.
NewsSeen ==
    /\ pc = "wait"
    /\ IF req.useIrq
       THEN /\ IrqObserve(irq, req.gen) # "none"
            /\ req' = [req EXCEPT !.seen = IrqObserve(irq, req.gen)]
       ELSE /\ "error" \in hba.status[drv.port] \/ hba.cmd[drv.port] = "none"
            /\ req' = [req EXCEPT !.seen = "complete"]
    /\ pc' = "judge"
    /\ UNCHANGED <<hba, drv, irq, recov, bounce>>

\* AHCI_WAIT_LIMIT iterations have passed.
WaitExpired ==
    /\ pc = "wait"
    /\ req' = [req EXCEPT !.seen = "none"]
    /\ pc' = "judge"
    /\ UNCHANGED <<hba, drv, irq, recov, bounce>>

\* Does the command count as done?  In interrupt mode a wait that expired is
\* accepted when the slot is free and no error shows.
Judgement ==
    LET p == drv.port
    IN /\ "error" \notin hba.status[p]
       /\ hba.cmd[p] = "none"
       /\ bounce.full
       /\ IF req.useIrq THEN "error" \notin irq.obs /\ req.seen # "error"
                        ELSE req.seen # "none"

Judge ==
    /\ pc = "judge"
    /\ req' = [req EXCEPT !.ok = Judgement, !.useIrq = FALSE, !.gen = 0,
                          !.seen = "none"]
    /\ irq' = IF req.useIrq THEN IrqFinish(irq, req.gen) ELSE irq
    /\ hba' = ClearPending(hba, drv.port)
    /\ pc' = "issued"
    /\ UNCHANGED <<drv, recov, bounce>>

\* identify_matches_baseline.
Identified == req.ok /\ bounce.drive = drv.baseline

-----------------------------------------------------------------------------
(* initialize_controller_candidate and ahci_init, with interrupts off. *)

\* From PCI preparation to the four DMA pages; each step may fail, the early
\* ones before the registers may be written.
Prepare ==
    /\ pc = "prepare"
    /\ \E ok, mmio, pages \in BOOLEAN :
          /\ (ok => mmio /\ pages) /\ (pages => mmio)
          /\ drv' = [drv EXCEPT !.mmio = mmio, !.pages = pages]
          /\ pc' = IF ok THEN "probe" ELSE "disable"
    /\ bounce' = Blank
    /\ UNCHANGED <<hba, irq, recov, req>>

ProbeSkip ==
    /\ pc = "probe" /\ req.scan \in Ports /\ ~hba.link[req.scan]
    /\ req' = [req EXCEPT !.scan = @ + 1]
    /\ UNCHANGED <<hba, drv, irq, recov, bounce, pc>>

\* activate_port(port, 0) of a port with a drive; no port is selected yet.
ProbePort ==
    /\ pc = "probe" /\ req.scan \in Ports /\ hba.link[req.scan]
    /\ \E s \in SelectPort(hba, req.scan, FALSE) :
          /\ hba' = s.h
          /\ drv' = [drv EXCEPT !.port = s.port]
          /\ pc' = IF s.ok THEN "issue" ELSE "disable"
    /\ bounce' = Blank
    /\ req' = [req EXCEPT !.purpose = "probe"]
    /\ UNCHANGED <<irq, recov>>

\* The answer to IDENTIFY enters the table unless its capacity is unusable,
\* and the port is given up again.
ProbeDone ==
    /\ pc = "issued" /\ req.purpose = "probe"
    /\ \E usable \in BOOLEAN, q \in QuiescePort(hba, drv.port) :
          LET add == req.ok /\ usable
              p   == drv.port
          IN /\ hba' = q.h
             /\ drv' = [drv EXCEPT !.table[p] = IF add THEN bounce.drive ELSE @,
                            !.valid[p] = IF add THEN drv.gen ELSE @,
                            !.port = IF q.ok THEN NoPort ELSE @]
             /\ pc' = IF q.ok THEN "probe" ELSE "disable"
    /\ req' = [req EXCEPT !.scan = @ + 1]
    /\ UNCHANGED <<irq, recov, bounce>>

Devices == {p \in Ports : drv.table[p] # NoDrive}
FirstDevice == CHOOSE p \in Devices : \A q \in Devices : p <= q

\* The first device is activated; it was identified in this generation.
ProbeEnd ==
    /\ pc = "probe" /\ req.scan \notin Ports
    /\ \/ /\ Devices = {}
          /\ pc' = "disable"
          /\ UNCHANGED <<hba, drv>>
       \/ /\ Devices # {}
          /\ \E s \in SelectPort(hba, FirstDevice, FALSE) :
                /\ hba' = s.h
                /\ drv' = [drv EXCEPT !.port = s.port, !.present = s.ok,
                              !.active = IF s.ok THEN FirstDevice ELSE NoPort,
                              !.baseline = IF s.ok THEN drv.table[FirstDevice] ELSE @]
                /\ pc' = IF s.ok THEN "idle" ELSE "disable"
    /\ req' = IF drv'.present THEN [NoRequest EXCEPT !.flags = TRUE] ELSE req
    /\ bounce' = Blank
    /\ UNCHANGED <<irq, recov>>

\* ahci_enable_irq_mode, once the local APIC is in use.
EnableIrqMode ==
    /\ pc = "idle" /\ drv.present /\ ~irq.enabled
    /\ \/ /\ hba' = MaskHba(hba, drv.port)
          /\ irq' = IrqDisable(irq)
       \/ \E e \in EnableHba(MaskHba(hba, drv.port), drv.port) :
             /\ hba' = e.h
             /\ irq' = [IrqDisable(irq) EXCEPT !.enabled = e.ok]
    /\ UNCHANGED <<drv, recov, req, bounce, pc>>

-----------------------------------------------------------------------------
(* ahci_block_read *)

\* A request for device d, from boot code or from a task; the guards of the
\* range of sectors are left to the caller.
Request(d, flags) ==
    /\ pc = "idle" /\ drv.present /\ d \in Devices
    /\ req' = [req EXCEPT !.dev = d, !.flags = flags]
    /\ pc' = "activate"
    /\ UNCHANGED <<hba, drv, irq, recov, bounce>>

\* activate_port returns at once for the active device.
AlreadyActive ==
    /\ pc = "activate" /\ drv.active = req.dev /\ drv.port # NoPort
    /\ req' = [req EXCEPT !.purpose = "read"]
    /\ pc' = "issue"
    /\ UNCHANGED <<hba, drv, irq, recov, bounce>>

\* quiesce_active_port: the port in use is given up before another is taken.
Switch ==
    /\ pc = "activate" /\ drv.active # req.dev
    /\ \E q \in QuiescePort(hba, drv.port) :
          /\ hba' = q.h
          /\ drv' = IF q.ok THEN [drv EXCEPT !.port = NoPort, !.active = NoPort]
                            ELSE drv
          /\ pc' = IF q.ok THEN "select" ELSE "disable"
    /\ UNCHANGED <<irq, recov, req, bounce>>

\* The rest of activate_port; a device not identified since the last reset of
\* the controller is identified again before it is used.
Select ==
    /\ pc = "select"
    /\ \E s \in SelectPort(hba, req.dev, irq.enabled) :
          LET fresh == drv.valid[req.dev] = drv.gen
          IN /\ hba' = s.h
             /\ irq' = IF s.irq = irq.enabled THEN irq ELSE IrqDisable(irq)
             /\ drv' = [drv EXCEPT !.port = s.port,
                           !.baseline = IF s.ok THEN drv.table[req.dev] ELSE @,
                           !.active = IF s.ok /\ fresh THEN req.dev ELSE NoPort]
             /\ req' = [req EXCEPT !.purpose = IF fresh THEN "read" ELSE "revalidate"]
             /\ pc' = IF s.ok THEN "issue" ELSE "disable"
    /\ bounce' = Blank
    /\ UNCHANGED recov

\* The answer to the IDENTIFY of activate_port.
Revalidated ==
    /\ pc = "issued" /\ req.purpose = "revalidate"
    /\ IF Identified
       THEN /\ drv' = [drv EXCEPT !.valid[req.dev] = drv.gen, !.active = req.dev]
            /\ req' = [req EXCEPT !.purpose = "read"]
            /\ pc' = "issue"
       ELSE /\ pc' = "disable"
            /\ UNCHANGED <<drv, req>>
    /\ UNCHANGED <<hba, irq, recov, bounce>>

-----------------------------------------------------------------------------
(* Recovery: one reset of the port, then one of the controller, each       *)
(* followed by IDENTIFY and one more READ.                                 *)

Stage(action) ==
    CASE action = "complete" -> "deliver"
      [] action = "port"     -> "portReset"
      [] action = "hba"      -> "hbaReset"
      [] action = "closed"   -> "disable"

Advance(ok) ==
    LET action == RecoveryAdvance(recov, ok)
    IN recov' = RecoveryState(recov, action) /\ pc' = Stage(action)

\* The first READ came back.
ReadBack ==
    /\ pc = "issued" /\ req.purpose = "read"
    /\ \/ req.ok /\ pc' = "deliver" /\ recov' = recov
       \/ ~req.ok /\ recov' = RecoveryBegin(recov) /\ pc' = Stage(recov')
    /\ UNCHANGED <<hba, drv, irq, req, bounce>>

\* The READ after a reset came back.
RetryBack ==
    /\ pc = "issued" /\ req.purpose = "retry"
    /\ Advance(req.ok)
    /\ UNCHANGED <<hba, drv, irq, req, bounce>>

\* port_reset_and_revalidate up to its IDENTIFY.
PortReset ==
    /\ pc = "portReset"
    /\ \E r \in ResetPortLink(hba, drv.port) :
          /\ hba' = r.h
          /\ IF r.ok
             THEN pc' = "issue" /\ recov' = recov
             ELSE Advance(FALSE)
    /\ req' = [req EXCEPT !.purpose = "portCheck"]
    /\ UNCHANGED <<drv, irq, bounce>>

PortChecked ==
    /\ pc = "issued" /\ req.purpose = "portCheck"
    /\ IF Identified
       THEN pc' = "issue" /\ req' = [req EXCEPT !.purpose = "retry"] /\ recov' = recov
       ELSE Advance(FALSE) /\ req' = req
    /\ UNCHANGED <<hba, drv, irq, bounce>>

\* hba_reset_and_revalidate up to its IDENTIFY, which is polled.
HbaResetStep ==
    /\ pc = "hbaReset"
    /\ \E r \in HbaReset(hba, drv.port) :
          /\ hba' = r.h
          /\ IF r.ok
             THEN pc' = "issue" /\ recov' = recov
             ELSE Advance(FALSE)
    /\ irq' = IrqDisable(irq)
    /\ req' = [req EXCEPT !.purpose = "hbaCheck", !.restore = irq.enabled]
    /\ bounce' = Blank
    /\ UNCHANGED drv

GenerationKept(d) == [d EXCEPT !.valid[d.active] = d.gen]

\* Only the device in use has been identified in the new generation.
NextGeneration(d) == [d EXCEPT !.gen = @ + 1, !.valid[d.active] = d.gen + 1]

HbaChecked ==
    /\ pc = "issued" /\ req.purpose = "hbaCheck"
    /\ IF ~Identified \/ drv.gen = GenerationLimit
       THEN Advance(FALSE) /\ UNCHANGED <<hba, drv, irq, req>>
       ELSE /\ drv' = NextGeneration(drv)
            /\ \/ /\ ~req.restore
                  /\ pc' = "issue" /\ req' = [req EXCEPT !.purpose = "retry"]
                  /\ UNCHANGED <<hba, irq, recov>>
               \/ /\ req.restore
                  /\ \E e \in EnableHba(hba, drv.port) :
                        /\ hba' = e.h
                        /\ irq' = [irq EXCEPT !.enabled = e.ok]
                        /\ IF e.ok
                           THEN /\ pc' = "issue" /\ recov' = recov
                                /\ req' = [req EXCEPT !.purpose = "retry"]
                           ELSE Advance(FALSE) /\ req' = req
    /\ UNCHANGED bounce

-----------------------------------------------------------------------------
(* The two ends of ahci_block_read. *)

Deliver ==
    /\ pc = "deliver"
    /\ req' = [NoRequest EXCEPT !.flags = TRUE]
    /\ pc' = "idle"
    /\ bounce' = Blank
    /\ UNCHANGED <<hba, drv, irq, recov>>

\* May the DMA pages go back to the frame allocator and the registers be
\* unmapped?
ReleasedAlways(portStopped, masterStopped) == TRUE

Released(portStopped, masterStopped) == portStopped /\ masterStopped

\* disable_driver: its results, each with the driver that is left.  The PCI
\* function may keep its bus-master bit, or lose it and keep its MSI setup.
DisableDriver(h, d) ==
    LET stops == IF d.mmio /\ d.port # NoPort
                 THEN {[h |-> IF s.ok THEN [s.h EXCEPT !.based[d.port] = FALSE]
                                      ELSE s.h, ok |-> s.ok]
                       : s \in StopPort([h EXCEPT !.ie[d.port] = FALSE], d.port)}
                 ELSE {[h |-> h, ok |-> TRUE]}
        off   == [d EXCEPT !.table = FreshDriver.table, !.valid = FreshDriver.valid,
                           !.active = NoPort, !.present = FALSE]
    IN UNION {{LET gone == Released(s.ok, q.ok)
                   mask == [s.h EXCEPT !.gie = IF d.mmio THEN FALSE ELSE @,
                                       !.master = q.master]
               IN [h |-> mask,
                   d |-> [off EXCEPT !.closed = s.ok /\ q.ok,
                             !.pages = @ /\ ~gone, !.mmio = @ /\ ~gone,
                             !.port = IF gone THEN NoPort ELSE @]]
               : q \in {[ok |-> TRUE, master |-> FALSE], [ok |-> FALSE, master |-> FALSE],
                        [ok |-> FALSE, master |-> s.h.master]}}
              : s \in stops}

Disable ==
    /\ pc = "disable"
    /\ \E r \in DisableDriver(hba, drv) : hba' = r.h /\ drv' = r.d
    /\ irq' = IrqDisable(irq)
    /\ req' = [NoRequest EXCEPT !.flags = TRUE, !.left = req.left]
    /\ pc' = IF req.dev = NoPort THEN "candidate" ELSE "off"
    /\ bounce' = Blank
    /\ UNCHANGED recov

\* ahci_init tries the next controller only after a failure that left the
\* last one quiet; reset_controller_candidate forgets the pages it had.
NextCandidate ==
    /\ pc = "candidate"
    /\ IF drv.closed /\ req.left > 1
       THEN /\ \E up \in [Ports -> BOOLEAN] : hba' = [FreshHba EXCEPT !.link = up]
            /\ drv' = FreshDriver
            /\ irq' = IrqStateReset
            /\ recov' = "none"
            /\ req' = [NoRequest EXCEPT !.left = req.left - 1]
            /\ pc' = "prepare"
       ELSE /\ pc' = "off"
            /\ UNCHANGED <<hba, drv, irq, recov, req>>
    /\ UNCHANGED bounce

\* Without a driver every further read fails at its first guard.
RefusedRead ==
    /\ pc = "off"
    /\ UNCHANGED vars

-----------------------------------------------------------------------------
DriverStep ==
    \/ Prepare \/ ProbeSkip \/ ProbePort \/ ProbeDone \/ ProbeEnd
    \/ AlreadyActive \/ Switch \/ Select \/ Revalidated
    \/ IssueRefused \/ Issue \/ NewsSeen \/ WaitExpired \/ Judge
    \/ ReadBack \/ RetryBack \/ PortReset \/ PortChecked
    \/ HbaResetStep \/ HbaChecked \/ Deliver \/ Disable \/ NextCandidate

Next ==
    \/ DriverStep
    \/ EnableIrqMode
    \/ \E d \in Ports, flags \in BOOLEAN : Request(d, flags)
    \/ \E p \in Ports : Complete(p) \/ Error(p)
    \/ IrqHandler
    \/ RefusedRead

\* Every loop of the driver is bounded, so a call keeps making steps; nothing
\* is assumed of the controller.
Spec == Init /\ [][Next]_vars /\ WF_vars(DriverStep)

-----------------------------------------------------------------------------
\* Every register and variable has its type; the generation counters of
\* ahci_irq_state_begin and of hba_reset_and_revalidate stay in their ranges.
TypeOK ==
    /\ hba \in [engine : [Ports -> BOOLEAN], based : [Ports -> BOOLEAN],
                cmd : [Ports -> {"none", "identify", "read"}],
                status : [Ports -> SUBSET {"done", "error"}],
                ie : [Ports -> BOOLEAN], gie : BOOLEAN, master : BOOLEAN,
                msi : BOOLEAN, link : [Ports -> BOOLEAN], drive : [Ports -> Drives]]
    /\ drv \in [present : BOOLEAN, mmio : BOOLEAN, port : Ports \cup {NoPort},
                active : Ports \cup {NoPort}, pages : BOOLEAN, closed : BOOLEAN,
                gen : 1..GenerationLimit, baseline : Drives \cup {NoDrive},
                table : [Ports -> Drives \cup {NoDrive}],
                valid : [Ports -> 0..GenerationLimit]]
    /\ irq \in [enabled : BOOLEAN, active : BOOLEAN, gen : 0..IrqGenerations,
                obsGen : 0..IrqGenerations, obs : SUBSET {"done", "error"}]
    /\ recov \in {"none", "port", "hba", "closed"}
    /\ req.purpose \in Purposes /\ req.gen \in 0..IrqGenerations

\* disable_driver gives the four DMA pages back to the frame allocator; from
\* then on no port of the controller can write to them.
PagesOutliveDma == drv.pages \/ \A p \in Ports : ~CanDma(hba, p)

\* Every port is programmed with the same pages, so at most the selected port
\* has an engine running, bases set or interrupts enabled.
OnePortOwnsThePages ==
    \A p \in Ports : hba.engine[p] \/ hba.based[p] \/ hba.ie[p] => p = drv.port

\* The DMA pages are safe: owned by the driver as long as a port can write to
\* them, and by one port at a time.
PagesAreSafe == TypeOK /\ PagesOutliveDma /\ OnePortOwnsThePages

\* A read that ahci_block_read reports as successful delivers what this
\* READ brought from the drive that was identified on that port at boot, also
\* when drives were replaced during a reset caused by another device.
DeliversOwnData ==
    pc = "deliver" =>
        bounce = [by |-> "read", port |-> req.dev, drive |-> drv.table[req.dev],
                  full |-> TRUE]

\* What the interrupt handler records for a command comes from that command:
\* if it says complete while the driver waits, the slot is free.
NoPhantomCompletion ==
    pc = "wait" /\ req.useIrq /\ IrqObserve(irq, req.gen) = "complete" =>
        hba.cmd[drv.port] = "none"

\* Between two reads a driver that still offers its devices can serve the
\* next one: the port of the active device runs, its slot is free, and neither
\* the recovery nor the interrupt state of the last read is left behind.
ReadyBetweenReads ==
    pc = "idle" =>
        /\ drv.present /\ drv.pages /\ drv.mmio
        /\ drv.active = drv.port /\ drv.valid[drv.active] = drv.gen
        /\ CanDma(hba, drv.port) /\ hba.cmd[drv.port] = "none"
        /\ recov = "none" /\ ~irq.active
        /\ irq.enabled => hba.ie[drv.port] /\ hba.gie

\* Every call of ahci_init and ahci_block_read returns, whatever the
\* controller does: the recovery tries each kind of reset once.
EveryCallReturns == [](pc \notin {"idle", "off"} => <>(pc \in {"idle", "off"}))

=============================================================================
