----------------------------- MODULE Interrupts -----------------------------
(***************************************************************************)
(* cpu/idt.c and the part of kernel/kernel.c around it: the two 8259 PICs, *)
(* the hand-over to the APICs, the message-signalled interrupt of the AHCI *)
(* controller, the choice of the tick source, the dispatch of vectors, and *)
(* the event loop that sleeps until an interrupt brings work.  The kernel  *)
(* boots through the steps of kernel_main and then runs the event loop,    *)
(* while devices raise their lines at any time.                            *)
(*                                                                         *)
(* Gates clear IF, so a handler is one step.  In the boot sequence IF is   *)
(* on only in the windows around the disk self-tests.                      *)
(***************************************************************************)
EXTENDS Apic, PciMsi, Keyboard, TLC

CONSTANTS
  Worlds,        \* the machines to boot on, see MCInterrupts
  Keys,          \* the keys that are pressed
  MaxPresses,    \* how many presses and releases there are
  MaxQueue,      \* bytes the keyboard keeps for the port
  Batch          \* characters kernel_process_events takes at most

VARIABLES
  world,     \* the machine: tables, disks, faults
  pc,        \* where kernel_main is
  intr,      \* the interrupt flag
  routing,   \* apic_routing
  pic,       \* [mask, irr, isr] of both PICs
  lapic,     \* [irr, isr] of the local APIC
  apic,      \* registers and driver, see Apic
  msi,       \* registers and saved state, see PciMsi
  hba,       \* the AHCI controller raises interrupts
  panic,     \* why kernel_panic was called, or ""
  tick,      \* pit_ticks() differs from last_game_tick
  loop,      \* where kernel_event_task is
  taken,     \* characters taken in this pass
  hand,      \* the character being taken
  got,       \* the characters given to the shell
  kbd,       \* the keyboard driver, see Keyboard
  port       \* the keyboard: [held, caps, queue, full, typed, presses]

devices == <<pic, lapic, apic, msi, hba>>
console == <<tick, loop, taken, hand, got, kbd, port>>
vars == <<world, pc, intr, routing, devices, panic, console>>

Lines == {0, 1, 14}
Cascade == 2
AllMasked == Lines \cup {Cascade}

(* What the firmware leaves in the registers of the APICs. *)
FirmwareRegisters ==
  [r \in Registers |->
     CASE r = Local("tpr")   -> Value(FALSE, 0)
       [] r = Local("lint0") -> Value(FALSE, Firmware)
       [] r = Local("lint1") -> Value(FALSE, Nmi)
       [] r = Local("count") -> Value(FALSE, 0)
       [] r = Low(<<1, 0>>)  -> Value(FALSE, Firmware)
       [] OTHER              -> Value(TRUE, Firmware)]

Init ==
  /\ world \in Worlds
  /\ pc = "idt" /\ intr = FALSE /\ routing = FALSE /\ panic = ""
  /\ pic = [mask |-> {}, irr |-> {}, isr |-> {}]
  /\ lapic = [irr |-> {}, isr |-> {}]
  /\ apic = [regs |-> FirmwareRegisters, stuck |-> world.stuck, drv |-> Idle, ok |-> TRUE]
  /\ msi = [regs |-> world.msi, saved |-> [valid |-> FALSE, regs |-> world.msi],
            lost |-> world.lost, writes |-> 0, ok |-> FALSE]
  /\ hba = FALSE
  /\ tick = FALSE /\ loop = "wait" /\ taken = 0 /\ hand = <<>> /\ got = <<>>
  /\ kbd = keyboard_init
  /\ port = [held |-> {}, caps |-> FALSE, queue |-> <<>>, full |-> FALSE,
             typed |-> <<>>, presses |-> 0]

Alive == panic = ""

-----------------------------------------------------------------------------
(* The lines and the controllers behind them (external). *)
PicReaches == ~apic.regs[Local("lint0")].masked
LapicOn == apic.regs[Local("spurious")] = Value(FALSE, SpuriousVector)

(* The pins a line is wired to. *)
Wired(irq) ==
  {<<i, k>> \in Pins : i <= Len(world.madt.ios) /\ world.madt.ios[i].base + k = world.madt.gsi[irq]}

Opened(irq) ==
  {p \in Wired(irq) : ~apic.regs[Low(p)].masked /\ apic.regs[High(p)].number = CpuId}

(* An edge: the PIC latches it, masked or not; an I/O APIC entry passes it *)
(* on when it is open and forgets it otherwise.                            *)
Edge(irq) ==
  /\ pic' = [pic EXCEPT !.irr = @ \cup {irq}]
  /\ lapic' = [lapic EXCEPT !.irr = @ \cup
       (IF LapicOn THEN {apic.regs[Low(p)].number : p \in Opened(irq)} ELSE {})]

RaiseLine ==
  /\ \E irq \in {0} \cup (IF world.ata THEN {14} ELSE {}) : Edge(irq)
  /\ UNCHANGED <<world, pc, intr, routing, apic, msi, hba, panic, console>>

RaiseTimer ==
  /\ apic.regs[Local("timer")] = Value(FALSE, TimerVector)
  /\ apic.regs[Local("count")].number > 0
  /\ lapic' = [lapic EXCEPT !.irr = @ \cup {TimerVector}]
  /\ UNCHANGED <<world, pc, intr, routing, pic, apic, msi, hba, panic, console>>

RaiseMessage ==
  /\ hba /\ LapicOn
  /\ msi.regs["control"].enable /\ msi.regs["mask"] = 0
  /\ msi.regs["address"] = LapicAddress
  /\ lapic' = [lapic EXCEPT !.irr = @ \cup {msi.regs["data"]}]
  /\ UNCHANGED <<world, pc, intr, routing, pic, apic, msi, hba, panic, console>>

(* Someone presses or releases a key. *)
HasCharacter(key) == key \in Letters
Shifted == LeftShift \in port.held \/ RightShift \in port.held
Meta == port.held \cap {Control, Alt, "right_control", "right_alt"} # {}

Press(key) ==
  /\ key \notin port.held
  /\ port' = [port EXCEPT
       !.held = @ \cup {key},
       !.caps = IF key = CapsLock THEN ~@ ELSE @,
       !.queue = @ \o PressBytes(key, port.held),
       !.typed = IF HasCharacter(key) /\ ~Meta
                 THEN Append(@, <<key, Shifted # (port.caps /\ key \in Letters)>>) ELSE @,
       !.presses = @ + 1]

Release(key) ==
  /\ key \in port.held
  /\ port' = [port EXCEPT !.held = @ \ {key},
                          !.queue = @ \o ReleaseBytes(key, port.held),
                          !.presses = @ + 1]

UseKey ==
  /\ pc = "run" /\ world.typing
  /\ port.presses < MaxPresses /\ Len(port.queue) < MaxQueue
  /\ \E key \in Keys : Press(key) \/ Release(key)
  /\ UNCHANGED <<world, pc, intr, routing, devices, panic, tick, loop, taken, hand, got, kbd>>

(* The keyboard controller offers the next byte at port 0x60. *)
Present ==
  /\ port.queue # <<>> /\ ~port.full
  /\ port' = [port EXCEPT !.full = TRUE]
  /\ Edge(1)
  /\ UNCHANGED <<world, pc, intr, routing, apic, msi, hba, panic, tick, loop, taken, hand, got, kbd>>

-----------------------------------------------------------------------------
(* End of interrupt.  A non-specific EOI ends the service of the highest   *)
(* priority that is in service.                                            *)
EoiOf(p, side) ==
  LET busy == p.isr \cap side
  IN  IF busy = {} THEN p ELSE [p EXCEPT !.isr = @ \ {Min(busy)}]
EoiMaster(p) == EoiOf(p, 0 .. 7)
EoiSlave(p) == EoiOf(p, 8 .. 15)

pic_acknowledge(p, irq) == EoiMaster(IF irq >= 8 THEN EoiSlave(p) ELSE p)

apic_acknowledge(l) ==
  IF apic.drv.available /\ l.isr # {} THEN [l EXCEPT !.isr = @ \ {Max(@)}] ELSE l

(* irq_is_spurious: whether it is, and the PIC it leaves. *)
irq_is_spurious(p, irq) == irq \in {7, 15} /\ irq \notin p.isr

(* Mutant of SpuriousEnds: a spurious line of the slave is just ignored. *)
SpuriousEndsSilently(p, irq) == p

SpuriousEnds(p, irq) == IF irq = 15 THEN EoiMaster(p) ELSE p

(* The handlers of the lines.  ata_irq_handler belongs to module Ata.      *)
ReadPort ==
  /\ kbd' = keyboard_irq_handler(kbd, Head(port.queue))
  /\ port' = [port EXCEPT !.queue = Tail(@), !.full = FALSE]

Handle(irq) ==
  /\ tick' = (tick \/ irq = 0)
  /\ IF irq = 1 /\ port.full THEN ReadPort ELSE UNCHANGED <<kbd, port>>

handle_irq(irq, p, l) ==
  IF ~routing /\ irq_is_spurious(p, irq)
  THEN pic' = SpuriousEnds(p, irq) /\ lapic' = l /\ UNCHANGED <<tick, kbd, port>>
  ELSE /\ Handle(irq)
       /\ pic' = IF routing THEN p ELSE pic_acknowledge(p, irq)
       /\ lapic' = IF routing THEN apic_acknowledge(l) ELSE l

idt_uses_apic == routing /\ apic.drv.available
idt_uses_apic_timer == idt_uses_apic /\ apic.drv.timer

(* interrupt_dispatch for the vectors that hardware can raise, with the    *)
(* controllers in the state in which the CPU took the vector.              *)
Known(v) ==
  \/ v \in IrqBase .. IrqBase + 15
  \/ v = TimerVector /\ idt_uses_apic_timer
  \/ v \in {MsiVector, SpuriousVector} /\ routing

interrupt_dispatch(v, p, l) ==
  /\ IF v \in IrqBase .. IrqBase + 15 THEN handle_irq(v - IrqBase, p, l)
     ELSE /\ pic' = p
          /\ lapic' = IF Known(v) /\ v # SpuriousVector THEN apic_acknowledge(l) ELSE l
          /\ tick' = (tick \/ (Known(v) /\ v = TimerVector))
          /\ UNCHANGED <<kbd, port>>
  /\ panic' = IF Known(v) THEN panic ELSE "vector"
  /\ loop' = IF loop = "halted" THEN "process" ELSE loop
  /\ UNCHANGED <<world, pc, intr, routing, apic, msi, hba, taken, hand, got>>

(* The CPU takes a vector (external): from the local APIC, ... *)
TakeLapic ==
  /\ Alive /\ intr /\ lapic.irr # {} /\ lapic.isr = {}
  /\ LET v == Max(lapic.irr)
     IN  interrupt_dispatch(v, pic, [irr |-> lapic.irr \ {v}, isr |-> {v}])

(* ... from the PICs, which ask for the line that comes before all others  *)
(* that wait and all that are in service, ...                              *)
Order(irq) == IF irq >= 8 THEN Cascade ELSE irq
Asking ==
  {irq \in pic.irr \ pic.mask :
     /\ irq >= 8 => Cascade \notin pic.mask
     /\ \A busy \in pic.isr : Order(irq) < Order(busy)}

TakePic ==
  /\ Alive /\ intr /\ PicReaches
  /\ \E irq \in Asking :
       /\ \A other \in Asking : Order(irq) <= Order(other)
       /\ interrupt_dispatch(IrqBase + irq,
            [pic EXCEPT !.irr = @ \ {irq},
                        !.isr = @ \cup {irq} \cup (IF irq >= 8 THEN {Cascade} ELSE {})],
            lapic)

(* ... or a vector whose cause has gone away in the meantime. *)
TakeSpurious ==
  /\ Alive /\ intr
  /\ \/ /\ PicReaches /\ pic.isr = {} /\ pic.mask # AllMasked
        /\ interrupt_dispatch(IrqBase + 7, pic, lapic)
     \/ /\ PicReaches /\ pic.isr = {} /\ Cascade \notin pic.mask
        /\ interrupt_dispatch(IrqBase + 15, [pic EXCEPT !.isr = {Cascade}], lapic)
     \/ /\ LapicOn
        /\ interrupt_dispatch(SpuriousVector, pic, lapic)

-----------------------------------------------------------------------------
(* The boot sequence of kernel_main. *)
Boot(from) == Alive /\ pc = from

(* Initialization resets the PICs, and masks every line. *)
pic_remap == [mask |-> AllMasked, irr |-> {}, isr |-> {}]

idt_init ==
  /\ Boot("idt")
  /\ pic' = pic_remap
  /\ routing' = FALSE
  /\ pc' = "ata"
  /\ UNCHANGED <<world, intr, lapic, apic, msi, hba, panic, console>>

(* idt_enable_irq_line; the kernel panics when it returns 0. *)
idt_enable_irq_line(irq) ==
  /\ IF routing
     THEN apic' = apic_enable_irq(apic, irq, world.madt) /\ UNCHANGED pic
     ELSE /\ pic' = [pic EXCEPT !.mask = @ \ ({irq} \cup (IF irq >= 8 THEN {Cascade} ELSE {}))]
          /\ UNCHANGED apic
  /\ panic' = IF routing /\ ~apic_irq_enabled(apic', irq, world.madt) THEN "line" ELSE panic

AtaSelfTest ==
  /\ Boot("ata")
  /\ IF world.ata
     THEN idt_enable_irq_line(14) /\ intr' = TRUE /\ pc' = "ata_window"
     ELSE pc' = "acpi" /\ UNCHANGED <<pic, apic, panic, intr>>
  /\ UNCHANGED <<world, routing, lapic, msi, hba, console>>

WindowEnds ==
  /\ Alive /\ pc \in {"ata_window", "ahci_window"}
  /\ intr' = FALSE
  /\ pc' = IF pc = "ata_window" THEN "acpi" ELSE "keyboard"
  /\ UNCHANGED <<world, routing, devices, panic, console>>

(* Mutant of idt_enable_apic_routing: the PICs keep their masks. *)
idt_enable_apic_routingKeepsPic ==
  LET lines  == {irq \in Lines : irq \notin pic.mask}
      begun  == apic_init(apic, world.madt)
      routed == FoldSet(LAMBDA irq, s : apic_enable_irq(s, irq, world.madt), begun, lines)
      done   == begun.drv.available /\ lines \subseteq routed.drv.enabled
  IN  /\ apic' = IF begun.drv.available /\ ~done THEN apic_shutdown(routed) ELSE routed
      /\ UNCHANGED pic
      /\ routing' = done

(* idt_enable_apic_routing: the enabled lines are routed one by one; the   *)
(* first that fails gives everything back, and the PICs stay in use.       *)
idt_enable_apic_routing ==
  LET lines  == {irq \in Lines : irq \notin pic.mask}
      begun  == apic_init(apic, world.madt)
      routed == FoldSet(LAMBDA irq, s : apic_enable_irq(s, irq, world.madt), begun, lines)
      done   == begun.drv.available /\ lines \subseteq routed.drv.enabled
  IN  /\ apic' = IF begun.drv.available /\ ~done THEN apic_shutdown(routed) ELSE routed
      /\ pic' = IF done THEN [pic EXCEPT !.mask = AllMasked] ELSE pic
      /\ routing' = done

AcpiRouting ==
  /\ Boot("acpi")
  /\ IF world.madt.present THEN idt_enable_apic_routing ELSE UNCHANGED <<apic, pic, routing>>
  /\ pc' = "ahci"
  /\ UNCHANGED <<world, intr, lapic, msi, hba, panic, console>>

(* ahci_init and ahci_enable_irq_mode; enable_hba_interrupts works or not. *)
ahci_enable_irq_mode ==
  LET done == pci_enable_ahci_msi(msi, world.layout, world.list)
  IN  IF done.ok /\ ~world.hbaWorks
      THEN hba' = FALSE /\ msi' = pci_disable_ahci_msi(done, world.layout)
      ELSE hba' = done.ok /\ msi' = done

AhciSelfTest ==
  /\ Boot("ahci")
  /\ IF world.ahci /\ idt_uses_apic THEN ahci_enable_irq_mode ELSE UNCHANGED <<msi, hba>>
  /\ intr' = world.ahci
  /\ pc' = IF world.ahci THEN "ahci_window" ELSE "keyboard"
  /\ UNCHANGED <<world, routing, pic, lapic, apic, panic, console>>

KeyboardOn ==
  /\ Boot("keyboard")
  /\ idt_enable_irq_line(1)
  /\ kbd' = keyboard_init
  /\ pc' = "timer"
  /\ UNCHANGED <<world, intr, routing, lapic, msi, hba, tick, loop, taken, hand, got, port>>

(* The local timer when it can be had, else the PIT line; then the first   *)
(* task starts with interrupts on.                                         *)
TimerOn ==
  /\ Boot("timer")
  /\ LET tried == apic_timer_init(apic, world.hpet, world.calibrates)
     IN  \/ /\ idt_uses_apic /\ tried.drv.timer
            /\ apic' = tried /\ UNCHANGED <<pic, panic>>
         \/ /\ idt_uses_apic /\ ~tried.drv.timer
            /\ apic' = apic_enable_irq(tried, 0, world.madt)
            /\ panic' = IF apic_irq_enabled(apic', 0, world.madt) THEN panic ELSE "line"
            /\ UNCHANGED pic
         \/ ~idt_uses_apic /\ idt_enable_irq_line(0)
  /\ intr' = TRUE /\ pc' = "run"
  /\ UNCHANGED <<world, routing, lapic, msi, hba, console>>

-----------------------------------------------------------------------------
(* kernel_event_task: kernel_wait_for_work and kernel_process_events. *)
Loop(from, to) == Alive /\ pc = "run" /\ loop = from /\ loop' = to

(* Mutant of kernel_work_pending: only ticks count as work. *)
kernel_work_pendingTicks == tick

kernel_work_pending == keyboard_has_pending(kbd) \/ tick

(* Mutant of WaitForWork: the test is made with interrupts on. *)
WaitForWorkOpen ==
  /\ Loop("wait", "check")
  /\ UNCHANGED <<world, pc, intr, routing, devices, panic, tick, taken, hand, got, kbd, port>>

WaitForWork ==
  /\ Loop("wait", "check")
  /\ intr' = FALSE
  /\ UNCHANGED <<world, pc, routing, devices, panic, tick, taken, hand, got, kbd, port>>

FindWork ==
  /\ kernel_work_pending
  /\ Loop("check", "process")
  /\ intr' = TRUE
  /\ UNCHANGED <<world, pc, routing, devices, panic, tick, taken, hand, got, kbd, port>>

FindNone ==
  /\ ~kernel_work_pending
  /\ Loop("check", "sleep")
  /\ UNCHANGED <<world, pc, intr, routing, devices, panic, tick, taken, hand, got, kbd, port>>

(* sti; hlt: no interrupt comes between the two. *)
Sleep ==
  /\ Loop("sleep", "halted")
  /\ intr' = TRUE
  /\ UNCHANGED <<world, pc, routing, devices, panic, tick, taken, hand, got, kbd, port>>

(* keyboard_read_char, the load ... *)
ReadCharacter ==
  /\ taken < Batch /\ keyboard_has_pending(kbd)
  /\ Loop("process", "took")
  /\ hand' = FirstCharacter(kbd)
  /\ UNCHANGED <<world, pc, intr, routing, devices, panic, tick, taken, got, kbd, port>>

(* ... and the store of the tail; the shell gets the character. *)
HandleCharacter ==
  /\ Loop("took", "process")
  /\ kbd' = AdvanceTail(kbd)
  /\ got' = Append(got, hand)
  /\ hand' = <<>>
  /\ taken' = taken + 1
  /\ UNCHANGED <<world, pc, intr, routing, devices, panic, tick, port>>

GamesTick ==
  /\ taken = Batch \/ ~keyboard_has_pending(kbd)
  /\ Loop("process", "wait")
  /\ tick' = FALSE
  /\ taken' = 0
  /\ UNCHANGED <<world, pc, intr, routing, devices, panic, hand, got, kbd, port>>

EventLoop ==
  WaitForWork \/ FindWork \/ FindNone \/ Sleep \/ ReadCharacter \/ HandleCharacter \/ GamesTick

BootStep ==
  \/ idt_init \/ AtaSelfTest \/ WindowEnds \/ AcpiRouting \/ AhciSelfTest
  \/ KeyboardOn \/ TimerOn

Interrupt == TakeLapic \/ TakePic \/ TakeSpurious
Hardware == RaiseLine \/ RaiseTimer \/ RaiseMessage \/ UseKey \/ Present

Next == BootStep \/ EventLoop \/ Interrupt \/ Hardware

(* The CPU runs on and the keyboard sends what it has.  An interrupt that  *)
(* can be taken is taken before the next instruction, so the keyboard is   *)
(* served if it can be again and again.                                    *)
TakeKey == (TakeLapic \/ TakePic) /\ ~port'.full

Fairness ==
  WF_vars(EventLoop) /\ WF_vars(Present) /\ SF_vars(port.full /\ TakeKey)

Spec == Init /\ [][Next]_vars /\ Fairness

-----------------------------------------------------------------------------
(* Ways for a line to reach the CPU. *)
PicWay(irq) ==
  /\ PicReaches
  /\ irq \notin pic.mask
  /\ irq >= 8 => Cascade \notin pic.mask
ApicWay(irq) == LapicOn /\ \E p \in Opened(irq) : TRUE
TimerWay == apic.regs[Local("timer")] = Value(FALSE, TimerVector) /\ LapicOn

(* The lines whose drivers are ready, and the source of the tick. *)
Ready ==
  (IF world.ata /\ pc \notin {"idt", "ata"} THEN {14} ELSE {})
    \cup (IF pc \in {"timer", "run"} THEN {1} ELSE {})
    \cup (IF pc = "run" /\ ~idt_uses_apic_timer THEN {0} ELSE {})

(* Every line whose driver is ready reaches the CPU by exactly one of the  *)
(* two controllers, every other line by none, and time comes from one      *)
(* source: through the hand-over of idt_enable_apic_routing, its failures  *)
(* half way, and registers that ignore the driver.                         *)
OneWayIn ==
  Alive /\ pc # "idt" =>
    /\ \A irq \in Lines :
         IF irq \in Ready THEN PicWay(irq) # ApicWay(irq) ELSE ~PicWay(irq) /\ ~ApicWay(irq)
    /\ TimerWay <=> idt_uses_apic_timer

(* Whatever comes, and from whichever controller, interrupt_dispatch knows *)
(* the vector and ends its service: nothing stays in service that would    *)
(* hold back the lines behind it.                                          *)
EveryVectorIsEnded == panic # "vector" /\ pic.isr = {} /\ lapic.isr = {}

(* When apic_init or the routing of a line fails, apic_shutdown leaves     *)
(* every register of the local APIC and the I/O APICs as the firmware had  *)
(* it.                                                                     *)
FirmwareRestored ==
  apic.drv.initialized /\ ~apic.drv.available => apic.regs = FirmwareRegisters

(* pci_msi_program is a transaction: done, and the device sends our vector *)
(* to our CPU; undone, and the registers are the firmware's; and with a    *)
(* rollback that failed too, a device that is still enabled sends one of   *)
(* the two messages and no mixture.                                        *)
Ours == <<LapicAddress, MsiVector>>
Message == <<msi.regs["address"], msi.regs["data"]>>
MsiIsTransactional ==
  /\ hba => Message = Ours /\ msi.regs["control"].enable
  /\ ~msi.saved.valid => msi.regs = world.msi
  /\ msi.regs["control"].enable => Message \in {Ours, <<world.msi["address"], world.msi["data"]>>}

(* kernel_wait_for_work never halts the CPU on pending work: a key or a    *)
(* tick that arrives between the test and the hlt is not slept through.    *)
NoSleepWithWork == loop = "halted" => ~kernel_work_pending

(* The shell gets the characters that were typed, in order and with the    *)
(* shift they were typed with; the ones missing are the dropped ones that  *)
(* the driver counts.                                                      *)
Received ==
  got \o IF loop = "took" THEN <<hand>> \o Tail(Waiting(kbd)) ELSE Waiting(kbd)

Within(s, t) ==
  \E f \in [1 .. Len(s) -> 1 .. Len(t)] :
    /\ \A i, j \in 1 .. Len(s) : i < j => f[i] < f[j]
    /\ \A i \in 1 .. Len(s) : s[i] = t[f[i]]

KeysInOrder ==
  /\ Within(Received, port.typed)
  /\ port.queue = <<>> => Len(Received) + kbd.dropped = Len(port.typed)

(* No key is left behind: if ticks leave the CPU time for other            *)
(* interrupts, then again and again the keyboard and the ring are empty.   *)
TickPending == 0 \in pic.irr \/ TimerVector \in lapic.irr \/ IrqBase \in lapic.irr
KeysAreServed ==
  []<>(intr /\ ~TickPending) => []<>(~Alive \/ (port.queue = <<>> /\ Waiting(kbd) = <<>>))

=============================================================================
