-------------------------------- MODULE Apic --------------------------------
(***************************************************************************)
(* cpu/apic.c: taking the local APIC and the I/O APICs over from the       *)
(* firmware, routing single lines, calibrating the local timer, and giving *)
(* everything back when a step fails.  Every function runs with interrupts *)
(* off, so each is an operator on a record                                 *)
(*   regs   the hardware registers                                         *)
(*   stuck  the registers that ignore writes (the fault that the           *)
(*          read-backs of the driver look for)                             *)
(*   drv    the static variables of the driver                             *)
(*   ok     whether every read-back of apic_init so far agreed.            *)
(*                                                                         *)
(* A register holds a mask bit and a number: a vector, a destination, a    *)
(* count, or Firmware for whatever was there before.                       *)
(***************************************************************************)
EXTENDS Integers, Sequences, FiniteSetsExt, SequencesExt

CONSTANTS
  SupportedIrqs,   \* SUPPORTED_IRQ_BITMAP
  MaxIoApics,      \* ACPI_MAX_IO_APICS
  Pins             \* <<i, k>>: entry k of the i-th I/O APIC

Firmware == -1
Nmi == -2          \* a LINT entry with delivery mode NMI
IrqBase == 32
TimerVector == 50
SpuriousVector == 255
CpuId == 1
DivideBy16 == 16
Measured == 1000   \* what the calibration finds

Low(pin) == <<"low", pin>>
High(pin) == <<"high", pin>>
Local(name) == <<"local", name>>

LocalNames == {"tpr", "spurious", "timer", "lint0", "lint1", "error", "count", "divide"}
Registers ==
  {Low(p) : p \in Pins} \cup {High(p) : p \in Pins} \cup {Local(n) : n \in LocalNames}

Value(masked, number) == [masked |-> masked, number |-> number]
Masked(value) == [value EXCEPT !.masked = TRUE]

Write(s, r, value) ==
  IF r \in s.stuck THEN s ELSE [s EXCEPT !.regs[r] = value]

(* One write after the other. *)
WriteAll(s, writes) == FoldLeft(LAMBDA t, w : Write(t, w[1], w[2]), s, writes)

Idle ==
  [initialized |-> FALSE, available |-> FALSE, ios |-> <<>>, saved |-> <<>>,
   localSaved |-> <<>>, enabled |-> {}, timer |-> FALSE]

-----------------------------------------------------------------------------
(* initialize_local_apic.  madt.local stands for its checks on the CPU,    *)
(* the base register, the version and the APIC id.                         *)
ConfiguredLint(value) == [value EXCEPT !.masked = (value.number # Nmi)]

TakeLocal(s) ==
  LET saved == [n \in LocalNames |-> s.regs[Local(n)]]
  IN  WriteAll([s EXCEPT !.drv.localSaved = saved],
        << <<Local("tpr"), Value(FALSE, 0)>>,
           <<Local("timer"), Masked(saved["timer"])>>,
           <<Local("count"), Value(FALSE, 0)>>,
           <<Local("lint0"), ConfiguredLint(saved["lint0"])>>,
           <<Local("lint1"), ConfiguredLint(saved["lint1"])>>,
           <<Local("error"), Masked(saved["error"])>>,
           <<Local("spurious"), Value(FALSE, SpuriousVector)>> >>)

LocalTaken(s) ==
  /\ s.regs[Local("tpr")].number = 0
  /\ s.regs[Local("spurious")] = Value(FALSE, SpuriousVector)

(* map_and_mask_io_apic: each entry is saved, then masked; the first one   *)
(* that does not read back as masked ends it.  io.valid stands for the     *)
(* checks on its address, id and version.                                  *)
TakeEntry(s, pin) ==
  LET kept == [s EXCEPT !.drv.saved = Append(@, <<pin, s.regs[Low(pin)], s.regs[High(pin)]>>)]
      done == Write(kept, Low(pin), Masked(s.regs[Low(pin)]))
  IN  IF s.ok THEN [done EXCEPT !.ok = done.regs[Low(pin)].masked] ELSE s

TakeIoApic(s, io) ==
  LET pins == [k \in 1 .. io.count |-> <<Len(s.drv.ios) + 1, k - 1>>]
  IN  IF s.ok /\ io.valid
      THEN FoldLeft(TakeEntry, [s EXCEPT !.drv.ios = Append(@, io)], pins)
      ELSE [s EXCEPT !.ok = FALSE]

(* io_apic_ranges_valid. *)
RangesValid(ios) ==
  \A i, j \in 1 .. Len(ios) : i < j =>
    \/ ios[i].base > ios[j].base + ios[j].count - 1
    \/ ios[j].base > ios[i].base + ios[i].count - 1

(* Mutant of RestoreEntries: only the entries of the lines that were       *)
(* routed are given back.                                                  *)
RestoreEntriesRouted(s) ==
  LET routed == SelectSeq(s.drv.saved, LAMBDA e : ~s.regs[Low(e[1])].masked)
  IN  FoldLeft(LAMBDA t, e : WriteAll(t, << <<Low(e[1]), Masked(e[2])>>,
                                            <<High(e[1]), e[3]>>,
                                            <<Low(e[1]), e[2]>> >>), s, routed)

(* restore_io_apics. *)
RestoreEntries(s) ==
  FoldLeft(LAMBDA t, e : WriteAll(t, << <<Low(e[1]), Masked(e[2])>>,
                                        <<High(e[1]), e[3]>>,
                                        <<Low(e[1]), e[2]>> >>), s, s.drv.saved)

(* apic_shutdown. *)
RestoreLocal(s) ==
  IF s.drv.localSaved = <<>> THEN s
  ELSE WriteAll(s,
        << <<Local("timer"), Masked(s.regs[Local("timer")])>>,
           <<Local("count"), Value(FALSE, 0)>>,
           <<Local("divide"), s.drv.localSaved["divide"]>>,
           <<Local("timer"), s.drv.localSaved["timer"]>>,
           <<Local("count"), s.drv.localSaved["count"]>>,
           <<Local("lint0"), s.drv.localSaved["lint0"]>>,
           <<Local("lint1"), s.drv.localSaved["lint1"]>>,
           <<Local("error"), s.drv.localSaved["error"]>>,
           <<Local("tpr"), s.drv.localSaved["tpr"]>>,
           <<Local("spurious"), s.drv.localSaved["spurious"]>> >>)

apic_shutdown(s) ==
  [RestoreLocal(RestoreEntries(s)) EXCEPT
     !.drv = [Idle EXCEPT !.initialized = s.drv.initialized]]

(* apic_init; its result is drv.available. *)
apic_init(s, madt) ==
  LET begun == [s EXCEPT !.drv = [Idle EXCEPT !.initialized = TRUE], !.ok = TRUE]
      local == TakeLocal(begun)
      taken == FoldLeft(TakeIoApic, local, madt.ios)
  IN  IF s.drv.initialized THEN s
      ELSE IF madt.ios = <<>> \/ Len(madt.ios) > MaxIoApics \/ ~madt.local
           THEN apic_shutdown(begun)
      ELSE IF ~LocalTaken(local) THEN apic_shutdown(local)
      ELSE IF ~taken.ok \/ ~RangesValid(taken.drv.ios) THEN apic_shutdown(taken)
      ELSE [taken EXCEPT !.drv.available = TRUE]

-----------------------------------------------------------------------------
(* apic_enable_irq.  An entry is written masked, aimed at this CPU, opened *)
(* and read back; a mismatch closes it again.                              *)
Covering(s, gsi) ==
  {i \in 1 .. Len(s.drv.ios) :
     s.drv.ios[i].base <= gsi /\ gsi < s.drv.ios[i].base + s.drv.ios[i].count}

(* io_apic_for_gsi. *)
PinOf(s, gsi) == LET i == Min(Covering(s, gsi)) IN <<i, gsi - s.drv.ios[i].base>>

RouteWrites(s, irq, pin) ==
  WriteAll(s, << <<Low(pin), Value(TRUE, IrqBase + irq)>>,
                 <<High(pin), Value(FALSE, CpuId)>>,
                 <<Low(pin), Value(FALSE, IrqBase + irq)>> >>)

RouteReadsBack(s, irq, pin) ==
  /\ s.regs[Low(pin)] = Value(FALSE, IrqBase + irq)
  /\ s.regs[High(pin)].number = CpuId

CanRoute(s, irq, madt) ==
  s.drv.available /\ irq \in SupportedIrqs /\ Covering(s, madt.gsi[irq]) # {}

apic_enable_irq(s, irq, madt) ==
  LET pin    == PinOf(s, madt.gsi[irq])
      routed == RouteWrites(s, irq, pin)
  IN  IF ~CanRoute(s, irq, madt) THEN s
      ELSE IF RouteReadsBack(routed, irq, pin)
           THEN [routed EXCEPT !.drv.enabled = @ \cup {irq}]
      ELSE Write(routed, Low(pin), Value(TRUE, IrqBase + irq))

apic_irq_enabled(s, irq, madt) ==
  /\ s.drv.available
  /\ irq \in s.drv.enabled
  /\ s.regs[Low(PinOf(s, madt.gsi[irq]))] = Value(FALSE, IrqBase + irq)

(* apic_timer_init, with a clock to calibrate against (hpet) and a         *)
(* calibration that ends in time with a usable count (calibrated).         *)
CountDown(s) ==
  WriteAll(s, << <<Local("timer"), Value(TRUE, TimerVector)>>,
                 <<Local("divide"), Value(FALSE, DivideBy16)>>,
                 <<Local("count"), Value(FALSE, 1)>>,
                 <<Local("count"), Value(FALSE, 0)>> >>)

StartTimer(s) ==
  WriteAll(s, << <<Local("timer"), Value(TRUE, TimerVector)>>,
                 <<Local("divide"), Value(FALSE, DivideBy16)>>,
                 <<Local("count"), Value(FALSE, Measured)>>,
                 <<Local("timer"), Value(FALSE, TimerVector)>> >>)

TimerReadsBack(s) ==
  /\ s.regs[Local("timer")] = Value(FALSE, TimerVector)
  /\ s.regs[Local("divide")].number = DivideBy16
  /\ s.regs[Local("count")].number = Measured

StopTimer(s) ==
  WriteAll(s, << <<Local("timer"), Value(TRUE, TimerVector)>>,
                 <<Local("count"), Value(FALSE, 0)>>,
                 <<Local("divide"), s.drv.localSaved["divide"]>> >>)

apic_timer_init(s, hpet, calibrated) ==
  LET counted == CountDown(s)
      started == StartTimer(counted)
  IN  IF s.drv.timer \/ ~s.drv.available \/ ~hpet THEN s
      ELSE IF ~calibrated
           THEN WriteAll(counted, << <<Local("timer"), Masked(s.drv.localSaved["timer"])>>,
                                     <<Local("divide"), s.drv.localSaved["divide"]>> >>)
      ELSE IF TimerReadsBack(started) THEN [started EXCEPT !.drv.timer = TRUE]
      ELSE StopTimer(started)

=============================================================================
