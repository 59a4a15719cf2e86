------------------------------- MODULE PciMsi -------------------------------
(***************************************************************************)
(* drivers/pci_msi.c and its use by drivers/pci.c: finding the MSI         *)
(* capability of the AHCI controller, programming it as a transaction of   *)
(* read-back writes, and giving it back.  Every function runs with         *)
(* interrupts off and is an operator on a record                           *)
(*   regs     the five MSI registers of the function                       *)
(*   saved    ahci_msi_state: the registers before, if valid               *)
(*   lost     numbers of the coming writes that the device will ignore     *)
(*   writes   the writes made so far                                       *)
(*   ok       whether every read-back of the current call agreed.          *)
(***************************************************************************)
EXTENDS Integers, Sequences, SequencesExt

CONSTANTS
  CapabilitySlots,   \* offsets a capability may have
  MaximumNodes       \* PCI_CAPABILITY_MAXIMUM_NODES

MsiVector == 51
LapicAddress == 1    \* PCI_XAPIC_MESSAGE_BASE with the APIC id
MsiFirmware == -1    \* what the firmware left in a register

(* What a walk along the capability list meets: the list itself is         *)
(*   [present, first, next, msi, sound], with next[slot] = 0 at the end;   *)
(* msi are the slots of MSI capabilities, sound the ones of them that      *)
(* parse_msi_capability accepts.  seen is the slots in the order visited.  *)
WalkStep(list, seen) ==
  LET here == IF seen = <<>> THEN list.first ELSE list.next[Last(seen)]
  IN  IF \/ here \notin CapabilitySlots
         \/ here \in Range(seen)
         \/ seen # <<>> /\ Last(seen) \in list.msi
      THEN seen
      ELSE Append(seen, here)

Walk(list) ==
  FoldLeft(LAMBDA seen, k : WalkStep(list, seen), <<>>, [k \in 1 .. MaximumNodes |-> k])

(* pci_msi_parse_layout finds a capability. *)
MsiFound(list) ==
  /\ list.present
  /\ Walk(list) # <<>>
  /\ Last(Walk(list)) \in list.msi \cap list.sound

-----------------------------------------------------------------------------
(* Registers that the layout of the capability has. *)
Has(layout, r) ==
  CASE r = "mask"  -> layout.perVectorMasking
    [] r = "upper" -> layout.is64Bit
    [] OTHER       -> TRUE

Off(control) == [control EXCEPT !.enable = FALSE, !.messages = 0]
On(control) == [control EXCEPT !.enable = TRUE, !.messages = 0]

(* A write and its read-back. *)
Put(m, r, value) ==
  LET n    == m.writes + 1
      regs == IF n \in m.lost THEN m.regs ELSE [m.regs EXCEPT ![r] = value]
  IN  [m EXCEPT !.writes = n, !.regs = regs, !.ok = @ /\ regs[r] = value]

(* pci_msi_program stops at the first write that does not read back ... *)
ProgramWrite(layout, m, w) == IF m.ok /\ Has(layout, w[1]) THEN Put(m, w[1], w[2]) ELSE m

(* ... and pci_msi_restore goes on, but then leaves MSI disabled. *)
RestoreWrite(layout, m, w) == IF Has(layout, w[1]) THEN Put(m, w[1], w[2]) ELSE m

(* Mutant of pci_msi_restore: the old control word is written whether or   *)
(* not the other registers are back.                                       *)
pci_msi_restoreAnyway(m, layout) ==
  LET old  == m.saved.regs
      back == FoldLeft(LAMBDA t, w : RestoreWrite(layout, t, w), [m EXCEPT !.ok = TRUE],
                << <<"control", Off(m.regs["control"])>>, <<"mask", 1>>,
                   <<"address", old["address"]>>, <<"upper", old["upper"]>>,
                   <<"data", old["data"]>>, <<"mask", old["mask"]>>,
                   <<"control", old["control"]>> >>)
  IN  [back EXCEPT !.saved.valid = ~back.ok]

pci_msi_restore(m, layout) ==
  LET old  == m.saved.regs
      back == FoldLeft(LAMBDA t, w : RestoreWrite(layout, t, w), [m EXCEPT !.ok = TRUE],
                << <<"control", Off(m.regs["control"])>>, <<"mask", 1>>,
                   <<"address", old["address"]>>, <<"upper", old["upper"]>>,
                   <<"data", old["data"]>>, <<"mask", old["mask"]>> >>)
      last == Put(back, "control", old["control"])
  IN  IF ~m.saved.valid THEN [m EXCEPT !.ok = FALSE]
      ELSE IF ~back.ok THEN back
      ELSE IF ~last.ok THEN last
      ELSE [last EXCEPT !.saved.valid = FALSE]

pci_msi_program(m, layout, address, data) ==
  LET kept == [m EXCEPT !.ok = TRUE, !.saved = [valid |-> TRUE, regs |-> m.regs]]
      old  == m.regs["control"]
      done == FoldLeft(LAMBDA t, w : ProgramWrite(layout, t, w), kept,
                << <<"control", Off(old)>>, <<"mask", 1>>,
                   <<"address", address>>, <<"upper", 0>>, <<"data", data>>,
                   <<"control", On(old)>>, <<"mask", 0>> >>)
  IN  IF m.saved.valid THEN [m EXCEPT !.ok = FALSE]
      ELSE IF done.ok THEN done
      ELSE [pci_msi_restore(done, layout) EXCEPT !.ok = FALSE]

(* pci_enable_ahci_msi and pci_disable_ahci_msi; ok is their result. *)
pci_enable_ahci_msi(m, layout, list) ==
  IF m.saved.valid \/ ~MsiFound(list) THEN [m EXCEPT !.ok = FALSE]
  ELSE pci_msi_program(m, layout, LapicAddress, MsiVector)

pci_disable_ahci_msi(m, layout) ==
  IF ~m.saved.valid THEN [m EXCEPT !.ok = TRUE] ELSE pci_msi_restore(m, layout)

=============================================================================
