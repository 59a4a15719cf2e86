---------------------------- MODULE MCInterrupts ----------------------------
(***************************************************************************)
(* The machines on which Interrupts is checked: a plain one, and one for   *)
(* each way in which the hardware can differ from it or misbehave.         *)
(***************************************************************************)
EXTENDS Interrupts

(* Two I/O APICs, with the PIT on an overridden pin. *)
MCPins == (1 .. 2) \X (0 .. 2)

Tables ==
  [present |-> TRUE, local |-> TRUE,
   ios |-> <<[base |-> 0, count |-> 3, valid |-> TRUE],
             [base |-> 3, count |-> 2, valid |-> TRUE]>>,
   gsi |-> 0 :> 2 @@ 1 :> 1 @@ 14 :> 3]

MsiBefore(on) ==
  [control |-> [enable |-> on, messages |-> 0], mask |-> 0, address |-> MsiFirmware,
   upper |-> MsiFirmware, data |-> MsiFirmware]

(* A list whose second capability is the MSI one. *)
Capabilities ==
  [present |-> TRUE, first |-> 1, next |-> <<2, 3, 0>>, msi |-> {2}, sound |-> {2}]

Machine ==
  [madt |-> Tables, stuck |-> {}, ata |-> TRUE, ahci |-> TRUE, hbaWorks |-> TRUE,
   hpet |-> TRUE, calibrates |-> TRUE, layout |-> [is64Bit |-> TRUE, perVectorMasking |-> TRUE],
   list |-> Capabilities, msi |-> MsiBefore(FALSE), lost |-> {}, typing |-> FALSE]

(* Machines on which keys are pressed: with APICs and without. *)
Typing ==
  {[Machine EXCEPT !.typing = TRUE, !.ata = FALSE, !.ahci = FALSE],
   [Machine EXCEPT !.typing = TRUE, !.ata = FALSE, !.ahci = FALSE, !.madt.present = FALSE]}

Variants ==
  {[Machine EXCEPT !.madt.present = p, !.ata = a, !.ahci = h, !.hpet = c]
     : p, a, h, c \in BOOLEAN}
  \cup {[Machine EXCEPT !.calibrates = FALSE], [Machine EXCEPT !.hbaWorks = FALSE],
        [Machine EXCEPT !.madt.local = FALSE], [Machine EXCEPT !.madt.ios = <<>>],
        [Machine EXCEPT !.madt.ios[2].valid = FALSE],
        [Machine EXCEPT !.madt.ios[2].base = 2],
        [Machine EXCEPT !.madt.gsi[14] = 9],
        [Machine EXCEPT !.madt.gsi[1] = 9]}

Stuck == {[Machine EXCEPT !.stuck = {r}, !.hpet = h] : r \in Registers, h \in BOOLEAN}

(* Up to two lost writes of the AHCI function, in any capability layout. *)
Losing ==
  {[Machine EXCEPT !.lost = {i, j}, !.msi = MsiBefore(on), !.ata = FALSE,
      !.layout = [is64Bit |-> wide, perVectorMasking |-> masks]] :
      i \in 0 .. 14, j \in 0 .. 14, on \in BOOLEAN, wide \in BOOLEAN, masks \in BOOLEAN}

(* Lists that end, loop, or hold a capability that is not well formed. *)
Listing ==
  {[Machine EXCEPT !.ata = FALSE, !.list = l] :
     l \in {[Capabilities EXCEPT !.present = FALSE], [Capabilities EXCEPT !.first = 0],
            [Capabilities EXCEPT !.msi = {}], [Capabilities EXCEPT !.sound = {}],
            [Capabilities EXCEPT !.msi = {}, !.next = <<2, 3, 1>>],
            [Capabilities EXCEPT !.msi = {3}, !.sound = {3}]}}

MCWorlds == Typing \cup Variants \cup Stuck \cup Losing \cup Listing

=============================================================================
