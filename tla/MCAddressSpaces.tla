-------------------------- MODULE MCAddressSpaces --------------------------
(* Images and bounds for model checking AddressSpaces. *)
EXTENDS AddressSpaces

Segment(first, last, prot) == [first |-> first, last |-> last, prot |-> prot]

Image(dyn, entry, segments) ==
    [valid |-> TRUE, dyn |-> dyn, entry |-> entry, segments |-> segments]

(* The one-page demo, which the kernel restarts. *)
Demo == Image(TRUE, 0, <<Segment(0, 0, "rx")>>)

(* Code followed by data, linked at a fixed address. *)
CodeAndData == Image(FALSE, 0, <<Segment(0, 0, "rx"), Segment(1, 1, "rw")>>)

(* Two segments share a page: the load fails with a page mapped. *)
Overlapping == Image(FALSE, 0, <<Segment(0, 0, "rx"), Segment(0, 1, "rw")>>)

(* The image of user_process_guard_self_test: refused by the validation. *)
OnTheGuard == [Demo EXCEPT !.valid = FALSE]

MCImages == {Demo, CodeAndData, Overlapping, OnTheGuard}
MCDemo == {Demo}
MCLow == 1 .. 36
MCUser == 37 .. 44
=============================================================================
