------------------------------- MODULE IpcRing -------------------------------
(***************************************************************************)
(* kernel/ipc.c as it is: a ring of QueueCapacity cells with head, tail    *)
(* and count, an interior removal that moves the older messages up by one  *)
(* cell, and purges that close each gap from behind. Every operation runs  *)
(* with interrupts off, so each is one step.                               *)
(***************************************************************************)
EXTENDS Mailbox

CONSTANT Ids  \* task identifiers; 0 stands for everybody or nobody

ASSUME RingConstants == 0 \in Ids

VARIABLES
  queue,  \* the cells; a cell outside tail..tail+count-1 keeps stale data
  head,   \* where the next message goes
  tail,   \* the oldest message
  count

vars == <<queue, head, tail, count>>

Cells == 0..QueueCapacity - 1

At(start, offset) == (start + offset) % QueueCapacity

(* The cells hold messages and the indices stay inside the ring: the       *)
(* modulo arithmetic of kernel/ipc.c and its capacity check.               *)
TypeOK ==
  /\ queue \in [Cells -> Message(Ids)]
  /\ head \in Cells /\ tail \in Cells
  /\ count \in 0..QueueCapacity

Init ==
  /\ queue = [p \in Cells |-> Envelope(0, 0, 0)]
  /\ head = 0 /\ tail = 0 /\ count = 0

(* The wake-up that follows a successful send is part of ProcessKernel. *)
SendFromTo(sender, receiver, size) ==
  IF size <= MessageMax /\ count < QueueCapacity
  THEN /\ queue' = [queue EXCEPT ![head] = Envelope(sender, receiver, size)]
       /\ head' = At(head, 1)
       /\ count' = count + 1
       /\ UNCHANGED tail
  ELSE UNCHANGED vars

Matching(id) == {o \in 0..count - 1 : Matches(queue[At(tail, o)], id)}

FirstOffset(offsets) == CHOOSE o \in offsets : \A p \in offsets : o <= p

(* Mutant of ShiftedUp: the loop ends one message early. *)
ShiftedUpShort(cells, start, offset) ==
  [p \in Cells |->
     IF \E o \in 2..offset : p = At(start, o)
     THEN cells[(p + QueueCapacity - 1) % QueueCapacity] ELSE cells[p]]

(* The cells after the while loop: those behind the removed one take their *)
(* predecessor's message.                                                  *)
ShiftedUp(cells, start, offset) ==
  [p \in Cells |->
     IF \E o \in 1..offset : p = At(start, o)
     THEN cells[(p + QueueCapacity - 1) % QueueCapacity] ELSE cells[p]]

ReceiveFor(id, capacity) ==
  IF Matching(id) # {} /\ queue[At(tail, FirstOffset(Matching(id)))].size <= capacity
  THEN /\ queue' = ShiftedUp(queue, tail, FirstOffset(Matching(id)))
       /\ tail' = At(tail, 1)
       /\ count' = count - 1
       /\ UNCHANGED head
  ELSE UNCHANGED vars

(* The inner loop of a purge: everything newer moves one cell down. *)
ShiftedDown(cells, start, offset, n) ==
  [p \in Cells |->
     IF \E o \in offset..n - 2 : p = At(start, o) THEN cells[At(p, 1)] ELSE cells[p]]

(* An iteration of the outer loop of a purge on the cells, its position    *)
(* and the number of messages: it passes a message or removes it.          *)
PurgeStep(at, field, id) ==
  IF at.cells[At(tail, at.offset)][field] = id
  THEN [cells |-> ShiftedDown(at.cells, tail, at.offset, at.count),
        offset |-> at.offset, count |-> at.count - 1]
  ELSE [cells |-> at.cells, offset |-> at.offset + 1, count |-> at.count]

(* The loop ends when every message was passed or removed. *)
Purging(field, id) ==
  LET Loop[k \in 0..count] ==
        IF k = 0 THEN [cells |-> queue, offset |-> 0, count |-> count]
        ELSE PurgeStep(Loop[k - 1], field, id)
  IN Loop

(* Mutant of PurgeField: head is not recomputed. *)
PurgeFieldKeepsHead(field, id) ==
  LET after == Purging(field, id)[count]
  IN /\ id # 0
     /\ queue' = after.cells
     /\ count' = after.count
     /\ UNCHANGED <<head, tail>>

(* head is recomputed at every removal; without one it is left alone. *)
PurgeField(field, id) ==
  LET after == Purging(field, id)[count]
  IN IF id = 0 THEN UNCHANGED vars
     ELSE /\ queue' = after.cells
          /\ count' = after.count
          /\ head' = IF after.count = count THEN head ELSE At(tail, after.count)
          /\ UNCHANGED tail

Next ==
  \/ \E s, r \in Ids, n \in 0..MessageMax + 1 : SendFromTo(s, r, n)
  \/ \E r \in Ids, c \in 0..MessageMax : ReceiveFor(r, c)
  \/ \E r \in Ids, field \in {"receiver", "sender"} : PurgeField(field, r)

Spec == Init /\ [][Next]_vars

----------------------------------------------------------------------------

Mail == [i \in 1..count |-> queue[At(tail, i - 1)]]

Abstract == INSTANCE IpcQueue WITH mail <- Mail

(* The ring implements the queue: interior removals, wrap-around, purges   *)
(* and stale cells never lose, duplicate, reorder or invent a message      *)
(* (ipc_send_from_to, ipc_receive_for, ipc_purge_receiver, ipc_purge_field). *)
ImplementsQueue == Abstract!Spec

(* head is where the next message belongs, so a send after any mixture of  *)
(* receives and purges neither overwrites mail nor leaves a gap.           *)
RingInv == TypeOK /\ head = At(tail, count)

==============================================================================
