------------------------------ MODULE IpcQueue -------------------------------
(***************************************************************************)
(* What kernel/ipc.c promises its callers: a bounded queue from which a    *)
(* task takes the oldest message meant for it or for everybody, and from   *)
(* which the mail of an exited task disappears, with the order of all      *)
(* other messages unchanged.                                               *)
(***************************************************************************)
EXTENDS Mailbox

CONSTANT Ids  \* task identifiers; 0 stands for everybody or nobody

VARIABLE mail

Init == mail = <<>>

SendFromTo(sender, receiver, size) ==
  /\ CanSend(mail, size)
  /\ mail' = Append(mail, Envelope(sender, receiver, size))

ReceiveFor(id, capacity) ==
  /\ CanReceive(mail, id, capacity)
  /\ mail' = AfterReceive(mail, id)

Next ==
  \/ \E s, r \in Ids, n \in 0..MessageMax : SendFromTo(s, r, n)
  \/ \E r \in Ids, c \in 0..MessageMax : ReceiveFor(r, c)
  \/ \E r \in Ids : mail' = PurgeReceiver(mail, r) \/ mail' = PurgeSender(mail, r)

Spec == Init /\ [][Next]_mail

==============================================================================
