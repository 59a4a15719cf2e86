------------------------------- MODULE Mailbox -------------------------------
(***************************************************************************)
(* The message queue of kernel/ipc.c as operators on a sequence, oldest    *)
(* message first. IpcRing shows that the ring buffer with its shifting     *)
(* removals computes exactly these. A message is its sender, its receiver  *)
(* (0 for a broadcast) and its length; the type and the bytes travel with  *)
(* it and decide nothing.                                                  *)
(***************************************************************************)
EXTENDS Naturals, Sequences, FiniteSetsExt

CONSTANTS
  QueueCapacity,  \* IPC_QUEUE_CAPACITY
  MessageMax      \* IPC_MESSAGE_MAX

ASSUME MailboxConstants == QueueCapacity \in Nat \ {0} /\ MessageMax \in Nat

Message(ids) == [sender : ids, receiver : ids, size : 0..MessageMax]

Envelope(sender, receiver, size) ==
  [sender |-> sender, receiver |-> receiver, size |-> size]

Matches(message, id) == id = 0 \/ message.receiver \in {0, id}

(* Index of the first message for a task, 0 when there is none. *)
FirstMatch(mail, id) ==
  LET found == {i \in 1..Len(mail) : Matches(mail[i], id)}
  IN IF found = {} THEN 0 ELSE Min(found)

(* ipc_pending_for counts the matches; its callers compare with zero. *)
Pending(mail, id) == FirstMatch(mail, id) # 0

CanSend(mail, size) == size <= MessageMax /\ Len(mail) < QueueCapacity

(* A first match that does not fit stays where it is, and nothing behind   *)
(* it is looked at.                                                        *)
CanReceive(mail, id, capacity) ==
  Pending(mail, id) /\ mail[FirstMatch(mail, id)].size <= capacity

Without(mail, k) == [i \in 1..Len(mail) - 1 |-> IF i < k THEN mail[i] ELSE mail[i + 1]]

AfterReceive(mail, id) == Without(mail, FirstMatch(mail, id))

(* What is left of the first n messages, for each n. *)
Purged(mail, field, id) ==
  LET Kept[n \in 0..Len(mail)] ==
        IF n = 0 THEN <<>>
        ELSE IF mail[n][field] = id THEN Kept[n - 1] ELSE Append(Kept[n - 1], mail[n])
  IN Kept

PurgeReceiver(mail, id) ==
  IF id = 0 THEN mail ELSE Purged(mail, "receiver", id)[Len(mail)]

PurgeSender(mail, id) ==
  IF id = 0 THEN mail ELSE Purged(mail, "sender", id)[Len(mail)]

==============================================================================
