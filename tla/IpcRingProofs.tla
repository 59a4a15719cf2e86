---------------------------- MODULE IpcRingProofs ----------------------------
(***************************************************************************)
(* The ring of kernel/ipc.c implements the queue that its callers see, for *)
(* every capacity, every set of tasks and every sequence of calls.         *)
(***************************************************************************)
EXTENDS IpcRing, MailboxProofs, Integers

Letter == Message(Ids)

-----------------------------------------------------------------------------
(* Positions in the ring. *)

LEMMA CapacityNat == QueueCapacity \in Nat /\ QueueCapacity >= 1 /\ MessageMax \in Nat
  BY MailboxConstants

LEMMA Remainder ==
  ASSUME NEW n \in Nat, n > 0, NEW a \in Nat, a < 2 * n
  PROVE  a % n = IF a < n THEN a ELSE a - n
<1>1. CASE a < n
  BY <1>1
<1>2. CASE a >= n
  <2>1. a - n \in 0..n - 1
    BY <1>2
  <2>2. ((a - n) + n) % n = a - n
    BY <2>1
  <2> QED BY <1>2, <2>2
<1> QED BY <1>1, <1>2

LEMMA AtFacts ==
  ASSUME NEW s \in Cells, NEW o \in 0..QueueCapacity
  PROVE  /\ At(s, o) \in Cells
         /\ s + o < QueueCapacity => At(s, o) = s + o
         /\ s + o >= QueueCapacity => At(s, o) = s + o - QueueCapacity
<1>1. s + o \in Nat /\ s + o < 2 * QueueCapacity
  BY CapacityNat DEF Cells
<1> QED BY <1>1, CapacityNat, Remainder DEF At, Cells

LEMMA AtAnywhere ==
  ASSUME NEW s \in Cells, NEW o \in Nat
  PROVE  At(s, o) \in Cells
  BY CapacityNat DEF At, Cells

LEMMA AtInjective ==
  ASSUME NEW s \in Cells, NEW o \in 0..QueueCapacity - 1, NEW p \in 0..QueueCapacity - 1,
         At(s, o) = At(s, p)
  PROVE  o = p
<1>1. o \in 0..QueueCapacity /\ p \in 0..QueueCapacity /\ s \in 0..QueueCapacity - 1
  BY CapacityNat DEF Cells
<1> QED BY <1>1, AtFacts, CapacityNat

LEMMA AtNext ==
  ASSUME NEW s \in Cells, NEW o \in 0..QueueCapacity - 1
  PROVE  /\ At(At(s, o), 1) = At(s, o + 1)
         /\ At(At(s, 1), o) = At(s, o + 1)
<1>1. /\ o \in 0..QueueCapacity /\ o + 1 \in 0..QueueCapacity /\ 1 \in 0..QueueCapacity
      /\ s \in 0..QueueCapacity - 1
  BY CapacityNat DEF Cells
<1>2. At(s, o) \in Cells /\ At(s, 1) \in Cells
  BY <1>1, AtFacts
<1>3. At(s, o) \in 0..QueueCapacity - 1 /\ At(s, 1) \in 0..QueueCapacity - 1
  BY <1>2 DEF Cells
<1> QED BY <1>1, <1>2, <1>3, AtFacts, CapacityNat

LEMMA AtBefore ==
  ASSUME NEW s \in Cells, NEW o \in 1..QueueCapacity
  PROVE  (At(s, o) + QueueCapacity - 1) % QueueCapacity = At(s, o - 1)
<1>1. /\ o \in 0..QueueCapacity /\ o - 1 \in 0..QueueCapacity /\ s \in 0..QueueCapacity - 1
  BY CapacityNat DEF Cells
<1>2. At(s, o) \in 0..QueueCapacity - 1
  BY <1>1, AtFacts DEF Cells
<1>3. /\ At(s, o) + QueueCapacity - 1 \in Nat
      /\ At(s, o) + QueueCapacity - 1 < 2 * QueueCapacity
  BY <1>2, CapacityNat
<1>4. (At(s, o) + QueueCapacity - 1) % QueueCapacity =
        IF At(s, o) = 0 THEN QueueCapacity - 1 ELSE At(s, o) - 1
  BY <1>2, <1>3, Remainder, CapacityNat
<1>5. At(s, o - 1) = IF At(s, o) = 0 THEN QueueCapacity - 1 ELSE At(s, o) - 1
  <2>1. /\ s + o < QueueCapacity => At(s, o) = s + o
        /\ s + o >= QueueCapacity => At(s, o) = s + o - QueueCapacity
    BY <1>1, AtFacts
  <2>2. /\ s + (o - 1) < QueueCapacity => At(s, o - 1) = s + (o - 1)
        /\ s + (o - 1) >= QueueCapacity => At(s, o - 1) = s + (o - 1) - QueueCapacity
    BY <1>1, AtFacts
  <2> QED BY <1>1, <2>1, <2>2, CapacityNat
<1> QED BY <1>4, <1>5

-----------------------------------------------------------------------------
(* The cells keep their type. *)

LEMMA ShiftedUpType ==
  ASSUME NEW cells \in [Cells -> Letter], NEW start, NEW offset
  PROVE  ShiftedUp(cells, start, offset) \in [Cells -> Letter]
<1>1. ASSUME NEW p \in Cells PROVE (p + QueueCapacity - 1) % QueueCapacity \in Cells
  <2>1. p + QueueCapacity - 1 \in Nat
    BY CapacityNat DEF Cells
  <2> QED BY <2>1, CapacityNat DEF Cells
<1> QED BY <1>1 DEF ShiftedUp

LEMMA ShiftedDownType ==
  ASSUME NEW cells \in [Cells -> Letter], NEW start, NEW offset, NEW n
  PROVE  ShiftedDown(cells, start, offset, n) \in [Cells -> Letter]
<1>1. ASSUME NEW p \in Cells PROVE At(p, 1) \in Cells
  BY AtAnywhere
<1> QED BY <1>1 DEF ShiftedDown

(* The states of the outer loop of a purge. *)
Purge == [cells : [Cells -> Letter], offset : Nat, count : Int]

LEMMA PurgeStepType ==
  ASSUME NEW at \in Purge, NEW field, NEW id
  PROVE  PurgeStep(at, field, id) \in Purge
<1>1. /\ at.cells \in [Cells -> Letter] /\ at.offset \in Nat /\ at.offset + 1 \in Nat
      /\ at.count \in Int /\ at.count - 1 \in Int
  BY DEF Purge
<1>2. ShiftedDown(at.cells, tail, at.offset, at.count) \in [Cells -> Letter]
  BY <1>1, ShiftedDownType
<1> QED BY <1>1, <1>2 DEF PurgeStep, Purge

IsPurging(loop, field, id) ==
  /\ loop[0] = [cells |-> queue, offset |-> 0, count |-> count]
  /\ \A k \in 1..count : loop[k] = PurgeStep(loop[k - 1], field, id)

LEMMA PurgingStep ==
  ASSUME TypeOK, NEW field, NEW id
  PROVE  IsPurging(Purging(field, id), field, id)
<1> DEFINE z == [cells |-> queue, offset |-> 0, count |-> count]
           step(f) == [k \in 0..count |-> IF k = 0 THEN z ELSE PurgeStep(f[k - 1], field, id)]
           loop == Purging(field, id)
           g == [k \in 1..count |-> [at \in Purge |-> PurgeStep(at, field, id)]]
<1>1. count \in Nat /\ z \in Purge
  BY CapacityNat DEF TypeOK, Purge, Letter
<1>2. g \in Iterations(Purge, count)
  BY PurgeStepType DEF Iterations
<1>3. PICK f : IsLoop(f, Purge, count, z, g)
  <2> HIDE DEF g, z
  <2> QED BY <1>1, <1>2, Recursion, Zenon
<1>4. f = step(f)
  <2> HIDE DEF z
  <2>1. ASSUME NEW k \in 0..count PROVE f[k] = step(f)[k]
    <3>1. CASE k = 0
      BY <1>3, <3>1 DEF IsLoop
    <3>2. CASE k # 0
      <4>1. k \in 1..count /\ f[k - 1] \in Purge
        BY <1>1, <1>3, <3>2 DEF IsLoop
      <4> QED BY <1>3, <4>1 DEF IsLoop
    <3> QED BY <3>1, <3>2
  <2> QED BY <1>3, <2>1 DEF IsLoop
<1>5. loop = CHOOSE h : h = step(h)
  BY Zenon DEF Purging
<1> HIDE DEF loop
<1>6. loop = step(loop)
  <2> HIDE DEF step
  <2> QED BY <1>4, <1>5, Zenon
<1> HIDE DEF z
<1>7. \A k \in 0..count : loop[k] = step(loop)[k]
  BY <1>6, Zenon
<1>8. step(loop)[0] = z
  BY <1>1
<1>9. ASSUME NEW k \in 1..count PROVE step(loop)[k] = PurgeStep(loop[k - 1], field, id)
  BY <1>1
<1> HIDE DEF step
<1> QED BY <1>1, <1>7, <1>8, <1>9 DEF IsPurging, loop, z

-----------------------------------------------------------------------------
(* What the two shifts do to the messages. *)

LEMMA ShiftedUpAt ==
  ASSUME NEW cells, NEW start \in Cells, NEW offset \in 0..QueueCapacity - 1,
         NEW j \in 0..QueueCapacity - 1
  PROVE  /\ j \in 1..offset =>
              ShiftedUp(cells, start, offset)[At(start, j)] = cells[At(start, j - 1)]
         /\ j \notin 1..offset =>
              ShiftedUp(cells, start, offset)[At(start, j)] = cells[At(start, j)]
<1> DEFINE p == At(start, j)
<1>1. p \in Cells
  BY CapacityNat, AtAnywhere
<1>2. j \in 1..offset <=> \E o \in 1..offset : p = At(start, o)
  <2>1. ASSUME NEW o \in 1..offset, p = At(start, o) PROVE j = o
    <3>1. o \in 0..QueueCapacity - 1
      BY CapacityNat
    <3> QED BY <2>1, <3>1, AtInjective
  <2> QED BY <2>1
<1>3. CASE j \in 1..offset
  <2>1. (p + QueueCapacity - 1) % QueueCapacity = At(start, j - 1)
    BY <1>3, AtBefore, CapacityNat
  <2> HIDE DEF p
  <2>2. ShiftedUp(cells, start, offset)[p] = cells[At(start, j - 1)]
    BY <1>1, <1>2, <1>3, <2>1 DEF ShiftedUp
  <2> QED BY <1>3, <2>2 DEF p
<1>4. CASE j \notin 1..offset
  <2> HIDE DEF p
  <2>1. ShiftedUp(cells, start, offset)[p] = cells[p]
    BY <1>1, <1>2, <1>4 DEF ShiftedUp
  <2> QED BY <1>4, <2>1 DEF p
<1> QED BY <1>3, <1>4

LEMMA ShiftedDownAt ==
  ASSUME NEW cells, NEW start \in Cells, NEW offset \in Nat, NEW n \in 0..QueueCapacity,
         NEW j \in 0..QueueCapacity - 1
  PROVE  /\ j \in offset..n - 2 =>
              ShiftedDown(cells, start, offset, n)[At(start, j)] = cells[At(start, j + 1)]
         /\ j \notin offset..n - 2 =>
              ShiftedDown(cells, start, offset, n)[At(start, j)] = cells[At(start, j)]
<1> DEFINE p == At(start, j)
<1>1. p \in Cells /\ At(p, 1) = At(start, j + 1)
  BY CapacityNat, AtAnywhere, AtNext
<1>2. j \in offset..n - 2 <=> \E o \in offset..n - 2 : p = At(start, o)
  <2>1. ASSUME NEW o \in offset..n - 2, p = At(start, o) PROVE j = o
    <3>1. o \in 0..QueueCapacity - 1
      BY CapacityNat
    <3> QED BY <2>1, <3>1, AtInjective
  <2> QED BY <2>1
<1>3. ShiftedDown(cells, start, offset, n)[p] =
        IF j \in offset..n - 2 THEN cells[At(start, j + 1)] ELSE cells[p]
  <2> HIDE DEF p
  <2> QED BY <1>1, <1>2 DEF ShiftedDown
<1> QED BY <1>3

LEMMA SequenceAsFunction ==
  ASSUME NEW S, NEW s \in Seq(S), NEW n, n = Len(s)
  PROVE  s = [i \in 1..n |-> s[i]]
  OBVIOUS

LEMMA MailFacts ==
  ASSUME TypeOK
  PROVE  /\ Mail \in Seq(Letter) /\ Len(Mail) = count /\ count \in Nat
         /\ \A i \in 1..count : Mail[i] = queue[At(tail, i - 1)]
<1>1. count \in Nat /\ tail \in Cells /\ queue \in [Cells -> Letter]
  BY CapacityNat DEF TypeOK, Letter
<1>2. ASSUME NEW i \in 1..count PROVE queue[At(tail, i - 1)] \in Letter
  <2>1. At(tail, i - 1) \in Cells
    BY <1>1, AtAnywhere
  <2> QED BY <1>1, <2>1
<1> QED BY <1>1, <1>2 DEF Mail

-----------------------------------------------------------------------------
(* A purge. After k iterations the cells from tail on hold what is left of *)
(* the first k messages and, behind it, the others in their order.         *)

Reached(at, K, k) ==
  /\ at \in Purge /\ K[k] \in Seq(Letter)
  /\ at.offset = Len(K[k]) /\ at.offset <= k /\ at.count = at.offset + (count - k)
  /\ \A i \in 1..at.offset : at.cells[At(tail, i - 1)] = K[k][i]
  /\ \A i \in 1..count - k : at.cells[At(tail, at.offset + i - 1)] = Mail[k + i]

LEMMA PurgeStepReaches ==
  ASSUME TypeOK, NEW K, NEW field, NEW id, IsPurge(K, Mail, field, id),
         NEW k \in 0..count - 1, NEW at, Reached(at, K, k)
  PROVE  Reached(PurgeStep(at, field, id), K, k + 1)
<1> DEFINE new == PurgeStep(at, field, id)
           o == at.offset
           n == at.count
<1>0. /\ count \in Nat /\ count <= QueueCapacity /\ tail \in Cells /\ Len(Mail) = count
      /\ k \in Nat /\ k + 1 \in 1..count /\ (k + 1) - 1 = k /\ Mail \in Seq(Letter)
  BY CapacityNat, MailFacts DEF TypeOK
<1>1. /\ at \in Purge /\ K[k] \in Seq(Letter)
      /\ o = Len(K[k]) /\ o <= k /\ n = o + (count - k) /\ o \in Nat
  BY DEF Reached, Purge
<1>2. \A i \in 1..o : at.cells[At(tail, i - 1)] = K[k][i]
  BY DEF Reached
<1>3. \A i \in 1..count - k : at.cells[At(tail, o + i - 1)] = Mail[k + i]
  BY DEF Reached
<1>4. at.cells[At(tail, o)] = Mail[k + 1] /\ Mail[k + 1] \in Letter
  <2>1. 1 \in 1..count - k /\ o + 1 - 1 = o
    BY <1>0, <1>1
  <2> QED BY <1>0, <1>3, <2>1
<1>5. K[k + 1] = IF Mail[k + 1][field] = id THEN K[k] ELSE Append(K[k], Mail[k + 1])
  BY <1>0 DEF IsPurge
<1>6. new \in Purge
  BY <1>1, PurgeStepType
<1>7. CASE Mail[k + 1][field] = id
  <2>1. new = [cells |-> ShiftedDown(at.cells, tail, o, n), offset |-> o, count |-> n - 1]
    BY <1>4, <1>7 DEF PurgeStep
  <2>2. /\ new.cells = ShiftedDown(at.cells, tail, o, n)
        /\ new.offset = o /\ new.count = n - 1 /\ K[k + 1] = K[k]
    BY <1>5, <1>7, <2>1
  <2>3. tail \in Cells /\ o \in Nat /\ n \in 0..QueueCapacity
    BY <1>0, <1>1, CapacityNat
  <2> HIDE DEF new, o, n
  <2>s. ASSUME NEW j \in 0..QueueCapacity - 1
        PROVE  /\ j \in o..n - 2 => new.cells[At(tail, j)] = at.cells[At(tail, j + 1)]
               /\ j \notin o..n - 2 => new.cells[At(tail, j)] = at.cells[At(tail, j)]
    <3>1. /\ j \in o..n - 2 =>
               ShiftedDown(at.cells, tail, o, n)[At(tail, j)] = at.cells[At(tail, j + 1)]
          /\ j \notin o..n - 2 =>
               ShiftedDown(at.cells, tail, o, n)[At(tail, j)] = at.cells[At(tail, j)]
      BY <2>3, ShiftedDownAt
    <3> QED BY <2>2, <3>1
  <2>4. ASSUME NEW i \in 1..o PROVE new.cells[At(tail, i - 1)] = K[k + 1][i]
    <3>1. i - 1 \in 0..QueueCapacity - 1 /\ i - 1 \notin o..n - 2
      BY <1>0, <1>1, CapacityNat
    <3>2. new.cells[At(tail, i - 1)] = at.cells[At(tail, i - 1)]
      BY <2>s, <3>1
    <3> QED BY <1>2, <2>2, <3>2
  <2>5. ASSUME NEW i \in 1..count - (k + 1)
        PROVE  new.cells[At(tail, o + i - 1)] = Mail[k + 1 + i]
    <3>1. o + i - 1 \in 0..QueueCapacity - 1 /\ o + i - 1 \in o..n - 2
      BY <1>0, <1>1, CapacityNat
    <3>2. new.cells[At(tail, o + i - 1)] = at.cells[At(tail, (o + i - 1) + 1)]
      BY <2>s, <3>1
    <3>3. i + 1 \in 1..count - k /\ (o + i - 1) + 1 = o + (i + 1) - 1 /\ k + (i + 1) = k + 1 + i
      BY <1>0, <1>1
    <3>4. at.cells[At(tail, o + (i + 1) - 1)] = Mail[k + (i + 1)]
      BY <1>3, <3>3
    <3> QED BY <3>2, <3>3, <3>4
  <2>6. new.count = o + (count - (k + 1)) /\ o <= k + 1
    BY <1>0, <1>1, <2>2
  <2>7. Reached(new, K, k + 1)
    BY <1>1, <1>6, <2>2, <2>4, <2>5, <2>6 DEF Reached
  <2> QED BY <2>7 DEF new
<1>8. CASE Mail[k + 1][field] # id
  <2>1. new = [cells |-> at.cells, offset |-> o + 1, count |-> n]
    BY <1>4, <1>8 DEF PurgeStep
  <2>2. /\ new.cells = at.cells /\ new.offset = o + 1 /\ new.count = n
        /\ K[k + 1] = Append(K[k], Mail[k + 1])
    BY <1>5, <1>8, <2>1
  <2> HIDE DEF new, o, n
  <2>3. /\ K[k + 1] \in Seq(Letter) /\ Len(K[k + 1]) = o + 1
        /\ \A i \in 1..o : K[k + 1][i] = K[k][i]
        /\ K[k + 1][o + 1] = Mail[k + 1]
    BY <1>1, <1>4, <2>2
  <2>4. ASSUME NEW i \in 1..o + 1 PROVE new.cells[At(tail, i - 1)] = K[k + 1][i]
    <3>1. CASE i \in 1..o
      BY <1>2, <2>2, <2>3, <3>1
    <3>2. CASE i = o + 1
      <4>1. i - 1 = o
        BY <1>1, <3>2
      <4> QED BY <1>4, <2>2, <2>3, <3>2, <4>1 DEF o
    <3> QED BY <1>1, <3>1, <3>2
  <2>5. ASSUME NEW i \in 1..count - (k + 1)
        PROVE  new.cells[At(tail, (o + 1) + i - 1)] = Mail[k + 1 + i]
    <3>1. i + 1 \in 1..count - k /\ (o + 1) + i - 1 = o + (i + 1) - 1 /\ k + (i + 1) = k + 1 + i
      BY <1>0, <1>1
    <3>2. at.cells[At(tail, o + (i + 1) - 1)] = Mail[k + (i + 1)]
      BY <1>3, <3>1
    <3> QED BY <2>2, <3>1, <3>2
  <2>6. new.count = (o + 1) + (count - (k + 1)) /\ o + 1 <= k + 1
    BY <1>0, <1>1, <2>2
  <2>7. Reached(new, K, k + 1)
    BY <1>6, <2>2, <2>3, <2>4, <2>5, <2>6 DEF Reached
  <2> QED BY <2>7 DEF new
<1> QED BY <1>7, <1>8

LEMMA PurgeResult ==
  ASSUME TypeOK, NEW field, NEW id
  PROVE  Reached(Purging(field, id)[count], Purged(Mail, field, id), count)
<1> DEFINE K == Purged(Mail, field, id)
           loop == Purging(field, id)
           S == {k \in 0..count : Reached(loop[k], K, k)}
<1>0. count \in Nat /\ tail \in Cells /\ queue \in [Cells -> Letter]
  BY CapacityNat DEF TypeOK, Letter
<1>1. IsPurge(K, Mail, field, id) /\ IsPurging(loop, field, id)
  BY MailFacts, PurgedStep, PurgingStep
<1> HIDE DEF K, loop
<1>2. 0 \in S
  <2>1. K[0] = <<>> /\ loop[0] = [cells |-> queue, offset |-> 0, count |-> count]
    BY <1>1 DEF IsPurge, IsPurging
  <2>2. loop[0] \in Purge /\ loop[0].cells = queue /\ loop[0].offset = 0 /\ loop[0].count = count
    BY <1>0, <2>1 DEF Purge
  <2>3. K[0] \in Seq(Letter) /\ Len(K[0]) = 0
    BY <2>1
  <2>4. ASSUME NEW i \in 1..count - 0 PROVE queue[At(tail, 0 + i - 1)] = Mail[0 + i]
    <3>1. i \in 1..count /\ 0 + i - 1 = i - 1 /\ 0 + i = i
      BY <1>0
    <3> QED BY <3>1, MailFacts
  <2>5. Reached(loop[0], K, 0)
    BY <1>0, <2>2, <2>3, <2>4 DEF Reached
  <2> QED BY <1>0, <2>5
<1>3. ASSUME NEW k \in 0..count - 1, k \in S PROVE k + 1 \in S
  <2>1. Reached(loop[k], K, k)
    BY <1>3
  <2>2. k + 1 \in 1..count /\ k + 1 \in 0..count /\ (k + 1) - 1 = k
    BY <1>0
  <2>3. loop[k + 1] = PurgeStep(loop[k], field, id)
    BY <1>1, <2>2 DEF IsPurging
  <2>4. Reached(PurgeStep(loop[k], field, id), K, k + 1)
    BY <1>1, <2>1, PurgeStepReaches
  <2> QED BY <2>2, <2>3, <2>4
<1>4. count \in S
  <2> HIDE DEF S
  <2>1. \A k \in 0..count : k \in S
    BY <1>0, <1>2, <1>3, Induction, Zenon
  <2> QED BY <1>0, <2>1
<1> QED BY <1>4 DEF K, loop

-----------------------------------------------------------------------------
(* The operations, seen as steps of the queue. *)

LEMMA SendRefines ==
  ASSUME RingInv, NEW sender \in Ids, NEW receiver \in Ids, NEW size \in 0..MessageMax + 1,
         SendFromTo(sender, receiver, size)
  PROVE  /\ RingInv'
         /\ \/ UNCHANGED Mail
            \/ /\ CanSend(Mail, size) /\ size \in 0..MessageMax
               /\ Mail' = Append(Mail, Envelope(sender, receiver, size))
<1>0. /\ count \in Nat /\ count <= QueueCapacity /\ tail \in Cells /\ head \in Cells
      /\ queue \in [Cells -> Letter] /\ head = At(tail, count) /\ TypeOK
  BY CapacityNat DEF RingInv, TypeOK, Letter
<1>1. CASE size <= MessageMax /\ count < QueueCapacity
  <2> DEFINE m == Envelope(sender, receiver, size)
  <2>1. /\ queue' = [queue EXCEPT ![head] = m] /\ head' = At(head, 1)
        /\ count' = count + 1 /\ tail' = tail
    BY <1>1 DEF SendFromTo
  <2>2. m \in Letter /\ size \in 0..MessageMax
    BY <1>1, CapacityNat DEF Envelope, Letter, Message
  <2> HIDE DEF m
  <2>3. count \in 0..QueueCapacity - 1 /\ count' \in 0..QueueCapacity
    BY <1>0, <1>1, <2>1, CapacityNat
  <2>4. At(head, 1) = At(tail, count + 1) /\ At(head, 1) \in Cells
    BY <1>0, <2>3, AtNext, AtAnywhere
  <2>5. RingInv'
    BY <1>0, <2>1, <2>2, <2>3, <2>4 DEF RingInv, TypeOK, Letter
  <2>6. Mail \in Seq(Letter) /\ Len(Mail) = count /\ \A i \in 1..count : Mail[i] = queue[At(tail, i - 1)]
    BY <1>0, MailFacts
  <2>7. Mail' = [i \in 1..count + 1 |-> queue'[At(tail, i - 1)]]
    BY <2>1 DEF Mail
  <2>8. ASSUME NEW i \in 1..count + 1
        PROVE  queue'[At(tail, i - 1)] = IF i <= count THEN Mail[i] ELSE m
    <3>1. CASE i <= count
      <4>1. i - 1 \in 0..QueueCapacity - 1 /\ i - 1 # count /\ i \in 1..count
        BY <1>0, <2>3, <3>1, CapacityNat
      <4>2. At(tail, i - 1) # head /\ At(tail, i - 1) \in Cells
        BY <1>0, <2>3, <4>1, AtInjective, AtAnywhere
      <4> QED BY <1>0, <2>1, <2>6, <3>1, <4>1, <4>2
    <3>2. CASE ~(i <= count)
      <4>1. i - 1 = count
        BY <1>0, <3>2
      <4> QED BY <1>0, <2>1, <3>2, <4>1
    <3> QED BY <3>1, <3>2
  <2>9. Mail' = Append(Mail, m)
    <3>1. /\ Append(Mail, m) \in Seq(Letter) /\ Len(Append(Mail, m)) = count + 1
          /\ \A i \in 1..count + 1 : Append(Mail, m)[i] = IF i <= count THEN Mail[i] ELSE m
      BY <1>0, <2>2, <2>6
    <3>2. Append(Mail, m) = [i \in 1..count + 1 |-> Append(Mail, m)[i]]
      BY <3>1, SequenceAsFunction
    <3> QED BY <2>7, <2>8, <3>1, <3>2
  <2> QED BY <1>1, <2>2, <2>5, <2>6, <2>9 DEF CanSend, m
<1>2. CASE ~(size <= MessageMax /\ count < QueueCapacity)
  <2>1. queue' = queue /\ head' = head /\ tail' = tail /\ count' = count
    BY <1>2 DEF SendFromTo, vars
  <2> QED BY <2>1 DEF RingInv, TypeOK, Mail
<1> QED BY <1>1, <1>2

LEMMA ReceiveRefines ==
  ASSUME RingInv, NEW id \in Ids, NEW capacity \in 0..MessageMax, ReceiveFor(id, capacity)
  PROVE  /\ RingInv'
         /\ \/ UNCHANGED Mail
            \/ CanReceive(Mail, id, capacity) /\ Mail' = AfterReceive(Mail, id)
<1>0. /\ count \in Nat /\ count <= QueueCapacity /\ tail \in Cells /\ head \in Cells
      /\ queue \in [Cells -> Letter] /\ head = At(tail, count) /\ TypeOK
  BY CapacityNat DEF RingInv, TypeOK, Letter
<1>m. Mail \in Seq(Letter) /\ Len(Mail) = count /\ \A i \in 1..count : Mail[i] = queue[At(tail, i - 1)]
  BY <1>0, MailFacts
<1> DEFINE o == FirstOffset(Matching(id))
<1>1. CASE Matching(id) # {} /\ queue[At(tail, o)].size <= capacity
  <2>1. /\ queue' = ShiftedUp(queue, tail, o) /\ tail' = At(tail, 1)
        /\ count' = count - 1 /\ head' = head
    BY <1>1 DEF ReceiveFor
  <2>2. o \in Matching(id) /\ \A p \in Matching(id) : o <= p
    <3>1. Matching(id) \in SUBSET Nat
      BY <1>0 DEF Matching
    <3>2. PICK x \in Matching(id) : \A p \in Matching(id) : x <= p
      BY <1>1, <3>1, LeastElement
    <3> QED BY <3>2, Zenon DEF FirstOffset
  <2> HIDE DEF o
  <2>3. o \in 0..count - 1 /\ Matches(queue[At(tail, o)], id) /\ o \in Nat
    BY <1>0, <2>2 DEF Matching
  <2>4. /\ o \in 0..QueueCapacity - 1 /\ count - 1 \in 0..QueueCapacity
        /\ count - 1 \in 0..QueueCapacity - 1 /\ (count - 1) + 1 = count
    BY <1>0, <2>3, CapacityNat
  <2>5. At(At(tail, 1), count - 1) = At(tail, count) /\ At(tail, 1) \in Cells
    <3>1. At(At(tail, 1), count - 1) = At(tail, (count - 1) + 1)
      BY <1>0, <2>4, AtNext
    <3> QED BY <1>0, <2>4, <3>1, AtAnywhere
  <2>6. RingInv'
    <3>1. ShiftedUp(queue, tail, o) \in [Cells -> Letter]
      BY <1>0, ShiftedUpType
    <3> QED BY <1>0, <2>1, <2>4, <2>5, <3>1 DEF RingInv, TypeOK, Letter
  <2>7. FirstMatch(Mail, id) = o + 1 /\ Pending(Mail, id)
    <3> DEFINE k == FirstMatch(Mail, id)
    <3>1. o + 1 \in 1..count /\ (o + 1) - 1 = o /\ Mail[o + 1] = queue[At(tail, o)]
      BY <1>0, <1>m, <2>3
    <3>2. Pending(Mail, id)
      BY <1>m, <2>3, <3>1, FirstMatchFacts
    <3>3. k \in 1..count /\ Matches(Mail[k], id) /\ k <= o + 1
      BY <1>m, <2>3, <3>1, <3>2, FirstMatchFacts
    <3> HIDE DEF k
    <3>4. k - 1 \in Matching(id)
      BY <1>0, <1>m, <3>3 DEF Matching
    <3>5. o <= k - 1
      BY <2>2, <3>4
    <3> QED BY <2>3, <3>2, <3>3, <3>5 DEF k
  <2>8. CanReceive(Mail, id, capacity)
    <3>1. o + 1 \in 1..count /\ (o + 1) - 1 = o /\ Mail[o + 1] = queue[At(tail, o)]
      BY <1>0, <1>m, <2>3
    <3> QED BY <1>1, <2>7, <3>1 DEF CanReceive, o
  <2>9. Mail' = [i \in 1..count - 1 |-> queue'[At(At(tail, 1), i - 1)]]
    BY <2>1, Zenon DEF Mail
  <2>10. ASSUME NEW i \in 1..count - 1
         PROVE  queue'[At(At(tail, 1), i - 1)] = IF i < o + 1 THEN Mail[i] ELSE Mail[i + 1]
    <3>1. /\ i \in 0..QueueCapacity - 1 /\ i - 1 \in 0..QueueCapacity - 1
          /\ (i - 1) + 1 = i /\ i \in 1..count /\ i + 1 \in 1..count /\ (i + 1) - 1 = i
      BY <1>0, CapacityNat
    <3>2. At(At(tail, 1), i - 1) = At(tail, i)
      <4>1. At(At(tail, 1), i - 1) = At(tail, (i - 1) + 1)
        BY <1>0, <3>1, AtNext
      <4> QED BY <3>1, <4>1
    <3>3. /\ i \in 1..o => ShiftedUp(queue, tail, o)[At(tail, i)] = queue[At(tail, i - 1)]
          /\ i \notin 1..o => ShiftedUp(queue, tail, o)[At(tail, i)] = queue[At(tail, i)]
      <4>1. tail \in Cells /\ o \in 0..QueueCapacity - 1 /\ i \in 0..QueueCapacity - 1
        BY <1>0, <2>4, <3>1
      <4> QED BY <4>1, ShiftedUpAt
    <3>4. Mail[i] = queue[At(tail, i - 1)] /\ Mail[i + 1] = queue[At(tail, i)]
      BY <1>m, <3>1
    <3>5. i \in 1..o <=> i < o + 1
      BY <2>3
    <3> QED BY <2>1, <3>2, <3>3, <3>4, <3>5
  <2>11. Mail' = AfterReceive(Mail, id)
    <3>1. AfterReceive(Mail, id) =
            [i \in 1..count - 1 |-> IF i < o + 1 THEN Mail[i] ELSE Mail[i + 1]]
      BY <1>m, <2>7 DEF AfterReceive, Without
    <3> QED BY <2>9, <2>10, <3>1
  <2> QED BY <2>6, <2>8, <2>11
<1>2. CASE ~(Matching(id) # {} /\ queue[At(tail, o)].size <= capacity)
  <2>1. queue' = queue /\ head' = head /\ tail' = tail /\ count' = count
    BY <1>2 DEF ReceiveFor, vars
  <2> QED BY <2>1 DEF RingInv, TypeOK, Mail
<1> QED BY <1>1, <1>2

LEMMA PurgeRefines ==
  ASSUME RingInv, NEW field, NEW id, PurgeField(field, id)
  PROVE  /\ RingInv'
         /\ \/ UNCHANGED Mail
            \/ id # 0 /\ Mail' = Purged(Mail, field, id)[Len(Mail)]
<1>0. /\ count \in Nat /\ count <= QueueCapacity /\ tail \in Cells /\ head \in Cells
      /\ queue \in [Cells -> Letter] /\ head = At(tail, count) /\ TypeOK
  BY CapacityNat DEF RingInv, TypeOK, Letter
<1>m. Len(Mail) = count
  BY <1>0, MailFacts
<1>1. CASE id = 0
  <2>1. queue' = queue /\ head' = head /\ tail' = tail /\ count' = count
    BY <1>1 DEF PurgeField, vars
  <2> QED BY <2>1 DEF RingInv, TypeOK, Mail
<1>2. CASE id # 0
  <2> DEFINE after == Purging(field, id)[count]
             left == Purged(Mail, field, id)[count]
  <2>1. /\ queue' = after.cells /\ count' = after.count /\ tail' = tail
        /\ head' = IF after.count = count THEN head ELSE At(tail, after.count)
    BY <1>2 DEF PurgeField
  <2>2. Reached(after, Purged(Mail, field, id), count)
    BY <1>0, PurgeResult
  <2> HIDE DEF after
  <2>3. /\ after \in Purge /\ left \in Seq(Letter) /\ after.offset = Len(left)
        /\ after.offset <= count /\ after.count = after.offset + (count - count)
        /\ \A i \in 1..after.offset : after.cells[At(tail, i - 1)] = left[i]
    BY <2>2, Zenon DEF Reached
  <2> HIDE DEF left
  <2>4. /\ after.cells \in [Cells -> Letter] /\ after.count \in 0..count
        /\ after.count = Len(left) /\ after.count = after.offset
    BY <1>0, <2>3 DEF Purge
  <2>5. At(tail, after.count) \in Cells /\ after.count \in 0..QueueCapacity
    BY <1>0, <2>4, AtAnywhere, CapacityNat
  <2>6. head' = At(tail, after.count)
    BY <1>0, <2>1
  <2>7. RingInv'
    BY <1>0, <2>1, <2>4, <2>5, <2>6 DEF RingInv, TypeOK, Letter
  <2>8. Mail' = [i \in 1..after.count |-> after.cells[At(tail, i - 1)]]
    BY <2>1 DEF Mail
  <2>9. left = [i \in 1..after.count |-> left[i]]
    BY <2>3, <2>4, SequenceAsFunction
  <2>10. Mail' = left
    BY <2>3, <2>4, <2>8, <2>9
  <2> QED BY <1>2, <1>m, <2>7, <2>10 DEF left
<1> QED BY <1>1, <1>2

(* Every step keeps the ring in order and is a step of the queue, or none. *)
LEMMA StepRefines ==
  ASSUME RingInv, [Next]_vars
  PROVE  RingInv' /\ [Abstract!Next]_Mail
<1>1. ASSUME NEW s \in Ids, NEW r \in Ids, NEW n \in 0..MessageMax + 1, SendFromTo(s, r, n)
      PROVE  RingInv' /\ [Abstract!Next]_Mail
  <2>1. /\ RingInv'
        /\ \/ UNCHANGED Mail
           \/ /\ CanSend(Mail, n) /\ n \in 0..MessageMax
              /\ Mail' = Append(Mail, Envelope(s, r, n))
    BY <1>1, SendRefines
  <2>2. CASE UNCHANGED Mail
    BY <2>1, <2>2
  <2>3. CASE /\ CanSend(Mail, n) /\ n \in 0..MessageMax
             /\ Mail' = Append(Mail, Envelope(s, r, n))
    <3>1. Abstract!SendFromTo(s, r, n)
      BY <2>3 DEF Abstract!SendFromTo, Abstract!CanSend, CanSend, Abstract!Envelope, Envelope
    <3>2. Abstract!Next
      BY <2>3, <3>1 DEF Abstract!Next
    <3> QED BY <2>1, <3>2
  <2> QED BY <2>1, <2>2, <2>3
<1>2. ASSUME NEW r \in Ids, NEW c \in 0..MessageMax, ReceiveFor(r, c)
      PROVE  RingInv' /\ [Abstract!Next]_Mail
  <2>1. /\ RingInv'
        /\ \/ UNCHANGED Mail
           \/ CanReceive(Mail, r, c) /\ Mail' = AfterReceive(Mail, r)
    BY <1>2, ReceiveRefines
  <2>2. CASE UNCHANGED Mail
    BY <2>1, <2>2
  <2>3. CASE CanReceive(Mail, r, c) /\ Mail' = AfterReceive(Mail, r)
    <3>1. \A x : Abstract!Min(x) = Min(x)
      BY Zenon DEF Abstract!Min, Min
    <3>2. Abstract!FirstMatch(Mail, r) = FirstMatch(Mail, r)
      BY <3>1 DEF Abstract!FirstMatch, FirstMatch, Abstract!Matches, Matches
    <3>3. Abstract!ReceiveFor(r, c)
      BY <2>3, <3>2 DEF Abstract!ReceiveFor, Abstract!CanReceive, CanReceive, Abstract!Pending,
         Pending, Abstract!AfterReceive, AfterReceive, Abstract!Without, Without
    <3>4. Abstract!Next
      BY <3>3 DEF Abstract!Next
    <3> QED BY <2>1, <3>4
  <2> QED BY <2>1, <2>2, <2>3
<1>3. ASSUME NEW r \in Ids, NEW field \in {"receiver", "sender"}, PurgeField(field, r)
      PROVE  RingInv' /\ [Abstract!Next]_Mail
  <2>1. /\ RingInv'
        /\ \/ UNCHANGED Mail
           \/ r # 0 /\ Mail' = Purged(Mail, field, r)[Len(Mail)]
    BY <1>3, PurgeRefines
  <2>2. CASE UNCHANGED Mail
    BY <2>1, <2>2
  <2>3. CASE r # 0 /\ Mail' = Purged(Mail, field, r)[Len(Mail)]
    <3>1. Abstract!Purged(Mail, field, r) = Purged(Mail, field, r)
      BY Zenon DEF Abstract!Purged, Purged
    <3>2. Mail' = Abstract!PurgeReceiver(Mail, r) \/ Mail' = Abstract!PurgeSender(Mail, r)
      BY <2>3, <3>1 DEF Abstract!PurgeReceiver, Abstract!PurgeSender
    <3>3. Abstract!Next
      BY <3>2 DEF Abstract!Next
    <3> QED BY <2>1, <3>3
  <2> QED BY <2>1, <2>2, <2>3
<1>4. CASE UNCHANGED vars
  <2>1. queue' = queue /\ head' = head /\ tail' = tail /\ count' = count
    BY <1>4 DEF vars
  <2> QED BY <2>1 DEF RingInv, TypeOK, Mail
<1> QED BY <1>1, <1>2, <1>3, <1>4 DEF Next

LEMMA InitRefines ==
  ASSUME Init
  PROVE  RingInv /\ Abstract!Init
<1>1. Envelope(0, 0, 0) \in Message(Ids)
  BY CapacityNat, RingConstants DEF Envelope, Message
<1>2. 0 \in Cells /\ At(0, 0) = 0
  BY CapacityNat DEF Cells, At
<1>3. RingInv
  BY <1>1, <1>2, CapacityNat DEF Init, RingInv, TypeOK
<1>4. Mail = <<>>
  BY DEF Init, Mail
<1> QED BY <1>3, <1>4 DEF Abstract!Init

(* head stays where the next message belongs and every index inside the    *)
(* ring, after any mixture of sends, interior removals and purges of       *)
(* kernel/ipc.c: mail is never overwritten and no gap appears.             *)
THEOREM RingStaysInOrder == Spec => []RingInv
<1>1. Init => RingInv
  BY InitRefines
<1>2. RingInv /\ [Next]_vars => RingInv'
  BY StepRefines
<1> QED BY <1>1, <1>2, PTL DEF Spec

(* The ring implements the queue: whatever its capacity, no call of        *)
(* ipc_send_from_to, ipc_receive_for, ipc_purge_receiver or                *)
(* ipc_purge_sender loses, duplicates, reorders or invents a message.      *)
THEOREM RingImplementsQueue == Spec => ImplementsQueue
<1>1. Init => Abstract!Init
  BY InitRefines
<1>2. RingInv /\ [Next]_vars => [Abstract!Next]_Mail
  BY StepRefines
<1> QED BY <1>1, <1>2, RingStaysInOrder, PTL DEF Spec, ImplementsQueue, Abstract!Spec

==============================================================================
