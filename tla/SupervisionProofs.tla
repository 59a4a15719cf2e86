-------------------------- MODULE SupervisionProofs --------------------------
(***************************************************************************)
(* The restart supervision of kernel_process_events on top of the tables   *)
(* and the mail of ProcessProofs, for any number of tasks, processes,      *)
(* restarts, messages and keys: every block of memory has one owner, and   *)
(* the supervisor alone can halt the kernel.                               *)
(*                                                                         *)
(* AccountInv counts: each process that ended and was not restarted leaves *)
(* one record, one directory and one task less; a stack is that of a live  *)
(* task or of the one that waits to be reaped; and each wait of the event  *)
(* loop is paid for by an exit: a tick reaps the stack, and until then the *)
(* keyboard wakes the loop a bounded number of times.                      *)
(***************************************************************************)
EXTENDS ProcessProofs, FiniteSetTheorems

(* Memory: what the invariant of the accounts adds to the tables.          *)

Cost == StackCost + SpaceCost

(* User slots with a kernel stack, live user tasks, records in use. *)
StackSlots == {s \in UserSlots : tasks[s].stack}

LiveSlots == {s \in UserSlots : tasks[s].state # "terminated"}

Active == {p \in 1..MaxProcesses : processes[p].active}

(* The restarts there were, the one that is being verified included. *)
Begun == restarts + IF loop.at = "verify" THEN 1 ELSE 0

Places == {"wait", "input", "check", "limit", "compare", "before", "restart", "verify", "tick"}

Counters ==
  /\ free \in Nat /\ reaps \in Nat /\ restarts \in Nat /\ waits \in Nat /\ keys \in 0..MaxKeys
  /\ loop \in [at : Places, expected : Nat, before : Nat]
  /\ tick \in BOOLEAN /\ panic \in Panics /\ heap \in {0, HeapCost}
  /\ returned \in {0, DriverBlocks} /\ runs \in 0..MaxRuns /\ ran \subseteq spaces
  /\ runs = 0 => ran = {}

StackInv ==
  /\ \A s \in 1..taskCount - 1 : tasks[s].stack <=> Live(s) \/ s \in pendingReap
  /\ \A s \in UserSlots : tasks[s].frame => tasks[s].stack
  /\ pendingReap \subseteq UserSlots /\ \A s, t \in pendingReap : s = t
  /\ current # 0 => Live(current)

RecordInv ==
  /\ cr3 \in spaces \cup {Kernel}
  /\ \A p \in 1..MaxProcesses : processes[p].active \/ processes[p] = NoProcess
  /\ Workers + 1..Workers + Users \subseteq UserSlots
  /\ \A s \in Slots : generation[s] <= 1 + Begun + runs

(* The blocks of all address spaces. *)
SpaceHeld == SpaceCost * Cardinality(spaces) + ImageCost * Cardinality(ran)

CountInv ==
  /\ Cardinality(spaces) + reaps = Users + Begun + runs
  /\ Cardinality(Active) + reaps = Users + Begun + runs
  /\ Cardinality(LiveSlots) + reaps = Users + Begun + runs
  /\ free + heap + StackCost * Cardinality(StackSlots) + SpaceHeld = Baseline

(* What the event loop has computed is at most out of date. *)
Expectation ==
  \E k \in restarts + 1..reaps : loop.expected = InitialFree + Cost * (k - restarts)

UpToDate == loop.expected = InitialFree + Cost * (reaps - restarts)

LoopInv ==
  /\ loop.at \in {"limit", "compare", "before", "restart", "verify"} =>
       restarts < RestartTarget /\ reaps > restarts
  /\ loop.at \in {"limit", "compare"} => Expectation
  /\ loop.at \in {"before", "restart"} =>
       free >= Cost /\ Cardinality(StackSlots) < Users /\ Cardinality(spaces) < Users
  /\ restarts <= RestartTarget

(* What waits may still come before the next tick has reaped the stack of  *)
(* a process that ended, or the loop has seen how many ended.              *)
Due ==
  \/ pendingReap # {} /\ (loop.at \in {"input", "check", "limit"} \/ (loop.at = "wait" /\ tick))
  \/ loop.at = "limit" /\ ~UpToDate

Owed == (IF pendingReap # {} THEN MaxKeys - keys ELSE 0) + (IF Due THEN 1 ELSE 0)

(* The wait of a round that ends in a restart. *)
Credit ==
  IF \/ loop.at \in {"before", "restart", "verify"}
     \/ loop.at = "compare" /\ pendingReap = {} /\ UpToDate
  THEN 1 ELSE 0

WaitInv ==
  Undisturbed =>
    /\ waits + Owed <= (MaxKeys + 2) * reaps + Credit
    /\ panic # "none" => panic = "leaked" /\ loop.at = "verify"

AccountInv ==
  /\ Counters /\ StackInv /\ RecordInv /\ CountInv /\ LoopInv /\ WaitInv
  /\ panic # "restart_failed"

LEMMA CostsNat ==
  /\ StackCost \in Nat /\ SpaceCost \in Nat /\ HeapCost \in Nat /\ InitialFree \in Nat
  /\ StackCost > 0 /\ SpaceCost > 0 /\ HeapCost > 0
  /\ RestartTarget \in Nat /\ WaitLimit \in Nat /\ MaxKeys \in Nat /\ Users \in Nat
  /\ ImageCost \in Nat /\ MaxRuns \in Nat
  /\ DriverBlocks \in Nat /\ DriverBlocks > 0 /\ DriverBlocks < StackCost
  /\ Cost \in Nat /\ Cost = StackCost + SpaceCost /\ Cost > 0
  BY KernelConstants DEF Cost

LEMMA FiniteSlots ==
  ASSUME Tables
  PROVE  /\ IsFiniteSet(UserSlots) /\ IsFiniteSet(StackSlots) /\ IsFiniteSet(LiveSlots)
         /\ IsFiniteSet(spaces) /\ IsFiniteSet(Active)
         /\ Cardinality(StackSlots) \in Nat /\ Cardinality(LiveSlots) \in Nat
         /\ Cardinality(spaces) \in Nat /\ Cardinality(Active) \in Nat
<1>1. 1 \in Int /\ taskCount - 1 \in Int /\ MaxProcesses \in Int
  BY ConstantsNat DEF Tables
<1>2. IsFiniteSet(1..taskCount - 1) /\ IsFiniteSet(1..MaxProcesses)
  BY <1>1, FS_Interval, Zenon
<1>3. UserSlots \in SUBSET (1..taskCount - 1) /\ spaces \in SUBSET (1..MaxProcesses)
      /\ Active \in SUBSET (1..MaxProcesses)
  BY Zenon DEF UserSlots, Tables, Spaces, Active
<1>4. IsFiniteSet(UserSlots) /\ IsFiniteSet(spaces) /\ IsFiniteSet(Active)
  BY <1>2, <1>3, FS_Subset, Zenon
<1>5. StackSlots \in SUBSET UserSlots /\ LiveSlots \in SUBSET UserSlots
  BY Zenon DEF StackSlots, LiveSlots
<1>6. IsFiniteSet(StackSlots) /\ IsFiniteSet(LiveSlots)
  BY <1>4, <1>5, FS_Subset, Zenon
<1> QED BY <1>4, <1>6, FS_CardinalityType, Zenon

LEMMA FiniteRan ==
  ASSUME Tables, ran \subseteq spaces
  PROVE  IsFiniteSet(ran) /\ Cardinality(ran) \in Nat /\ SpaceHeld \in Nat
<1>1. IsFiniteSet(ran) /\ Cardinality(ran) \in Nat /\ Cardinality(spaces) \in Nat
  BY FiniteSlots, FS_Subset, FS_CardinalityType, Zenon
<1> QED BY <1>1, CostsNat DEF SpaceHeld

(* Everything that waits is reaped: the running task is alive. *)
LEMMA PendingStacks ==
  ASSUME KernelInv, MailInv, StackInv
  PROVE  /\ current \notin pendingReap /\ pendingReap \in SUBSET StackSlots
         /\ pendingReap \in SUBSET Slots
         /\ Reapable(pendingReap) = pendingReap
         /\ Reapable(pendingReap \cup {current}) = pendingReap
<1>1. pendingReap \subseteq 1..taskCount - 1 /\ 1..taskCount - 1 \subseteq Slots
  BY SlotRanges, Zenon DEF MailInv, Framed, KernelInv
<1>2. current \notin pendingReap
  <2>1. CASE current = 0
    BY <1>1, <2>1
  <2>2. CASE current # 0
    <3>1. Live(current) /\ current \in Slots
      BY <2>2, SlotRanges, Zenon DEF StackInv, KernelInv
    <3> QED BY <3>1, Zenon DEF MailInv, Framed
  <2> QED BY <2>1, <2>2, Zenon
<1>3. pendingReap \in SUBSET StackSlots
  BY <1>1, Zenon DEF StackInv, StackSlots
<1> QED BY <1>1, <1>2, <1>3, Zenon DEF Reapable

(* The table from which schedule_from_frame chooses: the old one, but for  *)
(* the states of tasks; ended is the slot that ended, if any.              *)
Handed(table, ended) ==
  /\ table \in [Slots -> TaskRecord]
  /\ \A s \in Slots : /\ table[s].mode = tasks[s].mode /\ table[s].stack = tasks[s].stack
                      /\ table[s].frame = tasks[s].frame
                      /\ table[s].state = "terminated" <=>
                           tasks[s].state = "terminated" \/ s \in ended
  /\ table[EventLoop].state = "runnable" /\ table[EventLoop].frame

Settled(ended) ==
  /\ UserSlots' = UserSlots /\ LiveSlots' = LiveSlots \ ended
  /\ StackSlots' = StackSlots \ pendingReap /\ pendingReap' = ended
  /\ StackInv'

-----------------------------------------------------------------------------
(* Counting. *)

LEMMA Times ==
  ASSUME NEW a \in Nat, NEW m \in Nat, NEW n \in Nat
  PROVE  /\ a * n \in Nat /\ a * (m + n) = a * m + a * n /\ a * (n + 1) = a * n + a
         /\ m <= n => a * (n - m) = a * n - a * m /\ a * m <= a * n
  OBVIOUS

(* At most one stack waits, so there is at most one more than live tasks.  *)
LEMMA StacksOfLive ==
  ASSUME KernelInv, MailInv, StackInv
  PROVE  /\ Cardinality(StackSlots) <= Cardinality(LiveSlots) + 1
         /\ Cardinality(LiveSlots) <= Cardinality(StackSlots)
         /\ pendingReap = {} => StackSlots = LiveSlots
<1>1. StackSlots = LiveSlots \cup pendingReap
  <2>1. pendingReap \in SUBSET StackSlots
    BY PendingStacks, Zenon
  <2>2. \A s \in UserSlots : tasks[s].stack <=> tasks[s].state # "terminated" \/ s \in pendingReap
    BY Zenon DEF StackInv, UserSlots, Live
  <2> QED BY <2>1, <2>2, Zenon DEF StackSlots, LiveSlots
<1>2. IsFiniteSet(LiveSlots) /\ Cardinality(LiveSlots) \in Nat
  BY FiniteSlots, Zenon DEF KernelInv
<1>3. CASE pendingReap = {}
  <2>1. StackSlots = LiveSlots
    BY <1>1, <1>3, Zenon
  <2> QED BY <1>2, <2>1
<1>4. CASE pendingReap # {}
  <2>1. PICK x : pendingReap = {x}
    BY <1>4 DEF StackInv
  <2>2. Cardinality(StackSlots) = IF x \in LiveSlots THEN Cardinality(LiveSlots)
                                  ELSE Cardinality(LiveSlots) + 1
    BY <1>1, <1>2, <2>1, FS_AddElement, Zenon
  <2> QED BY <1>2, <1>4, <2>2
<1> QED BY <1>3, <1>4, Zenon

LEMMA CounterTypes ==
  ASSUME AccountInv
  PROVE  /\ free \in Nat /\ reaps \in Nat /\ restarts \in Nat /\ waits \in Nat /\ keys \in Nat
         /\ heap \in Nat /\ keys <= MaxKeys /\ returned \in Nat /\ returned < StackCost
         /\ runs \in Nat /\ runs <= MaxRuns
         /\ loop \in [at : Places, expected : Nat, before : Nat]
         /\ loop.at \in Places /\ loop.expected \in Nat /\ loop.before \in Nat
         /\ tick \in BOOLEAN /\ panic \in Panics
  BY CostsNat DEF AccountInv, Counters

LEMMA OwedTypes ==
  ASSUME keys \in 0..MaxKeys, keys' \in 0..MaxKeys
  PROVE  /\ Owed \in Nat /\ Credit \in 0..1
         /\ Owed' \in Nat /\ Credit' \in 0..1
<1>1. ASSUME NEW n \in 0..MaxKeys
      PROVE  {MaxKeys - n + 1, MaxKeys - n + 0, 0 + 1, 0 + 0} \subseteq Nat /\ {0, 1} \subseteq 0..1
  BY CostsNat
<1>2. /\ Owed \in {MaxKeys - keys + 1, MaxKeys - keys + 0, 0 + 1, 0 + 0} /\ Credit \in {0, 1}
      /\ Owed' \in {MaxKeys - keys' + 1, MaxKeys - keys' + 0, 0 + 1, 0 + 0} /\ Credit' \in {0, 1}
  BY Zenon DEF Owed, Credit
<1> QED BY <1>1, <1>2, Zenon

LEMMA SameWaits ==
  ASSUME AccountInv
  PROVE  /\ Owed \in Nat /\ Credit \in 0..1
         /\ waits + Owed + Credit <= waits + Owed + Credit
<1>1. Owed \in Nat /\ Credit \in 0..1
  BY CounterTypes, CostsNat DEF Owed, Credit
<1> QED BY <1>1, CounterTypes

LEMMA Paid ==
  ASSUME NEW v \in Nat, NEW w \in Nat, NEW o \in Nat, NEW p \in Nat, NEW c \in 0..1, NEW d \in 0..1,
         NEW budget \in Nat, w + p + c <= v + o + d, v + o <= budget + c
  PROVE  w + p <= budget + d
  OBVIOUS

(* A step pays for what it adds to the waits. *)
LEMMA WaitKept ==
  ASSUME AccountInv, Counters', reaps' = reaps, Undisturbed' => Undisturbed,
         Undisturbed => waits' + Owed' + Credit <= waits + Owed + Credit',
         Undisturbed /\ panic' # "none" => panic' = "leaked" /\ loop'.at = "verify"
  PROVE  WaitInv'
<1>1. /\ Owed \in Nat /\ Credit \in 0..1 /\ Owed' \in Nat /\ Credit' \in 0..1
      /\ waits \in Nat /\ waits' \in Nat
  BY OwedTypes, Zenon DEF AccountInv, Counters
<1> DEFINE budget == (MaxKeys + 2) * reaps
<1>2. budget \in Nat
  BY CounterTypes, CostsNat
<1>3. Undisturbed => waits + Owed <= budget + Credit
  BY Zenon DEF AccountInv, WaitInv
<1> HIDE DEF budget
<1>4. Undisturbed => waits' + Owed' <= budget + Credit'
  BY <1>1, <1>2, <1>3, Paid, Zenon
<1> QED BY <1>4, Zenon DEF WaitInv, budget

-----------------------------------------------------------------------------
(* The accounts and schedule_from_frame. *)

SupervisorStays ==
  /\ loop' = loop /\ restarts' = restarts /\ waits' = waits
  /\ heap' = heap /\ returned' = returned /\ runs' = runs

LEMMA SwitchAccounts ==
  /\ KernelInv /\ KernelInv' /\ MailInv /\ AccountInv
  /\ Timer \/ SyscallYield \/ SyscallReceiveWait \/ UserEnds
  => AccountInv'
(* What schedule_from_frame does to stacks: those that wait are reaped. *)
<1>TicksOnly.
  ASSUME NEW mid \in [Slots -> TaskRecord], NEW i \in Slots, NEW n, NEW s \in Slots, NEW new,
         new = [mid EXCEPT ![i].ticks = n]
  PROVE  new[s].stack = mid[s].stack /\ new[s].frame = mid[s].frame
  <2> USE <1>TicksOnly
  <2>1. new = [mid EXCEPT ![i] = [mid[i] EXCEPT !.ticks = n]]
    BY Zenon
  <2>2. CASE s = i
    <3>1. new[s] = [mid[i] EXCEPT !.ticks = n] /\ mid[i] \in TaskRecord
      BY <2>1, <2>2, Zenon
    <3> QED BY <2>2, <3>1, Zenon DEF TaskRecord
  <2>3. CASE s # i
    <3>1. new[s] = mid[s]
      BY <2>1, <2>3, Zenon
    <3> QED BY <3>1, Zenon
  <2> QED BY <2>2, <2>3, Zenon
<1>SavedStacks.
  ASSUME NEW table \in [Slots -> TaskRecord], NEW pending, NEW s \in Slots
  PROVE  /\ Saved(table, pending)[s].stack <=> table[s].stack /\ s \notin Reapable(pending)
         /\ table[s].mode = "user" /\ Saved(table, pending)[s].frame =>
              table[s].frame /\ s \notin Reapable(pending)
  <2> USE <1>SavedStacks
  <2> DEFINE new == Saved(table, pending)[s]
             t == table[s]
  <2>0. t \in TaskRecord
    BY Zenon
  <2>1. CASE s \in Reapable(pending)
    <3>1. new = [t EXCEPT !.stack = FALSE, !.frame = FALSE]
      BY <2>1, Zenon DEF Saved
    <3> HIDE DEF t, new
    <3>2. new.stack = FALSE /\ new.frame = FALSE
      BY <2>0, <3>1, Zenon DEF TaskRecord
    <3> QED BY <2>1, <3>2, Zenon DEF t, new
  <2>2. CASE s \notin Reapable(pending) /\ s = current /\ table[s].mode = "kernel"
    <3>1. new = [t EXCEPT !.frame = TRUE]
      BY <2>2, Zenon DEF Saved
    <3> HIDE DEF t, new
    <3>2. new.stack = t.stack
      BY <2>0, <3>1, Zenon DEF TaskRecord
    <3> QED BY <2>2, <3>2, Zenon DEF t, new
  <2>3. CASE s \notin Reapable(pending) /\ ~(s = current /\ table[s].mode = "kernel")
    <3>1. new = t
      BY <2>3, Zenon DEF Saved
    <3> QED BY <2>3, <3>1, Zenon
  <2> QED BY <2>1, <2>2, <2>3, Zenon
<1>ScheduleStacks.
  ASSUME Tables, NEW table \in [Slots -> TaskRecord], NEW pending \in SUBSET Slots, NEW blocks,
         NEW directory, NEW valid, NEW force \in BOOLEAN,
         Schedule(table, pending, blocks, directory, valid, force)
  PROVE  /\ \A s \in Slots :
              /\ tasks'[s].stack <=> table[s].stack /\ s \notin Reapable(pending)
              /\ table[s].mode = "user" /\ tasks'[s].frame =>
                   table[s].frame /\ s \notin Reapable(pending)
         /\ pendingReap' = pending \ Reapable(pending)
         /\ free' = blocks + ReapedBlocks(table, pending)
  <2> USE <1>ScheduleStacks
  <2> DEFINE mid == Saved(table, pending)
  <2>1. /\ Dispatch(mid, directory, valid, force)
        /\ pendingReap' = pending \ Reapable(pending)
        /\ free' = blocks + ReapedBlocks(table, pending)
    BY Zenon DEF Schedule
  <2>2. mid \in [Slots -> TaskRecord]
    BY SavedKeeps, Zenon DEF Kept
  <2>3. \A s \in Slots : /\ mid[s].stack <=> table[s].stack /\ s \notin Reapable(pending)
                         /\ table[s].mode = "user" /\ mid[s].frame =>
                              table[s].frame /\ s \notin Reapable(pending)
    BY <1>SavedStacks, Zenon
  <2> HIDE DEF mid
  <2>4. \A s \in Slots : tasks'[s].stack = mid[s].stack /\ tasks'[s].frame = mid[s].frame
    <3>1. \/ tasks' = mid
          \/ \E n : tasks' = [mid EXCEPT ![current].ticks = n]
          \/ ReadyOffsets(mid) # {} /\ \E n : tasks' = [mid EXCEPT ![NextRunnable(mid)].ticks = n]
      BY <2>1, Zenon DEF Dispatch
    <3>2. current \in Slots
      BY SlotRanges, Zenon
    <3>3. CASE tasks' = mid
      BY <3>3, Zenon
    <3>4. CASE \E n : tasks' = [mid EXCEPT ![current].ticks = n]
      <4>1. PICK n : tasks' = [mid EXCEPT ![current].ticks = n]
        BY <3>4, Zenon
      <4> QED BY <2>2, <3>2, <4>1, <1>TicksOnly
    <3>5. CASE ReadyOffsets(mid) # {} /\ \E n : tasks' = [mid EXCEPT ![NextRunnable(mid)].ticks = n]
      <4>1. NextRunnable(mid) \in Slots
        BY <3>5, NextIsReady, ConstantsNat DEF Tables, Slots
      <4>2. PICK n : tasks' = [mid EXCEPT ![NextRunnable(mid)].ticks = n]
        BY <3>5, Zenon
      <4> QED BY <2>2, <4>1, <4>2, <1>TicksOnly
    <3> QED BY <3>1, <3>3, <3>4, <3>5, Zenon
  <2> QED BY <2>1, <2>3, <2>4, Zenon
<1>PendingBlocks.
  ASSUME KernelInv, MailInv, StackInv, NEW table, NEW pending,
         Reapable(pending) = pendingReap, \A s \in Slots : table[s].stack = tasks[s].stack
  PROVE  ReapedBlocks(table, pending) = StackCost * Cardinality(pendingReap)
  <2> USE <1>PendingBlocks
  <2>1. pendingReap \in SUBSET StackSlots /\ pendingReap \in SUBSET Slots
    BY PendingStacks, Zenon
  <2>2. {s \in Reapable(pending) : table[s].stack} = pendingReap
    BY <2>1, Zenon DEF StackSlots
  <2> QED BY <2>2, Zenon DEF ReapedBlocks
<1>ScheduleSettles.
  ASSUME KernelInv, MailInv, StackInv, NEW table, NEW ended, NEW blocks, NEW directory, NEW valid,
         NEW force \in BOOLEAN, Handed(table, ended),
         ended = {} \/ (ended = {current} /\ LiveUser(current)),
         Schedule(table, pendingReap \cup ended, blocks, directory, valid, force),
         taskCount' = taskCount
  PROVE  Settled(ended) /\ free' = blocks + StackCost * Cardinality(pendingReap)
  <2> USE <1>ScheduleSettles
  <2> DEFINE pending == pendingReap \cup ended
  <2>1. /\ current \notin pendingReap /\ pendingReap \in SUBSET StackSlots
        /\ pendingReap \in SUBSET Slots /\ Reapable(pending) = pendingReap
        /\ current \in Slots /\ 1..taskCount - 1 \subseteq Slots /\ UserSlots \subseteq Slots
        /\ EventLoop \in 1..taskCount - 1 /\ Tables
    BY PendingStacks, SlotRanges, Zenon DEF KernelInv
  <2>2. EventLoop \notin pending
    <3>1. tasks[EventLoop].state # "terminated" /\ table[EventLoop].state = "runnable"
          /\ EventLoop \notin pendingReap /\ EventLoop \in Slots
      BY <2>1, Zenon DEF KernelInv, LoopReady, Handed
    <3> QED BY <3>1, Zenon DEF Handed
  <2>3. pending \in SUBSET Slots /\ table \in [Slots -> TaskRecord]
    BY <2>1, Zenon DEF Handed
  <2>4. /\ Kept(tasks', table, pending) /\ Switched(table, directory, valid)
    <3>1. table[EventLoop].state = "runnable" /\ table[EventLoop].frame
      BY Zenon DEF Handed
    <3> HIDE DEF pending
    <3>2. Schedule(table, pending, blocks, directory, valid, force)
      BY Zenon DEF pending
    <3> QED BY <2>1, <2>2, <2>3, <3>1, <3>2, ScheduleEffect
  <2>5. /\ \A s \in Slots :
             /\ tasks'[s].stack <=> tasks[s].stack /\ s \notin pendingReap
             /\ tasks[s].mode = "user" /\ tasks'[s].frame => tasks[s].frame /\ s \notin pendingReap
        /\ pendingReap' = ended
        /\ free' = blocks + ReapedBlocks(table, pending)
    <3>1. /\ \A s \in Slots :
                /\ tasks'[s].stack <=> table[s].stack /\ s \notin Reapable(pending)
                /\ table[s].mode = "user" /\ tasks'[s].frame =>
                     table[s].frame /\ s \notin Reapable(pending)
           /\ pendingReap' = pending \ Reapable(pending)
           /\ free' = blocks + ReapedBlocks(table, pending)
      <4>1. Schedule(table, pending, blocks, directory, valid, force)
        OBVIOUS
      <4> HIDE DEF pending
      <4> QED BY <2>1, <2>3, <4>1, <1>ScheduleStacks
    <3>2. pending \ Reapable(pending) = ended
      BY <2>1, Zenon
    <3> QED BY <2>1, <3>1, <3>2, Zenon DEF Handed
  <2>6. free' = blocks + StackCost * Cardinality(pendingReap)
    <3>1. \A s \in Slots : table[s].stack = tasks[s].stack
      BY Zenon DEF Handed
    <3> HIDE DEF pending
    <3> QED BY <2>1, <2>5, <3>1, <1>PendingBlocks, Zenon
  <2>7. \A s \in Slots : /\ tasks'[s].mode = tasks[s].mode
                         /\ tasks'[s].state = "terminated" <=>
                              tasks[s].state = "terminated" \/ s \in ended
    BY <2>4 DEF Kept, Same, Handed
  <2>8. UserSlots' = UserSlots
    BY <2>1, <2>7, Zenon DEF UserSlots
  <2>9. LiveSlots' = LiveSlots \ ended
    BY <2>1, <2>7, <2>8, Zenon DEF LiveSlots
  <2>10. StackSlots' = StackSlots \ pendingReap
    BY <2>1, <2>5, <2>8, Zenon DEF StackSlots
  <2>11. StackInv'
    <3>1. ASSUME NEW s \in 1..taskCount - 1
          PROVE  tasks'[s].stack <=> Live(s)' \/ s \in pendingReap'
      <4>1. s \in Slots /\ (tasks[s].stack <=> Live(s) \/ s \in pendingReap)
        BY <2>1, Zenon DEF StackInv
      <4>2. Live(s) => s \notin pendingReap
        BY <4>1, Zenon DEF MailInv, Framed
      <4>3. s \in ended => Live(s)
        BY Zenon DEF LiveUser
      <4>4. Live(s)' <=> Live(s) /\ s \notin ended
        BY <2>7, <4>1, Zenon DEF Live
      <4> QED BY <2>5, <4>1, <4>2, <4>3, <4>4, Zenon
    <3>2. \A s \in UserSlots' : tasks'[s].frame => tasks'[s].stack
      BY <2>1, <2>5, <2>8, Zenon DEF StackInv, UserSlots
    <3>3. pendingReap' \subseteq UserSlots' /\ \A s, t \in pendingReap' : s = t
      BY <2>1, <2>5, <2>8, Zenon DEF UserSlots, LiveUser, Live
    <3>4. current' # 0 => Live(current)'
      <4>1. current' \in 0..taskCount - 1 /\ table[current'].state = "runnable"
        BY <2>1, <2>4, Zenon DEF Switched, Tables
      <4>2. current' \in Slots
        BY <4>1, ConstantsNat DEF KernelInv, Tables, Slots
      <4>3. tasks'[current'].state # "terminated"
        BY <2>4, <4>1, <4>2, Zenon DEF Kept, Same
      <4> QED BY <4>1, <4>3 DEF Live
    <3> QED BY <3>1, <3>2, <3>3, <3>4, Zenon DEF StackInv
  <2> QED BY <2>5, <2>6, <2>8, <2>9, <2>10, <2>11, Zenon DEF Settled
<1>StacksReaped.
  ASSUME Tables, pendingReap \in SUBSET StackSlots, NEW left, left = StackSlots \ pendingReap
  PROVE  /\ Cardinality(pendingReap) \in Nat /\ Cardinality(left) \in Nat
         /\ Cardinality(left) <= Cardinality(StackSlots)
         /\ StackCost * Cardinality(pendingReap) \in Nat
         /\ StackCost * Cardinality(left) + StackCost * Cardinality(pendingReap)
              = StackCost * Cardinality(StackSlots)
  <2> USE <1>StacksReaped
  <2>1. IsFiniteSet(StackSlots) /\ Cardinality(StackSlots) \in Nat
    BY FiniteSlots, Zenon
  <2>2. IsFiniteSet(pendingReap) /\ Cardinality(pendingReap) <= Cardinality(StackSlots)
    BY <2>1, FS_Subset, Zenon
  <2>3. Cardinality(pendingReap) \in Nat
    BY <2>2, FS_CardinalityType, Zenon
  <2>4. StackSlots \cap pendingReap = pendingReap
    BY Zenon
  <2>5. Cardinality(left) = Cardinality(StackSlots) - Cardinality(pendingReap)
    <3>1. Cardinality(StackSlots \ pendingReap)
            = Cardinality(StackSlots) - Cardinality(StackSlots \cap pendingReap)
      BY <2>1, FS_Difference, Zenon
    <3> QED BY <2>4, <3>1, Zenon
  <2> DEFINE m == Cardinality(pendingReap)
             n == Cardinality(StackSlots)
             c == Cardinality(left)
  <2>6. m \in Nat /\ n \in Nat /\ m <= n /\ c = n - m
    BY <2>1, <2>2, <2>3, <2>5, Zenon
  <2> HIDE DEF m, n, c
  <2>7. StackCost * m \in Nat /\ StackCost * c + StackCost * m = StackCost * n /\ c <= n /\ c \in Nat
    BY <2>6, CostsNat
  <2> QED BY <2>6, <2>7, Zenon DEF m, n, c
<1>OneLess.
  ASSUME NEW S, NEW x \in S, IsFiniteSet(S), NEW T, T = S \ {x}
  PROVE  Cardinality(T) \in Nat /\ Cardinality(S) = Cardinality(T) + 1
  <2> USE <1>OneLess
  <2>1. Cardinality(T) = Cardinality(S) - 1 /\ IsFiniteSet(T)
    BY FS_RemoveElement, Zenon
  <2>2. Cardinality(T) \in Nat /\ Cardinality(S) \in Nat
    BY <2>1, FS_CardinalityType, Zenon
  <2> QED BY <2>1, <2>2
(* A tick, a yield or a wait reaps what is pending. *)
<1>ScheduleAccounts.
  ASSUME KernelInv, MailInv, AccountInv, Settled({}),
         free' = free + StackCost * Cardinality(pendingReap),
         generation' = generation, processes' = processes, spaces' = spaces, ran' = ran,
         reaps' = reaps, SupervisorStays, panic' = panic, tick' \in {tick, TRUE},
         keys' \in {keys, 0}, cr3' \in spaces \cup {Kernel}
  PROVE  AccountInv'
  <2> USE <1>ScheduleAccounts
  <2>1. /\ UserSlots' = UserSlots /\ LiveSlots' = LiveSlots
        /\ StackSlots' = StackSlots \ pendingReap /\ pendingReap' = {} /\ StackInv'
    BY Zenon DEF Settled
  <2>2. /\ pendingReap \in SUBSET StackSlots /\ Tables
    BY PendingStacks, Zenon DEF KernelInv, AccountInv
  <2>3. /\ Cardinality(StackSlots') <= Cardinality(StackSlots)
        /\ Cardinality(StackSlots') \in Nat /\ Cardinality(StackSlots) \in Nat
        /\ StackCost * Cardinality(pendingReap) \in Nat
        /\ StackCost * Cardinality(StackSlots') + StackCost * Cardinality(pendingReap)
             = StackCost * Cardinality(StackSlots)
    BY <2>1, <2>2, <1>StacksReaped, FiniteSlots, Zenon
  <2>4. Counters'
    <3>1. free' \in Nat
      BY <2>3 DEF AccountInv, Counters
    <3>2. keys' \in 0..MaxKeys
      BY CostsNat DEF AccountInv, Counters
    <3> QED BY <3>1, <3>2, Zenon DEF AccountInv, Counters, SupervisorStays
  <2>5. Begun' = Begun /\ Active' = Active
    BY Zenon DEF Begun, Active, SupervisorStays
  <2>6. RecordInv'
    BY <2>1, <2>5, Zenon DEF AccountInv, RecordInv, SupervisorStays
  <2>7. CountInv'
    <3> DEFINE a == StackCost * Cardinality(StackSlots')
               b == StackCost * Cardinality(pendingReap)
               c == StackCost * Cardinality(StackSlots)
    <3>1. a \in Nat /\ b \in Nat /\ c \in Nat /\ SpaceHeld \in Nat /\ a + b = c
      BY <2>2, <2>3, FiniteSlots, FiniteRan, CostsNat DEF AccountInv, Counters
    <3>2. free + heap + c + SpaceHeld = Baseline
      BY Zenon DEF AccountInv, CountInv
    <3>3. /\ free' = free + b /\ heap' = heap /\ runs' = runs /\ Baseline' = Baseline
          /\ SpaceHeld' = SpaceHeld
      BY Zenon DEF SupervisorStays, Baseline, SpaceHeld
    <3>4. free \in Nat /\ heap \in Nat
      BY CounterTypes, Zenon
    <3> HIDE DEF a, b, c
    <3>5. free' + heap + a + SpaceHeld = Baseline
      BY <3>1, <3>2, <3>3, <3>4
    <3> QED BY <2>1, <2>5, <3>3, <3>5, Zenon DEF AccountInv, CountInv, a
  <2>8. LoopInv'
    <3>1. free' >= free
      BY <2>3 DEF AccountInv, Counters
    <3>2. Expectation' <=> Expectation
      BY Zenon DEF Expectation, SupervisorStays
    <3>3. free \in Nat /\ free' \in Nat
      BY <2>4, Zenon DEF AccountInv, Counters
    <3> QED BY <2>3, <3>1, <3>2, <3>3, CostsNat, ConstantsNat DEF AccountInv, LoopInv,
               SupervisorStays
  <2>9. WaitInv'
    <3>1. UpToDate' <=> UpToDate
      BY Zenon DEF UpToDate, SupervisorStays
    <3>2. loop' = loop /\ waits' = waits /\ (Undisturbed' <=> Undisturbed)
      BY Zenon DEF SupervisorStays, Undisturbed
    <3>3. Owed' <= Owed /\ Credit <= Credit'
      BY <2>1, <3>1, <3>2, CounterTypes, CostsNat DEF Owed, Due, Credit
    <3>4. waits' + Owed' + Credit <= waits + Owed + Credit'
      <4>1. /\ Owed \in Int /\ Credit \in Int /\ Owed' \in Int /\ Credit' \in Int
        BY <2>1, <3>1, <3>2, CounterTypes, CostsNat DEF Owed, Credit
      <4> QED BY <3>2, <3>3, <4>1, CounterTypes
    <3>5. Undisturbed /\ panic' # "none" => panic' = "leaked" /\ loop'.at = "verify"
      BY <3>2, Zenon DEF AccountInv, WaitInv
    <3> QED BY <2>4, <3>2, <3>4, <3>5, WaitKept, Zenon
  <2> QED BY <2>1, <2>4, <2>6, <2>7, <2>8, <2>9, Zenon DEF AccountInv
(* The panics of schedule_from_frame are excluded, so it ends in a task.   *)
<1>SwitchedSpace.
  ASSUME NEW table, NEW directory, NEW valid, Switched(table, directory, valid),
         SchedulerNeverPanics', directory \in valid \cup {Kernel}
  PROVE  panic' = panic /\ cr3' \in valid \cup {Kernel}
  BY <1>SwitchedSpace, Zenon DEF Switched, SchedulerNeverPanics
<1>TickAccounts.
  ASSUME KernelInv, MailInv, AccountInv, KernelInv', Timer \/ SyscallYield \/ SyscallReceiveWait
  PROVE  AccountInv'
  <2> USE <1>TickAccounts
  <2> DEFINE blocked == [tasks EXCEPT ![current].state = "blocked"]
  <2>1. PICK table, force :
           /\ force \in BOOLEAN /\ Schedule(table, pendingReap, free, cr3, spaces, force)
           /\ \/ table = tasks
              \/ /\ table = blocked
                 /\ tasks[current].mode = "user" /\ tasks[current].state = "runnable"
    <3>1. CASE Timer
      <4>1. Schedule(tasks, pendingReap, free, cr3, spaces, FALSE)
        BY <3>1, Zenon DEF Timer
      <4> QED BY <4>1, Zenon
    <3>2. CASE SyscallYield
      <4>1. Schedule(tasks, pendingReap, free, cr3, spaces, TRUE)
        BY <3>2, Zenon DEF SyscallYield
      <4> QED BY <4>1, Zenon
    <3>3. CASE SyscallReceiveWait
      <4>1. /\ Schedule(blocked, pendingReap, free, cr3, spaces, TRUE)
            /\ tasks[current].mode = "user" /\ tasks[current].state = "runnable"
        BY <3>3, Zenon DEF SyscallReceiveWait, UserRuns, LiveUser
      <4> HIDE DEF blocked
      <4> QED BY <4>1, Zenon
    <3> QED BY <3>1, <3>2, <3>3, Zenon
  <2>2. /\ taskCount' = taskCount /\ generation' = generation /\ processes' = processes
        /\ spaces' = spaces /\ ran' = ran /\ reaps' = reaps /\ SupervisorStays
        /\ tick' \in {tick, TRUE} /\ keys' \in {keys, 0}
    BY Zenon DEF Timer, SyscallYield, SyscallReceiveWait, supervisor, ledger, SupervisorStays
  <2>3. tasks \in [Slots -> TaskRecord] /\ current \in Slots /\ EventLoop \in Slots
    BY ConstantsNat DEF KernelInv, Tables, Slots
  <2>4. Handed(table, {})
    <3>1. CASE table = tasks
      BY <2>3, <3>1, Zenon DEF Handed, KernelInv, LoopReady
    <3>2. CASE table = blocked /\ tasks[current].mode = "user" /\ tasks[current].state = "runnable"
      <4>1. blocked \in [Slots -> TaskRecord]
        BY <2>3 DEF TaskRecord
      <4>2. \A s \in Slots : /\ blocked[s].mode = tasks[s].mode /\ blocked[s].stack = tasks[s].stack
                             /\ blocked[s].frame = tasks[s].frame
                             /\ blocked[s].state = "terminated" <=> tasks[s].state = "terminated"
        BY <2>3, <3>2, Zenon DEF TaskRecord
      <4>3. blocked[EventLoop].state = "runnable" /\ blocked[EventLoop].frame
        BY <2>3, <3>2, Zenon DEF KernelInv, LoopReady
      <4> HIDE DEF blocked
      <4> QED BY <3>2, <4>1, <4>2, <4>3, Zenon DEF Handed
    <3> QED BY <2>1, <3>1, <3>2, Zenon
  <2> HIDE DEF blocked
  <2>5. Settled({}) /\ free' = free + StackCost * Cardinality(pendingReap)
    <3>1. pendingReap \cup {} = pendingReap /\ StackInv
      BY Zenon DEF AccountInv
    <3> QED BY <2>1, <2>2, <2>4, <3>1, <1>ScheduleSettles, ZenonT(30)
  <2>6. Switched(table, cr3, spaces)
    <3>1. /\ table \in [Slots -> TaskRecord] /\ Tables /\ pendingReap \in SUBSET Slots
          /\ table[EventLoop].state = "runnable" /\ table[EventLoop].frame
          /\ EventLoop \notin pendingReap
      BY <2>4, Zenon DEF Handed, KernelInv, LoopReady, Tables
    <3> QED BY <2>1, <3>1, ScheduleEffect, ZenonT(30)
  <2>7. panic' = panic /\ cr3' \in spaces \cup {Kernel}
    BY <2>6, <1>SwitchedSpace, Zenon DEF KernelInv, AccountInv, RecordInv
  <2> QED BY <2>2, <2>5, <2>7, <1>ScheduleAccounts, Zenon
(* An exit or a fault gives back the space; the stack waits, and those     *)
(* that waited are reaped.                                                 *)
<1> DEFINE EndedBlocks == SpaceCost + (IF tasks[current].space \in ran THEN ImageCost ELSE 0)
<1>EndSettles.
  ASSUME KernelInv, MailInv, AccountInv, KernelInv', UserEnds
  PROVE  /\ Settled({current}) /\ current \in LiveSlots
         /\ free' = free + EndedBlocks + StackCost * Cardinality(pendingReap)
         /\ panic' = panic /\ cr3' \in SpacesLeft \cup {Kernel}
  <2> USE <1>EndSettles
  <2>1. UserRuns /\ LiveUser(current) /\ taskCount' = taskCount
    BY Zenon DEF UserEnds, UserRuns
  <2>2. PICK p : Ends(p)
    BY UserEndsEffect, Zenon
  <2>3. Schedule(EndedTable, pendingReap \cup {current}, free + EndedBlocks, Kernel, SpacesLeft, TRUE)
    <3>1. PICK q \in 1..MaxProcesses : /\ Owning(current) = {q}
                                       /\ processes[q].space = tasks[current].space
      BY <2>1, OwnerIsFound, Zenon DEF KernelInv
    <3>2. p \in Owning(current)
      BY <2>2, Zenon DEF Ends, Owning
    <3>3. SpaceBlocks(p) = EndedBlocks
      BY <3>1, <3>2, Zenon DEF SpaceBlocks
    <3> HIDE DEF EndedBlocks
    <3> QED BY <2>2, <3>3, Zenon DEF Ends
  <2>4. Handed(EndedTable, {current})
    <3>1. /\ tasks \in [Slots -> TaskRecord] /\ current \in Slots
          /\ EndedTable \in [Slots -> TaskRecord]
          /\ EndedTable[current].state = "terminated"
          /\ EndedTable[current].mode = tasks[current].mode
          /\ EndedTable[current].stack = tasks[current].stack
          /\ \A s \in Slots : s # current => EndedTable[s] = tasks[s]
          /\ EndedTable[EventLoop].state = "runnable" /\ EndedTable[EventLoop].frame
      BY <2>1, EndedTableFacts, Zenon
    <3>2. EndedTable[current].frame = tasks[current].frame
      BY <3>1 DEF TaskRecord, EndedTable
    <3> QED BY <3>1, <3>2, Zenon DEF Handed
  <2> HIDE DEF EndedBlocks
  <2>5. Settled({current}) /\ free' = free + EndedBlocks + StackCost * Cardinality(pendingReap)
    <3>1. StackInv
      BY Zenon DEF AccountInv
    <3> QED BY <2>1, <2>3, <2>4, <3>1, <1>ScheduleSettles, ZenonT(30)
  <2>6. Switched(EndedTable, Kernel, SpacesLeft)
    BY UserEndsEffect, Zenon
  <2>7. panic' = panic /\ cr3' \in SpacesLeft \cup {Kernel}
    BY <2>6, <1>SwitchedSpace, Zenon DEF KernelInv
  <2>8. current \in LiveSlots
    BY <2>1, Zenon DEF LiveUser, Live, LiveSlots, UserSlots
  <2> QED BY <2>5, <2>7, <2>8, Zenon
<1>EndRecords.
  ASSUME KernelInv, UserEnds
  PROVE  /\ \E p \in Active : Active' = Active \ {p}
         /\ tasks[current].space \in spaces /\ spaces' = spaces \ {tasks[current].space}
         /\ ran' = ran \ {tasks[current].space}
         /\ \A p \in 1..MaxProcesses : processes'[p] = processes[p] \/ processes'[p] = NoProcess
         /\ generation' = generation /\ reaps' = reaps + 1
         /\ SupervisorStays /\ tick' = tick /\ keys' = keys
  <2> USE <1>EndRecords
  <2>1. LiveUser(current) /\ current \in Slots
    BY SlotRanges, Zenon DEF UserEnds, UserRuns, KernelInv
  <2>2. PICK p : Ends(p)
    BY UserEndsEffect, Zenon
  <2>3. /\ p \in 1..MaxProcesses /\ processes[p].active
        /\ processes' = [processes EXCEPT ![p] = NoProcess]
        /\ spaces' = spaces \ {tasks[current].space} /\ generation' = generation
    BY <2>2, Zenon DEF Ends, SpacesLeft
  <2>4. \A q \in 1..MaxProcesses : processes'[q] = IF q = p THEN NoProcess ELSE processes[q]
    BY <2>3, Zenon DEF KernelInv, Tables
  <2>5. p \in Active /\ Active' = Active \ {p}
    BY <2>3, <2>4 DEF Active, NoProcess
  <2>6. tasks[current].space \in spaces
    BY <2>1, Zenon DEF KernelInv, Backed
  <2>7. /\ reaps' = reaps + 1 /\ ran' = ran \ {tasks[current].space}
        /\ SupervisorStays /\ tick' = tick /\ keys' = keys
    <3>1. SupervisorStays /\ tick' = tick /\ keys' = keys
      BY Zenon DEF UserEnds, supervisor, ledger, SupervisorStays
    <3>2. PICK q \in 1..MaxProcesses :
             /\ Owning(current) = {q} /\ Min(Owning(current)) = q /\ processes[q].id = Me
             /\ processes[q].space = tasks[current].space
      BY <2>1, OwnerIsFound, Zenon DEF KernelInv
    <3>3. reaps' = reaps + 1 /\ ran' = ran \ {tasks[current].space}
      BY <3>2, Zenon DEF UserEnds
    <3> QED BY <3>1, <3>3, Zenon
  <2> QED BY <2>3, <2>4, <2>5, <2>6, <2>7, Zenon
<1>EndAccounts.
  ASSUME KernelInv, MailInv, AccountInv, KernelInv', UserEnds
  PROVE  AccountInv'
  <2> USE <1>EndAccounts
  <2>1. /\ Settled({current}) /\ current \in LiveSlots
        /\ free' = free + EndedBlocks + StackCost * Cardinality(pendingReap)
        /\ panic' = panic /\ cr3' \in SpacesLeft \cup {Kernel}
    BY <1>EndSettles, Zenon
  <2>2. PICK p \in Active : Active' = Active \ {p}
    BY <1>EndRecords, Zenon
  <2>3. /\ tasks[current].space \in spaces /\ spaces' = spaces \ {tasks[current].space}
        /\ ran' = ran \ {tasks[current].space}
        /\ \A q \in 1..MaxProcesses : processes'[q] = processes[q] \/ processes'[q] = NoProcess
        /\ generation' = generation /\ reaps' = reaps + 1
        /\ SupervisorStays /\ tick' = tick /\ keys' = keys
    BY <1>EndRecords, Zenon
  <2>4. /\ UserSlots' = UserSlots /\ LiveSlots' = LiveSlots \ {current}
        /\ StackSlots' = StackSlots \ pendingReap /\ StackInv'
    BY <2>1, Zenon DEF Settled
  <2>5. Tables /\ IsFiniteSet(spaces) /\ IsFiniteSet(Active) /\ IsFiniteSet(LiveSlots)
    BY FiniteSlots, Zenon DEF KernelInv
  <2>6. pendingReap \in SUBSET StackSlots
    BY PendingStacks, Zenon DEF AccountInv
  <2> DEFINE m == Cardinality(StackSlots')
             n == Cardinality(StackSlots)
             a == StackCost * Cardinality(StackSlots')
             b == StackCost * Cardinality(pendingReap)
             c == StackCost * Cardinality(StackSlots)
  <2>7. m <= n /\ m \in Nat /\ n \in Nat /\ a \in Nat /\ b \in Nat /\ a + b = c
    <3>1. m <= n /\ m \in Nat /\ b \in Nat /\ a + b = c
      BY <2>4, <2>5, <2>6, <1>StacksReaped, Zenon
    <3>2. n \in Nat
      BY <2>5, FiniteSlots, Zenon
    <3> QED BY <3>1, <3>2, CostsNat
  <2>8. ran \subseteq spaces /\ IsFiniteSet(ran) /\ Cardinality(ran) \in Nat
    BY <2>5, FiniteRan, Zenon DEF AccountInv, Counters
  <2>9. free' = free + EndedBlocks + b /\ EndedBlocks \in Nat /\ free' \in Nat /\ free' >= free
    <3>1. free' = free + EndedBlocks + b /\ EndedBlocks \in Nat
      BY <2>1, CostsNat
    <3> HIDE DEF b, EndedBlocks
    <3> QED BY <2>7, <3>1, CounterTypes
  <2>10. Counters'
    <3>1. ran' \subseteq spaces' /\ (ran = {} => ran' = {})
      BY <2>3, <2>8, Zenon
    <3>2. reaps' \in Nat
      BY <2>3, CounterTypes
    <3> QED BY <2>1, <2>3, <2>9, <3>1, <3>2, Zenon DEF AccountInv, Counters, SupervisorStays
  <2>11. Begun' = Begun /\ Begun \in Nat
    BY <2>3, CounterTypes DEF Begun, SupervisorStays
  <2>12. RecordInv'
    <3>1. cr3' \in spaces' \cup {Kernel}
      BY <2>1, <2>3, Zenon DEF SpacesLeft
    <3>2. \A q \in 1..MaxProcesses : processes'[q].active \/ processes'[q] = NoProcess
      BY <2>3, Zenon DEF AccountInv, RecordInv
    <3> QED BY <2>3, <2>4, <2>11, <3>1, <3>2, Zenon DEF AccountInv, RecordInv, SupervisorStays
  <2>Less. Cardinality(spaces') \in Nat /\ Cardinality(spaces) = Cardinality(spaces') + 1
    BY <2>3, <2>5, <1>OneLess, Zenon
  <2>13. CountInv'
    <3>2. Cardinality(Active') \in Nat /\ Cardinality(Active) = Cardinality(Active') + 1
      BY <2>2, <2>5, <1>OneLess, Zenon
    <3>3. Cardinality(LiveSlots') \in Nat /\ Cardinality(LiveSlots) = Cardinality(LiveSlots') + 1
      BY <2>1, <2>4, <2>5, <1>OneLess, Zenon
    <3>4. /\ Cardinality(spaces') + reaps' = Users + Begun' + runs'
          /\ Cardinality(Active') + reaps' = Users + Begun' + runs'
          /\ Cardinality(LiveSlots') + reaps' = Users + Begun' + runs'
      BY <2>3, <2>11, <2>Less, <3>2, <3>3, CounterTypes, CostsNat DEF AccountInv, CountInv,
         SupervisorStays
    <3>5. SpaceHeld = SpaceHeld' + EndedBlocks /\ SpaceHeld' \in Nat
      <4> DEFINE d == SpaceCost * Cardinality(spaces)
                 e == SpaceCost * Cardinality(spaces')
                 g == ImageCost * Cardinality(ran)
                 h == ImageCost * Cardinality(ran')
      <4>1. d = e + SpaceCost /\ e \in Nat
        BY <2>Less, Times, CostsNat
      <4>2. g + SpaceCost = h + EndedBlocks /\ h \in Nat /\ g \in Nat
        <5>1. CASE tasks[current].space \in ran
          <6>1. Cardinality(ran') \in Nat /\ Cardinality(ran) = Cardinality(ran') + 1
            BY <2>3, <2>8, <5>1, <1>OneLess, Zenon
          <6>2. g = h + ImageCost /\ h \in Nat
            BY <6>1, Times, CostsNat
          <6>3. EndedBlocks = SpaceCost + ImageCost
            BY <5>1, Zenon
          <6> HIDE DEF EndedBlocks, g, h
          <6> QED BY <6>2, <6>3, CostsNat
        <5>2. CASE tasks[current].space \notin ran
          <6>1. ran' = ran
            BY <2>3, <5>2, Zenon
          <6>2. EndedBlocks = SpaceCost + 0
            BY <5>2, Zenon
          <6> QED BY <2>8, <6>1, <6>2, CostsNat
        <5> QED BY <5>1, <5>2, Zenon
      <4>3. SpaceHeld = d + g /\ SpaceHeld' = e + h
        BY Zenon DEF SpaceHeld
      <4> HIDE DEF d, e, g, h, EndedBlocks
      <4> QED BY <2>9, <4>1, <4>2, <4>3, CostsNat
    <3>6. free + heap + c + SpaceHeld = Baseline
      BY Zenon DEF AccountInv, CountInv
    <3>7. heap' = heap /\ Baseline' = Baseline
      BY <2>3, Zenon DEF SupervisorStays, Baseline
    <3>8. free \in Nat /\ heap \in Nat
      BY CounterTypes, Zenon
    <3> HIDE DEF a, b, c, EndedBlocks
    <3>9. free' + heap + a + SpaceHeld' = Baseline
      BY <2>7, <2>9, <3>5, <3>6, <3>8
    <3> QED BY <3>4, <3>7, <3>9, Zenon DEF CountInv, a
  <2>14. LoopInv'
    <3>1. ASSUME Expectation PROVE Expectation'
      <4>1. PICK k \in restarts + 1..reaps : loop.expected = InitialFree + Cost * (k - restarts)
        BY <3>1, Zenon DEF Expectation
      <4>2. k \in restarts' + 1..reaps'
        BY <2>3, CounterTypes DEF SupervisorStays
      <4>3. loop'.expected = InitialFree + Cost * (k - restarts')
        BY <2>3, <4>1, Zenon DEF SupervisorStays
      <4> QED BY <4>2, <4>3, Zenon DEF Expectation
    <3> QED BY <2>3, <2>7, <2>9, <2>Less, <3>1, CounterTypes, CostsNat
            DEF AccountInv, LoopInv, SupervisorStays
  <2>15. WaitInv'
    <3>1. /\ loop' = loop /\ waits' = waits /\ keys' = keys /\ tick' = tick
          /\ (Undisturbed' <=> Undisturbed)
      BY <2>3, Zenon DEF SupervisorStays, Undisturbed
    <3> DEFINE budget == (MaxKeys + 2) * reaps
               later == (MaxKeys + 2) * reaps'
    <3>2. later = budget + (MaxKeys + 2) /\ budget \in Nat
      BY <2>3, Times, CounterTypes, CostsNat
    <3>3. Undisturbed => waits + Owed <= budget + Credit
      BY Zenon DEF AccountInv, WaitInv
    <3>4. /\ Owed \in Nat /\ Owed' \in Nat /\ Credit \in 0..1 /\ Credit' \in 0..1
          /\ Owed' + Credit <= (MaxKeys + 2) + Credit'
      BY <3>1, CounterTypes, CostsNat DEF Owed, Due, Credit
    <3> HIDE DEF budget, later
    <3>5. Undisturbed => waits' + Owed' <= later + Credit'
      <4>1. waits \in Nat /\ MaxKeys + 2 \in Nat
        BY CounterTypes, CostsNat
      <4>2. Undisturbed => waits + Owed' <= budget + (MaxKeys + 2) + Credit'
        <5>1. ASSUME Undisturbed
              PROVE  waits + Owed' <= budget + (MaxKeys + 2) + Credit'
          <6>1. waits + Owed <= budget + Credit
            BY <3>3, <5>1, Zenon
          <6> QED BY <3>2, <3>4, <4>1, <6>1
        <5> QED BY <5>1, Zenon
      <4> QED BY <3>1, <3>2, <4>2, Zenon
    <3>6. Undisturbed /\ panic' # "none" => panic' = "leaked" /\ loop'.at = "verify"
      BY <2>1, <3>1, Zenon DEF AccountInv, WaitInv
    <3> QED BY <3>1, <3>5, <3>6, Zenon DEF WaitInv, later
  <2> QED BY <2>1, <2>4, <2>10, <2>12, <2>13, <2>14, <2>15, Zenon DEF AccountInv
<1> QED BY <1>TickAccounts, <1>EndAccounts, Zenon

-----------------------------------------------------------------------------
(* The accounts and the steps that leave the tables alone. *)

TablesStay ==
  /\ tasks' = tasks /\ taskCount' = taskCount /\ current' = current
  /\ pendingReap' = pendingReap /\ generation' = generation
  /\ processes' = processes /\ spaces' = spaces /\ ran' = ran /\ cr3' = cr3 /\ reaps' = reaps

(* Blocks move between the free ones, the heap and the disk drivers only. *)
Exchanged == free' + heap' + returned = free + heap + returned'

LEMMA StayAccounts ==
  ASSUME KernelInv, AccountInv, TablesStay, Counters', Begun' = Begun, runs' = runs, Exchanged
  PROVE  StackInv' /\ RecordInv' /\ CountInv'
<1>1. UserSlots' = UserSlots /\ StackSlots' = StackSlots /\ LiveSlots' = LiveSlots
      /\ Active' = Active
  BY Zenon DEF TablesStay, UserSlots, StackSlots, LiveSlots, Active
<1>2. StackInv'
  BY <1>1, Zenon DEF AccountInv, StackInv, TablesStay, Live
<1>3. RecordInv'
  BY <1>1, Zenon DEF AccountInv, RecordInv, TablesStay
<1>4. CountInv'
  <2> DEFINE a == StackCost * Cardinality(StackSlots)
             u == (StackCost + SpaceCost) * Users
  <2>1. a \in Nat /\ SpaceHeld \in Nat
    BY FiniteSlots, FiniteRan, CostsNat DEF KernelInv, AccountInv, Counters
  <2>2. u \in Nat
    BY CostsNat
  <2>3. free + heap + a + SpaceHeld = Baseline
    BY Zenon DEF AccountInv, CountInv
  <2>4. Baseline = InitialFree + u + returned /\ Baseline' = InitialFree + u + returned'
    BY Zenon DEF Baseline
  <2>5. /\ free \in Nat /\ heap \in Nat /\ returned \in Nat
        /\ free' \in Nat /\ heap' \in Nat /\ returned' \in Nat
    BY CounterTypes, CostsNat DEF Counters
  <2>6. SpaceHeld' = SpaceHeld
    BY Zenon DEF SpaceHeld, TablesStay
  <2> HIDE DEF a, u
  <2>7. free' + heap' + a + SpaceHeld = Baseline'
    <3> DEFINE f == free'
               h == heap'
               r == returned'
    <3>1. f \in Nat /\ h \in Nat /\ r \in Nat /\ f + h + returned = free + heap + r
      BY <2>5, Zenon DEF Exchanged
    <3>2. free + heap + a + SpaceHeld = InitialFree + u + returned
      BY <2>3, <2>4, Zenon
    <3>3. InitialFree \in Nat
      BY CostsNat, Zenon
    <3> HIDE DEF f, h, r
    <3>4. f + h + a + SpaceHeld = InitialFree + u + r
      BY <2>1, <2>2, <2>5, <3>1, <3>2, <3>3
    <3> QED BY <2>4, <3>4, Zenon DEF f, h, r
  <2> QED BY <1>1, <2>6, <2>7, Zenon DEF AccountInv, CountInv, TablesStay, a
<1> QED BY <1>1, <1>2, <1>3, <1>4, Zenon

(* No blocks change hands at all. *)
Still ==
  /\ TablesStay /\ free' = free /\ restarts' = restarts
  /\ heap' = heap /\ returned' = returned /\ runs' = runs

LEMMA StillAccounts ==
  ASSUME KernelInv, AccountInv, Still, loop' \in [at : Places, expected : Nat, before : Nat],
         (loop.at # "verify" /\ loop'.at # "verify") \/ loop' = loop, waits' \in Nat,
         keys' \in 0..MaxKeys, tick' \in BOOLEAN, panic' \in Panics \ {"restart_failed"},
         LoopInv',
         Undisturbed => waits' + Owed' + Credit <= waits + Owed + Credit',
         Undisturbed /\ panic' # "none" => panic' = "leaked" /\ loop'.at = "verify"
  PROVE  AccountInv'
<1>1. Counters'
  BY Zenon DEF AccountInv, Counters, Still, TablesStay
<1>2. Begun' = Begun
  BY Zenon DEF Begun, Still
<1>3. /\ TablesStay /\ runs' = runs /\ Exchanged
      /\ reaps' = reaps /\ (Undisturbed' <=> Undisturbed)
  BY Zenon DEF Still, TablesStay, Undisturbed, Exchanged
<1>4. StackInv' /\ RecordInv' /\ CountInv'
  BY <1>1, <1>2, <1>3, StayAccounts, Zenon
<1>5. WaitInv'
  BY <1>1, <1>3, WaitKept, Zenon
<1> QED BY <1>1, <1>4, <1>5, Zenon DEF AccountInv

LEMMA ReceiveAccounts ==
  KernelInv /\ AccountInv /\ ((\E c \in 0..MessageMax : SyscallReceive(c)) \/ UNCHANGED vars)
    => AccountInv'
(* Nothing at all happens to the supervisor. *)
<1>QuietAccounts.
  ASSUME KernelInv, AccountInv, Still, SupervisorStays, tick' = tick, keys' = keys, panic' = panic
  PROVE  AccountInv'
  <2> USE <1>QuietAccounts
  <2>1. LoopInv'
    <3>1. Expectation' <=> Expectation
      BY Zenon DEF Expectation, Still, TablesStay, SupervisorStays
    <3>2. StackSlots' = StackSlots
      BY Zenon DEF Still, TablesStay, StackSlots, UserSlots
    <3> QED BY <3>1, <3>2, Zenon DEF AccountInv, LoopInv, Still, TablesStay, SupervisorStays
  <2>2. waits' + Owed' + Credit <= waits + Owed + Credit'
    <3>1. waits' = waits /\ Owed' = Owed /\ Credit' = Credit
      BY Zenon DEF Owed, Due, Credit, UpToDate, Still, TablesStay, SupervisorStays
    <3> QED BY <3>1, SameWaits, Zenon
  <2>3. Undisturbed /\ panic' # "none" => panic' = "leaked" /\ loop'.at = "verify"
    BY Zenon DEF AccountInv, WaitInv, SupervisorStays
  <2> QED BY <2>1, <2>2, <2>3, StillAccounts, Zenon DEF AccountInv, Counters, SupervisorStays
<1> SUFFICES ASSUME KernelInv, AccountInv,
                    (\E c \in 0..MessageMax : SyscallReceive(c)) \/ UNCHANGED vars
             PROVE  AccountInv'
  BY Zenon
<1>1. Still /\ SupervisorStays /\ tick' = tick /\ keys' = keys /\ panic' = panic
  <2>1. CASE \E c \in 0..MessageMax : SyscallReceive(c)
    BY <2>1, Zenon DEF SyscallReceive, scheduler, memory, supervisor, ledger, Still, TablesStay,
       SupervisorStays
  <2>2. CASE UNCHANGED vars
    BY <2>2, Zenon DEF vars, scheduler, memory, supervisor, ledger, Still, TablesStay,
       SupervisorStays
  <2> QED BY <2>1, <2>2, Zenon
<1> QED BY <1>1, <1>QuietAccounts, Zenon

(* A message wakes tasks and moves no memory. *)
LEMMA SendAccounts ==
  ASSUME KernelInv, AccountInv, NEW receiver, NEW size, SyscallSend(receiver, size)
  PROVE  AccountInv'
<1> DEFINE slots == IF receiver = 0 THEN UserSlots ELSE WithId(receiver)
<1>1. /\ tasks' = Woken(slots) /\ taskCount' = taskCount /\ current' = current
      /\ pendingReap' = pendingReap /\ generation' = generation
      /\ processes' = processes /\ spaces' = spaces /\ ran' = ran /\ cr3' = cr3
      /\ reaps' = reaps /\ free' = free /\ SupervisorStays /\ tick' = tick /\ keys' = keys
      /\ panic' = panic
  BY Zenon DEF SyscallSend, memory, supervisor, ledger, SupervisorStays
<1> HIDE DEF slots
<1>2. 1..taskCount - 1 \subseteq Slots /\ current \in Slots
  BY SlotRanges, Zenon DEF KernelInv
<1>3. \A s \in Slots : /\ tasks'[s].mode = tasks[s].mode
                       /\ tasks'[s].frame = tasks[s].frame /\ tasks'[s].stack = tasks[s].stack
                       /\ tasks'[s].state = "terminated" <=> tasks[s].state = "terminated"
  BY <1>1, WokenFacts, Zenon
<1>4. UserSlots' = UserSlots
  BY <1>1, <1>2, <1>3, Zenon DEF UserSlots
<1>5. StackSlots' = StackSlots /\ LiveSlots' = LiveSlots
  BY <1>2, <1>3, <1>4, Zenon DEF StackSlots, LiveSlots, UserSlots
<1>6. /\ Active' = Active /\ Begun' = Begun /\ (Expectation' <=> Expectation)
      /\ Baseline' = Baseline /\ SpaceHeld' = SpaceHeld
      /\ Owed' = Owed /\ Credit' = Credit /\ (Undisturbed' <=> Undisturbed)
  BY <1>1, Zenon DEF Active, Begun, SupervisorStays, Expectation, Baseline, SpaceHeld, Owed, Due,
     Credit, UpToDate, Undisturbed
<1>7. StackInv'
  <2>1. \A s \in Slots : Live(s)' <=> Live(s)
    BY <1>1, <1>3, Zenon DEF Live
  <2>2. \A s \in UserSlots : s \in Slots
    BY <1>2, Zenon DEF UserSlots
  <2>3. current # 0 => Live(current)'
    BY <1>1, <1>2, <1>3, Zenon DEF AccountInv, StackInv, Live
  <2> QED BY <1>1, <1>2, <1>3, <1>4, <2>1, <2>2, <2>3, Zenon DEF AccountInv, StackInv, Live
<1>8. RecordInv' /\ CountInv'
  BY <1>1, <1>4, <1>5, <1>6, Zenon DEF AccountInv, RecordInv, CountInv, SupervisorStays
<1>9. Counters' /\ LoopInv' /\ WaitInv'
  BY <1>1, <1>5, <1>6, Zenon DEF AccountInv, Counters, LoopInv, WaitInv, SupervisorStays
<1> QED BY <1>1, <1>7, <1>8, <1>9, Zenon DEF AccountInv

-----------------------------------------------------------------------------
(* The arithmetic of kernel_process_events: a is the cost of a stack, b    *)
(* that of a space, u the number of processes, d of those that ended and   *)
(* were not restarted, m of the spaces, n of the stacks, f of the free     *)
(* blocks, i of those that were free at first.                             *)

(* What CountInv says of the loop, with the live tasks counted out. *)
LEMMA Balance ==
  ASSUME KernelInv, MailInv, AccountInv, NEW m, m = Cardinality(spaces),
         NEW n, n = Cardinality(StackSlots)
  PROVE  /\ Begun \in Nat /\ m \in Nat /\ n \in Nat /\ m <= n /\ n <= m + 1
         /\ pendingReap = {} => n = m
         /\ Cardinality(Active) = m /\ m + reaps = Users + Begun + runs
         /\ free + heap + StackCost * n + SpaceHeld = Baseline
         /\ SpaceHeld \in Nat /\ SpaceHeld >= SpaceCost * m
         /\ runs = 0 => SpaceHeld = SpaceCost * m
<1>1. /\ Cardinality(StackSlots) \in Nat /\ Cardinality(LiveSlots) \in Nat
      /\ Cardinality(spaces) \in Nat /\ Cardinality(Active) \in Nat
  BY FiniteSlots, Zenon DEF KernelInv
<1>2. Begun \in Nat
  BY CounterTypes DEF Begun
<1>3. /\ Cardinality(Active) = m /\ Cardinality(LiveSlots) = m /\ m + reaps = Users + Begun + runs
  <2>1. /\ m + reaps = Users + Begun + runs
        /\ Cardinality(Active) + reaps = Users + Begun + runs
        /\ Cardinality(LiveSlots) + reaps = Users + Begun + runs
    BY Zenon DEF AccountInv, CountInv
  <2>2. reaps \in Nat /\ m \in Nat
    BY <1>1, CounterTypes, Zenon
  <2>3. Cardinality(Active) + reaps = m + reaps /\ Cardinality(LiveSlots) + reaps = m + reaps
    BY <2>1, Zenon
  <2> QED BY <1>1, <2>1, <2>2, <2>3
<1>4. /\ Cardinality(StackSlots) <= Cardinality(LiveSlots) + 1
      /\ Cardinality(LiveSlots) <= Cardinality(StackSlots)
      /\ pendingReap = {} => Cardinality(StackSlots) = Cardinality(LiveSlots)
  BY StacksOfLive, Zenon DEF AccountInv
<1>5. free + heap + StackCost * n + SpaceHeld = Baseline
  BY Zenon DEF AccountInv, CountInv
<1>6. /\ Cardinality(ran) \in Nat /\ SpaceHeld \in Nat
  BY FiniteRan, Zenon DEF KernelInv, AccountInv, Counters
<1>7. SpaceHeld >= SpaceCost * m
  <2> DEFINE a == SpaceCost * m
             b == ImageCost * Cardinality(ran)
  <2>1. a \in Nat /\ b \in Nat
    BY <1>1, <1>6, CostsNat
  <2>2. SpaceHeld = a + b
    BY Zenon DEF SpaceHeld
  <2> HIDE DEF a, b
  <2>3. SpaceHeld >= a
    BY <2>1, <2>2
  <2> QED BY <2>3, Zenon DEF a
<1>8. ASSUME runs = 0 PROVE SpaceHeld = SpaceCost * m
  <2>1. ran = {}
    BY <1>8, Zenon DEF AccountInv, Counters
  <2>2. Cardinality(ran) = 0
    BY <2>1, FS_EmptySet, Zenon
  <2>3. ImageCost * Cardinality(ran) = 0 /\ SpaceCost * m \in Nat
    BY <1>1, <2>2, CostsNat
  <2>4. SpaceHeld = SpaceCost * m + 0
    BY <2>3, Zenon DEF SpaceHeld
  <2> QED BY <2>3, <2>4
<1> QED BY <1>1, <1>2, <1>3, <1>4, <1>5, <1>6, <1>7, <1>8, Zenon

-----------------------------------------------------------------------------
(* The accounts and the steps of the event loop. *)

(* A move of the loop that keeps its locals. *)
LEMMA Moved ==
  ASSUME loop \in [at : Places, expected : Nat, before : Nat], NEW place \in Places, GoTo(place)
  PROVE  /\ loop' \in [at : Places, expected : Nat, before : Nat]
         /\ loop'.at = place /\ loop'.expected = loop.expected /\ loop'.before = loop.before
  BY Zenon DEF GoTo

LEMMA WakeAccounts ==
  ASSUME KernelInv, AccountInv, LoopWake
  PROVE  AccountInv'
<1>1. /\ loop.at = "wait" /\ panic = "none" /\ GoTo("input") /\ Still /\ waits' = waits
      /\ tick' = tick /\ panic' = panic /\ (tick \/ keys < MaxKeys)
      /\ keys' = IF tick THEN keys ELSE keys + 1
  BY Zenon DEF LoopWake, LoopAt, Running, LoopUnchanged, scheduler, memory, ledger, Still,
     TablesStay
<1>2. /\ loop' \in [at : Places, expected : Nat, before : Nat] /\ loop'.at = "input"
  BY <1>1, CounterTypes, Moved, Zenon DEF Places
<1>3. /\ keys' \in 0..MaxKeys /\ waits' \in Nat /\ tick' \in BOOLEAN
      /\ panic' \in Panics \ {"restart_failed"}
  BY <1>1, CounterTypes, CostsNat DEF Panics
<1>4. LoopInv'
  BY <1>1, <1>2, Zenon DEF AccountInv, LoopInv, Still
<1>5. Owed' = Owed /\ Credit' = Credit
  <2> DEFINE unreaped == pendingReap # {}
             k == keys'
  <2>1. (Due <=> unreaped /\ tick) /\ (Due' <=> unreaped) /\ Credit = 0 /\ Credit' = 0
    BY <1>1, <1>2, Zenon DEF Due, Credit, Still, TablesStay
  <2>2. /\ Owed = (IF unreaped THEN MaxKeys - keys ELSE 0) + (IF Due THEN 1 ELSE 0)
        /\ Owed' = (IF unreaped THEN MaxKeys - k ELSE 0) + (IF Due' THEN 1 ELSE 0)
    BY <1>1, Zenon DEF Owed, Still, TablesStay
  <2>3. k = (IF tick THEN keys ELSE keys + 1) /\ keys \in Nat /\ MaxKeys \in Nat
    BY <1>1, CounterTypes, CostsNat, Zenon
  <2> HIDE DEF unreaped, k
  <2> QED BY <2>1, <2>2, <2>3
<1>6. waits' + Owed' + Credit <= waits + Owed + Credit'
  BY <1>1, <1>5, SameWaits, Zenon
<1> QED BY <1>1, <1>2, <1>3, <1>4, <1>6, StillAccounts, Zenon

(* The commands that move blocks. *)
LEMMA FormatAccounts ==
  ASSUME KernelInv, AccountInv, LoopFormat \/ LoopGivesUpDma
  PROVE  AccountInv'
<1>1. /\ loop.at = "input" /\ panic = "none" /\ loop' = loop /\ TablesStay /\ waits' = waits
      /\ restarts' = restarts /\ keys' = keys /\ tick' = tick /\ panic' = panic /\ runs' = runs
      /\ \/ /\ heap = 0 /\ heap' = HeapCost /\ free >= HeapCost /\ free' = free - HeapCost
            /\ returned' = returned
         \/ /\ returned = 0 /\ returned' = DriverBlocks /\ free' = free + DriverBlocks
            /\ heap' = heap
  BY Zenon DEF LoopFormat, LoopGivesUpDma, Command, LoopAt, Running, scheduler, TablesStay
<1>2. /\ free' \in Nat /\ heap' \in {0, HeapCost} /\ returned' \in {0, DriverBlocks}
      /\ ~Undisturbed'
  <2>1. heap \in {0, HeapCost} /\ returned \in {0, DriverBlocks} /\ free \in Nat
    BY Zenon DEF AccountInv, Counters
  <2> QED BY <1>1, <2>1, CostsNat DEF Undisturbed
<1>3. Counters'
  BY <1>1, <1>2, Zenon DEF AccountInv, Counters, TablesStay
<1>4. Begun' = Begun
  BY <1>1, Zenon DEF Begun
<1>5. Exchanged
  <2>1. free \in Nat /\ heap \in Nat /\ returned \in Nat /\ HeapCost \in Nat /\ DriverBlocks \in Nat
    BY CounterTypes, CostsNat, Zenon
  <2>2. CASE heap = 0 /\ heap' = HeapCost /\ free' = free - HeapCost /\ returned' = returned
    <3>1. free - HeapCost + HeapCost + returned = free + 0 + returned
      BY <2>1
    <3> QED BY <2>2, <3>1, Zenon DEF Exchanged
  <2>3. CASE returned = 0 /\ returned' = DriverBlocks /\ free' = free + DriverBlocks /\ heap' = heap
    <3>1. free + DriverBlocks + heap + 0 = free + heap + DriverBlocks
      BY <2>1
    <3> QED BY <2>3, <3>1, Zenon DEF Exchanged
  <2> QED BY <1>1, <2>2, <2>3, Zenon
<1>6. StackInv' /\ RecordInv' /\ CountInv'
  BY <1>1, <1>3, <1>4, <1>5, StayAccounts, Zenon
<1>7. LoopInv' /\ WaitInv'
  BY <1>1, <1>2, Zenon DEF AccountInv, LoopInv, WaitInv
<1> QED BY <1>1, <1>3, <1>6, <1>7, Zenon DEF AccountInv

LEMMA InputAccounts ==
  ASSUME KernelInv, AccountInv, LoopInput
  PROVE  AccountInv'
<1>1. /\ loop.at = "input" /\ panic = "none" /\ GoTo("check") /\ Still /\ waits' = waits
      /\ tick' = tick /\ keys' = keys /\ panic' = panic
  BY Zenon DEF LoopInput, LoopAt, Running, LoopUnchanged, scheduler, memory, ledger, Still,
     TablesStay
<1>2. loop' \in [at : Places, expected : Nat, before : Nat] /\ loop'.at = "check"
  BY <1>1, CounterTypes, Moved, Zenon DEF Places
<1>3. /\ keys' \in 0..MaxKeys /\ waits' \in Nat /\ tick' \in BOOLEAN
      /\ panic' \in Panics \ {"restart_failed"}
  BY <1>1, CounterTypes, CostsNat DEF Panics
<1>4. LoopInv'
  BY <1>1, <1>2, Zenon DEF AccountInv, LoopInv, Still
<1>5. Owed' = Owed /\ Credit' = Credit
  BY <1>1, <1>2, Zenon DEF Owed, Due, Credit, Still, TablesStay
<1>6. waits' + Owed' + Credit <= waits + Owed + Credit'
  BY <1>1, <1>5, SameWaits, Zenon
<1> QED BY <1>1, <1>2, <1>3, <1>4, <1>6, StillAccounts, Zenon

(* The loop computes what it expects from the processes that ended. *)
LEMMA CheckAccounts ==
  ASSUME KernelInv, AccountInv, LoopCheck
  PROVE  AccountInv'
<1> DEFINE due == restarts < RestartTarget /\ reaps > restarts
<1>1. /\ loop.at = "check" /\ panic = "none" /\ Still /\ waits' = waits /\ keys' = keys
      /\ tick' = tick /\ panic' = panic
  BY Zenon DEF LoopCheck, LoopAt, Running, LoopUnchanged, scheduler, memory, ledger, Still,
     TablesStay
<1>2. /\ loop' = IF due THEN [loop EXCEPT !.at = "limit",
                               !.expected = InitialFree + Cost * (reaps - restarts)]
                 ELSE [loop EXCEPT !.at = "tick"]
  BY Zenon DEF LoopCheck, Cost
<1>3. /\ loop' \in [at : Places, expected : Nat, before : Nat]
      /\ due => loop'.at = "limit" /\ loop'.expected = InitialFree + Cost * (reaps - restarts)
      /\ ~due => loop'.at = "tick"
  <2>1. due => InitialFree + Cost * (reaps - restarts) \in Nat
    BY CounterTypes, CostsNat
  <2> HIDE DEF due
  <2> QED BY <1>2, <2>1, CounterTypes, Zenon DEF Places
<1>4. keys' \in 0..MaxKeys /\ panic' \in Panics \ {"restart_failed"}
  BY <1>1, CounterTypes, CostsNat DEF Panics
<1>5. reaps' = reaps /\ restarts' = restarts /\ pendingReap' = pendingReap /\ heap' = heap
  BY <1>1, Zenon DEF Still, TablesStay
<1>6. LoopInv'
  <2>1. CASE due
    <3>1. reaps \in restarts + 1..reaps
      BY <2>1, CounterTypes
    <3>2. Expectation'
      BY <1>3, <1>5, <2>1, <3>1, Zenon DEF Expectation
    <3> QED BY <1>3, <1>5, <2>1, <3>2, Zenon DEF LoopInv, AccountInv
  <2>2. CASE ~due
    BY <1>3, <1>5, <2>2, Zenon DEF LoopInv, AccountInv
  <2> QED BY <2>1, <2>2, Zenon
<1>7. waits' + Owed' + Credit <= waits + Owed + Credit'
  <2> DEFINE unreaped == pendingReap # {}
             o == Owed'
  <2>1. loop'.at = "limit" => UpToDate'
    BY <1>3, <1>5, Zenon DEF UpToDate
  <2>2. (Due <=> unreaped) /\ (Due' => unreaped) /\ Credit = 0 /\ Credit' = 0
    BY <1>1, <1>3, <1>5, <2>1, Zenon DEF Due, Credit
  <2>3. /\ Owed = (IF unreaped THEN MaxKeys - keys ELSE 0) + (IF Due THEN 1 ELSE 0)
        /\ o = (IF unreaped THEN MaxKeys - keys ELSE 0) + (IF Due' THEN 1 ELSE 0)
    BY <1>1, <1>5, Zenon DEF Owed
  <2>4. waits \in Nat /\ keys \in Nat /\ MaxKeys \in Nat
    BY CounterTypes, CostsNat, Zenon
  <2> HIDE DEF unreaped, o
  <2>5. waits + o + 0 <= waits + Owed + 0
    BY <2>2, <2>3, <2>4
  <2> QED BY <1>1, <2>2, <2>5, Zenon DEF o
<1> QED BY <1>1, <1>3, <1>4, <1>6, <1>7, CounterTypes, StillAccounts, Zenon

LEMMA LimitAccounts == KernelInv /\ MailInv /\ AccountInv /\ LoopLimit => AccountInv'
<1>NothingMissing.
  ASSUME NEW a \in Nat, NEW b \in Nat, NEW u \in Nat, NEW n \in Nat, NEW m \in Nat,
         NEW f \in Nat, NEW i \in Nat, n <= u, m <= u, f + a * n + b * m = i + (a + b) * u
  PROVE  f >= i
  <2> USE <1>NothingMissing
  <2>1. a * n <= a * u /\ b * m <= b * u /\ (a + b) * u = a * u + b * u
    BY Times
  <2> DEFINE an == a * n
             au == a * u
             bm == b * m
             bu == b * u
             abu == (a + b) * u
  <2>2. /\ an <= au /\ bm <= bu /\ abu = au + bu /\ f + an + bm = i + abu
        /\ an \in Nat /\ au \in Nat /\ bm \in Nat /\ bu \in Nat
    BY <2>1, Times, Zenon
  <2> HIDE DEF an, au, bm, bu, abu
  <2> QED BY <2>2
(* Until a command moves blocks neither limit of the restart block is reached. *)
<1>LimitsHold.
  ASSUME KernelInv, MailInv, AccountInv, loop.at = "limit", Undisturbed
  PROVE  free >= InitialFree /\ waits <= WaitLimit
  <2> USE <1>LimitsHold
  <2> DEFINE m == Cardinality(spaces)
             n == Cardinality(StackSlots)
             k == MaxKeys + 2
  <2>1. /\ m \in Nat /\ n \in Nat /\ n <= m + 1 /\ m + reaps = Users + Begun + runs
        /\ free + heap + StackCost * n + SpaceHeld = Baseline
        /\ runs = 0 => SpaceHeld = SpaceCost * m
    BY Balance, Zenon
  <2>2. Begun = restarts /\ reaps > restarts /\ restarts < RestartTarget
    BY CounterTypes DEF AccountInv, LoopInv, Begun
  <2>3. heap = 0 /\ returned = 0 /\ runs = 0
    BY Zenon DEF Undisturbed
  <2>4. /\ restarts \in Nat /\ reaps \in Nat /\ waits \in Nat /\ free \in Nat
        /\ Users \in Nat /\ RestartTarget \in Nat /\ WaitLimit \in Nat /\ k \in Nat
    <3>1. k \in Nat
      BY CostsNat
    <3> QED BY <3>1, CounterTypes, CostsNat, Zenon
  <2>5. m <= Users /\ n <= Users /\ reaps <= Users + RestartTarget /\ Users + RestartTarget \in Nat
    <3> HIDE DEF m, n, k
    <3>1. m + reaps = Users + restarts + 0
      BY <2>1, <2>2, <2>3, Zenon
    <3> QED BY <2>1, <2>2, <2>4, <3>1
  <2>6. waits <= WaitLimit
    <3> DEFINE spent == k * reaps
               limit == k * (Users + RestartTarget)
    <3>1. waits + Owed <= spent + Credit /\ Credit = 0
      BY Zenon DEF AccountInv, WaitInv, Credit
    <3>2. spent <= limit /\ spent \in Nat /\ limit \in Nat
      BY <2>4, <2>5, Times, Zenon
    <3>3. limit <= WaitLimit /\ Owed \in Nat
      BY RestartConstants, SameWaits, Zenon
    <3> HIDE DEF spent, limit, k
    <3> QED BY <2>4, <3>1, <3>2, <3>3
  <2>7. free >= InitialFree
    <3> DEFINE an == StackCost * n
               bm == SpaceCost * m
               all == (StackCost + SpaceCost) * Users
    <3>1. free + 0 + an + bm = InitialFree + all + 0
      BY <2>1, <2>3, Zenon DEF Baseline
    <3>2. an \in Nat /\ bm \in Nat /\ all \in Nat /\ InitialFree \in Nat
      <4>1. StackCost + SpaceCost \in Nat
        BY CostsNat
      <4> QED BY <2>1, <2>4, <4>1, CostsNat, Times, Zenon
    <3>3. free + an + bm = InitialFree + all
      <4> HIDE DEF an, bm, all
      <4> QED BY <2>4, <3>1, <3>2
    <3> HIDE DEF m, n
    <3>4. StackCost \in Nat /\ SpaceCost \in Nat
      BY CostsNat, Zenon
    <3> QED BY <2>1, <2>4, <2>5, <3>2, <3>3, <3>4, <1>NothingMissing
  <2> QED BY <2>6, <2>7, Zenon
<1> SUFFICES ASSUME KernelInv, MailInv, AccountInv, LoopLimit PROVE AccountInv'
  BY Zenon
<1>1. /\ loop.at = "limit" /\ panic = "none" /\ Still /\ keys' = keys /\ tick' = tick
  BY Zenon DEF LoopLimit, LoopAt, Running, Halt, LoopUnchanged, scheduler, memory, ledger,
     supervisor, Still, TablesStay
<1>2. \/ /\ loop' = loop /\ waits' = waits /\ ~Undisturbed /\ panic' \in {"leaked", "waited"}
      \/ waits' = waits + 1 /\ GoTo("compare") /\ panic' = panic
  <2>1. Undisturbed => ~(free < InitialFree) /\ ~(waits > WaitLimit)
    BY <1>1, <1>LimitsHold, CounterTypes, CostsNat
  <2>2. CASE free < InitialFree
    BY <2>1, <2>2, Zenon DEF LoopLimit, Halt, supervisor, ledger
  <2>3. CASE ~(free < InitialFree) /\ waits > WaitLimit
    BY <2>1, <2>3, Zenon DEF LoopLimit, Halt, supervisor
  <2>4. CASE ~(free < InitialFree) /\ ~(waits > WaitLimit)
    BY <2>4, Zenon DEF LoopLimit, LoopUnchanged
  <2> QED BY <2>2, <2>3, <2>4, Zenon
<1>3. /\ loop' \in [at : Places, expected : Nat, before : Nat]
      /\ loop'.at \in {"limit", "compare"} /\ loop'.expected = loop.expected
      /\ Undisturbed => loop'.at = "compare" /\ waits' = waits + 1 /\ panic' = panic
  BY <1>1, <1>2, CounterTypes, Moved, Zenon DEF Places
<1>4. /\ waits' \in Nat /\ keys' \in 0..MaxKeys /\ panic' \in Panics \ {"restart_failed"}
      /\ tick' \in BOOLEAN
  BY <1>1, <1>2, CounterTypes, CostsNat DEF Panics
<1>5. reaps' = reaps /\ restarts' = restarts /\ pendingReap' = pendingReap /\ heap' = heap
  BY <1>1, Zenon DEF Still, TablesStay
<1>6. LoopInv'
  <2>1. Expectation' <=> Expectation
    BY <1>3, <1>5, Zenon DEF Expectation
  <2> QED BY <1>1, <1>3, <1>5, <2>1, Zenon DEF LoopInv, AccountInv
<1>7. Undisturbed => waits' + Owed' + Credit <= waits + Owed + Credit'
  <2> SUFFICES ASSUME Undisturbed PROVE waits' + Owed' + Credit <= waits + Owed + Credit'
    OBVIOUS
  <2> DEFINE unreaped == pendingReap # {}
             v == waits'
             o == Owed'
             c == Credit'
  <2>1. UpToDate' <=> UpToDate
    BY <1>3, <1>5, Zenon DEF UpToDate
  <2>2. /\ Due <=> unreaped \/ ~UpToDate
        /\ ~Due' /\ Credit = 0
        /\ c = IF ~unreaped /\ UpToDate THEN 1 ELSE 0
    BY <1>1, <1>3, <1>5, <2>1, Zenon DEF Due, Credit
  <2>3. /\ Owed = (IF unreaped THEN MaxKeys - keys ELSE 0) + (IF Due THEN 1 ELSE 0)
        /\ o = (IF unreaped THEN MaxKeys - keys ELSE 0) + 0 /\ v = waits + 1
    BY <1>1, <1>3, <1>5, <2>2, Zenon DEF Owed
  <2>4. waits \in Nat /\ keys \in Nat /\ MaxKeys \in Nat
    BY CounterTypes, CostsNat, Zenon
  <2> HIDE DEF unreaped, v, o, c
  <2>5. v + o + 0 <= waits + Owed + c
    BY <2>2, <2>3, <2>4
  <2> QED BY <2>2, <2>5, Zenon DEF v, o, c
<1>8. Undisturbed /\ panic' # "none" => panic' = "leaked" /\ loop'.at = "verify"
  BY <1>1, <1>3, Zenon
<1> QED BY <1>1, <1>3, <1>4, <1>6, <1>7, <1>8, StillAccounts, Zenon

LEMMA CompareAccounts == KernelInv /\ MailInv /\ AccountInv /\ LoopCompare => AccountInv'
<1>AllReaped.
  ASSUME NEW a \in Nat, NEW b \in Nat, NEW u \in Nat, NEW d \in Nat, NEW f \in Nat, NEW i \in Nat,
         d <= u, f + a * (u - d) + b * (u - d) = i + (a + b) * u
  PROVE  f = i + (a + b) * d
  <2> USE <1>AllReaped
  <2> DEFINE ad == a * d
             au == a * u
             bd == b * d
             bu == b * u
  <2>1. /\ a * (u - d) = au - ad /\ b * (u - d) = bu - bd
        /\ (a + b) * u = au + bu /\ (a + b) * d = ad + bd
        /\ ad \in Nat /\ au \in Nat /\ bd \in Nat /\ bu \in Nat
    BY Times
  <2>2. f + (au - ad) + (bu - bd) = i + (au + bu)
    BY <2>1, Zenon
  <2>3. f = i + (ad + bd)
    <3> HIDE DEF ad, au, bd, bu
    <3> QED BY <2>1, <2>2
  <2> QED BY <2>1, <2>3, Zenon
<1>SpaceIsLeft.
  ASSUME NEW a \in Nat, NEW b \in Nat, NEW u \in Nat, NEW e \in Nat, NEW n \in Nat, NEW m \in Nat,
         NEW h \in Nat, NEW held \in Nat, NEW i \in Nat, NEW q \in Nat,
         e >= 1, m <= n, n <= m + 1, q < a, held >= b * m,
         i + (a + b) * e + h + a * n + held = i + (a + b) * u + q
  PROVE  n < u /\ m < u
  <2> USE <1>SpaceIsLeft
  <2> DEFINE an == a * n
             au == a * u
             bm == b * m
             bu == b * u
             ae == a * e
             be == b * e
  <2>1. /\ (a + b) * u = au + bu /\ (a + b) * e = ae + be
        /\ an \in Nat /\ au \in Nat /\ bm \in Nat /\ bu \in Nat /\ ae \in Nat /\ be \in Nat
    BY Times
  <2>2. ae >= a /\ be >= b
    <3>1. ae = a * (e - 1) + a /\ a * (e - 1) \in Nat /\ be = b * (e - 1) + b /\ b * (e - 1) \in Nat
      BY Times
    <3> HIDE DEF ae, be
    <3> QED BY <3>1
  <2>3. i + (ae + be) + h + an + held = i + (au + bu) + q
    BY <2>1, Zenon
  <2>4. a + b + an + bm <= au + bu + q
    <3> HIDE DEF an, au, bu, ae, be
    <3> QED BY <2>1, <2>2, <2>3
  <2>5. ~(u <= n)
    <3> SUFFICES ASSUME u <= n PROVE FALSE
      OBVIOUS
    <3>1. au <= an
      BY Times, Zenon
    <3>2. u <= m + 1 /\ m + 1 \in Nat
      OBVIOUS
    <3>3. bu <= b * (m + 1) /\ b * (m + 1) = bm + b
      BY <3>2, Times, Zenon
    <3>4. bu <= bm + b
      BY <3>3, Zenon
    <3> HIDE DEF an, au, bm, bu
    <3> QED BY <2>1, <2>4, <3>1, <3>4
  <2> QED BY <2>5
(* When the count is what the loop expects, a stack, a record and a        *)
(* directory are free for a restart; when it is not, a command has moved   *)
(* blocks or something is on its way.                                      *)
<1>CompareTells.
  ASSUME KernelInv, MailInv, AccountInv, loop.at = "compare"
  PROVE  /\ free = loop.expected =>
              free >= Cost /\ Cardinality(StackSlots) < Users /\ Cardinality(spaces) < Users
         /\ free # loop.expected /\ Undisturbed => pendingReap # {} \/ ~UpToDate
  <2> USE <1>CompareTells
  <2> DEFINE m == Cardinality(spaces)
             n == Cardinality(StackSlots)
             d == reaps - restarts
  <2>1. /\ m \in Nat /\ n \in Nat /\ m <= n /\ n <= m + 1 /\ m + reaps = Users + Begun + runs
        /\ pendingReap = {} => n = m
        /\ free + heap + StackCost * n + SpaceHeld = Baseline
        /\ SpaceHeld \in Nat /\ SpaceHeld >= SpaceCost * m
        /\ runs = 0 => SpaceHeld = SpaceCost * m
    BY Balance, Zenon
  <2>2. Begun = restarts /\ reaps > restarts
    BY CounterTypes DEF AccountInv, LoopInv, Begun
  <2>3. PICK k \in restarts + 1..reaps : loop.expected = InitialFree + Cost * (k - restarts)
    BY Zenon DEF AccountInv, LoopInv, Expectation
  <2> DEFINE e == k - restarts
  <2>4. /\ restarts \in Nat /\ reaps \in Nat /\ free \in Nat /\ heap \in Nat /\ returned \in Nat
        /\ returned < StackCost /\ InitialFree \in Nat /\ Users \in Nat
        /\ StackCost \in Nat /\ SpaceCost \in Nat /\ Cost \in Nat
    BY CounterTypes, CostsNat, Zenon
  <2>5. e \in Nat /\ e >= 1 /\ d \in Nat
    BY <2>2, <2>3, <2>4
  <2>6. loop.expected = InitialFree + Cost * e
    BY <2>3, Zenon
  <2>7. UpToDate <=> loop.expected = InitialFree + Cost * d
    BY Zenon DEF UpToDate
  <2> HIDE DEF m, n, d, e
  <2>8. ASSUME free = loop.expected
        PROVE  free >= Cost /\ n < Users /\ m < Users
    <3>1. free >= Cost
      <4>1. Cost * e = Cost * (e - 1) + Cost /\ Cost * (e - 1) \in Nat
        BY <2>4, <2>5, Times
      <4> DEFINE x == Cost * e
                 y == Cost * (e - 1)
      <4>2. x = y + Cost /\ y \in Nat /\ free = InitialFree + x
        BY <2>6, <2>8, <4>1, Zenon
      <4> HIDE DEF x, y
      <4> QED BY <2>4, <4>2
    <3>2. InitialFree + (StackCost + SpaceCost) * e + heap + StackCost * n + SpaceHeld
            = InitialFree + (StackCost + SpaceCost) * Users + returned
      BY <2>1, <2>6, <2>8, Zenon DEF Cost, Baseline
    <3>3. n < Users /\ m < Users
      BY <2>1, <2>4, <2>5, <3>2, <1>SpaceIsLeft
    <3> QED BY <3>1, <3>3, Zenon
  <2>9. ASSUME free # loop.expected, Undisturbed, pendingReap = {}
        PROVE  ~UpToDate
    <3>1. heap = 0 /\ returned = 0 /\ runs = 0 /\ n = m
      BY <2>1, <2>9, Zenon DEF Undisturbed
    <3>2. m + reaps = Users + restarts + 0
      BY <2>1, <2>2, <3>1, Zenon
    <3>3. m = Users - d /\ d <= Users
      BY <2>1, <2>4, <3>2 DEF d
    <3> DEFINE am == StackCost * (Users - d)
               bm == SpaceCost * (Users - d)
               all == (StackCost + SpaceCost) * Users
    <3>4. free + 0 + am + bm = InitialFree + all + 0
      BY <2>1, <3>1, <3>3, Zenon DEF Baseline
    <3>5. am \in Nat /\ bm \in Nat /\ all \in Nat
      <4>1. StackCost + SpaceCost \in Nat /\ Users - d \in Nat
        BY <2>4, <2>5, <3>3
      <4> QED BY <2>4, <4>1, Times, Zenon
    <3>6. free + am + bm = InitialFree + all
      <4> HIDE DEF am, bm, all
      <4> QED BY <2>4, <3>4, <3>5
    <3>7. free = InitialFree + (StackCost + SpaceCost) * d
      BY <2>4, <2>5, <3>3, <3>6, <1>AllReaped
    <3> QED BY <2>7, <2>9, <3>7, Zenon DEF Cost
  <2> QED BY <2>8, <2>9, Zenon DEF n, m
<1> SUFFICES ASSUME KernelInv, MailInv, AccountInv, LoopCompare PROVE AccountInv'
  OBVIOUS
<1>1. /\ loop.at = "compare" /\ panic = "none" /\ Still /\ keys' = keys /\ tick' = tick
      /\ waits' = waits /\ panic' = panic
      /\ GoTo(IF free = loop.expected THEN "before" ELSE "tick")
  BY Zenon DEF LoopCompare, LoopAt, Running, LoopUnchanged, scheduler, memory, ledger, Still,
     TablesStay
<1>2. /\ loop' \in [at : Places, expected : Nat, before : Nat]
      /\ loop'.at = IF free = loop.expected THEN "before" ELSE "tick"
  BY <1>1, CounterTypes, Moved, Zenon DEF Places
<1>3. /\ waits' \in Nat /\ keys' \in 0..MaxKeys /\ panic' \in Panics \ {"restart_failed"}
      /\ tick' \in BOOLEAN
  BY <1>1, CounterTypes, CostsNat DEF Panics
<1>4. /\ reaps' = reaps /\ restarts' = restarts /\ heap' = heap /\ free' = free
      /\ StackSlots' = StackSlots /\ spaces' = spaces /\ pendingReap' = pendingReap
  BY <1>1, Zenon DEF Still, TablesStay, StackSlots, UserSlots
<1>5. LoopInv'
  BY <1>1, <1>2, <1>4, <1>CompareTells, Zenon DEF LoopInv, AccountInv
<1>6. Undisturbed => waits' + Owed' + Credit <= waits + Owed + Credit'
  <2> SUFFICES ASSUME Undisturbed PROVE waits' + Owed' + Credit <= waits + Owed + Credit'
    OBVIOUS
  <2> DEFINE c == Credit'
  <2>1. free # loop.expected => pendingReap # {} \/ ~UpToDate
    BY <1>1, <1>CompareTells, Zenon
  <2>2. Owed' = Owed /\ (c = Credit \/ (c = 1 /\ Credit = 0))
    BY <1>1, <1>2, <1>4, <2>1, Zenon DEF Owed, Due, Credit
  <2>3. Owed \in Nat /\ Credit \in 0..1 /\ waits \in Nat
    BY SameWaits, CounterTypes, Zenon
  <2> HIDE DEF c
  <2>4. waits + Owed + Credit <= waits + Owed + c
    BY <2>2, <2>3
  <2> QED BY <1>1, <2>2, <2>4, Zenon DEF c
<1> QED BY <1>1, <1>2, <1>3, <1>5, <1>6, StillAccounts, Zenon

LEMMA BeforeAccounts ==
  ASSUME KernelInv, AccountInv, LoopBefore
  PROVE  AccountInv'
<1>1. /\ loop.at = "before" /\ panic = "none" /\ Still /\ keys' = keys /\ tick' = tick
      /\ waits' = waits /\ panic' = panic
      /\ loop' = [loop EXCEPT !.at = "restart", !.before = free]
  BY Zenon DEF LoopBefore, LoopAt, Running, LoopUnchanged, scheduler, memory, ledger, Still,
     TablesStay
<1>2. loop' \in [at : Places, expected : Nat, before : Nat] /\ loop'.at = "restart"
  BY <1>1, CounterTypes, Zenon DEF Places
<1>3. /\ waits' \in Nat /\ keys' \in 0..MaxKeys /\ panic' \in Panics \ {"restart_failed"}
      /\ tick' \in BOOLEAN
  BY <1>1, CounterTypes, CostsNat DEF Panics
<1>4. /\ reaps' = reaps /\ restarts' = restarts /\ heap' = heap /\ free' = free
      /\ StackSlots' = StackSlots /\ spaces' = spaces
  BY <1>1, Zenon DEF Still, TablesStay, StackSlots, UserSlots
<1>5. LoopInv'
  BY <1>1, <1>2, <1>4, Zenon DEF LoopInv, AccountInv
<1>6. waits' + Owed' + Credit <= waits + Owed + Credit'
  <2>1. Owed' = Owed /\ Credit' = Credit
    BY <1>1, <1>2, Zenon DEF Owed, Due, Credit, Still, TablesStay
  <2> QED BY <1>1, <2>1, SameWaits, Zenon
<1> QED BY <1>1, <1>2, <1>3, <1>5, <1>6, StillAccounts, Zenon

LEMMA VerifyAccounts ==
  ASSUME KernelInv, AccountInv, LoopVerify
  PROVE  AccountInv'
<1>1. /\ loop.at = "verify" /\ panic = "none" /\ TablesStay /\ free' = free /\ heap' = heap
      /\ returned' = returned /\ runs' = runs
      /\ keys' = keys /\ tick' = tick
      /\ \/ loop' = loop /\ waits' = waits /\ restarts' = restarts /\ panic' = "leaked"
         \/ GoTo("tick") /\ waits' = 0 /\ restarts' = restarts + 1 /\ panic' = panic
  BY Zenon DEF LoopVerify, LoopAt, Running, Halt, LoopUnchanged, scheduler, memory, ledger,
     supervisor, TablesStay
<1>2. \/ loop' = loop /\ waits' = waits /\ restarts' = restarts /\ panic' = "leaked"
      \/ /\ loop' \in [at : Places, expected : Nat, before : Nat] /\ loop'.at = "tick"
         /\ waits' = 0 /\ restarts' = restarts + 1 /\ panic' = panic
  BY <1>1, CounterTypes, Moved, Zenon DEF Places
<1>3. Counters'
  BY <1>1, <1>2 DEF AccountInv, Counters, TablesStay, Panics
<1>4. Begun' = Begun /\ Exchanged
  <2>1. Begun' = Begun
    BY <1>1, <1>2, CounterTypes DEF Begun
  <2> QED BY <1>1, <2>1, Zenon DEF Exchanged
<1>5. StackInv' /\ RecordInv' /\ CountInv'
  BY <1>1, <1>3, <1>4, StayAccounts, Zenon
<1>6. restarts < RestartTarget /\ reaps > restarts /\ reaps' = reaps
  BY <1>1, Zenon DEF AccountInv, LoopInv, TablesStay
<1>7. LoopInv'
  BY <1>1, <1>2, <1>6, CounterTypes, CostsNat DEF AccountInv, LoopInv
<1>8. WaitInv'
  <2>1. CASE loop' = loop /\ waits' = waits /\ panic' = "leaked"
    <3>1. Owed' = Owed /\ Credit' = Credit
      BY <1>1, <2>1, Zenon DEF Owed, Due, Credit, TablesStay
    <3>2. waits' + Owed' + Credit <= waits + Owed + Credit'
      BY <2>1, <3>1, SameWaits, Zenon
    <3>3. Undisturbed' => Undisturbed
      BY <1>1, Zenon DEF Undisturbed
    <3> QED BY <1>1, <1>3, <1>6, <2>1, <3>2, <3>3, WaitKept, Zenon
  <2>2. CASE loop'.at = "tick" /\ waits' = 0 /\ panic' = panic
    <3> DEFINE o == Owed'
               spent == (MaxKeys + 2) * reaps
    <3>1. /\ o = (IF pendingReap # {} THEN MaxKeys - keys ELSE 0) + 0 /\ Credit' = 0
      BY <1>1, <2>2, Zenon DEF Owed, Due, Credit, TablesStay
    <3>2. keys \in Nat /\ MaxKeys \in Nat /\ keys <= MaxKeys /\ reaps \in Nat /\ restarts \in Nat
      BY CounterTypes, CostsNat, Zenon
    <3>3. spent = (MaxKeys + 2) * (reaps - 1) + (MaxKeys + 2) /\ (MaxKeys + 2) * (reaps - 1) \in Nat
      BY <1>6, <3>2, Times
    <3>4. spent >= MaxKeys /\ spent \in Nat
      <4> DEFINE rest == (MaxKeys + 2) * (reaps - 1)
      <4>1. spent = rest + (MaxKeys + 2) /\ rest \in Nat
        BY <3>3, Zenon
      <4> HIDE DEF spent, rest
      <4> QED BY <3>2, <4>1
    <3>5. 0 + o <= spent + 0
      <4> HIDE DEF o, spent
      <4> QED BY <3>1, <3>2, <3>4
    <3>6. waits' + Owed' <= (MaxKeys + 2) * reaps' + Credit'
      BY <1>6, <2>2, <3>1, <3>5, Zenon
    <3> QED BY <1>1, <2>2, <3>6, Zenon DEF WaitInv
  <2> QED BY <1>2, <2>1, <2>2, Zenon
<1> QED BY <1>1, <1>2, <1>3, <1>5, <1>7, <1>8, Zenon DEF AccountInv

LEMMA LoopTickAccounts ==
  ASSUME KernelInv, AccountInv, LoopTick
  PROVE  AccountInv'
<1>1. /\ loop.at = "tick" /\ panic = "none" /\ Still /\ keys' = keys /\ ~tick'
      /\ tick' \in BOOLEAN /\ waits' = waits /\ panic' = panic /\ GoTo("wait")
  BY Zenon DEF LoopTick, LoopAt, Running, scheduler, memory, ledger, Still, TablesStay
<1>2. loop' \in [at : Places, expected : Nat, before : Nat] /\ loop'.at = "wait"
  BY <1>1, CounterTypes, Moved, Zenon DEF Places
<1>3. /\ waits' \in Nat /\ keys' \in 0..MaxKeys /\ panic' \in Panics \ {"restart_failed"}
  BY <1>1, CounterTypes, CostsNat DEF Panics
<1>4. reaps' = reaps /\ restarts' = restarts /\ heap' = heap
  BY <1>1, Zenon DEF Still, TablesStay
<1>5. LoopInv'
  BY <1>1, <1>2, <1>4, Zenon DEF LoopInv, AccountInv
<1>6. waits' + Owed' + Credit <= waits + Owed + Credit'
  <2>1. Owed' = Owed /\ Credit' = Credit
    BY <1>1, <1>2, Zenon DEF Owed, Due, Credit, Still, TablesStay
  <2> QED BY <1>1, <2>1, SameWaits, Zenon
<1> QED BY <1>1, <1>2, <1>3, <1>5, <1>6, StillAccounts, Zenon

-----------------------------------------------------------------------------
(* A restart finds a slot, a record, a directory and memory. *)

LEMMA OneMore ==
  ASSUME NEW S, NEW x, x \notin S, IsFiniteSet(S), NEW T, T = S \cup {x}
  PROVE  Cardinality(T) = Cardinality(S) + 1
  BY FS_AddElement, Zenon

LEMMA Pigeonhole ==
  ASSUME NEW a \in Nat, NEW b \in Nat, NEW S, IsFiniteSet(S), Cardinality(S) < b
  PROVE  \E x \in a + 1..a + b : x \notin S
<1> SUFFICES ASSUME a + 1..a + b \in SUBSET S PROVE FALSE
  BY Zenon
<1>1. Cardinality(a + 1..a + b) = IF a + 1 > a + b THEN 0 ELSE (a + b) - (a + 1) + 1
  <2>1. a + 1 \in Int /\ a + b \in Int
    OBVIOUS
  <2> QED BY <2>1, FS_Interval, Zenon
<1>2. Cardinality(a + 1..a + b) <= Cardinality(S)
  BY FS_Subset, Zenon
<1>3. Cardinality(S) \in Nat
  BY FS_CardinalityType, Zenon
<1>4. Cardinality(a + 1..a + b) = b
  BY <1>1
<1> QED BY <1>2, <1>3, <1>4

LEMMA SlotIsThere ==
  ASSUME KernelInv, AccountInv, Cardinality(StackSlots) < Users
  PROVE  /\ TaskSlot < MaxTasks /\ TaskSlot \in ReusableSlots
<1>1. PICK s \in Workers + 1..Workers + Users : s \notin StackSlots
  BY Pigeonhole, FiniteSlots, ConstantsNat, CostsNat, Zenon DEF KernelInv
<1>2. s \in UserSlots
  BY Zenon DEF AccountInv, RecordInv
<1>3. ~tasks[s].stack /\ s \in 1..taskCount - 1
  BY <1>1, <1>2, Zenon DEF StackSlots, UserSlots
<1>4. ~tasks[s].frame /\ s \notin pendingReap /\ tasks[s].state = "terminated"
  BY <1>2, <1>3, Zenon DEF AccountInv, StackInv, Live
<1>5. s \in ReusableSlots
  BY <1>3, <1>4, Zenon DEF ReusableSlots
<1>6. Min(ReusableSlots) \in ReusableSlots
  <2>1. ReusableSlots \in SUBSET Nat
    BY DEF ReusableSlots
  <2> QED BY <1>5, <2>1, LeastElement, Zenon
<1>7. TaskSlot \in ReusableSlots
  BY <1>5, <1>6, Zenon DEF TaskSlot
<1> QED BY <1>7, ConstantsNat DEF ReusableSlots, KernelInv, Tables

LEMMA RestartIsPossible ==
  ASSUME KernelInv, MailInv, AccountInv, LoopAt("restart")
  PROVE  CanSpawn(SpaceCost)
<1>1. /\ loop.at = "restart" /\ Running /\ current = EventLoop
  BY Zenon DEF LoopAt
<1>2. /\ Begun = restarts /\ restarts < RestartTarget /\ reaps > restarts
      /\ free >= Cost /\ Cardinality(StackSlots) < Users /\ Cardinality(spaces) < Users
  BY <1>1, CounterTypes DEF AccountInv, LoopInv, Begun
<1>3. cr3 = Kernel
  <2>1. EventLoop \in Slots /\ EventLoop \in 1..taskCount - 1
    BY SlotRanges, Zenon DEF KernelInv
  <2>2. tasks[EventLoop].space = Kernel /\ Live(current)
    BY <1>1, <2>1, Zenon DEF KernelInv, Separate, LoopReady, Live
  <2> QED BY <1>1, <2>2, Zenon DEF KernelInv, InSpace
<1>4. /\ Cardinality(spaces) < MaxProcesses /\ Cardinality(Active) < MaxProcesses
  <2>1. Cardinality(spaces) \in Nat /\ Cardinality(Active) = Cardinality(spaces)
    BY Balance, Zenon
  <2>2. Users <= MaxProcesses /\ MaxProcesses \in Nat
    BY KernelConstants, Zenon
  <2> QED BY <1>2, <2>1, <2>2, CounterTypes, CostsNat
<1>5. MaxProcesses \in Nat /\ 0 + 1 = 1 /\ 0 + MaxProcesses = MaxProcesses
  BY ConstantsNat
<1>6. Spaces \ spaces # {}
  <2>1. \E x \in 0 + 1..0 + MaxProcesses : x \notin spaces
    BY <1>4, <1>5, Pigeonhole, FiniteSlots, Zenon DEF KernelInv
  <2> QED BY <1>5, <2>1, Zenon DEF Spaces
<1>7. Inactive # {}
  <2>1. \E x \in 0 + 1..0 + MaxProcesses : x \notin Active
    BY <1>4, <1>5, Pigeonhole, FiniteSlots, Zenon DEF KernelInv
  <2> QED BY <1>5, <2>1, Zenon DEF Inactive, Active
<1>8. TaskSlot < MaxTasks /\ TaskSlot \in Slots
  BY <1>2, SlotIsThere, SlotIsFree, Zenon
<1>9. generation[TaskSlot] < MaxGeneration
  <2>1. generation[TaskSlot] <= 1 + Begun + runs /\ generation[TaskSlot] \in Nat
    BY <1>8, ConstantsNat DEF AccountInv, RecordInv, KernelInv, Tables
  <2>2. RestartTarget + MaxRuns < MaxGeneration /\ MaxGeneration \in Nat
    BY RestartConstants, ConstantsNat, Zenon
  <2> QED BY <1>2, <2>1, <2>2, CounterTypes, CostsNat
<1>10. ~SpaceInUse(Min(Spaces \ spaces))
  <2>1. Min(Spaces \ spaces) \in Spaces \ spaces
    <3>1. Spaces \ spaces \in SUBSET Nat
      BY ConstantsNat DEF Spaces
    <3> QED BY <1>6, <3>1, LeastElement, Zenon
  <2>2. \A s \in 1..taskCount - 1 : LiveUser(s) => tasks[s].space \in spaces
    BY SlotRanges, Zenon DEF KernelInv, Backed
  <2> QED BY <2>1, <2>2, Zenon DEF SpaceInUse
<1>11. free >= SpaceCost + StackCost
  BY <1>2, CostsNat, CounterTypes
<1> QED BY <1>3, <1>6, <1>7, <1>8, <1>9, <1>10, <1>11, Zenon DEF CanSpawn

(* What a new process adds to each of the sets that are counted. *)
LEMMA StartedSets ==
  ASSUME KernelInv, MailInv, AccountInv, NEW slot \in ReusableSlots \cup {taskCount}, NEW gen, NEW space, NEW p,
         Started(slot, gen, space, p)
  PROVE  /\ UserSlots' = UserSlots \cup {slot}
         /\ LiveSlots' = LiveSlots \cup {slot} /\ slot \notin LiveSlots
         /\ StackSlots' = StackSlots \cup {slot} /\ slot \notin StackSlots
         /\ spaces' = spaces \cup {space} /\ space \notin spaces
         /\ Active' = Active \cup {p} /\ p \notin Active
         /\ StackInv'
<1>1. /\ slot \in Slots /\ tasks'[slot].state = "runnable" /\ tasks'[slot].mode = "user"
      /\ tasks'[slot].frame /\ tasks'[slot].stack
      /\ \A s \in Slots : s # slot => tasks'[s] = tasks[s]
      /\ 1..taskCount' - 1 = (1..taskCount - 1) \cup {slot}
  BY StartedTable, Zenon
<1>2. /\ slot \notin StackSlots /\ slot \notin LiveSlots /\ slot \notin pendingReap /\ ~Live(slot)
  <2>1. CASE slot \in ReusableSlots
    BY <2>1, Zenon DEF ReusableSlots, StackSlots, LiveSlots, Live
  <2>2. CASE slot = taskCount
    <3>1. slot \notin 1..taskCount - 1
      BY <2>2, ConstantsNat DEF KernelInv, Tables
    <3>2. slot \notin UserSlots
      BY <3>1, Zenon DEF UserSlots
    <3> QED BY <3>1, <3>2, Zenon DEF StackSlots, LiveSlots, Live, AccountInv, StackInv
  <2> QED BY <2>1, <2>2, Zenon
<1>3. /\ 1..taskCount - 1 \subseteq Slots /\ pendingReap \subseteq 1..taskCount - 1
      /\ \A s \in 1..taskCount' - 1 : s = slot \/ s \in 1..taskCount - 1
  BY <1>1, SlotRanges, Zenon DEF KernelInv, MailInv, Framed
<1>4. UserSlots' = UserSlots \cup {slot}
  BY <1>1, <1>2, <1>3, Zenon DEF UserSlots
<1>5. LiveSlots' = LiveSlots \cup {slot} /\ slot \notin LiveSlots
  <2>1. \A s \in UserSlots : s \in Slots
    BY <1>3, Zenon DEF UserSlots
  <2> QED BY <1>1, <1>2, <1>4, <2>1, Zenon DEF LiveSlots
<1>6. StackSlots' = StackSlots \cup {slot} /\ slot \notin StackSlots
  <2>1. \A s \in UserSlots : s \in Slots
    BY <1>3 DEF UserSlots
  <2> QED BY <1>1, <1>2, <1>4, <2>1, Zenon DEF StackSlots
<1>7. /\ spaces' = spaces \cup {space} /\ space \notin spaces /\ p \in 1..MaxProcesses
      /\ ~processes[p].active /\ current' = current /\ pendingReap' = pendingReap
  BY Zenon DEF Started
<1>8. Active' = Active \cup {p} /\ p \notin Active
  <2> DEFINE record == [active |-> TRUE, slot |-> slot, id |-> TaskId(gen, slot), space |-> space]
  <2>1. processes' = [processes EXCEPT ![p] = record] /\ record.active
    BY Zenon DEF Started
  <2> HIDE DEF record
  <2>2. \A q \in 1..MaxProcesses : processes'[q] = IF q = p THEN record ELSE processes[q]
    BY <2>1, Zenon DEF KernelInv, Tables
  <2> QED BY <1>7, <2>1, <2>2, Zenon DEF Active
<1>9. StackInv'
  <2>1. Live(slot)' /\ \A s \in 1..taskCount - 1 : Live(s)' <=> Live(s) \/ s = slot
    BY <1>1, <1>3, Zenon DEF Live
  <2>2. \A s \in 1..taskCount' - 1 : tasks'[s].stack <=> Live(s)' \/ s \in pendingReap'
    <3>1. ASSUME NEW s \in 1..taskCount - 1, s # slot
          PROVE  tasks'[s].stack <=> Live(s)' \/ s \in pendingReap'
      BY <1>1, <1>3, <1>7, <2>1, <3>1, Zenon DEF AccountInv, StackInv
    <3> QED BY <1>1, <1>3, <2>1, <3>1, Zenon
  <2>3. \A s \in UserSlots' : tasks'[s].frame => tasks'[s].stack
    BY <1>1, <1>3, <1>4, Zenon DEF AccountInv, StackInv, UserSlots
  <2>4. pendingReap' \subseteq UserSlots' /\ \A s, t \in pendingReap' : s = t
    BY <1>4, <1>7, Zenon DEF AccountInv, StackInv
  <2>5. current' # 0 => Live(current)'
    <3>1. current # 0 => Live(current) /\ current \in 1..taskCount - 1
      BY Zenon DEF AccountInv, StackInv, Live
    <3> QED BY <1>7, <2>1, <3>1, Zenon
  <2> QED BY <2>2, <2>3, <2>4, <2>5, Zenon DEF StackInv
<1> QED BY <1>4, <1>5, <1>6, <1>7, <1>8, <1>9, Zenon

LEMMA StartedRecords ==
  ASSUME KernelInv, AccountInv, NEW slot, NEW gen, NEW space, NEW p,
         Started(slot, gen, space, p), cr3 = Kernel, UserSlots \subseteq UserSlots',
         NEW b \in Nat, NEW r \in Nat,
         Begun' = b, runs' = r, b + r = Begun + runs + 1
  PROVE  RecordInv'
<1>1. Begun \in Nat /\ runs \in Nat
  BY CounterTypes DEF Begun
<1>2. cr3' \in spaces' \cup {Kernel}
  BY Zenon DEF Started
<1>3. Workers + 1..Workers + Users \subseteq UserSlots'
  BY Zenon DEF AccountInv, RecordInv
<1>4. ASSUME NEW q \in 1..MaxProcesses
      PROVE  processes'[q].active \/ processes'[q] = NoProcess
  <2> DEFINE record == [active |-> TRUE, slot |-> slot, id |-> TaskId(gen, slot), space |-> space]
  <2>1. processes' = [processes EXCEPT ![p] = record] /\ record.active
    BY Zenon DEF Started
  <2> HIDE DEF record
  <2>2. processes'[q] = IF q = p THEN record ELSE processes[q]
    BY <2>1, Zenon DEF KernelInv, Tables
  <2> QED BY <2>1, <2>2, Zenon DEF AccountInv, RecordInv
<1>5. ASSUME NEW s \in Slots
      PROVE  generation'[s] <= 1 + b + r
  <2>1. generation' = [generation EXCEPT ![slot] = gen] /\ gen = generation[slot] + 1
        /\ slot \in Slots
    BY Zenon DEF Started
  <2>2. generation \in [Slots -> 0..MaxGeneration] /\ generation[s] \in Nat
    BY ConstantsNat DEF KernelInv, Tables
  <2>3. generation'[s] = IF s = slot THEN generation[s] + 1 ELSE generation[s]
    BY <2>1, <2>2, Zenon
  <2>4. generation[s] <= 1 + Begun + runs
    BY Zenon DEF AccountInv, RecordInv
  <2> QED BY <1>1, <2>2, <2>3, <2>4
<1>6. \A s \in Slots : generation'[s] <= 1 + Begun' + runs'
  BY <1>5, Zenon
<1> QED BY <1>2, <1>3, <1>4, <1>6, Zenon DEF RecordInv

LEMMA StartedCounts ==
  ASSUME KernelInv, MailInv, AccountInv, NEW slot \in ReusableSlots \cup {taskCount}, NEW gen,
         NEW space, NEW p, Started(slot, gen, space, p),
         NEW blocks, \/ blocks = SpaceCost /\ ran' = ran
                     \/ blocks = SpaceCost + ImageCost /\ ran' = ran \cup {space},
         NEW f \in Nat, free' = f, f + blocks + StackCost = free,
         heap' = heap, returned' = returned, reaps' = reaps,
         NEW b \in Nat, NEW r \in Nat, Begun' = b, runs' = r, b + r = Begun + runs + 1
  PROVE  CountInv'
<1>1. /\ LiveSlots' = LiveSlots \cup {slot} /\ slot \notin LiveSlots
      /\ StackSlots' = StackSlots \cup {slot} /\ slot \notin StackSlots
      /\ spaces' = spaces \cup {space} /\ space \notin spaces
      /\ Active' = Active \cup {p} /\ p \notin Active
  BY StartedSets, ZenonT(30)
<1>2. /\ IsFiniteSet(StackSlots) /\ IsFiniteSet(LiveSlots) /\ IsFiniteSet(spaces)
      /\ IsFiniteSet(Active) /\ Cardinality(StackSlots) \in Nat /\ Cardinality(LiveSlots) \in Nat
      /\ Cardinality(spaces) \in Nat /\ Cardinality(Active) \in Nat
  BY FiniteSlots, Zenon DEF KernelInv
<1>3. /\ Cardinality(StackSlots') = Cardinality(StackSlots) + 1
      /\ Cardinality(LiveSlots') = Cardinality(LiveSlots) + 1
      /\ Cardinality(spaces') = Cardinality(spaces) + 1
      /\ Cardinality(Active') = Cardinality(Active) + 1
  BY <1>1, <1>2, OneMore, Zenon
<1>4. /\ Begun \in Nat /\ runs \in Nat /\ reaps \in Nat /\ Users \in Nat /\ heap \in Nat
      /\ StackCost \in Nat /\ SpaceCost \in Nat /\ ImageCost \in Nat /\ free \in Nat
  <2>1. Begun \in Nat
    BY CounterTypes DEF Begun
  <2> QED BY <2>1, CounterTypes, CostsNat, Zenon
<1>5. /\ Cardinality(spaces') + reaps' = Users + Begun' + runs'
      /\ Cardinality(Active') + reaps' = Users + Begun' + runs'
      /\ Cardinality(LiveSlots') + reaps' = Users + Begun' + runs'
  <2>1. ASSUME NEW c \in Nat, c + reaps = Users + Begun + runs
        PROVE  c + 1 + reaps = Users + b + r
    BY <1>4, <2>1
  <2>2. /\ Cardinality(spaces) + reaps = Users + Begun + runs
        /\ Cardinality(Active) + reaps = Users + Begun + runs
        /\ Cardinality(LiveSlots) + reaps = Users + Begun + runs
    BY Zenon DEF AccountInv, CountInv
  <2>3. /\ Cardinality(spaces) + 1 + reaps = Users + b + r
        /\ Cardinality(Active) + 1 + reaps = Users + b + r
        /\ Cardinality(LiveSlots) + 1 + reaps = Users + b + r
    BY <1>2, <2>1, <2>2, Zenon
  <2> QED BY <1>3, <2>3, Zenon
<1>6. SpaceHeld \in Nat /\ blocks \in Nat /\ SpaceHeld' = SpaceHeld + blocks
  <2> DEFINE c == SpaceCost * Cardinality(spaces)
             d == ImageCost * Cardinality(ran)
  <2>1. IsFiniteSet(ran) /\ Cardinality(ran) \in Nat /\ space \notin ran /\ SpaceHeld \in Nat
    BY <1>1, FiniteRan, Zenon DEF KernelInv, AccountInv, Counters
  <2>2. SpaceCost * (Cardinality(spaces) + 1) = c + SpaceCost /\ c \in Nat /\ d \in Nat
        /\ ImageCost * (Cardinality(ran) + 1) = d + ImageCost
    BY <1>2, <1>4, <2>1, Times
  <2>3. SpaceHeld = c + d
    BY Zenon DEF SpaceHeld
  <2>4. CASE blocks = SpaceCost /\ ran' = ran
    <3>1. SpaceHeld' = c + SpaceCost + d
      BY <1>3, <2>2, <2>4, Zenon DEF SpaceHeld
    <3> HIDE DEF c, d
    <3> QED BY <1>4, <2>1, <2>2, <2>3, <2>4, <3>1
  <2>5. CASE blocks = SpaceCost + ImageCost /\ ran' = ran \cup {space}
    <3>1. Cardinality(ran') = Cardinality(ran) + 1
      BY <2>1, <2>5, OneMore, Zenon
    <3>2. SpaceHeld' = c + SpaceCost + (d + ImageCost)
      BY <1>3, <2>2, <3>1, Zenon DEF SpaceHeld
    <3> HIDE DEF c, d
    <3> QED BY <1>4, <2>1, <2>2, <2>3, <2>5, <3>2
  <2> QED BY <2>4, <2>5, Zenon
<1> DEFINE a == StackCost * Cardinality(StackSlots)
<1>7. StackCost * (Cardinality(StackSlots) + 1) = a + StackCost /\ a \in Nat
  BY <1>2, <1>4, Times, Zenon
<1>8. f + heap + (a + StackCost) + (SpaceHeld + blocks) = free + heap + a + SpaceHeld
  <2> HIDE DEF a
  <2> QED BY <1>4, <1>6, <1>7
<1>9. free + heap + a + SpaceHeld = Baseline /\ Baseline' = Baseline
  BY Zenon DEF AccountInv, CountInv, Baseline
<1>10. free' + heap' + StackCost * Cardinality(StackSlots') + SpaceHeld' = Baseline'
  BY <1>3, <1>6, <1>7, <1>8, <1>9, Zenon
<1> QED BY <1>5, <1>10, Zenon DEF CountInv

(* A process is started and paid for. *)
LEMMA SpawnAccounts ==
  ASSUME KernelInv, MailInv, AccountInv, NEW blocks, CanSpawn(blocks), Spawn(blocks),
         \/ blocks = SpaceCost /\ ran' = ran
         \/ blocks = SpaceCost + ImageCost /\ ran' = ran \cup (spaces' \ spaces),
         panic' = panic, heap' = heap, returned' = returned,
         NEW b \in Nat, NEW r \in Nat, Begun' = b, runs' = r, b + r = Begun + runs + 1
  PROVE  /\ StackInv' /\ RecordInv' /\ CountInv'
         /\ free' \in Nat /\ reaps' = reaps /\ ran' \subseteq spaces'
<1>1. PICK slot, gen, space, p : slot = TaskSlot /\ Started(slot, gen, space, p)
  BY SpawnStarts, Zenon
<1>2. slot \in ReusableSlots \cup {taskCount}
  <2>1. ReusableSlots \in SUBSET Nat
    BY DEF ReusableSlots
  <2> QED BY <1>1, <2>1, LeastElement, Zenon DEF TaskSlot
<1>3. free' = free - blocks - StackCost /\ reaps' = reaps /\ cr3 = Kernel /\ free >= blocks + StackCost
  BY Zenon DEF Spawn, CanSpawn
<1>4. StackInv' /\ UserSlots \subseteq UserSlots' /\ spaces' = spaces \cup {space} /\ space \notin spaces
  BY <1>1, <1>2, StartedSets, ZenonT(30)
<1>5. spaces' \ spaces = {space} /\ ran \subseteq spaces
  BY <1>4, Zenon DEF AccountInv, Counters
<1>6. /\ \/ blocks = SpaceCost /\ ran' = ran
         \/ blocks = SpaceCost + ImageCost /\ ran' = ran \cup {space}
      /\ ran' \subseteq spaces'
  BY <1>4, <1>5, Zenon
<1>7. RecordInv'
  BY <1>1, <1>3, <1>4, StartedRecords, Zenon
<1>8. free' \in Nat /\ (free - blocks - StackCost) + blocks + StackCost = free
  <2>1. /\ free \in Nat /\ StackCost \in Nat /\ SpaceCost \in Nat /\ ImageCost \in Nat
    BY CounterTypes, CostsNat, Zenon
  <2>2. blocks \in Nat
    BY <1>6, <2>1
  <2> QED BY <1>3, <2>1, <2>2
<1>9. CountInv'
  BY <1>1, <1>2, <1>3, <1>6, <1>8, StartedCounts, Zenon
<1> QED BY <1>3, <1>4, <1>6, <1>7, <1>8, <1>9, Zenon

LEMMA RestartAccounts == KernelInv /\ MailInv /\ AccountInv /\ LoopRestart => AccountInv'
<1> SUFFICES ASSUME KernelInv, MailInv, AccountInv, LoopRestart PROVE AccountInv'
  OBVIOUS
<1>1. LoopAt("restart") /\ loop.at = "restart" /\ panic = "none"
  BY Zenon DEF LoopRestart, LoopAt, Running
<1>2. CanSpawn(SpaceCost)
  BY <1>1, RestartIsPossible, Zenon
<1>3. /\ Spawn(SpaceCost) /\ GoTo("verify") /\ restarts' = restarts /\ waits' = waits /\ keys' = keys
      /\ heap' = heap /\ returned' = returned /\ runs' = runs /\ ran' = ran
      /\ tick' = tick /\ panic' = panic /\ pendingReap' = pendingReap
  BY <1>2, Zenon DEF LoopRestart, Spawn, ledger
<1>4. restarts < RestartTarget /\ reaps > restarts
  BY <1>1, Zenon DEF AccountInv, LoopInv
<1>5. loop' \in [at : Places, expected : Nat, before : Nat] /\ loop'.at = "verify"
  BY <1>3, CounterTypes, Moved, Zenon DEF Places
<1>6. /\ Begun' = Begun + 1 /\ Begun + 1 \in Nat /\ runs \in Nat
      /\ (Begun + 1) + runs = Begun + runs + 1
  BY <1>1, <1>3, <1>5, CounterTypes DEF Begun
<1>7. /\ StackInv' /\ RecordInv' /\ CountInv'
      /\ free' \in Nat /\ reaps' = reaps /\ ran' \subseteq spaces'
  BY <1>2, <1>3, <1>6, SpawnAccounts, Zenon
<1>8. Counters'
  BY <1>3, <1>5, <1>7, Zenon DEF AccountInv, Counters
<1>9. LoopInv'
  BY <1>3, <1>4, <1>5, <1>7, Zenon DEF AccountInv, LoopInv
<1>10. WaitInv'
  <2>1. Owed' = Owed /\ Credit' = Credit
    BY <1>1, <1>3, <1>5, Zenon DEF Owed, Due, Credit
  <2>2. waits' + Owed' + Credit <= waits + Owed + Credit'
    BY <1>3, <2>1, SameWaits, Zenon
  <2>3. Undisturbed' => Undisturbed
    BY <1>3, Zenon DEF Undisturbed
  <2> QED BY <1>1, <1>3, <1>7, <1>8, <2>2, <2>3, WaitKept, Zenon
<1> QED BY <1>1, <1>3, <1>7, <1>8, <1>9, <1>10, Zenon DEF AccountInv

LEMMA RunAccounts == KernelInv /\ MailInv /\ AccountInv /\ LoopRun => AccountInv'
<1> SUFFICES ASSUME KernelInv, MailInv, AccountInv, LoopRun PROVE AccountInv'
  OBVIOUS
<1>1. /\ loop.at = "input" /\ panic = "none" /\ loop' = loop /\ restarts' = restarts /\ waits' = waits
      /\ keys' = keys /\ tick' = tick /\ panic' = panic /\ heap' = heap /\ returned' = returned
      /\ CanSpawn(SpaceCost + ImageCost) /\ Spawn(SpaceCost + ImageCost)
      /\ ran' = ran \cup (spaces' \ spaces) /\ runs < MaxRuns /\ runs' = runs + 1
  BY Zenon DEF LoopRun, Command, LoopAt, Running
<1>2. /\ Begun' = Begun /\ Begun \in Nat /\ runs + 1 \in 0..MaxRuns /\ runs + 1 \in Nat /\ runs + 1 # 0
      /\ Begun + (runs + 1) = Begun + runs + 1
  BY <1>1, CounterTypes, CostsNat DEF Begun
<1>3. /\ StackInv' /\ RecordInv' /\ CountInv'
      /\ free' \in Nat /\ reaps' = reaps /\ ran' \subseteq spaces'
  BY <1>1, <1>2, SpawnAccounts, Zenon
<1>4. Counters'
  BY <1>1, <1>2, <1>3, Zenon DEF AccountInv, Counters
<1>5. LoopInv' /\ WaitInv'
  BY <1>1, <1>2, <1>3, Zenon DEF AccountInv, LoopInv, WaitInv, Undisturbed
<1> QED BY <1>1, <1>3, <1>4, <1>5, Zenon DEF AccountInv

-----------------------------------------------------------------------------
(* The invariant of the accounts. *)

LEMMA InitAccounts == Init => AccountInv
<1>IntervalSize.
  ASSUME NEW a \in Nat, NEW b \in Nat
  PROVE  Cardinality(a + 1..a + b) = b
  <2> USE <1>IntervalSize
  <2>1. Cardinality(a + 1..a + b) = IF a + 1 > a + b THEN 0 ELSE (a + b) - (a + 1) + 1
    <3>1. a + 1 \in Int /\ a + b \in Int
      OBVIOUS
    <3> QED BY <3>1, FS_Interval, Zenon
  <2> QED BY <2>1
<1> SUFFICES ASSUME Init PROVE AccountInv
  BY Zenon
<1>1. KernelInv /\ EventLoop = Workers + Users + 1 /\ 1..taskCount - 1 = 1..EventLoop
      /\ 1..taskCount - 1 \subseteq Slots
  BY InitKeeps, InitRanges, SlotRanges, Zenon DEF KernelInv
<1>2. \A s \in 1..taskCount - 1 :
         /\ tasks[s].stack /\ tasks[s].state = "runnable" /\ tasks[s].frame
         /\ tasks[s].mode = "user" <=> s \in Workers + 1..Workers + Users
  BY <1>1, InitTasks, Zenon
<1>3. UserSlots = Workers + 1..Workers + Users
  <2>1. Workers + 1..Workers + Users \subseteq 1..taskCount - 1
    <3>1. Workers \in Nat /\ Users \in Nat /\ EventLoop = Workers + Users + 1
      BY <1>1, ConstantsNat, Zenon
    <3>2. Workers + 1..Workers + Users \subseteq 1..EventLoop
      BY <3>1
    <3> QED BY <1>1, <3>2, Zenon
  <2> QED BY <1>2, <2>1, Zenon DEF UserSlots
<1>4. StackSlots = UserSlots /\ LiveSlots = UserSlots
  BY <1>2, Zenon DEF StackSlots, LiveSlots, UserSlots
<1>5. Active = 1..Users /\ \A p \in 1..MaxProcesses : processes[p].active \/ processes[p] = NoProcess
  <2>1. Users <= MaxProcesses /\ MaxProcesses \in Nat
    BY KernelConstants, Zenon
  <2>2. ASSUME NEW p \in 1..MaxProcesses
        PROVE  /\ processes[p].active \/ processes[p] = NoProcess
               /\ processes[p].active <=> p <= Users
    BY Zenon DEF Init, NoProcess
  <2> QED BY <2>1, <2>2, CostsNat DEF Active
<1>6. spaces = 1..Users
  BY Zenon DEF Init
<1>7. /\ Cardinality(Active) = Users /\ Cardinality(spaces) = Users
      /\ Cardinality(LiveSlots) = Users /\ Cardinality(StackSlots) = Users
  <2>1. Cardinality(0 + 1..0 + Users) = Users /\ Cardinality(Workers + 1..Workers + Users) = Users
    BY <1>IntervalSize, ConstantsNat, CostsNat, Zenon
  <2>2. 0 + 1..0 + Users = 1..Users
    BY CostsNat
  <2> QED BY <1>3, <1>4, <1>5, <1>6, <2>1, <2>2, Zenon
<1>8. /\ free = InitialFree /\ reaps = 0 /\ restarts = 0 /\ waits = 0 /\ keys = 0 /\ heap = 0
      /\ returned = 0 /\ runs = 0 /\ ran = {}
      /\ loop = [at |-> "wait", expected |-> 0, before |-> 0] /\ loop.at = "wait"
      /\ tick = FALSE /\ panic = "none" /\ pendingReap = {} /\ current = 0 /\ cr3 = Kernel
  BY Zenon DEF Init
<1>9. Begun = 0
  BY <1>8 DEF Begun
<1>10. Counters
  <2>1. loop \in [at : Places, expected : Nat, before : Nat]
    BY <1>8, Zenon DEF Places
  <2>2. /\ tick \in BOOLEAN /\ panic \in Panics /\ heap \in {0, HeapCost}
        /\ returned \in {0, DriverBlocks} /\ ran \subseteq spaces
    BY <1>8, Zenon DEF Panics
  <2> QED BY <1>8, <2>1, <2>2, CostsNat DEF Counters
<1>11. StackInv
  BY <1>2, <1>8, Zenon DEF StackInv, UserSlots, Live
<1>12. RecordInv
  <2>1. \A s \in Slots : generation[s] <= 1
    BY DEF Init
  <2> QED BY <1>3, <1>5, <1>8, <1>9, <2>1 DEF RecordInv
<1>13. CountInv
  <2> DEFINE a == StackCost * Users
             b == SpaceCost * Users
             c == (StackCost + SpaceCost) * Users
  <2>1. a + b = c /\ a \in Nat /\ b \in Nat
    BY CostsNat
  <2>2. SpaceHeld = b
    <3>1. Cardinality(ran) = 0
      BY <1>8, FS_EmptySet, Zenon
    <3>2. SpaceHeld = b + ImageCost * 0
      BY <1>7, <3>1, Zenon DEF SpaceHeld
    <3>3. b + ImageCost * 0 = b
      <4> HIDE DEF b
      <4> QED BY <2>1, CostsNat
    <3> QED BY <3>2, <3>3, Zenon
  <2>3. free + heap + a + b = InitialFree + c + returned
    <3> HIDE DEF a, b, c
    <3> QED BY <1>8, <2>1, CostsNat
  <2>4. free + heap + StackCost * Cardinality(StackSlots) + SpaceHeld = Baseline
    BY <1>7, <2>2, <2>3, Zenon DEF Baseline
  <2>5. Users + 0 = Users + 0 + 0
    BY CostsNat
  <2> QED BY <1>7, <1>8, <1>9, <2>4, <2>5, Zenon DEF CountInv
<1>14. LoopInv /\ WaitInv
  <2>1. Owed = 0 + 0 /\ Credit = 0
    BY <1>8, Zenon DEF Owed, Due, Credit
  <2> QED BY <1>8, <2>1, CostsNat DEF LoopInv, WaitInv
<1> QED BY <1>8, <1>10, <1>11, <1>12, <1>13, <1>14, Zenon DEF AccountInv

LEMMA AccountStep == KernelInv /\ KernelInv' /\ MailInv /\ AccountInv /\ [Next]_vars => AccountInv'
<1> SUFFICES ASSUME KernelInv, KernelInv', MailInv, AccountInv, [Next]_vars PROVE AccountInv'
  BY Zenon
<1>1. CASE Timer \/ SyscallYield \/ SyscallReceiveWait \/ UserEnds
  BY <1>1, SwitchAccounts, Zenon
<1>3. CASE \E r \in {0} \cup {tasks[s].id : s \in Slots}, n \in 0..MessageMax : SyscallSend(r, n)
  BY <1>3, SendAccounts, Zenon
<1>4. CASE (\E c \in 0..MessageMax : SyscallReceive(c)) \/ UNCHANGED vars
  BY <1>4, ReceiveAccounts, Zenon
<1>2. CASE LoopFormat \/ LoopGivesUpDma \/ LoopRun
  BY <1>2, FormatAccounts, RunAccounts, Zenon
<1>5. CASE LoopWake \/ LoopInput \/ LoopCheck \/ LoopLimit
  BY <1>5, WakeAccounts, InputAccounts, CheckAccounts, LimitAccounts, Zenon
<1>6. CASE LoopCompare \/ LoopBefore \/ LoopRestart
  BY <1>6, CompareAccounts, BeforeAccounts, RestartAccounts, Zenon
<1>7. CASE LoopVerify \/ LoopTick
  BY <1>7, VerifyAccounts, LoopTickAccounts, Zenon
<1>8. CASE Halted
  BY <1>8, ReceiveAccounts, Zenon DEF Halted
<1> QED BY <1>1, <1>2, <1>3, <1>4, <1>5, <1>6, <1>7, <1>8, Zenon DEF Next, Syscall, EventStep

(* Stacks, records and blocks are counted right in every reachable state,  *)
(* and until a command moves blocks the event loop waits no longer than    *)
(* exits and keys account for (kernel_process_events).                     *)
THEOREM AccountInvariance == Spec => []AccountInv
<1>1. KernelInv /\ KernelInv' /\ MailInv /\ AccountInv /\ [Next]_vars => AccountInv'
  BY AccountStep, Zenon
<1> QED BY <1>1, InitAccounts, KernelInvariance, MailInvariance, PTL DEF Spec

LEMMA Types == KernelInv /\ MailInv /\ AccountInv => TypeOK
<1> SUFFICES ASSUME KernelInv, MailInv, AccountInv PROVE TypeOK
  BY Zenon
<1> USE ConstantsNat
<1>1. \A s \in Slots : tasks[s].id \in TaskIds
  <2>1. ASSUME NEW s \in Slots PROVE tasks[s].id \in TaskIds
    <3>1. CASE s \in 1..taskCount - 1
      <4>1. generation[s] \in 1..MaxGeneration /\ s \in 1..MaxTasks - 1
        BY <3>1 DEF KernelInv, Named, Tables
      <4>2. tasks[s].id = TaskId(generation[s], s)
        BY <3>1, Zenon DEF KernelInv, Named
      <4> QED BY <4>1, <4>2 DEF TaskIds
    <3>2. CASE s \notin 1..taskCount - 1
      <4>1. tasks[s].id = 0
        BY <3>2, Zenon DEF KernelInv, Named
      <4> QED BY <4>1 DEF TaskIds
    <3> QED BY <3>1, <3>2, Zenon
  <2> QED BY <2>1, Zenon
<1>2. tasks \in [Slots -> Task]
  <2>1. ASSUME NEW s \in Slots PROVE tasks[s] \in Task
    <3>1. tasks[s] \in TaskRecord /\ tasks[s].id \in TaskIds
      BY <1>1, Zenon DEF KernelInv, Tables
    <3> QED BY <3>1, Zenon DEF TaskRecord, Task
  <2> QED BY <2>1, Zenon DEF KernelInv, Tables
<1>3. processes \in [1..MaxProcesses -> Process]
  <2>1. ASSUME NEW p \in 1..MaxProcesses PROVE processes[p] \in Process
    <3>1. processes[p] \in ProcessRecord
      BY Zenon DEF KernelInv, Tables
    <3>2. processes[p].id \in TaskIds
      <4>1. CASE processes[p].active
        <5>1. processes[p].slot \in Slots /\ processes[p].id = tasks[processes[p].slot].id
          BY <3>1, <4>1, Zenon DEF KernelInv, Backed, ProcessRecord
        <5> QED BY <1>1, <5>1, Zenon
      <4>2. CASE ~processes[p].active
        <5>1. processes[p] = NoProcess
          BY <4>2, Zenon DEF AccountInv, RecordInv
        <5>2. NoProcess.id = 0
          BY Zenon DEF NoProcess
        <5> QED BY <5>1, <5>2 DEF TaskIds
      <4> QED BY <4>1, <4>2, Zenon
    <3> QED BY <3>1, <3>2, Zenon DEF ProcessRecord, Process
  <2> QED BY <2>1, Zenon DEF KernelInv, Tables
<1>4. current \in Slots /\ current < taskCount
  BY SlotRanges DEF KernelInv, Tables
<1>5. /\ {free, reaps, restarts, waits, keys, heap, returned, runs} \subseteq Nat
      /\ loop.at \in {"wait", "input", "check", "limit", "compare", "before", "restart", "verify", "tick"}
      /\ {loop.expected, loop.before} \subseteq Nat /\ tick \in BOOLEAN /\ panic \in Panics
  BY CounterTypes, Zenon DEF Places
<1>6. mail \in Seq(Message(TaskIds)) /\ Len(mail) <= QueueCapacity
  BY Zenon DEF MailInv, Letters
<1>7. cr3 \in spaces \cup {Kernel} /\ ran \subseteq spaces
  BY Zenon DEF AccountInv, RecordInv, Counters
<1> QED BY <1>2, <1>3, <1>4, <1>5, <1>6, <1>7, Zenon DEF TypeOK, KernelInv, Tables

LEMMA Owned == KernelInv /\ MailInv /\ AccountInv => BlocksAddUp
<1> SUFFICES ASSUME KernelInv, MailInv, AccountInv PROVE BlocksAddUp
  OBVIOUS
<1>1. current # 0 => tasks[current].stack
  BY Zenon DEF AccountInv, StackInv, Live
<1>2. free + Accounted = Baseline
  <2> DEFINE a == StackCost * Cardinality(StackSlots)
             b == SpaceCost * Cardinality(spaces)
             c == ImageCost * Cardinality(ran)
  <2>1. a \in Nat /\ b \in Nat /\ c \in Nat
    <3>1. Cardinality(StackSlots) \in Nat /\ Cardinality(spaces) \in Nat /\ Cardinality(ran) \in Nat
      BY FiniteSlots, FiniteRan, Zenon DEF KernelInv, AccountInv, Counters
    <3> QED BY <3>1, CostsNat, Times, Zenon
  <2>2. free + heap + a + (b + c) = Baseline
    BY Zenon DEF AccountInv, CountInv, SpaceHeld
  <2>3. Accounted = heap + a + b + c
    BY Zenon DEF Accounted, StackSlots
  <2>4. free \in Nat /\ heap \in Nat
    BY CounterTypes, Zenon
  <2> HIDE DEF a, b, c
  <2>5. free + (heap + a + b + c) = free + heap + a + (b + c)
    BY <2>1, <2>4
  <2> QED BY <2>2, <2>3, <2>5, Zenon
<1> QED BY <1>1, <1>2, Zenon DEF BlocksAddUp, AccountInv, StackInv

(* The tables keep their types, every process owns its space and record,   *)
(* and every block of memory has one owner, for any number of processes,   *)
(* restarts, commands and keys (user_process_spawn_locked,                 *)
(* user_process_reap_task, reap_pending_stacks, pformat, run and a disk    *)
(* driver that gives up DMA).                                              *)
THEOREM OwnershipHolds == Spec => []OwnershipInv
<1>1. KernelInv /\ MailInv /\ AccountInv => TypeOK /\ BlocksAddUp
  BY Types, Owned, Zenon
<1>2. TypeOK /\ BlocksAddUp /\ SpacesAreOwned => OwnershipInv
  BY Zenon DEF OwnershipInv
<1> QED BY <1>1, <1>2, KernelInvariance, MailInvariance, AccountInvariance, SpacesStayOwned, PTL

(* Whatever is typed, a restart finds a slot, a record, a directory and    *)
(* memory, and the scheduler a task to run.  Until pformat, run or a disk  *)
(* driver that gives up DMA has moved blocks, the waits are bounded by the *)
(* processes that ended, far from the limit, and only the count around a   *)
(* restart can halt the kernel (kernel_process_events).                    *)
THEOREM SupervisorPanics == Spec => []OnlyAccountingPanics
<1>1. KernelInv /\ AccountInv => OnlyAccountingPanics
  <2> SUFFICES ASSUME KernelInv, AccountInv PROVE OnlyAccountingPanics
    BY Zenon
  <2>1. panic \in {"none", "leaked", "waited"}
    BY CounterTypes, Zenon DEF Panics, KernelInv, SchedulerNeverPanics, AccountInv
  <2>2. Undisturbed => waits <= (MaxKeys + 2) * reaps + 1
    <3> DEFINE spent == (MaxKeys + 2) * reaps
    <3>1. Undisturbed => waits + Owed <= spent + Credit
      BY Zenon DEF AccountInv, WaitInv
    <3>2. spent \in Nat
      BY CounterTypes, CostsNat
    <3>3. Owed \in Nat /\ Credit \in 0..1 /\ waits \in Nat
      BY SameWaits, CounterTypes, Zenon
    <3> HIDE DEF spent
    <3>4. Undisturbed => waits <= spent + 1
      BY <3>1, <3>2, <3>3
    <3> QED BY <3>4, Zenon DEF spent
  <2>3. Undisturbed /\ panic # "none" => panic = "leaked" /\ loop.at = "verify"
    BY Zenon DEF AccountInv, WaitInv
  <2> QED BY <2>1, <2>2, <2>3, Zenon DEF OnlyAccountingPanics
<1> QED BY <1>1, KernelInvariance, AccountInvariance, PTL

=============================================================================
