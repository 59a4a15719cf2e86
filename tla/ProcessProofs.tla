---------------------------- MODULE ProcessProofs ----------------------------
(***************************************************************************)
(* The task table of process/scheduler.c and the process table of          *)
(* process/user_process.c, for any number of tasks, processes, generations *)
(* and restarts: an identifier is never used twice, every live user task   *)
(* has a process record and an address space of its own, and three of the  *)
(* panics of the kernel can never happen. With the queue of kernel/ipc.c:  *)
(* no wake-up is lost, and mail dies with either of its parties.           *)
(*                                                                         *)
(* The inductive invariant KernelInv adds to what is claimed the converse  *)
(* of ownership (an active record belongs to a live task), the shape of    *)
(* identifiers, and that the event loop is always ready to run. MailInv    *)
(* adds to the two claims about mail that a live task can be dispatched.   *)
(***************************************************************************)
EXTENDS ProcessKernel, MailboxProofs

TaskRecord ==
  [state : {"runnable", "blocked", "terminated"}, mode : {"kernel", "user"},
   id : Nat, space : Spaces \cup {Kernel}, stack : BOOLEAN, frame : BOOLEAN,
   priority : Nat \ {0}, ticks : Nat]

ProcessRecord ==
  [active : BOOLEAN, slot : Slots, id : Nat, space : Spaces \cup {Kernel}]

Tables ==
  /\ tasks \in [Slots -> TaskRecord]
  /\ taskCount \in 1..MaxTasks /\ EventLoop < taskCount
  /\ current \in 0..taskCount - 1
  /\ pendingReap \in SUBSET Slots
  /\ generation \in [Slots -> 0..MaxGeneration]
  /\ processes \in [1..MaxProcesses -> ProcessRecord]
  /\ spaces \in SUBSET Spaces

(* A slot in use carries the identifier of its generation, any other none. *)
Named ==
  \A s \in Slots :
    IF s \in 1..taskCount - 1
    THEN generation[s] >= 1 /\ tasks[s].id = TaskId(generation[s], s)
    ELSE tasks[s].state = "terminated" /\ tasks[s].id = 0

LoopReady ==
  /\ tasks[EventLoop].mode = "kernel" /\ tasks[EventLoop].state = "runnable"
  /\ tasks[EventLoop].frame
  /\ EventLoop \notin pendingReap

(* Records and live user tasks correspond one to one. *)
Backed ==
  /\ \A s \in Slots : LiveUser(s) =>
       /\ tasks[s].space \in spaces
       /\ \E p \in 1..MaxProcesses : processes[p].active /\ processes[p].slot = s
  /\ \A p \in 1..MaxProcesses : processes[p].active =>
       /\ LiveUser(processes[p].slot)
       /\ processes[p].id = tasks[processes[p].slot].id
       /\ processes[p].space = tasks[processes[p].slot].space
  /\ \A p, q \in 1..MaxProcesses :
       processes[p].active /\ processes[q].active /\ p # q =>
         processes[p].slot # processes[q].slot

Separate ==
  /\ \A s, t \in Slots : LiveUser(s) /\ LiveUser(t) /\ s # t => tasks[s].space # tasks[t].space
  /\ \A s \in Slots : tasks[s].mode = "kernel" => tasks[s].space = Kernel

InSpace == Running /\ Live(current) => cr3 = tasks[current].space

(* Three panics that never happen: no task to run in schedule_from_frame,  *)
(* a task without an address space there, and the end of a user task that  *)
(* no process record owns (user_process_reap_task).                        *)
SchedulerNeverPanics == panic \notin {"no_runnable", "space_switch", "unowned"}

KernelInv ==
  /\ Tables /\ Named /\ LoopReady
  /\ Backed /\ Separate /\ InSpace
  /\ SchedulerNeverPanics

-----------------------------------------------------------------------------
(* Arithmetic. *)

LEMMA ConstantsNat ==
  /\ Workers \in Nat /\ Users \in Nat /\ EventLoop \in Nat /\ EventLoop >= 1
  /\ MaxTasks \in Nat /\ EventLoop < MaxTasks
  /\ MaxProcesses \in Nat /\ Users <= MaxProcesses
  /\ MaxGeneration \in Nat /\ MaxGeneration >= 1
  /\ WorkerPriority \in Nat \ {0}
  BY KernelConstants DEF EventLoop

(* The generation is the leading digit of an identifier. *)
LEMMA IdsDiffer ==
  ASSUME NEW g \in Nat, NEW h \in Nat, NEW s \in 0..MaxTasks - 1, NEW t \in 0..MaxTasks - 1,
         TaskId(g, s) = TaskId(h, t)
  PROVE  s = t
  BY ConstantsNat DEF TaskId

LEMMA IdGrows ==
  ASSUME NEW g \in Nat, NEW s \in 1..MaxTasks - 1
  PROVE  TaskId(g + 1, s) > TaskId(g, s) /\ TaskId(g, s) > 0 /\ TaskId(g, s) \in Nat
  BY ConstantsNat DEF TaskId

-----------------------------------------------------------------------------
(* What schedule_from_frame leaves alone, and where it goes. *)

Same(t, u) == t.state = u.state /\ t.mode = u.mode /\ t.id = u.id /\ t.space = u.space

(* Only stacks, frames and time slices differ; a frame is lost by a reap.  *)
Kept(new, old, pending) ==
  /\ new \in [Slots -> TaskRecord]
  /\ \A s \in Slots : Same(new[s], old[s]) /\ (old[s].frame /\ s \notin pending => new[s].frame)

LEMMA RecordUpdates ==
  ASSUME NEW t \in TaskRecord, NEW n \in Nat
  PROVE  /\ [t EXCEPT !.stack = FALSE, !.frame = FALSE] \in TaskRecord
         /\ Same([t EXCEPT !.stack = FALSE, !.frame = FALSE], t)
         /\ [t EXCEPT !.frame = TRUE] \in TaskRecord
         /\ Same([t EXCEPT !.frame = TRUE], t) /\ [t EXCEPT !.frame = TRUE].frame
         /\ [t EXCEPT !.ticks = n] \in TaskRecord
         /\ Same([t EXCEPT !.ticks = n], t)
         /\ [t EXCEPT !.ticks = n].frame = t.frame
  BY ZenonT(30) DEF TaskRecord, Same

LEMMA SavedKeeps ==
  ASSUME NEW table \in [Slots -> TaskRecord], NEW pending \in SUBSET Slots
  PROVE  Kept(Saved(table, pending), table, pending)
<1> DEFINE new == Saved(table, pending)
<1>1. ASSUME NEW s \in Slots
      PROVE  new[s] \in TaskRecord /\ Same(new[s], table[s])
             /\ (table[s].frame /\ s \notin pending => new[s].frame)
  <2>1. CASE s \in Reapable(pending)
    <3>1. new[s] = [table[s] EXCEPT !.stack = FALSE, !.frame = FALSE] /\ s \in pending
      BY <2>1, Zenon DEF Saved, Reapable
    <3> QED BY <3>1, RecordUpdates, Zenon
  <2>2. CASE s \notin Reapable(pending) /\ s = current /\ table[s].mode = "kernel"
    <3>1. new[s] = [table[s] EXCEPT !.frame = TRUE]
      BY <2>2, Zenon DEF Saved
    <3> QED BY <3>1, RecordUpdates, Zenon
  <2>3. CASE s \notin Reapable(pending) /\ ~(s = current /\ table[s].mode = "kernel")
    <3>1. new[s] = table[s]
      BY <2>3, Zenon DEF Saved
    <3> QED BY <3>1, Zenon DEF Same
  <2> QED BY <2>1, <2>2, <2>3, Zenon
<1>2. new = [s \in Slots |-> new[s]]
  BY Zenon DEF Saved
<1>3. new \in [Slots -> TaskRecord]
  BY <1>1, <1>2, Zenon
<1> QED BY <1>1, <1>3, Zenon DEF Kept

LEMMA TicksKeep ==
  ASSUME NEW table \in [Slots -> TaskRecord], NEW s \in Slots, NEW n \in Nat, NEW new,
         new = [table EXCEPT ![s].ticks = n]
  PROVE  Kept(new, table, {})
<1>1. new = [table EXCEPT ![s] = [table[s] EXCEPT !.ticks = n]]
  BY Zenon
<1>2. ASSUME NEW t \in Slots
      PROVE  new[t] \in TaskRecord /\ Same(new[t], table[t]) /\ (table[t].frame => new[t].frame)
  <2>1. CASE t = s
    <3>1. new[t] = [table[s] EXCEPT !.ticks = n]
      BY <1>1, <2>1, Zenon
    <3> QED BY <2>1, <3>1, RecordUpdates, Zenon
  <2>2. CASE t # s
    <3>1. new[t] = table[t]
      BY <1>1, <2>2, Zenon
    <3> QED BY <3>1, Zenon DEF Same
  <2> QED BY <2>1, <2>2, Zenon
<1>3. new \in [Slots -> TaskRecord]
  <2>1. new = [t \in Slots |-> new[t]]
    BY <1>1, Zenon
  <2> QED BY <1>2, <2>1, Zenon
<1> QED BY <1>2, <1>3, Zenon DEF Kept

LEMMA KeptTwice ==
  ASSUME NEW a, NEW b, NEW c, NEW pending, Kept(b, a, pending), Kept(c, b, {})
  PROVE  Kept(c, a, pending)
  BY Zenon DEF Kept, Same

(* The event loop is always among the tasks to choose from. *)
LEMMA LoopIsReady ==
  ASSUME Tables, NEW table, Ready(table, EventLoop)
  PROVE  ReadyOffsets(table) # {}
<1>Remainder.
  ASSUME NEW n \in Nat, n > 0, NEW a \in 0..n - 1
  PROVE  /\ a % n = a /\ (a + n) % n = a
  BY <1>Remainder
<1> USE ConstantsNat
<1>1. taskCount \in Nat /\ current \in 0..taskCount - 1 /\ EventLoop \in 0..taskCount - 1
  BY DEF Tables
<1>2. EventLoop % taskCount = EventLoop /\ (EventLoop + taskCount) % taskCount = EventLoop
  BY <1>1, <1>Remainder
<1>3. CASE current < EventLoop
  <2>1. EventLoop - current \in 1..taskCount /\ current + (EventLoop - current) = EventLoop
    BY <1>1, <1>3
  <2>2. EventLoop - current \in ReadyOffsets(table)
    BY <1>2, <2>1, Zenon DEF ReadyOffsets
  <2> QED BY <2>2, Zenon
<1>4. CASE current >= EventLoop
  <2>1. /\ EventLoop + taskCount - current \in 1..taskCount
        /\ current + (EventLoop + taskCount - current) = EventLoop + taskCount
    BY <1>1, <1>4
  <2>2. EventLoop + taskCount - current \in ReadyOffsets(table)
    BY <1>2, <2>1, Zenon DEF ReadyOffsets
  <2> QED BY <2>2, Zenon
<1> QED BY <1>1, <1>3, <1>4

LEMMA NextIsReady ==
  ASSUME Tables, NEW table, ReadyOffsets(table) # {}
  PROVE  NextRunnable(table) \in 0..taskCount - 1 /\ Ready(table, NextRunnable(table))
<1>RemainderRange.
  ASSUME NEW n \in Nat, n > 0, NEW a \in Nat
  PROVE  a % n \in 0..n - 1
  BY <1>RemainderRange
<1>1. Min(ReadyOffsets(table)) \in ReadyOffsets(table)
  BY LeastElement DEF ReadyOffsets
<1>2. Min(ReadyOffsets(table)) \in Nat
  BY <1>1 DEF ReadyOffsets
<1>3. taskCount \in Nat /\ taskCount > 0 /\ current \in Nat
  BY ConstantsNat DEF Tables
<1>4. (current + Min(ReadyOffsets(table))) % taskCount \in 0..taskCount - 1
  BY <1>2, <1>3, <1>RemainderRange
<1> QED BY <1>1, <1>4, Zenon DEF NextRunnable, ReadyOffsets

(* schedule_from_frame, seen from the tables. *)
Switched(table, directory, valid) ==
  \/ /\ current' = current /\ table[current].state = "runnable"
     /\ cr3' = directory /\ panic' = panic
  \/ /\ current' \in 0..taskCount - 1 /\ current' # current
     /\ table[current'].state = "runnable"
     /\ IF table[current'].space \in valid \cup {Kernel}
        THEN cr3' = table[current'].space /\ panic' = panic
        ELSE panic' = "space_switch"

LEMMA ScheduleEffect ==
  ASSUME Tables, NEW table \in [Slots -> TaskRecord], NEW pending \in SUBSET Slots, NEW blocks,
         NEW directory, NEW valid, NEW force \in BOOLEAN,
         table[EventLoop].state = "runnable", table[EventLoop].frame, EventLoop \notin pending,
         Schedule(table, pending, blocks, directory, valid, force)
  PROVE  /\ Kept(tasks', table, pending)
         /\ pendingReap' \in SUBSET pending
         /\ Switched(table, directory, valid)
<1> USE ConstantsNat
<1> DEFINE mid == Saved(table, pending)
<1>1. Kept(mid, table, pending)
  BY SavedKeeps, Zenon
<1>2. Dispatch(mid, directory, valid, force) /\ pendingReap' = pending \ Reapable(pending)
  BY Zenon DEF Schedule
<1> HIDE DEF mid
<1>3. mid \in [Slots -> TaskRecord] /\ \A s \in Slots : Same(mid[s], table[s])
  BY <1>1, Zenon DEF Kept
<1>4. EventLoop \in Slots /\ current \in Slots /\ 0..taskCount - 1 \subseteq Slots
  BY DEF Tables, Slots
<1>5. Ready(mid, EventLoop)
  BY <1>1, <1>4, Zenon DEF Kept, Same, Ready
<1>6. /\ ReadyOffsets(mid) # {} /\ NextRunnable(mid) \in 0..taskCount - 1
      /\ Ready(mid, NextRunnable(mid))
  BY <1>5, LoopIsReady, NextIsReady, Zenon
<1>7. CASE ~force /\ mid[current].state = "runnable" /\ mid[current].ticks > 1
  <2>1. /\ tasks' = [mid EXCEPT ![current].ticks = mid[current].ticks - 1]
        /\ cr3' = directory /\ current' = current /\ panic' = panic
    BY <1>2, <1>7, Zenon DEF Dispatch
  <2>2. mid[current].ticks - 1 \in Nat
    BY <1>3, <1>4, <1>7 DEF TaskRecord
  <2>3. Kept(tasks', mid, {})
    <3> DEFINE n == mid[current].ticks - 1
    <3>1. n \in Nat /\ tasks' = [mid EXCEPT ![current].ticks = n]
      BY <2>1, <2>2, Zenon
    <3> HIDE DEF n
    <3> QED BY <1>3, <1>4, <3>1, TicksKeep, Zenon
  <2>4. table[current].state = "runnable"
    BY <1>3, <1>4, <1>7, Zenon DEF Same
  <2> QED BY <1>1, <1>2, <2>1, <2>3, <2>4, KeptTwice, Zenon DEF Switched
<1>8. CASE /\ ~(~force /\ mid[current].state = "runnable" /\ mid[current].ticks > 1)
           /\ NextRunnable(mid) = current
  <2>1. tasks' = mid /\ cr3' = directory /\ current' = current /\ panic' = panic
    BY <1>2, <1>6, <1>8, Zenon DEF Dispatch
  <2>2. table[current].state = "runnable"
    BY <1>3, <1>4, <1>6, <1>8, Zenon DEF Same, Ready
  <2> QED BY <1>1, <1>2, <2>1, <2>2, Zenon DEF Switched
<1>9. CASE /\ ~(~force /\ mid[current].state = "runnable" /\ mid[current].ticks > 1)
           /\ NextRunnable(mid) # current
  <2> DEFINE next == NextRunnable(mid)
  <2>1. /\ current' = next
        /\ tasks' = [mid EXCEPT ![next].ticks = mid[next].priority]
        /\ IF mid[next].space \in valid \cup {Kernel}
           THEN cr3' = mid[next].space /\ panic' = panic
           ELSE panic' = "space_switch"
    BY <1>2, <1>6, <1>9, Zenon DEF Dispatch
  <2>2. next \in Slots /\ next \in 0..taskCount - 1 /\ next # current
    BY <1>4, <1>6, <1>9, Zenon
  <2>3. mid[next].state = "runnable"
    BY <1>6, Zenon DEF Ready
  <2> HIDE DEF next
  <2>4. mid[next].priority \in Nat
    BY <1>3, <2>2, Zenon DEF TaskRecord
  <2>5. Kept(tasks', mid, {})
    BY <1>3, <2>1, <2>2, <2>4, TicksKeep, Zenon
  <2>6. mid[next].space = table[next].space /\ table[next].state = "runnable"
    BY <1>3, <2>2, <2>3, Zenon DEF Same
  <2> QED BY <1>1, <1>2, <2>1, <2>2, <2>5, <2>6, KeptTwice, Zenon DEF Switched
<1> QED BY <1>7, <1>8, <1>9, Zenon

-----------------------------------------------------------------------------
(* Steps that end no task and start none. *)

Alike(new, old) ==
  \A s \in Slots :
    /\ new[s].mode = old[s].mode /\ new[s].id = old[s].id /\ new[s].space = old[s].space
    /\ new[s].state = "terminated" <=> old[s].state = "terminated"

(* No slot comes back to life, and the invariant is kept. *)
NoneRevived ==
  \A s \in Slots : tasks[s].state = "terminated" => tasks'[s].state = "terminated"

Preserved == KernelInv' /\ NoneRevived

(* Who runs has a directory that is in use. *)
LEMMA SpaceInUseOfLive ==
  ASSUME Tables, Named, Backed, Separate, NEW s \in 0..taskCount - 1,
         tasks[s].state # "terminated"
  PROVE  Live(s) /\ (tasks[s].space = Kernel \/ (LiveUser(s) /\ tasks[s].space \in spaces))
<1>1. s \in Slots /\ s \in 1..taskCount - 1
  BY ConstantsNat DEF Tables, Slots, Named
<1>2. Live(s)
  BY <1>1, Zenon DEF Live
<1>3. tasks[s].mode \in {"kernel", "user"}
  BY <1>1, Zenon DEF Tables, TaskRecord
<1> QED BY <1>1, <1>2, <1>3, Zenon DEF Backed, Separate, LiveUser

LEMMA StaysAlike == Alike(tasks, tasks)
  BY Zenon DEF Alike

-----------------------------------------------------------------------------
(* Steps that switch to no other task: mail, and the event loop.           *)

-----------------------------------------------------------------------------
(* The end of a user task. *)

(* user_process_reap_task finds the record of the task that ends. *)
LEMMA OwnerIsFound ==
  ASSUME Tables, Backed, LiveUser(current)
  PROVE  \E p \in 1..MaxProcesses :
           /\ Owning(current) = {p} /\ Min(Owning(current)) = p
           /\ processes[p].active /\ processes[p].slot = current
           /\ processes[p].id = Me /\ processes[p].space = tasks[current].space
<1>1. current \in Slots
  BY ConstantsNat DEF Tables, Slots
<1>2. PICK p \in 1..MaxProcesses : processes[p].active /\ processes[p].slot = current
  BY <1>1, Zenon DEF Backed
<1>3. Owning(current) = {p}
  BY <1>2, Zenon DEF Owning, Backed
<1>4. Min(Owning(current)) = p
  <2>1. Owning(current) \in SUBSET Nat /\ Owning(current) # {}
    BY <1>3
  <2> QED BY <1>3, <2>1, LeastElement, Zenon
<1> QED BY <1>2, <1>3, <1>4, Zenon DEF Backed, Me

(* The task table handed to schedule_from_frame. *)
EndedTable == [tasks EXCEPT ![current].state = "terminated"]

SpacesLeft == spaces \ {tasks[current].space}

LEMMA EndedTableFacts ==
  ASSUME KernelInv, UserRuns
  PROVE  /\ tasks \in [Slots -> TaskRecord] /\ current \in Slots /\ EventLoop \in Slots
         /\ 0..taskCount - 1 \subseteq Slots /\ tasks[current].mode = "user"
         /\ current # EventLoop
         /\ EndedTable \in [Slots -> TaskRecord]
         /\ EndedTable[current].state = "terminated"
         /\ EndedTable[current].mode = tasks[current].mode
         /\ EndedTable[current].id = tasks[current].id
         /\ EndedTable[current].space = tasks[current].space
         /\ EndedTable[current].stack = tasks[current].stack
         /\ \A s \in Slots : s # current => EndedTable[s] = tasks[s]
         /\ EndedTable[EventLoop].state = "runnable" /\ EndedTable[EventLoop].frame
         /\ EventLoop \notin pendingReap \cup {current}
         /\ pendingReap \cup {current} \in SUBSET Slots
<1> USE ConstantsNat
<1>1. /\ tasks \in [Slots -> TaskRecord] /\ current \in Slots /\ EventLoop \in Slots
      /\ 0..taskCount - 1 \subseteq Slots /\ tasks[current].mode = "user" /\ current # EventLoop
  BY DEF KernelInv, Tables, Slots, UserRuns, LiveUser, LoopReady
<1>2. EndedTable \in [Slots -> TaskRecord]
  BY <1>1 DEF TaskRecord, EndedTable
<1>3. /\ EndedTable[current].state = "terminated"
      /\ EndedTable[current].mode = tasks[current].mode
      /\ EndedTable[current].id = tasks[current].id
      /\ EndedTable[current].space = tasks[current].space
      /\ EndedTable[current].stack = tasks[current].stack
      /\ \A s \in Slots : s # current => EndedTable[s] = tasks[s]
  BY <1>1, Zenon DEF TaskRecord, EndedTable
<1>4. /\ EndedTable[EventLoop].state = "runnable" /\ EndedTable[EventLoop].frame
      /\ EventLoop \notin pendingReap \cup {current}
      /\ pendingReap \cup {current} \in SUBSET Slots
  BY <1>1, <1>3, Zenon DEF KernelInv, LoopReady, Tables
<1> QED BY <1>1, <1>2, <1>3, <1>4, Zenon

(* What user_process_reap_task does, with its choice named. *)
Ends(p) ==
  /\ p \in 1..MaxProcesses /\ processes[p].active /\ processes[p].slot = current
  /\ processes' = [processes EXCEPT ![p] = NoProcess]
  /\ spaces' = SpacesLeft
  /\ Schedule(EndedTable, pendingReap \cup {current}, free + SpaceBlocks(p), Kernel, SpacesLeft, TRUE)
  /\ taskCount' = taskCount /\ generation' = generation

LEMMA UserEndsEffect ==
  ASSUME KernelInv, UserEnds
  PROVE  /\ \E p : Ends(p)
         /\ Kept(tasks', EndedTable, pendingReap \cup {current})
         /\ pendingReap' \in SUBSET (pendingReap \cup {current})
         /\ Switched(EndedTable, Kernel, SpacesLeft)
<1>1. UserRuns /\ LiveUser(current)
  BY Zenon DEF UserEnds, UserRuns
<1>2. PICK p \in 1..MaxProcesses :
         /\ Owning(current) = {p} /\ Min(Owning(current)) = p
         /\ processes[p].active /\ processes[p].slot = current
         /\ processes[p].id = Me /\ processes[p].space = tasks[current].space
  BY <1>1, OwnerIsFound, Zenon DEF KernelInv
<1>3. Ends(p)
  BY <1>2, Zenon DEF UserEnds, Ends, EndedTable, SpacesLeft
<1>4. /\ EndedTable \in [Slots -> TaskRecord]
      /\ EndedTable[EventLoop].state = "runnable" /\ EndedTable[EventLoop].frame
      /\ EventLoop \notin pendingReap \cup {current}
      /\ pendingReap \cup {current} \in SUBSET Slots
  BY <1>1, EndedTableFacts, Zenon
<1>5. Tables /\ Schedule(EndedTable, pendingReap \cup {current}, free + SpaceBlocks(p), Kernel,
                         SpacesLeft, TRUE)
  BY <1>3, Zenon DEF KernelInv, Ends
<1> QED BY <1>3, <1>4, <1>5, ScheduleEffect, ZenonT(30)

(* The task is gone and every other one is left alone. *)
LEMMA UserEndsTasks ==
  ASSUME KernelInv, UserEnds
  PROVE  /\ tasks' \in [Slots -> TaskRecord]
         /\ \A s \in Slots : /\ tasks'[s].mode = tasks[s].mode /\ tasks'[s].id = tasks[s].id
                             /\ tasks'[s].space = tasks[s].space
                             /\ s # current => tasks'[s].state = tasks[s].state
         /\ tasks'[current].state = "terminated"
         /\ \A s \in Slots : Live(s)' <=> Live(s) /\ s # current
         /\ \A s \in Slots : LiveUser(s)' <=> LiveUser(s) /\ s # current
<1>1. UserRuns /\ taskCount' = taskCount
  BY Zenon DEF UserEnds
<1>2. Kept(tasks', EndedTable, pendingReap \cup {current})
  BY UserEndsEffect, Zenon
<1>3. /\ current \in Slots
      /\ EndedTable[current].state = "terminated"
      /\ EndedTable[current].mode = tasks[current].mode
      /\ EndedTable[current].id = tasks[current].id
      /\ EndedTable[current].space = tasks[current].space
      /\ \A s \in Slots : s # current => EndedTable[s] = tasks[s]
  BY <1>1, EndedTableFacts, Zenon
<1>4. /\ tasks' \in [Slots -> TaskRecord]
      /\ \A s \in Slots : /\ tasks'[s].mode = tasks[s].mode /\ tasks'[s].id = tasks[s].id
                          /\ tasks'[s].space = tasks[s].space
                          /\ s # current => tasks'[s].state = tasks[s].state
      /\ tasks'[current].state = "terminated"
  BY <1>2, <1>3, Zenon DEF Kept, Same
<1>5. /\ \A s \in Slots : Live(s)' <=> Live(s) /\ s # current
      /\ \A s \in Slots : LiveUser(s)' <=> LiveUser(s) /\ s # current
  BY <1>1, <1>4, Zenon DEF Live, LiveUser
<1> QED BY <1>4, <1>5, Zenon

LEMMA UserEndsKeeps == KernelInv /\ UserEnds => Preserved
<1> SUFFICES ASSUME KernelInv, UserEnds PROVE Preserved
  BY Zenon
<1> USE ConstantsNat
<1>1. Running /\ LiveUser(current) /\ UserRuns
  BY Zenon DEF UserEnds, UserRuns
<1> DEFINE table == EndedTable
           left == SpacesLeft
<1>2. PICK p : Ends(p)
  BY UserEndsEffect, Zenon
<1>3. /\ processes' = [processes EXCEPT ![p] = NoProcess]
      /\ spaces' = left /\ taskCount' = taskCount /\ generation' = generation
      /\ p \in 1..MaxProcesses /\ processes[p].active /\ processes[p].slot = current
  BY <1>2, Zenon DEF Ends
<1>4. /\ tasks \in [Slots -> TaskRecord] /\ current \in Slots /\ EventLoop \in Slots
      /\ 0..taskCount - 1 \subseteq Slots /\ tasks[current].mode = "user" /\ current # EventLoop
  BY <1>1, EndedTableFacts, Zenon
<1>6. /\ table[current].state = "terminated"
      /\ \A s \in Slots : s # current => table[s] = tasks[s]
  BY <1>1, EndedTableFacts, Zenon
<1>7. /\ table[EventLoop].state = "runnable" /\ table[EventLoop].frame
      /\ EventLoop \notin pendingReap \cup {current}
      /\ pendingReap \cup {current} \in SUBSET Slots
  BY <1>1, EndedTableFacts, Zenon
<1>8. /\ Kept(tasks', table, pendingReap \cup {current})
      /\ pendingReap' \in SUBSET (pendingReap \cup {current})
      /\ Switched(table, Kernel, left)
  BY UserEndsEffect, Zenon
<1>9. /\ tasks' \in [Slots -> TaskRecord]
      /\ \A s \in Slots : /\ tasks'[s].mode = tasks[s].mode /\ tasks'[s].id = tasks[s].id
                          /\ tasks'[s].space = tasks[s].space
                          /\ s # current => tasks'[s].state = tasks[s].state
      /\ tasks'[current].state = "terminated"
  BY UserEndsTasks, Zenon
<1>10. /\ \A s \in Slots : Live(s)' <=> Live(s) /\ s # current
       /\ \A s \in Slots : LiveUser(s)' <=> LiveUser(s) /\ s # current
  BY UserEndsTasks, Zenon
<1> HIDE DEF table, left
<1>11. \A s \in Slots : LiveUser(s) /\ s # current => tasks[s].space \in left
  BY <1>1, <1>4, Zenon DEF KernelInv, Backed, Separate, left, SpacesLeft
<1>12. /\ current' \in 0..taskCount - 1 /\ current' # current
       /\ table[current'].state = "runnable"
       /\ IF table[current'].space \in left \cup {Kernel}
          THEN cr3' = table[current'].space /\ panic' = panic
          ELSE panic' = "space_switch"
  BY <1>6, <1>8, Zenon DEF Switched
<1>13. cr3' = tasks[current'].space /\ panic' = panic
  <2> DEFINE next == current'
  <2>1. /\ next \in 0..taskCount - 1 /\ next \in Slots /\ next # current
        /\ tasks[next].state # "terminated" /\ table[next] = tasks[next]
    BY <1>4, <1>6, <1>12, Zenon
  <2> HIDE DEF next
  <2>2. tasks[next].space = Kernel \/ LiveUser(next)
    BY <2>1, SpaceInUseOfLive, Zenon DEF KernelInv
  <2>3. tasks[next].space \in left \cup {Kernel}
    BY <1>11, <2>1, <2>2, Zenon
  <2> QED BY <1>12, <2>1, <2>3, Zenon DEF next
<1>14. Tables'
  <2>1. processes' \in [1..MaxProcesses -> ProcessRecord]
    <3>1. NoProcess \in ProcessRecord
      BY DEF NoProcess, ProcessRecord, Slots
    <3> QED BY <1>3, <3>1, Zenon DEF KernelInv, Tables
  <2>2. spaces' \in SUBSET Spaces
    BY <1>3, Zenon DEF KernelInv, Tables, left, SpacesLeft
  <2> QED BY <1>3, <1>7, <1>8, <1>9, <1>12, <2>1, <2>2, Zenon DEF KernelInv, Tables
<1>15. Named'
  BY <1>1, <1>3, <1>4, <1>9 DEF KernelInv, Named, LiveUser, Live
<1>16. LoopReady'
  BY <1>4, <1>6, <1>7, <1>8, Zenon DEF KernelInv, LoopReady, Kept, Same
<1>17. Backed'
  <2>1. ~processes'[p].active /\ \A q \in 1..MaxProcesses : q # p => processes'[q] = processes[q]
    BY <1>3, Zenon DEF KernelInv, Tables, NoProcess
  <2>2. ASSUME NEW s \in Slots, LiveUser(s)'
        PROVE  /\ tasks'[s].space \in spaces'
               /\ \E q \in 1..MaxProcesses : processes'[q].active /\ processes'[q].slot = s
    <3>1. LiveUser(s) /\ s # current
      BY <1>10, <2>2, Zenon
    <3>2. PICK q \in 1..MaxProcesses : processes[q].active /\ processes[q].slot = s
      BY <3>1, Zenon DEF KernelInv, Backed
    <3>3. q # p
      BY <1>3, <3>1, <3>2, Zenon
    <3> QED BY <1>3, <1>9, <1>11, <2>1, <3>1, <3>2, <3>3, Zenon
  <2>3. ASSUME NEW q \in 1..MaxProcesses, processes'[q].active, NEW t \in Slots,
               processes'[q].slot = t
        PROVE  /\ LiveUser(t)'
               /\ processes'[q].id = tasks'[t].id /\ processes'[q].space = tasks'[t].space
    <3>1. q # p /\ processes'[q] = processes[q]
      BY <2>1, <2>3, Zenon
    <3>2. t # current
      BY <1>3, <2>3, <3>1 DEF KernelInv, Backed
    <3> QED BY <1>9, <1>10, <2>3, <3>1, <3>2 DEF KernelInv, Backed
  <2>4. \A q \in 1..MaxProcesses : processes'[q].slot \in Slots
    BY <1>14, Zenon DEF Tables, ProcessRecord
  <2>5. ASSUME NEW q \in 1..MaxProcesses, processes'[q].active
        PROVE  (/\ LiveUser(processes[q].slot)
                /\ processes[q].id = tasks[processes[q].slot].id
                /\ processes[q].space = tasks[processes[q].slot].space)'
    BY <2>3, <2>4, <2>5, Zenon DEF LiveUser, Live
  <2>6. ASSUME NEW q \in 1..MaxProcesses, NEW r \in 1..MaxProcesses,
               processes'[q].active, processes'[r].active, q # r
        PROVE  processes'[q].slot # processes'[r].slot
    BY <2>1, <2>6 DEF KernelInv, Backed
  <2> QED BY <2>2, <2>5, <2>6, Zenon DEF Backed
<1>18. Separate'
  BY <1>9, <1>10 DEF KernelInv, Separate
<1>19. InSpace'
  BY <1>4, <1>9, <1>12, <1>13, Zenon DEF InSpace
<1>20. SchedulerNeverPanics'
  BY <1>13, Zenon DEF KernelInv, SchedulerNeverPanics
<1>21. NoneRevived
  BY <1>4, <1>9, Zenon DEF NoneRevived
<1> QED BY <1>14, <1>15, <1>16, <1>17, <1>18, <1>19, <1>20, <1>21, Zenon DEF KernelInv, Preserved

-----------------------------------------------------------------------------
(* The start of a user task. *)

LEMMA UserTaskType ==
  ASSUME NEW gen \in Nat, NEW slot \in Slots, NEW space \in Spaces
  PROVE  /\ UserTask(slot, gen, space) \in TaskRecord
         /\ UserTask(slot, gen, space).state = "runnable"
         /\ UserTask(slot, gen, space).mode = "user"
         /\ UserTask(slot, gen, space).frame /\ UserTask(slot, gen, space).stack
         /\ UserTask(slot, gen, space).id = TaskId(gen, slot)
         /\ UserTask(slot, gen, space).space = space
         /\ TaskId(gen, slot) \in Nat
<1>1. TaskId(gen, slot) \in Nat
  BY ConstantsNat DEF TaskId, Slots
<1>2. NoTask \in TaskRecord
  BY DEF NoTask, TaskRecord, Kernel
<1> DEFINE n == TaskId(gen, slot)
           u == UserTask(slot, gen, space)
<1>3. u = [NoTask EXCEPT !.state = "runnable", !.mode = "user", !.id = n,
                         !.space = space, !.stack = TRUE, !.frame = TRUE]
  BY Zenon DEF UserTask
<1>4. n \in Nat
  BY <1>1, Zenon
<1> HIDE DEF n, u
<1>5. /\ u \in TaskRecord /\ u.state = "runnable" /\ u.mode = "user" /\ u.frame
      /\ u.stack /\ u.id = n /\ u.space = space
  BY <1>2, <1>3, <1>4, Zenon DEF TaskRecord
<1> QED BY <1>4, <1>5, Zenon DEF n, u

(* find_task_slot returns a slot that no live task and no record has. *)
LEMMA SlotIsFree ==
  ASSUME KernelInv, TaskSlot < MaxTasks
  PROVE  /\ TaskSlot \in 1..taskCount /\ TaskSlot \in Slots
         /\ ~Live(TaskSlot) /\ tasks[TaskSlot].state = "terminated"
         /\ \A p \in 1..MaxProcesses : processes[p].active => processes[p].slot # TaskSlot
<1> USE ConstantsNat
<1>1. /\ TaskSlot \in 1..taskCount
      /\ TaskSlot < taskCount => tasks[TaskSlot].state = "terminated"
  <2>1. CASE ReusableSlots # {}
    <3>1. ReusableSlots \in SUBSET Nat
      BY DEF ReusableSlots, KernelInv, Tables
    <3>2. Min(ReusableSlots) \in ReusableSlots
      BY <2>1, <3>1, LeastElement, Zenon
    <3> QED BY <2>1, <3>2 DEF TaskSlot, ReusableSlots, KernelInv, Tables
  <2>2. CASE ReusableSlots = {}
    BY <2>2 DEF TaskSlot, KernelInv, Tables
  <2> QED BY <2>1, <2>2, Zenon
<1>2. TaskSlot \in Slots
  BY <1>1 DEF Slots, KernelInv, Tables
<1>3. tasks[TaskSlot].state = "terminated"
  <2>1. CASE TaskSlot < taskCount
    BY <1>1, <2>1, Zenon
  <2>2. CASE ~(TaskSlot < taskCount)
    <3>1. TaskSlot \notin 1..taskCount - 1
      BY <1>1, <2>2 DEF KernelInv, Tables
    <3> QED BY <1>2, <3>1, Zenon DEF KernelInv, Named
  <2> QED BY <2>1, <2>2, Zenon
<1>4. ~Live(TaskSlot)
  BY <1>3, Zenon DEF Live
<1>5. ASSUME NEW p \in 1..MaxProcesses, processes[p].active
      PROVE  processes[p].slot # TaskSlot
  BY <1>4, <1>5, Zenon DEF KernelInv, Backed, LiveUser
<1> QED BY <1>1, <1>2, <1>3, <1>4, <1>5, Zenon

(* What user_process_spawn_locked does, with its choices named. *)
Started(slot, gen, space, p) ==
  /\ slot \in 1..taskCount /\ slot \in Slots
  /\ ~Live(slot) /\ tasks[slot].state = "terminated"
  /\ \A q \in 1..MaxProcesses : processes[q].active => processes[q].slot # slot
  /\ gen = generation[slot] + 1 /\ gen \in 1..MaxGeneration
  /\ space \in Spaces /\ space \notin spaces
  /\ p \in 1..MaxProcesses /\ ~processes[p].active
  /\ tasks' = [tasks EXCEPT ![slot] = UserTask(slot, gen, space)]
  /\ taskCount' = IF slot = taskCount THEN taskCount + 1 ELSE taskCount
  /\ generation' = [generation EXCEPT ![slot] = gen]
  /\ processes' = [processes EXCEPT ![p] = [active |-> TRUE, slot |-> slot,
                                            id |-> TaskId(gen, slot), space |-> space]]
  /\ spaces' = spaces \cup {space}
  /\ current' = current /\ pendingReap' = pendingReap /\ cr3' = cr3 /\ panic' = panic

LEMMA SpawnStarts ==
  ASSUME KernelInv, NEW blocks, CanSpawn(blocks), Spawn(blocks), panic' = panic
  PROVE  Started(TaskSlot, generation[TaskSlot] + 1, Min(Spaces \ spaces), Min(Inactive))
<1>1. TaskSlot < MaxTasks /\ generation[TaskSlot] < MaxGeneration
  BY Zenon DEF CanSpawn
<1>2. Min(Spaces \ spaces) \in Spaces \ spaces
  <2>1. Spaces \ spaces \in SUBSET Nat /\ Spaces \ spaces # {}
    BY ConstantsNat DEF CanSpawn, Spaces
  <2> QED BY <2>1, LeastElement, Zenon
<1>3. Min(Inactive) \in Inactive
  <2>1. Inactive \in SUBSET Nat /\ Inactive # {}
    BY ConstantsNat DEF CanSpawn, Inactive
  <2> QED BY <2>1, LeastElement, Zenon
<1>4. TaskSlot \in Slots
  BY <1>1, SlotIsFree, Zenon
<1>5. generation[TaskSlot] + 1 \in 1..MaxGeneration
  BY <1>1, <1>4, ConstantsNat DEF KernelInv, Tables
<1> QED BY <1>1, <1>2, <1>3, <1>5, SlotIsFree, Zenon DEF Started, Spawn, Inactive

LEMMA StartedKeeps ==
  ASSUME KernelInv, Running, Live(current), NEW slot, NEW gen, NEW space, NEW p,
         Started(slot, gen, space, p)
  PROVE  KernelInv'
<1> USE ConstantsNat
<1> DEFINE new == UserTask(slot, gen, space)
<1>1. /\ slot \in 1..taskCount /\ slot \in Slots /\ gen \in Nat /\ gen >= 1
      /\ space \in Spaces /\ space \notin spaces /\ p \in 1..MaxProcesses
      /\ taskCount \in Nat
  BY DEF Started, KernelInv, Tables
<1>2. /\ new \in TaskRecord /\ new.state = "runnable" /\ new.mode = "user" /\ new.frame
      /\ new.id = TaskId(gen, slot) /\ new.space = space /\ TaskId(gen, slot) \in Nat
  BY <1>1, UserTaskType
<1> HIDE DEF new
<1>3. /\ tasks' \in [Slots -> TaskRecord] /\ tasks'[slot] = new
      /\ \A s \in Slots : s # slot => tasks'[s] = tasks[s]
  BY <1>1, <1>2, Zenon DEF Started, KernelInv, Tables, new
<1>4. /\ processes' \in [1..MaxProcesses -> ProcessRecord]
      /\ processes'[p].active /\ processes'[p].slot = slot
      /\ processes'[p].id = TaskId(gen, slot) /\ processes'[p].space = space
      /\ \A q \in 1..MaxProcesses : q # p => processes'[q] = processes[q]
  <2> DEFINE record == [active |-> TRUE, slot |-> slot, id |-> TaskId(gen, slot), space |-> space]
  <2>1. /\ record \in ProcessRecord /\ record.active /\ record.slot = slot
        /\ record.id = TaskId(gen, slot) /\ record.space = space
    BY <1>1, <1>2, Zenon DEF ProcessRecord
  <2>2. processes' = [processes EXCEPT ![p] = record]
    BY Zenon DEF Started
  <2> HIDE DEF record
  <2> QED BY <1>1, <2>1, <2>2, Zenon DEF KernelInv, Tables
<1>5. /\ taskCount' \in 1..MaxTasks /\ taskCount' >= taskCount
      /\ 1..taskCount' - 1 = (1..taskCount - 1) \cup {slot}
  BY <1>1 DEF Started, Slots, KernelInv, Tables
<1>6. /\ Live(slot)' /\ \A s \in Slots : s # slot => (Live(s)' <=> Live(s))
      /\ LiveUser(slot)' /\ \A s \in Slots : s # slot => (LiveUser(s)' <=> LiveUser(s))
  BY <1>1, <1>2, <1>3, <1>5, ZenonT(30) DEF Live, LiveUser
<1>7. spaces' = spaces \cup {space}
  BY Zenon DEF Started
<1>8. Tables'
  <2>1. generation' \in [Slots -> 0..MaxGeneration]
    BY <1>1 DEF Started, KernelInv, Tables
  <2>2. /\ current' \in 0..taskCount' - 1 /\ EventLoop < taskCount'
    BY <1>5 DEF Started, KernelInv, Tables
  <2> QED BY <1>1, <1>3, <1>4, <1>5, <1>7, <2>1, <2>2, Zenon DEF Started, KernelInv, Tables
<1>9. Named'
  <2>1. ASSUME NEW s \in Slots
        PROVE  IF s \in 1..taskCount' - 1
               THEN generation'[s] >= 1 /\ tasks'[s].id = TaskId(generation'[s], s)
               ELSE tasks'[s].state = "terminated" /\ tasks'[s].id = 0
    <3>1. CASE s = slot
      <4>1. generation'[s] = gen
        BY <1>1, <3>1, Zenon DEF Started, KernelInv, Tables
      <4> QED BY <1>1, <1>2, <1>3, <1>5, <3>1, <4>1, Zenon
    <3>2. CASE s # slot
      <4>1. generation'[s] = generation[s] /\ tasks'[s] = tasks[s]
        BY <1>3, <3>2, Zenon DEF Started, KernelInv, Tables
      <4> QED BY <1>5, <3>2, <4>1, Zenon DEF KernelInv, Named
    <3> QED BY <3>1, <3>2, Zenon
  <2> QED BY <2>1, Zenon DEF Named, TaskId
<1>10. LoopReady'
  <2>1. EventLoop \in Slots /\ EventLoop # slot
    BY DEF KernelInv, Tables, LoopReady, Slots, Started
  <2> QED BY <1>3, <2>1, Zenon DEF KernelInv, LoopReady, Started
<1>11. Backed'
  <2>1. ASSUME NEW s \in Slots, LiveUser(s)'
        PROVE  /\ tasks'[s].space \in spaces'
               /\ \E q \in 1..MaxProcesses : processes'[q].active /\ processes'[q].slot = s
    <3>1. CASE s = slot
      BY <1>1, <1>2, <1>3, <1>4, <1>7, <3>1, Zenon
    <3>2. CASE s # slot
      <4>1. LiveUser(s)
        BY <1>6, <2>1, <3>2, Zenon
      <4>2. PICK q \in 1..MaxProcesses : processes[q].active /\ processes[q].slot = s
        BY <4>1, Zenon DEF KernelInv, Backed
      <4>3. q # p
        BY <4>2, Zenon DEF Started
      <4> QED BY <1>3, <1>4, <1>7, <3>2, <4>1, <4>2, <4>3, Zenon DEF KernelInv, Backed
    <3> QED BY <3>1, <3>2, Zenon
  <2>2. ASSUME NEW q \in 1..MaxProcesses, processes'[q].active, NEW t \in Slots,
               processes'[q].slot = t
        PROVE  /\ LiveUser(t)'
               /\ processes'[q].id = tasks'[t].id /\ processes'[q].space = tasks'[t].space
    <3>1. CASE q = p
      BY <1>2, <1>3, <1>4, <1>6, <2>2, <3>1, Zenon
    <3>2. CASE q # p
      <4>1. processes'[q] = processes[q] /\ t # slot
        BY <1>4, <2>2, <3>2, Zenon DEF Started
      <4>2. Backed /\ processes[q].active /\ processes[q].slot = t
        BY <2>2, <4>1, Zenon DEF KernelInv
      <4>3. LiveUser(t) /\ processes[q].id = tasks[t].id /\ processes[q].space = tasks[t].space
        BY <4>2, Zenon DEF Backed
      <4>4. tasks'[t] = tasks[t] /\ LiveUser(t)'
        BY <1>3, <1>6, <4>1, <4>3, Zenon
      <4> QED BY <4>1, <4>3, <4>4, Zenon
    <3> QED BY <3>1, <3>2, Zenon
  <2>3. \A q \in 1..MaxProcesses : processes'[q].slot \in Slots
    BY <1>4, Zenon DEF ProcessRecord
  <2>4. ASSUME NEW q \in 1..MaxProcesses, processes'[q].active
        PROVE  (/\ LiveUser(processes[q].slot)
                /\ processes[q].id = tasks[processes[q].slot].id
                /\ processes[q].space = tasks[processes[q].slot].space)'
    BY <2>2, <2>3, <2>4, Zenon DEF LiveUser, Live
  <2>5. ASSUME NEW q \in 1..MaxProcesses, NEW r \in 1..MaxProcesses,
               processes'[q].active, processes'[r].active, q # r
        PROVE  processes'[q].slot # processes'[r].slot
    BY <1>4, <2>5, Zenon DEF KernelInv, Backed, Started
  <2> QED BY <2>1, <2>4, <2>5, Zenon DEF Backed
<1>12. Separate'
  <2>1. ASSUME NEW s \in Slots, LiveUser(s), s # slot PROVE tasks'[s].space # space
    BY <1>1, <1>3, <2>1 DEF KernelInv, Backed
  <2>2. ASSUME NEW s \in Slots, NEW t \in Slots, LiveUser(s)', LiveUser(t)', s # t
        PROVE  tasks'[s].space # tasks'[t].space
    BY <1>2, <1>3, <1>6, <2>1, <2>2 DEF KernelInv, Separate
  <2>3. ASSUME NEW s \in Slots, tasks'[s].mode = "kernel" PROVE tasks'[s].space = Kernel
    BY <1>2, <1>3, <2>3, Zenon DEF KernelInv, Separate
  <2> QED BY <2>2, <2>3, Zenon DEF Separate
<1>13. InSpace' /\ SchedulerNeverPanics'
  <2>1. current \in Slots /\ current # slot /\ cr3 = tasks[current].space
    BY DEF KernelInv, InSpace, Tables, Slots, Started
  <2>2. tasks'[current] = tasks[current]
    BY <1>3, <2>1, Zenon
  <2> QED BY <2>1, <2>2, Zenon DEF KernelInv, InSpace, SchedulerNeverPanics, Started, Running
<1> QED BY <1>8, <1>9, <1>10, <1>11, <1>12, <1>13, Zenon DEF KernelInv

-----------------------------------------------------------------------------
(* The theorems. *)

LEMMA FirstTaskTypes ==
  ASSUME NEW s \in Slots
  PROVE  /\ NoTask \in TaskRecord /\ NoTask.mode = "kernel" /\ NoTask.state = "terminated"
         /\ NoTask.id = 0 /\ NoTask.space = Kernel /\ ~NoTask.stack
         /\ KernelTask(s) \in TaskRecord /\ KernelTask(s).mode = "kernel"
         /\ KernelTask(s).state = "runnable" /\ KernelTask(s).frame /\ KernelTask(s).stack
         /\ KernelTask(s).id = TaskId(1, s) /\ KernelTask(s).space = Kernel
<1>1. /\ NoTask \in TaskRecord /\ NoTask.mode = "kernel" /\ NoTask.state = "terminated"
      /\ NoTask.id = 0 /\ NoTask.space = Kernel /\ ~NoTask.stack
  BY DEF NoTask, TaskRecord, Kernel
<1> DEFINE n == TaskId(1, s)
           q == IF s = 1 /\ Workers > 0 THEN WorkerPriority ELSE 1
           u == KernelTask(s)
<1>2. n \in Nat /\ q \in Nat \ {0}
  BY ConstantsNat DEF TaskId, Slots
<1>3. u = [NoTask EXCEPT !.state = "runnable", !.id = n, !.stack = TRUE,
                         !.frame = TRUE, !.priority = q, !.ticks = q]
  BY Zenon DEF KernelTask
<1> HIDE DEF n, q, u
<1>4. /\ u \in TaskRecord /\ u.mode = "kernel" /\ u.state = "runnable" /\ u.frame /\ u.stack
      /\ u.id = n /\ u.space = Kernel
  BY <1>1, <1>2, <1>3, Zenon DEF TaskRecord
<1> QED BY <1>1, <1>4, Zenon DEF n, u

LEMMA InitRanges ==
  ASSUME Init
  PROVE  /\ EventLoop = Workers + Users + 1 /\ EventLoop \in Slots /\ taskCount = EventLoop + 1
         /\ 1..taskCount - 1 = 1..EventLoop
         /\ \A w \in 1..Users : w \in Spaces /\ Workers + w \in Slots /\ Workers + w <= EventLoop - 1
  BY ConstantsNat DEF Init, EventLoop, Slots, Spaces

(* The tasks that kernel_main has created. *)
LEMMA InitTasks ==
  ASSUME Init, NEW s \in Slots
  PROVE  /\ tasks[s] \in TaskRecord
         /\ s \in 1..EventLoop => /\ tasks[s].id = TaskId(1, s) /\ tasks[s].stack
                                  /\ tasks[s].state = "runnable" /\ tasks[s].frame
         /\ s \notin 1..EventLoop => /\ tasks[s].id = 0 /\ ~tasks[s].stack
                                     /\ tasks[s].state = "terminated"
         /\ IF s \in Workers + 1..Workers + Users
            THEN tasks[s].mode = "user" /\ tasks[s].space = s - Workers
            ELSE tasks[s].mode = "kernel" /\ tasks[s].space = Kernel
<1> USE ConstantsNat
<1>0. EventLoop = Workers + Users + 1 /\ \A w \in 1..Users : w \in Spaces
  BY InitRanges, Zenon
<1>1. CASE s = 0 \/ s > EventLoop
  <2>1. s \notin 1..EventLoop /\ s \notin Workers + 1..Workers + Users
    BY <1>0, <1>1
  <2>2. tasks[s] = NoTask
    BY <1>1, Zenon DEF Init
  <2> QED BY <2>1, <2>2, FirstTaskTypes, Zenon
<1>2. CASE s \in Workers + 1..Workers + Users
  <2>1. tasks[s] = UserTask(s, 1, s - Workers) /\ s - Workers \in 1..Users /\ s \in 1..EventLoop
    BY <1>0, <1>2 DEF Init
  <2> QED BY <1>0, <1>2, <2>1, UserTaskType
<1>3. CASE s \in 1..EventLoop /\ s \notin Workers + 1..Workers + Users
  <2>1. tasks[s] = KernelTask(s)
    BY <1>3 DEF Init
  <2> QED BY <1>3, <2>1, FirstTaskTypes, Zenon
<1> QED BY <1>0, <1>1, <1>2, <1>3 DEF Slots

LEMMA InitKeeps == Init => KernelInv
<1> SUFFICES ASSUME Init PROVE KernelInv
  BY Zenon
<1> USE ConstantsNat
<1>1. /\ EventLoop = Workers + Users + 1 /\ EventLoop \in Slots /\ taskCount = EventLoop + 1
      /\ 1..taskCount - 1 = 1..EventLoop
      /\ \A w \in 1..Users : w \in Spaces /\ Workers + w \in Slots /\ Workers + w <= EventLoop - 1
  BY InitRanges, Zenon
<1>3. \A s \in Slots : s \in Workers + 1..Workers + Users => s \in 1..EventLoop - 1
  BY <1>1
<1>5. ASSUME NEW s \in Slots
      PROVE  /\ tasks[s] \in TaskRecord
             /\ s \in 1..EventLoop => /\ tasks[s].id = TaskId(1, s)
                                      /\ tasks[s].state = "runnable" /\ tasks[s].frame
             /\ s \notin 1..EventLoop => tasks[s].id = 0 /\ tasks[s].state = "terminated"
             /\ IF s \in Workers + 1..Workers + Users
                THEN tasks[s].mode = "user" /\ tasks[s].space = s - Workers
                ELSE tasks[s].mode = "kernel" /\ tasks[s].space = Kernel
  BY InitTasks, Zenon
<1>6. \A s \in Slots : LiveUser(s) <=> s \in Workers + 1..Workers + Users
  BY <1>1, <1>3, <1>5 DEF LiveUser, Live
<1>7. tasks \in [Slots -> TaskRecord]
  <2>1. tasks = [s \in Slots |-> tasks[s]]
    BY Zenon DEF Init
  <2> QED BY <1>5, <2>1, Zenon
<1>8. ASSUME NEW p \in 1..MaxProcesses
      PROVE  /\ processes[p] \in ProcessRecord
             /\ processes[p].active <=> p <= Users
             /\ p <= Users => /\ processes[p].slot = Workers + p
                              /\ processes[p].id = TaskId(1, Workers + p)
                              /\ processes[p].space = p
  <2>1. CASE p <= Users
    <3> DEFINE n == TaskId(1, Workers + p)
    <3>1. processes[p] = [active |-> TRUE, slot |-> Workers + p, id |-> n, space |-> p]
      BY <2>1, Zenon DEF Init
    <3>2. n \in Nat /\ Workers + p \in Slots /\ p \in Spaces
      BY <1>1, <2>1 DEF TaskId
    <3> HIDE DEF n
    <3>3. /\ processes[p] \in ProcessRecord /\ processes[p].active
          /\ processes[p].slot = Workers + p /\ processes[p].id = n /\ processes[p].space = p
      BY <3>1, <3>2 DEF ProcessRecord
    <3> QED BY <2>1, <3>3, Zenon DEF n
  <2>2. CASE ~(p <= Users)
    <3>1. processes[p] = NoProcess
      BY <2>2, Zenon DEF Init
    <3> QED BY <2>2, <3>1 DEF NoProcess, ProcessRecord, Slots
  <2> QED BY <2>1, <2>2, Zenon
<1>9. Tables
  <2>1. processes \in [1..MaxProcesses -> ProcessRecord]
    <3>1. processes = [p \in 1..MaxProcesses |-> processes[p]]
      BY Zenon DEF Init
    <3> QED BY <1>8, <3>1, Zenon
  <2>2. generation \in [Slots -> 0..MaxGeneration]
    BY DEF Init
  <2>3. spaces \in SUBSET Spaces
    BY DEF Init, Spaces
  <2> QED BY <1>1, <1>7, <2>1, <2>2, <2>3 DEF Tables, Init, Slots
<1>10. Named
  <2>1. \A s \in Slots : s \in 1..EventLoop => generation[s] = 1
    BY Zenon DEF Init
  <2> QED BY <1>1, <1>5, <2>1 DEF Named
<1>11. LoopReady
  <2>1. EventLoop \in 1..EventLoop /\ EventLoop \notin Workers + 1..Workers + Users
    BY <1>1
  <2>2. pendingReap = {}
    BY Zenon DEF Init
  <2> QED BY <1>1, <1>5, <2>1, <2>2, Zenon DEF LoopReady
<1>12. Backed
  <2>1. ASSUME NEW s \in Slots, LiveUser(s)
        PROVE  /\ tasks[s].space \in spaces
               /\ \E p \in 1..MaxProcesses : processes[p].active /\ processes[p].slot = s
    <3>1. s \in Workers + 1..Workers + Users /\ tasks[s].space = s - Workers
      BY <1>5, <1>6, <2>1, Zenon
    <3> DEFINE w == s - Workers
    <3>2. w \in 1..Users /\ w \in 1..MaxProcesses /\ w <= Users /\ Workers + w = s
      BY <3>1
    <3> HIDE DEF w
    <3>3. processes[w].active /\ processes[w].slot = s
      BY <1>8, <3>2, Zenon
    <3> QED BY <3>1, <3>2, <3>3, ZenonT(30) DEF Init, w
  <2>2. ASSUME NEW p \in 1..MaxProcesses, processes[p].active
        PROVE  /\ LiveUser(processes[p].slot)
               /\ processes[p].id = tasks[processes[p].slot].id
               /\ processes[p].space = tasks[processes[p].slot].space
    <3> DEFINE s == Workers + p
    <3>1. /\ p <= Users /\ processes[p].slot = s /\ processes[p].id = TaskId(1, s)
          /\ processes[p].space = p
      BY <1>8, <2>2, Zenon
    <3>2. s \in Slots /\ s \in Workers + 1..Workers + Users /\ s \in 1..EventLoop /\ s - Workers = p
      BY <1>1, <3>1
    <3> HIDE DEF s
    <3>3. LiveUser(s) /\ tasks[s].id = TaskId(1, s) /\ tasks[s].space = p
      BY <1>5, <1>6, <3>2, Zenon
    <3> QED BY <3>1, <3>3, Zenon
  <2>3. ASSUME NEW p \in 1..MaxProcesses, NEW q \in 1..MaxProcesses,
               processes[p].active, processes[q].active, p # q
        PROVE  processes[p].slot # processes[q].slot
    BY <1>8, <2>3
  <2> QED BY <2>1, <2>2, <2>3, Zenon DEF Backed
<1>13. Separate
  <2>1. ASSUME NEW s \in Slots, NEW t \in Slots, LiveUser(s), LiveUser(t), s # t
        PROVE  tasks[s].space # tasks[t].space
    <3>1. /\ s \in Workers + 1..Workers + Users /\ tasks[s].space = s - Workers
          /\ t \in Workers + 1..Workers + Users /\ tasks[t].space = t - Workers
      BY <1>5, <1>6, <2>1, Zenon
    <3> QED BY <2>1, <3>1
  <2>2. ASSUME NEW s \in Slots, tasks[s].mode = "kernel" PROVE tasks[s].space = Kernel
    BY <1>5, <2>2, Zenon
  <2> QED BY <2>1, <2>2, Zenon DEF Separate
<1>14. InSpace /\ SchedulerNeverPanics
  BY DEF Init, InSpace, Live, SchedulerNeverPanics
<1> QED BY <1>9, <1>10, <1>11, <1>12, <1>13, <1>14, Zenon DEF KernelInv

LEMMA StepKeeps ==
  KernelInv /\ [Next]_vars =>
    \/ Preserved
    \/ \E slot, gen, space, p : Started(slot, gen, space, p) /\ KernelInv'
<1>AlikeKeeps.
  ASSUME Tables, Named, Backed, Separate, Alike(tasks', tasks),
         taskCount' = taskCount, generation' = generation, processes' = processes,
         spaces' = spaces
  PROVE  Named' /\ Backed' /\ Separate' /\ \A s \in Slots : Live(s)' <=> Live(s)
  <2> USE <1>AlikeKeeps
  <2>1. \A s \in Slots : Live(s)' <=> Live(s)
    BY Zenon DEF Live, Alike
  <2>2. \A s \in Slots : LiveUser(s)' <=> LiveUser(s)
    BY <2>1, Zenon DEF LiveUser, Alike
  <2>3. \A p \in 1..MaxProcesses : processes[p].slot \in Slots
    BY Zenon DEF Tables, ProcessRecord
  <2>4. Named'
    BY Zenon DEF Named, Alike, TaskId
  <2>5. Backed'
    <3>1. ASSUME NEW s \in Slots, LiveUser(s)'
          PROVE  /\ tasks'[s].space \in spaces'
                 /\ \E p \in 1..MaxProcesses : processes'[p].active /\ processes'[p].slot = s
      BY <2>2, <3>1, Zenon DEF Backed, Alike
    <3>2. ASSUME NEW p \in 1..MaxProcesses, processes[p].active,
                 NEW t \in Slots, processes[p].slot = t
          PROVE  /\ LiveUser(t)'
                 /\ processes[p].id = tasks'[t].id /\ processes[p].space = tasks'[t].space
      BY <2>2, <3>2, Zenon DEF Backed, Alike
    <3>3. ASSUME NEW p \in 1..MaxProcesses, processes'[p].active
          PROVE  (/\ LiveUser(processes[p].slot)
                  /\ processes[p].id = tasks[processes[p].slot].id
                  /\ processes[p].space = tasks[processes[p].slot].space)'
      BY <2>3, <3>2, <3>3, Zenon DEF LiveUser, Live
    <3>4. \A p, q \in 1..MaxProcesses :
             processes'[p].active /\ processes'[q].active /\ p # q =>
               processes'[p].slot # processes'[q].slot
      BY Zenon DEF Backed
    <3> QED BY <3>1, <3>3, <3>4, Zenon DEF Backed
  <2>6. Separate'
    BY <2>2 DEF Separate, Alike
  <2> QED BY <2>1, <2>4, <2>5, <2>6, Zenon
<1>ScheduleStep.
  ASSUME KernelInv, Running, NEW table \in [Slots -> TaskRecord], NEW force \in BOOLEAN,
         Alike(table, tasks),
         table[EventLoop].state = "runnable", table[EventLoop].frame,
         Schedule(table, pendingReap, free, cr3, spaces, force),
         taskCount' = taskCount, generation' = generation, processes' = processes,
         spaces' = spaces
  PROVE  Preserved
  <2> USE <1>ScheduleStep
  <2> USE ConstantsNat
  <2>1. /\ Kept(tasks', table, pendingReap)
        /\ pendingReap' \in SUBSET pendingReap
        /\ Switched(table, cr3, spaces)
    BY ScheduleEffect, Zenon DEF KernelInv, Tables, LoopReady
  <2>2. Alike(tasks', tasks)
    BY <2>1 DEF Alike, Kept, Same
  <2>3. Named' /\ Backed' /\ Separate' /\ \A s \in Slots : Live(s)' <=> Live(s)
    BY <2>2, <1>AlikeKeeps, Zenon DEF KernelInv
  <2>4. EventLoop \in Slots /\ current \in Slots /\ 0..taskCount - 1 \subseteq Slots
    BY DEF KernelInv, Tables, Slots
  <2>5. NoneRevived
    BY <2>2, Zenon DEF NoneRevived, Alike
  <2>6. CASE /\ current' = current /\ table[current].state = "runnable"
             /\ cr3' = cr3 /\ panic' = panic
    <3>1. Tables'
      BY <2>1, <2>6, Zenon DEF KernelInv, Tables, Kept
    <3>2. LoopReady'
      BY <2>1, <2>4, Zenon DEF KernelInv, LoopReady, Kept, Same, Alike
    <3>3. InSpace'
      BY <2>2, <2>3, <2>4, <2>6, Zenon DEF KernelInv, InSpace, Running, Alike
    <3>4. SchedulerNeverPanics'
      BY <2>6, Zenon DEF KernelInv, SchedulerNeverPanics
    <3> QED BY <2>3, <2>5, <3>1, <3>2, <3>3, <3>4, Zenon DEF KernelInv, Preserved
  <2>7. CASE /\ current' \in 0..taskCount - 1 /\ current' # current
             /\ table[current'].state = "runnable"
             /\ IF table[current'].space \in spaces \cup {Kernel}
                THEN cr3' = table[current'].space /\ panic' = panic
                ELSE panic' = "space_switch"
    <3>1. Tables'
      BY <2>1, <2>7, Zenon DEF KernelInv, Tables, Kept
    <3>2. LoopReady'
      BY <2>1, <2>4, Zenon DEF KernelInv, LoopReady, Kept, Same, Alike
    <3>3. current' \in Slots /\ tasks[current'].state # "terminated"
          /\ table[current'].space = tasks[current'].space
      BY <2>4, <2>7, Zenon DEF Alike
    <3>4. tasks[current'].space \in spaces \cup {Kernel}
      <4> DEFINE next == current'
      <4>1. next \in 0..taskCount - 1 /\ tasks[next].state # "terminated"
        BY <2>7, <3>3, Zenon
      <4> HIDE DEF next
      <4>2. tasks[next].space = Kernel \/ (LiveUser(next) /\ tasks[next].space \in spaces)
        BY <4>1, SpaceInUseOfLive, Zenon DEF KernelInv
      <4> QED BY <4>2, Zenon DEF next
    <3>5. cr3' = tasks[current'].space /\ panic' = panic
      BY <2>7, <3>3, <3>4, Zenon
    <3>6. InSpace'
      BY <2>2, <3>3, <3>5, Zenon DEF InSpace, Alike
    <3>7. SchedulerNeverPanics'
      BY <3>5, Zenon DEF KernelInv, SchedulerNeverPanics
    <3> QED BY <2>3, <2>5, <3>1, <3>2, <3>6, <3>7 DEF KernelInv, Preserved
  <2> QED BY <2>1, <2>6, <2>7, Zenon DEF Switched
<1>TimerKeeps. KernelInv /\ Timer => Preserved
  <2> SUFFICES ASSUME KernelInv, Timer PROVE Preserved
    OBVIOUS
  <2>1. /\ Running /\ Schedule(tasks, pendingReap, free, cr3, spaces, FALSE)
        /\ taskCount' = taskCount /\ generation' = generation /\ processes' = processes
        /\ spaces' = spaces
    BY Zenon DEF Timer
  <2>2. /\ tasks \in [Slots -> TaskRecord]
        /\ tasks[EventLoop].state = "runnable" /\ tasks[EventLoop].frame
    BY Zenon DEF KernelInv, Tables, LoopReady
  <2> QED BY <2>1, <2>2, StaysAlike, <1>ScheduleStep, Zenon
<1>YieldKeeps. KernelInv /\ SyscallYield => Preserved
  <2> SUFFICES ASSUME KernelInv, SyscallYield PROVE Preserved
    OBVIOUS
  <2>1. /\ Running /\ Schedule(tasks, pendingReap, free, cr3, spaces, TRUE)
        /\ taskCount' = taskCount /\ generation' = generation /\ processes' = processes
        /\ spaces' = spaces
    BY Zenon DEF SyscallYield, UserRuns
  <2>2. /\ tasks \in [Slots -> TaskRecord]
        /\ tasks[EventLoop].state = "runnable" /\ tasks[EventLoop].frame
    BY DEF KernelInv, Tables, LoopReady
  <2> QED BY <2>1, <2>2, StaysAlike, <1>ScheduleStep, Zenon
<1>WaitKeeps. KernelInv /\ SyscallReceiveWait => Preserved
  <2> SUFFICES ASSUME KernelInv, SyscallReceiveWait PROVE Preserved
    OBVIOUS
  <2> DEFINE table == [tasks EXCEPT ![current].state = "blocked"]
  <2>1. /\ Running /\ Schedule(table, pendingReap, free, cr3, spaces, TRUE)
        /\ taskCount' = taskCount /\ generation' = generation /\ processes' = processes
        /\ spaces' = spaces /\ tasks[current].mode = "user"
        /\ tasks[current].state = "runnable"
    BY Zenon DEF SyscallReceiveWait, UserRuns, LiveUser
  <2>2. tasks \in [Slots -> TaskRecord] /\ current \in Slots /\ EventLoop \in Slots
    BY ConstantsNat DEF KernelInv, Tables, Slots
  <2>3. table \in [Slots -> TaskRecord]
    BY <2>2, Zenon DEF TaskRecord
  <2>4. Alike(table, tasks)
    BY <2>1, <2>2, Zenon DEF Alike, TaskRecord
  <2>5. table[EventLoop].state = "runnable" /\ table[EventLoop].frame
    BY <2>1, <2>2, Zenon DEF KernelInv, LoopReady
  <2> HIDE DEF table
  <2> QED BY <2>1, <2>3, <2>4, <2>5, <1>ScheduleStep, Zenon
<1>QuietStep.
  ASSUME KernelInv, tasks' \in [Slots -> TaskRecord], Alike(tasks', tasks),
         tasks'[EventLoop].state = "runnable", tasks'[EventLoop].frame,
         taskCount' = taskCount, current' = current, pendingReap' = pendingReap,
         generation' = generation, processes' = processes, spaces' = spaces, cr3' = cr3,
         panic' = panic \/ panic' \in {"leaked", "waited", "restart_failed"}
  PROVE  Preserved
  <2> USE <1>QuietStep
  <2>1. EventLoop \in Slots /\ current \in Slots
    BY ConstantsNat DEF KernelInv, Tables, Slots
  <2>2. Named' /\ Backed' /\ Separate' /\ \A s \in Slots : Live(s)' <=> Live(s)
    BY <1>AlikeKeeps, Zenon DEF KernelInv
  <2>3. Tables'
    BY Zenon DEF KernelInv, Tables
  <2>4. LoopReady'
    BY <2>1, Zenon DEF KernelInv, LoopReady, Alike
  <2>5. InSpace'
    BY <2>1, <2>2, Zenon DEF KernelInv, InSpace, Running, Alike
  <2>6. SchedulerNeverPanics'
    BY Zenon DEF KernelInv, SchedulerNeverPanics
  <2>7. NoneRevived
    BY Zenon DEF NoneRevived, Alike
  <2> QED BY <2>2, <2>3, <2>4, <2>5, <2>6, <2>7, Zenon DEF KernelInv, Preserved
<1>StillStep.
  ASSUME KernelInv, tasks' = tasks,
         taskCount' = taskCount, current' = current, pendingReap' = pendingReap,
         generation' = generation, processes' = processes, spaces' = spaces, cr3' = cr3,
         panic' = panic \/ panic' \in {"leaked", "waited", "restart_failed"}
  PROVE  Preserved
  <2> USE <1>StillStep
  <2>1. /\ tasks \in [Slots -> TaskRecord]
        /\ tasks[EventLoop].state = "runnable" /\ tasks[EventLoop].frame
    BY Zenon DEF KernelInv, Tables, LoopReady
  <2>2. Alike(tasks', tasks)
    BY Zenon DEF Alike
  <2> QED BY <2>1, <2>2, <1>QuietStep, Zenon
<1>WokenRecord.
  ASSUME NEW t \in TaskRecord, NEW u, t.state = "blocked",
         u = [t EXCEPT !.state = "runnable", !.ticks = t.priority]
  PROVE  u \in TaskRecord /\ u.mode = t.mode /\ u.id = t.id /\ u.space = t.space
         /\ u.state = "runnable"
  BY <1>WokenRecord, Zenon DEF TaskRecord
<1>SendKeeps.
  ASSUME NEW receiver, NEW size, KernelInv, SyscallSend(receiver, size)
  PROVE  Preserved
  <2> USE <1>SendKeeps
  <2> DEFINE slots == IF receiver = 0 THEN UserSlots ELSE WithId(receiver)
  <2>1. /\ tasks' = Woken(slots)
        /\ taskCount' = taskCount /\ current' = current /\ pendingReap' = pendingReap
        /\ generation' = generation /\ processes' = processes /\ spaces' = spaces
        /\ cr3' = cr3 /\ panic' = panic
    BY Zenon DEF SyscallSend, memory
  <2> HIDE DEF slots
  <2>2. tasks \in [Slots -> TaskRecord] /\ EventLoop \in Slots
    BY ConstantsNat DEF KernelInv, Tables, Slots
  <2>3. ASSUME NEW s \in Slots
        PROVE  /\ tasks'[s] \in TaskRecord
               /\ tasks'[s].mode = tasks[s].mode /\ tasks'[s].id = tasks[s].id
               /\ tasks'[s].space = tasks[s].space
               /\ tasks'[s].state = "terminated" <=> tasks[s].state = "terminated"
               /\ tasks[s].state = "runnable" => tasks'[s] = tasks[s]
    <3>1. CASE s \in slots /\ tasks[s].state = "blocked" /\ tasks[s].frame
      <4>1. tasks'[s] = [tasks[s] EXCEPT !.state = "runnable", !.ticks = tasks[s].priority]
        BY <2>1, <3>1, Zenon DEF Woken
      <4> QED BY <2>2, <3>1, <4>1, <1>WokenRecord, ZenonT(30)
    <3>2. CASE ~(s \in slots /\ tasks[s].state = "blocked" /\ tasks[s].frame)
      <4>1. tasks'[s] = tasks[s]
        BY <2>1, <3>2, Zenon DEF Woken
      <4> QED BY <2>2, <4>1, Zenon
    <3> QED BY <3>1, <3>2, Zenon
  <2>4. tasks' \in [Slots -> TaskRecord]
    <3>1. tasks' = [s \in Slots |-> tasks'[s]]
      BY <2>1, Zenon DEF Woken
    <3> QED BY <2>3, <3>1, Zenon
  <2>5. Alike(tasks', tasks)
    BY <2>3, Zenon DEF Alike
  <2>6. tasks'[EventLoop].state = "runnable" /\ tasks'[EventLoop].frame
    BY <2>2, <2>3, Zenon DEF KernelInv, LoopReady
  <2> QED BY <2>1, <2>4, <2>5, <2>6, <1>QuietStep, Zenon
<1>ReceiveKeeps.
  ASSUME NEW capacity, KernelInv, SyscallReceive(capacity)
  PROVE  Preserved
  <2> USE <1>ReceiveKeeps
  <2>1. /\ tasks' = tasks /\ taskCount' = taskCount /\ current' = current
        /\ pendingReap' = pendingReap /\ generation' = generation
        /\ processes' = processes /\ spaces' = spaces /\ cr3' = cr3 /\ panic' = panic
    BY Zenon DEF SyscallReceive, scheduler, memory
  <2> QED BY <2>1, <1>StillStep, Zenon
<1>LoopStepKeeps.
  ASSUME KernelInv,
         \/ LoopWake \/ LoopFormat \/ LoopGivesUpDma \/ LoopInput \/ LoopCheck \/ LoopLimit
         \/ LoopCompare \/ LoopBefore \/ LoopVerify \/ LoopTick \/ Halt("restart_failed")
         \/ Halted
  PROVE  Preserved
  <2> USE <1>LoopStepKeeps
  <2>1. /\ tasks' = tasks /\ taskCount' = taskCount /\ current' = current
        /\ pendingReap' = pendingReap /\ generation' = generation
        /\ processes' = processes /\ spaces' = spaces /\ cr3' = cr3
        /\ panic' = panic \/ panic' \in {"leaked", "waited", "restart_failed"}
    BY Zenon DEF LoopWake, LoopFormat, LoopGivesUpDma, LoopInput, LoopCheck, LoopLimit,
           LoopCompare, LoopBefore, LoopVerify, LoopTick, Command, Halt, Halted, LoopUnchanged,
           scheduler, memory, vars
  <2> QED BY <2>1, <1>StillStep, Zenon
<1> SUFFICES ASSUME KernelInv, [Next]_vars
             PROVE  \/ Preserved
                    \/ \E slot, gen, space, p : Started(slot, gen, space, p) /\ KernelInv'
  BY Zenon
<1>1. CASE Timer
  BY <1>1, <1>TimerKeeps, Zenon
<1>2. CASE Syscall
  BY <1>2, <1>YieldKeeps, <1>WaitKeeps, UserEndsKeeps, <1>SendKeeps, <1>ReceiveKeeps, Zenon
     DEF Syscall
<1>3. ASSUME NEW blocks, CanSpawn(blocks), Spawn(blocks), Running, current = EventLoop,
             panic' = panic
      PROVE  \E slot, gen, space, p : Started(slot, gen, space, p) /\ KernelInv'
  <2>1. EventLoop \in 1..taskCount - 1
    BY ConstantsNat DEF KernelInv, Tables
  <2>2. Live(current)
    BY <1>3, <2>1, Zenon DEF KernelInv, LoopReady, Live
  <2>3. PICK slot, gen, space, p : Started(slot, gen, space, p)
    BY <1>3, SpawnStarts, Zenon
  <2> QED BY <1>3, <2>2, <2>3, StartedKeeps, Zenon
<1>4. CASE EventStep
  <2>1. CASE LoopRestart /\ CanSpawn(SpaceCost)
    <3>1. Spawn(SpaceCost) /\ Running /\ current = EventLoop /\ panic' = panic
      BY <2>1, Zenon DEF LoopRestart, LoopAt
    <3> QED BY <2>1, <3>1, <1>3, Zenon
  <2>2. CASE LoopRestart /\ ~CanSpawn(SpaceCost)
    BY <2>2, <1>LoopStepKeeps, Zenon DEF LoopRestart
  <2>3. CASE LoopRun
    <3>1. /\ CanSpawn(SpaceCost + ImageCost) /\ Spawn(SpaceCost + ImageCost)
          /\ Running /\ current = EventLoop /\ panic' = panic
      BY <2>3, Zenon DEF LoopRun, Command, LoopAt
    <3> QED BY <3>1, <1>3, Zenon
  <2>4. CASE ~LoopRestart /\ ~LoopRun
    BY <1>4, <2>4, <1>LoopStepKeeps, Zenon DEF EventStep
  <2> QED BY <2>1, <2>2, <2>3, <2>4, Zenon
<1>5. CASE Halted
  BY <1>5, <1>LoopStepKeeps, Zenon
<1>6. CASE UNCHANGED vars
  BY <1>6, <1>StillStep, Zenon DEF vars, scheduler, memory
<1> QED BY <1>1, <1>2, <1>4, <1>5, <1>6, Zenon DEF Next

(* The task table, the process table and the directories in use agree, for *)
(* any interleaving of ticks, system calls, faults and restarts.           *)
THEOREM KernelInvariance == Spec => []KernelInv
<1>1. KernelInv /\ [Next]_vars => KernelInv'
  BY StepKeeps, Zenon DEF Preserved
<1> QED BY <1>1, InitKeeps, PTL DEF Spec

(* schedule_from_frame always finds a task to run and a directory for it,  *)
(* and user_process_reap_task always finds the record of the task that     *)
(* ends: these panics cannot happen.                                       *)
THEOREM NoSchedulerPanic == Spec => []SchedulerNeverPanics
<1>1. KernelInv => SchedulerNeverPanics
  BY Zenon DEF KernelInv
<1> QED BY <1>1, KernelInvariance, PTL

(* Every live user task has exactly one process record, with its           *)
(* identifier and an address space that no other task has, and CR3 is the  *)
(* space of the task that runs (user_process_spawn_locked,                 *)
(* user_process_reap_task and schedule_from_frame).                        *)
THEOREM SpacesStayOwned == Spec => []SpacesAreOwned
<1>1. KernelInv => SpacesAreOwned
  <2> SUFFICES ASSUME KernelInv PROVE SpacesAreOwned
    BY Zenon
  <2>1. UserSlots \subseteq Slots
    BY ConstantsNat DEF UserSlots, Slots, KernelInv, Tables
  <2>2. ASSUME NEW s \in UserSlots, LiveUser(s)
        PROVE  \E p \in 1..MaxProcesses :
                 /\ Owning(s) = {p}
                 /\ processes[p].id = tasks[s].id
                 /\ processes[p].space = tasks[s].space
                 /\ tasks[s].space \in spaces
    <3>1. s \in Slots
      BY <2>1, Zenon
    <3>2. PICK p \in 1..MaxProcesses : processes[p].active /\ processes[p].slot = s
      BY <2>2, <3>1, Zenon DEF KernelInv, Backed
    <3>3. Owning(s) = {p}
      BY <3>2, Zenon DEF KernelInv, Backed, Owning
    <3> QED BY <2>2, <3>1, <3>2, <3>3, Zenon DEF KernelInv, Backed
  <2>3. \A s, t \in UserSlots : LiveUser(s) /\ LiveUser(t) /\ s # t =>
           tasks[s].space # tasks[t].space
    BY <2>1, Zenon DEF KernelInv, Separate
  <2>4. Running /\ Live(current) => cr3 = tasks[current].space
    BY Zenon DEF KernelInv, InSpace
  <2> QED BY <2>2, <2>3, <2>4, Zenon DEF SpacesAreOwned
<1> QED BY <1>1, KernelInvariance, PTL

(* An identifier is never given to a second task: only a restart brings a  *)
(* slot back to life, under a number no slot has (scheduler_task_id and    *)
(* slot_generation).                                                       *)
THEOREM IdsStayFresh == Spec => IdsAreFresh
(* The new identifier is larger than the old one of its slot, and no slot  *)
(* holds it.                                                               *)
<1>StartedIsFresh.
  ASSUME KernelInv, NEW slot, NEW gen, NEW space, NEW p, Started(slot, gen, space, p)
  PROVE  /\ slot \in Slots /\ \A s \in Slots : s # slot => tasks'[s] = tasks[s]
         /\ tasks'[slot].id > tasks[slot].id
         /\ \A t \in Slots : tasks'[slot].id # tasks[t].id
  <2> USE <1>StartedIsFresh
  <2> USE ConstantsNat
  <2>1. /\ slot \in Slots /\ slot \in 1..MaxTasks - 1 /\ gen = generation[slot] + 1
        /\ generation[slot] \in Nat /\ gen \in Nat /\ space \in Spaces
    BY DEF Started, KernelInv, Tables, Slots
  <2>2. /\ tasks'[slot] = UserTask(slot, gen, space)
        /\ \A s \in Slots : s # slot => tasks'[s] = tasks[s]
    BY <2>1, Zenon DEF Started, KernelInv, Tables
  <2>3. tasks'[slot].id = TaskId(gen, slot)
    BY <2>1, <2>2, UserTaskType
  <2>4. TaskId(gen, slot) > TaskId(generation[slot], slot) /\ TaskId(gen, slot) > 0
    BY <2>1, IdGrows, Zenon
  <2>5. tasks[slot].id = TaskId(generation[slot], slot) \/ tasks[slot].id = 0
    BY <2>1, Zenon DEF KernelInv, Named
  <2>6. tasks'[slot].id > tasks[slot].id
    BY <2>3, <2>4, <2>5, Zenon
  <2>7. ASSUME NEW t \in Slots, t # slot PROVE tasks'[slot].id # tasks[t].id
    <3>1. CASE t \in 1..taskCount - 1
      <4>1. tasks[t].id = TaskId(generation[t], t) /\ generation[t] \in Nat
        BY <3>1 DEF KernelInv, Named, Tables
      <4>2. TaskId(gen, slot) # TaskId(generation[t], t)
        BY <2>1, <2>7, <4>1, IdsDiffer, Zenon DEF Slots
      <4> QED BY <2>3, <4>1, <4>2, Zenon
    <3>2. CASE t \notin 1..taskCount - 1
      <4>1. tasks[t].id = 0
        BY <3>2, Zenon DEF KernelInv, Named
      <4> QED BY <2>3, <2>4, <4>1
    <3> QED BY <3>1, <3>2, Zenon
  <2>8. tasks'[slot].id # tasks[slot].id
    <3>1. tasks[slot].id \in Nat /\ tasks'[slot].id \in Nat
      BY <2>1, <2>2, UserTaskType DEF KernelInv, Tables, TaskRecord
    <3> QED BY <2>6, <3>1
  <2> QED BY <2>1, <2>2, <2>6, <2>7, <2>8, Zenon
<1> DEFINE Fresh ==
      \A s \in Slots :
        tasks[s].state = "terminated" /\ tasks'[s].state # "terminated" =>
          /\ tasks'[s].id > tasks[s].id
          /\ \A t \in Slots : tasks'[s].id # tasks[t].id
<1>1. KernelInv /\ [Next]_vars => [Fresh]_vars
  <2> SUFFICES ASSUME KernelInv, Next PROVE Fresh
    BY Zenon
  <2>1. CASE Preserved
    BY <2>1, Zenon DEF Preserved, NoneRevived
  <2>2. CASE \E slot, gen, space, p : Started(slot, gen, space, p)
    <3>1. PICK slot, gen, space, p : Started(slot, gen, space, p)
      BY <2>2, Zenon
    <3> QED BY <3>1, <1>StartedIsFresh, Zenon
  <2> QED BY <2>1, <2>2, StepKeeps, ZenonT(30)
<1> QED BY <1>1, KernelInvariance, PTL DEF Spec, IdsAreFresh

-----------------------------------------------------------------------------
(* The queue of kernel/ipc.c. *)

Letters == Message(TaskIds)

(* A live task can be dispatched, and what waits for its reap is a slot in *)
(* use.                                                                    *)
Framed ==
  /\ \A s \in Slots : Live(s) => tasks[s].frame /\ s \notin pendingReap
  /\ pendingReap \subseteq 1..taskCount - 1

MailInv ==
  /\ mail \in Seq(Letters) /\ Len(mail) <= QueueCapacity
  /\ Framed /\ MailPartiesLive /\ NoLostWakeup

LEMMA SlotRanges ==
  ASSUME Tables
  PROVE  /\ 1..taskCount - 1 \subseteq Slots /\ UserSlots \subseteq Slots
         /\ current \in Slots /\ EventLoop \in 1..taskCount - 1
  BY ConstantsNat DEF Tables, Slots, UserSlots

(* Nothing is added to the queue, the parties of what stays live on, and   *)
(* who sleeps had nothing to receive before.                               *)
Calm ==
  /\ Part(mail', mail, Letters) /\ Framed'
  /\ \A s \in 1..taskCount - 1 : LiveUser(s) /\ ~LiveUser(s)' =>
       Lacks(mail', "sender", tasks[s].id) /\ Lacks(mail', "receiver", tasks[s].id)
  /\ \A s \in 1..taskCount - 1 : tasks'[s].id = tasks[s].id \/ ~LiveUser(s)
  /\ 1..taskCount - 1 \subseteq 1..taskCount' - 1
  /\ 1..taskCount' - 1 \subseteq Slots
  /\ \A s \in 1..taskCount' - 1 : tasks'[s].mode = "user" /\ tasks'[s].state = "blocked" =>
       ~Pending(mail, tasks'[s].id)

(* The table that user_process_spawn_locked leaves. *)
LEMMA StartedTable ==
  ASSUME KernelInv, NEW slot, NEW gen, NEW space, NEW p, Started(slot, gen, space, p)
  PROVE  /\ slot \in 1..taskCount /\ slot \in Slots /\ ~Live(slot)
         /\ tasks'[slot] = UserTask(slot, gen, space)
         /\ tasks'[slot].state = "runnable" /\ tasks'[slot].mode = "user"
         /\ tasks'[slot].frame /\ tasks'[slot].stack
         /\ \A s \in Slots : s # slot => tasks'[s] = tasks[s]
         /\ 1..taskCount' - 1 = (1..taskCount - 1) \cup {slot}
         /\ taskCount' \in 1..MaxTasks
<1>1. /\ slot \in 1..taskCount /\ slot \in Slots /\ gen \in Nat /\ space \in Spaces
      /\ ~Live(slot) /\ taskCount \in Nat /\ taskCount >= 1
      /\ taskCount' = IF slot = taskCount THEN taskCount + 1 ELSE taskCount
      /\ tasks' = [tasks EXCEPT ![slot] = UserTask(slot, gen, space)]
  BY ConstantsNat DEF Started, KernelInv, Tables
<1>2. /\ UserTask(slot, gen, space).state = "runnable"
      /\ UserTask(slot, gen, space).mode = "user"
      /\ UserTask(slot, gen, space).frame /\ UserTask(slot, gen, space).stack
  BY <1>1, UserTaskType
<1>3. /\ tasks'[slot] = UserTask(slot, gen, space)
      /\ \A s \in Slots : s # slot => tasks'[s] = tasks[s]
  BY <1>1, Zenon DEF KernelInv, Tables
<1>4. 1..taskCount' - 1 = (1..taskCount - 1) \cup {slot} /\ taskCount' \in 1..MaxTasks
  BY <1>1, ConstantsNat DEF Slots, KernelInv, Tables
<1> QED BY <1>1, <1>2, <1>3, <1>4, Zenon

LEMMA WokenFacts ==
  ASSUME KernelInv, NEW slots, tasks' = Woken(slots), NEW s \in Slots
  PROVE  /\ tasks'[s].id = tasks[s].id /\ tasks'[s].mode = tasks[s].mode
         /\ tasks'[s].frame = tasks[s].frame /\ tasks'[s].stack = tasks[s].stack
         /\ tasks'[s].state = "terminated" <=> tasks[s].state = "terminated"
         /\ tasks'[s].state = "blocked" =>
              tasks[s].state = "blocked" /\ ~(s \in slots /\ tasks[s].frame)
<1>1. tasks[s] \in TaskRecord
  BY Zenon DEF KernelInv, Tables
<1>2. CASE s \in slots /\ tasks[s].state = "blocked" /\ tasks[s].frame
  <2>1. tasks'[s] = [tasks[s] EXCEPT !.state = "runnable", !.ticks = tasks[s].priority]
    BY <1>2, Zenon DEF Woken
  <2> QED BY <1>1, <1>2, <2>1, Zenon DEF TaskRecord
<1>3. CASE ~(s \in slots /\ tasks[s].state = "blocked" /\ tasks[s].frame)
  <2>1. tasks'[s] = tasks[s]
    BY <1>3, Zenon DEF Woken
  <2> QED BY <1>3, <2>1, Zenon
<1> QED BY <1>2, <1>3, Zenon

LEMMA InitMail == Init => MailInv
<1> SUFFICES ASSUME Init PROVE MailInv
  OBVIOUS
<1>1. mail = <<>> /\ pendingReap = {} /\ 1..taskCount - 1 = 1..EventLoop
  BY InitRanges, Zenon DEF Init
<1>2. mail \in Seq(Letters) /\ Len(mail) = 0
  BY <1>1
<1>3. \A s \in Slots : s \in 1..taskCount - 1 => tasks[s].frame /\ tasks[s].state = "runnable"
  BY <1>1, InitTasks, Zenon
<1>4. UserSlots \subseteq Slots
  BY SlotRanges, InitKeeps, Zenon DEF KernelInv
<1>5. Framed
  BY <1>1, <1>3, Zenon DEF Framed, Live
<1>6. NoLostWakeup
  BY <1>3, <1>4, Zenon DEF NoLostWakeup, UserSlots
<1> QED BY <1>2, <1>5, <1>6, MailboxConstants DEF MailInv, MailPartiesLive

LEMMA MailStep == KernelInv /\ MailInv /\ [Next]_vars => MailInv'
(* An identifier in use is not 0 and names one slot. *)
<1>LiveIds.
  ASSUME KernelInv, NEW s \in 1..taskCount - 1
  PROVE  /\ tasks[s].id \in TaskIds /\ tasks[s].id # 0
         /\ \A t \in 1..taskCount - 1 : tasks[t].id = tasks[s].id => t = s
  <2> USE <1>LiveIds
  <2> USE ConstantsNat
  <2>1. /\ s \in 1..MaxTasks - 1 /\ 1..taskCount - 1 \subseteq Slots
        /\ \A t \in 1..taskCount - 1 : /\ t \in Slots
                                       /\ generation[t] \in 1..MaxGeneration
                                       /\ tasks[t].id = TaskId(generation[t], t)
    BY DEF KernelInv, Tables, Named, Slots
  <2>2. TaskId(generation[s], s) > 0 /\ TaskId(generation[s], s) \in Nat
    BY <2>1, IdGrows
  <2>3. tasks[s].id \in TaskIds /\ tasks[s].id # 0
    BY <2>1, <2>2 DEF TaskIds
  <2>4. ASSUME NEW t \in 1..taskCount - 1, tasks[t].id = tasks[s].id PROVE t = s
    BY <2>1, <2>4, IdsDiffer DEF Slots
  <2> QED BY <2>3, <2>4, Zenon
(* A queue with less mail in it wakes nobody. *)
<1>PendingInPart.
  ASSUME NEW M, NEW old \in Seq(M), NEW new, NEW id, Part(new, old, M), Pending(new, id)
  PROVE  Pending(old, id)
  <2> USE <1>PendingInPart
  <2>1. new \in Seq(M)
    BY Zenon DEF Part
  <2>2. PICK j \in 1..Len(new) : Matches(new[j], id)
    BY <2>1, FirstMatchFacts, Zenon
  <2>3. PICK i \in 1..Len(old) : new[j] = old[i]
    BY Zenon DEF Part
  <2>4. Matches(old[i], id)
    BY <2>2, <2>3, Zenon
  <2> QED BY <2>4, FirstMatchFacts, Zenon
<1>WholeIsPart.
  ASSUME NEW M, NEW q \in Seq(M)
  PROVE  Part(q, q, M)
  <2> USE <1>WholeIsPart
  <2>1. Len(q) \in Nat
    OBVIOUS
  <2> QED BY <2>1 DEF Part
<1>PartyStays.
  ASSUME KernelInv, Calm, NEW id, ActiveUser(id), NEW field \in {"sender", "receiver"},
         NEW j \in 1..Len(mail'), mail'[j][field] = id
  PROVE  \E s \in 1..taskCount' - 1 : tasks'[s].id = id /\ LiveUser(s)' /\ tasks'[s].frame
  <2> USE <1>PartyStays
  <2>1. PICK s \in 1..taskCount - 1 : tasks[s].id = id /\ LiveUser(s)
    BY Zenon DEF ActiveUser
  <2>2. LiveUser(s)'
    BY <2>1, Zenon DEF Calm, Lacks
  <2>3. tasks'[s].id = id /\ s \in 1..taskCount' - 1 /\ s \in Slots
    BY <2>1, Zenon DEF Calm
  <2>4. tasks'[s].frame
    BY <2>2, <2>3, Zenon DEF Calm, Framed, LiveUser
  <2> QED BY <2>2, <2>3, <2>4, Zenon
<1>CalmKeeps.
  ASSUME KernelInv, MailInv, Calm
  PROVE  MailInv'
  <2> USE <1>CalmKeeps
  <2>1. /\ mail \in Seq(Letters) /\ Part(mail', mail, Letters) /\ Framed'
        /\ Len(mail) <= QueueCapacity
    BY Zenon DEF Calm, MailInv
  <2>2. mail' \in Seq(Letters) /\ Len(mail') <= QueueCapacity
    BY <2>1, MailboxConstants DEF Part
  <2>3. ASSUME NEW j \in 1..Len(mail')
        PROVE  (/\ ActiveUser(mail[j].sender)
                /\ mail[j].receiver # 0 => ActiveUser(mail[j].receiver))'
    <3>1. PICK i \in 1..Len(mail) : mail'[j] = mail[i]
      BY <2>1, Zenon DEF Part
    <3> DEFINE a == mail[i].sender
               b == mail[i].receiver
    <3>2. ActiveUser(a) /\ (b # 0 => ActiveUser(b))
      BY Zenon DEF MailInv, MailPartiesLive
    <3>3. mail'[j]["sender"] = a /\ mail'[j]["receiver"] = b
      BY <3>1, Zenon
    <3> HIDE DEF a, b
    <3>4. /\ \E s \in 1..taskCount' - 1 : tasks'[s].id = a /\ LiveUser(s)' /\ tasks'[s].frame
          /\ b # 0 => \E s \in 1..taskCount' - 1 : tasks'[s].id = b /\ LiveUser(s)' /\ tasks'[s].frame
      BY <3>2, <3>3, <1>PartyStays, Zenon
    <3>5. mail'[j].sender = a /\ mail'[j].receiver = b
      BY <3>3, Zenon
    <3> QED BY <3>4, <3>5, Zenon DEF ActiveUser
  <2>4. MailPartiesLive'
    BY <2>3, Zenon DEF MailPartiesLive
  <2>5. NoLostWakeup'
    <3>1. ASSUME NEW s \in 1..taskCount' - 1, tasks'[s].mode = "user", tasks'[s].state = "blocked"
          PROVE  ~Pending(mail', tasks'[s].id)
      <4>1. ~Pending(mail, tasks'[s].id)
        BY <3>1, Zenon DEF Calm
      <4> QED BY <2>1, <4>1, <1>PendingInPart, Zenon
    <3> QED BY <3>1, Zenon DEF NoLostWakeup, UserSlots
  <2> QED BY <2>1, <2>2, <2>4, <2>5, Zenon DEF MailInv
(* Steps that end no task, start none and leave the mail where it is. *)
<1>StaysCalm.
  ASSUME KernelInv, MailInv, Alike(tasks', tasks), Framed', taskCount' = taskCount, mail' = mail,
         \A s \in 1..taskCount - 1 : tasks[s].mode = "user" /\ tasks'[s].state = "blocked" =>
           tasks[s].state = "blocked" \/ ~Pending(mail, tasks[s].id)
  PROVE  Calm
  <2> USE <1>StaysCalm
  <2>1. 1..taskCount - 1 \subseteq Slots
    BY SlotRanges, Zenon DEF KernelInv
  <2>2. \A s \in 1..taskCount - 1 : LiveUser(s)' <=> LiveUser(s)
    BY <2>1, Zenon DEF Alike, LiveUser, Live
  <2>3. Part(mail', mail, Letters)
    BY <1>WholeIsPart, Zenon DEF MailInv
  <2>4. ASSUME NEW s \in 1..taskCount' - 1, tasks'[s].mode = "user", tasks'[s].state = "blocked"
        PROVE  ~Pending(mail, tasks'[s].id)
    <3>1. s \in Slots /\ s \in 1..taskCount - 1
      BY <2>1, Zenon
    <3>2. tasks[s].mode = "user" /\ tasks'[s].id = tasks[s].id
      BY <2>4, <3>1, Zenon DEF Alike
    <3>3. tasks[s].state = "blocked" => ~Pending(mail, tasks[s].id)
      BY <3>1, <3>2, Zenon DEF MailInv, NoLostWakeup, UserSlots
    <3> QED BY <2>4, <3>1, <3>2, <3>3, Zenon
  <2>5. \A s \in 1..taskCount - 1 : tasks'[s].id = tasks[s].id
    BY <2>1, Zenon DEF Alike
  <2> QED BY <2>1, <2>2, <2>3, <2>4, <2>5, Zenon DEF Calm
<1>ScheduleIsCalm.
  ASSUME KernelInv, MailInv, NEW table \in [Slots -> TaskRecord], NEW force \in BOOLEAN,
         Alike(table, tasks), \A s \in Slots : table[s].frame = tasks[s].frame,
         \A s \in Slots : table[s].state = "blocked" =>
           tasks[s].state = "blocked" \/ ~Pending(mail, tasks[s].id),
         table[EventLoop].state = "runnable", table[EventLoop].frame,
         Schedule(table, pendingReap, free, cr3, spaces, force),
         taskCount' = taskCount, mail' = mail
  PROVE  Calm
  <2> USE <1>ScheduleIsCalm
  <2>1. Kept(tasks', table, pendingReap) /\ pendingReap' \in SUBSET pendingReap
    BY ScheduleEffect DEF KernelInv, Tables, LoopReady
  <2>2. Alike(tasks', tasks) /\ \A s \in Slots : tasks'[s].state = table[s].state
    BY <2>1 DEF Alike, Kept, Same
  <2>3. 1..taskCount - 1 \subseteq Slots
    BY SlotRanges, Zenon DEF KernelInv
  <2>4. Framed'
    <3>1. ASSUME NEW s \in Slots, Live(s)' PROVE tasks'[s].frame /\ s \notin pendingReap'
      <4>1. Live(s)
        BY <2>2, <3>1, Zenon DEF Live, Alike
      <4>2. table[s].frame /\ s \notin pendingReap
        BY <4>1, Zenon DEF MailInv, Framed
      <4> QED BY <2>1, <4>2, Zenon DEF Kept
    <3> QED BY <2>1, <3>1, Zenon DEF MailInv, Framed
  <2>5. \A s \in 1..taskCount - 1 : tasks'[s].state = "blocked" =>
          tasks[s].state = "blocked" \/ ~Pending(mail, tasks[s].id)
    BY <2>2, <2>3, Zenon
  <2> QED BY <2>2, <2>4, <2>5, <1>StaysCalm, Zenon
<1>TimerIsCalm.
  ASSUME KernelInv, MailInv, Timer \/ SyscallYield
  PROVE  Calm
  <2> USE <1>TimerIsCalm
  <2>1. PICK force \in BOOLEAN : Schedule(tasks, pendingReap, free, cr3, spaces, force)
    BY Zenon DEF Timer, SyscallYield
  <2>2. taskCount' = taskCount /\ mail' = mail
    BY Zenon DEF Timer, SyscallYield
  <2>3. /\ tasks \in [Slots -> TaskRecord]
        /\ tasks[EventLoop].state = "runnable" /\ tasks[EventLoop].frame
    BY Zenon DEF KernelInv, Tables, LoopReady
  <2> QED BY <2>1, <2>2, <2>3, StaysAlike, <1>ScheduleIsCalm, Zenon
<1>WaitIsCalm.
  ASSUME KernelInv, MailInv, SyscallReceiveWait
  PROVE  Calm
  <2> USE <1>WaitIsCalm
  <2> DEFINE table == [tasks EXCEPT ![current].state = "blocked"]
  <2>1. /\ Schedule(table, pendingReap, free, cr3, spaces, TRUE)
        /\ taskCount' = taskCount /\ mail' = mail /\ tasks[current].mode = "user"
        /\ tasks[current].state = "runnable" /\ ~Pending(mail, tasks[current].id)
    BY Zenon DEF SyscallReceiveWait, UserRuns, LiveUser, Me
  <2>2. tasks \in [Slots -> TaskRecord] /\ current \in Slots /\ EventLoop \in Slots
    BY ConstantsNat DEF KernelInv, Tables, Slots
  <2>3. table \in [Slots -> TaskRecord]
    BY <2>2, Zenon DEF TaskRecord
  <2>4. Alike(table, tasks) /\ \A s \in Slots : table[s].frame = tasks[s].frame
    BY <2>1, <2>2, Zenon DEF Alike, TaskRecord
  <2>5. table[EventLoop].state = "runnable" /\ table[EventLoop].frame
    BY <2>1, <2>2, Zenon DEF KernelInv, LoopReady
  <2>6. \A s \in Slots : table[s].state = "blocked" =>
          tasks[s].state = "blocked" \/ ~Pending(mail, tasks[s].id)
    BY <2>1, <2>2, Zenon
  <2> HIDE DEF table
  <2> QED BY <2>1, <2>3, <2>4, <2>5, <2>6, <1>ScheduleIsCalm, ZenonT(30)
(* The event loop and the kernel that halts touch no task and no mail. *)
<1>StillIsCalm.
  ASSUME KernelInv, MailInv, tasks' = tasks, taskCount' = taskCount,
         pendingReap' = pendingReap, mail' = mail
  PROVE  Calm
  <2> USE <1>StillIsCalm
  <2>1. Framed'
    BY Zenon DEF MailInv, Framed, Live
  <2>2. Alike(tasks', tasks)
    BY Zenon DEF Alike
  <2> QED BY <2>1, <2>2, <1>StaysCalm, Zenon
<1>ReceiveIsCalm.
  ASSUME KernelInv, MailInv, NEW capacity, SyscallReceive(capacity)
  PROVE  Calm
  <2> USE <1>ReceiveIsCalm
  <2>1. /\ tasks' = tasks /\ taskCount' = taskCount /\ pendingReap' = pendingReap
        /\ mail' = AfterReceive(mail, Me) /\ Pending(mail, Me)
    BY Zenon DEF SyscallReceive, CanReceive, scheduler
  <2>2. Part(mail', mail, Letters)
    BY <2>1, ReceiveIsPart, Zenon DEF MailInv
  <2>3. Framed'
    BY <2>1, Zenon DEF MailInv, Framed, Live
  <2>4. \A s \in 1..taskCount - 1 : LiveUser(s)' <=> LiveUser(s)
    BY <2>1, Zenon DEF LiveUser, Live
  <2>5. 1..taskCount - 1 \subseteq Slots
    BY SlotRanges, Zenon DEF KernelInv
  <2>6. \A s \in 1..taskCount - 1 : tasks[s].mode = "user" /\ tasks[s].state = "blocked" =>
          ~Pending(mail, tasks[s].id)
    BY Zenon DEF MailInv, NoLostWakeup, UserSlots
  <2> QED BY <2>1, <2>2, <2>3, <2>4, <2>5, <2>6, Zenon DEF Calm
(* The task that ends takes its mail along, in both directions. *)
<1>EndIsCalm.
  ASSUME KernelInv, MailInv, UserEnds
  PROVE  Calm
  <2> USE <1>EndIsCalm
  <2>1. /\ UserRuns /\ taskCount' = taskCount
        /\ mail' = PurgeSender(PurgeReceiver(mail, Me), Me)
    BY Zenon DEF UserEnds
  <2>2. current \in 1..taskCount - 1 /\ current \in Slots /\ 1..taskCount - 1 \subseteq Slots
    BY <2>1, SlotRanges, Zenon DEF KernelInv, UserRuns, LiveUser, Live
  <2>3. Me # 0
    BY <2>2, <1>LiveIds, Zenon DEF Me
  <2>4. /\ Part(mail', mail, Letters)
        /\ Lacks(mail', "receiver", Me) /\ Lacks(mail', "sender", Me)
    <3>1. mail \in Seq(Letters)
      BY Zenon DEF MailInv
    <3> QED BY <2>1, <2>3, <3>1, PurgesBoth, Zenon
  <2>5. /\ \A s \in Slots : /\ tasks'[s].mode = tasks[s].mode /\ tasks'[s].id = tasks[s].id
                            /\ s # current => tasks'[s].state = tasks[s].state
        /\ tasks'[current].state = "terminated"
        /\ \A s \in Slots : Live(s)' <=> Live(s) /\ s # current
        /\ \A s \in Slots : LiveUser(s)' <=> LiveUser(s) /\ s # current
    BY UserEndsTasks, Zenon
  <2>6. Framed'
    <3>1. /\ Kept(tasks', EndedTable, pendingReap \cup {current})
          /\ pendingReap' \in SUBSET (pendingReap \cup {current})
      BY UserEndsEffect, Zenon
    <3>2. ASSUME NEW s \in Slots, Live(s)' PROVE tasks'[s].frame /\ s \notin pendingReap'
      <4>1. Live(s) /\ s # current
        BY <2>5, <3>2, Zenon
      <4>2. tasks[s].frame /\ s \notin pendingReap \cup {current}
        BY <4>1, Zenon DEF MailInv, Framed
      <4>3. EndedTable[s] = tasks[s]
        BY <2>1, <4>1, EndedTableFacts, Zenon
      <4> QED BY <3>1, <4>2, <4>3, Zenon DEF Kept
    <3>3. pendingReap' \subseteq 1..taskCount' - 1
      BY <2>1, <2>2, <3>1, Zenon DEF MailInv, Framed
    <3> QED BY <3>2, <3>3, Zenon DEF Framed
  <2>7. ASSUME NEW s \in 1..taskCount - 1, LiveUser(s), ~LiveUser(s)'
        PROVE  Lacks(mail', "sender", tasks[s].id) /\ Lacks(mail', "receiver", tasks[s].id)
    <3>1. s = current
      BY <2>2, <2>5, <2>7, Zenon
    <3> QED BY <2>4, <3>1, Zenon DEF Me
  <2>8. ASSUME NEW s \in 1..taskCount' - 1, tasks'[s].mode = "user", tasks'[s].state = "blocked"
        PROVE  ~Pending(mail, tasks'[s].id)
    <3>1. s \in Slots /\ s \in 1..taskCount - 1
      BY <2>1, <2>2, Zenon
    <3>2. s # current /\ tasks[s].mode = "user" /\ tasks[s].state = "blocked"
          /\ tasks'[s].id = tasks[s].id
      BY <2>5, <2>8, <3>1, Zenon
    <3> QED BY <3>1, <3>2, Zenon DEF MailInv, NoLostWakeup, UserSlots
  <2> QED BY <2>1, <2>2, <2>4, <2>5, <2>6, <2>7, <2>8, Zenon DEF Calm
(* find_task_slot avoids a slot whose stack waits to be reaped. *)
<1>SlotIsReaped.
  ASSUME KernelInv, Framed, TaskSlot < MaxTasks
  PROVE  TaskSlot \notin pendingReap
  <2> USE <1>SlotIsReaped
  <2>1. CASE ReusableSlots # {}
    <3>1. ReusableSlots \in SUBSET Nat
      BY DEF ReusableSlots
    <3>2. Min(ReusableSlots) \in ReusableSlots
      BY <2>1, <3>1, LeastElement, Zenon
    <3> QED BY <2>1, <3>2, Zenon DEF TaskSlot, ReusableSlots
  <2>2. CASE ReusableSlots = {}
    <3>1. taskCount \notin 1..taskCount - 1
      BY DEF KernelInv, Tables
    <3> QED BY <2>2, <3>1, Zenon DEF TaskSlot, Framed
  <2> QED BY <2>1, <2>2, Zenon
<1>StartIsCalm.
  ASSUME KernelInv, MailInv, NEW slot, NEW gen, NEW space, NEW p,
         Started(slot, gen, space, p), slot \notin pendingReap, mail' = mail
  PROVE  Calm
  <2> USE <1>StartIsCalm
  <2>1. /\ slot \in 1..taskCount /\ slot \in Slots /\ ~Live(slot)
        /\ tasks'[slot].state = "runnable" /\ tasks'[slot].frame
        /\ \A s \in Slots : s # slot => tasks'[s] = tasks[s]
        /\ 1..taskCount' - 1 = (1..taskCount - 1) \cup {slot}
        /\ pendingReap' = pendingReap
    BY StartedTable, Zenon DEF Started
  <2>2. 1..taskCount - 1 \subseteq Slots
    BY SlotRanges, Zenon DEF KernelInv
  <2>3. \A s \in Slots : s # slot => (Live(s)' <=> Live(s)) /\ (LiveUser(s)' <=> LiveUser(s))
    BY <2>1, Zenon DEF Live, LiveUser
  <2>4. Framed'
    <3>1. ASSUME NEW s \in Slots, Live(s)' PROVE tasks'[s].frame /\ s \notin pendingReap'
      BY <2>1, <2>3, <3>1, Zenon DEF MailInv, Framed
    <3> QED BY <2>1, <3>1, Zenon DEF MailInv, Framed
  <2>5. Part(mail', mail, Letters)
    BY <1>WholeIsPart, Zenon DEF MailInv
  <2>6. ASSUME NEW s \in 1..taskCount' - 1, tasks'[s].mode = "user", tasks'[s].state = "blocked"
        PROVE  ~Pending(mail, tasks'[s].id)
    <3>1. s # slot /\ s \in 1..taskCount - 1 /\ tasks'[s] = tasks[s]
      BY <2>1, <2>2, <2>6, Zenon
    <3> QED BY <2>6, <3>1, Zenon DEF MailInv, NoLostWakeup, UserSlots
  <2>7. \A s \in 1..taskCount - 1 : tasks'[s].id = tasks[s].id \/ ~LiveUser(s)
    BY <2>1, <2>2, Zenon DEF LiveUser
  <2>8. \A s \in 1..taskCount - 1 : LiveUser(s) => LiveUser(s)'
    BY <2>1, <2>2, <2>3, Zenon DEF LiveUser
  <2> QED BY <2>1, <2>2, <2>4, <2>5, <2>6, <2>7, <2>8, Zenon DEF Calm
(* Every task that could take the new message is awake when it is there. *)
<1>SendKeepsMail.
  ASSUME KernelInv, MailInv, NEW receiver, NEW size \in 0..MessageMax,
         SyscallSend(receiver, size)
  PROVE  MailInv'
  <2> USE <1>SendKeepsMail
  <2> DEFINE slots == IF receiver = 0 THEN UserSlots ELSE WithId(receiver)
             letter == Envelope(Me, receiver, size)
  <2>1. /\ UserRuns
        /\ receiver = 0 \/ ActiveUser(receiver)
        /\ Len(mail) < QueueCapacity /\ mail' = Append(mail, letter)
        /\ tasks' = Woken(slots) /\ taskCount' = taskCount /\ pendingReap' = pendingReap
    BY Zenon DEF SyscallSend, CanSend
  <2>2. slots = IF receiver = 0 THEN UserSlots ELSE WithId(receiver)
    BY Zenon
  <2> HIDE DEF slots
  <2>3. /\ 1..taskCount - 1 \subseteq Slots /\ current \in 1..taskCount - 1
    BY <2>1, SlotRanges, Zenon DEF KernelInv, UserRuns, LiveUser, Live
  <2>4. Me \in TaskIds /\ receiver \in TaskIds
    <3>1. Me \in TaskIds
      BY <2>3, <1>LiveIds, Zenon DEF Me
    <3>2. CASE receiver = 0
      BY <3>1, <3>2 DEF TaskIds
    <3>3. CASE ActiveUser(receiver)
      BY <3>1, <3>3, <1>LiveIds, Zenon DEF ActiveUser
    <3> QED BY <2>1, <3>1, <3>2, <3>3, Zenon
  <2>5. letter \in Letters /\ letter.sender = Me /\ letter.receiver = receiver
    BY <2>4, Zenon DEF Envelope, Letters, Message
  <2> HIDE DEF letter
  <2>6. /\ mail' \in Seq(Letters) /\ Len(mail') = Len(mail) + 1 /\ Len(mail') <= QueueCapacity
        /\ \A i \in 1..Len(mail) : mail'[i] = mail[i]
        /\ mail'[Len(mail) + 1] = letter /\ Len(mail) \in Nat
    BY <2>1, <2>5, MailboxConstants DEF MailInv
  <2>7. \A s \in Slots : /\ tasks'[s].id = tasks[s].id /\ tasks'[s].mode = tasks[s].mode
                         /\ tasks'[s].frame = tasks[s].frame
                         /\ tasks'[s].state = "terminated" <=> tasks[s].state = "terminated"
                         /\ tasks'[s].state = "blocked" =>
                              tasks[s].state = "blocked" /\ ~(s \in slots /\ tasks[s].frame)
    BY <2>1, WokenFacts, Zenon
  <2>8. Framed'
    BY <2>1, <2>7, Zenon DEF MailInv, Framed, Live
  <2>9. ASSUME NEW id, ActiveUser(id)
        PROVE  \E s \in 1..taskCount' - 1 : tasks'[s].id = id /\ LiveUser(s)' /\ tasks'[s].frame
    <3>1. PICK s \in 1..taskCount - 1 : tasks[s].id = id /\ LiveUser(s) /\ tasks[s].frame
      BY <2>9, Zenon DEF ActiveUser
    <3>2. s \in Slots
      BY <2>3, Zenon
    <3> QED BY <2>1, <2>7, <3>1, <3>2, Zenon DEF LiveUser, Live
  <2>10. ActiveUser(Me)
    BY <2>1, <2>3, Zenon DEF ActiveUser, Me, UserRuns, MailInv, Framed, LiveUser
  <2>11. MailPartiesLive'
    <3>1. ASSUME NEW j \in 1..Len(mail')
          PROVE  (/\ ActiveUser(mail[j].sender)
                  /\ mail[j].receiver # 0 => ActiveUser(mail[j].receiver))'
      <4>1. PICK a, b : /\ mail'[j].sender = a /\ mail'[j].receiver = b
                        /\ ActiveUser(a) /\ (b # 0 => ActiveUser(b))
        <5>1. CASE j \in 1..Len(mail)
          BY <2>6, <5>1, Zenon DEF MailInv, MailPartiesLive
        <5>2. CASE j = Len(mail) + 1
          BY <2>1, <2>5, <2>6, <2>10, <5>2, Zenon
        <5> QED BY <2>6, <5>1, <5>2
      <4>2. /\ \E s \in 1..taskCount' - 1 : tasks'[s].id = a /\ LiveUser(s)' /\ tasks'[s].frame
            /\ b # 0 => \E s \in 1..taskCount' - 1 :
                           tasks'[s].id = b /\ LiveUser(s)' /\ tasks'[s].frame
        BY <2>9, <4>1, Zenon
      <4> QED BY <4>1, <4>2, Zenon DEF ActiveUser
    <3> QED BY <3>1, Zenon DEF MailPartiesLive
  <2>12. NoLostWakeup'
    <3>1. ASSUME NEW s \in 1..taskCount - 1, tasks'[s].mode = "user", tasks'[s].state = "blocked"
          PROVE  ~Pending(mail', tasks'[s].id)
      <4>1. /\ s \in Slots /\ tasks[s].mode = "user" /\ tasks[s].state = "blocked"
            /\ tasks'[s].id = tasks[s].id /\ ~(s \in slots /\ tasks[s].frame)
        BY <2>3, <2>7, <3>1, Zenon
      <4>2. tasks[s].frame
        BY <4>1, Zenon DEF MailInv, Framed, Live
      <4>3. receiver # 0 /\ tasks[s].id # receiver
        BY <2>2, <4>1, <4>2, Zenon DEF UserSlots, WithId
      <4>4. tasks[s].id # 0
        BY <1>LiveIds, Zenon
      <4>5. ~Matches(letter, tasks[s].id)
        BY <2>5, <4>3, <4>4, Zenon DEF Matches
      <4>6. \A i \in 1..Len(mail) : ~Matches(mail[i], tasks[s].id)
        <5>1. ~Pending(mail, tasks[s].id) /\ mail \in Seq(Letters)
          BY <4>1, Zenon DEF MailInv, NoLostWakeup, UserSlots
        <5> QED BY <5>1, FirstMatchFacts, Zenon
      <4>7. \A i \in 1..Len(mail') : ~Matches(mail'[i], tasks[s].id)
        <5>1. ASSUME NEW i \in 1..Len(mail') PROVE ~Matches(mail'[i], tasks[s].id)
          <6>1. CASE i \in 1..Len(mail)
            BY <2>6, <4>6, <6>1, Zenon
          <6>2. CASE i = Len(mail) + 1
            BY <2>6, <4>5, <6>2, Zenon
          <6> QED BY <2>6, <6>1, <6>2
        <5> QED BY <5>1, Zenon
      <4>8. mail' \in Seq(Letters)
        BY <2>6, Zenon
      <4> QED BY <4>1, <4>7, <4>8, FirstMatchFacts, Zenon
    <3> QED BY <2>1, <3>1, Zenon DEF NoLostWakeup, UserSlots
  <2> QED BY <2>6, <2>8, <2>11, <2>12, Zenon DEF MailInv
<1> SUFFICES ASSUME KernelInv, MailInv, [Next]_vars PROVE MailInv'
  BY Zenon
<1>1. CASE Timer
  BY <1>1, <1>TimerIsCalm, <1>CalmKeeps, Zenon
<1>2. CASE Syscall
  <2>1. CASE SyscallYield \/ SyscallReceiveWait \/ UserEnds
    BY <2>1, <1>TimerIsCalm, <1>WaitIsCalm, <1>EndIsCalm, <1>CalmKeeps, Zenon
  <2>2. CASE \E r \in {0} \cup {tasks[s].id : s \in Slots}, n \in 0..MessageMax : SyscallSend(r, n)
    BY <2>2, <1>SendKeepsMail, Zenon
  <2>3. CASE \E c \in 0..MessageMax : SyscallReceive(c)
    BY <2>3, <1>ReceiveIsCalm, <1>CalmKeeps, Zenon
  <2> QED BY <1>2, <2>1, <2>2, <2>3, Zenon DEF Syscall
<1>3. ASSUME NEW blocks, CanSpawn(blocks), Spawn(blocks), mail' = mail, panic' = panic
      PROVE  MailInv'
  <2>1. TaskSlot < MaxTasks
    BY <1>3, Zenon DEF CanSpawn
  <2>2. TaskSlot \notin pendingReap
    BY <2>1, <1>SlotIsReaped, Zenon DEF MailInv
  <2>3. Started(TaskSlot, generation[TaskSlot] + 1, Min(Spaces \ spaces), Min(Inactive))
    BY <1>3, SpawnStarts, Zenon
  <2> QED BY <1>3, <2>2, <2>3, <1>StartIsCalm, <1>CalmKeeps, Zenon
<1>4. CASE LoopRestart /\ CanSpawn(SpaceCost)
  BY <1>3, <1>4, Zenon DEF LoopRestart
<1>5. CASE LoopRun
  BY <1>3, <1>5, Zenon DEF LoopRun, Command
<1>6. CASE \/ LoopWake \/ LoopFormat \/ LoopGivesUpDma \/ LoopInput \/ LoopCheck \/ LoopLimit
           \/ LoopCompare \/ LoopBefore \/ LoopVerify \/ LoopTick
           \/ (LoopRestart /\ ~CanSpawn(SpaceCost)) \/ Halted \/ UNCHANGED vars
  <2>1. tasks' = tasks /\ taskCount' = taskCount /\ pendingReap' = pendingReap /\ mail' = mail
    BY <1>6, Zenon DEF LoopWake, LoopFormat, LoopGivesUpDma, LoopInput, LoopCheck, LoopLimit,
       LoopCompare, LoopBefore, LoopVerify, LoopTick, LoopRestart, Command, Halt, Halted,
       LoopUnchanged, scheduler, vars
  <2> QED BY <2>1, <1>StillIsCalm, <1>CalmKeeps, Zenon
<1> QED BY <1>1, <1>2, <1>4, <1>5, <1>6, Zenon DEF Next, EventStep

(* The mail keeps its shape, and a live task keeps a frame to be resumed   *)
(* with (ipc.c, schedule_from_frame).                                      *)
THEOREM MailInvariance == Spec => []MailInv
<1>1. KernelInv /\ MailInv /\ [Next]_vars => MailInv'
  BY MailStep, Zenon
<1> QED BY <1>1, InitMail, KernelInvariance, PTL DEF Spec

(* No wake-up is lost, however sends, receives, exits and ticks interleave *)
(* (ipc_send_from_to against scheduler_block_current).                     *)
THEOREM WakeupsAreNotLost == Spec => []NoLostWakeup
<1>1. MailInv => NoLostWakeup
  BY Zenon DEF MailInv
<1> QED BY <1>1, MailInvariance, PTL

(* Both parties of every queued message are tasks that live now, so no     *)
(* later task in the slot sees it (ipc_purge_receiver, ipc_purge_sender).  *)
THEOREM MailDiesWithItsTask == Spec => []MailPartiesLive
<1>1. MailInv => MailPartiesLive
  BY Zenon DEF MailInv
<1> QED BY <1>1, MailInvariance, PTL

==============================================================================
