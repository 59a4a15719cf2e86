---------------------------- MODULE ProcessKernel ----------------------------
(***************************************************************************)
(* Tasks, user processes, system calls and the restart supervision of the  *)
(* event loop: process/scheduler.c, process/user_process.c, the calls of   *)
(* kernel/syscall.c that touch them, the mail of kernel/ipc.c and the      *)
(* restart block of kernel_process_events in kernel/kernel.c, from         *)
(* scheduler_start on.                                                     *)
(*                                                                         *)
(* There is one processor and every gate of the IDT clears the interrupt   *)
(* flag, so a system call, an exception or a timer tick is one step. A     *)
(* kernel task runs with interrupts on: the event loop is preempted        *)
(* between any two of its steps. A user program does whatever it likes.    *)
(***************************************************************************)
EXTENDS Mailbox, FiniteSets

CONSTANTS
  Workers,        \* kernel tasks that never end (counter and snake)
  Users,          \* user processes kernel_main starts
  MaxTasks,       \* SCHEDULER_MAX_TASKS
  MaxProcesses,   \* USER_PROCESS_MAX
  MaxGeneration,  \* SCHEDULER_MAX_GENERATION
  WorkerPriority, \* what scheduler_set_priority gives the first worker
  StackCost,      \* blocks of a kernel stack
  SpaceCost,      \* blocks of an address space with its image and user stack
  InitialFree,    \* user_process_initial_free_blocks
  ImageCost,      \* blocks of a disk image beyond those of the demo
  HeapCost,       \* blocks the buffer of pformat makes the heap grow by
  DriverBlocks,   \* blocks a disk driver frees when it gives up DMA
  RestartTarget,  \* USER_PROCESS_RESTART_TARGET
  WaitLimit,      \* 200 in kernel_process_events
  MaxKeys,        \* wake-ups by the keyboard between two ticks
  MaxRuns         \* bound on the processes started by the command run

EventLoop == Workers + Users + 1  \* the slot of the last task added at boot

ASSUME KernelConstants ==
  /\ {Workers, Users, RestartTarget, WaitLimit, InitialFree, MaxKeys, MaxRuns} \subseteq Nat
  /\ ImageCost \in Nat /\ DriverBlocks \in Nat /\ DriverBlocks > 0 /\ DriverBlocks < StackCost
  /\ {WorkerPriority, StackCost, SpaceCost, HeapCost, MaxGeneration} \subseteq Nat \ {0}
  /\ MaxProcesses \in Nat /\ Users <= MaxProcesses
  /\ MaxTasks \in Nat /\ EventLoop < MaxTasks

(* No slot runs out of generations (2^24 - 1), and the limit on the waits  *)
(* (200) exceeds those that 8 exits cause: a keyboard that sends at most   *)
(* 23 bytes in the 10 ms of a tick does not exhaust it.                    *)
ASSUME RestartConstants ==
  /\ RestartTarget + MaxRuns < MaxGeneration
  /\ (MaxKeys + 2) * (Users + RestartTarget) <= WaitLimit

VARIABLES
  tasks,        \* the task table
  taskCount,    \* task_count
  current,      \* current_task
  pendingReap,  \* pending_reap_mask
  generation,   \* slot_generation
  mail,         \* the IPC queue
  processes,    \* the user process records
  spaces,       \* page directories in use, besides the kernel's
  ran,          \* those of processes that the command run has started
  cr3,          \* the current directory
  free,         \* pmm_free_blocks
  reaps,        \* process_reaps
  loop,         \* the event loop's position and locals
  restarts,     \* user_restart_count
  waits,        \* user_restart_wait_ticks
  tick,         \* pit_ticks differs from last_game_tick
  keys,         \* wake-ups by the keyboard since the last tick
  heap,         \* blocks the heap has taken since boot
  returned,     \* blocks a disk driver has given back since boot
  runs,         \* processes the command run has started
  panic         \* why the kernel halted, or "none"

scheduler == <<tasks, taskCount, current, pendingReap, generation>>
memory == <<processes, spaces, ran, cr3, free, reaps>>
ledger == <<heap, returned, runs>>
supervisor == <<loop, restarts, waits, ledger>>
vars == <<scheduler, mail, memory, supervisor, tick, keys, panic>>

Slots == 0..MaxTasks - 1
Kernel == 0                    \* the kernel's page directory
Spaces == 1..MaxProcesses      \* page directories of user processes

TaskId(gen, slot) == gen * MaxTasks + slot

TaskIds == {0} \cup {TaskId(g, s) : g \in 1..MaxGeneration, s \in 1..MaxTasks - 1}

Task == [state : {"runnable", "blocked", "terminated"}, mode : {"kernel", "user"},
         id : TaskIds, space : Spaces \cup {Kernel}, stack : BOOLEAN, frame : BOOLEAN,
         priority : Nat \ {0}, ticks : Nat]

Process == [active : BOOLEAN, slot : Slots, id : TaskIds, space : Spaces \cup {Kernel}]

Panics == {"none", "no_runnable", "space_switch", "unowned", "restart_failed", "leaked", "waited"}

(* Every table of the kernel keeps its type: the current task is a slot in *)
(* use, CR3 a directory in use, and the queue never exceeds its capacity.  *)
TypeOK ==
  /\ tasks \in [Slots -> Task]
  /\ taskCount \in 1..MaxTasks
  /\ current \in Slots /\ current < taskCount
  /\ pendingReap \subseteq Slots
  /\ generation \in [Slots -> 0..MaxGeneration]
  /\ mail \in Seq(Message(TaskIds)) /\ Len(mail) <= QueueCapacity
  /\ processes \in [1..MaxProcesses -> Process]
  /\ spaces \subseteq Spaces /\ ran \subseteq spaces
  /\ cr3 \in spaces \cup {Kernel}
  /\ {free, reaps, restarts, waits, keys, heap, returned, runs} \subseteq Nat
  /\ loop.at \in {"wait", "input", "check", "limit", "compare", "before", "restart", "verify", "tick"}
  /\ {loop.expected, loop.before} \subseteq Nat
  /\ tick \in BOOLEAN
  /\ panic \in Panics

NoTask == [state |-> "terminated", mode |-> "kernel", id |-> 0, space |-> Kernel,
           stack |-> FALSE, frame |-> FALSE, priority |-> 1, ticks |-> 1]

NoProcess == [active |-> FALSE, slot |-> 0, id |-> 0, space |-> Kernel]

KernelTask(slot) ==
  LET p == IF slot = 1 /\ Workers > 0 THEN WorkerPriority ELSE 1
  IN [NoTask EXCEPT !.state = "runnable", !.id = TaskId(1, slot), !.stack = TRUE,
                    !.frame = TRUE, !.priority = p, !.ticks = p]

UserTask(slot, gen, space) ==
  [NoTask EXCEPT !.state = "runnable", !.mode = "user", !.id = TaskId(gen, slot),
                 !.space = space, !.stack = TRUE, !.frame = TRUE]

Running == panic = "none"

Live(slot) == slot \in 1..taskCount - 1 /\ tasks[slot].state # "terminated"

LiveUser(slot) == Live(slot) /\ tasks[slot].mode = "user"

(* As kernel_main leaves the kernel: workers, user processes, event loop;  *)
(* the boot task is over and still the current one.                        *)
Init ==
  /\ tasks = [s \in Slots |->
                IF s = 0 \/ s > EventLoop THEN NoTask
                ELSE IF s \in Workers + 1..Workers + Users THEN UserTask(s, 1, s - Workers)
                ELSE KernelTask(s)]
  /\ taskCount = EventLoop + 1
  /\ current = 0
  /\ pendingReap = {}
  /\ generation = [s \in Slots |-> IF s \in 1..EventLoop THEN 1 ELSE 0]
  /\ mail = <<>>
  /\ processes = [p \in 1..MaxProcesses |->
                    IF p <= Users
                    THEN [active |-> TRUE, slot |-> Workers + p,
                          id |-> TaskId(1, Workers + p), space |-> p]
                    ELSE NoProcess]
  /\ spaces = 1..Users /\ ran = {}
  /\ cr3 = Kernel
  /\ free = InitialFree
  /\ reaps = 0 /\ restarts = 0 /\ waits = 0 /\ keys = 0
  /\ heap = 0 /\ returned = 0 /\ runs = 0
  /\ loop = [at |-> "wait", expected |-> 0, before |-> 0]
  /\ tick = FALSE
  /\ panic = "none"

Halt(reason) ==
  /\ panic' = reason
  /\ UNCHANGED <<scheduler, mail, memory, supervisor, tick, keys>>

----------------------------------------------------------------------------
(* Scheduling *)

Ready(table, slot) == table[slot].state = "runnable" /\ table[slot].frame

(* find_next_runnable: round robin, the current task last. *)
ReadyOffsets(table) == {d \in 1..taskCount : Ready(table, (current + d) % taskCount)}

(* Mutant of NextRunnable: the search starts at the first slot. *)
FirstRunnable(table) == Min({s \in 0..taskCount - 1 : Ready(table, s)})

NextRunnable(table) == (current + Min(ReadyOffsets(table))) % taskCount

(* reap_pending_stacks: never the stack the kernel may be standing on. *)
Reapable(pending) == {s \in pending : s \in 1..taskCount - 1 /\ s # current}

ReapedBlocks(table, pending) ==
  StackCost * Cardinality({s \in Reapable(pending) : table[s].stack})

(* The task table after the reaps and with the interrupted context saved:  *)
(* a kernel task is resumed where it was, the frame of a user task is      *)
(* copied to the kernel stack it has.                                      *)
Saved(table, pending) ==
  [s \in Slots |->
     IF s \in Reapable(pending) THEN [table[s] EXCEPT !.stack = FALSE, !.frame = FALSE]
     ELSE IF s = current /\ table[s].mode = "kernel" THEN [table[s] EXCEPT !.frame = TRUE]
     ELSE table[s]]

(* The second half of schedule_from_frame on the task table that its first *)
(* half leaves; directory is CR3 and valid the directories in use. A user  *)
(* task found at an address it may not execute is ended as by UserEnds.    *)
Dispatch(table, directory, valid, force) ==
  IF ~force /\ table[current].state = "runnable" /\ table[current].ticks > 1
  THEN /\ tasks' = [table EXCEPT ![current].ticks = @ - 1]
       /\ cr3' = directory
       /\ UNCHANGED <<current, panic>>
  ELSE IF ReadyOffsets(table) = {}
  THEN /\ panic' = "no_runnable"
       /\ tasks' = table
       /\ cr3' = directory
       /\ UNCHANGED current
  ELSE IF NextRunnable(table) = current
  THEN /\ tasks' = table
       /\ cr3' = directory
       /\ UNCHANGED <<current, panic>>
  ELSE /\ current' = NextRunnable(table)
       /\ tasks' = [table EXCEPT ![NextRunnable(table)].ticks =
                                    table[NextRunnable(table)].priority]
       /\ IF table[NextRunnable(table)].space \in valid \cup {Kernel}
          THEN cr3' = table[NextRunnable(table)].space /\ UNCHANGED panic
          ELSE cr3' = directory /\ panic' = "space_switch"

Schedule(table, pending, blocks, directory, valid, force) ==
  /\ pendingReap' = pending \ Reapable(pending)
  /\ free' = blocks + ReapedBlocks(table, pending)
  /\ \E saved \in {Saved(table, pending)} : Dispatch(saved, directory, valid, force)

(* pit_tick_handler and scheduler_on_timer; the keyboard has sent MaxKeys  *)
(* bytes at most by the next tick.                                         *)
Timer ==
  /\ Running
  /\ tick' = TRUE /\ keys' = 0
  /\ Schedule(tasks, pendingReap, free, cr3, spaces, FALSE)
  /\ UNCHANGED <<taskCount, generation, mail, processes, spaces, ran, reaps, supervisor>>

----------------------------------------------------------------------------
(* System calls of the current user task. A call that only returns an      *)
(* error code changes nothing and is not a step.                           *)

UserRuns == Running /\ LiveUser(current) /\ tasks[current].state = "runnable"

Me == tasks[current].id

SyscallYield ==
  /\ UserRuns
  /\ Schedule(tasks, pendingReap, free, cr3, spaces, TRUE)
  /\ UNCHANGED <<taskCount, generation, mail, processes, spaces, ran, reaps, supervisor, tick, keys>>

ActiveUser(id) == \E s \in 1..taskCount - 1 : tasks[s].id = id /\ LiveUser(s) /\ tasks[s].frame

(* scheduler_wake_task_unlocked for the slots of a set. *)
Woken(slots) ==
  [s \in Slots |->
     IF s \in slots /\ tasks[s].state = "blocked" /\ tasks[s].frame
     THEN [tasks[s] EXCEPT !.state = "runnable", !.ticks = tasks[s].priority] ELSE tasks[s]]

WithId(id) == {s \in 1..taskCount - 1 : tasks[s].id = id}

UserSlots == {s \in 1..taskCount - 1 : tasks[s].mode = "user"}

(* SYSCALL_IPC_SEND with receiver 0, SYSCALL_IPC_SEND_TO otherwise. *)
SyscallSend(receiver, size) ==
  /\ UserRuns
  /\ receiver = 0 \/ ActiveUser(receiver)
  /\ CanSend(mail, size)
  /\ mail' = Append(mail, Envelope(Me, receiver, size))
  /\ tasks' = Woken(IF receiver = 0 THEN UserSlots ELSE WithId(receiver))
  /\ UNCHANGED <<taskCount, current, pendingReap, generation, memory, supervisor, tick, keys, panic>>

(* SYSCALL_IPC_RECEIVE, and SYSCALL_IPC_RECEIVE_WAIT when mail is there. *)
SyscallReceive(capacity) ==
  /\ UserRuns
  /\ CanReceive(mail, Me, capacity)
  /\ mail' = AfterReceive(mail, Me)
  /\ UNCHANGED <<scheduler, memory, supervisor, tick, keys, panic>>

(* scheduler_block_current refuses to put the last runnable task to sleep. *)
CanBlock == \E s \in 0..taskCount - 1 : s # current /\ Ready(tasks, s)

(* Mutant of SyscallReceiveWait: a message that does not fit is taken for  *)
(* no message.                                                             *)
SyscallReceiveWaitTooLarge ==
  /\ UserRuns
  /\ \E c \in 0..MessageMax : ~CanReceive(mail, Me, c)
  /\ CanBlock
  /\ Schedule([tasks EXCEPT ![current].state = "blocked"], pendingReap, free, cr3, spaces, TRUE)
  /\ UNCHANGED <<taskCount, generation, mail, processes, spaces, ran, reaps, supervisor, tick, keys>>

(* SYSCALL_IPC_RECEIVE_WAIT with no mail: the task sleeps, and receives    *)
(* again when it is woken.                                                 *)
SyscallReceiveWait ==
  /\ UserRuns
  /\ ~Pending(mail, Me)
  /\ CanBlock
  /\ Schedule([tasks EXCEPT ![current].state = "blocked"], pendingReap, free, cr3, spaces, TRUE)
  /\ UNCHANGED <<taskCount, generation, mail, processes, spaces, ran, reaps, supervisor, tick, keys>>

Owning(slot) == {p \in 1..MaxProcesses : processes[p].active /\ processes[p].slot = slot}

(* What the address space of a process gives back. *)
SpaceBlocks(p) == SpaceCost + (IF processes[p].space \in ran THEN ImageCost ELSE 0)

(* Mutants of UserEnds: what the task has sent stays in the queue; the     *)
(* pending reap is one slot instead of a mask.                             *)
UserEndsKeepsSent ==
  /\ UserRuns
  /\ mail' = PurgeReceiver(mail, Me)
  /\ LET p == Min(Owning(current))
     IN /\ processes' = [processes EXCEPT ![p] = NoProcess]
        /\ spaces' = spaces \ {processes[p].space} /\ ran' = ran \ {processes[p].space}
        /\ reaps' = reaps + 1
        /\ Schedule([tasks EXCEPT ![current].state = "terminated"],
                    pendingReap \cup {current}, free + SpaceBlocks(p), Kernel, spaces', TRUE)
  /\ UNCHANGED <<taskCount, generation, supervisor, tick, keys>>

UserEndsForgetsPending ==
  /\ UserRuns
  /\ mail' = PurgeSender(PurgeReceiver(mail, Me), Me)
  /\ LET p == Min(Owning(current))
     IN /\ processes' = [processes EXCEPT ![p] = NoProcess]
        /\ spaces' = spaces \ {processes[p].space} /\ ran' = ran \ {processes[p].space}
        /\ reaps' = reaps + 1
        /\ Schedule([tasks EXCEPT ![current].state = "terminated"],
                    {current}, free + SpaceBlocks(p), Kernel, spaces', TRUE)
  /\ UNCHANGED <<taskCount, generation, supervisor, tick, keys>>

(* scheduler_on_user_exit and scheduler_on_user_fault: purge the mail, end *)
(* the task, free the process (user_process_reap_task), run another task.  *)
(* The kernel stack goes at a later switch.                                *)
UserEnds ==
  /\ UserRuns
  /\ mail' = PurgeSender(PurgeReceiver(mail, Me), Me)
  /\ IF Owning(current) # {} /\ processes[Min(Owning(current))].id = Me
     THEN LET p == Min(Owning(current))
          IN /\ processes' = [processes EXCEPT ![p] = NoProcess]
             /\ spaces' = spaces \ {processes[p].space} /\ ran' = ran \ {processes[p].space}
             /\ reaps' = reaps + 1
             /\ Schedule([tasks EXCEPT ![current].state = "terminated"],
                         pendingReap \cup {current}, free + SpaceBlocks(p), Kernel, spaces', TRUE)
     ELSE /\ panic' = "unowned"
          /\ UNCHANGED <<tasks, current, pendingReap, memory>>
  /\ UNCHANGED <<taskCount, generation, supervisor, tick, keys>>

----------------------------------------------------------------------------
(* Starting a process: user_process_spawn_locked, interrupts off, for an   *)
(* image whose address space needs a number of blocks.  The layout of the  *)
(* process inside its own address space is left out.                       *)

ReusableSlots ==
  {s \in 1..taskCount - 1 : /\ s \notin pendingReap /\ tasks[s].state = "terminated"
                            /\ ~tasks[s].stack /\ ~tasks[s].frame}

(* find_task_slot; MaxTasks when there is none. *)
TaskSlot == IF ReusableSlots # {} THEN Min(ReusableSlots) ELSE taskCount

Inactive == {p \in 1..MaxProcesses : ~processes[p].active}

SpaceInUse(space) == \E s \in 1..taskCount - 1 : LiveUser(s) /\ tasks[s].space = space

CanSpawn(blocks) ==
  /\ cr3 = Kernel
  /\ Inactive # {} /\ Spaces \ spaces # {}
  /\ free >= blocks + StackCost
  /\ TaskSlot < MaxTasks /\ generation[TaskSlot] < MaxGeneration
  /\ ~SpaceInUse(Min(Spaces \ spaces))

(* Mutant of Spawn: the generation is not counted. *)
SpawnSameGeneration(blocks) ==
  LET slot == TaskSlot
      space == Min(Spaces \ spaces)
      gen == generation[slot]
  IN /\ tasks' = [tasks EXCEPT ![slot] = UserTask(slot, gen, space)]
     /\ processes' = [processes EXCEPT ![Min(Inactive)] =
                        [active |-> TRUE, slot |-> slot, id |-> TaskId(gen, slot),
                         space |-> space]]
     /\ spaces' = spaces \cup {space}
     /\ free' = free - blocks - StackCost
     /\ UNCHANGED <<taskCount, generation, current, pendingReap, cr3, reaps>>

Spawn(blocks) ==
  LET slot == TaskSlot
      space == Min(Spaces \ spaces)
      gen == generation[slot] + 1
  IN /\ tasks' = [tasks EXCEPT ![slot] = UserTask(slot, gen, space)]
     /\ taskCount' = IF slot = taskCount THEN taskCount + 1 ELSE taskCount
     /\ generation' = [generation EXCEPT ![slot] = gen]
     /\ processes' = [processes EXCEPT ![Min(Inactive)] =
                        [active |-> TRUE, slot |-> slot, id |-> TaskId(gen, slot),
                         space |-> space]]
     /\ spaces' = spaces \cup {space}
     /\ free' = free - blocks - StackCost
     /\ UNCHANGED <<current, pendingReap, cr3, reaps>>

----------------------------------------------------------------------------
(* The event loop. Each step reads the shared counters once; a tick may    *)
(* let other tasks run before the next step.                               *)

LoopAt(place) == Running /\ current = EventLoop /\ loop.at = place

GoTo(place) == loop' = [loop EXCEPT !.at = place]

LoopUnchanged == UNCHANGED <<scheduler, mail, memory, ledger, tick, panic>>

(* kernel_wait_for_work: a tick or the keyboard ends the wait. *)
LoopWake ==
  /\ LoopAt("wait")
  /\ tick \/ keys < MaxKeys
  /\ keys' = IF tick THEN keys ELSE keys + 1
  /\ GoTo("input")
  /\ UNCHANGED <<restarts, waits>>
  /\ LoopUnchanged

(* The commands of shell_handle_char that move blocks; all the others      *)
(* leave the counts alone.                                                 *)
Command ==
  /\ LoopAt("input")
  /\ UNCHANGED <<mail, loop, restarts, waits, tick, keys, panic>>

(* pformat: the heap grows for its buffer, and kfree does not give the     *)
(* blocks back.                                                            *)
LoopFormat ==
  /\ Command
  /\ heap = 0 /\ free >= HeapCost
  /\ heap' = HeapCost
  /\ free' = free - HeapCost
  /\ UNCHANGED <<scheduler, processes, spaces, ran, cr3, reaps, returned, runs>>

(* run: a process from a disk image.  One that is refused, for whatever    *)
(* reason, leaves no trace.                                                *)
LoopRun ==
  /\ Command
  /\ runs < MaxRuns /\ CanSpawn(SpaceCost + ImageCost)
  /\ Spawn(SpaceCost + ImageCost)
  /\ ran' = ran \cup (spaces' \ spaces)
  /\ runs' = runs + 1
  /\ UNCHANGED <<heap, returned>>

(* A command that uses the disk, when the driver gives up DMA: it frees    *)
(* the pages it took at boot (disable_dma_after_failure of drivers/ata.c,  *)
(* release_dma_pages of drivers/ahci.c).                                   *)
LoopGivesUpDma ==
  /\ Command
  /\ returned = 0
  /\ returned' = DriverBlocks
  /\ free' = free + DriverBlocks
  /\ UNCHANGED <<scheduler, processes, spaces, ran, cr3, reaps, heap, runs>>

(* The input is handled. *)
LoopInput ==
  /\ LoopAt("input")
  /\ GoTo("check")
  /\ UNCHANGED <<restarts, waits, keys>>
  /\ LoopUnchanged

(* Mutant of LoopCheck: one restart is expected at a time. *)
LoopCheckOneRestart ==
  /\ LoopAt("check")
  /\ loop' = IF restarts < RestartTarget /\ reaps > restarts
             THEN [loop EXCEPT !.at = "limit", !.expected = InitialFree + StackCost + SpaceCost]
             ELSE [loop EXCEPT !.at = "tick"]
  /\ UNCHANGED <<restarts, waits, keys>>
  /\ LoopUnchanged

LoopCheck ==
  /\ LoopAt("check")
  /\ loop' = IF restarts < RestartTarget /\ reaps > restarts
             THEN [loop EXCEPT !.at = "limit",
                     !.expected = InitialFree + (StackCost + SpaceCost) * (reaps - restarts)]
             ELSE [loop EXCEPT !.at = "tick"]
  /\ UNCHANGED <<restarts, waits, keys>>
  /\ LoopUnchanged

LoopLimit ==
  /\ LoopAt("limit")
  /\ IF free < InitialFree THEN Halt("leaked")
     ELSE IF waits > WaitLimit THEN Halt("waited")
     ELSE /\ waits' = waits + 1
          /\ GoTo("compare")
          /\ UNCHANGED <<restarts, keys>>
          /\ LoopUnchanged

(* Mutant of LoopCompare: the restart does not wait for the stack. *)
LoopCompareAtOnce ==
  /\ LoopAt("compare")
  /\ GoTo("before")
  /\ UNCHANGED <<restarts, waits, keys>>
  /\ LoopUnchanged

LoopCompare ==
  /\ LoopAt("compare")
  /\ GoTo(IF free = loop.expected THEN "before" ELSE "tick")
  /\ UNCHANGED <<restarts, waits, keys>>
  /\ LoopUnchanged

LoopBefore ==
  /\ LoopAt("before")
  /\ loop' = [loop EXCEPT !.at = "restart", !.before = free]
  /\ UNCHANGED <<restarts, waits, keys>>
  /\ LoopUnchanged

LoopRestart ==
  /\ LoopAt("restart")
  /\ IF CanSpawn(SpaceCost)
     THEN /\ Spawn(SpaceCost)
          /\ GoTo("verify")
          /\ UNCHANGED <<mail, ran, restarts, waits, ledger, tick, keys, panic>>
     ELSE Halt("restart_failed")

LoopVerify ==
  /\ LoopAt("verify")
  /\ IF free # loop.before - (StackCost + SpaceCost) THEN Halt("leaked")
     ELSE /\ restarts' = restarts + 1
          /\ waits' = 0
          /\ GoTo("tick")
          /\ UNCHANGED keys
          /\ LoopUnchanged

(* The end of kernel_process_events: last_game_tick catches up. *)
LoopTick ==
  /\ LoopAt("tick")
  /\ tick' = FALSE
  /\ GoTo("wait")
  /\ UNCHANGED <<restarts, waits, keys, ledger, scheduler, mail, memory, panic>>

EventStep ==
  \/ LoopWake \/ LoopFormat \/ LoopRun \/ LoopGivesUpDma \/ LoopInput \/ LoopCheck
  \/ LoopLimit \/ LoopCompare \/ LoopBefore \/ LoopRestart \/ LoopVerify \/ LoopTick

(* kernel_panic never returns. *)
Halted == ~Running /\ UNCHANGED vars

Syscall ==
  \/ SyscallYield \/ SyscallReceiveWait \/ UserEnds
  \/ \E r \in {0} \cup {tasks[s].id : s \in Slots}, n \in 0..MessageMax : SyscallSend(r, n)
  \/ \E c \in 0..MessageMax : SyscallReceive(c)

Next == Timer \/ Syscall \/ EventStep \/ Halted

(* Ticks keep coming. A time slice is far longer than a step of the event  *)
(* loop, so a loop that gets the processor again and again moves on.       *)
Spec == Init /\ [][Next]_vars /\ WF_vars(Timer) /\ SF_vars(EventStep)

----------------------------------------------------------------------------
(* No wake-up is lost: a task asleep in SYSCALL_IPC_RECEIVE_WAIT has no    *)
(* mail it could take, whatever was sent, received and purged since        *)
(* (ipc_send_from_to against scheduler_block_current).                     *)
NoLostWakeup ==
  \A s \in UserSlots : tasks[s].state = "blocked" => ~Pending(mail, tasks[s].id)

(* The mail of an exited task is gone: both ends of every queued message   *)
(* are tasks that live now, so a reused slot never sees the mail of the    *)
(* task before it (the purges of scheduler_on_user_exit and _fault).       *)
MailPartiesLive ==
  \A i \in 1..Len(mail) :
    /\ ActiveUser(mail[i].sender)
    /\ mail[i].receiver # 0 => ActiveUser(mail[i].receiver)

(* Every live user task is backed by exactly one process record with its   *)
(* identifier and its own address space, and CR3 holds the space of the    *)
(* task that runs (user_process_reap_task, schedule_from_frame).           *)
SpacesAreOwned ==
  /\ \A s \in UserSlots : LiveUser(s) =>
       \E p \in 1..MaxProcesses :
         /\ Owning(s) = {p}
         /\ processes[p].id = tasks[s].id
         /\ processes[p].space = tasks[s].space
         /\ tasks[s].space \in spaces
  /\ \A s, t \in UserSlots : LiveUser(s) /\ LiveUser(t) /\ s # t =>
       tasks[s].space # tasks[t].space
  /\ Running /\ Live(current) => cr3 = tasks[current].space

(* The blocks of processes, the disk drivers and the heap, as against boot. *)
Accounted ==
  heap + StackCost * Cardinality({s \in UserSlots : tasks[s].stack})
       + SpaceCost * Cardinality(spaces) + ImageCost * Cardinality(ran)

Baseline == InitialFree + (StackCost + SpaceCost) * Users + returned

(* A kernel stack is live or waits to be reaped, the running task still    *)
(* has its own, and every block is accounted for: none is lost or freed    *)
(* twice by exits, faults, reaps, restarts and commands in any order.      *)
BlocksAddUp ==
  /\ \A s \in 1..taskCount - 1 : tasks[s].stack <=> Live(s) \/ s \in pendingReap
  /\ current # 0 => tasks[current].stack
  /\ free + Accounted = Baseline

(* The tables keep their types, every process owns its space and its       *)
(* record, and every block has one owner, across exits, faults, reaps,     *)
(* restarts, processes started by hand and a growing heap.                 *)
OwnershipInv == TypeOK /\ SpacesAreOwned /\ BlocksAddUp

(* No command has moved blocks since user_process_initial_free_blocks was  *)
(* taken.                                                                  *)
Undisturbed == heap = 0 /\ returned = 0 /\ runs = 0

(* The supervisor of kernel_process_events is the only part that panics:   *)
(* there is always a task to run, and a restart finds a slot, a record and *)
(* memory, whatever was typed.  Until a command moves blocks, each process *)
(* that ends costs a bounded number of waits, far from the limit of 200,   *)
(* and only the count around a restart can find a leak.  After pformat,    *)
(* run or a driver that gives up DMA the two counts of kernel.c:137 no     *)
(* longer match and may halt the kernel too.                               *)
OnlyAccountingPanics ==
  /\ panic \in {"none", "leaked", "waited"}
  /\ Undisturbed => /\ waits <= (MaxKeys + 2) * reaps + 1
                    /\ panic # "none" => panic = "leaked" /\ loop.at = "verify"

(* A task identifier names one task for ever: a slot that comes to life    *)
(* again does so under a larger number that no slot holds (the generation  *)
(* in the task identifier).                                                *)
IdsAreFresh ==
  [][\A s \in Slots :
       tasks[s].state = "terminated" /\ tasks'[s].state # "terminated" =>
         /\ tasks'[s].id > tasks[s].id
         /\ \A t \in Slots : tasks'[s].id # tasks[t].id]_vars

(* Round robin starves nobody: a runnable task runs, unless it is the      *)
(* kernel that halts (find_next_runnable, ticks_left and the wake-ups).    *)
NoStarvation ==
  \A s \in 1..MaxTasks - 1 :
    (s < taskCount /\ Ready(tasks, s)) ~> (current = s \/ ~Running)

(* A process that ended is replaced until the target is reached, however   *)
(* exits, ticks, keys and mail interleave (kernel_process_events), as long *)
(* as no command moves blocks; or a process that ends during the restart   *)
(* is taken for a leak.                                                    *)
EndedIsRestarted ==
  \A k \in 0..RestartTarget - 1 :
    (restarts = k /\ reaps > k) ~>
      (restarts > k \/ ~Undisturbed \/ (panic = "leaked" /\ loop.at = "verify"))

(* kernel/kernel.c:163, "User process restart leaked physical memory.": a  *)
(* kernel that says so after a restart has lost blocks.                    *)
LeakPanicMeansLeak ==
  panic = "leaked" /\ loop.at = "verify" => free + Accounted # Baseline

==============================================================================
