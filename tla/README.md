# A TLA+ verification of EfesOS

EfesOS is a small 32-bit x86 operating system. This directory holds TLA+
modules that model the parts of it whose correctness depends on the order of
events or on faults of the hardware: the journal under power loss, the message
queue, tasks and their supervisor, address spaces and frames, the kernel heap,
interrupts and their controllers, the two disk drivers and the FAT16 reader.
TLC checks them on small instances. TLAPS proves the central invariants of the
journal, the message queue, the task tables, the restart supervisor, the heap and
the two disk drivers for every instance.
Paths below are relative to the repository.

## 1. The system

### Parts, state, operations

| Part | State | Operations that change it |
|---|---|---|
| RAMFS `fs/ramfs.c` | table of at most `RAMFS_MAX_FILES` files | init, write, remove, replay callback, self-test |
| Journal `fs/journal.c` | superblock and data sectors on disk | two-phase append, scan, replay, next sequence |
| Persistent RAMFS `fs/persistent.c` | enabled flag, next sequence, write window | boot replay, `pformat`, write, remove |
| IPC `kernel/ipc.c` | ring with head, tail, count | send, receive for a task, purge by sender or receiver |
| Scheduler `process/scheduler.c` | task table, current task, pending reaps, generations | tick, yield, block, wake, exit, fault, stack reaping, add task |
| System calls `kernel/syscall.c` | none of its own | yield, four IPC calls, exit |
| Supervisor `kernel/kernel.c` | restart and wait counters, baseline of free blocks | the restart block of the event loop |
| User processes `process/user_process.c` | process records | spawn with cleanup, reap |
| ELF loader `process/elf_loader.c` | none of its own | load with rollback, unload |
| Paging `memory/paging.c` | page tables, registered spaces, CR3 | map, unmap, protect, create, switch, destroy |
| Frames `memory/pmm.c` | used, user-owned and mapped marks | allocate, claim, release, free |
| Heap `memory/heap.c` | block list, mapped bytes | init, allocate, free, grow |
| Interrupts `cpu/idt.c` | masks of the PICs, routing by APIC | enable a line, hand over to the APIC and back, dispatch |
| APIC `cpu/apic.c` | local APIC, I/O APIC entries, saved firmware state | take over, route, start the timer, shut down |
| MSI `drivers/pci_msi.c` | message registers of a function, saved state | find, program, restore |
| Keyboard `drivers/keyboard.c` | modifiers, ring of characters | handler, read |
| AHCI `drivers/ahci*.c` | port, devices, DMA pages, IRQ state, recovery state | probe, read, switch port, reset, recover, disable |
| ATA `drivers/ata*.c` | DMA mode, IRQ state, request flag, write window | read by PIO or DMA, write and flush, mode set-up |
| FAT16 and VFS `fs/fat.c`, `fs/vfs.c` | mounted volume | mount, read a file, list |
| ACPI, RTC, display, boot loader, games | mostly none or set once | parsing, output |

`PROJECT.json` lists every part with its files and says what is left out of it.

### How the parts meet

- The shell runs only in the event-loop task. It calls the persistent RAMFS,
  which calls the journal, which calls `ata_read_sectors` and
  `ata_write_sectors`; and the VFS, which reads through the block device that
  the AHCI or the ATA driver registered.
- System calls and the timer enter the scheduler. Exits and faults purge the
  IPC queue, free the process at once and leave its kernel stack to a later
  switch.
- The event loop counts freed blocks to decide when an ended process may be
  started again. So the supervisor depends on the frame accounting of paging,
  loader and scheduler, and on no shell command moving blocks in the meantime:
  `pformat` makes the heap grow, `run` starts one more process, and a command
  that reads the disk may make its driver free the DMA pages of boot.
- The event loop sleeps with `hlt` until the keyboard or the tick brings work.
  So it depends on the routing of both lines.
- Address spaces copy the kernel's directory entries when they are created. So
  heap growth and a driver that unmaps its registers affect live processes.

### What is concurrent

There is one processor. Every gate of the interrupt table clears the interrupt
flag, so a system call, an exception or a timer tick is one step. Kernel tasks
run with interrupts on and are preempted anywhere else. Disk controllers,
timers and the keyboard act on their own between two steps of a driver. Power
may fail between two sector writes.

### What is hard here

The hazards are listed in `PROJECT.json` with the line at which each bites. The
main ones: power loss and writes that fail after they took effect; a sender
racing a receiver that is about to sleep; a task slot reused while mail or a
stack of the old task is around; an allocation that fails in the middle of a
spawn or of heap growth; page tables copied and then changed; a hand-over of
interrupts that stops half way; a key that arrives between a test and a `hlt`;
interrupts of an earlier command; drives replaced during a reset; pages returned
while a controller may still write to them; cluster chains that run in a circle.

## 2. The modules

| Module | Models | Kind |
|---|---|---|
| `Ramfs` | `fs/ramfs.c` | operators on the file table |
| `Journal` | `fs/journal.c` | operators on the log: encode, scan, replay |
| `PersistentRamfs` | `fs/persistent.c`, `journal_append`, the boot steps of `kernel_main`, the disk | state machine |
| `DurableLog` | what the persistent RAMFS promises | abstract specification |
| `Mailbox` | the decisions of `kernel/ipc.c` on a sequence of messages | operators |
| `IpcQueue` | what `kernel/ipc.c` promises | abstract specification |
| `IpcRing` | `kernel/ipc.c` as a ring buffer | state machine |
| `ProcessKernel` | `scheduler.c`, `user_process.c`, `syscall.c`, the restart block of `kernel.c` | state machine |
| `Pmm` | `memory/pmm.c` | operators on a memory record |
| `Paging` | the PAE backend of `memory/paging.c` | operators on a memory record |
| `AddressSpaces` | `user_process.c`, `elf_loader.c`, task stacks, heap growth, AHCI register window | state machine |
| `Heap` | `memory/heap.c` | state machine |
| `Apic` | `cpu/apic.c` | operators on registers and driver state |
| `PciMsi` | `drivers/pci_msi.c` and its use in `drivers/pci.c` | operators on the MSI registers |
| `Keyboard` | `drivers/keyboard.c` | operators on the driver's state |
| `Interrupts` | `cpu/idt.c`, the interrupt bring-up and the wait of the event loop in `kernel.c`, PICs and local APIC | state machine composed of the three above |
| `Ahci` | `drivers/ahci.c` and its state helpers, against a controller | state machine |
| `Ata` | `drivers/ata.c` and its helpers, against a drive | state machine |
| `Fat` | what `fs/fat.c` takes a sector for | operators on a disk |
| `Vfs` | `fs/vfs.c`, the walks of `fs/fat.c`, reads of `drivers/block_device.c` | state machine |
| `MCPersistentRamfs`, `MCAddressSpaces`, `MCInterrupts`, `MCVfs` | | instances for TLC |
| `PersistentRamfsProofs`, `MailboxProofs`, `IpcRingProofs`, `ProcessProofs`, `SupervisionProofs`, `HeapProofs`, `AtaProofs`, `AhciProofs` | | theorems |

Definitions keep the names of the source, in camel case where TLA+ reads better
with it: `SendFromTo` is `ipc_send_from_to`, `SpawnCleanup` is the `cleanup`
label of `user_process_spawn_locked`. `PROJECT.json` maps every definition to
its lines. An operator called a mutant or a slip in its comment is a plausible
bug: put in place of the definition after it, it makes a property fail.

### Persistent RAMFS

A data sector is empty, prepared, committed or torn. Torn stands for whatever
the decoder refuses; that a half-written sector never passes the CRC is an
assumption. `journal_append` is three steps (`PrepareRecord`, `CommitRecord`,
`VerifyRecord` or `VerifyFails`), one for each access that changes or verifies
the disk. `pformat` is three as well. `PowerLoss` is possible in every state.
The constant `Faults` chooses what the disk may do: fail a read, reject a write,
store it and report failure, acknowledge it and lose it, or tear the sector.

Two ghost variables give the properties their meaning. `acked` is the sequence
of records whose commands were acknowledged or which a boot has found;
`inflight` is a record whose commit write was issued and not acknowledged.

### IPC

`Mailbox` says what a send, a receive and a purge do to the sequence of
messages. `IpcRing` has the cells, with stale data outside the used range, the
loop that shifts older messages up and the loop that closes gaps in a purge.
`IpcRing` implements `IpcQueue` under the mapping that reads the ring from tail
to head. `ProcessKernel` uses the sequence.

### Processes

`ProcessKernel` starts where `scheduler_start` does. A user program makes any
system call at any time, or ends. `Schedule` is `schedule_from_frame`: reap the
pending stacks other than the current one, save the context, count the time
slice, find the next task round robin, switch the address space. Each step of
the event loop reads the shared counters once, because a tick may come between
two reads. A kernel panic is a final state with its reason. Memory is a number
of blocks here; `AddressSpaces` says where they are. Between a wake-up and the
restart block the event loop handles input (`kernel.c:109`). The commands that
move blocks are steps there: `LoopFormat` (the heap grows for the buffer of
`pformat` and keeps the blocks), `LoopRun` (`run NAME` spawns a process whose end
counts like any other) and `LoopGivesUpDma` (a driver frees its pages once, by
`disable_dma_after_failure` or `release_dma_pages`). `heap`, `runs` and `returned`
record that they happened; `Undisturbed` says that none did. All other commands
leave the number of free blocks and the tables alone.

### Memory

A memory record holds the marks of the frame allocator and the three levels of
PAE tables. A call such as spawning a process is one action, because it runs
with interrupts off, and is computed by composing the same operators in the
order of the calls in the code. Which allocation fails is decided by the number
of frames left free in the initial state.

### Heap

Addresses and capacities are counted in units of `HEAP_ALIGNMENT`. The headers
on the list are a function from addresses to records; links, flags, the cookie
and the canary are fields, so a missing refresh or a wrong link makes one of the
checks of the code panic in the model. Growth maps page by page and rolls back
when frames run out.

### Interrupts

`Interrupts` boots: it masks the PICs, enables the disk line, takes the APICs
over, moves the enabled lines from the PICs to the I/O APICs, chooses the tick,
programs the MSI of the AHCI function, and then runs the event loop. A machine is
a value of the variable `world`: its tables, its disks, the registers that
ignore writes and the numbers of the MSI writes that get lost. `Apic` and
`PciMsi` compute a call of the driver as a sequence of single register writes,
so a write that is ignored has the effect it has in the code. Devices raise
lines at any time, and a line may drop again before it is acknowledged, which is
how spurious vectors come about. The keyboard has a queue of its own; what was
typed is kept to compare with what the shell gets.

### AHCI

The driver is one thread; `pc` says where it is. The stretches between two
actions are those during which the controller may answer or the interrupt
handler may run. Operations that can fail return the set of results the hardware
may give. The controller may answer late, short, with an error or never; lose an
interrupt; fail to stop; refuse a PCI write; show another drive after a reset.

### ATA

The drive goes through busy, data and ready phases and may fail in each.
Interrupt waits, the polling they fall back to, DMA in chunks, the fallback to
PIO and the three attempts are modelled. A DMA wait that ends, well or not, stops
the engine (`WaitEnds`, `DmaDone`). Enabling DMA may be refused for want of pages
or of bus mastering (`ModeRefused`), and clearing the bus-master bit may have no
effect. Sectors carry their own number as data, so a wrong sector in a buffer
shows.

### FAT16 and VFS

A disk is what its sectors mean: boot sectors with geometry and partitions,
sectors of table entries, sectors of directory entries; a sector of data is known
by its number. `Vfs` reads one sector in each step, as the code does, with its
guards, its retries and its comparison of the copies of the table. What the calls
return is compared with a reference definition that walks a chain on the disk as
a whole, without the loops, guards and reads of the code (`FileIsTrue`,
`MountIsTrue`, `ListingIsTrue`). A file whose chain is a circle (`Circular`) is
compared with nothing: see the divergences below.

## 3. What TLC checks

Passing runs:

| Run | Distinct states | Shows |
|---|---|---|
| `persistent_crash` | 103,105 | acknowledged records survive every crash and fault; the log scans unless torn; replay refuses nothing; the table shows the records; a torn log is left alone; the protocol implements `DurableLog` |
| `ipc_ring` | 69,984 | the ring implements the queue; the message removed is the one returned; head follows the mail |
| `process` | 41,933 | no lost wake-up, no mail of or for ended tasks, each live task owns one process and space, blocks add up, fresh identifiers, only the accounting of the supervisor panics and, until a command moves blocks, only around a restart; no starvation; until then ended processes are restarted |
| `memory` | 104,107 | no cleanup panics, every frame has one use, user frames are mapped once, kernel stacks are reachable in user spaces, failures leave no trace, spawns cost the same |
| `heap` | 31,933 | the block list is sound and no check panics; frames and bytes add up after a growth that fails; free space is always found |
| `interrupts` | 283,458 | each line has one way to the CPU and each vector is ended; failures give the firmware its registers back; MSI programming is a transaction; no sleep with work pending; keys arrive in order and are served |
| `ahci` | 172,708 | pages are kept while a port can write to them, one port owns them, a successful read is its own data from the drive identified at boot, no phantom completion, the driver is ready between reads, every call returns |
| `ata` | 1,004,337 | a successful read is the sectors asked for, a successful write is on the medium, the engine runs only while a DMA read waits for it, DMA is on only while its pages are held |
| `disks` | 246,225 | what is mounted, read and listed is what the reference reading of the disk says, whatever else is damaged, except for files on a circle; every call ends |

Violating runs check one sentence of the documents or the code each:

| Run | The text | What happens |
|---|---|---|
| `persistent_failed_append` | `SECURITY.md:53`, a failed second write leaves an ignored record | the flush fails after the commit sector is stored; the record is replayed at the next boot, and until then every append is refused |
| `process_leak` | `kernel/kernel.c:163`, "leaked physical memory" | a process ends between the restart and the count after it; the count is too high, nothing is lost |
| `memory_stale` | `SECURITY.md:25`, spaces are destroyed safely | the AHCI driver unmaps its window, its page table is freed, live spaces keep copies of the entry |

`memory` and `memory_stale` differ in whether another device shares the page
table of the AHCI window. With such a device `CleanupNeverPanics` holds.

Known divergences without a run of their own:

- `SECURITY.md:55` says `pformat` refuses a changed table. `ramfs_is_pristine`
  (`fs/ramfs.c:91`) compares names only, so an edited built-in file passes and
  its edit is lost at the next boot.
- `SECURITY.md:54` and `fs/ramfs.c:200` say that a valid recovery is no panic. A
  replay that fills the table leaves no room for the file of the self-test, and
  `kernel.c:683` panics on every boot. The run leaves an entry free.
- `process/elf_loader.c:485` takes a missing page for corruption. An accepted
  image with an unmapped page between its segments cannot be unloaded. The
  images of the run have no such gap.
- `PROJECT_HANDOFF.md:175` says that the FAT parser refuses cyclic chains, and
  `UPDATE_REPORT.md:94` that a cyclic chain stops the read of a file. The guard of
  `fat_read_file` (`fs/fat.c:481`) only stops a walk of more than `cluster_count`
  clusters. With a table in which cluster 2 follows itself, a file of two clusters
  that starts there is read successfully, cluster 2 twice. A property that asks
  for an error fails in `disks` on such a disk, so `DiskIsTrue` does not speak of
  files on a circle; `EveryCallEnds` does.
- `PROJECT_HANDOFF.md:177` says that DMA memory is freed only after a read-back
  has proved that the engine has stopped and bus mastering is off. The AHCI driver
  does this (`PagesAreSafe` of `Ahci`). `disable_dma_after_failure`
  (`drivers/ata.c:303`) clears START without reading it back, drops the result of
  `pci_disable_ide_bus_master` and frees both pages. `PagesAreSafe` of `Ata` is
  therefore about what the driver orders, and leaves the bus-master bit out: in
  the model it may stay set with the pages free.
- The panic of `kernel/kernel.c:148`, "leaked physical memory", can also come with
  nothing lost once a command has moved blocks. After `run`, the blocks of the new
  process are missing from `expected_free` while it lives, so free blocks are below
  the baseline or differ from the count a pending restart waits for, 200 waits
  long. Growth of the heap has the same effect, and pages freed by a driver make
  the count too high for good. `OnlyAccountingPanics` allows these panics only
  then, and `EndedIsRestarted` promises a restart only before.
- The comment in `fs/persistent.c` on the write window says that FAT sectors
  cannot be reached through it. `vfs_journal_region_available` (`fs/vfs.c:102`)
  looks at the mounted volume only; a second FAT partition, or one whose mount
  failed, may overlap the region.

### Bounds

- `persistent_crash`: two data sectors, sequence numbers up to 3, two files, one
  built-in; five names, one of them invalid and one the self-test's. Two sectors
  are enough to have a committed, a prepared and an empty one behind each other
  in every order the scan tells apart; the log, the table and the sequence
  numbers all run out. The two ordinary names are symmetric.
- `ipc_ring`: three cells, broadcasts and two tasks, two lengths. Three cells
  give interior removals on both sides of a wrap.
- `process`: one worker of priority two, two processes, one restart, one
  process started by `run`, one message, one wake-up by the keyboard per tick. The
  queue fills, all processes can be dead or asleep at once, a slot is reused, and
  the restart overlaps with exits, with a process started by hand, with growth of
  the heap and with pages freed by a driver. `MaxKeys` bounds the wake-ups by the
  keyboard between two ticks, `MaxRuns` the uses of `run`; with the restarts they
  bound the exits.
- `memory`: two processes, two task slots, tables of nine pages, and all the
  interesting counts of free low and user frames. Growth of the heap crosses
  into a second page table.
- `heap`: three pages of seven units and three frames, requests of 0, 1, 5 and
  60 bytes and arrays of them. A page is split two or three ways, growth is
  refused for both reasons and fails half way, and a product of `kcalloc` wraps
  at `Word`.
- `interrupts`: two I/O APICs with three and two pins. The machines are a plain
  one and one for each deviation: without tables, disks, HPET or calibration;
  broken tables; each single register stuck; up to two of the MSI writes lost,
  in each layout; capability lists that end, loop or are malformed. On two of
  them up to five keys are pressed with a ring of three, so it wraps, fills and
  drops. Neither control nor alt is among the keys.
- `ahci`: two ports, two controllers, interrupt generations 1 and 2 (so the
  counter wraps), three controller generations.
- `ata`: four sectors, a window of two that starts at 1, requests of up to
  three, chunks of two: requests cross chunk and window boundaries.
- `disks`: volumes of three clusters of one and of two sectors, with every
  content of their table (so every cycle, every bad mark and every chain that
  leaves the volume), copies that differ in each entry, partition tables, and up
  to three failing reads, which is one more than a retry takes.

### Fairness

- `ProcessKernel`: weak fairness of the timer, because the tick is periodic
  hardware, and strong fairness of the event loop's steps. The loop can step
  only while it is the current task; a time slice (10 ms) is far longer than
  the few instructions of a step, so a loop scheduled again and again gets
  further. No fairness is assumed of user programs.
- `Interrupts`: weak fairness of the event loop and of the keyboard presenting a
  byte it has, and strong fairness of taking a keyboard interrupt: an interrupt
  that can be taken is taken before the next instruction. `KeysAreServed` is
  stated under the condition that ticks do not fill all of the time.
- `Ahci` and `Vfs`: weak fairness of the driver's steps, because each of its
  loops has a limit. None of the controller or the disk.

### Assumptions worth knowing

- `PersistentRamfs` takes from the ATA driver that a successful write is on the
  medium unless the fault "lost" happens; `Ata` checks that.
- `Ata` does so for a drive that shows BSY at the first status read after a
  command (`BusyAtOnce = TRUE`). `ata_write_sectors` waits 400 ns after its
  other commands but not after FLUSH CACHE (`drivers/ata.c:664`). With
  `BusyAtOnce = FALSE` and interrupts of the drive not in use,
  `AcknowledgedWriteIsSaved` fails: the sector is written and stored in the
  cache, FLUSH is issued, the poll reads the status of before the command (not
  busy, no error), and the write returns 1 with the cache not yet flushed.
  Whether a drive can do that is a question of its timing, so this is recorded
  as a hazard and not as a finding.
- The self-test of every boot writes and removes a file named `TEST`. A
  journaled file of that name is gone after a boot. `ReplayNeverRefuses` is
  stated for logs that do not name it, and `TableShowsAcknowledged` leaves that
  file out.
- `Interrupts`: keys are pressed only once the event loop runs. An edge that
  arrives while IRQ 1 is masked in the I/O APIC is lost, and `keyboard_init` does
  not read the byte that then waits in port 0x60. The first tick comes later than
  the check that the timer is programmed. Overrides do not put two lines on one
  pin.
- `MsiIsTransactional` is checked with up to two lost writes. `pci_msi_restore`
  goes on when its disabling write is lost, so a third loss could leave an
  enabled device with half of an address.
- `Ahci` starts with ports that the firmware has left stopped, so the stop at the
  beginning of a probe (`drivers/ahci.c:502`) cannot fail; later stops can.
- `Fat` keeps two things of the code that one may not expect, and so does the
  reference definition. The successor of a directory cluster is not compared with
  the number of clusters, only its sectors with the end of the volume, so sectors
  behind the last cluster may be read as a directory. A file marked read-only, hidden or system is
  listed but cannot be read (`kind = "marked"`).
- The sector of a copy of the table is computed in 32 bits in `fat_mount`
  (`fs/fat.c:353`). The run has `Word` larger than the disk. Error 7 of
  `fat_mount` cannot happen, because partition starts are below 2^32.

## 4. What is proved

Every theorem holds for all values of the constants that satisfy the named
assumptions of its module, which TLC evaluates in the runs.

### The journal (`PersistentRamfsProofs`)

From `RamfsConstants`, `JournalConstants` and `FaultsAreKnown`, so for every
number of data sectors, every limit of the sequence numbers, every set of names
and contents and every subset of the faults:

- `JournalInvariance`: `Spec => []JournalInv`;
- `Durability`: `Spec => []AcknowledgedIsDurable`. The committed records of a
  formatted log that scans are the acknowledged ones, followed by at most one
  in doubt;
- `AlwaysScans`: without torn sectors the log scans;
- `ImplementsLog`: `Spec => ImplementsDurableLog`. Each step maps to a step of
  `DurableLog` or leaves it alone;
- `TornLogStays`: `Spec => TornLogIsLeftAlone`;
- `ReplayAlwaysApplies`: `Spec => []ReplayNeverRefuses`;
- `TableFollowsLog`: `Spec => []TableShowsAcknowledged`.

Durability is not inductive as it stands. An append that reuses the slot of a
failed one could overwrite a committed record if its target were not where the
scan ends; and a record in doubt could be followed by another if the next append
were admitted. `JournalInv` adds what excludes this:

- while an append runs, its slot is where the scan ends, its number is newer
  than every committed one, and nothing is in doubt;
- after a failed append whose record is on disk (`InDoubt`), the next sequence
  number equals the last one in the log, so `AppendAdmits` refuses;
- without a valid superblock nothing was acknowledged and the journal is off;
- while `pformat` runs, all data sectors are empty.

`ScanUnique`, `PrepareKeepsScan` and `CommitAppends` say what rewriting the slot
behind the records does to a scan. One lemma for each action shows that it
preserves the invariant. The refinement needs in addition `CommandInv`: a command
that has passed its preflight can still be applied, the journal is off before the
boot has replayed it, and the log scans while a record is verified.

The last two theorems relate the table in memory to a replay, which is a recursion
over the records. The preflight of a command looks at the table, and the replay of
the next boot starts from the built-in files, so one has to know that the two
agree after every command, boot and failed append. `TableInv` (which TLC was made
to check on the run's instance before the proof) says so: while the journal is on,
the table is like the replay of the acknowledged records up to the file `TEST`;
and as long as no record names `TEST`, those records can be replayed and the one
in flight applied after them (`LogApplies`). The lemmas on `WriteFile` and
`RemoveFile` say that two tables that are alike admit the same records and stay
alike. What the recursion computes for a log one record longer is shown by taking
the least length at which the claim fails, as the provers cannot use the library's
induction theorems. `RamfsConstants` states what this rests on: the built-in names
are distinct, none of them is `TEST`, and they leave room for one file.

### The heap (`HeapProofs`)

From `HeapAssumption`: `HeapIsSound` (`Spec => []HeapInv`) and
`FreeSpaceAlwaysFound` (`Spec => []FreeSpaceIsFound`). `HeapInv` is inductive:
blocks are adjacent and linked both ways, no two free blocks are neighbours,
cookies and canaries are those of the current fields, callers hold disjoint
blocks with room for their requests, there is a last block, and no check has
panicked. The proof describes splitting, merging and growing as two changes of a
list (`Resized` and `Relinked`) and shows once for each what becomes of every
conjunct.

`BytesAlwaysAddUp` (`Spec => []BytesAddUp`) needs two more things. `used_bytes` is
a sum over the pointers that callers hold. `BySubsets` is an induction over
the subsets of a finite set; with it `TotalAdds` shows that the sum does not depend
on the order and grows by what is added. `UseStep` says that each call adds one
pointer, takes one away or leaves all alone, and changes `used_bytes`
accordingly. For the pages, `PagesStep` says that a call maps whole pages, each with
a frame of the pool, or gives back exactly those it got (`FramesFollow`).

### The AHCI driver (`AhciProofs`)

From `AhciAssumption`, for any number of ports and controllers and any limits of
the two generation counters: `AhciInvariance`, and from it

- `PagesStaySafe`: `Spec => []PagesAreSafe`;
- `ReadsDeliverOwnData`: `Spec => []DeliversOwnData`;
- `CompletionsAreOwn`: `Spec => []NoPhantomCompletion`;
- `AlwaysReady`: `Spec => []ReadyBetweenReads`.

None of the four is inductive. Whether a delivered sector came from the drive of
the boot depends on what the driver believed when it issued the READ, and a reset
in between may have put another drive there. `AhciInv` says in addition

- which port owns the pages at each point of a call, and that no other port has
  running engines with bases set (`PortInv`);
- which device the driver is at, and that it is the one being asked for
  (`DeviceInv`);
- that a device identified since the last controller reset still has its drive,
  except those the running recovery has not identified again yet (`DriveInv`,
  with the exceptions in `Unsure`);
- how far the recovery has come for each purpose of a command (`RecoveryInv`);
- what slot 0 and the bounce page hold between issue and judgement (`SlotInv`),
  and that interrupts are recorded only for a command that waits for them
  (`IrqInv`).

Stopping a port, resetting its link, selecting a port and resetting the controller
return a set of possible outcomes. A lemma for each says what all outcomes have
in common, and one lemma for each action uses them.

### The ATA driver (`AtaProofs`)

From the assumptions of `Ata`, for every disk, window, request and chunk size:
`AtaInvariance`, and from it `PagesAlwaysSafe`, `ReadsDeliver` and
`WritesAreSaved`. The last one is conditional: `BusyAtOnce =>
AcknowledgedWriteIsSaved`, for the reason given above. The heart of the invariant
is that a drive which has not failed is at the sector at which the driver is,
whatever the driver has missed; with it goes what the buffer, the bounce page and
the cache hold at each point of a request. `EngineInv` says that a started engine
is that of the DMA read which waits for it, so every way out of the wait must stop
it.

### The message queue (`MailboxProofs`, `IpcRingProofs`)

From `MailboxConstants` and `RingConstants`, for every capacity and set of tasks:

- `RingStaysInOrder`: `Spec => []RingInv`, which is inductive;
- `RingImplementsQueue`: `Spec => ImplementsQueue`. Each call on the ring maps to
  the same call on the plain queue of `IpcQueue`.

The two loops need an induction over the length of the queue. The provers cannot
use the induction theorems of the library, but the least element of a set of
numbers is within reach: `Induction` takes the least number at which a claim
fails, and `Recursion` shows in the same way that a recursive function exists
and satisfies its equation. With them `MailboxProofs` says what a purge
keeps (`PurgedIsPart`, `PurgesBoth`), and `IpcRingProofs` that after k iterations
of the purge loop the ring from tail to head reads as the queue with the mail among
its first messages removed (`PurgeStepReaches`).

### The task tables (`ProcessProofs`)

From `KernelConstants` and `MailboxConstants`, for any number of workers,
processes, slots, generations and restarts: `KernelInvariance`, and from it

- `IdsStayFresh`: `Spec => IdsAreFresh`;
- `SpacesStayOwned`: `Spec => []SpacesAreOwned`, a conjunct of `OwnershipInv`;
- `NoSchedulerPanic`: the panics for want of a runnable task, of an address
  space or of a process record cannot happen.

`KernelInv` adds the converse of ownership (an active record belongs to a live
task with its identifier and space), the shape of identifiers (generation and
slot), and that the event loop is always runnable and never up for reaping; this
last fact is why there is always a task to run.

On top of it `MailInvariance`, for every queue capacity, and

- `WakeupsAreNotLost`: `Spec => []NoLostWakeup`;
- `MailDiesWithItsTask`: `Spec => []MailPartiesLive`.

`MailInv` adds the type of the mail, and that a live task has a frame to be resumed
with and is not up for reaping. A receiver blocks only after it found nothing, and
a send wakes whom it addresses in the same step; what needs the proof is that
removing a message from the middle and purging never make another message
addressed to a sleeper appear, and that identifiers of tasks that ended never
come back.

### The supervisor (`SupervisionProofs`)

From the same assumptions and `RestartConstants`: `AccountInvariance`, and from it

- `OwnershipHolds`: `Spec => []OwnershipInv`;
- `SupervisorPanics`: `Spec => []OnlyAccountingPanics`.

`RestartConstants` says two things. A slot has more generations (2^24 - 1 in the
code) than there are restarts and processes started by hand. And `MaxKeys + 2`
waits for each of the processes that can end before a command moves blocks stay
within the limit, 200 in the code: for the four processes of the boot and four restarts,
up to 23 wake-ups by the keyboard in the 10 ms of a tick, more than the line of a
keyboard carries. The bound on the waits, which the theorem states as well, shows
that the limit is not reached by the scheduling alone; that a faster keyboard
could exhaust it is left open. `OwnershipHolds` does not depend on any of the
three commands being absent.

That blocks add up is not inductive, because the sum counts stacks, directories
and records, and each restart assumes that one of each is free. `AccountInv`
ties the three counts to the counters of the event loop: each process that ended
and was not started again leaves one record, one directory and one live task
less (`CountInv`); a stack is that of a live task or of the one task that waits to
be reaped (`StackInv`); what the loop has computed is at most out of date, and
once the comparison succeeds a restart has what it needs (`LoopInv`); and, until a
command moves blocks, each wait is paid for by an exit or a key (`WaitInv`).

### Only model-checked

- Liveness, which is out of the prover's reach.
- The folds over register writes in `Apic` and `PciMsi`, which every property of
  `Interrupts` rests on, and the chains of `Vfs` (`DiskIsTrue`).
- `AddressSpaces`, whose calls are long compositions of operators on nested
  tables.

## 5. Not modelled

- The legacy 32-bit paging backend. It has the same guards as the PAE one
  without NX. Also the caching of directory-pointer entries by the processor
  and the boot-time protection of the kernel image.
- ELF header validation and the random placement of images and stacks: images
  are what validation accepts, placement is any choice without overlap.
- Names as characters: short names of FAT entries, keyboard layouts, the parsing
  of commands. Register frames, stack canaries, serial output, counters that
  nothing reads.
- IDENTIFY and the admission of controllers in the ATA driver, PCI enumeration,
  the encoding of AHCI commands: decoded values are the initial state.
- ACPI, RTC, display, boot loader, E820: sequential code that runs once or has
  no lasting effect, with host tests.
- The race of `disable_dma_after_failure` (`drivers/ata.c`), which frees two
  frames with interrupts on, with the timer, which frees stacks. The models take
  calls of the frame allocator as atomic.
- Drives replaced on an idle AHCI port without a reset: the driver does not
  look, and the model does not let it happen.

## 6. Running it

    tlc -config MCPersistent_crash.cfg MCPersistentRamfs
    tlc -config MCIpcRing.cfg IpcRing
    tlc -config MCProcess.cfg ProcessKernel
    tlc -config MCMemory.cfg MCAddressSpaces
    tlc -config MCHeap.cfg Heap
    tlc -config MCInterrupts.cfg MCInterrupts
    tlc -config MCAhci.cfg Ahci
    tlc -config MCAta.cfg Ata
    tlc -config MCVfs.cfg MCVfs
    tlapm HeapProofs.tla

and `tlapm` on the other proof modules in the same way; each takes a few minutes.
The configurations of the violating runs have the name of the run after the
underscore (`MCPersistent_failed_append.cfg`, `MCProcess_leak.cfg`,
`MCMemory_stale.cfg`) and end with the trace.
