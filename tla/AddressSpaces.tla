--------------------------- MODULE AddressSpaces ---------------------------
(***************************************************************************)
(* Who owns which frame: the life of user processes (process/              *)
(* user_process.c, the loader of process/elf_loader.c, the task stacks of  *)
(* process/scheduler.c) beside the kernel's own use of the page tables     *)
(* (growth of the heap, the register window of the AHCI driver).           *)
(*                                                                         *)
(* Each action is one call made with interrupts off.  Spawning and the     *)
(* kernel's mappings run in the event-loop task, in the kernel's address   *)
(* space; an exit runs in the address space of the process that ends.      *)
(* The number of free frames is chosen initially, so that every allocation *)
(* of every call is the one that fails in some behaviour.                  *)
(***************************************************************************)
EXTENDS Paging

CONSTANTS
    ProcMax,        \* USER_PROCESS_MAX
    TaskMax,        \* SCHEDULER_MAX_TASKS less the kernel's own tasks
    PagesPerTable,  \* PAE_TABLE_ENTRIES
    StackPages,     \* SCHEDULER_STACK_PAGES
    Regions,        \* user stack regions: directory indices of quarter 0
    ImageIndex,     \* directory index at which images start
    Bases,          \* load biases dyn_bias_range may pick, in pages
    Images,         \* [valid, dyn : BOOLEAN, entry, segments : Seq([first, last, prot])]
    HeapStart,      \* pages the heap has when the shell starts
    HeapMax,        \* HEAP_MAX_SIZE in pages
    HeapGrowth,     \* page counts kmalloc asks expand_heap for
    DeviceNeighbours, \* pages of other devices in the AHCI window's table
    FreeLow, FreeUser \* how many frames are free when the shell starts

VARIABLES
    m,      \* the memory record of Pmm and Paging; m.panic is the message
            \* of the kernel_panic that stopped the machine, or "none"
    procs,  \* processes[]: process slot -> its record, active ones only
    stacks, \* task slot -> [pending, frames]: scheduler-owned kernel stacks
    heap,   \* mapped_bytes of the heap, in pages
    held    \* frames used by the DMA pages and by what is not modelled

vars == <<m, procs, stacks, heap, held>>

(* Virtual addresses.  Slot 0 of the task stacks is the event loop's. *)
StackVa(slot, k) == <<3, 0, slot * (StackPages + 1) + k>>
HeapVa(page) == <<3, 1 + page \div PagesPerTable, page % PagesPerTable>>
DeviceIndex == 1 + (HeapMax + PagesPerTable - 1) \div PagesPerTable
DeviceVa(page) == <<3, DeviceIndex, page>>
ImageVaInStackRegion(page) ==   \* a plausible slip: images start too low
    <<0, ImageIndex - 1 + page \div PagesPerTable, page % PagesPerTable>>
ImageVa(page) == <<0, ImageIndex + page \div PagesPerTable, page % PagesPerTable>>
UserStackVa(r) == <<0, r, 1>>
UserGuardVa(r) == <<0, r, 0>>

(* A device's register page: physical memory the allocator does not manage. *)
Mmio == -1

(* The DMA pages of the AHCI driver, which the kernel reaches through the  *)
(* identity map.                                                           *)
DmaFrame == KernelPdpt + 3

Panic(mem, why) == [mem EXCEPT !.panic = IF @ = "none" THEN why ELSE @]

-----------------------------------------------------------------------------
(* Kernel mappings. *)

(* Op on the addresses vas in turn, until one fails. *)
UntilFailure(Op(_, _), start, vas) ==
    FoldLeft(LAMBDA b, v : With(b, LAMBDA acc : IF acc.ok THEN Op(acc, v) ELSE acc),
             start, vas)

(* Unmapping and freeing the pages vas, in that order, as the cleanup      *)
(* paths do; a page that is not there is skipped.                          *)
UnmapAll(mem, vas) ==
    FoldLeft(LAMBDA b, v : With(b, LAMBDA n :
                 With(UnmapPage(n, v), LAMBDA u : FreeBlock(u.m, u.frame))), mem, vas)

(* One page of expand_heap or allocate_task_stack: a frame is allocated    *)
(* and mapped, or the pages mapped so far go again, last first.            *)
MapKernelPage(acc, va) ==
    With(AllocBlock(acc.m), LAMBDA a :
      With(MapPage(a.m, va, a.frame, FALSE, "rw"), LAMBDA mp :
        IF a.frame # NoFrame /\ mp.ok
        THEN [ok |-> TRUE, m |-> mp.m, vas |-> Append(acc.vas, va),
              frames |-> Append(acc.frames, a.frame)]
        ELSE [acc EXCEPT !.ok = FALSE,
                         !.m = UnmapAll(IF a.frame = NoFrame THEN a.m
                                        ELSE FreeBlock(mp.m, a.frame),
                                        Reverse(acc.vas))]))

MapKernelPages(mem, vas) ==
    UntilFailure(MapKernelPage, [ok |-> TRUE, m |-> mem, vas |-> <<>>, frames |-> <<>>], vas)

AllocateTaskStack(mem, slot) ==
    MapKernelPages(mem, [k \in 1 .. StackPages |-> StackVa(slot, k)])

(* expand_heap(n pages).  The block list of the heap is not modelled here. *)
ExpandHeap(mem, mapped, n) ==
    MapKernelPages(mem, [k \in 1 .. n |-> HeapVa(mapped + k - 1)])

(* Memory before anything but the identity map is set up. *)
BareMemory ==
    [used |-> {KernelPdpt, KernelPdpt + 1, KernelPdpt + 2, DmaFrame},
     owned |-> {}, mapped |-> {}, spaces |-> {}, cr3 |-> KernelPdpt, panic |-> "none",
     pdpts |-> KernelPdpt :> (0 :> KernelPdpt + 1),
     dirs |-> (KernelPdpt + 1) :>
                 [i \in KernelIndices |-> [table |-> KernelPdpt + 2, user |-> FALSE]],
     tables |-> (KernelPdpt + 2) :> (0 :> [frame |-> Mmio, user |-> FALSE, prot |-> "rw"])]

(* A plausible slip: the first process is made before the first kernel     *)
(* task, so that the stacks' page table is not yet there to be copied.     *)
BootMemoryBeforeTasks ==
    With(FoldSet(LAMBDA p, b : With(b, LAMBDA n : MapPage(n, DeviceVa(p), Mmio, FALSE, "rw").m),
                 BareMemory, {0} \cup DeviceNeighbours),
         LAMBDA devices : ExpandHeap(devices, 0, HeapStart).m)

(* What boot leaves: the identity map, the device windows, the heap, and   *)
(* the stack of a kernel task (slot 0).                                    *)
BootMemory ==
    With(FoldSet(LAMBDA p, b : With(b, LAMBDA n : MapPage(n, DeviceVa(p), Mmio, FALSE, "rw").m),
                 BareMemory, {0} \cup DeviceNeighbours),
         LAMBDA devices : With(ExpandHeap(devices, 0, HeapStart),
         LAMBDA h : AllocateTaskStack(h.m, 0).m))

(* Frames beyond the low and user ones left free are held by the rest. *)
Init ==
    /\ \E boot \in {BootMemory}, l \in FreeLow, u \in FreeUser :
          LET low == LowFrames \ boot.used
              user == UserFrames \ boot.used
          IN  /\ held = {DmaFrame} \cup {f \in low : Rank(low, f) >= l} \cup
                        {f \in user : Rank(user, f) >= u}
              /\ m = [boot EXCEPT !.used = @ \cup held]
    /\ procs = <<>>
    /\ stacks = <<>>
    /\ heap = HeapStart

-----------------------------------------------------------------------------
(* The ELF loader, in the active address space. *)

(* release_pages: the pages mapped so far go, in the order they came. *)
ReleasePages(mem, vas) ==
    IF \A k \in DOMAIN vas : IsMapped(mem, vas[k]) THEN UnmapAll(mem, vas)
    ELSE Panic(mem, "ELF mapping cleanup failed")

LoadFails(acc, mem) ==
    [acc EXCEPT !.ok = FALSE, !.m = With(mem, LAMBDA n : ReleasePages(n, acc.vas))]

(* One page of elf_load_image's mapping loop. *)
LoadPage(acc, va) ==
    With(AllocUser(acc.m), LAMBDA a :
      IF IsMapped(acc.m, va) \/ a.frame = NoFrame THEN LoadFails(acc, acc.m)
      ELSE With(MapPage(a.m, va, a.frame, TRUE, "rw"), LAMBDA mp :
             IF ~mp.ok THEN LoadFails(acc, FreeBlock(mp.m, a.frame))
             ELSE [ok |-> TRUE, m |-> mp.m, vas |-> Append(acc.vas, va)]))

ProtectLoaded(acc, va, prot) ==
    With(ProtectPage(acc.m, va, TRUE, prot), LAMBDA p :
      IF p.ok THEN [acc EXCEPT !.m = p.m] ELSE LoadFails(acc, acc.m))

(* One PT_LOAD segment: map all its pages writable, copy, then protect. *)
LoadSegment(acc, seg, bias) ==
    LET vas == [k \in 1 .. (seg.last - seg.first + 1) |->
                  ImageVa(bias + seg.first + k - 1)]
    IN  With(UntilFailure(LoadPage, acc, vas), LAMBDA mapped :
          UntilFailure(LAMBDA b, va : ProtectLoaded(b, va, seg.prot), mapped, vas))

(* elf_load_image: elf_validate_image refuses an invalid image outright;   *)
(* base and end are the bounds of all segments.                            *)
LoadImage(mem, img, bias) ==
    LET first == Min({img.segments[k].first : k \in DOMAIN img.segments})
        last == Max({img.segments[k].last : k \in DOMAIN img.segments})
    IN  IF ~img.valid THEN [ok |-> FALSE, m |-> mem, base |-> 0, end |-> 0]
        ELSE With(UntilFailure(LAMBDA acc, seg : LoadSegment(acc, seg, bias),
                               [ok |-> TRUE, m |-> mem, vas |-> <<>>], img.segments),
                  LAMBDA l : [ok |-> l.ok, m |-> l.m,
                              base |-> bias + first, end |-> bias + last + 1])

(* elf_unload_image: every page of base..end must be mapped. *)
UnloadImage(mem, base, end) ==
    LET vas == [k \in 1 .. (end - base) |-> ImageVa(base + k - 1)] IN
    IF \E k \in DOMAIN vas : ~IsMapped(mem, vas[k]) THEN [ok |-> FALSE, m |-> mem]
    ELSE [ok |-> TRUE, m |-> UnmapAll(mem, vas)]

-----------------------------------------------------------------------------
(* Processes. *)

(* The test of scheduler_add_user_task_in_space, made in the new space. *)
UserContextValid(mem, space, entry, r) ==
    /\ MappedIn(mem, space, entry)
    /\ Pte(mem, space, entry).user /\ Pte(mem, space, entry).prot = "rx"
    /\ MappedIn(mem, space, UserStackVa(r))
    /\ Pte(mem, space, UserStackVa(r)).user /\ Pte(mem, space, UserStackVa(r)).prot = "rw"

(* scheduler_add_user_task_in_space: a free task slot and a kernel stack.  *)
(* Slot 0 answers a refusal.                                               *)
AddUserTask(mem, space, entry, r) ==
    LET slots == (1 .. TaskMax) \ DOMAIN stacks IN
    IF slots = {} \/ ~UserContextValid(mem, space, entry, r)
    THEN [slot |-> 0, m |-> mem, frames |-> <<>>]
    ELSE With(AllocateTaskStack(mem, Min(slots)), LAMBDA a :
           [slot |-> IF a.ok THEN Min(slots) ELSE 0, m |-> a.m, frames |-> a.frames])

(* The address space goes once the user's mappings are gone. *)
LeaveAndDestroy(mem, space) ==
    With(DestroySpace([mem EXCEPT !.cr3 = KernelPdpt], space), LAMBDA d :
      IF d.ok THEN d.m ELSE Panic(d.m, "destroy user address space"))

(* The stack page comes out of the active space. *)
DropUserStack(mem, r, frame) ==
    With(UnmapPage(mem, UserStackVa(r)), LAMBDA u :
      IF u.frame # frame THEN Panic(mem, "user stack ownership")
      ELSE FreeBlock(u.m, frame))

UnloadOrPanic(mem, base, end) ==
    With(UnloadImage(mem, base, end), LAMBDA u :
      IF u.ok THEN u.m ELSE Panic(mem, "unload user ELF image"))

(* A panic stops the machine: Op is the rest of the call. *)
Unpaniced(x, Op(_)) == With(x, LAMBDA v : IF v.panic = "none" THEN Op(v) ELSE v)

(* The cleanup label of user_process_spawn_locked.  stack_mapped says that *)
(* the stack page is in the space.                                         *)
SpawnCleanup(mem, space, r, frame, load) ==
    Unpaniced(IF load.ok
              THEN UnloadOrPanic([mem EXCEPT !.cr3 = space], load.base, load.end)
              ELSE mem, LAMBDA unloaded :
    Unpaniced(IF MappedIn(unloaded, space, UserStackVa(r))
              THEN DropUserStack([unloaded EXCEPT !.cr3 = space], r, frame)
              ELSE FreeBlock(unloaded, frame), LAMBDA dropped :
    LeaveAndDestroy(dropped, space)))

NotLoaded == [ok |-> FALSE, base |-> 0, end |-> 0]

(* user_process_spawn_locked, called by the event loop and the shell.  The *)
(* region scan starts at a random region, so any free one may be taken.    *)
Spawn(img, r, bias) ==
    LET free == (1 .. ProcMax) \ DOMAIN procs IN
    /\ m.panic = "none" /\ m.cr3 = KernelPdpt
    /\ free # {}
    /\ \A p \in DOMAIN procs : procs[p].region # r
    /\ UNCHANGED <<heap, held>>
    /\ \E c \in {CreateSpace(m)} :
       /\ c.space # NoFrame
       /\ \E a \in {AllocUser([c.m EXCEPT !.cr3 = c.space])} :
          \E mp \in {MapPage(a.m, UserStackVa(r), a.frame, TRUE, "rw")} :
          \E l \in {IF mp.ok THEN LoadImage(mp.m, img, bias) ELSE mp @@ NotLoaded} :
          \E t \in {IF l.ok /\ ~IsMapped(l.m, UserGuardVa(r))
                    THEN AddUserTask([l.m EXCEPT !.cr3 = KernelPdpt], c.space,
                                     ImageVa(bias + img.entry), r)
                    ELSE [slot |-> 0, m |-> l.m, frames |-> <<>>]} :
            IF t.slot = 0
            THEN /\ m' = SpawnCleanup(t.m, c.space, r, a.frame, l)
                 /\ UNCHANGED <<procs, stacks>>
            ELSE /\ m' = t.m
                 /\ procs' = (Min(free) :> [space |-> c.space, base |-> l.base,
                                             end |-> l.end, region |-> r,
                                             frame |-> a.frame, task |-> t.slot]) @@ procs
                 /\ stacks' = (t.slot :> [pending |-> FALSE, frames |-> t.frames]) @@ stacks

(* user_process_reap_task for process p, in p's address space. *)
ReapProcess(p) ==
    Unpaniced(UnloadOrPanic(m, p.base, p.end), LAMBDA unloaded :
    Unpaniced(IF \/ ~IsMapped(unloaded, UserStackVa(p.region))
                 \/ IsMapped(unloaded, UserGuardVa(p.region))
              THEN Panic(unloaded, "user stack mapping disappeared")
              ELSE DropUserStack(unloaded, p.region, p.frame), LAMBDA dropped :
    LeaveAndDestroy(dropped, p.space)))

(* reap_task_stack, in the kernel's address space. *)
ReapTaskStack(slot, mem) ==
    IF IsMapped(mem, StackVa(slot, 0)) THEN Panic(mem, "task stack guard is mapped")
    ELSE IF \E k \in 1 .. StackPages :
               \/ ~IsMapped(mem, StackVa(slot, k))
               \/ Pte(mem, mem.cr3, StackVa(slot, k)).frame # stacks[slot].frames[k]
    THEN Panic(mem, "task stack mapping ownership mismatch")
    ELSE UnmapAll(mem, [k \in 1 .. StackPages |-> StackVa(slot, k)])

Pending == {t \in DOMAIN stacks : stacks[t].pending}

(* reap_pending_stacks, then the switch to the space of the next task. *)
ReapAndSwitch(mem, next) ==
    Unpaniced(FoldSet(LAMBDA t, b : Unpaniced(b, LAMBDA n : ReapTaskStack(t, n)),
                      [mem EXCEPT !.cr3 = KernelPdpt], Pending),
              LAMBDA reaped : SwitchSpace(reaped, next).m)

LiveStacks == [t \in DOMAIN stacks \ Pending |-> stacks[t]]

(* A user task ends: its process is reaped at once, its kernel stack is    *)
(* left pending because the switch away still runs on it.                  *)
Exit(p, next) ==
    /\ m.panic = "none" /\ m.cr3 = procs[p].space
    /\ m' = Unpaniced(ReapProcess(procs[p]), LAMBDA n : ReapAndSwitch(n, next))
    /\ procs' = Drop(procs, p)
    /\ stacks' = [LiveStacks EXCEPT ![procs[p].task].pending = TRUE]
    /\ UNCHANGED <<heap, held>>

(* schedule_from_frame: any runnable task may be next. *)
Schedule(next) ==
    /\ m.panic = "none"
    /\ m' = ReapAndSwitch(m, next)
    /\ stacks' = LiveStacks
    /\ UNCHANGED <<procs, heap, held>>

(* kmalloc growing the heap, in a kernel task. *)
HeapGrow(n) ==
    /\ m.panic = "none" /\ m.cr3 = KernelPdpt
    /\ heap + n <= HeapMax
    /\ \E e \in {ExpandHeap(m, heap, n)} :
          /\ m' = e.m
          /\ heap' = IF e.ok THEN heap + n ELSE heap
    /\ UNCHANGED <<procs, stacks, held>>

(* disable_driver of the AHCI driver during a read the shell asked for:    *)
(* release_dma_pages and unmap_register_space.                             *)
DeviceUnmap ==
    /\ m.panic = "none" /\ m.cr3 = KernelPdpt
    /\ DmaFrame \in held
    /\ m' = UnmapPage(FreeBlock(m, DmaFrame), DeviceVa(0)).m
    /\ held' = held \ {DmaFrame}
    /\ UNCHANGED <<procs, stacks, heap>>

Spaces == {KernelPdpt} \cup {procs[p].space : p \in DOMAIN procs}

Next ==
    \/ \E img \in Images, r \in Regions :
          \E bias \in IF img.dyn THEN Bases ELSE {0} : Spawn(img, r, bias)
    \/ \E p \in DOMAIN procs : \E next \in Spaces \ {procs[p].space} : Exit(p, next)
    \/ \E next \in Spaces : Schedule(next)
    \/ \E n \in HeapGrowth : HeapGrow(n)
    \/ DeviceUnmap

Spec == Init /\ [][Next]_vars

-----------------------------------------------------------------------------
(* What the page tables reach. *)

Entries(pdpt) == UNION {{q} \X DOMAIN DirOf(m, pdpt, q) : q \in DOMAIN m.pdpts[pdpt]}

DirFrames(pdpt) == {m.pdpts[pdpt][q] : q \in DOMAIN m.pdpts[pdpt]}

TableFrames(pdpt) == {TableFrame(m, pdpt, e) : e \in Entries(pdpt)}

Leaves(t) == {m.tables[t][p].frame : p \in DOMAIN m.tables[t]} \ {Mmio}

(* <<space, table, page>> of every user page. *)
UserPlaces ==
    UNION {UNION {{<<s, t, p>> : p \in {x \in DOMAIN m.tables[t] : m.tables[t][x].user}} :
                  t \in TableFrames(s) \cap DOMAIN m.tables} : s \in DOMAIN m.pdpts}

(* Every part of the state has its type, and the record of an active       *)
(* process names a registered space and a live task stack.                 *)
TypeOK ==
    /\ m.used \subseteq Frames /\ m.owned \subseteq m.used /\ m.mapped \subseteq m.owned
    /\ m.spaces \subseteq LowFrames /\ IsValidSpace(m, m.cr3)
    /\ DOMAIN m.pdpts = {KernelPdpt} \cup m.spaces
    /\ DOMAIN procs \subseteq 1 .. ProcMax
    /\ \A p \in DOMAIN procs :
          /\ procs[p].space \in m.spaces /\ procs[p].region \in Regions
          /\ procs[p].task \in DOMAIN stacks /\ ~stacks[procs[p].task].pending
    /\ DOMAIN stacks \subseteq 1 .. TaskMax
    /\ heap \in HeapStart .. HeapMax

(* No cleanup path finds the ownership it recorded contradicted by the     *)
(* page tables: none of the kernel_panic calls of user_process.c,          *)
(* elf_loader.c and the stack reaping of scheduler.c is reached, however   *)
(* spawns, failures, exits and kernel mappings interleave.                 *)
CleanupNeverPanics == m.panic = "none"

(* No frame leaks and none has two uses: what the allocator counts as used *)
(* is what is held, the three levels of tables of the registered spaces,   *)
(* and the pages in them, each once; every directory is private to one     *)
(* space, and a table shared by two spaces is one of the kernel's.  The    *)
(* free-block accounting of kernel_process_events rests on this.           *)
FramesAccounted ==
    LET dirs == UNION {DirFrames(s) : s \in DOMAIN m.pdpts}
        tabs == UNION {TableFrames(s) : s \in DOMAIN m.pdpts}
        leaves == UNION {Leaves(t) : t \in tabs}
        parts == <<held, DOMAIN m.pdpts, dirs, tabs, leaves>>
    IN  /\ DOMAIN m.dirs = dirs /\ DOMAIN m.tables = tabs
        /\ m.used = UNION {parts[k] : k \in 1 .. 5}
        /\ \A j, k \in 1 .. 5 : j # k => parts[j] \cap parts[k] = {}
        /\ \A s, u \in DOMAIN m.pdpts : s # u =>
              /\ DirFrames(s) \cap DirFrames(u) = {}
              /\ TableFrames(s) \cap TableFrames(u) \subseteq TableFrames(KernelPdpt)
        /\ \A t, u \in tabs : t # u => Leaves(t) \cap Leaves(u) = {}

(* A user frame is mapped in one page of one address space, the bit that   *)
(* pmm_claim_user_block sets says so exactly, and the kernel's space has   *)
(* no user page.                                                           *)
MappedOnce ==
    /\ m.mapped = {m.tables[x[2]][x[3]].frame : x \in UserPlaces}
    /\ Cardinality(UserPlaces) = Cardinality(m.mapped)
    /\ \A x \in UserPlaces : x[1] # KernelPdpt

(* The ownership of physical memory: every frame has the one use that the  *)
(* records of the kernel give it, and two processes never share a page.    *)
FramesHaveOneUse == TypeOK /\ FramesAccounted /\ MappedOnce

(* An interrupt in user mode pushes its frame on the task's kernel stack   *)
(* through the user's own page tables: in the address space of every       *)
(* process every page of its kernel stack is mapped to the frame the       *)
(* scheduler allocated, and the guard page below is not.                   *)
KernelStackReachable ==
    \A p \in DOMAIN procs :
        /\ \A k \in 1 .. StackPages :
              /\ MappedIn(m, procs[p].space, StackVa(procs[p].task, k))
              /\ Pte(m, procs[p].space, StackVa(procs[p].task, k)).frame
                    = stacks[procs[p].task].frames[k]
        /\ ~MappedIn(m, procs[p].space, StackVa(procs[p].task, 0))

(* A call that fails leaves no trace: a step that adds no process, stack,  *)
(* or heap page and gives up no device changes at most the active space.   *)
(* This is the cleanup of user_process_spawn_locked, elf_load_image,       *)
(* paging_create_address_space, allocate_task_stack and expand_heap for    *)
(* every allocation that can be the one to fail.                           *)
FailuresLeaveNoTrace ==
    [][UNCHANGED <<procs, stacks, heap, held>> => m' = [m EXCEPT !.cr3 = m'.cr3]]_vars

(* Every successful spawn of a one-page image takes the same number of     *)
(* blocks, whatever was spawned, ended or mapped before: the self-test of  *)
(* kernel_main ("User process allocation cost is inconsistent") and the    *)
(* baseline of kernel_process_events assume it.                            *)
SpawnCost == Cardinality(DOMAIN m.pdpts[KernelPdpt]) + 5 + StackPages

SpawnCostIsConstant ==
    [][\A p \in DOMAIN procs' \ DOMAIN procs :
          procs'[p].end = procs'[p].base + 1
            => FreeBlocks(m) - FreeBlocks(m') = SpawnCost]_vars
=============================================================================
