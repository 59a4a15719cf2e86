-------------------------------- MODULE Heap --------------------------------
(***************************************************************************)
(* The kernel heap of memory/heap.c: a doubly linked list of blocks in a   *)
(* window that grows page by page.  kmalloc takes the first free block     *)
(* that is large enough, splits it, and grows the window when there is     *)
(* none; kfree merges with both neighbours.  Every call runs with          *)
(* interrupts off, so each is one step.                                    *)
(*                                                                         *)
(* Addresses and capacities are counted in units of HEAP_ALIGNMENT from    *)
(* HEAP_START, requests in bytes.  A block is known by the address of its  *)
(* header; only the headers that are on the list are kept.  The list is    *)
(* in address order (HeapInv), so a walk along the next pointers is        *)
(* written as a scan in address order.  The XOR cookie of a header is the  *)
(* pair of the fields it mixes, and the canary behind the bytes of the     *)
(* caller is a copy of the cookie.                                         *)
(***************************************************************************)
EXTENDS Integers, FiniteSets, FiniteSetsExt

CONSTANTS
  UnitBytes,    \* HEAP_ALIGNMENT
  CanaryBytes,  \* the word behind the bytes of the caller
  HeaderUnits,  \* sizeof(struct heap_block)
  PageUnits,    \* PAGE_SIZE
  MaxPages,     \* HEAP_MAX_SIZE
  Word,         \* 2^32, where the product in kcalloc wraps
  PoolFrames,   \* frames the physical memory manager can give to the heap
  Sizes,        \* the requests of the callers
  Counts        \* the element counts of kcalloc

ASSUME HeapAssumption ==
  /\ {UnitBytes, CanaryBytes, HeaderUnits, MaxPages, Word} \subseteq Nat \ {0}
  /\ PageUnits \in Nat /\ PageUnits > HeaderUnits
  /\ PoolFrames \in Nat
  /\ Sizes \subseteq Nat /\ Counts \subseteq Nat

VARIABLES
  blocks,       \* the headers on the list, by address
  mapped,       \* mapped_bytes, in units
  used,         \* used_bytes
  initialized,
  window,       \* the pages of the heap window that are mapped
  pool,         \* frames left
  live,         \* what the callers hold: pointer -> bytes they asked for
  panicked

vars == <<blocks, mapped, used, initialized, window, pool, live, panicked>>

Null == -1

Units(bytes) == (bytes + UnitBytes - 1) \div UnitBytes

(* required_capacity: the request and its canary, aligned. *)
Need(size) == Units(size + CanaryBytes)

Pages(units) == (units + PageUnits - 1) \div PageUnits

(* refresh_block_cookie. *)
Cookie(b) == <<b.capacity, b.requested>>
Fresh(b) == [b EXCEPT !.cookie = <<b.capacity, b.requested>>]

FreeHeader(capacity, previous, next) ==
  [capacity |-> capacity, requested |-> 0, cookie |-> <<capacity, 0>>,
   canary |-> <<0, 0>>, previous |-> previous, next |-> next, free |-> TRUE]

(* A header with other fields and its cookie refreshed. *)
Resized(b, capacity, next) == Fresh([b EXCEPT !.capacity = capacity, !.next = next])
Relinked(b, previous) == Fresh([b EXCEPT !.previous = previous])

Put(bs, a, b) == [x \in DOMAIN bs \cup {a} |-> IF x = a THEN b ELSE bs[x]]
Drop(bs, a) == [x \in DOMAIN bs \ {a} |-> bs[x]]

(* block_is_valid. *)
IsValid(bs, top, a) ==
  /\ a \in DOMAIN bs
  /\ a + HeaderUnits + bs[a].capacity <= top
  /\ bs[a].cookie = Cookie(bs[a])

End(bs, a) == a + HeaderUnits + bs[a].capacity

-----------------------------------------------------------------------------
(* expand_heap, after its pages are mapped: the last block grows if it is  *)
(* free, otherwise a new one is appended.                                  *)
Last(bs) == CHOOSE a \in DOMAIN bs : bs[a].next = Null

Appended(bs, top, added) ==
  IF DOMAIN bs = {} THEN Put(bs, 0, FreeHeader(added - HeaderUnits, Null, Null))
  ELSE LET last == Last(bs)
       IN  IF bs[last].free
           THEN Put(bs, last, Resized(bs[last], bs[last].capacity + added, Null))
           ELSE Put(Put(bs, last, Resized(bs[last], bs[last].capacity, top)),
                    top, FreeHeader(added - HeaderUnits, last, Null))

(* The walk to the last block: a header that is not valid, or a next       *)
(* pointer that does not go up, is a panic.                                *)
ListIsSound(bs, top) ==
  \A a \in DOMAIN bs : /\ IsValid(bs, top, a)
                       /\ bs[a].next # Null => bs[a].next > a

(* The first block on the list that is free and large enough. *)
Fitting(bs, capacity) ==
  {a \in DOMAIN bs : bs[a].free /\ bs[a].capacity >= capacity}

FindFree(bs, capacity) ==
  CHOOSE a \in Fitting(bs, capacity) : \A b \in Fitting(bs, capacity) : a <= b

(* split_block: the remainder becomes a free block if a header and one     *)
(* unit fit into it.                                                       *)
Split(bs, a, capacity) ==
  IF bs[a].capacity < capacity + HeaderUnits + 1 THEN bs
  ELSE LET rest == a + HeaderUnits + capacity
           next == bs[a].next
           cut  == Put(Put(bs, a, Resized(bs[a], capacity, rest)),
                       rest, FreeHeader(bs[a].capacity - capacity - HeaderUnits,
                                        a, next))
       IN  IF next = Null THEN cut
           ELSE Put(cut, next, Relinked(bs[next], rest))

(* The rest of kmalloc: the block is taken, its cookie refreshed and the   *)
(* canary written.                                                         *)
Taken(bs, a, size) ==
  Put(bs, a, [bs[a] EXCEPT !.requested = size, !.free = FALSE,
                           !.cookie = <<bs[a].capacity, size>>,
                           !.canary = <<bs[a].capacity, size>>])

(* Mutant of Absorb: the block behind keeps pointing at the header that is *)
(* gone.                                                                   *)
AbsorbForgetsBackLink(bs, a) ==
  LET n == bs[a].next
  IN  Put(Drop(bs, n), a,
          Resized(bs[a], bs[a].capacity + HeaderUnits + bs[n].capacity, bs[n].next))

(* merge_with_next, once it has decided to merge. *)
Absorb(bs, a) ==
  LET n    == bs[a].next
      nn   == bs[n].next
      one  == Put(Drop(bs, n), a,
                  Resized(bs[a], bs[a].capacity + HeaderUnits + bs[n].capacity, nn))
  IN  IF nn = Null THEN one
      ELSE Put(one, nn, Relinked(bs[nn], a))

CanAbsorb(bs, a) == bs[a].next # Null /\ bs[bs[a].next].free

MergeNext(bs, a) == IF CanAbsorb(bs, a) THEN Absorb(bs, a) ELSE bs

(* The checks of merge_with_next that end in kernel_panic. *)
MergePanics(bs, top, a) ==
  /\ bs[a].next # Null
  /\ \/ ~IsValid(bs, top, bs[a].next)
     \/ bs[bs[a].next].free /\ End(bs, a) # bs[a].next

-----------------------------------------------------------------------------
NoBlocks == [a \in {} |-> FreeHeader(0, Null, Null)]

Init ==
  /\ blocks = NoBlocks
  /\ mapped = 0
  /\ used = 0
  /\ initialized = FALSE
  /\ window = {}
  /\ pool = PoolFrames
  /\ live = [p \in {} |-> 0]
  /\ panicked = FALSE

kernel_panic ==
  /\ panicked' = TRUE
  /\ UNCHANGED <<blocks, mapped, used, initialized, window, pool, live>>

NewPages(count) == {mapped \div PageUnits + k : k \in 0 .. count - 1}

ExpandRefused(units) ==
  \/ units = 0
  \/ Pages(units) * PageUnits > MaxPages * PageUnits - mapped

(* Mutant of RolledBack: the page mapped first stays. *)
RolledBackShort(count) == {mapped \div PageUnits + k : k \in 1 .. count - 1}

(* rollback_pages: the pages that a failed growth unmaps and frees. *)
RolledBack(count) == NewPages(count)

(* The frames run out, or a page cannot be mapped, after got pages. *)
GrowFails(units) ==
  \E got \in 0 .. Pages(units) - 1 :
    /\ got <= pool
    /\ window' = (window \cup NewPages(got)) \ RolledBack(got)
    /\ pool' = pool - got
                 + Cardinality((window \cup NewPages(got)) \cap RolledBack(got))

GrowSucceeds(units) ==
  /\ Pages(units) <= pool
  /\ window' = window \cup NewPages(Pages(units))
  /\ pool' = pool - Pages(units)
  /\ mapped' = mapped + Pages(units) * PageUnits

(* heap_init: the first page. *)
heap_init ==
  /\ ~initialized
  /\ \/ GrowFails(PageUnits) /\ UNCHANGED <<blocks, mapped, initialized>>
     \/ /\ GrowSucceeds(PageUnits)
        /\ blocks' = Appended(blocks, mapped, PageUnits)
        /\ initialized' = TRUE
  /\ UNCHANGED <<used, live, panicked>>

(* find_free_block panics on the first header it passes that is not valid. *)
ScanPanics(bs, top, capacity) ==
  \E a \in DOMAIN bs :
    /\ ~IsValid(bs, top, a)
    /\ Fitting(bs, capacity) # {} => a <= FindFree(bs, capacity)

(* kmalloc hands out block a of the list bs for size bytes; the caller     *)
(* takes it for want bytes.                                                *)
HandOut(bs, size, want) ==
  LET a == FindFree(bs, Need(size))
  IN  /\ blocks' = Taken(Split(bs, a, Need(size)), a, size)
      /\ used' = used + size
      /\ live' = Put(live, a + HeaderUnits, want)

IllegalSize(size) ==
  \/ ~initialized
  \/ size = 0
  \/ size > MaxPages * PageUnits * UnitBytes - CanaryBytes - UnitBytes

Kmalloc(size, want) ==
  \/ IllegalSize(size) /\ UNCHANGED vars
  \/ /\ ~IllegalSize(size)
     /\ ScanPanics(blocks, mapped, Need(size))
     /\ kernel_panic
  \/ /\ ~IllegalSize(size)
     /\ Fitting(blocks, Need(size)) # {}
     /\ ~ScanPanics(blocks, mapped, Need(size))
     /\ HandOut(blocks, size, want)
     /\ UNCHANGED <<mapped, initialized, window, pool, panicked>>
  \/ /\ ~IllegalSize(size)
     /\ Fitting(blocks, Need(size)) = {}
     /\ ~ScanPanics(blocks, mapped, Need(size))
     /\ \/ ExpandRefused(Need(size) + HeaderUnits) /\ UNCHANGED vars
        \/ /\ ~ExpandRefused(Need(size) + HeaderUnits)
           /\ GrowFails(Need(size) + HeaderUnits)
           /\ UNCHANGED <<blocks, mapped, used, initialized, live, panicked>>
        \/ /\ ~ExpandRefused(Need(size) + HeaderUnits)
           /\ GrowSucceeds(Need(size) + HeaderUnits)
           /\ LET grown == Appended(blocks, mapped, mapped' - mapped)
              IN  \/ /\ ~ListIsSound(blocks, mapped')
                     /\ panicked' = TRUE
                     /\ UNCHANGED <<blocks, used, live>>
                  \/ /\ ListIsSound(blocks, mapped')
                     /\ Fitting(grown, Need(size)) # {}
                     /\ HandOut(grown, size, want)
                     /\ UNCHANGED panicked
                  \/ /\ ListIsSound(blocks, mapped')
                     /\ Fitting(grown, Need(size)) = {}
                     /\ blocks' = grown
                     /\ UNCHANGED <<used, live, panicked>>
           /\ UNCHANGED initialized

kmalloc(size) == ~panicked /\ Kmalloc(size, size)

kcalloc(count, size) ==
  /\ ~panicked
  /\ IF count # 0 /\ size > (Word - 1) \div count
     THEN UNCHANGED vars
     ELSE Kmalloc((count * size) % Word, count * size)

(* The checks of kfree on the pointer and its header. *)
FreePanics(p) ==
  \/ p < HeaderUnits \/ p >= mapped
  \/ ~IsValid(blocks, mapped, p - HeaderUnits)
  \/ blocks[p - HeaderUnits].free
  \/ Need(blocks[p - HeaderUnits].requested) > blocks[p - HeaderUnits].capacity
  \/ blocks[p - HeaderUnits].canary # blocks[p - HeaderUnits].cookie

(* The release in kfree; a canary matters only while its block is in use. *)
Released(bs, a) ==
  Put(bs, a, FreeHeader(bs[a].capacity, bs[a].previous, bs[a].next))

(* Mutant of kfree: only the block behind is merged. *)
kfreeForwardOnly(p) ==
  LET a == p - HeaderUnits
      released == Released(blocks, a)
  IN  /\ ~panicked
      /\ p \in DOMAIN live
      /\ IF FreePanics(p) \/ MergePanics(released, mapped, a) THEN kernel_panic
         ELSE /\ blocks' = MergeNext(released, a)
              /\ used' = used - blocks[a].requested
              /\ live' = Drop(live, p)
              /\ UNCHANGED <<mapped, initialized, window, pool, panicked>>

kfree(p) ==
  LET a        == p - HeaderUnits
      released == Released(blocks, a)
      forward  == MergeNext(released, a)
      before   == forward[a].previous
  IN  /\ ~panicked
      /\ p \in DOMAIN live
      /\ IF \/ FreePanics(p)
            \/ MergePanics(released, mapped, a)
            \/ /\ before # Null
               /\ \/ ~IsValid(forward, mapped, before)
                  \/ forward[before].free /\ MergePanics(forward, mapped, before)
         THEN kernel_panic
         ELSE /\ blocks' = IF before # Null /\ forward[before].free
                           THEN MergeNext(forward, before) ELSE forward
              /\ used' = used - blocks[a].requested
              /\ live' = Drop(live, p)
              /\ UNCHANGED <<mapped, initialized, window, pool, panicked>>

Next ==
  \/ heap_init
  \/ \E size \in Sizes : kmalloc(size)
  \/ \E count \in Counts, size \in Sizes : kcalloc(count, size)
  \/ \E p \in DOMAIN live : kfree(p)

Spec == Init /\ [][Next]_vars

-----------------------------------------------------------------------------
Block ==
  [capacity : Nat, requested : Nat, cookie : Nat \X Nat, canary : Nat \X Nat,
   previous : Nat \cup {Null}, next : Nat \cup {Null}, free : BOOLEAN]

Headers(bs) == DOMAIN bs \subseteq Nat /\ \A a \in DOMAIN bs : bs[a] \in Block

TypeOK ==
  /\ Headers(blocks)
  /\ blocks = [a \in DOMAIN blocks |-> blocks[a]]
  /\ mapped \in Nat
  /\ used \in Int
  /\ initialized \in BOOLEAN
  /\ pool \in Nat
  /\ panicked \in BOOLEAN

(* The links: each block ends where the next one begins, the last one      *)
(* where the window ends, and the back links agree.                        *)
Linked(bs, top) ==
  \A a \in DOMAIN bs :
    /\ End(bs, a) <= top
    /\ bs[a].next = Null <=> End(bs, a) = top
    /\ bs[a].next # Null =>
         /\ bs[a].next = End(bs, a)
         /\ bs[a].next \in DOMAIN bs
         /\ bs[bs[a].next].previous = a
    /\ bs[a].previous = Null <=> a = 0
    /\ bs[a].previous # Null =>
         /\ bs[a].previous \in DOMAIN bs
         /\ bs[bs[a].previous].next = a

(* Blocks never overlap. *)
Apart(bs) == \A a, b \in DOMAIN bs : a < b => End(bs, a) <= b

(* Two free blocks are never neighbours: kfree and expand_heap have merged *)
(* them.                                                                   *)
Merged(bs) ==
  \A a, b \in DOMAIN bs : ~(bs[a].free /\ bs[b].free /\ End(bs, a) = b)

(* A header carries its cookie, a block in use its canary and its bytes.   *)
Marked(bs) ==
  \A a \in DOMAIN bs :
    /\ bs[a].cookie = Cookie(bs[a])
    /\ ~bs[a].free =>
         /\ bs[a].canary = bs[a].cookie
         /\ Need(bs[a].requested) <= bs[a].capacity

InUse(bs) == {a \in DOMAIN bs : ~bs[a].free}

(* The pointers the callers hold are the blocks in use, each with room for *)
(* what its caller asked for.                                              *)
Held ==
  /\ DOMAIN live = {a + HeaderUnits : a \in InUse(blocks)}
  /\ live = [p \in DOMAIN live |-> blocks[p - HeaderUnits].requested]

(* memory/heap.c in any sequence of heap_init, kmalloc, kcalloc and kfree: *)
(* the block list stays linked, ordered, adjacent and merged, every caller *)
(* owns the bytes it asked for, and no check of the allocator panics.      *)
HeapInv ==
  /\ TypeOK
  /\ Linked(blocks, mapped) /\ Apart(blocks) /\ Merged(blocks) /\ Marked(blocks)
  /\ Held
  /\ initialized => 0 \in DOMAIN blocks /\ \E a \in DOMAIN blocks : blocks[a].next = Null
  /\ ~initialized => DOMAIN blocks = {} /\ mapped = 0
  /\ ~panicked

(* used_bytes is what the callers asked for, and every frame of the pool   *)
(* is either free or behind a page below mapped_bytes: a growth that fails *)
(* half way (rollback_pages) leaves nothing mapped and loses no frame.     *)
BytesAddUp ==
  /\ used = MapThenSumSet(LAMBDA p : live[p], DOMAIN live)
  /\ window = 0 .. mapped \div PageUnits - 1
  /\ pool + Cardinality(window) = PoolFrames

(* No byte of a block in use lies in the n units from lo. *)
IsHole(lo, n) ==
  /\ lo + n <= mapped
  /\ \A a \in DOMAIN blocks :
       ~blocks[a].free => End(blocks, a) <= lo \/ lo + n <= a

(* Wherever a gap between the blocks in use could hold a request and its   *)
(* header, find_free_block finds a block for it: kmalloc never fails, and  *)
(* never grows the heap, because free space is split over two blocks.      *)
FreeSpaceIsFound ==
  \A size \in Sizes :
    /\ ~IllegalSize(size)
    /\ \E lo \in 0 .. mapped : IsHole(lo, Need(size) + HeaderUnits)
    => Fitting(blocks, Need(size)) # {}

=============================================================================
