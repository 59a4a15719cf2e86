-------------------------------- MODULE Pmm --------------------------------
(***************************************************************************)
(* The physical memory manager of memory/pmm.c after pmm_init: which       *)
(* managed frames are in use, which of those belong to user processes, and *)
(* which user frames are mapped somewhere.  The three bitmaps of the code  *)
(* are the sets m.used, m.owned and m.mapped of a memory record m; the     *)
(* other fields of m belong to Paging.  Every operator takes the record    *)
(* and returns the record the C function leaves behind.                    *)
(*                                                                         *)
(* Frames are numbered upwards as their addresses are: LowFrames lie below *)
(* LOW_IDENTITY_LIMIT (4 MiB), UserFrames at or above it.                  *)
(***************************************************************************)
EXTENDS Integers, FiniteSets, FiniteSetsExt

CONSTANTS LowFrames, UserFrames

Frames == LowFrames \cup UserFrames

ASSUME FramesAssumption ==
    /\ IsFiniteSet(Frames)
    /\ Frames \subseteq Nat \ {0}
    /\ \A l \in LowFrames, u \in UserFrames : l < u

(* The place of x in S, from 0. *)
Rank(S, x) == Cardinality({y \in S : y < x})

(* Op of the value of x, which is computed once.  The operators of this    *)
(* model thread the memory record through one call after another.          *)
With(x, Op(_)) == CHOOSE y \in {Op(v) : v \in {x}} : TRUE

(* Address 0: what the allocator returns when it has nothing left. *)
NoFrame == 0

(* The first-fit scan of the allocators over the frames S. *)
FirstFree(m, S) ==
    IF S \subseteq m.used THEN NoFrame ELSE Min(S \ m.used)

Allocated(m, f) ==
    [m EXCEPT !.used = @ \cup ({f} \ {NoFrame}), !.owned = @ \ {f}]

(* pmm_alloc_block_below(LOW_IDENTITY_LIMIT): frames the kernel reaches    *)
(* through the identity map, for directories and page tables.              *)
AllocBelow(m) ==
    LET f == FirstFree(m, LowFrames) IN [frame |-> f, m |-> Allocated(m, f)]

(* pmm_alloc_block: any frame, lowest first. *)
AllocBlock(m) ==
    LET f == FirstFree(m, Frames) IN [frame |-> f, m |-> Allocated(m, f)]

(* pmm_alloc_user_block: only frames outside the identity map. *)
AllocUser(m) ==
    LET f == FirstFree(m, UserFrames)
    IN  [frame |-> f,
         m |-> [m EXCEPT !.used = @ \cup ({f} \ {NoFrame}),
                         !.owned = @ \cup ({f} \ {NoFrame})]]

IsUserOwned(m, f) == f \in m.used \cap m.owned

UserIsMapped(m, f) == IsUserOwned(m, f) /\ f \in m.mapped

(* pmm_claim_user_block: a user frame is mapped at most once. *)
CanClaim(m, f) == IsUserOwned(m, f) /\ f \notin m.mapped

(* pmm_free_block: silently refuses a frame that is still mapped. *)
FreeBlock(m, f) ==
    IF f \in m.used /\ f \notin m.mapped
    THEN [m EXCEPT !.used = @ \ {f}, !.owned = @ \ {f}]
    ELSE m

FreeBlocks(m) == Cardinality(Frames \ m.used)
=============================================================================
