------------------------------- MODULE Paging -------------------------------
(***************************************************************************)
(* The PAE backend of memory/paging.c.  A memory record m holds, beside    *)
(* the allocator's sets:                                                   *)
(*   m.tables   page tables: frame -> (page -> [frame, user, prot])        *)
(*   m.dirs     page directories: frame -> (index -> [table, user])        *)
(*   m.pdpts    top-level tables: frame -> (quarter -> directory frame)    *)
(*   m.spaces   the registered user address spaces (pae_address_spaces)    *)
(*   m.cr3      the active top-level table (pae_pdpt_physical)             *)
(* Only present entries are in the domains.  A virtual address is          *)
(* <<quarter, index, page>>.  A table, directory or top-level table that   *)
(* is freed leaves its function; a directory entry may go on naming it.    *)
(***************************************************************************)
EXTENDS Pmm, Sequences, SequencesExt, TLC

CONSTANTS KernelPdpt,   \* pae_kernel_pdpt_physical
          KernelIndices,\* directory indices below USER_MAPPING_MIN
          MaxSpaces     \* PAGING_MAX_ADDRESS_SPACES

(* User mappings live in the first quarter, above the identity map. *)
UserAddress(va) == va[1] = 0 /\ va[2] \notin KernelIndices

Drop(f, x) == [y \in DOMAIN f \ {x} |-> f[y]]

HasDir(m, pdpt, q) == q \in DOMAIN m.pdpts[pdpt]

DirOf(m, pdpt, q) == m.dirs[m.pdpts[pdpt][q]]

HasTable(m, pdpt, va) ==
    HasDir(m, pdpt, va[1]) /\ va[2] \in DOMAIN DirOf(m, pdpt, va[1])

TableFrame(m, pdpt, va) == DirOf(m, pdpt, va[1])[va[2]].table

(* pae_get_page_table_for, pae_is_mapped: the walk of a given space. *)
MappedIn(m, pdpt, va) ==
    /\ HasTable(m, pdpt, va)
    /\ TableFrame(m, pdpt, va) \in DOMAIN m.tables
    /\ va[3] \in DOMAIN m.tables[TableFrame(m, pdpt, va)]

Pte(m, pdpt, va) == m.tables[TableFrame(m, pdpt, va)][va[3]]

IsMapped(m, va) == MappedIn(m, m.cr3, va)

(* pae_uses_shared_kernel_table: a table the active space has in common    *)
(* with the kernel's own may only be changed through the kernel's.         *)
SharedKernelTable(m, va) ==
    /\ m.cr3 # KernelPdpt
    /\ HasTable(m, KernelPdpt, va)
    /\ HasTable(m, m.cr3, va)
    /\ TableFrame(m, KernelPdpt, va) = TableFrame(m, m.cr3, va)

AllowsUserMappings(m, t) == \A p \in DOMAIN m.tables[t] : m.tables[t][p].user

(* pae_ensure_page_table, first half: the directory of the quarter. *)
EnsureDir(m, q) ==
    IF HasDir(m, m.cr3, q) THEN [ok |-> TRUE, m |-> m]
    ELSE With(AllocBelow(m), LAMBDA a :
           IF a.frame = NoFrame THEN [ok |-> FALSE, m |-> m]
           ELSE [ok |-> TRUE,
                 m |-> [a.m EXCEPT !.dirs = (a.frame :> <<>>) @@ @,
                                   !.pdpts[m.cr3] = (q :> a.frame) @@ @]])

(* A new, empty table at va. *)
NewTable(m, va, user) ==
    With(AllocBelow(m), LAMBDA a :
      IF a.frame = NoFrame THEN [ok |-> FALSE, m |-> m]
      ELSE [ok |-> TRUE,
            m |-> [a.m EXCEPT
                     !.tables = (a.frame :> <<>>) @@ @,
                     !.dirs[m.pdpts[m.cr3][va[1]]] =
                        (va[2] :> [table |-> a.frame, user |-> user]) @@ @]])

(* pae_ensure_page_table, second half.  A fresh directory survives when    *)
(* the allocation of the table fails.                                      *)
EnsureTable(m, va, user) ==
    With(EnsureDir(m, va[1]), LAMBDA d :
      IF ~d.ok THEN d
      ELSE IF ~HasTable(d.m, m.cr3, va) THEN NewTable(d.m, va, user)
      ELSE IF \/ SharedKernelTable(d.m, va)
              \/ user /\ ~AllowsUserMappings(d.m, TableFrame(d.m, m.cr3, va))
      THEN [ok |-> FALSE, m |-> d.m]
      ELSE [ok |-> TRUE,
            m |-> [d.m EXCEPT !.dirs[d.m.pdpts[m.cr3][va[1]]][va[2]].user = @ \/ user]])

(* pae_map_page in the active space. *)
MapPage(m, va, f, user, prot) ==
    IF \/ user /\ (~IsUserOwned(m, f) \/ m.cr3 = KernelPdpt \/ ~UserAddress(va))
       \/ SharedKernelTable(m, va)
    THEN [ok |-> FALSE, m |-> m]
    ELSE With(EnsureTable(m, va, user), LAMBDA e :
           IF \/ ~e.ok
              \/ MappedIn(e.m, m.cr3, va)
              \/ user /\ ~CanClaim(e.m, f)
           THEN [ok |-> FALSE, m |-> e.m]
           ELSE [ok |-> TRUE,
                 m |-> [e.m EXCEPT
                          !.mapped = IF user THEN @ \cup {f} ELSE @,
                          !.tables[TableFrame(e.m, m.cr3, va)] =
                             (va[3] :> [frame |-> f, user |-> user, prot |-> prot]) @@ @]])

(* pae_protect_page. *)
ProtectPage(m, va, user, prot) ==
    IF \/ SharedKernelTable(m, va)
       \/ user /\ (m.cr3 = KernelPdpt \/ ~UserAddress(va))
       \/ ~IsMapped(m, va)
       \/ Pte(m, m.cr3, va).user # user
       \/ user /\ ~IsUserOwned(m, Pte(m, m.cr3, va).frame)
    THEN [ok |-> FALSE, m |-> m]
    ELSE [ok |-> TRUE,
          m |-> [m EXCEPT
                   !.tables[TableFrame(m, m.cr3, va)][va[3]].prot = prot,
                   !.dirs[m.pdpts[m.cr3][va[1]]][va[2]].user = @ \/ user]]

(* A plausible slip: an emptied table is never given back. *)
PruneNothing(m, va) == m

(* The tail of pae_unmap_page: an empty table goes back to the allocator,  *)
(* and so does the directory that this leaves empty.                       *)
PruneTable(m, va) ==
    LET t == TableFrame(m, m.cr3, va)
        dir == m.pdpts[m.cr3][va[1]]
    IN  IF DOMAIN m.tables[t] # {} THEN m
        ELSE With([FreeBlock(m, t) EXCEPT !.tables = Drop(@, t),
                                          !.dirs[dir] = Drop(@, va[2])],
                  LAMBDA n :
                    IF DOMAIN n.dirs[dir] # {} THEN n
                    ELSE [FreeBlock(n, dir) EXCEPT !.dirs = Drop(@, dir),
                                                   !.pdpts[m.cr3] = Drop(@, va[1])])

(* A plausible slip: the claim on a user frame outlives its mapping. *)
UnmapPageKeepsClaim(m, va) ==
    IF \/ m.cr3 = KernelPdpt /\ va[1] = 0 /\ va[2] \in KernelIndices
       \/ SharedKernelTable(m, va)
       \/ ~IsMapped(m, va)
    THEN [frame |-> NoFrame, m |-> m]
    ELSE With([m EXCEPT !.tables[TableFrame(m, m.cr3, va)] = Drop(@, va[3])],
              LAMBDA n : [frame |-> Pte(m, m.cr3, va).frame, m |-> PruneTable(n, va)])

(* pae_unmap_page: the frame that was mapped, or NoFrame. *)
UnmapPage(m, va) ==
    IF \/ m.cr3 = KernelPdpt /\ va[1] = 0 /\ va[2] \in KernelIndices
       \/ SharedKernelTable(m, va)
       \/ ~IsMapped(m, va)
    THEN [frame |-> NoFrame, m |-> m]
    ELSE With([m EXCEPT !.tables[TableFrame(m, m.cr3, va)] = Drop(@, va[3]),
                        !.mapped = @ \ (IF Pte(m, m.cr3, va).user
                                        THEN {Pte(m, m.cr3, va).frame} ELSE {})],
              LAMBDA n : [frame |-> Pte(m, m.cr3, va).frame, m |-> PruneTable(n, va)])

(* paging_create_address_space: a top-level table and one directory per    *)
(* quarter of the kernel's, whose entries are copied.  Too few frames:     *)
(* everything taken is freed again.                                        *)
CreateSpace(m) ==
    LET free == LowFrames \ m.used
        quarters == DOMAIN m.pdpts[KernelPdpt]
        nth(k) == CHOOSE f \in free : Rank(free, f) = k
        dir == [q \in quarters |-> nth(1 + Rank(quarters, q))]
        copies == {dir[q] : q \in quarters}
    IN  IF \/ Cardinality(m.spaces) = MaxSpaces
           \/ Cardinality(free) < 1 + Cardinality(quarters)
        THEN [space |-> NoFrame, m |-> m]
        ELSE [space |-> nth(0),
              m |-> [m EXCEPT
                       !.used = @ \cup copies \cup {nth(0)},
                       !.spaces = @ \cup {nth(0)},
                       !.pdpts = (nth(0) :> dir) @@ @,
                       !.dirs = [d \in copies |->
                                   DirOf(m, KernelPdpt, CHOOSE q \in quarters : dir[q] = d)]
                                @@ @]]

IsValidSpace(m, s) == s = KernelPdpt \/ s \in m.spaces

(* paging_switch_address_space. *)
SwitchSpace(m, s) ==
    IF IsValidSpace(m, s) THEN [ok |-> TRUE, m |-> [m EXCEPT !.cr3 = s]]
    ELSE [ok |-> FALSE, m |-> m]

(* A plausible slip: every directory entry is taken for a private one. *)
PrivateEntriesAll(m, s) ==
    UNION {{q} \X DOMAIN DirOf(m, s, q) : q \in DOMAIN m.pdpts[s]}

(* The directory entries of space s that are not copies of what the kernel *)
(* has now at the same place: <<quarter, index>>.                          *)
PrivateEntries(m, s) ==
    {e \in UNION {{q} \X DOMAIN DirOf(m, s, q) : q \in DOMAIN m.pdpts[s]} :
       ~(/\ HasTable(m, KernelPdpt, e)
         /\ TableFrame(m, KernelPdpt, e) = TableFrame(m, s, e))}

(* The preflight of paging_destroy_address_space: private tables are user  *)
(* tables and hold only mapped user frames.                                *)
Destroyable(m, s) ==
    /\ s \in m.spaces /\ s # m.cr3
    /\ \A e \in PrivateEntries(m, s) :
          /\ DirOf(m, s, e[1])[e[2]].user
          /\ LET t == m.tables[TableFrame(m, s, e)]
             IN  \A p \in DOMAIN t : UserIsMapped(m, t[p].frame)

(* paging_destroy_address_space: frees the private tables with the frames  *)
(* in them, the directories, the top-level table, and the registration.    *)
DestroySpace(m, s) ==
    LET tabs == {TableFrame(m, s, e) : e \in PrivateEntries(m, s)}
        dirs == {m.pdpts[s][q] : q \in DOMAIN m.pdpts[s]}
        pages == UNION {{m.tables[t][p].frame : p \in DOMAIN m.tables[t]} : t \in tabs}
        gone == tabs \cup dirs \cup pages \cup {s}
    IN  IF ~Destroyable(m, s) THEN [ok |-> FALSE, m |-> m]
        ELSE [ok |-> TRUE,
              m |-> [m EXCEPT !.used = @ \ gone,
                              !.owned = @ \ gone,
                              !.mapped = @ \ pages,
                              !.tables = [t \in DOMAIN @ \ tabs |-> @[t]],
                              !.dirs = [d \in DOMAIN @ \ dirs |-> @[d]],
                              !.pdpts = Drop(@, s),
                              !.spaces = @ \ {s}]]
=============================================================================
