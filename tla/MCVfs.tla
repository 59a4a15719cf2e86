------------------------------- MODULE MCVfs -------------------------------
(***************************************************************************)
(* Small disks for the model of the FAT16 file system.                     *)
(***************************************************************************)
EXTENDS Vfs

MCShortName == [t \in {"a", "d", "s", ""} |->
  CASE t = "a" -> "A" [] t = "d" -> "D" [] t = "s" -> "S" [] OTHER -> Invalid]

MCPaths == {<<"a">>, <<"d", "a">>, <<"d", "s">>, <<"a", "a">>, <<"d", "">>}

Geometry(spc, total) ==
  [plain |-> TRUE, spc |-> spc, reserved |-> 1, fats |-> 2, spf |-> 2, rootEntries |-> 3,
   total |-> total]

(* Three clusters of one sector; three of two sectors and a sector over. *)
Single == Geometry(1, 10)
Double == Geometry(2, 14)

NoPart == [type |-> 0, start |-> 0, length |-> 0]
NoParts == [i \in 1 .. Partitions |-> NoPart]
Boot(g, parts) == [signed |-> TRUE, geometry |-> g, parts |-> parts]

Entry(name, kind, cluster, size) ==
  [name |-> name, kind |-> kind, cluster |-> cluster, size |-> size]

(* The sectors of the FAT: the first copy links, the second other. *)
FatSector(links, k) ==
  [i \in 0 .. FatPerSector - 1 |->
     LET c == k * FatPerSector + i
     IN  IF c < 2 THEN Header ELSE IF c \in DOMAIN links THEN links[c] ELSE 0]

FatSectors(start, links, other) ==
  [lba \in start + 1 .. start + 4 |->
     IF lba < start + 3 THEN FatSector(links, lba - start - 1)
     ELSE FatSector(other, lba - start - 3)]

(* A root with a label, the directory D and the file A; D starts in        *)
(* cluster 2 and names A in cluster 3; what lies behind the last cluster   *)
(* looks like an entry for S.                                              *)
Directories(start, g, first, size) ==
  LET data    == start + Overhead(g)
      root0   == start + 5
      cluster(c) == data + (c - 2) * g.spc
      deleted == Entry("A", "deleted", 2, 2)
      long    == Entry("A", "lfn", 0, 0)
      slots(a, b) == [k \in 0 .. 1 |-> IF k = 0 THEN a ELSE b]
      full    == [lba \in data .. start + g.total - 1 |-> slots(deleted, long)]
  IN  [lba \in {root0, root0 + 1} \cup DOMAIN full |->
         CASE lba = root0 -> slots(Entry("A", "volume", 0, 0), Entry("D", "dir", 2, 0))
           [] lba = root0 + 1 -> slots(Entry("A", "file", first, size), deleted)
           [] lba = cluster(3) -> slots(Entry("A", "file", 4, size), Entry("S", "marked", 4, 1))
           [] lba = cluster(5) -> slots(Entry("S", "file", 2, 1), Blank)
           [] OTHER -> full[lba]]

Disk(sectors, start, g, links, other, first, size, boots) ==
  [sectors |-> sectors, boot |-> boots,
   fat |-> FatSectors(start, links, other), dir |-> Directories(start, g, first, size)]

Floppy(g, links, other, first, size) ==
  Disk(g.total, 0, g, links, other, first, size, [lba \in {0} |-> Boot(g, NoParts)])

Values == {0, 2, 3, 4, 5, Bad, Eoc}
AllLinks == [2 .. 4 -> Values]

(* Every FAT, with copies that agree. *)
Agreeing ==
  {Floppy(Single, l, l, 2, 6) : l \in AllLinks}
    \cup {Floppy(Double, l, l, 3, 7) : l \in AllLinks}

(* One entry of the second copy differs. *)
Straight == [c \in 2 .. 4 |-> IF c = 4 THEN Eoc ELSE c + 1]
Differing ==
  {Floppy(Single, Straight, [Straight EXCEPT ![c] = v], 2, size) :
     c \in 2 .. 4, v \in Values, size \in {0, 5, 7, 9}}

(* Disks whose start is no volume: nothing, or a table of partitions; and  *)
(* a volume in a partition, or one that is larger than the device.         *)
Table(parts) == Boot([Single EXCEPT !.plain = FALSE], parts)
Part(type, start, length) == [type |-> type, start |-> start, length |-> length]
SomeParts == {Part(6, 2, 10), Part(6, 2, 20), Part(7, 2, 10), Part(14, 2, 4), Part(4, 40, 10)}
Tables == {[NoParts EXCEPT ![1] = p, ![3] = q] : p, q \in SomeParts}

Partitioned ==
  {Disk(sectors, 2, Single, Straight, Straight, 2, 5,
        [lba \in {0, 2} |-> IF lba = 0 THEN Table(t) ELSE Boot(Single, NoParts)]) :
     t \in Tables, sectors \in {0, 11, 12}}

(* A volume at the start that is cut off, or whose second FAT has no       *)
(* header.                                                                 *)
Damaged ==
  LET whole == Floppy(Single, Straight, Straight, 2, 5)
  IN  {[whole EXCEPT !.sectors = 9], [whole EXCEPT !.fat[3][0] = 0]}

MCDisks == Agreeing \cup Differing \cup Partitioned \cup Damaged

=============================================================================
