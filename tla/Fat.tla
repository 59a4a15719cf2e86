--------------------------------- MODULE Fat ---------------------------------
(***************************************************************************)
(* fs/fat.c: what a sector of a FAT16 volume means to the driver, as       *)
(* operators without state.  A disk is a record                            *)
(*   sectors   its size; 0 for a device that is not ready                  *)
(*   boot      the boot sectors, by LBA: signature, geometry, partitions   *)
(*   fat       the sectors of FAT entries, by LBA                          *)
(*   dir       the sectors of directory entries, by LBA                    *)
(* A sector read as something it is not looks blank, and the data in a     *)
(* sector is known by its LBA.                                             *)
(***************************************************************************)
EXTENDS Integers, Sequences, FiniteSetsExt

CONSTANTS
  SectorSize,      \* FAT_SECTOR_SIZE
  FatPerSector,    \* entries in a sector of the FAT, 256
  DirPerSector,    \* entries in a sector of a directory, 16
  MinClusters,     \* 4085
  MaxClusters,     \* 65525
  Word,            \* 2^32
  ShortName        \* text of a path component -> name in a directory, or Invalid

Bad == 65527       \* FAT16_BAD
Eoc == 65528       \* FAT16_EOC
Header == 65535    \* the first entries of a FAT, with the right media descriptor
Invalid == "invalid"

Blank == [name |-> Invalid, kind |-> "end", cluster |-> 0, size |-> 0]
NoVolume == [mounted |-> FALSE]

BootAt(disk, lba) ==
  IF lba \in DOMAIN disk.boot THEN disk.boot[lba] ELSE [signed |-> FALSE]
FatAt(disk, lba, k) == IF lba \in DOMAIN disk.fat THEN disk.fat[lba][k] ELSE 0
DirAt(disk, lba, k) == IF lba \in DOMAIN disk.dir THEN disk.dir[lba][k] ELSE Blank

-----------------------------------------------------------------------------
(* fat_mount: the geometry g in the boot sector.  g.plain stands for a     *)
(* sector size of 512 and a media descriptor in range.                     *)
RootSectors(entries) == (entries + DirPerSector - 1) \div DirPerSector

Overhead(g) == g.reserved + g.fats * g.spf + RootSectors(g.rootEntries)

ClusterCount(g) == (g.total - Overhead(g)) \div g.spc

GeometryOK(g) ==
  /\ g.plain
  /\ \E k \in 0 .. 7 : g.spc = 2^k
  /\ g.reserved # 0 /\ g.fats # 0 /\ g.rootEntries # 0 /\ g.spf # 0 /\ g.total # 0
  /\ g.total > Overhead(g)
  /\ ClusterCount(g) \in MinClusters .. MaxClusters - 1
  /\ g.spf * FatPerSector >= ClusterCount(g) + 2

(* The header of copy k of the FAT; its LBA is computed in 32 bits. *)
HeaderLba(start, g, k) == (start + g.reserved + k * g.spf) % Word

HeaderOK(disk, lba) == FatAt(disk, lba, 0) = Header

MountedVolume(start, g) ==
  [mounted |-> TRUE, start |-> start, total |-> g.total,
   fatStart |-> start + g.reserved,
   rootStart |-> start + g.reserved + g.fats * g.spf,
   dataStart |-> start + Overhead(g),
   spf |-> g.spf, fats |-> g.fats, rootEntries |-> g.rootEntries, spc |-> g.spc,
   clusters |-> ClusterCount(g)]

-----------------------------------------------------------------------------
(* read_sector lets through what lies in the volume. *)
InVolume(vol, lba) == vol.mounted /\ lba >= vol.start /\ lba - vol.start < vol.total

InRange(vol, cluster) == cluster >= 2 /\ cluster < vol.clusters + 2

(* Computed without a sign in 32 bits. *)
ClusterLba(vol, cluster, sector) ==
  vol.dataStart + (((cluster - 2) * vol.spc) % Word) + sector

FatLba(vol, cluster, copy) == vol.fatStart + copy * vol.spf + cluster \div FatPerSector

FatEntry(disk, vol, cluster, copy) ==
  FatAt(disk, FatLba(vol, cluster, copy), cluster % FatPerSector)

(* The value in the FAT that read_fat_entry passes on. *)
IsLink(value) == value # Bad /\ value < Eoc

-----------------------------------------------------------------------------
(* Directories.  The kinds of entry are a file, a file marked read-only,   *)
(* hidden or system, a directory, and what a search skips: a volume label, *)
(* a part of a long name, a deleted entry.                                 *)
Skipped(entry) == entry.kind \in {"volume", "lfn", "deleted"}

Listed(entry) == entry.kind \in {"file", "marked"}

(* The entries of one sector; the last one of the root may be short. *)
Items(vol, root, sector) ==
  {k \in 0 .. DirPerSector - 1 : root => sector * DirPerSector + k < vol.rootEntries}

DirLba(vol, root, cluster, sector) ==
  IF root THEN vol.rootStart + sector ELSE ClusterLba(vol, cluster, sector)

DirSectors(vol, root) == IF root THEN RootSectors(vol.rootEntries) ELSE vol.spc

(* Where the search of find_entry_in_directory stops in a sector. *)
Stops(disk, vol, root, cluster, sector, name) ==
  {k \in Items(vol, root, sector) :
     LET e == DirAt(disk, DirLba(vol, root, cluster, sector), k)
     IN  e.kind = "end" \/ (~Skipped(e) /\ e.name = name)}

(* fat_file_count and fat_file_name: the files of the root that are seen   *)
(* when its first n sectors can be read, in order.                         *)
RootEntry(disk, vol, i) ==
  DirAt(disk, vol.rootStart + i \div DirPerSector, i % DirPerSector)

SeenFiles(disk, vol, n) ==
  LET all  == {i \in 0 .. vol.rootEntries - 1 : i \div DirPerSector < n}
      ends == {i \in all : RootEntry(disk, vol, i).kind = "end"}
      end  == IF ends = {} THEN vol.rootEntries ELSE Min(ends)
      here == {i \in all : i < end /\ Listed(RootEntry(disk, vol, i))}
  IN  [k \in 1 .. Cardinality(here) |->
        CHOOSE i \in here : Cardinality({j \in here : j <= i}) = k]

-----------------------------------------------------------------------------
(* fat_read_file: what an entry must be before its data is read. *)
Fits(vol, entry, capacity) ==
  LET most == vol.clusters * vol.spc
      full == entry.size \div SectorSize
  IN  /\ entry.kind = "file"
      /\ entry.size <= capacity
      /\ full <= most
      /\ entry.size % SectorSize # 0 => full < most

=============================================================================
