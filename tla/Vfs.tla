--------------------------------- MODULE Vfs ---------------------------------
(***************************************************************************)
(* fs/vfs.c over fs/fat.c and drivers/block_device.c: mounting a FAT16     *)
(* volume from a disk and serving diskcat, run and diskls from it, one     *)
(* sector at a time.  Every read may fail, and is tried again twice.       *)
(*                                                                         *)
(*   disk      what is on the disk; the kernel never writes it here        *)
(*   glitches  attempts to read that may still fail                        *)
(*   pc        the sector wanted next, or idle                             *)
(*   vol       the static volume of vfs.c                                  *)
(*   m         the locals of vfs_init and fat_mount                        *)
(*   w         the locals of fat_read_file and the functions it calls      *)
(*   call      the file asked for, or a listing                            *)
(*   out       the result of the last call.                                *)
(***************************************************************************)
EXTENDS Fat

CONSTANTS
  Disks,           \* the disks a machine may start with
  Paths,           \* paths asked for: sequences of components
  Capacities,      \* sizes of the buffers of callers
  MaxGlitches

Retries == 3       \* ATA_READ_RETRIES
Partitions == 4    \* entries of a partition table
FatTypes == {4, 6, 14}

VARIABLES disk, glitches, pc, vol, m, w, call, out

vars == <<disk, glitches, pc, vol, m, w, call, out>>

NoMount == [cand |-> 0, start |-> 0, geometry |-> <<>>, copy |-> 0, parts |-> <<>>]
NoWalk == [part |-> 1, root |-> TRUE, cluster |-> 0, sector |-> 0, guard |-> 0,
           copy |-> 0, first |-> 0, entry |-> Blank, remaining |-> 0, data |-> <<>>]
NoCall == [path |-> <<>>, capacity |-> 0, listing |-> FALSE]
Failed == [ok |-> FALSE, data |-> <<>>, entry |-> Blank, names |-> <<>>]

Init ==
  /\ disk \in Disks
  /\ glitches = MaxGlitches
  /\ pc = "init"
  /\ vol = NoVolume
  /\ m = NoMount /\ w = NoWalk /\ call = NoCall /\ out = Failed

-----------------------------------------------------------------------------
(* block_device_is_ready, and request_is_valid for a single sector. *)
Ready == disk.sectors # 0
RequestIsValid(lba) == Ready /\ lba < disk.sectors

(* read_with_retry over block_device_read. *)
ReadDevice(lba, ok) ==
  IF RequestIsValid(lba)
  THEN \E failed \in 0 .. Min({Retries, glitches}) :
         /\ glitches' = glitches - failed
         /\ ok = (failed < Retries)
  ELSE ~ok /\ UNCHANGED glitches

(* read_sector. *)
ReadVolume(lba, ok) ==
  IF InVolume(vol, lba) THEN ReadDevice(lba, ok) ELSE ~ok /\ UNCHANGED glitches

-----------------------------------------------------------------------------
(* vfs_init.  Candidate 0 is the whole disk, the others are the entries of *)
(* the partition table.                                                    *)
Usable(part) ==
  /\ part.type \in FatTypes
  /\ part.length # 0
  /\ part.start < disk.sectors /\ part.length <= disk.sectors - part.start

NextCandidates(parts, cand) == {i \in cand + 1 .. Partitions : Usable(parts[i])}

(* To the boot sector of the next entry worth a try, if there is one. *)
TryAfter(parts, cand) ==
  LET left == NextCandidates(parts, cand)
  IN  /\ pc' = IF left = {} THEN "idle" ELSE "boot"
      /\ m' = IF left = {} THEN NoMount
              ELSE [NoMount EXCEPT !.cand = Min(left), !.start = parts[Min(left)].start,
                                   !.parts = parts]

(* A candidate that is no volume, or not one that fits the device. *)
NotThisOne ==
  /\ IF m.cand = 0 THEN pc' = "table" /\ m' = NoMount ELSE TryAfter(m.parts, m.cand)
  /\ UNCHANGED vol

(* mounted_volume_fits_device. *)
FitsDevice(volume) ==
  /\ volume.start < disk.sectors
  /\ volume.total <= disk.sectors - volume.start

VfsInit ==
  /\ pc = "init"
  /\ pc' = IF Ready THEN "boot" ELSE "idle"
  /\ UNCHANGED <<disk, glitches, vol, m, w, call, out>>

ReadBoot ==
  /\ pc = "boot"
  /\ \E ok \in BOOLEAN :
       /\ ReadDevice(m.start, ok)
       /\ LET boot == BootAt(disk, m.start)
          IN  IF ok /\ boot.signed /\ GeometryOK(boot.geometry)
              THEN /\ pc' = "header"
                   /\ m' = [m EXCEPT !.geometry = boot.geometry, !.copy = 0]
                   /\ UNCHANGED vol
              ELSE NotThisOne
  /\ UNCHANGED <<disk, w, call, out>>

(* The reserved entries of every copy of the FAT, then the volume is there.*)
ReadHeader ==
  /\ pc = "header"
  /\ \E ok \in BOOLEAN :
       LET lba == HeaderLba(m.start, m.geometry, m.copy)
           new == MountedVolume(m.start, m.geometry)
       IN  /\ ReadDevice(lba, ok)
           /\ IF ~ok \/ ~HeaderOK(disk, lba) THEN NotThisOne
              ELSE IF m.copy + 1 < m.geometry.fats
                   THEN m' = [m EXCEPT !.copy = @ + 1] /\ UNCHANGED <<pc, vol>>
              ELSE IF ~FitsDevice(new) THEN NotThisOne
              ELSE pc' = "idle" /\ m' = NoMount /\ vol' = new
  /\ UNCHANGED <<disk, w, call, out>>

ReadTable ==
  /\ pc = "table"
  /\ \E ok \in BOOLEAN :
       /\ ReadDevice(0, ok)
       /\ IF ok /\ BootAt(disk, 0).signed
          THEN TryAfter(BootAt(disk, 0).parts, 0)
          ELSE pc' = "idle" /\ UNCHANGED m
  /\ UNCHANGED <<disk, vol, w, call, out>>

-----------------------------------------------------------------------------
(* vfs_read_file. *)
Return(result) == pc' = "idle" /\ out' = result /\ w' = NoWalk

Fail == Return(Failed)

(* find_path at component i: a name that fits an entry, or the end. *)
Search(walk, path) ==
  IF ShortName[path[walk.part]] = Invalid THEN Fail
  ELSE pc' = "find" /\ w' = walk /\ UNCHANGED out

ReadFile ==
  /\ pc = "idle"
  /\ \E path \in Paths, capacity \in Capacities :
       /\ call' = [path |-> path, capacity |-> capacity, listing |-> FALSE]
       /\ IF vol.mounted THEN Search(NoWalk, path) ELSE Fail
  /\ UNCHANGED <<disk, glitches, vol, m>>

(* The entry of the file is found. *)
StartFile(entry) ==
  IF ~Fits(vol, entry, call.capacity) \/ (entry.size = 0 /\ entry.cluster # 0) THEN Fail
  ELSE IF entry.size = 0 THEN Return([Failed EXCEPT !.ok = TRUE, !.entry = entry])
  ELSE IF ~InRange(vol, entry.cluster) THEN Fail
  ELSE /\ pc' = "data"
       /\ w' = [NoWalk EXCEPT !.cluster = entry.cluster, !.guard = 1, !.entry = entry,
                              !.remaining = entry.size]
       /\ UNCHANGED out

(* The entry of a component is found. *)
Found(entry) ==
  IF w.part = Len(call.path) THEN StartFile(entry)
  ELSE IF entry.kind # "dir" \/ ~InRange(vol, entry.cluster) THEN Fail
  ELSE Search([NoWalk EXCEPT !.part = w.part + 1, !.root = FALSE, !.cluster = entry.cluster],
              call.path)

FindEntry ==
  /\ pc = "find"
  /\ \E ok \in BOOLEAN :
       LET lba   == DirLba(vol, w.root, w.cluster, w.sector)
           stops == Stops(disk, vol, w.root, w.cluster, w.sector,
                          ShortName[call.path[w.part]])
           entry == DirAt(disk, lba, Min(stops))
       IN  /\ ReadVolume(lba, ok)
           /\ IF ~ok THEN Fail
              ELSE IF stops # {} THEN IF entry.kind = "end" THEN Fail ELSE Found(entry)
              ELSE IF w.sector + 1 < DirSectors(vol, w.root)
                   THEN w' = [w EXCEPT !.sector = @ + 1] /\ UNCHANGED <<pc, out>>
              ELSE IF w.root \/ ~InRange(vol, w.cluster) THEN Fail
              ELSE pc' = "dir_fat" /\ w' = [w EXCEPT !.copy = 0] /\ UNCHANGED out
  /\ UNCHANGED <<disk, vol, m, call>>

(* Mutant of GuardedDirectory: the walk along a directory has no bound. *)
GuardedDirectoryNever(next) ==
  pc' = "find" /\ w' = [w EXCEPT !.cluster = next, !.sector = 0] /\ UNCHANGED out

(* The next cluster of a directory. *)
GuardedDirectory(next) ==
  IF w.guard + 1 >= vol.clusters THEN Fail
  ELSE /\ pc' = "find"
       /\ w' = [w EXCEPT !.cluster = next, !.sector = 0, !.guard = @ + 1]
       /\ UNCHANGED out

(* The next cluster of a file. *)
GuardedFile(next) ==
  IF ~InRange(vol, next) \/ w.guard >= vol.clusters THEN Fail
  ELSE /\ pc' = "data"
       /\ w' = [w EXCEPT !.cluster = next, !.sector = 0, !.guard = @ + 1]
       /\ UNCHANGED out

(* Mutant of Agrees: only the first copy of the FAT is looked at. *)
AgreesAlways(value) == TRUE

Agrees(value) == w.copy = 0 \/ value = w.first

(* read_fat_entry: every copy in turn. *)
ReadFat(place) ==
  /\ pc = place
  /\ \E ok \in BOOLEAN :
       LET value == FatEntry(disk, vol, w.cluster, w.copy)
           first == IF w.copy = 0 THEN value ELSE w.first
       IN  /\ ReadVolume(FatLba(vol, w.cluster, w.copy), ok)
           /\ IF ~ok \/ ~Agrees(value) THEN Fail
              ELSE IF w.copy + 1 < vol.fats
                   THEN w' = [w EXCEPT !.copy = @ + 1, !.first = first] /\ UNCHANGED <<pc, out>>
              ELSE IF ~IsLink(first) THEN Fail
              ELSE IF place = "dir_fat" THEN GuardedDirectory(first) ELSE GuardedFile(first)
  /\ UNCHANGED <<disk, vol, m, call>>

ReadDirectoryFat == ReadFat("dir_fat")
ReadFileFat == ReadFat("file_fat")

(* A sector of the file. *)
ReadData ==
  /\ pc = "data"
  /\ \E ok \in BOOLEAN :
       LET lba    == ClusterLba(vol, w.cluster, w.sector)
           amount == Min({w.remaining, SectorSize})
           data   == Append(w.data, <<lba, amount>>)
       IN  /\ ReadVolume(lba, ok)
           /\ IF ~ok THEN Fail
              ELSE IF amount = w.remaining
                   THEN Return([Failed EXCEPT !.ok = TRUE, !.data = data, !.entry = w.entry])
              ELSE /\ w' = [w EXCEPT !.remaining = @ - amount, !.data = data,
                                     !.sector = @ + 1, !.copy = 0]
                   /\ pc' = IF w.sector + 1 < vol.spc THEN "data" ELSE "file_fat"
                   /\ UNCHANGED out
  /\ UNCHANGED <<disk, vol, m, call>>

-----------------------------------------------------------------------------
(* diskls: the files are counted again for every name.  A scan of the root *)
(* gives up at the first sector that cannot be read.                       *)
ScanRoot(n, before, after) ==
  LET lost == IF n < RootSectors(vol.rootEntries) THEN Retries ELSE 0
  IN  before - after \in lost .. lost + n * (Retries - 1)

ListFiles ==
  /\ pc = "idle"
  /\ vol.mounted
  /\ pc' = "list"
  /\ call' = [NoCall EXCEPT !.listing = TRUE]
  /\ out' = Failed
  /\ UNCHANGED <<disk, glitches, vol, m, w>>

(* One turn of the loop of the shell; w.sector is its index. *)
ListNext ==
  /\ pc = "list"
  /\ \E counted, named \in 0 .. RootSectors(vol.rootEntries), between \in 0 .. glitches :
       /\ ScanRoot(counted, glitches, between)
       /\ IF w.sector >= Len(SeenFiles(disk, vol, counted))
          THEN /\ named = 0 /\ glitches' = between
               /\ Return([out EXCEPT !.ok = TRUE])
          ELSE /\ \E after \in 0 .. between :
                    ScanRoot(named, between, after) /\ glitches' = after
               /\ w' = [w EXCEPT !.sector = @ + 1]
               /\ LET seen == SeenFiles(disk, vol, named)
                  IN  out' = IF w.sector < Len(seen)
                             THEN [out EXCEPT !.names = Append(@, seen[w.sector + 1])]
                             ELSE out
               /\ UNCHANGED pc
  /\ UNCHANGED <<disk, vol, m, call>>

Step ==
  \/ VfsInit \/ ReadBoot \/ ReadHeader \/ ReadTable
  \/ FindEntry \/ ReadDirectoryFat \/ ReadFileFat \/ ReadData \/ ListNext

Next == Step \/ ReadFile \/ ListFiles

(* A call is straight-line code of one task. *)
Spec == Init /\ [][Next]_vars /\ WF_vars(Step)

-----------------------------------------------------------------------------
(* What the disk says, without the reads: the clusters that follow first,  *)
(* 0 where the copies of the FAT differ or the chain left the volume.      *)
Agreed(cluster) ==
  LET values == {FatEntry(disk, vol, cluster, copy) : copy \in 0 .. vol.fats - 1}
  IN  IF InRange(vol, cluster) /\ Cardinality(values) = 1 THEN Max(values) ELSE 0

Chain(first) ==
  LET c[i \in 1 .. vol.clusters] == IF i = 1 THEN first ELSE Agreed(c[i - 1])
  IN  c

(* The entries of a directory, in order. *)
RootDirectory == [i \in 0 .. vol.rootEntries - 1 |-> RootEntry(disk, vol, i)]

Subdirectory(first) ==
  LET chain == Chain(first)
  IN  [i \in 0 .. vol.clusters * vol.spc * DirPerSector - 1 |->
         LET sector == i \div DirPerSector
             lba    == ClusterLba(vol, chain[(sector \div vol.spc) + 1], sector % vol.spc)
         IN  IF InVolume(vol, lba) THEN DirAt(disk, lba, i % DirPerSector) ELSE Blank]

Lookup(directory, name) ==
  LET hits == {i \in DOMAIN directory :
                 /\ directory[i].name = name /\ ~Skipped(directory[i])
                 /\ \A j \in 0 .. i : directory[j].kind # "end"}
  IN  IF hits = {} THEN {} ELSE {directory[Min(hits)]}

(* The entry a path leads to, if it leads to one. *)
Resolved(path) ==
  LET at[i \in 1 .. Len(path)] ==
        IF ShortName[path[i]] = Invalid THEN {}
        ELSE IF i = 1 THEN Lookup(RootDirectory, ShortName[path[1]])
        ELSE UNION {Lookup(Subdirectory(e.cluster), ShortName[path[i]]) :
                      e \in {d \in at[i - 1] : d.kind = "dir" /\ InRange(vol, d.cluster)}}
  IN  at[Len(path)]

SectorsOf(size) == (size + SectorSize - 1) \div SectorSize
ClustersOf(size) == (SectorsOf(size) + vol.spc - 1) \div vol.spc

Readable(entry, capacity) ==
  /\ entry.kind = "file" /\ entry.size <= capacity
  /\ IF entry.size = 0 THEN entry.cluster = 0
     ELSE /\ ClustersOf(entry.size) <= vol.clusters
          /\ \A i \in 1 .. ClustersOf(entry.size) : InRange(vol, Chain(entry.cluster)[i])

(* The chain comes back to a cluster before it is as long as the file. *)
Circular(entry) ==
  \E i, j \in 1 .. Min({ClustersOf(entry.size), vol.clusters}) :
    /\ i < j /\ Chain(entry.cluster)[i] = Chain(entry.cluster)[j]
    /\ InRange(vol, Chain(entry.cluster)[i])

Contents(entry) ==
  [i \in 1 .. SectorsOf(entry.size) |->
     <<ClusterLba(vol, Chain(entry.cluster)[((i - 1) \div vol.spc) + 1], (i - 1) % vol.spc),
       Min({SectorSize, entry.size - (i - 1) * SectorSize})>>]

(* No read can have failed for good. *)
FewGlitches == MaxGlitches - glitches < Retries

Volumes(start) ==
  {v \in {MountedVolume(start, b.geometry) :
            b \in {x \in {BootAt(disk, start)} : x.signed /\ GeometryOK(x.geometry)}} :
     /\ start + v.total <= disk.sectors
     /\ \A copy \in 0 .. v.fats - 1 : HeaderOK(disk, v.fatStart + copy * v.spf)}

Starts ==
  LET boot == BootAt(disk, 0)
  IN  {0} \cup (IF boot.signed THEN {boot.parts[i].start : i \in 1 .. Partitions} ELSE {})

(* What is mounted is a FAT16 volume that lies on the device, and a disk   *)
(* with such a volume at its start is mounted (vfs_init).                  *)
MountIsTrue ==
  /\ vol.mounted => \E start \in Starts : vol \in Volumes(start)
  /\ pc = "idle" /\ FewGlitches /\ Ready /\ Volumes(0) # {} => vol \in Volumes(0)

(* A file that is read is the file the path leads to: its size, and its    *)
(* bytes along a chain on which all copies of the FAT agree.  Fewer errors *)
(* than a retry survives do not keep it from being read (fat_read_file).   *)
(* Nothing is claimed of a file whose chain is a circle: the guard only    *)
(* bounds the walk by the number of clusters, so the code serves the same  *)
(* cluster twice, although PROJECT_HANDOFF.md says that it refuses to.     *)
FileIsTrue ==
  pc = "idle" /\ vol.mounted /\ call.path # <<>> =>
    LET found  == Resolved(call.path)
        wanted == {e \in found : Readable(e, call.capacity)}
    IN  (\A e \in found : ~Circular(e)) =>
          /\ out.ok => \E e \in wanted : out.entry = e /\ out.data = Contents(e)
          /\ FewGlitches /\ wanted # {} => out.ok

(* A listing names files of the root, each once and in order; all of them, *)
(* if no read failed for good (fat_file_count, fat_file_name).             *)
ListingIsTrue ==
  pc = "idle" /\ call.listing =>
    LET files == {i \in 0 .. vol.rootEntries - 1 :
                    /\ Listed(RootEntry(disk, vol, i))
                    /\ \A j \in 0 .. i : RootEntry(disk, vol, j).kind # "end"}
    IN  /\ Range(out.names) \subseteq files
        /\ \A i, j \in 1 .. Len(out.names) : i < j => out.names[i] < out.names[j]
        /\ FewGlitches => Range(out.names) = files

(* Whatever is on the disk and whichever reads fail, what the file system  *)
(* mounts, reads and lists is what is there.  A volume that is cut off,    *)
(* copies of the FAT that differ, a chain that leaves the volume or stops  *)
(* short of the size, and a bad sector end in an error, never in the bytes *)
(* of something else (vfs.c, fat.c); a file on a circle is left out.       *)
DiskIsTrue == MountIsTrue /\ FileIsTrue /\ ListingIsTrue

(* Every call returns, although chains on the disk may run in a circle     *)
(* (the guards of find_entry_in_directory and fat_read_file).              *)
EveryCallEnds == pc # "idle" ~> pc = "idle"

=============================================================================
