------------------------------ MODULE FatVolume ------------------------------
(***************************************************************************)
(* The volume under FatFs (libs/fatfs/ff.c): sectors on the card, the one  *)
(* sector window in memory through which every FAT and directory access    *)
(* goes, FAT entries and directory entries.  A function of ff.c is an      *)
(* operator on a record m and returns the record after it:                 *)
(*                                                                         *)
(*   disk            the sectors of the card                               *)
(*   win, winsect, wflag, last_clst, fsi_flag    the fields of FATFS       *)
(*   res             the FRESULT of the last function                      *)
(*   val             the value it returned, where it returns one           *)
(*   fuse, fault     disk accesses until a fault (-1: no more), and what   *)
(*                   it is; only "lost" counts reads                       *)
(*   off             power is lost: no later write reaches the card        *)
(*                                                                         *)
(* A read fails; a write fails with the sector "lost" or "done"; "power"   *)
(* ends the card's life before a write.                                    *)
(*                                                                         *)
(* FAT32, two FATs, FSInfo used for last_clst only (FF_FS_NOFSINFO 1), one *)
(* sector per cluster.  The root directory has room for Slots entries, one *)
(* entry per file, and does not grow.  No exFAT.                           *)
(***************************************************************************)
EXTENDS Integers, Sequences, FiniteSets

CONSTANTS
    LastCluster,      \* n_fatent - 1
    EntriesPerFat,    \* FAT entries in a sector
    Slots,            \* directory entries
    SlotsPerSector,   \* of them in a sector
    SectorSize,       \* bytes in a sector
    Names, Bytes      \* of files, in files

ASSUME VolumeAssumption ==
    /\ LastCluster \in Nat /\ LastCluster >= 3 /\ LastCluster < 268435447   \* MAX_FAT32 + 2
    /\ {EntriesPerFat, Slots, SlotsPerSector, SectorSize} \subseteq Nat \ {0}

Clusters == 2 .. LastCluster
Free == 0
Insane == 1                      \* get_fat, create_chain: internal error
Eoc == 268435455                 \* 0x0FFFFFFF
DiskError == -1                  \* 0xFFFFFFFF
Unknown == -1                    \* last_clst, dito

FatSector(c) == <<"fat", c \div EntriesPerFat>>
Mirror(s)    == <<"fat2", s[2]>>
DirSector(i) == <<"dir", i \div SlotsPerSector>>
DataSector(c) == <<"data", c>>
InfoSector   == <<"info", 0>>
NoSector     == <<"none", 0>>    \* 0xFFFFFFFF

FatSectors == {FatSector(c) : c \in Clusters}
DirSectors == {DirSector(i) : i \in 1 .. Slots}
Sectors == FatSectors \cup {Mirror(s) : s \in FatSectors} \cup DirSectors
           \cup {DataSector(c) : c \in Clusters} \cup {InfoSector}

(* Directory entries: a file, none ever (name byte 0), a deleted one.      *)
Never   == [use |-> "never"]
Deleted == [use |-> "deleted"]
File(n, c, z) == [use |-> "file", name |-> n, clust |-> c, size |-> z]
IsFile(e) == e.use = "file"

(* What a sector holds. *)
Links == {Free, Eoc} \cup Clusters
DirEntries == {Never, Deleted}
              \cup [use : {"file"}, name : Names, clust : {0} \cup Clusters, size : Nat]
Sectorful == [1 .. SectorSize -> Bytes \cup {0}]
FatContents(s) == [{c \in Clusters : FatSector(c) = s} -> Links]
DirContents(s) == [{i \in 1 .. Slots : DirSector(i) = s} -> DirEntries]
Holds(s, x) ==
    /\ s \in FatSectors => x \in FatContents(s)
    /\ \A t \in FatSectors : s = Mirror(t) => x \in FatContents(t)
    /\ s \in DirSectors => x \in DirContents(s)
    /\ \A c \in Clusters : s = DataSector(c) => x \in Sectorful
    /\ s = InfoSector => x \in Int

(***************************************************************************)
(* disk_read and disk_write (diskio.c).                                    *)
(***************************************************************************)
Ok(m) == [m EXCEPT !.res = "OK"]
Fail(m, r) == [m EXCEPT !.res = r]
Then(m, After(_)) == IF m.res = "OK" THEN After(m) ELSE m
Strikes(m) == m.fuse = 0
Burn(m) == [m EXCEPT !.fuse = IF @ > 0 THEN @ - 1 ELSE -1]

disk_write(m, s, x) ==
    LET written == [Burn(m) EXCEPT !.disk[s] = x] IN
    CASE m.off -> Ok(m)
      [] ~m.off /\ ~Strikes(m) -> Ok(written)
      [] ~m.off /\ Strikes(m) /\ m.fault = "lost"  -> Fail(Burn(m), "DISK_ERR")
      [] ~m.off /\ Strikes(m) /\ m.fault = "done"  -> Fail(written, "DISK_ERR")
      [] ~m.off /\ Strikes(m) /\ m.fault = "power" -> [Ok(Burn(m)) EXCEPT !.off = TRUE]

disk_read(m) ==
    IF m.fault # "lost" THEN Ok(m)
    ELSE IF Strikes(m) THEN Fail(Burn(m), "DISK_ERR") ELSE Ok(Burn(m))

(* A failure to write the second FAT is not reported.                      *)
Reflect(m, s) ==
    IF s \in FatSectors THEN Ok(disk_write(m, Mirror(s), m.win)) ELSE Ok(m)

sync_window(m) ==
    IF ~m.wflag THEN Ok(m)
    ELSE Then(disk_write(m, m.winsect, m.win),
              LAMBDA w : Reflect([w EXCEPT !.wflag = FALSE], w.winsect))

LoadWindow(m, s) ==
    LET r == disk_read(m) IN
    IF r.res = "OK" THEN [r EXCEPT !.winsect = s, !.win = m.disk[s]]
                    ELSE [r EXCEPT !.winsect = NoSector]

(* Seeded: the window is left marked as the old sector when the read fails *)
(* half way.                                                               *)
move_window_NoInvalidate(m, s) ==
    IF s = m.winsect THEN Ok(m)
    ELSE Then(sync_window(m),
              LAMBDA w : IF disk_read(w).res = "OK" THEN LoadWindow(w, s)
                         ELSE [disk_read(w) EXCEPT !.win = m.disk[s]])
move_window(m, s) ==
    IF s = m.winsect THEN Ok(m)
    ELSE Then(sync_window(m), LAMBDA w : LoadWindow(w, s))

(* The hint of FSInfo goes out when it changed; a failure is ignored.       *)
(* disk_ioctl(CTRL_SYNC) has nothing to do.                                *)
WriteInfo(m) ==
    [Ok(disk_write([m EXCEPT !.win = m.last_clst, !.winsect = InfoSector],
                   InfoSector, m.last_clst)) EXCEPT !.fsi_flag = 0]
sync_fs(m) ==
    Then(sync_window(m), LAMBDA w : IF w.fsi_flag = 1 THEN WriteInfo(w) ELSE w)

(* Sets x in the window at key k of its sector.                            *)
Poke(m, k, x) == [Ok(m) EXCEPT !.win[k] = x, !.wflag = TRUE]

(***************************************************************************)
(* FAT entries: get_fat leaves the entry, or Insane or DiskError, in val.  *)
(***************************************************************************)
Entry(m, c) == [m EXCEPT !.val = IF m.res = "OK" THEN m.win[c] ELSE DiskError]
get_fat(m, c) ==
    IF c \notin Clusters THEN [m EXCEPT !.val = Insane]
    ELSE Entry(move_window(m, FatSector(c)), c)

put_fat(m, c, x) ==
    IF c \notin Clusters THEN Fail(m, "INT_ERR")
    ELSE Then(move_window(m, FatSector(c)), LAMBDA w : Poke(w, c, x))

(* An iteration of remove_chain: val is the next cluster, if there is one. *)
FreeLink(m, c) ==
    CASE m.val = Free      -> Ok(m)
      [] m.val = Insane    -> Fail(m, "INT_ERR")
      [] m.val = DiskError -> Fail(m, "DISK_ERR")
      [] OTHER             -> put_fat(m, c, Free)

(***************************************************************************)
(* create_chain                                                            *)
(***************************************************************************)
(* Where the search for a free cluster starts: for a first cluster (c = 0) *)
(* or one behind c.                                                        *)
Hint(last_clst, c) ==
    IF c = 0 THEN IF last_clst \in 1 .. LastCluster THEN last_clst ELSE 1
    ELSE IF last_clst \in Clusters THEN last_clst ELSE c

NextCluster(c) == IF c + 1 > LastCluster THEN 2 ELSE c + 1

(* The search from scl on has been everywhere when it comes to ncl.        *)
Exhausted_NoWrap(scl, ncl) == ncl + 1 > LastCluster   \* seeded: ends at the last cluster
Exhausted(scl, ncl) == ncl + 1 > LastCluster /\ 2 > scl

Sane(m) == IF m.val = Insane THEN Fail(m, "INT_ERR") ELSE m
Occupied(m) == IF m.val \in {Free, Insane} THEN Fail(m, "INT_ERR") ELSE m

(* Looks at the cluster behind ncl.                                        *)
LookBehind(m, scl, ncl) ==
    IF Exhausted(scl, ncl) THEN m ELSE Sane(get_fat(m, NextCluster(ncl)))

(* Seeded: linked before it is marked, the link written first.             *)
Claim_LinkFirst(m, c, ncl) ==
    Then(IF c = 0 THEN Ok(m) ELSE put_fat(m, c, ncl),
         LAMBDA link : put_fat(link, ncl, Eoc))
(* Marked as the end of a chain, then linked from its predecessor.         *)
Claim(m, c, ncl) ==
    Then(put_fat(m, ncl, Eoc),
         LAMBDA mark : IF c # 0 THEN put_fat(mark, c, ncl) ELSE mark)
Claimed(m, ncl) ==
    IF m.res = "OK"
    THEN [m EXCEPT !.last_clst = ncl, !.fsi_flag = IF @ = 128 THEN 129 ELSE 1]
    ELSE m

(***************************************************************************)
(* The directory: wanted is {} for a free entry, {n} for that of file n.   *)
(***************************************************************************)
Matches(e, wanted) ==
    IF IsFile(e) THEN e.name \in wanted ELSE wanted = {}

dir_remove(m, i) ==
    Then(move_window(m, DirSector(i)), LAMBDA w : Poke(w, i, Deleted))

(***************************************************************************)
(* What a driver that mounts the card afresh finds on it.                  *)
(***************************************************************************)
FatOf(disk, c) == disk[FatSector(c)][c]
EntryOf(disk, i) == disk[DirSector(i)][i]
Listed(disk) ==
    {i \in 1 .. Slots : /\ IsFile(EntryOf(disk, i))
                        /\ \A j \in 1 .. i : EntryOf(disk, j) # Never}
Has(disk, n) == \E i \in Listed(disk) : EntryOf(disk, i).name = n
SlotOf(disk, n) == CHOOSE i \in Listed(disk) : EntryOf(disk, i).name = n

(* The runs of k linked clusters from c on. *)
Paths(disk, c, k) ==
    {q \in [1 .. k -> Clusters] :
        /\ q[1] = c
        /\ \A j \in 1 .. k - 1 : FatOf(disk, q[j]) = q[j + 1]}

(* Byte b of a file is in the sector of its cluster Nth(b).                *)
Nth(b) == 1 + ((b - 1) \div SectorSize)
ByteOn(disk, q, b) == disk[DataSector(q[Nth(b)])][1 + ((b - 1) % SectorSize)]

(* The entry leads to the bytes x.                                         *)
HasContent(disk, i, x) ==
    LET e == EntryOf(disk, i)
    IN  /\ Len(x) = e.size
        /\ e.size > 0 =>
              \E q \in Paths(disk, e.clust, Nth(e.size)) :
                 \A b \in 1 .. e.size : ByteOn(disk, q, b) = x[b]

(* Where the clusters of the card are named: by an entry, by another link. *)
RefsTo(disk, c) ==
    {<<"dir", i>> : i \in {i \in Listed(disk) : EntryOf(disk, i).clust = c}}
    \cup {<<"fat", b>> : b \in {b \in Clusters : FatOf(disk, b) = c}}
=============================================================================
