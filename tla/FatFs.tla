-------------------------------- MODULE FatFs --------------------------------
(***************************************************************************)
(* FatFs (libs/fatfs/ff.c) as sd.c uses it: f_mount and f_unmount, a file  *)
(* saved (sd_save_to_file: f_open with FA_CREATE_ALWAYS | FA_WRITE,        *)
(* f_write, f_close) or loaded (sd_file_read: f_open with FA_READ, f_read, *)
(* f_close), and f_unlink and f_rename of the library.  One file is open   *)
(* at a time (FF_FS_LOCK is 0: the library does not look).                 *)
(*                                                                         *)
(* Code                                     Model                          *)
(* the card's sectors                       disk                           *)
(* FATFS sd_fs: window, hint; fs_type # 0   fs; fs.mounted                 *)
(* FIL fp                                   fp                             *)
(* the call that runs: its arguments and    call: fn, pc (where it is),    *)
(*   local variables                          name, new, i (slot looked    *)
(*                                            at), dir (slot found), e     *)
(*                                            (entry found), clst, scl,    *)
(*                                            btw, left, tok, got          *)
(*                                                                         *)
(* A step is an iteration of a loop of the library or what lies between    *)
(* two loops, with at most one fault at one of its disk accesses           *)
(* (FatVolume): an access fails, or power is lost and the card is mounted  *)
(* again as it is.                                                         *)
(*                                                                         *)
(* History: may (what each file may hold on the card, by what the calls    *)
(* did: {} for no file), fp.name, fp.bytes (what f_write took), reply (an  *)
(* answer of the last f_open, f_write or f_read), moving (the names of a   *)
(* rename in its critical section, and whether the file was there); calls, *)
(* faults (bounds).                                                        *)
(***************************************************************************)
EXTENDS FatVolume

CONSTANTS
    Images,        \* what is on the card at first
    Writes,        \* of f_write: bytes to write, and their value
    NoName,        \* no argument
    MaxFaults, MaxCalls

VARIABLES disk, fs, fp, call, may, reply, moving, calls, faults

fat_vars == <<disk, fs, fp, call, may, reply, moving, calls, faults>>

NoFs == [win |-> <<>>, winsect |-> NoSector, wflag |-> FALSE,
         last_clst |-> Unknown, fsi_flag |-> 0, mounted |-> FALSE]
NoFp == [open |-> FALSE]
NoReply == [call |-> "none"]
NoCall == [fn |-> "none", pc |-> "idle", name |-> NoName, new |-> NoName, i |-> 0,
           dir |-> 0, e |-> Never, clst |-> 0, scl |-> 0,
           btw |-> 0, left |-> 0, tok |-> 0, got |-> <<>>]

(* The card as the driver sees it: with the window over it.                *)
View == IF fs.wflag THEN [disk EXCEPT ![fs.winsect] = fs.win] ELSE disk

(***************************************************************************)
(* f_mount(&fs, "0:", 1): the boot sector, then FSInfo.  check_fs drops    *)
(* the window.  Without FSInfo there is no hint, and none is written.      *)
(***************************************************************************)
find_volume(readable) ==
    [NoFs EXCEPT !.mounted = TRUE,
                 !.win = IF readable THEN disk[InfoSector] ELSE <<>>,
                 !.winsect = IF readable THEN InfoSector ELSE NoSector,
                 !.last_clst = IF readable THEN disk[InfoSector] ELSE Unknown,
                 !.fsi_flag = IF readable THEN 0 ELSE 128]

Mount ==
    /\ ~fs.mounted
    /\ \E readable \in BOOLEAN :
          /\ readable \/ faults < MaxFaults
          /\ fs' = find_volume(readable)
          /\ faults' = IF readable THEN faults ELSE faults + 1
    /\ UNCHANGED <<disk, fp, call, may, reply, moving, calls>>

Unmount ==
    /\ fs.mounted /\ call.pc = "idle" /\ ~fp.open
    /\ fs' = NoFs /\ reply' = NoReply
    /\ UNCHANGED <<disk, fp, call, may, moving, calls, faults>>

(***************************************************************************)
(* Calls                                                                   *)
(***************************************************************************)
Begin ==
    /\ fs.mounted /\ call.pc = "idle" /\ moving = {}
    /\ calls < MaxCalls /\ calls' = calls + 1
    /\ reply' = NoReply
    /\ UNCHANGED <<disk, fs, moving, faults>>

f_open(n, fn) ==
    /\ Begin /\ ~fp.open
    /\ call' = [NoCall EXCEPT !.fn = fn, !.pc = "find", !.name = n, !.i = 1]
    /\ UNCHANGED fp

f_open_create(n) ==
    /\ f_open(n, "f_open_create")
    /\ may' = [may EXCEPT ![n] = @ \cup {{<<>>}}]

f_open_read(n) == f_open(n, "f_open_read") /\ UNCHANGED may

f_unlink(n) == f_open(n, "f_unlink") /\ UNCHANGED may

f_rename(old, new) ==
    /\ Begin /\ ~fp.open
    /\ old # new
    /\ call' = [NoCall EXCEPT !.fn = "f_rename", !.pc = "find", !.name = old, !.new = new, !.i = 1]
    /\ UNCHANGED <<fp, may>>

f_write(n, tok) ==
    /\ Begin /\ fp.open /\ fp.write /\ fp.err = "OK"
    /\ call' = [NoCall EXCEPT !.fn = "f_write", !.pc = "round", !.btw = n, !.left = n, !.tok = tok]
    /\ UNCHANGED <<fp, may>>

(* The whole file, as sd_file_read does. *)
f_read ==
    /\ Begin /\ fp.open /\ ~fp.write /\ fp.fptr = 0 /\ fp.err = "OK"
    /\ call' = [NoCall EXCEPT !.fn = "f_read", !.pc = "read"]
    /\ UNCHANGED <<fp, may>>

(* f_close is f_sync, then the file object is given up.  FA_MODIFIED is    *)
(* set since the f_open that created the file.                             *)
f_close ==
    /\ fs.mounted /\ call.pc = "idle" /\ fp.open /\ fp.write
    /\ call' = [NoCall EXCEPT !.fn = "f_close", !.pc = "flush"]
    /\ may' = [may EXCEPT ![fp.name] = @ \cup {{fp.bytes}}]
    /\ reply' = NoReply
    /\ UNCHANGED <<disk, fs, fp, moving, calls, faults>>

f_close_read ==
    /\ fs.mounted /\ call.pc = "idle" /\ fp.open /\ ~fp.write
    /\ fp' = NoFp
    /\ reply' = NoReply
    /\ UNCHANGED <<disk, fs, call, may, moving, calls, faults>>

(***************************************************************************)
(* A step: from the state and a fault to the record of FatVolume, and      *)
(* back.  It makes at most four accesses.                                  *)
(***************************************************************************)
NoFault == [fuse |-> -1, fault |-> "none"]
Faults == {NoFault} \cup
          (IF faults < MaxFaults
           THEN [fuse : 0 .. 3, fault : {"lost", "done", "power"}] ELSE {})

Start(f) ==
    [disk |-> disk, win |-> fs.win, winsect |-> fs.winsect, wflag |-> fs.wflag,
     last_clst |-> fs.last_clst, fsi_flag |-> fs.fsi_flag,
     res |-> "OK", val |-> 0, fuse |-> f.fuse, fault |-> f.fault, off |-> FALSE]

Step(m, f) ==
    /\ m.fuse = -1                      \* the fault struck
    /\ faults' = IF f = NoFault THEN faults ELSE faults + 1
    /\ disk' = m.disk
    /\ fs' = IF m.off THEN NoFs
             ELSE [fs EXCEPT !.win = m.win, !.winsect = m.winsect, !.wflag = m.wflag,
                             !.last_clst = m.last_clst, !.fsi_flag = m.fsi_flag]
    /\ UNCHANGED calls

Goes(m) == m.res = "OK" /\ ~m.off

(* Power is lost, or the call fails.  Nobody retries f_close; a read or    *)
(* written file is not used further (ABORT).                               *)
Cut(m) ==
    /\ ~Goes(m)
    /\ call' = NoCall
    /\ fp' = CASE m.off \/ call.fn = "f_close" -> NoFp
               [] ~m.off /\ call.fn \in {"f_write", "f_read"} -> [fp EXCEPT !.err = m.res]
               [] OTHER -> fp
    /\ UNCHANGED <<may, reply, moving>>

GoesOn(c) == call' = c /\ UNCHANGED <<fp, may, reply, moving>>

(***************************************************************************)
(* dir_find for the name, dir_find for the new name, dir_alloc             *)
(***************************************************************************)
Scanning == call.pc \in {"find", "find_new", "alloc"}
Wanted == CASE call.pc = "find" -> {call.name} [] call.pc = "find_new" -> {call.new}
            [] call.pc = "alloc" -> {}

Looked(f) == move_window(Start(f), DirSector(call.i))
Hit(m) == Goes(m) /\ Matches(m.win[call.i], Wanted)

dir_next ==
    /\ Scanning
    /\ \E f \in Faults : \E m \in {Looked(f)} :
          /\ Step(m, f)
          /\ \/ Cut(m)
             \/ /\ Goes(m) /\ ~Hit(m)
                /\ m.win[call.i] # Never /\ call.i < Slots
                /\ GoesOn([call EXCEPT !.i = @ + 1])

(* A new file and the new name of a file need an entry; otherwise the      *)
(* answer is NO_FILE, or DENIED when no entry is free.                     *)
NotFound ==
    /\ Scanning
    /\ \E f \in Faults : \E m \in {Looked(f)} :
          /\ Step(m, f)
          /\ Goes(m) /\ ~Hit(m)
          /\ m.win[call.i] = Never \/ call.i = Slots
          /\ \/ /\ call.pc = "find_new" \/ (call.pc = "find" /\ call.fn = "f_open_create")
                /\ GoesOn([call EXCEPT !.pc = "alloc", !.i = 1,
                                     !.new = IF call.pc = "find" THEN call.name ELSE @])
             \/ /\ call.pc = "alloc" \/ (call.pc = "find" /\ call.fn # "f_open_create")
                /\ call' = NoCall
                /\ reply' = IF call.fn = "f_open_read" THEN [call |-> "f_open", name |-> call.name]
                            ELSE NoReply
                /\ UNCHANGED <<fp, may, moving>>

(***************************************************************************)
(* f_open                                                                  *)
(***************************************************************************)
FileObject(e, i, write) ==
    [open |-> TRUE, name |-> e.name, write |-> write, slot |-> i,
     sclust |-> e.clust, objsize |-> e.size, fptr |-> 0, clust |-> 0, sect |-> 0,
     buf |-> [k \in 1 .. SectorSize |-> 0], dirty |-> FALSE, err |-> "OK", bytes |-> <<>>]

Opened(e, i, write) ==
    /\ fp' = FileObject(e, i, write)
    /\ call' = NoCall
    /\ UNCHANGED <<may, reply, moving>>

OpenRead ==
    /\ call.pc = "find" /\ call.fn = "f_open_read"
    /\ \E f \in Faults : \E m \in {Looked(f)} :
          /\ Hit(m) /\ Step(m, f)
          /\ Opened(m.win[call.i], call.i, FALSE)

(* Seeded: the entry lets go of its chain only when the file is closed.    *)
Emptied_Late(m, i) == m
Emptied(m, i) == Poke(m, i, File(m.win[i].name, 0, 0))

(* The entry is emptied, then its old chain freed.                         *)
Overwrite ==
    /\ call.pc = "find" /\ call.fn = "f_open_create"
    /\ \E f \in Faults : \E m \in {Looked(f)} :
          LET e == m.win[call.i]
              t == Emptied(m, call.i)
          IN  /\ Hit(m) /\ Step(t, f)
              /\ \/ e.clust = 0 /\ Opened(t.win[call.i], call.i, TRUE)
                 \/ /\ e.clust # 0
                    /\ GoesOn([call EXCEPT !.pc = "free", !.dir = call.i, !.e = e, !.clst = e.clust])

(* The window returns to the entry and the hint points at the hole.        *)
BackToEntry ==
    /\ call.pc = "back"
    /\ \E f \in Faults :
       \E m \in {[move_window(Start(f), DirSector(call.dir)) EXCEPT !.last_clst = call.e.clust - 1]} :
          /\ Step(m, f)
          /\ Cut(m) \/ (Goes(m) /\ Opened(m.win[call.dir], call.dir, TRUE))

(***************************************************************************)
(* dir_register, for a new file or, in a rename, a second entry of a file  *)
(***************************************************************************)
dir_register ==
    /\ call.pc = "alloc"
    /\ \E f \in Faults : \E m \in {Looked(f)} :
          LET e == File(call.new, 0, 0)
          IN  /\ Hit(m) /\ Step(Poke(m, call.i, e), f)
              /\ \/ call.fn = "f_open_create" /\ Opened(e, call.i, TRUE)
                 \/ /\ call.fn = "f_rename"
                    /\ call' = [call EXCEPT !.pc = "move"]
                    /\ may' = [may EXCEPT ![call.new] = @ \cup may[call.name] \cup {{<<>>}},
                                          ![call.name] = @ \cup {{}}]
                    /\ moving' = {<<call.name, call.new, {} \notin may[call.name]>>}
                    /\ UNCHANGED <<fp, reply>>

(***************************************************************************)
(* remove_chain, one cluster                                               *)
(***************************************************************************)
remove_chain ==
    /\ call.pc = "free"
    /\ \E f \in Faults : \E m \in {FreeLink(get_fat(Start(f), call.clst), call.clst)} :
          /\ Step(m, f)
          /\ \/ Cut(m)
             \/ Goes(m) /\ m.val \in Clusters /\ GoesOn([call EXCEPT !.clst = m.val])
             \/ /\ Goes(m) /\ m.val \notin Clusters
                /\ GoesOn([call EXCEPT !.pc = IF call.fn = "f_unlink" THEN "sync" ELSE "back"])

(***************************************************************************)
(* f_unlink, f_rename                                                      *)
(***************************************************************************)
Unlink ==
    /\ call.pc = "find" /\ call.fn = "f_unlink"
    /\ \E f \in Faults : \E m \in {Looked(f)} :
          LET clust == m.win[call.i].clust
          IN  /\ Hit(m) /\ Step(dir_remove(m, call.i), f)
              /\ call' = [call EXCEPT !.pc = IF clust = 0 THEN "sync" ELSE "free", !.clst = clust]
              /\ may' = [may EXCEPT ![call.name] = @ \cup {{}}]
              /\ UNCHANGED <<fp, reply, moving>>

FoundOld ==
    /\ call.pc = "find" /\ call.fn = "f_rename"
    /\ \E f \in Faults : \E m \in {Looked(f)} :
          /\ Hit(m) /\ Step(m, f)
          /\ GoesOn([call EXCEPT !.pc = "find_new", !.i = 1, !.dir = call.i, !.e = m.win[call.i]])

Exists ==
    /\ call.pc = "find_new"
    /\ \E f \in Faults : \E m \in {Looked(f)} :
          /\ Hit(m) /\ Step(m, f)
          /\ GoesOn(NoCall)

(* The second entry gets the file, then the first is removed.              *)
Moved(m) == dir_remove(Poke(m, call.i, File(call.new, call.e.clust, call.e.size)), call.dir)
Rename ==
    /\ call.pc = "move"
    /\ \E f \in Faults : \E m \in {Moved(Start(f))} :
          /\ Step(m, f)
          /\ Cut(m) \/ (Goes(m) /\ GoesOn([call EXCEPT !.pc = "sync"]))

(***************************************************************************)
(* sync_fs at the end of f_unlink, f_rename and f_close.                   *)
(***************************************************************************)
Known ==
    CASE call.fn = "f_unlink" -> [may EXCEPT ![call.name] = {{}}]
      [] call.fn = "f_rename" -> [may EXCEPT ![call.new] = may[call.name] \ {{}}, ![call.name] = {{}}]
      [] call.fn = "f_close"  -> [may EXCEPT ![fp.name] = {{fp.bytes}}]

Synced ==
    /\ call.pc = "sync"
    /\ \E f \in Faults : \E m \in {sync_fs(Start(f))} :
          /\ Step(m, f)
          /\ \/ Cut(m)
             \/ /\ Goes(m)
                /\ call' = NoCall
                /\ may' = Known
                /\ moving' = {}
                /\ fp' = IF call.fn = "f_close" THEN NoFp ELSE fp
                /\ UNCHANGED reply

(***************************************************************************)
(* f_write, from the end of the file: the bytes of a sector at a time,     *)
(* whole sectors straight from the caller's buffer, a part of one into     *)
(* fp->buf.                                                                *)
(***************************************************************************)
OnBoundary == fp.fptr % SectorSize = 0

Advance(p, n) ==
    LET end == p.fptr + n IN
    [p EXCEPT !.fptr = end,
              !.objsize = IF end > @ THEN end ELSE @,
              !.bytes = @ \o [k \in 1 .. n |-> call.tok]]

(* Into the buffer, up to the end of the sector.                           *)
Buffer(p) ==
    LET at == p.fptr % SectorSize
        put == IF SectorSize - at < call.left THEN SectorSize - at ELSE call.left
    IN  /\ fp' = Advance([p EXCEPT !.buf = [k \in 1 .. SectorSize |->
                                  IF k \in (at + 1) .. (at + put) THEN call.tok ELSE @[k]],
                                   !.dirty = TRUE], put)
        /\ call' = [call EXCEPT !.pc = "round", !.left = @ - put]
        /\ UNCHANGED <<disk, fs, may, reply, moving, calls, faults>>

WriteReturns ==
    /\ call' = NoCall
    /\ reply' = [call |-> "f_write", btw |-> call.btw, bw |-> call.btw - call.left]
    /\ UNCHANGED <<fp, may, moving>>

AllWritten ==
    /\ call.pc = "round" /\ call.left = 0
    /\ WriteReturns
    /\ UNCHANGED <<disk, fs, calls, faults>>

FillBuffer == call.pc = "round" /\ call.left > 0 /\ ~OnBoundary /\ Buffer(fp)

(* A sector begins: its cluster is the first one, or create_chain's.       *)
NextSector ==
    /\ call.pc = "round" /\ call.left > 0 /\ OnBoundary
    /\ call' = CASE fp.fptr # 0 -> [call EXCEPT !.pc = "follow"]
               [] fp.fptr = 0 /\ fp.sclust # 0 -> [call EXCEPT !.pc = "flush"]
               [] fp.fptr = 0 /\ fp.sclust = 0 ->
                     [call EXCEPT !.pc = "search", !.scl = Hint(fs.last_clst, 0),
                                !.clst = Hint(fs.last_clst, 0)]
    /\ fp' = IF fp.fptr = 0 THEN [fp EXCEPT !.clust = fp.sclust] ELSE fp
    /\ UNCHANGED <<disk, fs, may, reply, moving, calls, faults>>

(* create_chain behind fp->clust: the cluster that follows, if there is    *)
(* one; then the cluster next to it is tried.                              *)
Follow ==
    /\ call.pc = "follow"
    /\ \E f \in Faults : \E m \in {Occupied(get_fat(Start(f), fp.clust))} :
          /\ Step(m, f)
          /\ \/ Cut(m)
             \/ /\ Goes(m)
                /\ call' = [call EXCEPT !.pc = IF m.val \in Clusters THEN "flush" ELSE "next"]
                /\ fp' = [fp EXCEPT !.clust = IF m.val \in Clusters THEN m.val ELSE @]
                /\ UNCHANGED <<may, reply, moving>>

TryNext ==
    /\ call.pc = "next"
    /\ \E f \in Faults : \E m \in {Sane(get_fat(Start(f), NextCluster(fp.clust)))} :
          /\ Step(m, f)
          /\ \/ Cut(m)
             \/ /\ Goes(m) /\ m.val = Free
                /\ GoesOn([call EXCEPT !.pc = "claim", !.clst = NextCluster(fp.clust)])
             \/ /\ Goes(m) /\ m.val # Free
                /\ GoesOn([call EXCEPT !.pc = "search", !.scl = Hint(fs.last_clst, fp.clust),
                                     !.clst = Hint(fs.last_clst, fp.clust)])

(* The search from behind scl, around the volume, back to scl.             *)
FindFree ==
    /\ call.pc = "search"
    /\ \E f \in Faults : \E m \in {LookBehind(Start(f), call.scl, call.clst)} :
          LET full == Exhausted(call.scl, call.clst)
              ncl == NextCluster(call.clst)
          IN  /\ Step(m, f)
              /\ \/ Cut(m)
                 \/ /\ Goes(m) /\ ~full /\ m.val = Free
                    /\ GoesOn([call EXCEPT !.pc = "claim", !.clst = ncl])
                 \/ /\ Goes(m) /\ ~full /\ m.val # Free /\ ncl # call.scl
                    /\ GoesOn([call EXCEPT !.clst = ncl])
                 \/ /\ Goes(m) /\ (full \/ (m.val # Free /\ ncl = call.scl))
                    /\ WriteReturns

ClaimCluster ==
    /\ call.pc = "claim"
    /\ \E f \in Faults : \E m \in {Claimed(Claim(Start(f), fp.clust, call.clst), call.clst)} :
          /\ Step(m, f)
          /\ \/ Cut(m)
             \/ /\ Goes(m)
                /\ call' = [call EXCEPT !.pc = "flush"]
                /\ fp' = [fp EXCEPT !.clust = call.clst,
                                    !.sclust = IF @ = 0 THEN call.clst ELSE @]
                /\ UNCHANGED <<may, reply, moving>>

(* The last sector's bytes go out before fp->buf is used for another.      *)
FlushBuf(m) == IF fp.dirty THEN disk_write(m, DataSector(fp.sect), fp.buf) ELSE m
Flush ==
    /\ call.pc = "flush"
    /\ \E f \in Faults : \E m \in {FlushBuf(Start(f))} :
          /\ Step(m, f)
          /\ \/ Cut(m)
             \/ /\ Goes(m)
                /\ call' = [call EXCEPT !.pc = IF call.fn = "f_close" THEN "entry" ELSE "store"]
                /\ fp' = [fp EXCEPT !.dirty = FALSE]
                /\ UNCHANGED <<may, reply, moving>>

WriteSector ==
    /\ call.pc = "store" /\ call.left >= SectorSize
    /\ \E f \in Faults :
       \E m \in {disk_write(Start(f), DataSector(fp.clust), [k \in 1 .. SectorSize |-> call.tok])} :
          /\ Step(m, f)
          /\ \/ Cut(m)
             \/ /\ Goes(m)
                /\ fp' = Advance(fp, SectorSize)
                /\ call' = [call EXCEPT !.pc = "round", !.left = @ - SectorSize]
                /\ UNCHANGED <<may, reply, moving>>

StartBuffer ==
    call.pc = "store" /\ call.left < SectorSize /\ Buffer([fp EXCEPT !.sect = fp.clust])

(***************************************************************************)
(* f_sync of f_close: what f_write left goes into the entry.               *)
(***************************************************************************)
WithEntry(m) ==
    Then(move_window(m, DirSector(fp.slot)),
         LAMBDA w : Poke(w, fp.slot, File(fp.name, fp.sclust, fp.objsize)))
f_sync ==
    /\ call.pc = "entry"
    /\ \E f \in Faults : \E m \in {WithEntry(Start(f))} :
          /\ Step(m, f)
          /\ Cut(m) \/ (Goes(m) /\ GoesOn([call EXCEPT !.pc = "sync"]))

(***************************************************************************)
(* f_read: the cluster that follows, then its sector.                      *)
(***************************************************************************)
ReadCluster(m) ==
    LET g == IF fp.fptr = 0 THEN [m EXCEPT !.val = fp.sclust] ELSE get_fat(m, fp.clust)
    IN  IF g.res = "OK" /\ g.val \notin Clusters THEN Fail(g, "INT_ERR") ELSE g

ReadSector ==
    /\ call.pc = "read" /\ fp.fptr < fp.objsize
    /\ \E f \in Faults : \E m \in {Then(ReadCluster(Start(f)), disk_read)} :
          LET left == fp.objsize - fp.fptr
              n == IF left < SectorSize THEN left ELSE SectorSize
          IN  /\ Step(m, f)
              /\ \/ Cut(m)
                 \/ /\ Goes(m)
                    /\ fp' = [fp EXCEPT !.clust = m.val, !.fptr = @ + n]
                    /\ call' = [call EXCEPT !.got = @ \o SubSeq(m.disk[DataSector(m.val)], 1, n)]
                    /\ UNCHANGED <<may, reply, moving>>

ReadReturns ==
    /\ call.pc = "read" /\ fp.fptr >= fp.objsize
    /\ call' = NoCall
    /\ reply' = [call |-> "f_read", name |-> fp.name, got |-> call.got]
    /\ UNCHANGED <<disk, fs, fp, may, moving, calls, faults>>

(***************************************************************************)
(* Specification                                                           *)
(***************************************************************************)
(* The chain of an entry ends, and is as long as its file needs.           *)
ChainEnds(d, i) ==
    LET e == EntryOf(d, i)
    IN  IF e.clust = 0 THEN e.size = 0
        ELSE \E k \in 1 .. LastCluster : \E q \in Paths(d, e.clust, k) :
                FatOf(d, q[k]) = Eoc /\ k * SectorSize >= e.size
FreeClusters(d) == {c \in Clusters : FatOf(d, c) = Free}

(* A card with nothing wrong.                                              *)
Flawless(d) ==
    /\ d = [s \in Sectors |-> d[s]]
    /\ \A s \in Sectors : Holds(s, d[s])
    /\ \A i, j \in 1 .. Slots : i < j /\ EntryOf(d, i) = Never => EntryOf(d, j) = Never
    /\ \A i, j \in Listed(d) : EntryOf(d, i).name = EntryOf(d, j).name => i = j
    /\ \A i \in Listed(d) : ChainEnds(d, i)
    /\ \A c \in FreeClusters(d) : RefsTo(d, c) = {}
    /\ \A c \in Clusters : \A r, s \in RefsTo(d, c) : r = s
    /\ \A c \in Clusters : FatOf(d, c) # Free => RefsTo(d, c) # {}
    /\ \A s \in FatSectors : d[s] = d[Mirror(s)]

ASSUME FatFsAssumption ==
    /\ \A d \in Images : Flawless(d)
    /\ Writes \subseteq Nat \X Bytes
    /\ {MaxFaults, MaxCalls} \subseteq Nat

(* The bytes of a file of the card, along its chain.                       *)
Content(d, i) ==
    LET e == EntryOf(d, i)
        q == CHOOSE q \in Paths(d, e.clust, Nth(e.size)) : TRUE
    IN  [b \in 1 .. e.size |-> ByteOn(d, q, b)]

FatInit ==
    /\ disk \in Images
    /\ fs = NoFs /\ fp = NoFp /\ call = NoCall
    /\ may = [n \in Names |-> IF Has(disk, n) THEN {{Content(disk, SlotOf(disk, n))}} ELSE {{}}]
    /\ reply = NoReply /\ moving = {} /\ calls = 0 /\ faults = 0

(* Out of calls, or with a rename cut short, nothing more is asked.        *)
Done ==
    /\ call.pc = "idle" /\ ~fp.open /\ fs.mounted
    /\ calls = MaxCalls \/ moving # {}
    /\ UNCHANGED fat_vars

Calls ==
    \/ Mount \/ Unmount
    \/ \E n \in Names : f_open_create(n) \/ f_open_read(n) \/ f_unlink(n)
    \/ \E old \in Names, new \in Names : f_rename(old, new)
    \/ \E w \in Writes : f_write(w[1], w[2])
    \/ f_read \/ f_close \/ f_close_read

Steps ==
    \/ dir_next \/ NotFound \/ OpenRead \/ Overwrite \/ BackToEntry \/ dir_register
    \/ remove_chain \/ Unlink \/ FoundOld \/ Exists \/ Rename \/ Synced
    \/ AllWritten \/ FillBuffer \/ NextSector \/ Follow \/ TryNext \/ FindFree
    \/ ClaimCluster \/ Flush \/ WriteSector \/ StartBuffer \/ f_sync
    \/ ReadSector \/ ReadReturns

FatNext == Calls \/ Steps \/ Done

FatSpec == FatInit /\ [][FatNext]_fat_vars

(***************************************************************************)
(* Properties                                                              *)
(***************************************************************************)
(* Whatever access failed and wherever power was lost, each file on the    *)
(* card holds what some sequence of the calls that returned left in it:    *)
(* after a successful f_close exactly what f_write took; while it is being *)
(* overwritten the old content, nothing, or the new one.  A rename that    *)
(* failed lost neither name's file.                                        *)
FilesKept ==
    /\ \A i \in Listed(disk) :
          \E x \in UNION may[EntryOf(disk, i).name] : HasContent(disk, i, x)
    /\ \A n \in Names : Has(disk, n) \/ {} \in may[n]
    /\ \A p \in moving : p[3] => Has(disk, p[1]) \/ Has(disk, p[2])

(* The chains on the card, at every point a fault may leave them: each is  *)
(* whole, none leads into a free cluster, and no cluster is in two chains, *)
(* unless a rename was cut short (the critical section ff.c marks).        *)
(* Without a fault no cluster is lost and the FATs agree.                  *)
ChainsSound ==
    /\ \A i \in Listed(disk) : ChainEnds(disk, i)
    /\ \A c \in FreeClusters(disk) : RefsTo(disk, c) = {}
    /\ moving = {} => \A c \in Clusters : \A r, s \in RefsTo(disk, c) : r = s
    /\ faults = 0 /\ call.pc = "idle" /\ ~fp.open =>
          /\ \A c \in Clusters : FatOf(disk, c) # Free => RefsTo(disk, c) # {}
          /\ \A s \in FatSectors : disk[s] = disk[Mirror(s)]

(* The window, when it is not to be written back, is the sector it says it *)
(* is, and it is never to be written back to no sector.                    *)
WindowCoherent ==
    /\ fs.winsect \in Sectors \cup {NoSector}
    /\ fs.wflag => fs.winsect \in FatSectors \cup DirSectors
    /\ ~fs.wflag /\ fs.winsect \in FatSectors \cup DirSectors
          => fs.win = disk[fs.winsect]

(* f_write falls short only on a full volume, f_read returns what the file *)
(* may hold, f_open reports no file only where there may be none.          *)
RepliesHonest ==
    /\ reply.call = "f_write" /\ reply.bw < reply.btw => FreeClusters(View) = {}
    /\ reply.call = "f_read" => {reply.got} \in may[reply.name]
    /\ reply.call = "f_open" => {} \in may[reply.name]
=============================================================================
