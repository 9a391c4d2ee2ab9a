------------------------------- MODULE FatInv -------------------------------
(***************************************************************************)
(* The inductive invariant of FatFs.  An image is what the FAT, the        *)
(* directory and the clusters of a card hold; CardImg is that of the card, *)
(* ViewImg that of the card as the driver sees it, through the window.     *)
(***************************************************************************)
EXTENDS FatFs

Img(d) == [fat  |-> [c \in Clusters |-> FatOf(d, c)],
           dir  |-> [i \in 1 .. Slots |-> EntryOf(d, i)],
           data |-> [c \in Clusters |-> d[DataSector(c)]]]
ViewImg == Img(View)
CardImg == Img(disk)

(***************************************************************************)
(* A sound image.                                                          *)
(***************************************************************************)
Files(v) == {i \in 1 .. Slots : IsFile(v.dir[i])}
Tight(v) == \A i, j \in 1 .. Slots : i < j /\ v.dir[i] = Never => v.dir[j] = Never
Distinct(v) == \A i, j \in Files(v) : v.dir[i].name = v.dir[j].name => i = j
Named(v, n) == \E i \in Files(v) : v.dir[i].name = n

Headed(v, c) == \E i \in Files(v) : v.dir[i].clust = c
Linked(v, c) == \E b \in Clusters : v.fat[b] = c
NoRef(v, c) == ~Headed(v, c) /\ ~Linked(v, c)
NoDangling(v) == \A c \in Clusters : v.fat[c] = Free => NoRef(v, c)
OneHead(v) == \A i, j \in Files(v) : v.dir[i].clust = v.dir[j].clust /\ v.dir[i].clust # 0 => i = j
OneLink(v) == \A a, b \in Clusters : v.fat[a] = v.fat[b] /\ v.fat[a] \in Clusters => a = b
HeadOrLink(v) == \A c \in Clusters : ~(Headed(v, c) /\ Linked(v, c))
Single(v) == OneHead(v) /\ OneLink(v) /\ HeadOrLink(v)
Lost(v) == {c \in Clusters : v.fat[c] # Free /\ NoRef(v, c)}

Path(fat, q, c, k) ==
    /\ q \in [1 .. k -> Clusters]
    /\ q[1] = c
    /\ \A j \in 1 .. k - 1 : fat[q[j]] = q[j + 1]
Ends(fat, c, z) ==
    IF c = 0 THEN z = 0
    ELSE \E k \in 1 .. LastCluster : \E q \in [1 .. k -> Clusters] :
            Path(fat, q, c, k) /\ fat[q[k]] = Eoc /\ k * SectorSize >= z
ByteAt(data, q, b) == data[q[Nth(b)]][1 + ((b - 1) % SectorSize)]
Bears(fat, data, q, c, z, x) ==
    Path(fat, q, c, Nth(z)) /\ \A b \in 1 .. z : ByteAt(data, q, b) = x[b]
Carries(fat, data, c, z, x) ==
    Len(x) = z /\ (z > 0 => \E q \in [1 .. Nth(z) -> Clusters] : Bears(fat, data, q, c, z, x))

Kept(v, mayof) ==
    \A i \in Files(v) : \E x \in UNION mayof[v.dir[i].name] :
        Carries(v.fat, v.data, v.dir[i].clust, v.dir[i].size, x)
KeptAs(v, n, T) ==
    \A i \in Files(v) : v.dir[i].name = n =>
       \E x \in UNION T : Carries(v.fat, v.data, v.dir[i].clust, v.dir[i].size, x)
There(v, mayof) == \A n \in Names : Named(v, n) \/ {} \in mayof[n]
Whole(v, mov) == \A p \in mov : p[3] => Named(v, p[1]) \/ Named(v, p[2])

Good(v, mayof, mov) ==
    /\ Tight(v) /\ Distinct(v) /\ NoDangling(v)
    /\ \A i \in Files(v) : Ends(v.fat, v.dir[i].clust, v.dir[i].size)
    /\ Kept(v, mayof) /\ There(v, mayof) /\ Whole(v, mov)
    /\ mov = {} => Single(v)

(* S is a set of clusters no file and no other cluster leads into.         *)
Apart(v, S) ==
    /\ \A i \in Files(v) : v.dir[i].clust \notin S
    /\ \A b \in Clusters \ S : v.fat[b] \notin S

(***************************************************************************)
(* The phases of a call.                                                   *)
(***************************************************************************)
Octets == Seq(Bytes \cup {0})
MayType ==
    /\ may = [n \in Names |-> may[n]]
    /\ \A n \in Names : \A s \in may[n] :
          s = {} \/ \E x \in UNION may[n] : x \in Octets /\ s = {x}

Quiet == ~fs.wflag /\ Lost(ViewImg) = {}
Clean == faults = 0 => Quiet
Lossless(S) == faults = 0 => Lost(ViewImg) \subseteq S

CallRec(fn, pc, name, new, i, dir, e, clst, scl, btw, left, tok, got) ==
    [fn |-> fn, pc |-> pc, name |-> name, new |-> new, i |-> i, dir |-> dir, e |-> e,
     clst |-> clst, scl |-> scl, btw |-> btw, left |-> left, tok |-> tok, got |-> got]
IsCall ==
    call = CallRec(call.fn, call.pc, call.name, call.new, call.i, call.dir, call.e, call.clst,
                   call.scl, call.btw, call.left, call.tok, call.got)
Calling == fs.mounted /\ reply = NoReply
Closed == fp = NoFp

Rest ==
    /\ call = NoCall /\ Closed
    /\ ~fs.mounted => fs = NoFs
    /\ Clean

(* Looked through the slots before call.i and found no file n.             *)
Scanned(n) == \A j \in 1 .. call.i - 1 : /\ ViewImg.dir[j] # Never
                                         /\ IsFile(ViewImg.dir[j]) => ViewImg.dir[j].name # n
Old ==
    /\ call.fn = "f_rename" /\ call.dir \in 1 .. Slots
    /\ call.name \in Names /\ call.new \in Names /\ call.new # call.name
    /\ ViewImg.dir[call.dir] = call.e /\ IsFile(call.e) /\ call.e.name = call.name
Find ==
    /\ call.pc = "find" /\ Calling /\ Closed /\ Clean /\ moving = {}
    /\ call.i \in 1 .. Slots /\ call.name \in Names
    /\ call.fn \in {"f_open_create", "f_open_read", "f_unlink", "f_rename"}
    /\ call.fn = "f_open_create" => {<<>>} \in may[call.name]
    /\ call.fn = "f_rename" => call.new \in Names /\ call.new # call.name
    /\ Scanned(call.name)
FindNew ==
    /\ call.pc = "find_new" /\ Calling /\ Closed /\ Clean /\ moving = {}
    /\ call.i \in 1 .. Slots
    /\ Old
    /\ Scanned(call.new)
Alloc ==
    /\ call.pc = "alloc" /\ Calling /\ Closed /\ Clean /\ moving = {}
    /\ call.i \in 1 .. Slots /\ call.new \in Names
    /\ ~Named(ViewImg, call.new)
    /\ \A j \in 1 .. call.i - 1 : IsFile(ViewImg.dir[j])
    /\ \/ call.fn = "f_open_create" /\ {<<>>} \in may[call.new]
       \/ Old
Emptying ==
    /\ call.fn = "f_open_create" /\ call.dir \in 1 .. Slots
    /\ call.name \in Names
    /\ call.e \in DirEntries /\ IsFile(call.e)
    /\ ViewImg.dir[call.dir] = File(call.name, 0, 0)
Gone ==
    /\ call.fn = "f_unlink" /\ call.name \in Names
    /\ ~Named(ViewImg, call.name) /\ {} \in may[call.name]
FreePhase ==
    /\ call.pc = "free" /\ Calling /\ Closed /\ moving = {}
    /\ call.clst \in Clusters /\ NoRef(ViewImg, call.clst)
    /\ Emptying \/ Gone
    /\ Lossless({call.clst})
Back ==
    /\ call.pc = "back" /\ Calling /\ Closed /\ moving = {}
    /\ Emptying
    /\ Lossless({})
MoveCtx ==
    /\ call.fn = "f_rename" /\ call.name \in Names /\ call.new \in Names /\ call.new # call.name
    /\ call.e \in DirEntries
    /\ {} \in may[call.name] /\ may[call.name] \subseteq may[call.new] \cup {{}}
    /\ moving = {<<call.name, call.new, TRUE>>} \/ moving = {<<call.name, call.new, FALSE>>}
    /\ Single(ViewImg)
    /\ Lossless({})
Move ==
    /\ call.pc = "move" /\ Calling /\ Closed /\ MoveCtx
    /\ {call.i, call.dir} \subseteq 1 .. Slots
    /\ ViewImg.dir[call.dir] = call.e /\ IsFile(call.e) /\ call.e.name = call.name
    /\ fs.winsect = DirSector(call.i)
    /\ ViewImg.dir[call.i] = File(call.new, 0, 0)
SyncRename ==
    /\ call.pc = "sync" /\ Calling /\ Closed /\ MoveCtx
    /\ Named(ViewImg, call.new) /\ ~Named(ViewImg, call.name)
    /\ KeptAs(ViewImg, call.new, may[call.name])
SyncUnlink ==
    /\ call.pc = "sync" /\ Calling /\ Closed /\ moving = {} /\ Gone /\ Lossless({})

(***************************************************************************)
(* Writing: the clusters p, k of them, are the file's alone.               *)
(***************************************************************************)
FpRec(name, write, slot, sclust, objsize, fptr, clust, sect, buf, dirty, err, bytes) ==
    [open |-> TRUE, name |-> name, write |-> write, slot |-> slot, sclust |-> sclust,
     objsize |-> objsize, fptr |-> fptr, clust |-> clust, sect |-> sect, buf |-> buf,
     dirty |-> dirty, err |-> err, bytes |-> bytes]
IsFp ==
    fp = FpRec(fp.name, fp.write, fp.slot, fp.sclust, fp.objsize, fp.fptr, fp.clust, fp.sect,
               fp.buf, fp.dirty, fp.err, fp.bytes)
FileOpen(writing) ==
    /\ IsFp
    /\ fp.name \in Names /\ fp.write = writing /\ fp.slot \in 1 .. Slots
    /\ {fp.sclust, fp.clust, fp.sect} \subseteq {0} \cup Clusters
    /\ {fp.objsize, fp.fptr} \subseteq Nat
    /\ fp.buf \in Sectorful /\ fp.dirty \in BOOLEAN /\ fp.bytes \in Octets
Chain(v, p, k) ==
    /\ p \in [1 .. k -> Clusters]
    /\ \A i, j \in 1 .. k : p[i] = p[j] => i = j
    /\ \A j \in 1 .. k - 1 : v.fat[p[j]] = p[j + 1]
    /\ k > 0 => v.fat[p[k]] = Eoc
Span(p, k) == {p[j] : j \in 1 .. k}
(* x is in the clusters p, the bytes of the last sector in buf if dirty.   *)
Held(data, p, z, buf, dirty, x) ==
    \A b \in 1 .. z :
       x[b] = IF dirty /\ Nth(b) = Nth(z) THEN buf[1 + ((b - 1) % SectorSize)] ELSE ByteAt(data, p, b)
Own(p, k) ==
    /\ Chain(ViewImg, p, k)
    /\ fp.sclust = IF k = 0 THEN 0 ELSE p[1]
    /\ fp.clust = IF k = 0 THEN 0 ELSE p[k]
    /\ k \in {Nth(fp.fptr), Nth(fp.fptr) + 1}
    /\ Apart(ViewImg, Span(p, k)) /\ Apart(CardImg, Span(p, k))
    /\ fp.dirty => fp.fptr > 0 /\ fp.sect = p[Nth(fp.fptr)]
    /\ Held(ViewImg.data, p, fp.fptr, fp.buf, fp.dirty, fp.bytes)
Written ==
    /\ FileOpen(TRUE)
    /\ fp.objsize = fp.fptr /\ Len(fp.bytes) = fp.fptr
    /\ ViewImg.dir[fp.slot] = File(fp.name, 0, 0)
    /\ \A c \in Clusters : ViewImg.fat[c] = Free => CardImg.fat[c] = Free
    /\ Lossless({fp.sclust})
    /\ moving = {} /\ fs.mounted
Complete == ~fp.dirty => fp.fptr % SectorSize = 0
Owns(more) ==
    \E k \in 0 .. LastCluster : \E p \in [1 .. k -> Clusters] :
        Own(p, k) /\ k \in {Nth(fp.fptr) + n : n \in more}

WriteOpen ==
    /\ call = NoCall /\ Written /\ Complete
    /\ Owns({0, 1}) /\ (fp.err = "OK" => Owns({0}))
WriteCall ==
    /\ call.fn = "f_write" /\ Calling /\ Written /\ Complete /\ fp.err = "OK"
    /\ {call.btw, call.left} \subseteq Nat /\ call.tok \in Bytes
Round == call.pc = "round" /\ WriteCall /\ Owns({0})
AtSector == WriteCall /\ OnBoundary /\ call.left > 0
Following == call.pc = "follow" /\ AtSector /\ Owns({0}) /\ fp.fptr # 0
Trying == call.pc = "next" /\ AtSector /\ Owns({0}) /\ fp.fptr # 0
Covered(d) == IF call.clst >= call.scl THEN call.scl < d /\ d <= call.clst
              ELSE call.scl < d \/ d <= call.clst
Search ==
    /\ call.pc = "search" /\ AtSector /\ Owns({0})
    /\ {call.scl, call.clst} \subseteq 1 .. LastCluster
    /\ \A d \in Clusters : Covered(d) => ViewImg.fat[d] # Free
Claiming ==
    /\ call.pc = "claim" /\ AtSector /\ Owns({0})
    /\ call.clst \in Clusters /\ ViewImg.fat[call.clst] = Free
Flushing == call.pc = "flush" /\ AtSector /\ Owns({1})
Storing == call.pc = "store" /\ AtSector /\ Owns({1}) /\ ~fp.dirty
Closing == call.fn = "f_close" /\ Calling /\ {fp.bytes} \in may[fp.name]
FlushLast == call.pc = "flush" /\ Closing /\ Written /\ Owns({0, 1})
EntryPhase == call.pc = "entry" /\ Closing /\ Written /\ Owns({0, 1}) /\ ~fp.dirty
SyncClose ==
    /\ call.pc = "sync" /\ Closing /\ moving = {}
    /\ FileOpen(TRUE)
    /\ ViewImg.dir[fp.slot] = File(fp.name, fp.sclust, fp.objsize)
    /\ Carries(ViewImg.fat, ViewImg.data, fp.sclust, fp.objsize, fp.bytes)
    /\ Lossless({})

(***************************************************************************)
(* Reading.                                                                *)
(***************************************************************************)
ReadCtx ==
    /\ FileOpen(FALSE) /\ fs.mounted /\ Clean /\ moving = {}
Reading(x) ==
    /\ {x} \in may[fp.name] /\ Len(x) = fp.objsize
ReadOpen ==
    /\ call = NoCall /\ ReadCtx
    /\ \E x \in UNION may[fp.name] :
         Reading(x) /\ Carries(ViewImg.fat, ViewImg.data, fp.sclust, fp.objsize, x)
Read ==
    /\ call.pc = "read" /\ call.fn = "f_read" /\ Calling /\ ReadCtx
    /\ fp.fptr <= fp.objsize /\ (fp.fptr < fp.objsize => fp.fptr % SectorSize = 0)
    /\ \E x \in UNION may[fp.name] :
         /\ Reading(x)
         /\ call.got = SubSeq(x, 1, fp.fptr)
         /\ fp.objsize > 0 =>
               \E q \in [1 .. Nth(fp.objsize) -> Clusters] :
                  /\ Bears(ViewImg.fat, ViewImg.data, q, fp.sclust, fp.objsize, x)
                  /\ fp.fptr > 0 => fp.clust = q[Nth(fp.fptr)]

Phases ==
    \/ Rest \/ Find \/ FindNew \/ Alloc \/ FreePhase \/ Back \/ Move \/ SyncRename \/ SyncUnlink
    \/ WriteOpen \/ Round \/ Following \/ Trying \/ Search \/ Claiming \/ Flushing \/ Storing
    \/ FlushLast \/ EntryPhase \/ SyncClose
    \/ ReadOpen \/ Read

Base ==
    /\ Good(ViewImg, may, moving) /\ Good(CardImg, may, moving)
    /\ MayType
    /\ faults = 0 => \A s \in FatSectors : disk[s] = disk[Mirror(s)]
    /\ WindowCoherent /\ RepliesHonest
    /\ IsCall

FatIInv == Base /\ Phases
=============================================================================
