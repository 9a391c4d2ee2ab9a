----------------------------- MODULE FatFsProofs -----------------------------
(***************************************************************************)
(* Proofs about FatFs, for volumes of any size, any names and bytes, any   *)
(* number of faults and of calls: files keep what they were given, chains  *)
(* are sound on the card, the window shows the card, and no answer         *)
(* misleads.  The steps that free a chain or rename a file, and those of   *)
(* f_write, f_read and f_close, keep FatInd as those of StorageProofs do,  *)
(* and FatInd implies the four.                                            *)
(***************************************************************************)
EXTENDS StorageProofs

(* Where a call starts.                                                    *)
LEMMA AtStart ==
    ASSUME FatInd, NEW f \in Faults, NEW s, s = Start(f)
    PROVE  /\ SoundRec(s) /\ OffOf(s) = FALSE /\ ResOf(s) = "OK" /\ Seen(s) = ViewImg /\ Card(s) = CardImg
           /\ SectOf(s) = fs.winsect /\ FlagOf(s) = fs.wflag /\ HintOf(s) = fs.last_clst
           /\ ViewImg \in Imgs /\ CardImg \in Imgs
<1>1. FsSound  BY DEF FatInd
<1> QED  BY <1>1, StartSound, ImgsNow

(* BackToEntry keeps the invariant.                                        *)
LEMMA Keep_BackToEntry ==
    ASSUME FatInd, BackToEntry
    PROVE  FatInd'
<1>0. call.pc = "back"  BY DEF BackToEntry
<1>1. Back  BY <1>0, PhaseAt
<1>2. /\ Calling /\ Closed /\ moving = {} /\ Emptying /\ Lossless({})
      /\ MayType /\ IsCall
  BY <1>1 DEF Back, FatInd, FatIInv, Base
<1> PICK f \in Faults :
       \E m \in {[move_window(Start(f), DirSector(call.dir)) EXCEPT !.last_clst = call.e.clust - 1]} :
          /\ Step(m, f)
          /\ Cut(m) \/ (Goes(m) /\ Opened(m.win[call.dir], call.dir, TRUE))
  BY DEF BackToEntry
<1> PICK m : /\ m = [move_window(Start(f), DirSector(call.dir)) EXCEPT !.last_clst = call.e.clust - 1]
             /\ Step(m, f)
             /\ Cut(m) \/ (Goes(m) /\ Opened(m.win[call.dir], call.dir, TRUE))
  OBVIOUS
<1> PICK v, i, n, h : v = ViewImg /\ i = call.dir /\ n = call.name /\ h = call.e.clust - 1  OBVIOUS
<1> PICK s, a : s = Start(f) /\ a = move_window(s, DirSector(i))  OBVIOUS
<1>3. /\ call.fn = "f_open_create" /\ i \in 1 .. Slots /\ n \in Names
      /\ v.dir[i] = File(n, 0, 0) /\ call.e.clust \in {0} \cup Clusters
  BY <1>2, EntryFields DEF Emptying
<1>4. h \in Int
  <2>1. call.e.clust \in Int  BY <1>3, Sizes DEF Clusters
  <2> QED  BY <2>1
<1>5. /\ SoundRec(s) /\ OffOf(s) = FALSE /\ Seen(s) = v /\ v \in Imgs
  BY AtStart
<1>6. DirSector(i) \in Windowed /\ DirSector(i) \in DirSectors  BY <1>3, SectorKinds DEF Windowed
<1>7. /\ Passes(s, a, {v})
      /\ ~OffOf(a) /\ ResOf(a) = "OK" => SectOf(a) = DirSector(i)
      /\ FuseOf(s) = -1 => ResOf(a) = "OK"
  BY <1>5, <1>6, MoveSound
<1>8. SoundRec(a) /\ IsRec(a)  BY <1>7 DEF Passes, SoundRec, Shaped
<1>9. Fields(m, DiskOf(a), WinOf(a), SectOf(a), FlagOf(a), h, InfoOf(a),
             ResOf(a), ValOf(a), FuseOf(a), FaultOf(a), OffOf(a))
  <2>1. m = [a EXCEPT !.last_clst = h]  OBVIOUS
  <2> QED  BY ONLY <1>8, <2>1, UpdHint
<1>10. /\ IsRec(m) /\ DiskOf(m) = DiskOf(a) /\ WinOf(m) = WinOf(a) /\ SectOf(m) = SectOf(a)
       /\ FlagOf(m) = FlagOf(a) /\ FuseOf(m) = FuseOf(a) /\ FaultOf(m) = FaultOf(a)
       /\ OffOf(m) = OffOf(a) /\ HintOf(m) = h /\ ResOf(m) = ResOf(a)
  BY ONLY <1>9 DEF Fields
<1>11. Passes(s, m, {v})
  BY ONLY <1>4, <1>7, <1>10, PassesResult
<1>12. SoundRec(m) /\ OffOf(m) \in BOOLEAN  BY <1>11 DEF Passes, SoundRec, Shaped
<1>13. Struck(f, m)  BY <1>7, <1>10 DEF Struck
<1>14. Good(v, may, moving) /\ Good(CardImg, may, moving)  BY DEF FatInd, FatIInv, Base
<1>15. Honest({v}, may, moving)  BY <1>14 DEF Honest
<1>16. CASE Cut(m)
  BY <1>2, <1>3, <1>11, <1>13, <1>15, <1>16, CutRest
<1>17. CASE Goes(m) /\ Opened(m.win[call.dir], call.dir, TRUE)
  <2>1. ResOf(m) = "OK" /\ OffOf(m) = FALSE  BY <1>12, <1>17, GoesIs
  <2>2. SectOf(m) = DirSector(i) /\ Seen(m) = v
    BY <1>7, <1>10, <1>11, <2>1 DEF Passes
  <2>3. WinOf(m)[i] = File(n, 0, 0) /\ Seen(m).fat = Card(m).fat
    <3>1. WinOf(m)[i] = Seen(m).dir[i]  BY <1>3, <1>12, <2>1, <2>2, WindowShows
    <3>2. Seen(m).fat = Card(m).fat  BY <1>6, <1>12, <2>1, <2>2, WindowShows
    <3> QED  BY <1>3, <2>2, <3>1, <3>2
  <2>4. m.win[i] = File(n, 0, 0)  BY <2>3 DEF WinOf
  <2>5. /\ fp' = FileObject(File(n, 0, 0), i, TRUE) /\ call' = NoCall
        /\ may' = may /\ reply' = reply /\ moving' = moving
    BY <1>17, <2>4 DEF Opened
  <2>6. IsCall'  BY <2>5, NoCallIs
  <2>7. MayType' /\ RepliesHonest'  BY <1>2, <2>5, NoReplyNext DEF MayType, Calling
  <2>8. Honest({v}, may', moving') /\ Good(CardImg, may', moving')  BY <1>14, <1>15, <2>5
  <2>9. /\ FsSound' /\ Base'
        /\ ViewImg' = v /\ fs'.mounted
        /\ CardImg' = Card(m)
        /\ faults' = 0 => faults = 0
    <3>1. Passes(Start(f), m, {v}) /\ Step(m, f) /\ Goes(m)  BY <1>11, <1>17
    <3>2. /\ FsSound' /\ Base'
          /\ Goes(m) => /\ ViewImg' = Seen(m) /\ fs'.mounted = fs.mounted
          /\ CardImg' = Card(m)
          /\ faults' = 0 => faults = 0
      BY <1>13, <2>6, <2>7, <2>8, <3>1, StepBase
    <3> QED  BY <1>2, <2>2, <3>1, <3>2 DEF Calling
  <2>10. Lossless({})'  BY <1>2, <2>9 DEF Lossless
  <2>11. ViewImg'.dir[i] = File(n, 0, 0) /\ ViewImg'.fat = CardImg'.fat /\ ViewImg' \in Imgs
    BY <1>3, <1>5, <2>2, <2>3, <2>9
  <2>12. moving' = {}  BY <1>2, <2>5
  <2>13. WriteOpen'  BY <1>3, <2>5, <2>9, <2>10, <2>11, <2>12, FreshOpen
  <2> QED  BY <2>9, <2>13 DEF FatInd, FatIInv, Phases
<1> QED  BY <1>16, <1>17

(* remove_chain keeps the invariant.                                       *)
LEMMA Keep_remove_chain ==
    ASSUME FatInd, remove_chain
    PROVE  FatInd'
<1>0. call.pc = "free"  BY DEF remove_chain
<1>1. FreePhase  BY <1>0, PhaseAt
<1> PICK f \in Faults : \E m \in {FreeLink(get_fat(Start(f), call.clst), call.clst)} :
          /\ Step(m, f)
          /\ \/ Cut(m)
             \/ Goes(m) /\ m.val \in Clusters /\ GoesOn([call EXCEPT !.clst = m.val])
             \/ /\ Goes(m) /\ m.val \notin Clusters
                /\ GoesOn([call EXCEPT !.pc = IF call.fn = "f_unlink" THEN "sync" ELSE "back"])
  BY DEF remove_chain
<1> PICK m : /\ m = FreeLink(get_fat(Start(f), call.clst), call.clst)
             /\ Step(m, f)
             /\ \/ Cut(m)
                \/ Goes(m) /\ m.val \in Clusters /\ GoesOn([call EXCEPT !.clst = m.val])
                \/ /\ Goes(m) /\ m.val \notin Clusters
                   /\ GoesOn([call EXCEPT !.pc = IF call.fn = "f_unlink" THEN "sync" ELSE "back"])
  OBVIOUS
<1> PICK v, c, s, w : v = ViewImg /\ c = call.clst /\ s = Start(f) /\ w = SetFat(v, c, Free)  OBVIOUS
<1>2. /\ Calling /\ Closed /\ moving = {} /\ MayType /\ IsCall
      /\ c \in Clusters /\ NoRef(v, c) /\ (Emptying \/ Gone)
      /\ Lossless({c})
  BY <1>1 DEF FreePhase, FatInd, FatIInv, Base, Lossless
<1>3. /\ SoundRec(s) /\ OffOf(s) = FALSE /\ Seen(s) = v /\ v \in Imgs
  BY AtStart
<1>4. /\ Passes(s, m, {v, w})
      /\ ~OffOf(m) /\ ResOf(m) = "OK" => ValOf(m) = v.fat[c]
      /\ ~OffOf(m) /\ ResOf(m) = "OK" => Seen(m) = IF v.fat[c] = Free THEN v ELSE w
      /\ FuseOf(s) = -1 /\ ~OffOf(m) => ResOf(m) = "OK"
  <2>1. m = FreeLink(get_fat(s, c), c)  OBVIOUS
  <2>a. SoundRec(s) /\ c \in Clusters  BY <1>2, <1>3
  <2>b. Freed(s, c, m)  BY ONLY <2>a, <2>1, FreeLinkSound
  <2>2. /\ Passes(s, m, {Seen(s), SetFat(Seen(s), c, Free)})
        /\ ~OffOf(m) /\ ResOf(m) = "OK" =>
              /\ ValOf(m) = Seen(s).fat[c]
              /\ Seen(m) = IF Seen(s).fat[c] = Free THEN Seen(s) ELSE SetFat(Seen(s), c, Free)
        /\ FuseOf(s) = -1 /\ ~OffOf(m) => ResOf(m) = "OK"
    BY <2>b, <2>1 DEF Freed
  <2> QED  BY <1>3, <2>2
<1>5. Struck(f, m)  BY <1>4 DEF Struck
<1>6. Good(v, may, {}) /\ Good(CardImg, may, {}) /\ Single(v)
  BY <1>2 DEF FatInd, FatIInv, Base, Good
<1>7. /\ Good(w, may, {}) /\ w \in Imgs /\ w.dir = v.dir /\ Files(w) = Files(v)
      /\ \A n \in Clusters : v.fat[c] = n /\ Single(v) => NoRef(w, n)
      /\ Lost(w) \subseteq (Lost(v) \ {c}) \cup {v.fat[c]}
  <2>0. v \in Imgs /\ c \in Clusters /\ NoRef(v, c)  BY <1>2, <1>3
  <2>1. FreesOne(v, may, {}, c, w)  BY ONLY <2>0, <1>6, w = SetFat(v, c, Free), FreeGood
  <2> QED  BY <2>1 DEF FreesOne
<1>8. Honest({v, w}, may, moving)  BY <1>2, <1>6, <1>7 DEF Honest
<1>9. call.fn \notin {"f_write", "f_read"}  BY <1>2 DEF Emptying, Gone
<1>10. CASE Cut(m)
  BY <1>2, <1>4, <1>5, <1>8, <1>9, <1>10, CutRest
<1>11. ASSUME Goes(m), fp' = fp, may' = may, reply' = reply, moving' = moving, IsCall',
              call'.fn = call.fn, call'.name = call.name, call'.dir = call.dir, call'.e = call.e
       PROVE  /\ FsSound' /\ Base' /\ Calling' /\ Closed' /\ moving' = {}
              /\ (Emptying => Emptying') /\ (Gone => Gone')
              /\ ValOf(m) = v.fat[c]
              /\ ViewImg' = IF v.fat[c] = Free THEN v ELSE w
              /\ faults' = 0 => Lost(v) \subseteq {c}
  <2>1. MayType' /\ RepliesHonest'  BY <1>2, <1>11, NoReplyNext DEF MayType, Calling
  <2>2. Honest({v, w}, may', moving') /\ Good(CardImg, may', moving')
    BY <1>2, <1>6, <1>8, <1>11
  <2>3. /\ FsSound' /\ Base'
        /\ Goes(m) => /\ ViewImg' = Seen(m) /\ fs'.mounted = fs.mounted
        /\ faults' = 0 => faults = 0
    BY <1>4, <1>5, <1>11, <2>1, <2>2, StepBase
  <2>4. ValOf(m) = v.fat[c] /\ Seen(m) = IF v.fat[c] = Free THEN v ELSE w
    BY <1>4, <1>11, GoesIs
  <2>5. ViewImg'.dir = v.dir  BY <1>7, <1>11, <2>3, <2>4
  <2>6. Calling' /\ Closed' /\ moving' = {}
    BY <1>2, <1>11, <2>3 DEF Calling, Closed
  <2>7. Emptying => Emptying'  BY <1>11, <2>5 DEF Emptying
  <2>8. Gone => Gone'
    <3>1. ASSUME NEW n PROVE Named(ViewImg', n) => Named(v, n)
      BY <2>5 DEF Named, Files
    <3> QED  BY <1>11, <3>1 DEF Gone
  <2> QED  BY <1>2, <1>11, <2>3, <2>4, <2>6, <2>7, <2>8 DEF Lossless
<1>12. CASE Goes(m) /\ m.val \in Clusters /\ GoesOn([call EXCEPT !.clst = m.val])
  <2> PICK n : n = m.val  OBVIOUS
  <2>1. /\ call' = CallClst(n) /\ fp' = fp /\ may' = may /\ reply' = reply /\ moving' = moving
    BY <1>12 DEF GoesOn, CallClst
  <2>2. /\ IsCall'
        /\ call'.fn = call.fn /\ call'.pc = call.pc /\ call'.name = call.name
        /\ call'.dir = call.dir /\ call'.e = call.e /\ call'.clst = n
    BY <1>2, <2>1, CallClstFields
  <2>3. /\ FsSound' /\ Base' /\ Calling' /\ Closed' /\ moving' = {}
        /\ (Emptying => Emptying') /\ (Gone => Gone')
        /\ ValOf(m) = v.fat[c]
        /\ ViewImg' = IF v.fat[c] = Free THEN v ELSE w
        /\ faults' = 0 => Lost(v) \subseteq {c}
    BY <1>11, <1>12, <2>1, <2>2
  <2>4. n \in Clusters /\ v.fat[c] = n  BY <1>12, <2>3 DEF ValOf
  <2>5. ViewImg' = w
    <3>1. n # Free  BY <2>4, EntryFields
    <3> QED  BY <2>3, <2>4, <3>1
  <2>6. NoRef(w, n) /\ Lost(w) \subseteq (Lost(v) \ {c}) \cup {n}  BY <1>6, <1>7, <2>4
  <2>7. Lossless({call.clst})'  BY <2>2, <2>3, <2>5, <2>6 DEF Lossless
  <2>8. FreePhase'  BY <1>0, <1>2, <2>2, <2>3, <2>4, <2>5, <2>6, <2>7 DEF FreePhase
  <2> QED  BY <2>3, <2>8 DEF FatInd, FatIInv, Phases
<1>13. CASE /\ Goes(m) /\ m.val \notin Clusters
            /\ GoesOn([call EXCEPT !.pc = IF call.fn = "f_unlink" THEN "sync" ELSE "back"])
  <2> PICK p : p = IF call.fn = "f_unlink" THEN "sync" ELSE "back"  OBVIOUS
  <2>1. /\ call' = CallPc(p) /\ fp' = fp /\ may' = may /\ reply' = reply /\ moving' = moving
    BY <1>13 DEF GoesOn, CallPc
  <2>2. /\ IsCall'
        /\ call'.fn = call.fn /\ call'.pc = p /\ call'.name = call.name
        /\ call'.dir = call.dir /\ call'.e = call.e
    BY <1>2, <2>1, CallPcFields
  <2>3. /\ FsSound' /\ Base' /\ Calling' /\ Closed' /\ moving' = {}
        /\ (Emptying => Emptying') /\ (Gone => Gone')
        /\ ValOf(m) = v.fat[c]
        /\ ViewImg' = IF v.fat[c] = Free THEN v ELSE w
        /\ faults' = 0 => Lost(v) \subseteq {c}
    BY <1>11, <1>13, <2>1, <2>2
  <2>4. v.fat[c] \notin Clusters  BY <1>13, <2>3 DEF ValOf
  <2>5. faults' = 0 => Lost(ViewImg') = {}
    <3>1. CASE v.fat[c] = Free
      <4>1. c \notin Lost(v)  BY <3>1 DEF Lost
      <4> QED  BY <2>3, <3>1, <4>1
    <3>2. CASE v.fat[c] # Free
      <4>1. Lost(w) \subseteq Clusters  BY DEF Lost
      <4> QED  BY <1>7, <2>3, <2>4, <3>2, <4>1
    <3> QED  BY <3>1, <3>2
  <2>6. Lossless({})'  BY <2>5 DEF Lossless
  <2>7. CASE Emptying
    <3>1. p = "back"  BY <2>7 DEF Emptying
    <3>2. Back'  BY <2>2, <2>3, <2>6, <2>7, <3>1 DEF Back
    <3> QED  BY <2>3, <3>2 DEF FatInd, FatIInv, Phases
  <2>8. CASE Gone
    <3>1. p = "sync"  BY <2>8 DEF Gone
    <3>2. SyncUnlink'  BY <2>2, <2>3, <2>6, <2>8, <3>1 DEF SyncUnlink
    <3> QED  BY <2>3, <3>2 DEF FatInd, FatIInv, Phases
  <2> QED  BY <1>2, <2>7, <2>8
<1> QED  BY <1>10, <1>12, <1>13

(* The second entry gets the file and the first is removed.                *)
Moves(v, ma, mo, old, new, i, d, v1, v2) ==
    /\ Good(v1, ma, mo) /\ Good(v2, ma, mo) /\ v1 \in Imgs /\ v2 \in Imgs
    /\ Single(v2) /\ Lost(v2) \subseteq Lost(v)
    /\ Named(v2, new) /\ ~Named(v2, old) /\ KeptAs(v2, new, ma[old])
(* Rename keeps the invariant.                                             *)
LEMMA Keep_Rename ==
    ASSUME FatInd, Rename
    PROVE  FatInd'
<1>0. call.pc = "move"  BY DEF Rename
<1>1. Move  BY <1>0, PhaseAt
<1> PICK f \in Faults : \E m \in {Moved(Start(f))} :
          /\ Step(m, f)
          /\ Cut(m) \/ (Goes(m) /\ GoesOn([call EXCEPT !.pc = "sync"]))
  BY DEF Rename
<1> PICK m : /\ m = Moved(Start(f)) /\ Step(m, f)
             /\ Cut(m) \/ (Goes(m) /\ GoesOn([call EXCEPT !.pc = "sync"]))
  OBVIOUS
<1> PICK v, i, d, c, z, old, n, s : /\ v = ViewImg /\ i = call.i /\ d = call.dir
                                    /\ c = call.e.clust /\ z = call.e.size
                                    /\ old = call.name /\ n = call.new /\ s = Start(f)
  OBVIOUS
<1> PICK x : x = File(n, c, z)  OBVIOUS
<1> PICK a, v1 : a = Poke(s, i, x) /\ v1 = SetDir(v, i, x)  OBVIOUS
<1> PICK v2 : v2 = SetDir(v1, d, Deleted)  OBVIOUS
<1>2. /\ Calling /\ Closed /\ MoveCtx /\ MayType /\ IsCall
      /\ i \in 1 .. Slots /\ d \in 1 .. Slots
      /\ v.dir[d] = call.e /\ IsFile(call.e) /\ call.e.name = old
      /\ fs.winsect = DirSector(i)
      /\ v.dir[i] = File(n, 0, 0)
  BY <1>1 DEF Move, FatInd, FatIInv, Base
<1>3. /\ call.fn = "f_rename" /\ old \in Names /\ n \in Names /\ n # old
      /\ call.e \in DirEntries
      /\ {} \in may[old] /\ may[old] \subseteq may[n] \cup {{}}
      /\ moving = {<<old, n, TRUE>>} \/ moving = {<<old, n, FALSE>>}
      /\ Single(v)
      /\ Lossless({})
  BY <1>2 DEF MoveCtx
<1>4. c \in {0} \cup Clusters /\ z \in Nat /\ v.dir[d] = File(old, c, z) /\ x \in DirEntries
  BY <1>2, <1>3, EntryFields
<1>5. /\ SoundRec(s) /\ OffOf(s) = FALSE /\ Seen(s) = v /\ v \in Imgs
      /\ SectOf(s) = DirSector(i)
  BY <1>2, AtStart
<1>6. /\ Passes(s, a, {v1}) /\ Seen(a) = v1 /\ SoundRec(a)
      /\ ResOf(a) = "OK" /\ OffOf(a) = FALSE
  <2>1. v1 = SetDir(Seen(s), i, x) /\ a = Poke(s, i, x)  BY <1>5
  <2>2. SoundRec(s) /\ OffOf(s) = FALSE /\ i \in 1 .. Slots /\ SectOf(s) = DirSector(i) /\ x \in DirEntries
    BY <1>2, <1>4, <1>5
  <2>3. /\ Passes(s, a, {v1}) /\ Seen(a) = v1 /\ SoundRec(a)
        /\ ResOf(a) = "OK" /\ OffOf(a) = FALSE /\ SectOf(a) = DirSector(i)
    BY ONLY <2>1, <2>2, PokePasses
  <2> QED  BY <2>3
<1>7. m = DirPut(a, d, Deleted)  BY DEF Moved, dir_remove, DirPut
<1>8. Deleted \in DirEntries  BY EntryFields
<1>9. /\ Passes(a, m, {Seen(a), SetDir(Seen(a), d, Deleted)})
      /\ ~OffOf(m) /\ ResOf(m) = "OK" => Seen(m) = SetDir(Seen(a), d, Deleted)
      /\ FuseOf(a) = -1 => ResOf(m) = "OK"
  <2>1. SoundRec(a) /\ d \in 1 .. Slots  BY <1>2, <1>6
  <2>2. /\ Passes(a, m, {Seen(a), SetDir(Seen(a), d, Deleted)})
        /\ ValOf(m) = ValOf(a) /\ HintOf(m) = HintOf(a) /\ InfoOf(m) = InfoOf(a)
        /\ ~OffOf(m) /\ ResOf(m) = "OK" => Seen(m) = SetDir(Seen(a), d, Deleted) /\ SectOf(m) = DirSector(d)
        /\ ~OffOf(m) /\ ResOf(m) # "OK" => Seen(m) = Seen(a)
        /\ FuseOf(a) = -1 => ResOf(m) = "OK"
    BY ONLY <2>1, <1>7, <1>8, DirPutSound
  <2> QED  BY <2>2
<1>10. Passes(a, m, {v1, v2})  BY <1>6, <1>9
<1>11. Passes(s, m, {v1, v2})
  BY ONLY <1>5, <1>6, <1>10, PassesThen
<1>12. Struck(f, m)  BY <1>6, <1>9 DEF Struck, Passes
<1>13. Moves(v, may, moving, old, n, i, d, v1, v2)
  <2> PICK ma, mo, b : ma = may /\ mo = moving /\ b \in BOOLEAN /\ mo = {<<old, n, b>>}  BY <1>3
  <2>1. Good(v, ma, mo)  BY DEF FatInd, FatIInv, Base
  <2>2. mo # {} /\ \A q \in ma[old] : q = {} \/ q \in ma[n]  BY <1>3
  <2>3. d \in Files(v)  BY <1>2 DEF Files
  <2>4. v1 = SetDir(v, i, File(n, c, z)) /\ old # n /\ {} \in ma[old]  BY <1>3
  <2>5. mo = {<<old, n, b>>} /\ v2 = SetDir(v1, d, Deleted)  OBVIOUS
  <2>6. /\ Good(v1, ma, mo) /\ Good(v2, ma, mo) /\ v1 \in Imgs /\ v2 \in Imgs
        /\ Single(v2) /\ Lost(v2) \subseteq Lost(v)
        /\ Named(v2, n) /\ ~Named(v2, old)
    <3>1. /\ v \in Imgs /\ i \in 1 .. Slots /\ old \in Names /\ n \in Names /\ Single(v)
          /\ v.dir[d] = File(old, c, z) /\ v.dir[i] = File(n, 0, 0)
      BY <1>2, <1>3, <1>4, <1>5
    <3>2. MoveReady(v, ma, mo, i, d, old, n, c, z, b)
      BY ONLY <2>1, <2>2, <2>3, <2>4, <2>5, <3>1 DEF MoveReady
    <3> QED  BY ONLY <2>4, <2>5, <3>2, MoveGood
  <2>7. KeptAs(v2, n, ma[old])
    <3> PICK V, D : V = v /\ D = v.dir  OBVIOUS
    <3>1. /\ v1.fat = v.fat /\ v1.data = v.data /\ v1.dir[i] = x
          /\ \A j \in 1 .. Slots : j # i => v1.dir[j] = v.dir[j]
      <4>1. v \in Imgs /\ i \in 1 .. Slots /\ x \in DirEntries /\ v1 = SetDir(v, i, x)  BY <1>2, <1>4, <1>5
      <4> QED  BY ONLY <4>1, SetFields
    <3>2. /\ v2.fat = v1.fat /\ v2.data = v1.data /\ v2.dir[d] = Deleted
          /\ \A j \in 1 .. Slots : j # d => v2.dir[j] = v1.dir[j]
      BY <1>2, <1>8, <2>6, SetFields
    <3>3. i # d
      <4>1. v.dir[i].name = n  BY <1>2, EntryFields
      <4> QED  BY <1>2, <1>3, <4>1
    <3>4. /\ IsFile(x) /\ x.name = n /\ x.clust = c /\ x.size = z /\ ~IsFile(Deleted)
          /\ v.dir[d].name = old /\ v.dir[d].clust = c /\ v.dir[d].size = z
      BY <1>4, EntryFields
    <3>5. v2.dir[i] = x  BY <1>2, <3>1, <3>2, <3>3
    <3>6. i \in Files(v2)  BY <1>2, <3>4, <3>5 DEF Files
    <3>7. \A j \in Files(v2) : v2.dir[j].name = n => j = i
      <4>1. Distinct(v2)  BY <2>6 DEF Good
      <4>2. v2.dir[i].name = n  BY <3>4, <3>5
      <4> QED  BY ONLY <3>6, <4>1, <4>2 DEF Distinct
    <3>8. \E y \in UNION ma[old] : Carries(v.fat, v.data, c, z, y)
      <4>1. Kept(v, ma)  BY <2>1 DEF Good
      <4> QED  BY <2>3, <3>4, <4>1 DEF Kept
    <3>9. v2.fat = v.fat /\ v2.data = v.data /\ v2.dir[i].clust = c /\ v2.dir[i].size = z
      BY ONLY <3>1, <3>2, <3>4, <3>5
    <3>10. ASSUME NEW j \in Files(v2), v2.dir[j].name = n
           PROVE  \E y \in UNION ma[old] : Carries(v2.fat, v2.data, v2.dir[j].clust, v2.dir[j].size, y)
      <4>1. j = i  BY <3>7, <3>10
      <4> QED  BY ONLY <3>8, <3>9, <4>1
    <3> QED  BY ONLY <3>10 DEF KeptAs
  <2> QED  BY <2>6, <2>7 DEF Moves
<1>14. Good(CardImg, may, moving)  BY DEF FatInd, FatIInv, Base
<1>15. Honest({v1, v2}, may, moving)  BY <1>13 DEF Moves, Honest
<1>16. CASE Cut(m)
  <2>1. call.fn \notin {"f_write", "f_read"}  BY <1>3
  <2>2. Passes(Start(f), m, {v1, v2})  BY <1>11
  <2> QED  BY <1>2, <1>12, <1>15, <1>16, <2>1, <2>2, CutRest
<1>17. CASE Goes(m) /\ GoesOn([call EXCEPT !.pc = "sync"])
  <2>1. call' = CallPc("sync") /\ fp' = fp /\ may' = may /\ reply' = reply /\ moving' = moving
    BY <1>17 DEF GoesOn, CallPc
  <2>2. /\ IsCall'
        /\ call'.fn = call.fn /\ call'.pc = "sync" /\ call'.name = call.name
        /\ call'.new = call.new /\ call'.e = call.e
    BY <1>2, <2>1, CallPcFields
  <2>3. MayType' /\ RepliesHonest'  BY <1>2, <2>1, NoReplyNext DEF MayType, Calling
  <2>4. Honest({v1, v2}, may', moving') /\ Good(CardImg, may', moving')
    BY <1>14, <1>15, <2>1
  <2>5. /\ FsSound' /\ Base'
        /\ Goes(m) => /\ ViewImg' = Seen(m) /\ fs'.mounted = fs.mounted
        /\ faults' = 0 => faults = 0
    BY <1>11, <1>12, <2>2, <2>3, <2>4, StepBase
  <2>6. ViewImg' = v2  BY <1>6, <1>9, <1>17, <2>5, GoesIs
  <2>7. Calling' /\ Closed'  BY <1>2, <1>17, <2>1, <2>5 DEF Calling, Closed
  <2>8. Single(v2) /\ Lost(v2) \subseteq Lost(v) /\ Named(v2, n) /\ ~Named(v2, old)
        /\ KeptAs(v2, n, may[old])
    BY <1>13 DEF Moves
  <2>9. Lossless({})'  BY <1>3, <2>5, <2>6, <2>8 DEF Lossless
  <2>10. MoveCtx'  BY <1>3, <2>1, <2>2, <2>6, <2>8, <2>9 DEF MoveCtx
  <2>11. SyncRename'  BY <2>1, <2>2, <2>6, <2>7, <2>8, <2>10 DEF SyncRename
  <2> QED  BY <2>5, <2>11 DEF FatInd, FatIInv, Phases
<1> QED  BY <1>16, <1>17

(* A step that ends with the window written out.                           *)
Settles(f, m, v, mayof, mov) ==
    /\ f \in Faults /\ SoundRec(m) /\ Passes(Start(f), m, {v}) /\ Struck(f, m) /\ Goes(m)
    /\ Seen(m) = v /\ Card(m) = v /\ FlagOf(m) = FALSE /\ Good(v, mayof, mov)
(* A step that ends with nothing in the window to be written: card and     *)
(* view are the same.                                                      *)
LEMMA StepSettled ==
    ASSUME FatInd, NEW f, NEW m, NEW v, Settles(f, m, v, may', moving'), Step(m, f),
           MayType', RepliesHonest', IsCall'
    PROVE  /\ FsSound' /\ Base' /\ ViewImg' = v /\ CardImg' = v
           /\ fs'.mounted = fs.mounted /\ fs'.wflag = FALSE
           /\ faults' = 0 => faults = 0
<1>0. /\ f \in Faults /\ SoundRec(m) /\ Passes(Start(f), m, {v}) /\ Struck(f, m) /\ Goes(m)
      /\ Seen(m) = v /\ Card(m) = v /\ FlagOf(m) = FALSE /\ Good(v, may', moving')
  BY DEF Settles
<1>1. FsSound  BY DEF FatInd
<1>2. /\ FsSound'
      /\ CardImg' = Card(m) /\ CardImg' \in {CardImg} \cup {v}
      /\ OffOf(m) \in BOOLEAN
      /\ OffOf(m) => fs' = NoFs /\ ViewImg' = CardImg'
      /\ ~OffOf(m) => /\ ViewImg' = Seen(m) /\ ViewImg' \in {v}
                      /\ fs'.mounted = fs.mounted
                      /\ fs'.winsect = SectOf(m) /\ fs'.wflag = FlagOf(m)
                      /\ fs'.last_clst = HintOf(m)
      /\ faults' = 0 => /\ faults = 0 /\ OffOf(m) = FALSE /\ FuseOf(Start(f)) = -1
                        /\ Mirrored(disk) => Mirrored(disk')
  BY ONLY <1>0, <1>1, Step(m, f), StepSound
<1>3. ~OffOf(m)  BY <1>0, GoesIs
<1>4. ViewImg' = v /\ CardImg' = v /\ fs'.wflag = FALSE /\ fs'.mounted = fs.mounted
  BY <1>0, <1>2, <1>3
<1>5. WindowCoherent'  BY <1>2, WindowIsNext
<1>6. faults = 0 => Mirrored(disk)  BY DEF FatInd, FatIInv, Base, Mirrored
<1>7. faults' = 0 => \A s \in FatSectors : disk'[s] = disk'[Mirror(s)]  BY <1>2, <1>6 DEF Mirrored
<1>8. Good(ViewImg', may', moving') /\ Good(CardImg', may', moving')  BY <1>0, <1>4
<1>9. Base'  BY <1>5, <1>7, <1>8 DEF Base
<1> QED  BY <1>2, <1>4, <1>9

(* What a call that returns made sure of file n.                           *)
Sure(v, m, m2, n) ==
    /\ v \in Imgs /\ Single(v) /\ n \in Names
    /\ \A a \in Names : a # n => m2[a] = m[a]
    /\ KeptAs(v, n, m2[n]) /\ (Named(v, n) \/ {} \in m2[n])
(* Once the chains are single and the file is settled, the image is good   *)
(* for the new may.                                                        *)
LEMMA GoodSure ==
    ASSUME NEW v, NEW m, NEW m2, NEW mo, NEW n, Good(v, m, mo), Sure(v, m, m2, n)
    PROVE  Good(v, m2, {})
<1>1. /\ v \in Imgs /\ Single(v) /\ n \in Names
      /\ \A a \in Names : a # n => m2[a] = m[a]
      /\ KeptAs(v, n, m2[n]) /\ (Named(v, n) \/ {} \in m2[n])
  BY DEF Sure
<1>2. Kept(v, m2)
  <2> SUFFICES ASSUME NEW i \in Files(v)
               PROVE  \E x \in UNION m2[v.dir[i].name] :
                         Carries(v.fat, v.data, v.dir[i].clust, v.dir[i].size, x)
    BY DEF Kept
  <2>1. CASE v.dir[i].name = n  BY <1>1, <2>1 DEF KeptAs
  <2>2. CASE v.dir[i].name # n
    <3>1. v.dir[i].name \in Names  BY <1>1, ImgFields
    <3>2. Kept(v, m)  BY DEF Good
    <3> QED  BY <1>1, <2>2, <3>1, <3>2 DEF Kept
  <2> QED  BY <2>1, <2>2
<1>3. There(v, m2)
  <2>1. There(v, m)  BY DEF Good
  <2> QED  BY <1>1, <2>1 DEF There
<1>4. Whole(v, {})  BY DEF Whole
<1> QED  BY <1>1, <1>2, <1>3, <1>4 DEF Good

(* Synced keeps the invariant.                                             *)
LEMMA Keep_Synced ==
    ASSUME FatInd, Synced
    PROVE  FatInd'
<1>0. call.pc = "sync"  BY DEF Synced
<1>1. SyncRename \/ SyncUnlink \/ SyncClose  BY <1>0, PhaseAt
<1> PICK f \in Faults : \E m \in {sync_fs(Start(f))} :
          /\ Step(m, f)
          /\ \/ Cut(m)
             \/ /\ Goes(m)
                /\ call' = NoCall
                /\ may' = Known
                /\ moving' = {}
                /\ fp' = IF call.fn = "f_close" THEN NoFp ELSE fp
                /\ UNCHANGED reply
  BY DEF Synced
<1> PICK m : /\ m = sync_fs(Start(f)) /\ Step(m, f)
             /\ \/ Cut(m)
                \/ /\ Goes(m)
                   /\ call' = NoCall
                   /\ may' = Known
                   /\ moving' = {}
                   /\ fp' = IF call.fn = "f_close" THEN NoFp ELSE fp
                   /\ UNCHANGED reply
  OBVIOUS
<1> PICK v, s : v = ViewImg /\ s = Start(f)  OBVIOUS
<1>2. Calling /\ MayType /\ IsCall /\ Lossless({})
  BY <1>1 DEF SyncRename, SyncUnlink, SyncClose, Closing, MoveCtx, FatInd, FatIInv, Base
<1>3. /\ SyncRename => call.fn = "f_rename" /\ Closed
      /\ SyncUnlink => call.fn = "f_unlink" /\ Closed
      /\ SyncClose => call.fn = "f_close"
  BY DEF SyncRename, SyncUnlink, SyncClose, Closing, MoveCtx, Gone
<1>4. /\ SoundRec(s) /\ OffOf(s) = FALSE /\ Seen(s) = v /\ v \in Imgs
  BY AtStart
<1>5. /\ Passes(s, m, {v})
      /\ ~OffOf(m) /\ ResOf(m) = "OK" => ~FlagOf(m) /\ Card(m) = v
      /\ FuseOf(s) = -1 => ResOf(m) = "OK"
  <2>1. m = sync_fs(s)  OBVIOUS
  <2>2. /\ Passes(s, m, {Seen(s)})
        /\ ~OffOf(m) /\ ResOf(m) = "OK" => ~FlagOf(m) /\ Card(m) = Seen(s)
        /\ FuseOf(s) = -1 => ResOf(m) = "OK"
    BY ONLY <1>4, <2>1, SyncFsSound
  <2> QED  BY <1>4, <2>2
<1>6. Struck(f, m)  BY <1>5 DEF Struck
<1>7. Good(v, may, moving) /\ Good(CardImg, may, moving)  BY DEF FatInd, FatIInv, Base
<1>8. Honest({v}, may, moving)  BY <1>7 DEF Honest
<1>9. CASE Cut(m)
  <2>1. call.fn \notin {"f_write", "f_read"} /\ (Closed \/ call.fn = "f_close")  BY <1>1, <1>3
  <2>2. Passes(Start(f), m, {v})  BY <1>5
  <2> QED  BY <1>2, <1>6, <1>8, <1>9, <2>1, <2>2, CutRest
<1>10. CASE /\ Goes(m)
            /\ call' = NoCall
            /\ may' = Known
            /\ moving' = {}
            /\ fp' = IF call.fn = "f_close" THEN NoFp ELSE fp
            /\ UNCHANGED reply
  <2>1. MayOk(may)  BY <1>2, MayIs
  <2>3. /\ MayOk(may') /\ Good(v, may', {})
    <3>1. CASE SyncRename
      <4> PICK old, n, T : old = call.name /\ n = call.new /\ T = may[old] \ {{}}  OBVIOUS
      <4> PICK m1 : m1 = MaySets(may, n, T)  OBVIOUS
      <4>1. old \in Names /\ n \in Names /\ old # n /\ Single(v) /\ Named(v, n) /\ ~Named(v, old)
            /\ KeptAs(v, n, may[old])
        BY <3>1 DEF SyncRename, MoveCtx
      <4>2. Told(T)  BY <2>1, <4>1 DEF MayOk, Told
      <4>3. MayOk(m1) /\ m1[n] = T /\ \A a \in Names : a # n => m1[a] = may[a]
        <5>1. n \in Names /\ m1 = MaySets(may, n, T)  BY <4>1
        <5> QED  BY ONLY <2>1, <4>2, <5>1, MaySet
      <4>4. UNION T = UNION may[old]  OBVIOUS
      <4>5. KeptAs(v, n, m1[n])  BY <4>1, <4>3, <4>4 DEF KeptAs
      <4>6. Sure(v, may, m1, n)  BY <1>4, <4>1, <4>3, <4>5 DEF Sure
      <4>7. Good(v, m1, {})
        <5> PICK ma, mo : ma = may /\ mo = moving  OBVIOUS
        <5>1. Good(v, ma, mo) /\ Sure(v, ma, m1, n)  BY <1>7, <4>6
        <5> QED  BY ONLY <5>1, GoodSure
      <4> PICK m2, U : m2 = MaySets(m1, old, U) /\ U = {{}}  OBVIOUS
      <4>8. Told(U)  BY DEF Told
      <4>9. MayOk(m2) /\ m2[old] = U /\ \A a \in Names : a # old => m2[a] = m1[a]
        BY ONLY <4>1, <4>3, <4>8, m2 = MaySets(m1, old, U), MaySet
      <4>10. KeptAs(v, old, m2[old])
        BY <4>1 DEF KeptAs, Named
      <4>11. Sure(v, m1, m2, old)  BY <1>4, <4>1, <4>9, <4>10 DEF Sure
      <4>12. Good(v, m2, {})  BY ONLY <4>7, <4>11, GoodSure
      <4>13. may' = m2
        <5>1. may' = [may EXCEPT ![call.new] = may[call.name] \ {{}}, ![call.name] = {{}}]
          BY <1>3, <1>10, <3>1 DEF Known
        <5>2. may' = [[may EXCEPT ![n] = T] EXCEPT ![old] = U]  BY <5>1
        <5> QED  BY <5>2 DEF MaySets
      <4> QED  BY <4>9, <4>12, <4>13
    <3>2. CASE SyncUnlink
      <4> PICK n, T : n = call.name /\ T = {{}}  OBVIOUS
      <4> PICK m2 : m2 = MaySets(may, n, T)  OBVIOUS
      <4>1. n \in Names /\ ~Named(v, n) /\ Single(v)
        BY <1>7, <3>2 DEF SyncUnlink, Gone, Good
      <4>2. Told(T)  BY DEF Told
      <4>3. MayOk(m2) /\ m2[n] = T /\ \A a \in Names : a # n => m2[a] = may[a]
        <5>1. n \in Names /\ m2 = MaySets(may, n, T)  BY <4>1
        <5> QED  BY ONLY <2>1, <4>2, <5>1, MaySet
      <4>4. KeptAs(v, n, m2[n])  BY <4>1 DEF KeptAs, Named
      <4>5. Sure(v, may, m2, n)  BY <1>4, <4>1, <4>3, <4>4 DEF Sure
      <4>6. Good(v, m2, {})
        <5> PICK ma, mo : ma = may /\ mo = moving  OBVIOUS
        <5>1. Good(v, ma, mo) /\ Sure(v, ma, m2, n)  BY <1>7, <4>5
        <5> QED  BY ONLY <5>1, GoodSure
      <4>7. may' = m2  BY <1>3, <1>10, <3>2 DEF Known, MaySets
      <4> QED  BY <4>3, <4>6, <4>7
    <3>3. CASE SyncClose
      <4> PICK n, i, x, T : n = fp.name /\ i = fp.slot /\ x = fp.bytes /\ T = {{x}}  OBVIOUS
      <4> PICK m2 : m2 = MaySets(may, n, T)  OBVIOUS
      <4>1. /\ n \in Names /\ i \in 1 .. Slots /\ x \in Octets /\ moving = {}
            /\ v.dir[i] = File(n, fp.sclust, fp.objsize)
            /\ Carries(v.fat, v.data, fp.sclust, fp.objsize, x)
        BY <3>3 DEF SyncClose, FileOpen
      <4>2. Told(T)  BY <4>1 DEF Told
      <4>3. MayOk(m2) /\ m2[n] = T /\ \A a \in Names : a # n => m2[a] = may[a]
        <5>1. n \in Names /\ m2 = MaySets(may, n, T)  BY <4>1
        <5> QED  BY ONLY <2>1, <4>2, <5>1, MaySet
      <4>4. IsFile(v.dir[i]) /\ v.dir[i].name = n /\ v.dir[i].clust = fp.sclust /\ v.dir[i].size = fp.objsize
        BY <4>1, EntryFields
      <4>5. i \in Files(v)  BY <4>1, <4>4 DEF Files
      <4>6. \A j \in Files(v) : v.dir[j].name = n => j = i
        <5>1. Distinct(v)  BY <1>7 DEF Good
        <5> QED  BY <4>4, <4>5, <5>1 DEF Distinct
      <4>7. x \in UNION m2[n]  BY <4>3
      <4>8. KeptAs(v, n, m2[n])  BY <4>1, <4>4, <4>6, <4>7 DEF KeptAs
      <4>9. Named(v, n)  BY <4>4, <4>5 DEF Named
      <4>10. Single(v)  BY <1>7, <4>1 DEF Good
      <4>11. Sure(v, may, m2, n)  BY <1>4, <4>1, <4>3, <4>8, <4>9, <4>10 DEF Sure
      <4>12. Good(v, m2, {})
        <5> PICK ma, mo : ma = may /\ mo = moving  OBVIOUS
        <5>1. Good(v, ma, mo) /\ Sure(v, ma, m2, n)  BY <1>7, <4>11
        <5> QED  BY ONLY <5>1, GoodSure
      <4>13. may' = m2  BY <1>3, <1>10, <3>3 DEF Known, MaySets
      <4> QED  BY <4>3, <4>12, <4>13
    <3> QED  BY <1>1, <3>1, <3>2, <3>3
  <2>4. MayType'  BY <2>3, MayIsNext
  <2>5. IsCall' /\ call' = NoCall  BY <1>10, NoCallIs
  <2>6. RepliesHonest' /\ fs.mounted  BY <1>2, <1>10, NoReplyNext DEF Calling
  <2>7. Settles(f, m, v, may', moving')
    <3>1. ResOf(m) = "OK" /\ ~OffOf(m)  BY <1>10, GoesIs
    <3>2. SoundRec(m)  BY <1>5 DEF Passes
    <3>3. FlagOf(m) \in BOOLEAN  BY <3>1, <3>2 DEF SoundRec, WindowSound
    <3>4. Seen(m) = v  BY <1>5, <3>1 DEF Passes
    <3>5. Good(v, may', moving')  BY <1>10, <2>3
    <3>6. Passes(Start(f), m, {v}) /\ f \in Faults /\ Goes(m)  BY <1>5, <1>10
    <3> QED  BY <1>5, <1>6, <3>1, <3>2, <3>3, <3>4, <3>5, <3>6 DEF Settles
  <2>8. /\ FsSound' /\ Base' /\ ViewImg' = v
        /\ fs'.mounted = fs.mounted /\ fs'.wflag = FALSE
        /\ faults' = 0 => faults = 0
    BY <2>4, <2>5, <2>6, <2>7, StepSettled
  <2>9. fp' = NoFp
    <3>1. call.fn = "f_close" \/ fp = NoFp  BY <1>1, <1>3 DEF Closed
    <3> QED  BY <1>10, <3>1
  <2>10. faults' = 0 => Lost(ViewImg') = {}  BY <1>2, <2>8 DEF Lossless
  <2>11. Rest'  BY <2>5, <2>6, <2>8, <2>9, <2>10 DEF Rest, Closed, Clean, Quiet
  <2> QED  BY <2>8, <2>11 DEF FatInd, FatIInv, Phases
<1> QED  BY <1>9, <1>10

(* The file object after f_write has put bytes into the buffer of sector x. *)
BufferFilled(x, b, n, y) ==
    /\ IsFp'
    /\ fp'.name = fp.name /\ fp'.write = fp.write /\ fp'.slot = fp.slot
    /\ fp'.sclust = fp.sclust /\ fp'.objsize = fp.fptr + n /\ fp'.fptr = fp.fptr + n
    /\ fp'.clust = fp.clust /\ fp'.sect = x /\ fp'.buf = b /\ fp'.dirty = TRUE
    /\ fp'.err = fp.err /\ fp'.bytes = y
(* The fields of the file object after bytes went into the buffer.         *)
LEMMA FpFilled ==
    ASSUME IsFp, fp.fptr \in Nat, fp.objsize = fp.fptr, NEW x, NEW b, NEW n \in Nat \ {0},
           NEW y, y = fp.bytes \o [k \in 1 .. n |-> call.tok],
           NEW q, q = [fp EXCEPT !.sect = x],
           NEW r, r = [q EXCEPT !.buf = b, !.dirty = TRUE], fp' = Advance(r, n)
    PROVE  BufferFilled(x, b, n, y)
<1> PICK v_name : v_name = fp.name  OBVIOUS
<1> PICK v_write : v_write = fp.write  OBVIOUS
<1> PICK v_slot : v_slot = fp.slot  OBVIOUS
<1> PICK v_sclust : v_sclust = fp.sclust  OBVIOUS
<1> PICK v_objsize : v_objsize = fp.objsize  OBVIOUS
<1> PICK v_fptr : v_fptr = fp.fptr  OBVIOUS
<1> PICK v_clust : v_clust = fp.clust  OBVIOUS
<1> PICK v_sect : v_sect = fp.sect  OBVIOUS
<1> PICK v_buf : v_buf = fp.buf  OBVIOUS
<1> PICK v_dirty : v_dirty = fp.dirty  OBVIOUS
<1> PICK v_err : v_err = fp.err  OBVIOUS
<1> PICK v_bytes : v_bytes = fp.bytes  OBVIOUS
<1>0. fp = FpRec(v_name, v_write, v_slot, v_sclust, v_objsize, v_fptr, v_clust, v_sect, v_buf, v_dirty, v_err, v_bytes)
  BY DEF IsFp
<1>1. q = FpRec(v_name, v_write, v_slot, v_sclust, v_objsize, v_fptr, v_clust, x, v_buf, v_dirty, v_err, v_bytes)
  BY ONLY <1>0, q = [fp EXCEPT !.sect = x] DEF FpRec
<1> PICK r1 : r1 = [q EXCEPT !.buf = b]  OBVIOUS
<1>2. r1 = FpRec(v_name, v_write, v_slot, v_sclust, v_objsize, v_fptr, v_clust, x, b, v_dirty, v_err, v_bytes)
  BY ONLY <1>1, r1 = [q EXCEPT !.buf = b] DEF FpRec
<1> PICK r2 : r2 = [r1 EXCEPT !.dirty = TRUE]  OBVIOUS
<1>3. r2 = FpRec(v_name, v_write, v_slot, v_sclust, v_objsize, v_fptr, v_clust, x, b, TRUE, v_err, v_bytes)
  BY ONLY <1>2, r2 = [r1 EXCEPT !.dirty = TRUE] DEF FpRec
<1>4. r = r2  OBVIOUS
<1> PICK z : z = v_fptr + n  OBVIOUS
<1>5. r.fptr = v_fptr /\ r.objsize = v_objsize /\ r.bytes = v_bytes  BY ONLY <1>3, <1>4 DEF FpRec
<1>6. v_objsize = v_fptr /\ v_fptr \in Nat /\ z > v_fptr /\ y = v_bytes \o [k \in 1 .. n |-> call.tok]  OBVIOUS
<1> PICK r3 : r3 = [r EXCEPT !.fptr = z]  OBVIOUS
<1>7. r3 = FpRec(v_name, v_write, v_slot, v_sclust, v_objsize, z, v_clust, x, b, TRUE, v_err, v_bytes)
  BY ONLY <1>3, <1>4, r3 = [r EXCEPT !.fptr = z] DEF FpRec
<1> PICK r4 : r4 = [r3 EXCEPT !.objsize = z]  OBVIOUS
<1>8. r4 = FpRec(v_name, v_write, v_slot, v_sclust, z, z, v_clust, x, b, TRUE, v_err, v_bytes)
  BY ONLY <1>7, r4 = [r3 EXCEPT !.objsize = z] DEF FpRec
<1> PICK r5 : r5 = [r4 EXCEPT !.bytes = y]  OBVIOUS
<1>9. r5 = FpRec(v_name, v_write, v_slot, v_sclust, z, z, v_clust, x, b, TRUE, v_err, y)
  BY ONLY <1>8, r5 = [r4 EXCEPT !.bytes = y] DEF FpRec
<1>10. fp' = [r EXCEPT !.fptr = z, !.objsize = IF z > @ THEN z ELSE @, !.bytes = @ \o [k \in 1 .. n |-> call.tok]]
  BY <1>5 DEF Advance
<1>11. fp' = [r EXCEPT !.fptr = z, !.objsize = IF z > r.objsize THEN z ELSE r.objsize,
                      !.bytes = r.bytes \o [k \in 1 .. n |-> call.tok]]
  BY <1>10
<1>12. (IF z > r.objsize THEN z ELSE r.objsize) = z /\ r.bytes \o [k \in 1 .. n |-> call.tok] = y
  BY ONLY <1>5, <1>6
<1>13. fp' = [r EXCEPT !.fptr = z, !.objsize = z, !.bytes = y]  BY ONLY <1>11, <1>12
<1>14. fp' = r5  BY <1>13
<1>15. fp' = FpRec(v_name, v_write, v_slot, v_sclust, z, z, v_clust, x, b, TRUE, v_err, y)  BY ONLY <1>9, <1>14
<1>16. /\ fp'.name = v_name /\ fp'.write = v_write /\ fp'.slot = v_slot /\ fp'.sclust = v_sclust /\ fp'.objsize = z /\ fp'.fptr = z /\ fp'.clust = v_clust /\ fp'.sect = x /\ fp'.buf = b /\ fp'.dirty = TRUE /\ fp'.err = v_err /\ fp'.bytes = y
  BY ONLY <1>15 DEF FpRec
<1>17. IsFp'  BY ONLY <1>15, <1>16 DEF IsFp
<1> QED  BY <1>6, <1>16, <1>17 DEF BufferFilled

(* The file lies in its clusters, more of them or fewer.                   *)
LEMMA OwnsMore == (Owns({0}) => Owns({0, 1})) /\ (Owns({1}) => Owns({0, 1}))
BY DEF Owns

(* A chain as long as the file, or one cluster longer, is one of the two.  *)
LEMMA OwnsMoreNext == (Owns({0})' => Owns({0, 1})') /\ (Owns({1})' => Owns({0, 1})')
BY OwnsMore, PTL

(* AllWritten keeps the invariant.                                         *)
LEMMA Keep_AllWritten ==
    ASSUME FatInd, AllWritten
    PROVE  FatInd'
<1>1. /\ call.pc = "round" /\ call.left = 0 /\ call' = NoCall
      /\ reply' = [call |-> "f_write", btw |-> call.btw, bw |-> call.btw - call.left]
      /\ fp' = fp /\ may' = may /\ moving' = moving
      /\ disk' = disk /\ fs' = fs /\ faults' = faults
  BY DEF AllWritten, WriteReturns
<1>2. Round  BY <1>1, PhaseAt
<1>3. /\ WriteCall /\ Written /\ Complete /\ fp.err = "OK" /\ Owns({0}) /\ Calling /\ call.btw \in Nat
      /\ MayType /\ Good(ViewImg, may, moving) /\ Good(CardImg, may, moving)
  BY <1>2 DEF Round, WriteCall, FatInd, FatIInv, Base
<1>4. RepliesHonest'
  <2> PICK n : n = call.btw  OBVIOUS
  <2>1. n \in Nat /\ n - call.left = n  BY <1>1, <1>3
  <2>2. reply' = [call |-> "f_write", btw |-> n, bw |-> n]  BY <1>1, <2>1
  <2>3. reply'.call = "f_write" /\ reply'.btw = n /\ reply'.bw = n  BY ONLY <2>2
  <2>4. ~(n < n)  BY <2>1
  <2> QED  BY ONLY <2>3, <2>4 DEF RepliesHonest
<1>5. MayType' /\ IsCall'  BY <1>1, <1>3, NoCallIs DEF MayType
<1>6. Good(ViewImg, may', moving') /\ Good(CardImg, may', moving')  BY <1>1, <1>3
<1>7. FsSound' /\ Base' /\ ViewImg' = ViewImg /\ CardImg' = CardImg
  BY <1>1, <1>4, <1>5, <1>6, Still
<1>8. Written' /\ Complete' /\ Owns({0})' /\ fp'.err = "OK"
  BY <1>1, <1>3, <1>7, WrittenStill
<1>9. WriteOpen'  BY <1>1, <1>8, OwnsMoreNext DEF WriteOpen
<1> QED  BY <1>7, <1>9 DEF FatInd, FatIInv, Phases

(* A position within a sector.                                             *)
LEMMA Inside ==
    ASSUME NEW z \in Nat
    PROVE  z % SectorSize \in Nat /\ z % SectorSize < SectorSize
<1> PICK s : s = SectorSize  OBVIOUS
<1>1. z + 1 \in Int /\ (z + 1) - 1 = z  OBVIOUS
<1>2. \A x \in Int : (x - 1) % s \in Int /\ 0 <= (x - 1) % s /\ (x - 1) % s < s  BY NthIs
<1>3. ((z + 1) - 1) % s \in Int /\ 0 <= ((z + 1) - 1) % s /\ ((z + 1) - 1) % s < s  BY <1>1, <1>2
<1> QED  BY <1>1, <1>3

(* The bytes go into the buffer, which is for the sector of x, the last    *)
(* cluster of the file.                                                    *)
Fills(x, k, p) ==
    /\ x \in Clusters /\ k \in 0 .. LastCluster /\ p \in [1 .. k -> Clusters] /\ Own(p, k)
    /\ k > 0 /\ x = p[k]
    /\ k = IF OnBoundary THEN Nth(fp.fptr) + 1 ELSE Nth(fp.fptr)
    /\ fp.dirty <=> ~OnBoundary
(* f_write into the buffer keeps the invariant.                            *)
LEMMA Buffered ==
    ASSUME FatInd, WriteCall, call.left > 0, NEW x, NEW k, NEW p, Fills(x, k, p),
           NEW q, q = [fp EXCEPT !.sect = x], Buffer(q)
    PROVE  FatInd'
<1> PICK z, at, b, y0, left, tok, sc, cl, d, s :
       /\ z = fp.fptr /\ at = fp.fptr % SectorSize /\ b = fp.buf /\ y0 = fp.bytes
       /\ left = call.left /\ tok = call.tok /\ sc = fp.sclust /\ cl = fp.clust /\ d = ViewImg.data
       /\ s = SectorSize
  OBVIOUS
<1> PICK n : n = IF s - at < left THEN s - at ELSE left  OBVIOUS
<1> PICK new : new = [j \in 1 .. SectorSize |-> IF j \in (at + 1) .. (at + n) THEN tok ELSE b[j]]  OBVIOUS
<1> PICK y : y = Added(y0, n, tok)  OBVIOUS
<1>1. /\ Written /\ Calling /\ call.fn = "f_write" /\ fp.err = "OK" /\ call.btw \in Nat /\ left \in Nat /\ tok \in Bytes
      /\ IsCall /\ MayType
  BY DEF WriteCall, FatInd, FatIInv, Base
<1>2. /\ IsFp /\ fp.name \in Names /\ fp.write = TRUE /\ fp.slot \in 1 .. Slots
      /\ {sc, cl, fp.sect} \subseteq {0} \cup Clusters
      /\ z \in Nat /\ b \in Sectorful /\ fp.dirty \in BOOLEAN /\ y0 \in Octets
      /\ fp.objsize = z /\ Len(y0) = z
  BY <1>1 DEF Written, FileOpen
<1>3. /\ x \in Clusters /\ k \in 0 .. LastCluster /\ p \in [1 .. k -> Clusters]
      /\ k > 0 /\ x = p[k]
      /\ k = IF at = 0 THEN Nth(z) + 1 ELSE Nth(z)
      /\ fp.dirty <=> at # 0
  BY DEF Fills, OnBoundary
<1>4. /\ Chain(ViewImg, p, k)
      /\ sc = IF k = 0 THEN 0 ELSE p[1]
      /\ cl = IF k = 0 THEN 0 ELSE p[k]
      /\ Apart(ViewImg, Span(p, k)) /\ Apart(CardImg, Span(p, k))
      /\ Held(d, p, z, b, fp.dirty, y0)
  BY DEF Fills, Own
<1>5. at \in Nat /\ at < s /\ s \in Nat \ {0} /\ at = z % SectorSize  BY <1>2, Inside, Sizes
<1>6. n \in Nat \ {0} /\ at + n <= s /\ left - n \in Nat
  <2>1. left > 0  OBVIOUS
  <2> QED  BY ONLY <1>1, <1>5, <2>1, n = IF s - at < left THEN s - at ELSE left
<1>7. q.fptr = z /\ q.buf = b
  BY <1>2 DEF IsFp, FpRec
<1>8. /\ fp' = Advance([q EXCEPT !.buf = new, !.dirty = TRUE], n)
      /\ call' = CallLeft(left - n)
      /\ disk' = disk /\ fs' = fs /\ may' = may /\ reply' = reply /\ moving' = moving /\ faults' = faults
  BY <1>7 DEF Buffer, CallLeft
<1>9. /\ IsFp'
      /\ fp'.name = fp.name /\ fp'.write = fp.write /\ fp'.slot = fp.slot
      /\ fp'.sclust = sc /\ fp'.objsize = z + n /\ fp'.fptr = z + n
      /\ fp'.clust = cl /\ fp'.sect = x /\ fp'.buf = new /\ fp'.dirty = TRUE
      /\ fp'.err = fp.err /\ fp'.bytes = y
  <2>1. y = fp.bytes \o [j \in 1 .. n |-> call.tok]  BY DEF Added
  <2> PICK r : r = [q EXCEPT !.buf = new, !.dirty = TRUE]  OBVIOUS
  <2>2. fp' = Advance(r, n)  BY <1>8
  <2>3. fp.fptr \in Nat /\ fp.objsize = fp.fptr  BY <1>2
  <2>4. IsFp /\ n \in Nat \ {0} /\ q = [fp EXCEPT !.sect = x] /\ r = [q EXCEPT !.buf = new, !.dirty = TRUE]
    BY <1>2, <1>6
  <2>5. BufferFilled(x, new, n, y)
    BY ONLY <2>1, <2>2, <2>3, <2>4, FpFilled
  <2> QED  BY <2>5 DEF BufferFilled
<1>10. /\ IsCall' /\ call'.fn = call.fn /\ call'.pc = "round" /\ call'.btw = call.btw
       /\ call'.left = left - n /\ call'.tok = tok
  BY <1>1, <1>8, CallLeftFields
<1>11. /\ y \in Octets /\ Len(y) = z + n /\ new \in Sectorful
       /\ Held(d, p, z + n, new, TRUE, y)
  <2> PICK dr : dr = fp.dirty  OBVIOUS
  <2>1. dr \in BOOLEAN /\ Held(d, p, z, b, dr, y0) /\ (dr <=> at # 0)  BY <1>2, <1>3, <1>4
  <2>2. z \in Nat /\ b \in Sectorful /\ y0 \in Octets /\ Len(y0) = z /\ tok \in Bytes  BY <1>1, <1>2
  <2>3. /\ at = z % SectorSize /\ at + n <= SectorSize /\ n \in Nat \ {0}
        /\ y = Added(y0, n, tok)
        /\ new = [j \in 1 .. SectorSize |-> IF j \in (at + 1) .. (at + n) THEN tok ELSE b[j]]
    BY <1>5, <1>6
  <2>4. Buffers(d, p, z, b, dr, y0, at, n, tok, y, new)  BY ONLY <2>1, <2>2, <2>3 DEF Buffers
  <2>5. Fuller(d, p, z, b, dr, y0, at, n, tok, y, new)  BY ONLY <2>4, HeldBuffer
  <2> QED  BY <2>5 DEF Fuller
<1>12. Nth(z + n) = k
  <2>1. (z % SectorSize) + n <= SectorSize  BY <1>5, <1>6
  <2>2. Grows(z, n)  BY <1>2, <1>6, <2>1, NthMore
  <2> QED  BY <1>3, <1>5, <2>2 DEF Grows
<1>13. Good(ViewImg, may', moving') /\ Good(CardImg, may', moving')  BY <1>8 DEF FatInd, FatIInv, Base
<1>14. MayType' /\ RepliesHonest'  BY <1>1, <1>8, NoReplyNext DEF MayType, Calling
<1>15. FsSound' /\ Base' /\ ViewImg' = ViewImg /\ CardImg' = CardImg
  BY <1>8, <1>10, <1>13, <1>14, Still
<1>16. z + n \in Nat /\ z + n > 0  BY <1>2, <1>6
<1>17. FileOpen(TRUE)'
  BY <1>2, <1>3, <1>9, <1>11, <1>16 DEF FileOpen
<1>18. Written'
  BY <1>1, <1>8, <1>9, <1>11, <1>15, <1>17 DEF Written, Lossless
<1>19. Own(p, k)'
  <2>1. Held(ViewImg'.data, p, fp'.fptr, fp'.buf, fp'.dirty, fp'.bytes)  BY <1>9, <1>11, <1>15
  <2>2. fp'.fptr > 0 /\ fp'.sect = p[Nth(fp'.fptr)] /\ k = Nth(fp'.fptr)  BY <1>3, <1>9, <1>12, <1>16
  <2>3. Chain(ViewImg', p, k) /\ Apart(ViewImg', Span(p, k)) /\ Apart(CardImg', Span(p, k))
    BY <1>4, <1>15
  <2>4. /\ fp'.sclust = IF k = 0 THEN 0 ELSE p[1]
        /\ fp'.clust = IF k = 0 THEN 0 ELSE p[k]
    BY <1>4, <1>9
  <2> QED  BY ONLY <2>1, <2>2, <2>3, <2>4 DEF Own
<1>20. Owns({0})'
  <2>1. k \in {Nth(fp'.fptr) + j : j \in {0}}
    <3>1. Nth(fp'.fptr) = k /\ k \in Nat  BY <1>3, <1>9, <1>12, Sizes
    <3> QED  BY ONLY <3>1
  <2> QED  BY <1>3, <1>19, <2>1 DEF Owns
<1>21. Complete'  BY <1>9 DEF Complete
<1>22. Calling'  BY <1>1, <1>8 DEF Calling
<1>23. Round'  BY <1>1, <1>6, <1>9, <1>10, <1>18, <1>20, <1>21, <1>22 DEF Round, WriteCall
<1> QED  BY <1>15, <1>23 DEF FatInd, FatIInv, Phases

(* FillBuffer keeps the invariant.                                         *)
LEMMA Keep_FillBuffer ==
    ASSUME FatInd, FillBuffer
    PROVE  FatInd'
<1>1. call.pc = "round" /\ call.left > 0 /\ ~OnBoundary /\ Buffer(fp)  BY DEF FillBuffer
<1>2. Round  BY <1>1, PhaseAt
<1>3. WriteCall /\ Owns({0}) /\ Written /\ Complete  BY <1>2 DEF Round, WriteCall
<1>4. IsFp /\ fp.fptr \in Nat /\ fp.dirty \in BOOLEAN  BY <1>3 DEF Written, FileOpen
<1> PICK k \in 0 .. LastCluster : \E p \in [1 .. k -> Clusters] :
       Own(p, k) /\ k \in {Nth(fp.fptr) + n : n \in {0}}
  BY <1>3 DEF Owns
<1> PICK p \in [1 .. k -> Clusters] : Own(p, k) /\ k \in {Nth(fp.fptr) + n : n \in {0}}  OBVIOUS
<1>5. fp.dirty = TRUE  BY <1>1, <1>3, <1>4 DEF Complete, OnBoundary
<1>6. fp.fptr > 0 /\ fp.sect = p[Nth(fp.fptr)]  BY <1>5 DEF Own
<1>7. k = Nth(fp.fptr) /\ k > 0  BY <1>4, <1>6, NthType
<1>8. fp.sect \in Clusters  BY <1>6, <1>7
<1> PICK x, q : x = fp.sect /\ q = [fp EXCEPT !.sect = x]  OBVIOUS
<1>9. q = fp  BY <1>4 DEF IsFp, FpRec
<1>10. Fills(x, k, p)  BY <1>1, <1>5, <1>6, <1>7, <1>8 DEF Fills
<1> QED  BY <1>1, <1>3, <1>9, <1>10, Buffered

(* StartBuffer keeps the invariant.                                        *)
LEMMA Keep_StartBuffer ==
    ASSUME FatInd, StartBuffer
    PROVE  FatInd'
<1>1. call.pc = "store" /\ Buffer([fp EXCEPT !.sect = fp.clust])  BY DEF StartBuffer
<1>2. Storing  BY <1>1, PhaseAt
<1>3. WriteCall /\ Owns({1}) /\ Written /\ OnBoundary /\ call.left > 0 /\ ~fp.dirty
  BY <1>2 DEF Storing, AtSector, WriteCall
<1>4. fp.fptr \in Nat /\ fp.dirty \in BOOLEAN  BY <1>3 DEF Written, FileOpen
<1> PICK k \in 0 .. LastCluster : \E p \in [1 .. k -> Clusters] :
       Own(p, k) /\ k \in {Nth(fp.fptr) + n : n \in {1}}
  BY <1>3 DEF Owns
<1> PICK p \in [1 .. k -> Clusters] : Own(p, k) /\ k \in {Nth(fp.fptr) + n : n \in {1}}  OBVIOUS
<1>5. k = Nth(fp.fptr) + 1 /\ k > 0
  <2> PICK w : w = Nth(fp.fptr)  OBVIOUS
  <2>1. w \in Nat /\ k \in {w + n : n \in {1}}  BY <1>4, NthType
  <2> QED  BY <2>1
<1>6. fp.clust = p[k] /\ p[k] \in Clusters
  <2>1. k \in 1 .. k  BY <1>5
  <2> QED  BY <1>5, <2>1 DEF Own
<1> PICK x, q : x = fp.clust /\ q = [fp EXCEPT !.sect = x]  OBVIOUS
<1>7. Fills(x, k, p)  BY <1>3, <1>4, <1>5, <1>6 DEF Fills
<1> QED  BY <1>1, <1>3, <1>7, Buffered

(* What a file being written shows on the driver's view v, the card c and  *)
(* in the file object q.                                                   *)
Owned(v, c, p, k, q) ==
    /\ Chain(v, p, k)
    /\ q.sclust = IF k = 0 THEN 0 ELSE p[1]
    /\ q.clust = IF k = 0 THEN 0 ELSE p[k]
    /\ k \in {Nth(q.fptr), Nth(q.fptr) + 1}
    /\ Apart(v, Span(p, k)) /\ Apart(c, Span(p, k))
    /\ q.dirty => q.fptr > 0 /\ q.sect = p[Nth(q.fptr)]
    /\ Held(v.data, p, q.fptr, q.buf, q.dirty, q.bytes)
Writable(v, c, q) ==
    /\ v.dir[q.slot] = File(q.name, 0, 0)
    /\ \A b \in Clusters : v.fat[b] = Free => c.fat[b] = Free
Runs(p, k) == k \in 0 .. LastCluster /\ p \in [1 .. k -> Clusters]

(* Own speaks of the view, the card and the file object.                   *)
LEMMA OwnedIs ==
    ASSUME NEW p, NEW k
    PROVE  Own(p, k) <=> Owned(ViewImg, CardImg, p, k, fp)
BY DEF Own, Owned

(* The same after a step.                                                  *)
LEMMA OwnedNext ==
    ASSUME NEW p, NEW k, NEW v, NEW c, NEW q, v = ViewImg', c = CardImg', q = fp',
           Owned(v, c, p, k, q)
    PROVE  Own(p, k)'
<1>1. Owned(ViewImg', CardImg', p, k, fp')  OBVIOUS
<1> QED  BY ONLY <1>1 DEF Own, Owned

(* The file's chain.                                                       *)
LEMMA OwnsPick ==
    ASSUME NEW M, Owns(M)
    PROVE  \E k, p : /\ Runs(p, k) /\ Own(p, k)
                     /\ k \in {Nth(fp.fptr) + n : n \in M}
<1> PICK k \in 0 .. LastCluster : \E p \in [1 .. k -> Clusters] :
       Own(p, k) /\ k \in {Nth(fp.fptr) + n : n \in M}
  BY DEF Owns
<1> PICK p \in [1 .. k -> Clusters] : Own(p, k) /\ k \in {Nth(fp.fptr) + n : n \in M}
  OBVIOUS
<1>1. Runs(p, k)  BY DEF Runs
<1> QED  BY <1>1

(* A chain of the file after a step.                                       *)
LEMMA OwnsNext ==
    ASSUME NEW M, NEW p, NEW k, Runs(p, k), Own(p, k)', NEW z, z = fp'.fptr, NEW n \in M, k = Nth(z) + n
    PROVE  Owns(M)'
<1>1. k \in {Nth(z) + j : j \in M}  OBVIOUS
<1>2. k \in {Nth(fp'.fptr) + j : j \in M}  BY <1>1
<1>3. k \in 0 .. LastCluster /\ p \in [1 .. k -> Clusters]  BY DEF Runs
<1> QED  BY <1>2, <1>3 DEF Owns

(* A step of f_write or f_close that goes on.                              *)
Writes1(f, m, W, v, c, q) ==
    /\ f \in Faults /\ Passes(Start(f), m, W) /\ Struck(f, m) /\ Goes(m)
    /\ Honest(W, may, {})
    /\ v = Seen(m) /\ c = Card(m)
    /\ Writable(v, c, q) /\ (faults = 0 => Lost(v) \subseteq {q.sclust})
    /\ q.objsize = q.fptr /\ Len(q.bytes) = q.fptr
(* A step of f_write that goes on: what holds of the new view, card and    *)
(* file object holds of the state.                                         *)
LEMMA WriteGoes ==
    ASSUME FatInd, Written, Calling, NEW f, NEW m, NEW W, NEW v, NEW c, NEW q, Writes1(f, m, W, v, c, q),
           Step(m, f), q = fp', FileOpen(TRUE)', IsCall', may' = may, reply' = reply, moving' = moving
    PROVE  /\ FsSound' /\ Base' /\ Written' /\ Calling'
           /\ ViewImg' = v /\ CardImg' = c
<1>0. /\ f \in Faults /\ Passes(Start(f), m, W) /\ Struck(f, m) /\ Goes(m)
      /\ Honest(W, may, {})
      /\ v = Seen(m) /\ c = Card(m)
      /\ Writable(v, c, q) /\ (faults = 0 => Lost(v) \subseteq {q.sclust})
      /\ q.objsize = q.fptr /\ Len(q.bytes) = q.fptr
  BY DEF Writes1
<1>1. moving = {} /\ fs.mounted /\ reply = NoReply /\ MayType /\ Good(CardImg, may, moving)
  BY DEF Written, Calling, FatInd, FatIInv, Base
<1>2. Honest(W, may', moving') /\ Good(CardImg, may', moving')  BY <1>0, <1>1
<1>3. MayType' /\ RepliesHonest'  BY <1>1, NoReplyNext DEF MayType
<1>4. /\ FsSound' /\ Base'
      /\ Goes(m) => /\ ViewImg' = Seen(m) /\ fs'.mounted = fs.mounted
      /\ CardImg' = Card(m)
      /\ faults' = 0 => faults = 0
  BY <1>0, <1>2, <1>3, StepBase
<1>5. ViewImg' = v /\ CardImg' = c /\ fs'.mounted = fs.mounted  BY <1>0, <1>4
<1>6. Calling'  BY <1>1, <1>5 DEF Calling
<1>7. Lossless({fp.sclust})'  BY <1>0, <1>4, <1>5 DEF Lossless
<1>8. ViewImg'.dir[fp'.slot] = File(fp'.name, 0, 0)  BY <1>0, <1>5 DEF Writable
<1>9. \A b \in Clusters : ViewImg'.fat[b] = Free => CardImg'.fat[b] = Free  BY <1>0, <1>5 DEF Writable
<1>10. fp'.objsize = fp'.fptr /\ Len(fp'.bytes) = fp'.fptr  BY <1>0
<1>11. moving' = {} /\ fs'.mounted  BY <1>1, <1>5
<1>12. Written'  BY <1>7, <1>8, <1>9, <1>10, <1>11 DEF Written
<1> QED  BY <1>4, <1>5, <1>6, <1>12

(* A step of f_write that is cut short.                                    *)
Stays(f, m, W, v, c, p, k) ==
    /\ f \in Faults /\ Passes(Start(f), m, W) /\ Struck(f, m)
    /\ Honest(W, may, {})
    /\ v = Seen(m) /\ c = Card(m) /\ Runs(p, k)
    /\ OffOf(m) = FALSE => Writable(v, c, fp) /\ Owned(v, c, p, k, fp)
(* It ends the call with the error in the file object, or with the power   *)
(* the session, and keeps the invariant.                                   *)
LEMMA WriteCut ==
    ASSUME FatInd, WriteCall, NEW f, NEW m, NEW W, NEW v, NEW c, NEW p, NEW k,
           Stays(f, m, W, v, c, p, k), Step(m, f), Cut(m)
    PROVE  FatInd'
<1>0. /\ f \in Faults /\ Passes(Start(f), m, W) /\ Struck(f, m)
      /\ Honest(W, may, {})
      /\ v = Seen(m) /\ c = Card(m) /\ Runs(p, k)
      /\ OffOf(m) = FALSE => Writable(v, c, fp) /\ Owned(v, c, p, k, fp)
  BY DEF Stays
<1>1. /\ Calling /\ Written /\ Complete /\ call.fn = "f_write" /\ moving = {} /\ fs.mounted /\ reply = NoReply
      /\ MayType /\ Good(CardImg, may, moving) /\ IsFp
  BY DEF WriteCall, Written, FileOpen, Calling, FatInd, FatIInv, Base
<1>2. /\ ~Goes(m) /\ call' = NoCall /\ may' = may /\ reply' = reply /\ moving' = moving
      /\ fp' = CASE m.off \/ call.fn = "f_close" -> NoFp
                 [] ~m.off /\ call.fn \in {"f_write", "f_read"} -> [fp EXCEPT !.err = m.res]
                 [] OTHER -> fp
  BY DEF Cut
<1>3. Honest(W, may', moving') /\ Good(CardImg, may', moving')  BY <1>0, <1>1, <1>2
<1>4. MayType' /\ RepliesHonest' /\ IsCall'  BY <1>1, <1>2, NoReplyNext, NoCallIs DEF MayType
<1>5. /\ FsSound' /\ Base'
      /\ ~Goes(m) => faults' # 0
      /\ OffOf(m) => fs' = NoFs
      /\ ~OffOf(m) => fs'.mounted = fs.mounted /\ ViewImg' = Seen(m)
      /\ CardImg' = Card(m)
  BY <1>0, <1>3, <1>4, StepBase
<1>6. faults' # 0  BY <1>2, <1>5
<1>7. OffOf(m) \in BOOLEAN  BY <1>0 DEF Passes, SoundRec, Shaped
<1>8. CASE OffOf(m) = TRUE
  <2>1. fp' = NoFp  BY <1>1, <1>2, <1>8 DEF OffOf
  <2>2. fs' = NoFs  BY <1>5, <1>8
  <2>3. Rest'  BY <1>2, <1>6, <2>1, <2>2 DEF Rest, Closed, Clean
  <2> QED  BY <1>5, <2>3 DEF FatInd, FatIInv, Phases
<1>9. CASE OffOf(m) = FALSE
  <2> PICK r, q : r = ResOf(m) /\ q = fp'  OBVIOUS
  <2>1. fp' = FpErr(r)  BY <1>1, <1>2, <1>9 DEF OffOf, ResOf, FpErr
  <2>2. /\ IsFp'
        /\ fp'.name = fp.name /\ fp'.write = fp.write /\ fp'.slot = fp.slot
        /\ fp'.sclust = fp.sclust /\ fp'.objsize = fp.objsize /\ fp'.fptr = fp.fptr
        /\ fp'.clust = fp.clust /\ fp'.sect = fp.sect /\ fp'.buf = fp.buf
        /\ fp'.dirty = fp.dirty /\ fp'.err = r /\ fp'.bytes = fp.bytes
    BY <1>1, <2>1, FpErrFields
  <2>3. r # "OK"  BY <1>2, <1>9, GoesIs
  <2>4. ViewImg' = v /\ CardImg' = c /\ fs'.mounted  BY <1>0, <1>1, <1>5, <1>9
  <2>5. Writable(v, c, fp) /\ Owned(v, c, p, k, fp)  BY <1>0, <1>9
  <2>6. Writable(v, c, q) /\ Owned(v, c, p, k, q)  BY <2>2, <2>5 DEF Writable, Owned
  <2>7. Own(p, k)'  BY <2>4, <2>6, OwnedNext
  <2>8. FileOpen(TRUE)'  BY <1>1, <2>2 DEF Written, FileOpen
  <2>9. Written'
    <3>1. fp'.objsize = fp'.fptr /\ Len(fp'.bytes) = fp'.fptr  BY <1>1, <2>2 DEF Written
    <3>2. ViewImg'.dir[fp'.slot] = File(fp'.name, 0, 0)  BY <2>4, <2>6 DEF Writable
    <3>3. \A b \in Clusters : ViewImg'.fat[b] = Free => CardImg'.fat[b] = Free
      BY <2>4, <2>6 DEF Writable
    <3>4. moving' = {} /\ Lossless({fp.sclust})'  BY <1>1, <1>2, <1>6 DEF Lossless
    <3> QED  BY <2>4, <2>8, <3>1, <3>2, <3>3, <3>4 DEF Written
  <2>10. Complete'  BY <1>1, <2>2 DEF Complete
  <2>11. Owns({0, 1})'
    <3> PICK z : z = fp'.fptr  OBVIOUS
    <3>1. k \in {Nth(z), Nth(z) + 1}  BY <2>6 DEF Owned
    <3>2. z \in Nat  BY <2>8 DEF FileOpen
    <3>3. Nth(z) \in Nat  BY <3>2, NthType
    <3>4. k = Nth(z) + 0 \/ k = Nth(z) + 1  BY <3>1, <3>3
    <3> QED  BY <1>0, <2>7, <3>4, OwnsNext
  <2>12. WriteOpen'  BY <1>2, <2>2, <2>3, <2>9, <2>10, <2>11 DEF WriteOpen
  <2> QED  BY <1>5, <2>12 DEF FatInd, FatIInv, Phases
<1> QED  BY <1>7, <1>8, <1>9

(* A step of f_write that only reads: the file lies where it lay.          *)
Watches(f, m) == f \in Faults /\ Passes(Start(f), m, {ViewImg}) /\ Struck(f, m)
(* It leaves view, card and chain alone.                                   *)
LEMMA LookStays ==
    ASSUME FatInd, WriteCall, NEW f, NEW m, Watches(f, m), NEW p, NEW k, Runs(p, k), Own(p, k),
           NEW v, v = Seen(m), NEW c, c = Card(m)
    PROVE  Stays(f, m, {ViewImg}, v, c, p, k)
<1>1. f \in Faults /\ Passes(Start(f), m, {ViewImg}) /\ Struck(f, m)  BY DEF Watches
<1>2. Written /\ moving = {} /\ Good(ViewImg, may, moving)
  BY DEF WriteCall, Written, FatInd, FatIInv, Base
<1>3. Honest({ViewImg}, may, {})  BY <1>2 DEF Honest
<1> PICK s : s = Start(f)  OBVIOUS
<1>4. Card(s) = CardImg  BY <1>1, AtStart
<1>5. c \in {CardImg, ViewImg}  BY <1>1, <1>4 DEF Passes
<1>6. OffOf(m) = FALSE => v = ViewImg  BY <1>1 DEF Passes
<1>7. Owned(ViewImg, CardImg, p, k, fp)  BY OwnedIs
<1>8. Owned(ViewImg, c, p, k, fp)  BY ONLY <1>5, <1>7 DEF Owned
<1>9. Writable(ViewImg, c, fp)  BY <1>2, <1>5 DEF Writable, Written
<1> QED  BY <1>1, <1>3, <1>6, <1>8, <1>9 DEF Stays

(* Cut short, it keeps the invariant.                                      *)
LEMMA LookCuts ==
    ASSUME FatInd, WriteCall, Owns({0}), NEW f, NEW m, Watches(f, m), Step(m, f), Cut(m)
    PROVE  FatInd'
<1> PICK k, p : Runs(p, k) /\ Own(p, k)  BY OwnsPick
<1> PICK v, c, W : v = Seen(m) /\ c = Card(m) /\ W = {ViewImg}  OBVIOUS
<1>1. Stays(f, m, W, v, c, p, k)  BY LookStays
<1> QED  BY <1>1, WriteCut

(* Gone well, it keeps all but the phase.                                  *)
LEMMA LookKeeps ==
    ASSUME FatInd, WriteCall, Owns({0}), NEW f, NEW m, Watches(f, m), Step(m, f), Goes(m),
           fp' = fp, may' = may, moving' = moving, IsCall', RepliesHonest'
    PROVE  /\ FsSound' /\ Base' /\ Written' /\ Complete' /\ Owns({0})'
           /\ ViewImg' = ViewImg /\ fs'.mounted
<1>1. f \in Faults /\ Passes(Start(f), m, {ViewImg}) /\ Struck(f, m)  BY DEF Watches
<1>2. /\ Written /\ Complete /\ moving = {} /\ Good(ViewImg, may, moving) /\ Good(CardImg, may, moving)
      /\ MayType /\ fs.mounted
  BY DEF WriteCall, Written, FatInd, FatIInv, Base
<1>3. Honest({ViewImg}, may', moving') /\ Good(CardImg, may', moving') /\ MayType'
  BY <1>2 DEF Honest, MayType
<1>4. /\ FsSound' /\ Base'
      /\ Goes(m) => /\ ViewImg' \in {ViewImg}
                    /\ fs'.mounted = fs.mounted
      /\ CardImg' \in {CardImg} \cup {ViewImg}
      /\ faults' = 0 => faults = 0
  BY <1>1, <1>3, StepBase
<1>5. ViewImg' = ViewImg /\ fs'.mounted /\ CardImg' \in {CardImg, ViewImg}  BY <1>2, <1>4
<1>6. FileOpen(TRUE)'  BY <1>2 DEF Written, FileOpen, IsFp
<1>7. Written'
  <2>1. Lossless({fp.sclust})'  BY <1>2, <1>4, <1>5 DEF Written, Lossless
  <2>2. \A b \in Clusters : ViewImg'.fat[b] = Free => CardImg'.fat[b] = Free
    BY <1>2, <1>5 DEF Written
  <2> QED  BY <1>2, <1>5, <1>6, <2>1, <2>2 DEF Written
<1>8. Complete'  BY <1>2 DEF Complete
<1>9. Owns({0})'
  <2> PICK k, p : Runs(p, k) /\ Own(p, k) /\ k \in {Nth(fp.fptr) + n : n \in {0}}  BY OwnsPick
  <2>1. Owned(ViewImg, CardImg, p, k, fp)  BY OwnedIs
  <2>2. Owned(ViewImg', CardImg', p, k, fp')
    <3>1. Apart(CardImg', Span(p, k))  BY <1>5, <2>1 DEF Owned
    <3> QED  BY ONLY <1>5, <2>1, <3>1, fp' = fp DEF Owned
  <2>3. Own(p, k)'  BY ONLY <2>2 DEF Own, Owned
  <2>4. k \in {Nth(fp'.fptr) + n : n \in {0}}  OBVIOUS
  <2> QED  BY <2>3, <2>4 DEF Owns, Runs
<1> QED  BY <1>4, <1>5, <1>7, <1>8, <1>9

(* The hint is a cluster, or the one before the first.                     *)
LEMMA HintType ==
    ASSUME NEW l, NEW c \in {0} \cup Clusters
    PROVE  Hint(l, c) \in 1 .. LastCluster
BY Sizes DEF Hint, Clusters

(* Nothing is looked at yet.                                               *)
LEMMA NextType ==
    ASSUME NEW c \in 1 .. LastCluster
    PROVE  NextCluster(c) \in Clusters
BY Sizes DEF NextCluster, Clusters

(* NextSector keeps the invariant.                                         *)
LEMMA Keep_NextSector ==
    ASSUME FatInd, NextSector
    PROVE  FatInd'
<1>1. /\ call.pc = "round" /\ call.left > 0 /\ OnBoundary
      /\ fp.fptr # 0 => call' = CallPc("follow")
      /\ fp.fptr = 0 /\ fp.sclust # 0 => call' = CallPc("flush")
      /\ fp.fptr = 0 /\ fp.sclust = 0 => call' = CallSearch(Hint(fs.last_clst, 0))
      /\ fp' = IF fp.fptr = 0 THEN [fp EXCEPT !.clust = fp.sclust] ELSE fp
      /\ disk' = disk /\ fs' = fs /\ may' = may /\ reply' = reply /\ moving' = moving
      /\ faults' = faults
  BY DEF NextSector, CallPc, CallSearch
<1>2. Round  BY <1>1, PhaseAt
<1>3. /\ WriteCall /\ Written /\ Complete /\ fp.err = "OK" /\ Owns({0}) /\ Calling
      /\ call.fn = "f_write" /\ {call.btw, call.left} \subseteq Nat /\ call.tok \in Bytes
      /\ MayType /\ Good(ViewImg, may, moving) /\ Good(CardImg, may, moving) /\ IsCall /\ IsFp
      /\ fp.fptr \in Nat
  BY <1>2 DEF Round, WriteCall, Written, FileOpen, FatInd, FatIInv, Base
<1>4. fp.fptr = 0 => fp.sclust = 0 /\ fp.clust = 0
  <2> SUFFICES ASSUME fp.fptr = 0 PROVE fp.sclust = 0 /\ fp.clust = 0  OBVIOUS
  <2> PICK k, p : Runs(p, k) /\ Own(p, k) /\ k \in {Nth(fp.fptr) + n : n \in {0}}  BY <1>3, OwnsPick
  <2>1. k = 0  BY NthZero
  <2> QED  BY <2>1 DEF Own
<1>5. fp' = fp
  <2>1. CASE fp.fptr = 0
    <3>1. [fp EXCEPT !.clust = fp.sclust] = fp  BY <1>3, <1>4, <2>1 DEF IsFp, FpRec
    <3> QED  BY <1>1, <2>1, <3>1
  <2> QED  BY <1>1, <2>1
<1> PICK h : h = Hint(fs.last_clst, 0)  OBVIOUS
<1>6. h \in 1 .. LastCluster  BY HintType
<1>7. call' = CallPc("follow") \/ call' = CallSearch(h)  BY <1>1, <1>4
<1>8. /\ IsCall'
      /\ call'.fn = call.fn /\ call'.btw = call.btw /\ call'.left = call.left /\ call'.tok = call.tok
  BY <1>3, <1>7, CallPcFields, CallSearchFields
<1>9. MayType' /\ RepliesHonest' /\ Calling'  BY <1>1, <1>3, NoReplyNext DEF MayType, Calling
<1>10. FsSound' /\ Base' /\ ViewImg' = ViewImg /\ CardImg' = CardImg
  BY <1>1, <1>3, <1>8, <1>9, Still
<1>11. Written' /\ Complete' /\ Owns({0})'
  BY <1>1, <1>3, <1>5, <1>10, WrittenStill
<1>12. WriteCall'  BY <1>3, <1>5, <1>8, <1>9, <1>11 DEF WriteCall
<1>13. AtSector'  BY <1>1, <1>5, <1>8, <1>12 DEF AtSector, OnBoundary
<1>14. CASE fp.fptr # 0
  <2>1. call'.pc = "follow"  BY <1>1, <1>3, <1>14, CallPcFields
  <2>2. Following'  BY <1>5, <1>11, <1>13, <1>14, <2>1 DEF Following
  <2> QED  BY <1>10, <2>2 DEF FatInd, FatIInv, Phases
<1>15. CASE fp.fptr = 0
  <2>1. call' = CallSearch(h)  BY <1>1, <1>4, <1>15
  <2>2. call'.pc = "search" /\ call'.scl = h /\ call'.clst = h
    BY <1>3, <2>1, CallSearchFields
  <2>3. \A d \in Clusters : ~Covered(d)'
    <3> TAKE d \in Clusters
    <3>1. h \in Int /\ d \in Int  BY <1>6, Sizes DEF Clusters
    <3>2. ~(h < d /\ d <= h) /\ h >= h  BY ONLY <3>1
    <3> QED  BY ONLY <2>2, <3>2 DEF Covered
  <2>4. Search'  BY <1>6, <1>11, <1>13, <2>2, <2>3 DEF Search
  <2> QED  BY <1>10, <2>4 DEF FatInd, FatIInv, Phases
<1> QED  BY <1>14, <1>15

(* A value that makes no sense ends the call.                              *)
Refuses(g, w) == w = g \/ w = Fail(g, "INT_ERR")
SameStep(a, V, g, w) ==
    /\ Passes(a, w, V) /\ SoundRec(w)
    /\ OffOf(w) = OffOf(g) /\ Seen(w) = Seen(g) /\ ValOf(w) = ValOf(g)
    /\ Goes(w) => w = g
(* It changes nothing but the result.                                      *)
LEMMA RefusePasses ==
    ASSUME NEW a, NEW V, NEW g, NEW w, Passes(a, g, V), Refuses(g, w)
    PROVE  SameStep(a, V, g, w)
<1>1. SoundRec(g) /\ IsRec(g) /\ HintOf(g) \in Int  BY DEF Passes, SoundRec, Shaped
<1>2. CASE w = g  BY <1>1, <1>2 DEF SameStep
<1>3. CASE w = Fail(g, "INT_ERR")
  <2> PICK r : r = "INT_ERR"  OBVIOUS
  <2>1. w = Fail(g, r)  BY <1>3
  <2>2. /\ IsRec(w) /\ ResOf(w) = r
        /\ DiskOf(w) = DiskOf(g) /\ WinOf(w) = WinOf(g) /\ SectOf(w) = SectOf(g)
        /\ FlagOf(w) = FlagOf(g) /\ HintOf(w) = HintOf(g) /\ InfoOf(w) = InfoOf(g)
        /\ ValOf(w) = ValOf(g) /\ FuseOf(w) = FuseOf(g) /\ FaultOf(w) = FaultOf(g)
        /\ OffOf(w) = OffOf(g)
    BY ONLY <1>1, <2>1, OkShape
  <2>3. Passes(a, w, V) /\ Seen(w) = Seen(g)
    BY ONLY <1>1, <2>2, Passes(a, g, V), PassesResult
  <2>4. ~Goes(w)  BY <2>2, GoesIs
  <2> QED  BY <2>2, <2>3, <2>4 DEF SameStep, Passes
<1> QED  BY <1>2, <1>3 DEF Refuses

(* A look at a FAT entry.                                                  *)
FatRead(f, c, g) ==
    /\ Passes(Start(f), g, {ViewImg})
    /\ FuseOf(Start(f)) = -1 => ResOf(g) = "OK"
    /\ Goes(g) => ValOf(g) = ViewImg.fat[c]
    /\ SoundRec(g) /\ OffOf(g) \in BOOLEAN
(* get_fat gives the entry of the view, or fails.                          *)
LEMMA FatReads ==
    ASSUME FatInd, NEW f \in Faults, NEW c \in Clusters, NEW g, g = get_fat(Start(f), c)
    PROVE  FatRead(f, c, g)
<1> PICK s : s = Start(f)  OBVIOUS
<1>1. SoundRec(s) /\ OffOf(s) = FALSE /\ ResOf(s) = "OK" /\ Seen(s) = ViewImg  BY AtStart
<1>2. g = get_fat(s, c)  OBVIOUS
<1>3. /\ Passes(s, g, {Seen(s)})
      /\ ~OffOf(g) /\ ResOf(g) = "OK" => ValOf(g) = Seen(s).fat[c]
      /\ FuseOf(s) = -1 => ResOf(g) = "OK"
  BY ONLY <1>1, <1>2, c \in Clusters, GetSound
<1>4. SoundRec(g) /\ OffOf(g) \in BOOLEAN  BY <1>3 DEF Passes, SoundRec, Shaped
<1> QED  BY <1>1, <1>3, <1>4, GoesIs DEF FatRead

(* The entry of a cluster of the volume is never refused without a fault.  *)
LEMMA FatWatches ==
    ASSUME FatInd, NEW f, f \in Faults, NEW c \in Clusters, NEW g, FatRead(f, c, g), NEW w, Refuses(g, w),
           Goes(g) => w = g
    PROVE  /\ Watches(f, w)
           /\ Goes(w) => w = g /\ ValOf(w) = ViewImg.fat[c]
<1>1. /\ Passes(Start(f), g, {ViewImg})
      /\ FuseOf(Start(f)) = -1 => ResOf(g) = "OK"
      /\ Goes(g) => ValOf(g) = ViewImg.fat[c]
  BY DEF FatRead
<1> PICK s, V : s = Start(f) /\ V = {ViewImg}  OBVIOUS
<1>2. Passes(s, g, V)  BY <1>1
<1>3. SameStep(s, V, g, w)  BY ONLY <1>2, Refuses(g, w), RefusePasses
<1>4. Struck(f, w)
  <2> SUFFICES ASSUME FuseOf(Start(f)) = -1, ~OffOf(w) PROVE ResOf(w) = "OK"  BY DEF Struck
  <2>1. ResOf(g) = "OK" /\ ~OffOf(g)  BY <1>1, <1>3 DEF SameStep
  <2>2. Goes(g)  BY <2>1, GoesIs
  <2> QED  BY <2>1, <2>2
<1> QED  BY <1>1, <1>3, <1>4 DEF Watches, SameStep

(* An entry of the FAT is a link.                                          *)
LEMMA FatIs ==
    ASSUME FatInd, NEW c \in Clusters
    PROVE  ViewImg.fat[c] \in Links /\ ViewImg.fat[c] # Insane /\ Eoc # Insane
<1>1. ViewImg \in Imgs  BY ImgsNow DEF FatInd
<1>2. ViewImg.fat[c] \in Links  BY <1>1, ImgFields
<1>3. Insane \notin Links /\ Eoc # Insane  BY DEF Insane, Links, Free, Eoc, Clusters
<1> QED  BY <1>2, <1>3

(* Follow keeps the invariant.                                             *)
LEMMA Keep_Follow ==
    ASSUME FatInd, Follow
    PROVE  FatInd'
<1> PICK f \in Faults : \E m \in {Occupied(get_fat(Start(f), fp.clust))} :
          /\ Step(m, f)
          /\ \/ Cut(m)
             \/ /\ Goes(m)
                /\ call' = [call EXCEPT !.pc = IF m.val \in Clusters THEN "flush" ELSE "next"]
                /\ fp' = [fp EXCEPT !.clust = IF m.val \in Clusters THEN m.val ELSE @]
                /\ UNCHANGED <<may, reply, moving>>
  BY DEF Follow
<1> PICK m : /\ m = Occupied(get_fat(Start(f), fp.clust))
             /\ Step(m, f)
             /\ \/ Cut(m)
                \/ /\ Goes(m)
                   /\ call' = [call EXCEPT !.pc = IF m.val \in Clusters THEN "flush" ELSE "next"]
                   /\ fp' = [fp EXCEPT !.clust = IF m.val \in Clusters THEN m.val ELSE @]
                   /\ UNCHANGED <<may, reply, moving>>
  OBVIOUS
<1>1. call.pc = "follow"  BY DEF Follow
<1>2. Following  BY <1>1, PhaseAt
<1>3. /\ WriteCall /\ AtSector /\ Written /\ Owns({0}) /\ Calling /\ fp.fptr # 0 /\ IsCall /\ IsFp
      /\ fp.fptr \in Nat /\ fp.err = "OK" /\ call.left > 0 /\ OnBoundary /\ MayType
  BY <1>2 DEF Following, AtSector, WriteCall, Written, FileOpen, FatInd, FatIInv, Base
<1> PICK c, g : c = fp.clust /\ g = get_fat(Start(f), c)  OBVIOUS
<1>4. c \in Clusters /\ ViewImg.fat[c] = Eoc
  <2> PICK k, p : Runs(p, k) /\ Own(p, k) /\ k \in {Nth(fp.fptr) + n : n \in {0}}  BY <1>3, OwnsPick
  <2> PICK w : w = Nth(fp.fptr)  OBVIOUS
  <2>1. w \in Nat /\ w > 0 /\ k \in {w + n : n \in {0}}  BY <1>3, NthType
  <2>2. k > 0 /\ k \in Nat  BY <2>1
  <2>3. p[k] \in Clusters  BY <2>2 DEF Runs
  <2> QED  BY <2>2, <2>3 DEF Own, Chain
<1>5. FatRead(f, c, g)  BY <1>4, FatReads
<1>6. Goes(g) => ValOf(g) = Eoc  BY <1>4, <1>5 DEF FatRead
<1>7. m = IF ValOf(g) \in {Free, Insane} THEN Fail(g, "INT_ERR") ELSE g  BY DEF Occupied, ValOf
<1>8. Refuses(g, m)  BY <1>7 DEF Refuses
<1>9. Goes(g) => m = g  BY <1>4, <1>6, <1>7, FatIs, EntryFields
<1>10. Watches(f, m) /\ (Goes(m) => m = g /\ ValOf(m) = ViewImg.fat[c])
  BY <1>4, <1>5, <1>8, <1>9, FatWatches
<1>11. CASE Cut(m)  BY <1>3, <1>10, <1>11, LookCuts
<1>12. CASE /\ Goes(m)
            /\ call' = [call EXCEPT !.pc = IF m.val \in Clusters THEN "flush" ELSE "next"]
            /\ fp' = [fp EXCEPT !.clust = IF m.val \in Clusters THEN m.val ELSE @]
            /\ UNCHANGED <<may, reply, moving>>
  <2>1. m.val \notin Clusters  BY <1>4, <1>10, <1>12, EntryFields DEF ValOf
  <2>2. call' = CallPc("next")  BY <1>12, <2>1 DEF CallPc
  <2>3. fp' = [fp EXCEPT !.clust = @]  BY <1>12, <2>1
  <2>4. fp' = fp  BY <1>3, <2>3 DEF IsFp, FpRec
  <2>5. /\ IsCall'
        /\ call'.fn = call.fn /\ call'.pc = "next" /\ call'.btw = call.btw
        /\ call'.left = call.left /\ call'.tok = call.tok
    BY <1>3, <2>2, CallPcFields
  <2>6. reply' = NoReply /\ RepliesHonest'  BY <1>3, <1>12, NoReplyNext DEF Calling
  <2>7. /\ FsSound' /\ Base' /\ Written' /\ Complete' /\ Owns({0})'
        /\ ViewImg' = ViewImg /\ fs'.mounted
    BY <1>3, <1>10, <1>12, <2>4, <2>5, <2>6, LookKeeps
  <2>8. WriteCall'  BY <1>3, <2>4, <2>5, <2>6, <2>7 DEF WriteCall, Calling
  <2>9. AtSector'  BY <1>3, <2>4, <2>5, <2>8 DEF AtSector, OnBoundary
  <2>10. Trying'  BY <1>3, <2>4, <2>5, <2>7, <2>9 DEF Trying
  <2> QED  BY <2>7, <2>10 DEF FatInd, FatIInv, Phases
<1> QED  BY <1>11, <1>12

(* TryNext keeps the invariant.                                            *)
LEMMA Keep_TryNext ==
    ASSUME FatInd, TryNext
    PROVE  FatInd'
<1> PICK f \in Faults : \E m \in {Sane(get_fat(Start(f), NextCluster(fp.clust)))} :
          /\ Step(m, f)
          /\ \/ Cut(m)
             \/ /\ Goes(m) /\ m.val = Free
                /\ GoesOn([call EXCEPT !.pc = "claim", !.clst = NextCluster(fp.clust)])
             \/ /\ Goes(m) /\ m.val # Free
                /\ GoesOn([call EXCEPT !.pc = "search", !.scl = Hint(fs.last_clst, fp.clust),
                                     !.clst = Hint(fs.last_clst, fp.clust)])
  BY DEF TryNext
<1> PICK m : /\ m = Sane(get_fat(Start(f), NextCluster(fp.clust)))
             /\ Step(m, f)
             /\ \/ Cut(m)
                \/ /\ Goes(m) /\ m.val = Free
                   /\ GoesOn([call EXCEPT !.pc = "claim", !.clst = NextCluster(fp.clust)])
                \/ /\ Goes(m) /\ m.val # Free
                   /\ GoesOn([call EXCEPT !.pc = "search", !.scl = Hint(fs.last_clst, fp.clust),
                                        !.clst = Hint(fs.last_clst, fp.clust)])
  OBVIOUS
<1>1. call.pc = "next"  BY DEF TryNext
<1>2. Trying  BY <1>1, PhaseAt
<1>3. /\ WriteCall /\ AtSector /\ Written /\ Owns({0}) /\ Calling /\ fp.fptr # 0 /\ IsCall /\ IsFp
      /\ fp.fptr \in Nat /\ fp.err = "OK" /\ call.left > 0 /\ OnBoundary /\ MayType
  BY <1>2 DEF Trying, AtSector, WriteCall, Written, FileOpen, FatInd, FatIInv, Base
<1>4. fp.clust \in Clusters
  <2> PICK k, p : Runs(p, k) /\ Own(p, k) /\ k \in {Nth(fp.fptr) + n : n \in {0}}  BY <1>3, OwnsPick
  <2> PICK w : w = Nth(fp.fptr)  OBVIOUS
  <2>1. w \in Nat /\ w > 0 /\ k \in {w + n : n \in {0}}  BY <1>3, NthType
  <2>2. k > 0 /\ k \in Nat  BY <2>1
  <2>3. p[k] \in Clusters  BY <2>2 DEF Runs
  <2> QED  BY <2>2, <2>3 DEF Own
<1> PICK c, h : c = NextCluster(fp.clust) /\ h = Hint(fs.last_clst, fp.clust)  OBVIOUS
<1>5. c \in Clusters /\ h \in 1 .. LastCluster
  <2>1. fp.clust \in 1 .. LastCluster /\ fp.clust \in {0} \cup Clusters  BY <1>4 DEF Clusters
  <2> QED  BY <2>1, NextType, HintType
<1> PICK g : g = get_fat(Start(f), c)  OBVIOUS
<1>6. FatRead(f, c, g)  BY <1>5, FatReads
<1>7. m = IF ValOf(g) = Insane THEN Fail(g, "INT_ERR") ELSE g  BY DEF Sane, ValOf
<1>8. Refuses(g, m)  BY <1>7 DEF Refuses
<1>9. Goes(g) => m = g  BY <1>5, <1>6, <1>7, FatIs DEF FatRead
<1>10. Watches(f, m) /\ (Goes(m) => m = g /\ ValOf(m) = ViewImg.fat[c])
  BY <1>5, <1>6, <1>8, <1>9, FatWatches
<1>11. CASE Cut(m)  BY <1>3, <1>10, <1>11, LookCuts
<1>12. CASE /\ Goes(m) /\ GoesOn(call') /\ ((call' = CallPcClst("claim", c) /\ m.val = Free) \/ call' = CallSearch(h))
  <2>1. fp' = fp /\ may' = may /\ reply' = reply /\ moving' = moving  BY <1>12 DEF GoesOn
  <2>2. /\ IsCall'
        /\ call'.fn = call.fn /\ call'.btw = call.btw
        /\ call'.left = call.left /\ call'.tok = call.tok
    BY <1>3, <1>12, CallPcClstFields, CallSearchFields
  <2>3. reply' = NoReply /\ RepliesHonest'  BY <1>3, <2>1, NoReplyNext DEF Calling
  <2>4. /\ FsSound' /\ Base' /\ Written' /\ Complete' /\ Owns({0})'
        /\ ViewImg' = ViewImg /\ fs'.mounted
    BY <1>3, <1>10, <1>12, <2>1, <2>2, <2>3, LookKeeps
  <2>5. WriteCall'  BY <1>3, <2>1, <2>2, <2>3, <2>4 DEF WriteCall, Calling
  <2>6. AtSector'  BY <1>3, <2>1, <2>2, <2>5 DEF AtSector, OnBoundary
  <2>7. CASE call' = CallPcClst("claim", c) /\ m.val = Free
    <3>1. call'.pc = "claim" /\ call'.clst = c  BY <1>3, <2>7, CallPcClstFields
    <3>2. ViewImg'.fat[c] = Free  BY <1>10, <1>12, <2>4, <2>7 DEF ValOf
    <3>3. Claiming'  BY <1>5, <2>4, <2>6, <3>1, <3>2 DEF Claiming
    <3> QED  BY <2>4, <3>3 DEF FatInd, FatIInv, Phases
  <2>8. CASE call' = CallSearch(h)
    <3>1. call'.pc = "search" /\ call'.scl = h /\ call'.clst = h  BY <1>3, <2>8, CallSearchFields
    <3>2. \A d \in Clusters : ~Covered(d)'
      <4> TAKE d \in Clusters
      <4>1. h \in Int /\ d \in Int  BY <1>5, Sizes DEF Clusters
      <4>2. ~(h < d /\ d <= h) /\ h >= h  BY ONLY <4>1
      <4> QED  BY ONLY <3>1, <4>2 DEF Covered
    <3>3. Search'  BY <1>5, <2>4, <2>6, <3>1, <3>2 DEF Search
    <3> QED  BY <2>4, <3>3 DEF FatInd, FatIInv, Phases
  <2> QED  BY <1>12, <2>7, <2>8
<1>13. ASSUME ~Cut(m)
       PROVE  /\ Goes(m) /\ GoesOn(call')
              /\ ((call' = CallPcClst("claim", c) /\ m.val = Free) \/ call' = CallSearch(h))
  BY <1>13 DEF GoesOn, CallPcClst, CallSearch
<1> QED  BY <1>11, <1>12, <1>13

(* What the search has seen, from behind scl to ncl.                       *)
Between(scl, ncl, d) == IF ncl >= scl THEN scl < d /\ d <= ncl ELSE scl < d \/ d <= ncl
(* Covered in these terms.                                                 *)
LEMMA CoveredIs ==
    ASSUME NEW d
    PROVE  Covered(d) <=> Between(call.scl, call.clst, d)
BY DEF Covered, Between

(* The same after a step.                                                  *)
LEMMA CoveredNext ==
    ASSUME NEW d, NEW scl, NEW ncl, call'.scl = scl, call'.clst = ncl
    PROVE  Covered(d)' <=> Between(scl, ncl, d)
BY DEF Covered, Between

(* The search goes on by a cluster, until it has been everywhere.          *)
LEMMA GoesAround ==
    ASSUME NEW scl \in 1 .. LastCluster, NEW ncl \in 1 .. LastCluster, NEW n, n = NextCluster(ncl)
    PROVE  /\ n # scl /\ ~Exhausted(scl, ncl) =>
                 \A d \in Clusters : Between(scl, n, d) => Between(scl, ncl, d) \/ d = n
           /\ n = scl => \A d \in Clusters : Between(scl, ncl, d) \/ d = n
           /\ Exhausted(scl, ncl) => \A d \in Clusters : Between(scl, ncl, d)
<1> PICK top : top = LastCluster  OBVIOUS
<1>1. top \in Nat /\ top >= 3 /\ Clusters = 2 .. top /\ scl \in 1 .. top /\ ncl \in 1 .. top
  BY Sizes DEF Clusters
<1>2. n = IF ncl + 1 > top THEN 2 ELSE ncl + 1  BY DEF NextCluster
<1>3. Exhausted(scl, ncl) <=> (ncl + 1 > top /\ 2 > scl)  BY DEF Exhausted
<1>4. ASSUME NEW d \in Clusters, n # scl, ~Exhausted(scl, ncl), Between(scl, n, d)
      PROVE  Between(scl, ncl, d) \/ d = n
  BY ONLY <1>1, <1>2, <1>3, <1>4 DEF Between
<1>5. ASSUME NEW d \in Clusters, n = scl
      PROVE  Between(scl, ncl, d) \/ d = n
  BY ONLY <1>1, <1>2, <1>5 DEF Between
<1>6. ASSUME NEW d \in Clusters, Exhausted(scl, ncl)
      PROVE  Between(scl, ncl, d)
  BY ONLY <1>1, <1>3, <1>6 DEF Between
<1> QED  BY <1>4, <1>5, <1>6

(* No cluster of the view is free: the volume is full.                     *)
LEMMA FullNext ==
    ASSUME \A c \in Clusters : ViewImg'.fat[c] # Free
    PROVE  FreeClusters(View') = {}
<1>1. \A c \in Clusters : ViewImg'.fat[c] = FatOf(View', c)  BY DEF ViewImg, Img
<1> QED  BY <1>1 DEF FreeClusters

(* FindFree keeps the invariant.                                           *)
LEMMA Keep_FindFree ==
    ASSUME FatInd, FindFree
    PROVE  FatInd'
<1> PICK f \in Faults : \E m \in {LookBehind(Start(f), call.scl, call.clst)} :
          LET full == Exhausted(call.scl, call.clst)
              ncl == NextCluster(call.clst)
          IN  /\ Step(m, f)
              /\ \/ Cut(m)
                 \/ /\ Goes(m) /\ ~full /\ m.val = Free
                    /\ GoesOn([call EXCEPT !.pc = "claim", !.clst = ncl])
                 \/ /\ Goes(m) /\ ~full /\ m.val # Free /\ ncl # call.scl
                    /\ GoesOn([call EXCEPT !.clst = ncl])
                 \/ /\ Goes(m) /\ (full \/ (m.val # Free /\ ncl = call.scl))
                    /\ WriteReturns
  BY DEF FindFree
<1> PICK scl, clst, c : scl = call.scl /\ clst = call.clst /\ c = NextCluster(call.clst)  OBVIOUS
<1> PICK m : /\ m = LookBehind(Start(f), scl, clst)
             /\ Step(m, f)
             /\ \/ Cut(m)
                \/ /\ Goes(m) /\ ~Exhausted(scl, clst) /\ m.val = Free
                   /\ GoesOn(CallPcClst("claim", c))
                \/ /\ Goes(m) /\ ~Exhausted(scl, clst) /\ m.val # Free /\ c # scl
                   /\ GoesOn(CallClst(c))
                \/ /\ Goes(m) /\ (Exhausted(scl, clst) \/ (m.val # Free /\ c = scl))
                   /\ WriteReturns
  BY DEF CallPcClst, CallClst
<1>1. call.pc = "search"  BY DEF FindFree
<1>2. Search  BY <1>1, PhaseAt
<1>3. /\ WriteCall /\ AtSector /\ Written /\ Owns({0}) /\ Calling /\ IsCall /\ IsFp
      /\ fp.err = "OK" /\ call.left > 0 /\ OnBoundary /\ MayType /\ FsSound
      /\ scl \in 1 .. LastCluster /\ clst \in 1 .. LastCluster
      /\ \A d \in Clusters : Covered(d) => ViewImg.fat[d] # Free
  BY <1>2 DEF Search, AtSector, WriteCall, Written, FileOpen, FatInd, FatIInv, Base
<1>4. \A d \in Clusters : Between(scl, clst, d) => ViewImg.fat[d] # Free
  BY <1>3, CoveredIs
<1>5. c \in Clusters /\ c \in 1 .. LastCluster
  <2>1. c \in Clusters  BY <1>3, NextType
  <2> QED  BY <2>1, Sizes DEF Clusters
<1>6. Watches(f, m) /\ (Goes(m) /\ ~Exhausted(scl, clst) => ValOf(m) = ViewImg.fat[c])
  <2>1. CASE Exhausted(scl, clst)
    <3>1. m = Start(f)  BY <2>1 DEF LookBehind
    <3> PICK V : V = {ViewImg}  OBVIOUS
    <3>2. SoundRec(m) /\ OffOf(m) = FALSE /\ ResOf(m) = "OK" /\ Seen(m) = ViewImg  BY <3>1, AtStart
    <3>3. Passes(m, m, {Seen(m)})  BY ONLY <3>2, PassesSelf
    <3> QED  BY <2>1, <3>1, <3>2, <3>3 DEF Watches, Struck
  <2>2. CASE ~Exhausted(scl, clst)
    <3> PICK g : g = get_fat(Start(f), c)  OBVIOUS
    <3>1. FatRead(f, c, g)  BY <1>5, FatReads
    <3>2. m = IF ValOf(g) = Insane THEN Fail(g, "INT_ERR") ELSE g  BY <2>2 DEF LookBehind, Sane, ValOf
    <3>3. Refuses(g, m)  BY <3>2 DEF Refuses
    <3>4. Goes(g) => m = g  BY <1>5, <3>1, <3>2, FatIs DEF FatRead
    <3>5. Watches(f, m) /\ (Goes(m) => m = g /\ ValOf(m) = ViewImg.fat[c])
      BY <1>5, <3>1, <3>3, <3>4, FatWatches
    <3> QED  BY <3>5
  <2> QED  BY <2>1, <2>2
<1>7. CASE Cut(m)  BY <1>3, <1>6, <1>7, LookCuts
<1>8. CASE /\ Goes(m) /\ ~Exhausted(scl, clst) /\ GoesOn(call')
           /\ \/ call' = CallPcClst("claim", c) /\ m.val = Free
              \/ call' = CallClst(c) /\ m.val # Free /\ c # scl
  <2>1. fp' = fp /\ may' = may /\ reply' = reply /\ moving' = moving  BY <1>8 DEF GoesOn
  <2>2. /\ IsCall'
        /\ call'.fn = call.fn /\ call'.btw = call.btw
        /\ call'.left = call.left /\ call'.tok = call.tok
        /\ call'.scl = scl /\ call'.clst = c
    BY <1>3, <1>8, CallPcClstFields, CallClstFields
  <2>3. reply' = NoReply /\ RepliesHonest'  BY <1>3, <2>1, NoReplyNext DEF Calling
  <2>4. /\ FsSound' /\ Base' /\ Written' /\ Complete' /\ Owns({0})'
        /\ ViewImg' = ViewImg /\ fs'.mounted
    BY <1>3, <1>6, <1>8, <2>1, <2>2, <2>3, LookKeeps
  <2>5. WriteCall'  BY <1>3, <2>1, <2>2, <2>3, <2>4 DEF WriteCall, Calling
  <2>6. AtSector'  BY <1>3, <2>1, <2>2, <2>5 DEF AtSector, OnBoundary
  <2>7. CASE call' = CallPcClst("claim", c) /\ m.val = Free
    <3>1. call'.pc = "claim"  BY <1>3, <2>7, CallPcClstFields
    <3>2. ViewImg'.fat[c] = Free  BY <1>6, <1>8, <2>4, <2>7 DEF ValOf
    <3>3. Claiming'  BY <1>5, <2>2, <2>4, <2>6, <3>1, <3>2 DEF Claiming
    <3> QED  BY <2>4, <3>3 DEF FatInd, FatIInv, Phases
  <2>8. CASE call' = CallClst(c) /\ m.val # Free /\ c # scl
    <3>1. call'.pc = "search"  BY <1>1, <1>3, <2>8, CallClstFields
    <3>2. \A d \in Clusters : Covered(d)' => ViewImg'.fat[d] # Free
      <4> SUFFICES ASSUME NEW d \in Clusters, Covered(d)' PROVE ViewImg'.fat[d] # Free  OBVIOUS
      <4>1. Between(scl, c, d)  BY ONLY <2>2, Covered(d)', CoveredNext
      <4>2. Between(scl, clst, d) \/ d = c  BY <1>3, <1>8, <2>8, <4>1, GoesAround
      <4>3. ViewImg.fat[c] # Free  BY <1>6, <1>8, <2>8 DEF ValOf
      <4> QED  BY <1>4, <2>4, <4>2, <4>3
    <3>3. Search'  BY <1>3, <1>5, <2>2, <2>4, <2>6, <3>1, <3>2 DEF Search
    <3> QED  BY <2>4, <3>3 DEF FatInd, FatIInv, Phases
  <2> QED  BY <1>8, <2>7, <2>8
<1>9. CASE Goes(m) /\ (Exhausted(scl, clst) \/ (m.val # Free /\ c = scl)) /\ WriteReturns
  <2>1. /\ call' = NoCall /\ fp' = fp /\ may' = may /\ moving' = moving
        /\ reply' = [call |-> "f_write", btw |-> call.btw, bw |-> call.btw - call.left]
    BY <1>9 DEF WriteReturns
  <2>2. \A d \in Clusters : ViewImg.fat[d] # Free
    <3>1. CASE Exhausted(scl, clst)  BY <1>3, <1>4, <3>1, GoesAround
    <3>2. CASE ~Exhausted(scl, clst) /\ m.val # Free /\ c = scl
      <4>1. ViewImg.fat[c] # Free  BY <1>6, <1>9, <3>2 DEF ValOf
      <4>2. \A d \in Clusters : Between(scl, clst, d) \/ d = c  BY <1>3, <3>2, GoesAround
      <4> QED  BY <1>4, <4>1, <4>2
    <3> QED  BY <1>9, <3>1, <3>2
  <2>3. ViewImg' = ViewImg
    <3> PICK V : V = {ViewImg}  OBVIOUS
    <3>1. Passes(Start(f), m, V)  BY <1>6 DEF Watches
    <3>2. ~OffOf(m)  BY <1>9, GoesIs
    <3>3. ~OffOf(m) => ViewImg' \in V  BY <1>3, <3>1, StepSound
    <3> QED  BY <3>2, <3>3
  <2>4. FreeClusters(View') = {}  BY <2>2, <2>3, FullNext
  <2>5. RepliesHonest'
    <3> PICK n, b : n = call.btw /\ b = call.btw - call.left  OBVIOUS
    <3>1. reply' = [call |-> "f_write", btw |-> n, bw |-> b]  BY <2>1
    <3>2. reply'.call = "f_write"  BY ONLY <3>1
    <3> QED  BY ONLY <2>4, <3>2 DEF RepliesHonest
  <2>6. IsCall'  BY <2>1, NoCallIs
  <2>7. /\ FsSound' /\ Base' /\ Written' /\ Complete' /\ Owns({0})'
        /\ ViewImg' = ViewImg /\ fs'.mounted
    BY <1>3, <1>6, <1>9, <2>1, <2>5, <2>6, LookKeeps
  <2>8. WriteOpen'  BY <1>3, <2>1, <2>7, OwnsMoreNext DEF WriteOpen
  <2> QED  BY <2>7, <2>8 DEF FatInd, FatIInv, Phases
<1>10. ASSUME ~Cut(m), ~(Goes(m) /\ (Exhausted(scl, clst) \/ (m.val # Free /\ c = scl)) /\ WriteReturns)
       PROVE  /\ Goes(m) /\ ~Exhausted(scl, clst) /\ GoesOn(call')
              /\ \/ call' = CallPcClst("claim", c) /\ m.val = Free
                 \/ call' = CallClst(c) /\ m.val # Free /\ c # scl
  BY <1>10 DEF GoesOn
<1> QED  BY <1>7, <1>8, <1>9, <1>10

(* The file of chain p takes the free cluster n: a is the view with n      *)
(* marked, w with n linked, r the longer chain.                            *)
Linking(v, x, k, p, n, c, a, w, r) ==
    /\ v = ViewImg /\ x = CardImg
    /\ Runs(p, k) /\ Own(p, k) /\ k = Nth(fp.fptr)
    /\ n \in Clusters /\ v.fat[n] = Free
    /\ c = fp.clust
    /\ a = SetFat(v, n, Eoc)
    /\ w = IF c = 0 THEN SetFat(v, n, Eoc) ELSE SetFat(SetFat(v, n, Eoc), c, n)
    /\ r = [j \in 1 .. k + 1 |-> IF j <= k THEN p[j] ELSE n]
Linkable(v, x, k, p, n, c, a, w, r) ==
    /\ c \in {0} \cup Clusters /\ c = (IF k = 0 THEN 0 ELSE p[k])
    /\ k \in Nat /\ fp.sclust = (IF k = 0 THEN 0 ELSE p[1]) /\ (k > 0 => p[1] # 0)
    /\ Runs(r, k + 1) /\ r[1] = (IF k = 0 THEN n ELSE p[1]) /\ r[k + 1] = n
    /\ \A j \in 1 .. k : r[j] = p[j]
    /\ ClaimFacts(v, may, k, p, n, c, a, w, r)
    /\ Apart(x, Span(p, k)) /\ Apart(x, Span(r, k + 1)) /\ Apart(w, Span(p, k))
    /\ Apart(v, Span(p, k))
(* Before, between and after the two writes the chains are sound, and the  *)
(* file's stands apart.                                                    *)
LEMMA LinkFacts ==
    ASSUME FatInd, Written, NEW v, NEW x, NEW k, NEW p, NEW n, NEW c, NEW a, NEW w, NEW r,
           Linking(v, x, k, p, n, c, a, w, r)
    PROVE  Linkable(v, x, k, p, n, c, a, w, r)
<1>0. /\ v = ViewImg /\ x = CardImg
      /\ Runs(p, k) /\ Own(p, k) /\ k = Nth(fp.fptr)
      /\ n \in Clusters /\ v.fat[n] = Free
      /\ c = fp.clust
      /\ a = SetFat(v, n, Eoc)
      /\ w = IF c = 0 THEN SetFat(v, n, Eoc) ELSE SetFat(SetFat(v, n, Eoc), c, n)
      /\ r = [j \in 1 .. k + 1 |-> IF j <= k THEN p[j] ELSE n]
  BY DEF Linking
<1>1. /\ moving = {} /\ Good(v, may, {}) /\ Good(x, may, {}) /\ v \in Imgs /\ x \in Imgs
      /\ x.fat[n] = Free
  BY <1>0, ImgsNow DEF Written, FatInd, FatIInv, Base
<1>2. k \in Nat /\ k \in 0 .. LastCluster /\ p \in [1 .. k -> Clusters]  BY <1>0, Sizes DEF Runs
<1>3. /\ Chain(v, p, k) /\ Apart(v, Span(p, k)) /\ Apart(x, Span(p, k))
      /\ c = (IF k = 0 THEN 0 ELSE p[k]) /\ fp.sclust = (IF k = 0 THEN 0 ELSE p[1])
  BY <1>0 DEF Own
<1>4. k > 0 => p[k] \in Clusters /\ p[1] \in Clusters  BY <1>2
<1>5. ClaimFacts(v, may, k, p, n, c, a, w, r)
  <2> PICK ma : ma = may  OBVIOUS
  <2>1. ClaimReady(v, ma, k, p, n, c, a, w, r)  BY <1>0, <1>1, <1>2, <1>3 DEF ClaimReady
  <2>2. ClaimFacts(v, ma, k, p, n, c, a, w, r)  BY ONLY <2>1, ClaimGood
  <2> QED  BY <2>2
<1>6. Span(r, k + 1) = Span(p, k) \cup {n} /\ k + 1 < LastCluster /\ Apart(w, Span(r, k + 1)) /\ Chain(w, r, k + 1)
  BY <1>5 DEF ClaimFacts
<1>7. Apart(x, Span(r, k + 1))
  <2>1. NoRef(x, n)  BY <1>0, <1>1 DEF Good, NoDangling
  <2> PICK S : S = Span(p, k)  OBVIOUS
  <2>2. Apart(x, S) /\ x \in Imgs  BY <1>1, <1>3
  <2>3. Apart(x, S \cup {n})  BY ONLY <1>0, <2>1, <2>2, ApartMore
  <2> QED  BY <1>6, <2>3
<1>8. \A j \in 1 .. k : r[j] = p[j]  BY <1>0, <1>2
<1>9. r[k + 1] = n /\ r[1] = IF k = 0 THEN n ELSE p[1]  BY <1>0, <1>2
<1>10. Runs(r, k + 1)
  <2>1. r \in [1 .. k + 1 -> Clusters]  BY <1>0, <1>2
  <2>2. k + 1 \in 0 .. LastCluster  BY <1>2, <1>6, Sizes
  <2> QED  BY <2>1, <2>2 DEF Runs
<1>11. Apart(w, Span(p, k))
  <2>1. Span(p, k) \subseteq Span(r, k + 1) /\ n \in Span(r, k + 1)  BY <1>6
  <2>2. ASSUME NEW b \in Clusters \ Span(p, k) PROVE w.fat[b] \notin Span(p, k)
    <3>1. CASE b = n
      <4>1. w.fat[n] = Eoc
        <5>1. k + 1 > 0  BY <1>2
        <5> QED  BY <1>6, <1>9, <5>1 DEF Chain
      <4>2. Span(p, k) \subseteq Clusters  BY <1>2 DEF Span
      <4> QED  BY <3>1, <4>1, <4>2, EntryFields
    <3>2. CASE b # n
      <4>1. b \notin Span(r, k + 1)  BY <1>6, <2>2, <3>2
      <4> QED  BY <1>6, <2>1, <2>2, <4>1 DEF Apart
    <3> QED  BY <3>1, <3>2
  <2>3. \A i \in Files(w) : w.dir[i].clust \notin Span(p, k)  BY <1>6, <2>1 DEF Apart
  <2> QED  BY <2>2, <2>3 DEF Apart
<1>12. c \in {0} \cup Clusters /\ (k > 0 => p[1] # 0)  BY <1>2, <1>3, <1>4, EntryFields
<1> QED  BY <1>2, <1>3, <1>5, <1>7, <1>8, <1>9, <1>10, <1>11, <1>12 DEF Linkable

(* ClaimCluster keeps the invariant.                                       *)
LEMMA Keep_ClaimCluster ==
    ASSUME FatInd, ClaimCluster
    PROVE  FatInd'
<1> PICK f \in Faults : \E m \in {Claimed(Claim(Start(f), fp.clust, call.clst), call.clst)} :
          /\ Step(m, f)
          /\ \/ Cut(m)
             \/ /\ Goes(m)
                /\ call' = [call EXCEPT !.pc = "flush"]
                /\ fp' = [fp EXCEPT !.clust = call.clst,
                                    !.sclust = IF @ = 0 THEN call.clst ELSE @]
                /\ UNCHANGED <<may, reply, moving>>
  BY DEF ClaimCluster
<1> PICK n, c, v, x, s, m : /\ n = call.clst /\ c = fp.clust /\ v = ViewImg /\ x = CardImg /\ s = Start(f)
                  /\ m = Claimed(Claim(s, c, n), n)
                  /\ Step(m, f)
                  /\ \/ Cut(m)
                     \/ /\ Goes(m)
                        /\ call' = [call EXCEPT !.pc = "flush"]
                        /\ fp' = [fp EXCEPT !.clust = n, !.sclust = IF @ = 0 THEN n ELSE @]
                        /\ UNCHANGED <<may, reply, moving>>
  OBVIOUS
<1>1. call.pc = "claim"  BY DEF ClaimCluster
<1>2. Claiming  BY <1>1, PhaseAt
<1>3. /\ WriteCall /\ AtSector /\ Written /\ Complete /\ Owns({0}) /\ Calling /\ IsCall /\ IsFp
      /\ fp.fptr \in Nat /\ fp.err = "OK" /\ call.left > 0 /\ OnBoundary /\ MayType
      /\ n \in Clusters /\ v.fat[n] = Free /\ moving = {} /\ Good(v, may, {}) /\ FsSound
  BY <1>2 DEF Claiming, AtSector, WriteCall, Written, FileOpen, FatInd, FatIInv, Base
<1> PICK k, p : Runs(p, k) /\ Own(p, k) /\ k = Nth(fp.fptr)
  <2> PICK k, p : Runs(p, k) /\ Own(p, k) /\ k \in {Nth(fp.fptr) + j : j \in {0}}  BY <1>3, OwnsPick
  <2> PICK y : y = Nth(fp.fptr)  OBVIOUS
  <2>1. y \in Nat /\ k \in {y + j : j \in {0}}  BY <1>3, NthType
  <2> QED  BY <2>1
<1> PICK a, w, r :
       /\ a = SetFat(v, n, Eoc)
       /\ w = IF c = 0 THEN SetFat(v, n, Eoc) ELSE SetFat(SetFat(v, n, Eoc), c, n)
       /\ r = [j \in 1 .. k + 1 |-> IF j <= k THEN p[j] ELSE n]
  OBVIOUS
<1>4. Linkable(v, x, k, p, n, c, a, w, r)
  <2>1. Linking(v, x, k, p, n, c, a, w, r)  BY <1>3 DEF Linking
  <2> QED  BY <1>3, <2>1, LinkFacts
<1>5. /\ c \in {0} \cup Clusters /\ c = (IF k = 0 THEN 0 ELSE p[k])
      /\ k \in Nat /\ fp.sclust = (IF k = 0 THEN 0 ELSE p[1]) /\ (k > 0 => p[1] # 0)
      /\ Runs(r, k + 1) /\ r[1] = (IF k = 0 THEN n ELSE p[1]) /\ r[k + 1] = n
      /\ \A j \in 1 .. k : r[j] = p[j]
      /\ Apart(x, Span(p, k)) /\ Apart(x, Span(r, k + 1)) /\ Apart(w, Span(p, k))
      /\ Apart(v, Span(p, k))
  BY <1>4 DEF Linkable
<1>6. /\ a \in Imgs /\ Good(a, may, {}) /\ a.dir = v.dir /\ a.data = v.data
      /\ w \in Imgs /\ Good(w, may, {}) /\ w.dir = v.dir /\ w.data = v.data
      /\ Chain(a, p, k) /\ Chain(w, r, k + 1) /\ k + 1 < LastCluster
      /\ Span(r, k + 1) = Span(p, k) \cup {n}
      /\ Apart(a, Span(p, k)) /\ Apart(w, Span(r, k + 1)) /\ Apart(a, Span(r, k + 1))
      /\ Apart(v, Span(r, k + 1))
      /\ Lost(w) \subseteq Lost(v) \cup (IF k = 0 THEN {n} ELSE {})
      /\ \A b \in Clusters : /\ w.fat[b] = Free => a.fat[b] = Free
                             /\ a.fat[b] = Free => v.fat[b] = Free
  BY <1>4 DEF Linkable, ClaimFacts
<1>7. /\ v.dir[fp.slot] = File(fp.name, 0, 0) /\ fp.objsize = fp.fptr /\ Len(fp.bytes) = fp.fptr
      /\ \A b \in Clusters : v.fat[b] = Free => x.fat[b] = Free
      /\ (faults = 0 => Lost(v) \subseteq {fp.sclust})
  BY <1>3 DEF Written, Lossless
<1>8. /\ fp.dirty => fp.fptr > 0 /\ fp.sect = p[Nth(fp.fptr)]
      /\ Held(v.data, p, fp.fptr, fp.buf, fp.dirty, fp.bytes)
      /\ Chain(v, p, k)
  BY DEF Own
<1>9. SoundRec(s) /\ OffOf(s) = FALSE /\ Seen(s) = v /\ Card(s) = x  BY AtStart
<1> PICK W : W = {v, a, w}  OBVIOUS
<1>10. /\ Passes(s, m, W)
       /\ ~OffOf(m) /\ ResOf(m) = "OK" => Seen(m) = w
       /\ ~OffOf(m) /\ ResOf(m) # "OK" => (Seen(m) = v /\ Passes(s, m, {v})) \/ Seen(m) = a
       /\ FuseOf(s) = -1 => ResOf(m) = "OK"
  <2>1. ClaimEnds(s, c, n, m)
    BY ONLY <1>3, <1>5, <1>9, m = Claimed(Claim(s, c, n), n), ClaimSound
  <2>2. ClaimViews(v, c, n) = W  BY DEF ClaimViews
  <2> QED  BY <1>9, <2>1, <2>2 DEF ClaimEnds
<1>11. Struck(f, m)  BY <1>10 DEF Struck
<1>12. Honest(W, may, {})  BY <1>3, <1>6 DEF Honest
<1>13. Card(m) \in {x, v, a, w}  BY <1>9, <1>10 DEF Passes
<1>14. OffOf(m) \in BOOLEAN  BY <1>10 DEF Passes, SoundRec, Shaped
<1> PICK v2, x2 : v2 = Seen(m) /\ x2 = Card(m)  OBVIOUS
<1>15. CASE Cut(m)
  <2>1. ~Goes(m)  BY <1>15 DEF Cut
  <2>2. CASE Passes(s, m, {v})
    <3>1. Watches(f, m)  BY <1>11, <2>2 DEF Watches
    <3> QED  BY <1>3, <1>15, <3>1, LookCuts
  <2>3. CASE OffOf(m) = FALSE => v2 = a
    <3>1. OffOf(m) = FALSE => Writable(v2, x2, fp) /\ Owned(v2, x2, p, k, fp)
      <4> SUFFICES ASSUME OffOf(m) = FALSE PROVE Writable(a, x2, fp) /\ Owned(a, x2, p, k, fp)
        BY <2>3
      <4>1. Apart(x2, Span(p, k))  BY <1>5, <1>6, <1>13
      <4>2. ASSUME NEW b \in Clusters, a.fat[b] = Free PROVE x2.fat[b] = Free
        <5>1. v.fat[b] = Free /\ x.fat[b] = Free  BY <1>6, <1>7, <4>2
        <5>2. w.fat[b] = Free
          <6>1. b # n
            <7>1. a.fat[n] = Eoc
              <8>1. v \in Imgs /\ Eoc \in Links  BY <1>9, <1>3, ImgsNow DEF Links
              <8> QED  BY <1>3, <8>1, SetFields
            <7> QED  BY <4>2, <7>1, EntryFields
          <6>2. CASE c = 0
            <7>1. w = a  BY <6>2
            <7> QED  BY <4>2, <7>1
          <6>3. CASE c # 0
            <7>1. c \in Clusters /\ k > 0 /\ c = p[k]  BY <1>5, <6>3
            <7>2. v.fat[c] = Eoc  BY <1>8, <7>1 DEF Chain
            <7>3. b # c  BY <5>1, <7>2, EntryFields
            <7>4. w = SetFat(a, c, n)  BY <6>3
            <7>5. n \in Links  BY <1>3 DEF Links
            <7>6. w.fat[b] = a.fat[b]  BY ONLY <1>6, <7>1, <7>3, <7>4, <7>5, <4>2, SetFields
            <7> QED  BY <4>2, <7>6
          <6> QED  BY <6>2, <6>3
        <5> QED  BY <1>13, <4>2, <5>1, <5>2
      <4>3. Writable(a, x2, fp)  BY <1>6, <1>7, <4>2 DEF Writable
      <4>4. Owned(a, x2, p, k, fp)
        <5>1. k \in {Nth(fp.fptr), Nth(fp.fptr) + 1}  OBVIOUS
        <5> QED  BY <1>5, <1>6, <1>8, <4>1, <5>1 DEF Owned
      <4> QED  BY <4>3, <4>4
    <3>2. Passes(Start(f), m, W)  BY <1>10
    <3>3. Stays(f, m, W, v2, x2, p, k)
      BY ONLY f \in Faults, <1>11, <1>12, <3>1, <3>2, v2 = Seen(m), x2 = Card(m), Runs(p, k) DEF Stays
    <3> QED  BY ONLY FatInd, <1>3, <1>15, <3>3, Step(m, f), WriteCut
  <2>4. OffOf(m) = FALSE => Passes(s, m, {v}) \/ v2 = a
    BY <1>10, <2>1, GoesIs
  <2> QED  BY <2>2, <2>3, <2>4
<1>16. CASE /\ Goes(m)
            /\ call' = [call EXCEPT !.pc = "flush"]
            /\ fp' = [fp EXCEPT !.clust = n, !.sclust = IF @ = 0 THEN n ELSE @]
            /\ UNCHANGED <<may, reply, moving>>
  <2> PICK h, q : h = (IF fp.sclust = 0 THEN n ELSE fp.sclust) /\ q = fp'  OBVIOUS
  <2>1. fp' = FpClaim(n, h)
    <3>1. fp' = [fp EXCEPT !.clust = n, !.sclust = IF fp.sclust = 0 THEN n ELSE fp.sclust]
      BY ONLY <1>3, <1>16 DEF IsFp, FpRec
    <3> QED  BY <3>1 DEF FpClaim
  <2>2. /\ IsFp'
        /\ fp'.name = fp.name /\ fp'.write = fp.write /\ fp'.slot = fp.slot /\ fp'.sclust = h
        /\ fp'.objsize = fp.objsize /\ fp'.fptr = fp.fptr /\ fp'.clust = n
        /\ fp'.sect = fp.sect /\ fp'.buf = fp.buf /\ fp'.dirty = fp.dirty /\ fp'.err = fp.err
        /\ fp'.bytes = fp.bytes
    BY ONLY <1>3, <2>1, FpClaimFields
  <2>3. call' = CallPc("flush")  BY <1>16 DEF CallPc
  <2>4. /\ IsCall'
        /\ call'.fn = call.fn /\ call'.pc = "flush" /\ call'.btw = call.btw
        /\ call'.left = call.left /\ call'.tok = call.tok
    BY <1>3, <2>3, CallPcFields
  <2>5. h = r[1] /\ h \in Clusters
    <3>1. h = (IF k = 0 THEN n ELSE p[1])  BY <1>5
    <3>2. 1 \in 1 .. k + 1 /\ r[1] \in Clusters  BY <1>5 DEF Runs
    <3> QED  BY <1>5, <3>1, <3>2
  <2>6. FileOpen(TRUE)'
    <3>1. FileOpen(TRUE)  BY <1>3 DEF Written
    <3> QED  BY <1>3, <2>2, <2>5, <3>1 DEF FileOpen
  <2>7. v2 = w /\ OffOf(m) = FALSE  BY <1>10, <1>14, <1>16, GoesIs
  <2>8. Apart(x2, Span(r, k + 1))  BY <1>5, <1>6, <1>13
  <2>9. \A b \in Clusters : w.fat[b] = Free => x2.fat[b] = Free
    BY <1>6, <1>7, <1>13
  <2>10. Writable(v2, x2, q)  BY <1>6, <1>7, <2>2, <2>7, <2>9 DEF Writable
  <2>11. faults = 0 => Lost(v2) \subseteq {q.sclust}
    <3> SUFFICES ASSUME faults = 0 PROVE Lost(w) \subseteq {h}  BY <2>2, <2>7
    <3>1. Lost(v) \subseteq {fp.sclust}  BY <1>7
    <3>2. CASE k = 0
      <4>1. Lost(v) \subseteq Clusters /\ fp.sclust = 0  BY <1>5, <3>2 DEF Lost
      <4>2. Lost(v) = {}  BY <3>1, <4>1, EntryFields
      <4> QED  BY <1>5, <1>6, <2>5, <3>2, <4>2
    <3>3. CASE k # 0
      <4>1. h = fp.sclust  BY <1>5, <3>3
      <4> QED  BY <1>6, <3>1, <3>3, <4>1
    <3> QED  BY <3>2, <3>3
  <2>12. Writes1(f, m, W, v2, x2, q)
    <3>1. q.objsize = q.fptr /\ Len(q.bytes) = q.fptr  BY <1>7, <2>2
    <3>2. Passes(Start(f), m, W)  BY <1>10
    <3> QED  BY ONLY f \in Faults, <1>11, <1>12, <1>16, <2>10, <2>11, <3>1, <3>2,
                     v2 = Seen(m), x2 = Card(m) DEF Writes1
  <2>13. /\ FsSound' /\ Base' /\ Written' /\ Calling'
         /\ ViewImg' = v2 /\ CardImg' = x2
    <3>1. may' = may /\ reply' = reply /\ moving' = moving /\ IsCall'  BY <1>16, <2>4
    <3>2. Written /\ Calling /\ Step(m, f)  BY <1>3
    <3> QED  BY ONLY FatInd, q = fp', <2>6, <2>12, <3>1, <3>2, WriteGoes
  <2>14. Owned(v2, x2, r, k + 1, q)
    <3> PICK z, buf, d, y, data : z = fp.fptr /\ buf = fp.buf /\ d = fp.dirty /\ y = fp.bytes /\ data = v.data
      OBVIOUS
    <3>1. k + 1 # 0 /\ k = Nth(z) /\ z \in Nat /\ d \in BOOLEAN
      BY <1>3, <1>5 DEF Written, FileOpen
    <3>2. Held(w.data, r, z, buf, d, y)
      <4>1. Held(data, p, z, buf, d, y)  BY <1>8
      <4>2. \A j \in 1 .. Nth(z) : data[r[j]] = data[p[j]]  BY <1>5, <3>1
      <4>3. SameBytes(data, p, z, buf, d, y, data, r)  BY ONLY <3>1, <4>1, <4>2 DEF SameBytes
      <4>4. Held(data, r, z, buf, d, y)  BY ONLY <4>3, HeldSame
      <4> QED  BY <1>6, <4>4
    <3>3. q.dirty => q.fptr > 0 /\ q.sect = r[Nth(q.fptr)]
      <4> SUFFICES ASSUME fp.dirty PROVE z > 0 /\ fp.sect = r[Nth(z)]  BY <2>2
      <4>1. z > 0 /\ fp.sect = p[k]  BY <1>8, <3>1
      <4>2. k \in 1 .. k  BY <3>1, <4>1, NthType
      <4> QED  BY <1>5, <3>1, <4>1, <4>2
    <3>4. q.sclust = (IF k + 1 = 0 THEN 0 ELSE r[1]) /\ q.clust = (IF k + 1 = 0 THEN 0 ELSE r[k + 1])
      BY <1>5, <2>2, <2>5, <3>1
    <3>5. k + 1 \in {Nth(q.fptr), Nth(q.fptr) + 1}  BY <2>2, <3>1
    <3>6. Held(w.data, r, q.fptr, q.buf, q.dirty, q.bytes)  BY <2>2, <3>2
    <3> QED  BY ONLY <1>6, <2>7, <2>8, <3>3, <3>4, <3>5, <3>6 DEF Owned
  <2>15. Own(r, k + 1)'  BY <2>13, <2>14, OwnedNext
  <2>16. Owns({1})'
    <3> PICK z, g : z = fp'.fptr /\ g = k + 1  OBVIOUS
    <3>1. g = Nth(z) + 1  BY <2>2
    <3>2. Runs(r, g) /\ Own(r, g)'  BY <1>5, <2>15
    <3>3. 1 \in {1}  OBVIOUS
    <3> QED  BY ONLY <3>1, <3>2, <3>3, z = fp'.fptr, OwnsNext
  <2>17. Complete'  BY <1>3, <2>2 DEF Complete
  <2>18. WriteCall'  BY <1>3, <2>2, <2>4, <2>13, <2>17 DEF WriteCall
  <2>19. AtSector'  BY <1>3, <2>2, <2>4, <2>18 DEF AtSector, OnBoundary
  <2>20. Flushing'  BY <2>4, <2>16, <2>19 DEF Flushing
  <2> QED  BY <2>13, <2>20 DEF FatInd, FatIInv, Phases
<1> QED  BY <1>15, <1>16

(* A sector of a file being written goes to the card: v2 is the view with  *)
(* y in cluster c, x2 the card.                                            *)
Storing1(f, m, p, k, c, y, v2, x2) ==
    /\ f \in Faults /\ Runs(p, k) /\ Own(p, k) /\ c \in Span(p, k) /\ y \in Sectorful
    /\ m = disk_write(Start(f), DataSector(c), y)
    /\ v2 = SetData(ViewImg, c, y) /\ x2 = SetData(CardImg, c, y)
Stored(f, m, p, k, c, y, v2, x2) ==
    /\ Passes(Start(f), m, {ViewImg, v2, x2}) /\ Struck(f, m) /\ Honest({ViewImg, v2, x2}, may, {})
    /\ OffOf(m) \in BOOLEAN
    /\ OffOf(m) = FALSE => \/ Card(m) = CardImg /\ Seen(m) = ViewImg /\ ~Goes(m)
                           \/ Card(m) = x2 /\ Seen(m) = v2
    /\ v2.dir = ViewImg.dir /\ v2.fat = ViewImg.fat /\ x2.fat = CardImg.fat
    /\ v2.data[c] = y /\ \A b \in Clusters : b # c => v2.data[b] = ViewImg.data[b]
    /\ Lost(v2) = Lost(ViewImg)
    /\ Chain(v2, p, k) /\ Apart(v2, Span(p, k)) /\ Apart(x2, Span(p, k))
    /\ Writable(v2, x2, fp) /\ Writable(ViewImg, CardImg, fp)
(* The card has the sector or not; all else of view and card is as before. *)
LEMMA StoreStep ==
    ASSUME FatInd, Written, NEW f, NEW m, NEW p, NEW k, NEW c, NEW y, NEW v2, NEW x2,
           Storing1(f, m, p, k, c, y, v2, x2)
    PROVE  Stored(f, m, p, k, c, y, v2, x2)
<1>0. /\ f \in Faults /\ Runs(p, k) /\ Own(p, k) /\ c \in Span(p, k) /\ y \in Sectorful
      /\ m = disk_write(Start(f), DataSector(c), y)
      /\ v2 = SetData(ViewImg, c, y) /\ x2 = SetData(CardImg, c, y)
  BY DEF Storing1
<1> PICK v, x, s, ma, S : v = ViewImg /\ x = CardImg /\ s = Start(f) /\ ma = may /\ S = Span(p, k)  OBVIOUS
<1>1. /\ moving = {} /\ Good(v, ma, {}) /\ Good(x, ma, {}) /\ v \in Imgs /\ x \in Imgs
      /\ \A b \in Clusters : v.fat[b] = Free => x.fat[b] = Free
      /\ v.dir[fp.slot] = File(fp.name, 0, 0)
  BY ImgsNow DEF Written, FatInd, FatIInv, Base
<1>2. SoundRec(s) /\ OffOf(s) = FALSE /\ Seen(s) = v /\ Card(s) = x  BY <1>0, AtStart
<1>3. c \in Clusters  BY <1>0 DEF Runs, Span
<1>4. /\ Passes(s, m, {Seen(s), SetData(Seen(s), c, y), SetData(Card(s), c, y)})
      /\ ~OffOf(m) => \/ Card(m) = Card(s) /\ Seen(m) = Seen(s) /\ ResOf(m) # "OK"
                      \/ Card(m) = SetData(Card(s), c, y) /\ Seen(m) = SetData(Seen(s), c, y)
      /\ OffOf(m) => Card(m) = Card(s) /\ ResOf(m) = "OK"
      /\ FuseOf(s) = -1 => ResOf(m) = "OK" /\ OffOf(m) = FALSE
  <2>1. m = disk_write(s, DataSector(c), y) /\ y \in Sectorful  BY <1>0
  <2>2. DataEnds(s, c, y, m)  BY ONLY <1>2, <1>3, <2>1, DataSound
  <2> QED  BY <2>2 DEF DataEnds
<1>5. Apart(v, S) /\ Apart(x, S) /\ Chain(v, p, k)  BY <1>0 DEF Own
<1>6. /\ Good(v2, ma, {}) /\ v2 \in Imgs /\ v2.dir = v.dir /\ v2.fat = v.fat /\ v2.data[c] = y
      /\ \A b \in Clusters : b # c => v2.data[b] = v.data[b]
      /\ Files(v2) = Files(v) /\ Lost(v2) = Lost(v)
  <2>1. v2 = SetData(v, c, y) /\ c \in S  BY <1>0
  <2> PICK mo : mo = {}  OBVIOUS
  <2>2. Good(v, ma, mo)  BY <1>1
  <2>3. /\ Good(v2, ma, mo) /\ v2 \in Imgs /\ v2.dir = v.dir /\ v2.fat = v.fat /\ v2.data[c] = y
        /\ \A b \in Clusters : b # c => v2.data[b] = v.data[b]
        /\ Files(v2) = Files(v) /\ Lost(v2) = Lost(v)
    BY ONLY <1>0, <1>1, <1>3, <1>5, <2>1, <2>2, DataGood
  <2> QED  BY <2>3
<1>7. /\ Good(x2, ma, {}) /\ x2 \in Imgs /\ x2.dir = x.dir /\ x2.fat = x.fat
      /\ Files(x2) = Files(x)
  <2>1. x2 = SetData(x, c, y) /\ c \in S  BY <1>0
  <2> PICK mo : mo = {}  OBVIOUS
  <2>2. Good(x, ma, mo)  BY <1>1
  <2>3. /\ Good(x2, ma, mo) /\ x2 \in Imgs /\ x2.dir = x.dir /\ x2.fat = x.fat /\ x2.data[c] = y
        /\ \A b \in Clusters : b # c => x2.data[b] = x.data[b]
        /\ Files(x2) = Files(x) /\ Lost(x2) = Lost(x)
    BY ONLY <1>0, <1>1, <1>3, <1>5, <2>1, <2>2, DataGood
  <2> QED  BY <2>3
<1>8. Passes(Start(f), m, {ViewImg, v2, x2})  BY <1>0, <1>2, <1>4
<1>9. Struck(f, m)  BY <1>4 DEF Struck
<1>10. Honest({ViewImg, v2, x2}, may, {})  BY <1>1, <1>6, <1>7 DEF Honest
<1>11. OffOf(m) \in BOOLEAN  BY <1>8 DEF Passes, SoundRec, Shaped
<1>12. Chain(v2, p, k)  BY <1>5, <1>6 DEF Chain
<1>13. Apart(v2, S) /\ Apart(x2, S)  BY <1>5, <1>6, <1>7 DEF Apart
<1>14. Writable(v2, x2, fp) /\ Writable(ViewImg, CardImg, fp)  BY <1>1, <1>6, <1>7 DEF Writable
<1>15. OffOf(m) = FALSE => \/ Card(m) = CardImg /\ Seen(m) = ViewImg /\ ~Goes(m)
                           \/ Card(m) = x2 /\ Seen(m) = v2
  BY <1>0, <1>2, <1>4, GoesIs
<1> QED  BY <1>6, <1>7, <1>8, <1>9, <1>10, <1>11, <1>12, <1>13, <1>14, <1>15 DEF Stored

(* The sector of a file's last byte.                                       *)
LEMMA LastSector ==
    ASSUME Written, NEW p, NEW k, Runs(p, k), Own(p, k), NEW z, z = fp.fptr
    PROVE  /\ z \in Nat /\ Nth(z) \in Nat /\ Nth(z) <= k
           /\ z > 0 => Nth(z) \in 1 .. k /\ p[Nth(z)] \in Clusters /\ p[Nth(z)] \in Span(p, k)
<1>1. z \in Nat  BY DEF Written, FileOpen
<1> PICK w : w = Nth(z)  OBVIOUS
<1>2. w \in Nat /\ (z > 0 => w > 0)  BY <1>1, NthType
<1>3. k \in {w, w + 1}  BY DEF Own
<1>4. w <= k /\ (z > 0 => w \in 1 .. k)  BY <1>2, <1>3
<1>5. z > 0 => p[w] \in Clusters  BY <1>4 DEF Runs
<1> QED  BY <1>1, <1>2, <1>4, <1>5 DEF Span

(* The buffer goes out: where the file lies before and after.              *)
FlushSteps(f, m, p, k, W, v2, x2) ==
    /\ Passes(Start(f), m, W) /\ Struck(f, m) /\ Honest(W, may, {})
    /\ v2 = Seen(m) /\ x2 = Card(m) /\ OffOf(m) \in BOOLEAN
    /\ OffOf(m) = FALSE =>
          /\ Writable(v2, x2, fp) /\ Owned(v2, x2, p, k, fp)
          /\ Goes(m) => Held(v2.data, p, fp.fptr, fp.buf, FALSE, fp.bytes)
          /\ Lost(v2) = Lost(ViewImg)
(* Its bytes are held before and after, and after a good write without the *)
(* buffer.                                                                 *)
LEMMA FlushStep ==
    ASSUME FatInd, Written, NEW f \in Faults, NEW m, m = FlushBuf(Start(f)), NEW p, NEW k, Runs(p, k), Own(p, k)
    PROVE  \E W, v2, x2 : FlushSteps(f, m, p, k, W, v2, x2)
<1> PICK v, x, s, z, buf, d, y : /\ v = ViewImg /\ x = CardImg /\ s = Start(f)
                                 /\ z = fp.fptr /\ buf = fp.buf /\ d = fp.dirty /\ y = fp.bytes
  OBVIOUS
<1>1. z \in Nat /\ d \in BOOLEAN /\ buf \in Sectorful  BY DEF Written, FileOpen
<1>2. Owned(v, x, p, k, fp)  BY OwnedIs
<1>3. Held(v.data, p, z, buf, d, y)  BY <1>2 DEF Owned
<1> PICK v2, x2 : v2 = Seen(m) /\ x2 = Card(m)  OBVIOUS
<1>4. CASE d = FALSE
  <2>1. m = s  BY <1>4 DEF FlushBuf
  <2>2. SoundRec(s) /\ OffOf(s) = FALSE /\ ResOf(s) = "OK" /\ Seen(s) = v /\ Card(s) = x  BY AtStart
  <2>3. Passes(s, s, {Seen(s)})  BY ONLY <2>2, PassesSelf
  <2>4. Struck(f, m)  BY <2>1, <2>2 DEF Struck
  <2>5. Honest({v}, may, {}) /\ Writable(v, x, fp)
    BY DEF Honest, FatInd, FatIInv, Base, Written, Writable
  <2>6. FlushSteps(f, m, p, k, {v}, v2, x2)
    BY <1>2, <1>3, <1>4, <2>1, <2>2, <2>3, <2>4, <2>5 DEF FlushSteps
  <2> QED  BY <2>6
<1>5. CASE d = TRUE
  <2> PICK c : c = fp.sect  OBVIOUS
  <2>1. m = disk_write(Start(f), DataSector(c), buf)  BY <1>5 DEF FlushBuf
  <2>2. z > 0 /\ c = p[Nth(z)]  BY <1>2, <1>5 DEF Owned
  <2>3. Nth(z) \in 1 .. k /\ p[Nth(z)] \in Span(p, k) /\ Nth(z) <= k /\ Nth(z) \in Nat  BY <2>2, LastSector
  <2> PICK v1, x1, W : v1 = SetData(v, c, buf) /\ x1 = SetData(x, c, buf) /\ W = {v, v1, x1}  OBVIOUS
  <2>4. Stored(f, m, p, k, c, buf, v1, x1)
    <3>1. Storing1(f, m, p, k, c, buf, v1, x1)  BY <1>1, <2>1, <2>2, <2>3 DEF Storing1
    <3> QED  BY <3>1, StoreStep
  <2>5. /\ Passes(Start(f), m, W) /\ Struck(f, m) /\ Honest(W, may, {})
        /\ OffOf(m) \in BOOLEAN
        /\ OffOf(m) = FALSE => \/ x2 = x /\ v2 = v /\ ~Goes(m)
                               \/ x2 = x1 /\ v2 = v1
        /\ v1.data[c] = buf /\ \A b \in Clusters : b # c => v1.data[b] = v.data[b]
        /\ Lost(v1) = Lost(v)
        /\ Chain(v1, p, k) /\ Apart(v1, Span(p, k)) /\ Apart(x1, Span(p, k))
        /\ Writable(v1, x1, fp) /\ Writable(v, x, fp)
    BY <2>4 DEF Stored
  <2>6. Held(v1.data, p, z, buf, TRUE, y) /\ Held(v1.data, p, z, buf, FALSE, y)
    <3> PICK data, data2 : data = v.data /\ data2 = v1.data  OBVIOUS
    <3>1. \A j \in 1 .. Nth(z) : j # Nth(z) => data2[p[j]] = data[p[j]]
      <4> SUFFICES ASSUME NEW j \in 1 .. Nth(z), j # Nth(z) PROVE data2[p[j]] = data[p[j]]  OBVIOUS
      <4> PICK w : w = Nth(z)  OBVIOUS
      <4>1. j \in 1 .. k
        <5>1. w \in 1 .. k /\ k \in Nat  BY <2>3, Sizes DEF Runs
        <5> QED  BY <5>1
      <4>2. p[j] \in Clusters  BY <4>1 DEF Runs
      <4>3. p[j] # p[Nth(z)]  BY <2>3, <2>5, <4>1 DEF Chain
      <4> QED  BY <2>2, <2>5, <4>2, <4>3
    <3>2. data2[p[Nth(z)]] = buf  BY <2>2, <2>5
    <3>3. Held(data, p, z, buf, TRUE, y)  BY <1>3, <1>5
    <3>4. Flushes(data, p, z, buf, y, data2)  BY ONLY <1>1, <3>1, <3>2, <3>3 DEF Flushes
    <3> QED  BY ONLY <3>4, data2 = v1.data, HeldFlush
  <2>7. Owned(v1, x1, p, k, fp)  BY <1>2, <1>5, <2>5, <2>6 DEF Owned
  <2>8. FlushSteps(f, m, p, k, W, v2, x2)
    BY <1>2, <2>5, <2>6, <2>7 DEF FlushSteps
  <2> QED  BY <2>8
<1> QED  BY <1>1, <1>4, <1>5

(* The buffer has gone out: the file lies on the card alone.               *)
LEMMA Flushed ==
    ASSUME FatInd, Written, Calling, NEW M, Owns(M), M \subseteq {0, 1}, NEW f \in Faults,
           NEW m, m = FlushBuf(Start(f)), Step(m, f), Goes(m), NEW q, q = FpClean(FALSE), fp' = q,
           IsCall', may' = may, reply' = reply, moving' = moving
    PROVE  /\ FsSound' /\ Base' /\ Written' /\ Calling' /\ Owns(M)'
           /\ fp'.dirty = FALSE /\ fp'.fptr = fp.fptr /\ fp'.err = fp.err
           /\ fp'.bytes = fp.bytes /\ fp'.name = fp.name
<1> PICK z : z = fp.fptr  OBVIOUS
<1>1. /\ IsFp /\ FileOpen(TRUE) /\ z \in Nat /\ fp.objsize = z /\ Len(fp.bytes) = z
      /\ faults = 0 => Lost(ViewImg) \subseteq {fp.sclust}
  BY DEF Written, FileOpen, Lossless
<1> PICK k, p : Runs(p, k) /\ Own(p, k) /\ k \in {Nth(fp.fptr) + n : n \in M}  BY OwnsPick
<1> PICK n \in M : k = Nth(z) + n  OBVIOUS
<1> PICK W, v2, x2 : FlushSteps(f, m, p, k, W, v2, x2)  BY FlushStep
<1>2. /\ IsFp'
      /\ q.name = fp.name /\ q.write = fp.write /\ q.slot = fp.slot
      /\ q.sclust = fp.sclust /\ q.objsize = fp.objsize /\ q.fptr = z
      /\ q.clust = fp.clust /\ q.sect = fp.sect /\ q.buf = fp.buf /\ q.dirty = FALSE
      /\ q.err = fp.err /\ q.bytes = fp.bytes
  <2>1. IsFp /\ fp' = FpClean(FALSE)  BY <1>1
  <2>2. /\ IsFp'
        /\ fp'.name = fp.name /\ fp'.write = fp.write /\ fp'.slot = fp.slot
        /\ fp'.sclust = fp.sclust /\ fp'.objsize = fp.objsize /\ fp'.fptr = fp.fptr
        /\ fp'.clust = fp.clust /\ fp'.sect = fp.sect /\ fp'.buf = fp.buf /\ fp'.dirty = FALSE
        /\ fp'.err = fp.err /\ fp'.bytes = fp.bytes
    BY ONLY <2>1, FpCleanFields
  <2> QED  BY <2>2
<1>3. FileOpen(TRUE)'
  <2>1. /\ fp'.name = fp.name /\ fp'.write = fp.write /\ fp'.slot = fp.slot
        /\ fp'.sclust = fp.sclust /\ fp'.objsize = fp.objsize /\ fp'.fptr = fp.fptr
        /\ fp'.clust = fp.clust /\ fp'.sect = fp.sect /\ fp'.buf = fp.buf /\ fp'.dirty = FALSE
        /\ fp'.bytes = fp.bytes
    BY <1>2
  <2>2. /\ fp.name \in Names /\ fp.write = TRUE /\ fp.slot \in 1 .. Slots
        /\ {fp.sclust, fp.clust, fp.sect} \subseteq {0} \cup Clusters
        /\ {fp.objsize, fp.fptr} \subseteq Nat
        /\ fp.buf \in Sectorful /\ fp.bytes \in Octets
    BY <1>1 DEF FileOpen
  <2>3. IsFp'  BY <1>2
  <2> QED  BY ONLY <2>1, <2>2, <2>3 DEF FileOpen
<1>4. OffOf(m) = FALSE  BY GoesIs DEF FlushSteps
<1>5. /\ Passes(Start(f), m, W) /\ Struck(f, m) /\ Honest(W, may, {})
      /\ v2 = Seen(m) /\ x2 = Card(m)
      /\ Writable(v2, x2, fp) /\ Owned(v2, x2, p, k, fp)
      /\ Held(v2.data, p, z, fp.buf, FALSE, fp.bytes)
      /\ Lost(v2) = Lost(ViewImg)
  BY <1>4 DEF FlushSteps
<1>6. Writable(v2, x2, q) /\ (faults = 0 => Lost(v2) \subseteq {q.sclust})
  BY <1>1, <1>2, <1>5 DEF Writable
<1>7. Owned(v2, x2, p, k, q)
  <2>1. ~q.dirty  BY <1>2
  <2>2. Held(v2.data, p, q.fptr, q.buf, q.dirty, q.bytes)  BY <1>2, <1>5
  <2> QED  BY <1>2, <1>5, <2>1, <2>2 DEF Owned
<1>8. Writes1(f, m, W, v2, x2, q)
  <2>1. q.objsize = q.fptr /\ Len(q.bytes) = q.fptr  BY <1>1, <1>2
  <2> QED  BY <1>5, <1>6, <2>1 DEF Writes1
<1>9. /\ FsSound' /\ Base' /\ Written' /\ Calling'
      /\ ViewImg' = v2 /\ CardImg' = x2
  <2>1. may' = may /\ reply' = reply /\ moving' = moving /\ IsCall' /\ q = fp'  OBVIOUS
  <2> QED  BY ONLY FatInd, Written, Calling, Step(m, f), <1>3, <1>8, <2>1, WriteGoes
<1>10. Own(p, k)'  BY <1>7, <1>9, OwnedNext
<1>11. Owns(M)'
  <2>1. z = fp'.fptr  BY <1>2
  <2>2. n \in M /\ k = Nth(z) + n /\ Runs(p, k)  OBVIOUS
  <2> QED  BY ONLY <1>10, <2>1, <2>2, OwnsNext
<1> QED  BY <1>2, <1>9, <1>11

(* Cut short, it keeps the invariant.                                      *)
LEMMA FlushCut ==
    ASSUME FatInd, Written, Calling, call.fn = "f_close" \/ WriteCall, NEW M, Owns(M), NEW f \in Faults,
           NEW m, m = FlushBuf(Start(f)), Step(m, f), Cut(m)
    PROVE  FatInd'
<1> PICK k, p : Runs(p, k) /\ Own(p, k)  BY OwnsPick
<1> PICK W, v2, x2 : FlushSteps(f, m, p, k, W, v2, x2)  BY FlushStep
<1>1. /\ Passes(Start(f), m, W) /\ Struck(f, m) /\ Honest(W, may, {})
      /\ v2 = Seen(m) /\ x2 = Card(m)
      /\ OffOf(m) = FALSE => Writable(v2, x2, fp) /\ Owned(v2, x2, p, k, fp)
  BY DEF FlushSteps
<1>2. moving = {}  BY DEF Written
<1>3. CASE WriteCall
  <2>1. Stays(f, m, W, v2, x2, p, k)  BY <1>1 DEF Stays
  <2>2. WriteCall /\ Step(m, f) /\ Cut(m)  BY <1>3
  <2> QED  BY ONLY FatInd, <2>1, <2>2, WriteCut
<1>4. CASE call.fn = "f_close"
  <2>1. call.fn \notin {"f_write", "f_read"}  BY <1>4
  <2>2. Honest(W, may, moving)  BY <1>1, <1>2
  <2> QED  BY <1>1, <1>4, <2>1, <2>2, CutRest
<1> QED  BY <1>3, <1>4

(* Flush keeps the invariant.                                              *)
LEMMA Keep_Flush ==
    ASSUME FatInd, Flush
    PROVE  FatInd'
<1> PICK f \in Faults : \E m \in {FlushBuf(Start(f))} :
          /\ Step(m, f)
          /\ \/ Cut(m)
             \/ /\ Goes(m)
                /\ call' = [call EXCEPT !.pc = IF call.fn = "f_close" THEN "entry" ELSE "store"]
                /\ fp' = [fp EXCEPT !.dirty = FALSE]
                /\ UNCHANGED <<may, reply, moving>>
  BY DEF Flush
<1> PICK p0, m : /\ p0 = (IF call.fn = "f_close" THEN "entry" ELSE "store")
             /\ m = FlushBuf(Start(f))
             /\ Step(m, f)
             /\ \/ Cut(m)
                \/ /\ Goes(m) /\ call' = CallPc(p0) /\ fp' = FpClean(FALSE)
                   /\ may' = may /\ reply' = reply /\ moving' = moving
  BY DEF CallPc, FpClean
<1>1. call.pc = "flush"  BY DEF Flush
<1>2. Flushing \/ FlushLast  BY <1>1, PhaseAt
<1>3. Written /\ Calling /\ IsCall
  BY <1>2 DEF Flushing, FlushLast, AtSector, WriteCall, Closing, FatInd, FatIInv, Base
<1> PICK M : M = IF Flushing THEN {1} ELSE {0, 1}  OBVIOUS
<1>4. Owns(M) /\ M \subseteq {0, 1}  BY <1>2 DEF Flushing, FlushLast
<1>5. call.fn = "f_close" \/ WriteCall  BY <1>2 DEF Flushing, FlushLast, AtSector, Closing
<1>6. CASE Cut(m)  BY <1>3, <1>4, <1>5, <1>6, FlushCut
<1>7. CASE /\ Goes(m) /\ call' = CallPc(p0) /\ fp' = FpClean(FALSE)
           /\ may' = may /\ reply' = reply /\ moving' = moving
  <2>1. /\ IsCall'
        /\ call'.fn = call.fn /\ call'.pc = p0 /\ call'.btw = call.btw
        /\ call'.left = call.left /\ call'.tok = call.tok
    BY <1>3, <1>7, CallPcFields
  <2> PICK q : q = FpClean(FALSE)  OBVIOUS
  <2>2. /\ FsSound' /\ Base' /\ Written' /\ Calling' /\ Owns(M)'
        /\ fp'.dirty = FALSE /\ fp'.fptr = fp.fptr /\ fp'.err = fp.err
        /\ fp'.bytes = fp.bytes /\ fp'.name = fp.name
    BY <1>3, <1>4, <1>7, <2>1, Flushed
  <2>3. CASE Flushing
    <3>1. WriteCall /\ OnBoundary /\ call.left > 0 /\ call.fn = "f_write" /\ M = {1}
      BY <2>3 DEF Flushing, AtSector, WriteCall
    <3>2. OnBoundary' /\ Complete'  BY <2>2, <3>1 DEF OnBoundary, Complete
    <3>3. WriteCall'  BY <2>1, <2>2, <3>1, <3>2 DEF WriteCall
    <3>4. AtSector'  BY <2>1, <3>1, <3>2, <3>3 DEF AtSector
    <3>5. Storing'  BY <2>1, <2>2, <3>1, <3>4 DEF Storing
    <3> QED  BY <2>2, <3>5 DEF FatInd, FatIInv, Phases
  <2>4. CASE ~Flushing
    <3>1. FlushLast /\ M = {0, 1}  BY <1>2, <2>4
    <3>2. call.fn = "f_close" /\ {fp.bytes} \in may[fp.name]  BY <3>1 DEF FlushLast, Closing
    <3>3. Closing'  BY <1>7, <2>1, <2>2, <3>2 DEF Closing
    <3>4. EntryPhase'  BY <2>1, <2>2, <3>1, <3>2, <3>3 DEF EntryPhase
    <3> QED  BY <2>2, <3>4 DEF FatInd, FatIInv, Phases
  <2> QED  BY <2>3, <2>4
<1> QED  BY <1>6, <1>7

(* A sector behind the end of one is the end of one.                       *)
LEMMA NextBoundary ==
    ASSUME NEW z \in Nat, z % SectorSize = 0
    PROVE  (z + SectorSize) % SectorSize = 0
<1> PICK s, d, e : s = SectorSize /\ d = z \div s /\ e = (z + s) \div s  OBVIOUS
<1>0. s \in Nat \ {0} /\ z % s = 0  BY Sizes
<1>1. z = s * d + (z % s) /\ d \in Int  BY ONLY <1>0, z \in Nat, d = z \div s
<1>2. z + s = s * (d + 1)  BY ONLY <1>0, <1>1, z \in Nat
<1>3. z + s = s * e + ((z + s) % s) /\ e \in Int /\ (z + s) % s \in 0 .. s - 1
  BY ONLY <1>0, z \in Nat, e = (z + s) \div s
<1> PICK a : a = d + 1  OBVIOUS
<1>4. a \in Int /\ e \in Int /\ s \in Nat \ {0}  BY ONLY <1>0, <1>1, <1>3, a = d + 1
<1>5. a < e => s * a + s <= s * e  BY <1>4, MulStep
<1>6. e < a => s * e + s <= s * a  BY <1>4, MulStep
<1>7. s * a \in Int /\ s * e \in Int  BY ONLY <1>4
<1>8. z + s = s * a  BY ONLY <1>2, a = d + 1
<1>9. e = a  BY ONLY <1>3, <1>4, <1>5, <1>6, <1>7, <1>8
<1>10. (z + s) % s = 0  BY ONLY <1>3, <1>7, <1>8, <1>9
<1> QED  BY <1>10

(* The file object after f_write has put n bytes, y in all, onto the card. *)
Grown(n, y) ==
    /\ IsFp'
    /\ fp'.name = fp.name /\ fp'.write = fp.write /\ fp'.slot = fp.slot
    /\ fp'.sclust = fp.sclust /\ fp'.objsize = fp.fptr + n /\ fp'.fptr = fp.fptr + n
    /\ fp'.clust = fp.clust /\ fp'.sect = fp.sect /\ fp'.buf = fp.buf /\ fp'.dirty = fp.dirty
    /\ fp'.err = fp.err /\ fp'.bytes = y
(* The fields of the file object after Advance.                            *)
LEMMA FpGrown ==
    ASSUME IsFp, fp.fptr \in Nat, fp.objsize = fp.fptr, NEW n \in Nat \ {0},
           NEW y, y = Added(fp.bytes, n, call.tok), fp' = Advance(fp, n)
    PROVE  Grown(n, y)
<1> PICK z : z = fp.fptr + n  OBVIOUS
<1>1. fp' = [fp EXCEPT !.fptr = z, !.objsize = IF z > @ THEN z ELSE @,
                       !.bytes = @ \o [k \in 1 .. n |-> call.tok]]
  BY DEF Advance
<1>2. fp' = [fp EXCEPT !.fptr = z, !.objsize = IF z > fp.objsize THEN z ELSE fp.objsize,
                       !.bytes = fp.bytes \o [k \in 1 .. n |-> call.tok]]
  BY ONLY <1>1
<1>3. z > fp.objsize /\ fp.bytes \o [k \in 1 .. n |-> call.tok] = y  BY DEF Added
<1>4. fp' = [fp EXCEPT !.fptr = z, !.objsize = z, !.bytes = y]  BY ONLY <1>2, <1>3
<1>5. fp' = FpWrote(z, z, y)  BY ONLY <1>4 DEF FpWrote
<1>6. IsFp /\ fp' = FpWrote(z, z, y)  BY <1>5
<1>7. /\ IsFp'
      /\ fp'.name = fp.name /\ fp'.write = fp.write /\ fp'.slot = fp.slot
      /\ fp'.sclust = fp.sclust /\ fp'.objsize = z /\ fp'.fptr = z
      /\ fp'.clust = fp.clust /\ fp'.sect = fp.sect /\ fp'.buf = fp.buf /\ fp'.dirty = fp.dirty
      /\ fp'.err = fp.err /\ fp'.bytes = y
  BY ONLY <1>6, FpWroteFields
<1> QED  BY <1>7 DEF Grown

(* A whole sector of the caller's bytes, on its way to the cluster c.      *)
Streams(f, m, p, k, c, y, v2, x2) ==
    /\ Storing1(f, m, p, k, c, y, v2, x2)
    /\ c = p[k] /\ k = Nth(fp.fptr) + 1
    /\ y = [j \in 1 .. SectorSize |-> call.tok]
Streamed(f, m, p, k, c, y, v2, x2) ==
    /\ Stored(f, m, p, k, c, y, v2, x2)
    /\ Longer(ViewImg.data, p, fp.fptr, fp.buf, fp.bytes, call.tok,
              Added(fp.bytes, SectorSize, call.tok), v2.data)
    /\ Held(v2.data, p, fp.fptr, fp.buf, FALSE, fp.bytes)
    /\ Nth(fp.fptr) \in Nat
(* The sector is stored, and the file's bytes are held with it.            *)
LEMMA StreamStep ==
    ASSUME FatInd, Storing, NEW f, NEW m, NEW p, NEW k, NEW c, NEW y, NEW v2, NEW x2,
           Streams(f, m, p, k, c, y, v2, x2)
    PROVE  Streamed(f, m, p, k, c, y, v2, x2)
<1> PICK z, buf, b, tok, n, data, data2, g :
       /\ z = fp.fptr /\ buf = fp.buf /\ b = fp.bytes /\ tok = call.tok /\ n = Nth(fp.fptr)
       /\ data = ViewImg.data /\ data2 = v2.data /\ g = Added(fp.bytes, SectorSize, call.tok)
  OBVIOUS
<1>1. Written /\ WriteCall /\ OnBoundary /\ ~fp.dirty  BY DEF Storing, AtSector, WriteCall
<1>2. z \in Nat /\ b \in Octets /\ Len(b) = z /\ tok \in Bytes /\ fp.dirty = FALSE
  BY <1>1 DEF Written, FileOpen, WriteCall
<1>3. /\ Runs(p, k) /\ Own(p, k) /\ c = p[k] /\ k = n + 1 /\ y = [j \in 1 .. SectorSize |-> tok]
      /\ Storing1(f, m, p, k, c, y, v2, x2)
  BY DEF Streams, Storing1
<1>4. Stored(f, m, p, k, c, y, v2, x2)  BY <1>1, <1>3, StoreStep
<1>5. data2[c] = y /\ \A d \in Clusters : d # c => data2[d] = data[d]  BY <1>4 DEF Stored
<1>6. Held(data, p, z, buf, FALSE, b)  BY <1>2, <1>3 DEF Own
<1>7. n \in Nat /\ k \in Nat
  <2>1. n \in Nat  BY <1>1, <1>3, LastSector
  <2> QED  BY <2>1, <1>3
<1>8. \A j \in 1 .. n : data2[p[j]] = data[p[j]]
  <2> SUFFICES ASSUME NEW j \in 1 .. n PROVE data2[p[j]] = data[p[j]]  OBVIOUS
  <2>1. j \in 1 .. k /\ j # k /\ k \in 1 .. k  BY <1>3, <1>7
  <2>2. p[j] \in Clusters  BY <1>3, <2>1 DEF Runs
  <2>3. \A i, l \in 1 .. k : p[i] = p[l] => i = l  BY <1>3 DEF Own, Chain
  <2>4. p[j] # p[k]  BY ONLY <2>1, <2>3
  <2> QED  BY <1>3, <1>5, <2>2, <2>4
<1>9. Stores(data, p, z, buf, b, tok, g, data2)
  <2>1. data2[p[n + 1]] = [j \in 1 .. SectorSize |-> tok]  BY <1>3, <1>5
  <2>2. z % SectorSize = 0  BY <1>1 DEF OnBoundary
  <2> QED  BY <1>2, <1>6, <1>8, <2>1, <2>2 DEF Stores
<1>10. Longer(data, p, z, buf, b, tok, g, data2)  BY ONLY <1>9, HeldSector
<1>11. Held(data2, p, z, buf, FALSE, b)
  <2>1. SameBytes(data, p, z, buf, FALSE, b, data2, p)  BY <1>2, <1>6, <1>8 DEF SameBytes
  <2> QED  BY ONLY <2>1, HeldSame
<1> QED  BY <1>4, <1>7, <1>10, <1>11 DEF Streamed

(* Cut short, it keeps the invariant.                                      *)
LEMMA StreamCut ==
    ASSUME FatInd, Storing, NEW f, NEW m, NEW p, NEW k, NEW c, NEW y, NEW v2, NEW x2,
           Streams(f, m, p, k, c, y, v2, x2), Step(m, f), Cut(m)
    PROVE  FatInd'
<1>1. Streamed(f, m, p, k, c, y, v2, x2)  BY StreamStep
<1>2. /\ f \in Faults /\ Runs(p, k) /\ Own(p, k)  BY DEF Streams, Storing1
<1>3. WriteCall /\ ~fp.dirty  BY DEF Storing, AtSector
<1> PICK W : W = {ViewImg, v2, x2}  OBVIOUS
<1>4. /\ Passes(Start(f), m, W) /\ Struck(f, m) /\ Honest(W, may, {})
      /\ OffOf(m) = FALSE => \/ Card(m) = CardImg /\ Seen(m) = ViewImg /\ ~Goes(m)
                             \/ Card(m) = x2 /\ Seen(m) = v2
      /\ Chain(v2, p, k) /\ Apart(v2, Span(p, k)) /\ Apart(x2, Span(p, k))
      /\ Writable(v2, x2, fp) /\ Writable(ViewImg, CardImg, fp)
      /\ Held(v2.data, p, fp.fptr, fp.buf, FALSE, fp.bytes)
  BY <1>1 DEF Streamed, Stored
<1>5. Owned(ViewImg, CardImg, p, k, fp)  BY <1>2, OwnedIs
<1>6. Owned(v2, x2, p, k, fp)
  <2>1. fp.dirty = FALSE  BY <1>3 DEF WriteCall, Written, FileOpen
  <2> QED  BY <1>4, <1>5, <2>1 DEF Owned
<1> PICK v, x : v = Seen(m) /\ x = Card(m)  OBVIOUS
<1>7. Stays(f, m, W, v, x, p, k)  BY <1>2, <1>4, <1>5, <1>6 DEF Stays
<1> QED  BY ONLY FatInd, <1>3, <1>7, Step(m, f), Cut(m), WriteCut

(* Gone well, it keeps the invariant.                                      *)
LEMMA StreamGoes ==
    ASSUME FatInd, Storing, NEW f, NEW m, NEW p, NEW k, NEW c, NEW y, NEW v2, NEW x2,
           Streams(f, m, p, k, c, y, v2, x2), Step(m, f), Goes(m), call.left >= SectorSize,
           fp' = Advance(fp, SectorSize), call' = CallLeft(call.left - SectorSize),
           may' = may, reply' = reply, moving' = moving
    PROVE  FatInd'
<1> PICK z, b, g, s, left, q :
       /\ z = fp.fptr /\ b = fp.bytes /\ g = Added(fp.bytes, SectorSize, call.tok)
       /\ s = SectorSize /\ left = call.left /\ q = fp'
  OBVIOUS
<1>0. Streamed(f, m, p, k, c, y, v2, x2)  BY StreamStep
<1>1. /\ Written /\ WriteCall /\ OnBoundary /\ ~fp.dirty /\ Calling /\ IsCall
      /\ call.fn = "f_write" /\ fp.err = "OK" /\ call.btw \in Nat /\ left \in Nat /\ call.tok \in Bytes
  BY DEF Storing, AtSector, WriteCall, FatInd, FatIInv, Base
<1>2. /\ IsFp /\ fp.name \in Names /\ fp.write = TRUE /\ fp.slot \in 1 .. Slots
      /\ {fp.sclust, fp.clust, fp.sect} \subseteq {0} \cup Clusters
      /\ z \in Nat /\ fp.buf \in Sectorful /\ fp.dirty = FALSE
      /\ fp.objsize = z /\ Len(b) = z
      /\ faults = 0 => Lost(ViewImg) \subseteq {fp.sclust}
  BY <1>1 DEF Written, FileOpen, Lossless
<1>3. s \in Nat \ {0} /\ z + s \in Nat /\ left - s \in Nat
  <2>1. s \in Nat \ {0}  BY Sizes
  <2>2. left >= s  OBVIOUS
  <2> QED  BY ONLY <1>1, <1>2, <2>1, <2>2
<1>4. Grown(s, g)  BY <1>2, <1>3, FpGrown
<1>5. /\ IsFp'
      /\ fp'.name = fp.name /\ fp'.write = fp.write /\ fp'.slot = fp.slot
      /\ fp'.sclust = fp.sclust /\ fp'.objsize = z + s /\ fp'.fptr = z + s
      /\ fp'.clust = fp.clust /\ fp'.sect = fp.sect /\ fp'.buf = fp.buf /\ fp'.dirty = fp.dirty
      /\ fp'.err = fp.err /\ fp'.bytes = g
  BY <1>4 DEF Grown
<1>6. /\ Runs(p, k) /\ Own(p, k) /\ k = Nth(z) + 1 /\ f \in Faults
  BY DEF Streams, Storing1
<1> PICK W : W = {ViewImg, v2, x2}  OBVIOUS
<1>7. /\ Passes(Start(f), m, W) /\ Struck(f, m) /\ Honest(W, may, {}) /\ OffOf(m) \in BOOLEAN
      /\ OffOf(m) = FALSE => \/ Card(m) = CardImg /\ Seen(m) = ViewImg /\ ~Goes(m)
                             \/ Card(m) = x2 /\ Seen(m) = v2
      /\ Chain(v2, p, k) /\ Apart(v2, Span(p, k)) /\ Apart(x2, Span(p, k))
      /\ Writable(v2, x2, fp) /\ Lost(v2) = Lost(ViewImg)
  BY <1>0 DEF Streamed, Stored
<1>8. /\ g \in Octets /\ Len(g) = z + s /\ Nth(z + s) = k /\ k \in Nat
      /\ Held(v2.data, p, z + s, fp.buf, FALSE, g)
  <2> PICK n, data, data2 : n = Nth(z) /\ data = ViewImg.data /\ data2 = v2.data  OBVIOUS
  <2>1. Longer(data, p, z, fp.buf, b, call.tok, g, data2) /\ n \in Nat  BY <1>0 DEF Streamed
  <2>2. g \in Octets /\ Len(g) = z + s /\ Nth(z + s) = n + 1 /\ Held(data2, p, z + s, fp.buf, FALSE, g)
    BY ONLY <2>1, s = SectorSize, n = Nth(z) DEF Longer
  <2>3. k = n + 1 /\ k \in Nat  BY <1>6, <2>1
  <2> QED  BY <2>2, <2>3
<1>9. Card(m) = x2 /\ Seen(m) = v2
  <2>1. OffOf(m) = FALSE  BY <1>7, GoesIs
  <2> QED  BY <1>7, <2>1
<1>10. FileOpen(TRUE)'
  <2>1. fp'.objsize \in Nat /\ fp'.fptr \in Nat  BY <1>3, <1>5
  <2>2. fp'.dirty \in BOOLEAN /\ fp'.bytes \in Octets /\ IsFp'  BY <1>2, <1>5, <1>8
  <2>3. /\ fp'.name \in Names /\ fp'.write = TRUE /\ fp'.slot \in 1 .. Slots
        /\ {fp'.sclust, fp'.clust, fp'.sect} \subseteq {0} \cup Clusters
        /\ fp'.buf \in Sectorful
    BY <1>2, <1>5
  <2> QED  BY ONLY <2>1, <2>2, <2>3 DEF FileOpen
<1>11. Writable(v2, x2, q) /\ (faults = 0 => Lost(v2) \subseteq {q.sclust})
  BY <1>2, <1>5, <1>7 DEF Writable
<1>12. Writes1(f, m, W, v2, x2, q)
  <2>1. q.objsize = q.fptr /\ Len(q.bytes) = q.fptr  BY <1>5, <1>8
  <2> QED  BY <1>6, <1>7, <1>9, <1>11, <2>1 DEF Writes1
<1>13. /\ IsCall' /\ call'.fn = call.fn /\ call'.pc = "round" /\ call'.btw = call.btw
       /\ call'.left = left - s /\ call'.tok = call.tok
  BY <1>1, CallLeftFields
<1>14. /\ FsSound' /\ Base' /\ Written' /\ Calling'
       /\ ViewImg' = v2 /\ CardImg' = x2
  <2>1. may' = may /\ reply' = reply /\ moving' = moving /\ IsCall' /\ q = fp'  BY <1>13
  <2> QED  BY ONLY FatInd, <1>1, Step(m, f), <1>10, <1>12, <2>1, WriteGoes
<1>15. Owned(v2, x2, p, k, q)
  <2>1. Owned(ViewImg, CardImg, p, k, fp)  BY <1>6, OwnedIs
  <2>2. q.dirty = FALSE /\ q.fptr = z + s /\ q.sclust = fp.sclust /\ q.clust = fp.clust
        /\ q.buf = fp.buf /\ q.bytes = g
    BY <1>2, <1>5
  <2>3. Held(v2.data, p, q.fptr, q.buf, q.dirty, q.bytes)  BY <1>8, <2>2
  <2>4. k \in {Nth(q.fptr), Nth(q.fptr) + 1}  BY <1>8, <2>2
  <2>5. /\ q.sclust = IF k = 0 THEN 0 ELSE p[1]
        /\ q.clust = IF k = 0 THEN 0 ELSE p[k]
    BY <2>1, <2>2 DEF Owned
  <2> QED  BY <1>7, <2>2, <2>3, <2>4, <2>5 DEF Owned
<1>16. Own(p, k)'  BY <1>14, <1>15, OwnedNext
<1>17. Owns({0})'
  <2> PICK w, n : w = fp'.fptr /\ n = 0  OBVIOUS
  <2>1. k = Nth(w) + n /\ n \in {0}  BY <1>5, <1>8
  <2>2. Runs(p, k) /\ w = fp'.fptr  BY <1>6
  <2> QED  BY ONLY <1>16, <2>1, <2>2, OwnsNext
<1>18. Complete'
  <2>1. (z + s) % SectorSize = 0
    <3>1. z % SectorSize = 0 /\ z \in Nat  BY <1>1, <1>2 DEF OnBoundary
    <3>2. (z + SectorSize) % SectorSize = 0  BY <3>1, NextBoundary
    <3> QED  BY <3>2
  <2> QED  BY <1>5, <2>1 DEF Complete
<1>19. Round'  BY <1>1, <1>3, <1>5, <1>13, <1>14, <1>17, <1>18 DEF Round, WriteCall
<1> QED  BY <1>14, <1>19 DEF FatInd, FatIInv, Phases

(* WriteSector keeps the invariant.                                        *)
LEMMA Keep_WriteSector ==
    ASSUME FatInd, WriteSector
    PROVE  FatInd'
<1>1. call.pc = "store" /\ call.left >= SectorSize  BY DEF WriteSector
<1>2. Storing  BY <1>1, PhaseAt
<1>3. Written /\ Owns({1}) /\ IsCall /\ call.tok \in Bytes
  BY <1>2 DEF Storing, AtSector, WriteCall, FatInd, FatIInv, Base
<1> PICK k, p : Runs(p, k) /\ Own(p, k) /\ k \in {Nth(fp.fptr) + n : n \in {1}}  BY <1>3, OwnsPick
<1> PICK z : z = fp.fptr  OBVIOUS
<1>4. z \in Nat /\ Nth(z) \in Nat
  <2>1. z \in Nat  BY <1>3 DEF Written, FileOpen
  <2> QED  BY <2>1, NthType
<1>5. k = Nth(z) + 1 /\ k \in Nat /\ k > 0
  <2> PICK w : w = Nth(z)  OBVIOUS
  <2>1. k \in {w + n : n \in {1}} /\ w \in Nat  BY <1>4
  <2> QED  BY ONLY <2>1, w = Nth(z)
<1>6. fp.clust = p[k] /\ p[k] \in Span(p, k)
  <2>1. k \in 1 .. k /\ k # 0  BY <1>5
  <2> QED  BY <2>1 DEF Own, Span
<1> PICK y : y = [j \in 1 .. SectorSize |-> call.tok]  OBVIOUS
<1> PICK c : c = fp.clust  OBVIOUS
<1> PICK f \in Faults : \E m \in {disk_write(Start(f), DataSector(c), y)} :
          /\ Step(m, f)
          /\ \/ Cut(m)
             \/ /\ Goes(m)
                /\ fp' = Advance(fp, SectorSize)
                /\ call' = [call EXCEPT !.pc = "round", !.left = @ - SectorSize]
                /\ UNCHANGED <<may, reply, moving>>
  BY DEF WriteSector
<1> PICK m : /\ m = disk_write(Start(f), DataSector(c), y)
             /\ Step(m, f)
             /\ \/ Cut(m)
                \/ /\ Goes(m)
                   /\ fp' = Advance(fp, SectorSize)
                   /\ call' = CallLeft(call.left - SectorSize)
                   /\ may' = may /\ reply' = reply /\ moving' = moving
  BY DEF CallLeft
<1> PICK v2, x2 : v2 = SetData(ViewImg, c, y) /\ x2 = SetData(CardImg, c, y)  OBVIOUS
<1>7. y \in Sectorful  BY <1>3 DEF Sectorful
<1>8. Streams(f, m, p, k, c, y, v2, x2)  BY <1>5, <1>6, <1>7 DEF Streams, Storing1
<1>9. CASE Cut(m)  BY ONLY FatInd, <1>2, <1>8, <1>9, Step(m, f), StreamCut
<1>10. CASE /\ Goes(m)
            /\ fp' = Advance(fp, SectorSize)
            /\ call' = CallLeft(call.left - SectorSize)
            /\ may' = may /\ reply' = reply /\ moving' = moving
  BY ONLY FatInd, <1>1, <1>2, <1>8, <1>10, Step(m, f), StreamGoes
<1> QED  BY <1>9, <1>10

(* The entry of the file that f_close writes.                              *)
Recorded(v, w, i, n, c, z, x) ==
    /\ v = ViewImg /\ i = fp.slot /\ n = fp.name /\ c = fp.sclust /\ z = fp.fptr /\ x = fp.bytes
    /\ w = SetDir(ViewImg, fp.slot, File(fp.name, fp.sclust, fp.fptr))
(* The chain is ready for the entry.                                       *)
LEMMA RecordGood ==
    ASSUME FatInd, EntryPhase, NEW v, NEW w, NEW i, NEW n, NEW c, NEW z, NEW x,
           Recorded(v, w, i, n, c, z, x)
    PROVE  \E k, p : CloseReady(v, may, i, n, k, p, c, x, z, w)
<1>1. Written /\ Owns({0, 1}) /\ ~fp.dirty /\ {x} \in may[n]  BY DEF EntryPhase, Closing, Recorded
<1>2. /\ v = ViewImg /\ i = fp.slot /\ n = fp.name /\ c = fp.sclust /\ z = fp.fptr /\ x = fp.bytes
      /\ w = SetDir(v, i, File(n, c, z))
  BY DEF Recorded
<1> PICK k, p : Runs(p, k) /\ Own(p, k) /\ k \in {Nth(fp.fptr) + j : j \in {0, 1}}  BY <1>1, OwnsPick
<1>3. /\ n \in Names /\ i \in 1 .. Slots /\ z \in Nat /\ Len(x) = z
      /\ v.dir[i] = File(n, 0, 0) /\ moving = {} /\ fp.dirty = FALSE
  BY <1>1, <1>2 DEF Written, FileOpen
<1>4. v \in Imgs /\ Good(v, may, {})
  <2> PICK f : f \in Faults  BY DEF Faults
  <2> PICK s : s = Start(f)  OBVIOUS
  <2>1. v \in Imgs  BY <1>2, AtStart
  <2> QED  BY <1>2, <1>3, <2>1 DEF FatInd, FatIInv, Base
<1>5. Owned(v, CardImg, p, k, fp)  BY <1>2, OwnedIs
<1>6. /\ Chain(v, p, k) /\ Apart(v, Span(p, k))
      /\ c = IF k = 0 THEN 0 ELSE p[1]
      /\ Held(v.data, p, z, fp.buf, FALSE, x)
  BY <1>2, <1>3, <1>5 DEF Owned
<1>7. Nth(z) <= k
  <2>1. z = fp.fptr  BY <1>2
  <2> QED  BY ONLY <1>1, <2>1, Runs(p, k), Own(p, k), LastSector
<1>8. \A b \in 1 .. z : ByteAt(v.data, p, b) = x[b]  BY <1>6 DEF Held
<1>9. CloseReady(v, may, i, n, k, p, c, x, z, w)
  BY <1>1, <1>2, <1>3, <1>4, <1>6, <1>7, <1>8 DEF CloseReady, Runs
<1> QED  BY <1>9

Records(f, m, v, w, i, n, c, z, x) ==
    /\ Passes(Start(f), m, {v, w}) /\ Struck(f, m) /\ Honest({v, w}, may, {})
    /\ Goes(m) => Seen(m) = w
    /\ w.dir[i] = File(n, c, z) /\ Lost(w) \subseteq Lost(v) \ {c}
    /\ Carries(w.fat, w.data, c, z, x)
(* The entry is set in the view, and leads to what f_write took.           *)
LEMMA RecordStep ==
    ASSUME FatInd, EntryPhase, NEW v, NEW w, NEW i, NEW n, NEW c, NEW z, NEW x,
           Recorded(v, w, i, n, c, z, x), NEW f \in Faults, NEW m, m = WithEntry(Start(f))
    PROVE  Records(f, m, v, w, i, n, c, z, x)
<1> PICK k, p : CloseReady(v, may, i, n, k, p, c, x, z, w)  BY RecordGood
<1>1. CloseFacts(v, may, i, n, k, p, c, x, z, w)  BY CloseGood
<1>2. /\ Good(w, may, {}) /\ w \in Imgs /\ w.dir[i] = File(n, c, z)
      /\ Lost(w) \subseteq Lost(v) \ {c}
      /\ Carries(w.fat, w.data, c, z, x)
  BY <1>1 DEF CloseFacts
<1>3. Good(v, may, {}) /\ i \in 1 .. Slots /\ n \in Names /\ z \in Nat /\ w = SetDir(v, i, File(n, c, z))
  BY DEF CloseReady
<1>4. Written /\ FileOpen(TRUE) /\ fp.objsize = z /\ i = fp.slot /\ n = fp.name /\ c = fp.sclust
  BY DEF Recorded, EntryPhase, Written
<1>5. c \in {0} \cup Clusters  BY <1>4 DEF FileOpen
<1> PICK s, e : s = Start(f) /\ e = File(n, c, z)  OBVIOUS
<1>6. SoundRec(s) /\ OffOf(s) = FALSE /\ ResOf(s) = "OK" /\ Seen(s) = v
  BY AtStart DEF Recorded
<1>7. e \in DirEntries  BY <1>3, <1>5, EntryFields
<1>8. m = DirPut(s, i, e)  BY <1>4 DEF WithEntry, DirPut
<1>9. /\ Passes(s, m, {Seen(s), SetDir(Seen(s), i, e)})
      /\ ~OffOf(m) /\ ResOf(m) = "OK" => Seen(m) = SetDir(Seen(s), i, e)
      /\ FuseOf(s) = -1 => ResOf(m) = "OK"
  <2>1. /\ Passes(s, m, {Seen(s), SetDir(Seen(s), i, e)})
        /\ ValOf(m) = ValOf(s) /\ HintOf(m) = HintOf(s) /\ InfoOf(m) = InfoOf(s)
        /\ ~OffOf(m) /\ ResOf(m) = "OK" => Seen(m) = SetDir(Seen(s), i, e) /\ SectOf(m) = DirSector(i)
        /\ ~OffOf(m) /\ ResOf(m) # "OK" => Seen(m) = Seen(s)
        /\ FuseOf(s) = -1 => ResOf(m) = "OK"
    BY ONLY <1>3, <1>6, <1>7, <1>8, DirPutSound
  <2> QED  BY <2>1
<1>10. SetDir(Seen(s), i, e) = w  BY <1>3, <1>6
<1>11. Passes(Start(f), m, {v, w})  BY <1>6, <1>9, <1>10
<1>12. Struck(f, m)  BY <1>9 DEF Struck
<1>13. Goes(m) => Seen(m) = w  BY <1>9, <1>10, GoesIs
<1>14. Honest({v, w}, may, {})  BY <1>2, <1>3 DEF Honest
<1> QED  BY <1>2, <1>11, <1>12, <1>13, <1>14 DEF Records

(* f_sync keeps the invariant.                                             *)
LEMMA Keep_f_sync ==
    ASSUME FatInd, f_sync
    PROVE  FatInd'
<1>1. call.pc = "entry"  BY DEF f_sync
<1>2. EntryPhase  BY <1>1, PhaseAt
<1> PICK f \in Faults : \E m \in {WithEntry(Start(f))} :
          /\ Step(m, f)
          /\ Cut(m) \/ (Goes(m) /\ GoesOn([call EXCEPT !.pc = "sync"]))
  BY DEF f_sync
<1> PICK m : /\ m = WithEntry(Start(f)) /\ Step(m, f)
             /\ Cut(m) \/ (Goes(m) /\ GoesOn([call EXCEPT !.pc = "sync"]))
  OBVIOUS
<1> PICK v, i, n, c, z, x : /\ v = ViewImg /\ i = fp.slot /\ n = fp.name /\ c = fp.sclust
                            /\ z = fp.fptr /\ x = fp.bytes
  OBVIOUS
<1> PICK w, W : w = SetDir(v, i, File(n, c, z)) /\ W = {v, w}  OBVIOUS
<1>3. Recorded(v, w, i, n, c, z, x)  BY DEF Recorded
<1>4. Records(f, m, v, w, i, n, c, z, x)  BY <1>2, <1>3, RecordStep
<1>5. /\ Passes(Start(f), m, W) /\ Struck(f, m) /\ Honest(W, may, {})
      /\ Goes(m) => Seen(m) = w
      /\ w.dir[i] = File(n, c, z) /\ Lost(w) \subseteq Lost(v) \ {c}
      /\ Carries(w.fat, w.data, c, z, x)
  BY <1>4 DEF Records
<1>6. /\ Written /\ Closing /\ Calling /\ call.fn = "f_close" /\ {fp.bytes} \in may[fp.name]
      /\ FileOpen(TRUE) /\ fp.objsize = z /\ moving = {} /\ IsCall /\ MayType
      /\ Good(CardImg, may, moving)
      /\ faults = 0 => Lost(v) \subseteq {c}
  BY <1>2 DEF EntryPhase, Closing, Written, Lossless, FatInd, FatIInv, Base
<1>7. CASE Cut(m)
  <2>1. call.fn \notin {"f_write", "f_read"}  BY <1>6
  <2>2. Honest(W, may, moving)  BY <1>5, <1>6
  <2> QED  BY <1>5, <1>6, <1>7, <2>1, <2>2, CutRest
<1>8. CASE Goes(m) /\ GoesOn([call EXCEPT !.pc = "sync"])
  <2>1. call' = CallPc("sync") /\ fp' = fp /\ may' = may /\ reply' = reply /\ moving' = moving
    BY <1>8 DEF GoesOn, CallPc
  <2>2. IsCall' /\ call'.fn = call.fn /\ call'.pc = "sync"  BY <1>6, <2>1, CallPcFields
  <2>3. MayType' /\ RepliesHonest'  BY <1>6, <2>1, NoReplyNext DEF MayType, Calling
  <2>4. Honest(W, may', moving') /\ Good(CardImg, may', moving')  BY <1>5, <1>6, <2>1
  <2>5. /\ FsSound' /\ Base'
        /\ Goes(m) => /\ ViewImg' = Seen(m) /\ fs'.mounted = fs.mounted
        /\ faults' = 0 => faults = 0
    BY <1>5, <2>2, <2>3, <2>4, StepBase
  <2>6. ViewImg' = w  BY <1>5, <1>8, <2>5
  <2>7. Calling' /\ moving' = {}  BY <1>6, <1>8, <2>1, <2>5 DEF Calling
  <2>8. Closing'  BY <1>6, <2>1, <2>2, <2>7 DEF Closing
  <2>9. FileOpen(TRUE)'  BY <1>6, <2>1 DEF FileOpen, IsFp
  <2>10. Lossless({})'  BY <1>5, <1>6, <2>5, <2>6 DEF Lossless
  <2>11. ViewImg'.dir[fp'.slot] = File(fp'.name, fp'.sclust, fp'.objsize)
    BY <1>5, <1>6, <2>1, <2>6
  <2>12. Carries(ViewImg'.fat, ViewImg'.data, fp'.sclust, fp'.objsize, fp'.bytes)
    BY <1>5, <1>6, <2>1, <2>6
  <2>13. SyncClose'  BY <2>2, <2>7, <2>8, <2>9, <2>10, <2>11, <2>12 DEF SyncClose
  <2> QED  BY <2>5, <2>13 DEF FatInd, FatIInv, Phases
<1> QED  BY <1>7, <1>8

(* What f_read is reading: the bytes x, as far as it is.                   *)
LEMMA ReadMeans ==
    ASSUME FatInd, Read
    PROVE  \E x \in UNION may[fp.name] :
              /\ Reading(x) /\ x \in Octets /\ call.got = SubSeq(x, 1, fp.fptr)
              /\ Carries(ViewImg.fat, ViewImg.data, fp.sclust, fp.objsize, x)
<1> PICK x \in UNION may[fp.name] :
         /\ Reading(x)
         /\ call.got = SubSeq(x, 1, fp.fptr)
         /\ fp.objsize > 0 =>
               \E q \in [1 .. Nth(fp.objsize) -> Clusters] :
                  /\ Bears(ViewImg.fat, ViewImg.data, q, fp.sclust, fp.objsize, x)
                  /\ fp.fptr > 0 => fp.clust = q[Nth(fp.fptr)]
  BY DEF Read
<1>1. fp.name \in Names  BY DEF Read, ReadCtx, FileOpen
<1>2. x \in Octets  BY <1>1, MayPick DEF FatInd, FatIInv, Base
<1>3. Carries(ViewImg.fat, ViewImg.data, fp.sclust, fp.objsize, x)
  BY DEF Reading, Carries
<1> QED  BY <1>2, <1>3

(* ReadReturns keeps the invariant.                                        *)
LEMMA Keep_ReadReturns ==
    ASSUME FatInd, ReadReturns
    PROVE  FatInd'
<1>1. /\ call.pc = "read" /\ fp.fptr >= fp.objsize /\ call' = NoCall
      /\ reply' = [call |-> "f_read", name |-> fp.name, got |-> call.got]
      /\ disk' = disk /\ fs' = fs /\ fp' = fp /\ may' = may /\ moving' = moving /\ faults' = faults
  BY DEF ReadReturns
<1>2. Read  BY <1>1, PhaseAt
<1> PICK x \in UNION may[fp.name] :
              /\ Reading(x) /\ x \in Octets /\ call.got = SubSeq(x, 1, fp.fptr)
              /\ Carries(ViewImg.fat, ViewImg.data, fp.sclust, fp.objsize, x)
  BY <1>2, ReadMeans
<1>3. ReadCtx /\ fp.fptr \in Nat /\ fp.objsize \in Nat /\ fp.fptr <= fp.objsize
  BY <1>2 DEF Read, ReadCtx, FileOpen
<1>4. {x} \in may[fp.name] /\ Len(x) = fp.objsize  BY DEF Reading
<1>5. call.got = x
  <2>1. fp.fptr = Len(x)  BY <1>1, <1>3, <1>4
  <2> PICK S : x \in Seq(S)  BY DEF Octets
  <2>2. SubSeq(x, 1, Len(x)) = x  OBVIOUS
  <2> QED  BY <2>1, <2>2
<1>6. MayType' /\ IsCall'
  BY <1>1, NoCallIs DEF FatInd, FatIInv, Base, MayType
<1>7. RepliesHonest'
  <2> PICK n, g, T : n = fp.name /\ g = call.got /\ T = may[fp.name]  OBVIOUS
  <2>1. reply' = [call |-> "f_read", name |-> n, got |-> g] /\ {g} \in T /\ may'[n] = T
    BY <1>1, <1>4, <1>5
  <2>2. reply'.call = "f_read" /\ reply'.name = n /\ reply'.got = g  BY ONLY <2>1
  <2> QED  BY ONLY <2>1, <2>2 DEF RepliesHonest
<1>8. Good(ViewImg, may', moving') /\ Good(CardImg, may', moving')
  BY <1>1 DEF FatInd, FatIInv, Base
<1>9. FsSound' /\ Base' /\ ViewImg' = ViewImg /\ CardImg' = CardImg
  BY <1>1, <1>6, <1>7, <1>8, Still
<1>10. ReadCtx'
  <2>1. FileOpen(FALSE)'  BY <1>1, <1>3 DEF ReadCtx, FileOpen, IsFp
  <2>2. Clean'  BY <1>1, <1>3, <1>9 DEF ReadCtx, Clean, Quiet
  <2> QED  BY <1>1, <1>3, <2>1, <2>2 DEF ReadCtx
<1>11. x \in UNION may'[fp'.name] /\ Reading(x)'  BY <1>1 DEF Reading
<1>12. Carries(ViewImg'.fat, ViewImg'.data, fp'.sclust, fp'.objsize, x)  BY <1>1, <1>9
<1>13. ReadOpen'  BY <1>1, <1>10, <1>11, <1>12 DEF ReadOpen
<1> QED  BY <1>9, <1>13 DEF FatInd, FatIInv, Phases

(* A step of f_read that is cut short keeps the invariant.                 *)
LEMMA ReadCut ==
    ASSUME FatInd, Read, NEW f, NEW m, Watches(f, m), Step(m, f), Cut(m)
    PROVE  FatInd'
<1>0. f \in Faults /\ Passes(Start(f), m, {ViewImg}) /\ Struck(f, m)  BY DEF Watches
<1>1. /\ Calling /\ ReadCtx /\ call.fn = "f_read" /\ moving = {} /\ fs.mounted /\ reply = NoReply
      /\ MayType /\ Good(CardImg, may, moving) /\ Good(ViewImg, may, moving) /\ IsFp
  BY DEF Read, ReadCtx, FileOpen, Calling, FatInd, FatIInv, Base
<1>2. /\ ~Goes(m) /\ call' = NoCall /\ may' = may /\ reply' = reply /\ moving' = moving
      /\ fp' = CASE m.off \/ call.fn = "f_close" -> NoFp
                 [] ~m.off /\ call.fn \in {"f_write", "f_read"} -> [fp EXCEPT !.err = m.res]
                 [] OTHER -> fp
  BY DEF Cut
<1>3. Honest({ViewImg}, may', moving') /\ Good(CardImg, may', moving')  BY <1>1, <1>2 DEF Honest
<1>4. MayType' /\ RepliesHonest' /\ IsCall'  BY <1>1, <1>2, NoReplyNext, NoCallIs DEF MayType
<1>5. /\ FsSound' /\ Base'
      /\ ~Goes(m) => faults' # 0
      /\ OffOf(m) => fs' = NoFs
      /\ ~OffOf(m) => fs'.mounted = fs.mounted /\ ViewImg' = Seen(m) /\ ViewImg' \in {ViewImg}
  BY <1>0, <1>3, <1>4, StepBase
<1>6. faults' # 0  BY <1>2, <1>5
<1>7. OffOf(m) \in BOOLEAN  BY <1>0 DEF Passes, SoundRec, Shaped
<1>8. CASE OffOf(m) = TRUE
  <2>1. fp' = NoFp  BY <1>1, <1>2, <1>8 DEF OffOf
  <2>2. fs' = NoFs  BY <1>5, <1>8
  <2>3. Rest'  BY <1>2, <1>6, <2>1, <2>2 DEF Rest, Closed, Clean
  <2> QED  BY <1>5, <2>3 DEF FatInd, FatIInv, Phases
<1>9. CASE OffOf(m) = FALSE
  <2> PICK r : r = ResOf(m)  OBVIOUS
  <2>1. fp' = FpErr(r)  BY <1>1, <1>2, <1>9 DEF OffOf, ResOf, FpErr
  <2>2. /\ IsFp'
        /\ fp'.name = fp.name /\ fp'.write = fp.write /\ fp'.slot = fp.slot
        /\ fp'.sclust = fp.sclust /\ fp'.objsize = fp.objsize /\ fp'.fptr = fp.fptr
        /\ fp'.clust = fp.clust /\ fp'.sect = fp.sect /\ fp'.buf = fp.buf
        /\ fp'.dirty = fp.dirty /\ fp'.err = r /\ fp'.bytes = fp.bytes
    BY <1>1, <2>1, FpErrFields
  <2>3. ViewImg' = ViewImg /\ fs'.mounted  BY <1>1, <1>5, <1>9
  <2>4. FileOpen(FALSE)'  BY <1>1, <2>2 DEF ReadCtx, FileOpen
  <2>5. ReadCtx'  BY <1>1, <1>2, <1>6, <2>3, <2>4 DEF ReadCtx, Clean
  <2> PICK x \in UNION may[fp.name] :
              /\ Reading(x) /\ x \in Octets /\ call.got = SubSeq(x, 1, fp.fptr)
              /\ Carries(ViewImg.fat, ViewImg.data, fp.sclust, fp.objsize, x)
    BY ReadMeans
  <2>6. x \in UNION may'[fp'.name] /\ Reading(x)'  BY <1>2, <2>2 DEF Reading
  <2>7. Carries(ViewImg'.fat, ViewImg'.data, fp'.sclust, fp'.objsize, x)  BY <2>2, <2>3
  <2>8. ReadOpen'  BY <1>2, <2>5, <2>6, <2>7 DEF ReadOpen
  <2> QED  BY <1>5, <2>8 DEF FatInd, FatIInv, Phases
<1> QED  BY <1>7, <1>8, <1>9

(* A cluster is seen as it is on the card: the window never holds one.     *)
LEMMA SeenData ==
    ASSUME NEW m, SoundRec(m), OffOf(m) = FALSE, NEW c \in Clusters, NEW y, y = Seen(m).data[c]
    PROVE  DiskOf(m)[DataSector(c)] = y
<1> PICK d, s, x, t : d = DiskOf(m) /\ s = SectOf(m) /\ x = WinOf(m) /\ t = DataSector(c)  OBVIOUS
<1>1. y = Over(d, m)[t]  BY DEF Seen, Img
<1>2. IsDisk(d) /\ FlagOf(m) \in BOOLEAN /\ (FlagOf(m) => s \in Windowed)
  BY DEF SoundRec, WindowSound
<1>3. t \in Sectors  BY DEF Sectors
<1>4. s \in Windowed => s # t  BY SectorKinds DEF Windowed
<1>5. s # t => Put(d, s, x)[t] = d[t]  BY <1>2, <1>3 DEF IsDisk, Put
<1> QED  BY <1>1, <1>2, <1>4, <1>5 DEF Over

(* The sector that f_read reads next: that of cluster c.                   *)
ReadsNext(z, c, b) ==
    /\ z = fp.fptr /\ b = fp.clust /\ z \in Nat /\ c \in Clusters
    /\ z = 0 => c = fp.sclust
    /\ z # 0 => b \in Clusters /\ ViewImg.fat[b] = c
ReadsOn(f, m, c) ==
    /\ Watches(f, m)
    /\ Goes(m) => /\ ValOf(m) = c
                  /\ DiskOf(m)[DataSector(c)] = ViewImg.data[c]
                  /\ ~fs.wflag => ~FlagOf(m)
(* f_read comes to the cluster and reads it from the card.                 *)
LEMMA ReadStep ==
    ASSUME FatInd, NEW z, NEW c, NEW b, ReadsNext(z, c, b), NEW f \in Faults,
           NEW m, m = Then(ReadCluster(Start(f)), disk_read)
    PROVE  ReadsOn(f, m, c)
<1> PICK s : s = Start(f)  OBVIOUS
<1> PICK g : g = IF z = 0 THEN [s EXCEPT !.val = fp.sclust] ELSE get_fat(s, b)  OBVIOUS
<1> PICK r : r = ReadCluster(s)  OBVIOUS
<1>1. SoundRec(s) /\ OffOf(s) = FALSE /\ ResOf(s) = "OK" /\ Seen(s) = ViewImg /\ FlagOf(s) = fs.wflag
  BY AtStart
<1>2. z = fp.fptr /\ b = fp.clust /\ z \in Nat /\ c \in Clusters  BY DEF ReadsNext
<1>3. /\ Passes(s, g, {Seen(s)})
      /\ OffOf(g) = FALSE /\ ResOf(g) = "OK" => ValOf(g) = c
      /\ FuseOf(s) = -1 => ResOf(g) = "OK"
      /\ ~OffOf(g) /\ ~FlagOf(s) => ~FlagOf(g)
  <2>1. CASE z = 0
    <3>1. g = [s EXCEPT !.val = c]  BY <2>1 DEF ReadsNext
    <3>2. IsRec(s) /\ HintOf(s) \in Int  BY <1>1 DEF SoundRec, Shaped
    <3>3. Fields(g, DiskOf(s), WinOf(s), SectOf(s), FlagOf(s), HintOf(s), InfoOf(s),
                 ResOf(s), c, FuseOf(s), FaultOf(s), OffOf(s))
      BY ONLY <3>1, <3>2, UpdVal
    <3>4. /\ IsRec(g) /\ DiskOf(g) = DiskOf(s) /\ WinOf(g) = WinOf(s) /\ SectOf(g) = SectOf(s)
          /\ FlagOf(g) = FlagOf(s) /\ FuseOf(g) = FuseOf(s) /\ FaultOf(g) = FaultOf(s)
          /\ OffOf(g) = OffOf(s) /\ HintOf(g) = HintOf(s) /\ ResOf(g) = ResOf(s) /\ ValOf(g) = c
      BY <3>3 DEF Fields
    <3>5. Passes(s, s, {Seen(s)})  BY <1>1, PassesSelf
    <3>6. HintOf(g) \in Int  BY <3>2, <3>4
    <3>7. Passes(s, g, {Seen(s)})  BY ONLY <3>4, <3>5, <3>6, PassesResult
    <3> QED  BY <1>1, <3>4, <3>7
  <2>2. CASE z # 0
    <3>1. b \in Clusters /\ Seen(s).fat[b] = c /\ g = get_fat(s, b)  BY <1>1, <2>2 DEF ReadsNext
    <3>2. /\ Passes(s, g, {Seen(s)})
          /\ HintOf(g) = HintOf(s) /\ InfoOf(g) = InfoOf(s)
          /\ ~OffOf(g) /\ ResOf(g) = "OK" => ValOf(g) = Seen(s).fat[b] /\ SectOf(g) = FatSector(b)
          /\ ResOf(g) # "OK" => ValOf(g) = DiskError
          /\ FuseOf(s) = -1 => ResOf(g) = "OK"
          /\ ~OffOf(g) /\ ~FlagOf(s) => ~FlagOf(g)
      BY ONLY <1>1, <3>1, GetSound
    <3> QED  BY <3>1, <3>2
  <2> QED  BY <2>1, <2>2
<1>4. r = IF ResOf(g) = "OK" /\ ValOf(g) \notin Clusters THEN Fail(g, "INT_ERR") ELSE g
  BY <1>2 DEF ReadCluster, ResOf, ValOf
<1>5. SoundRec(g) /\ OffOf(g) \in BOOLEAN  BY <1>3 DEF Passes, SoundRec, Shaped
<1>6. Refuses(g, r)  BY <1>4 DEF Refuses
<1>7. SameStep(s, {Seen(s)}, g, r)  BY ONLY <1>3, <1>6, RefusePasses
<1>8. /\ Passes(s, r, {Seen(s)}) /\ SoundRec(r)
      /\ OffOf(r) = OffOf(g) /\ Seen(r) = Seen(g)
      /\ Goes(r) => r = g
  BY <1>7 DEF SameStep
<1>9. OffOf(g) = FALSE /\ ResOf(g) = "OK" => r = g  BY <1>2, <1>3, <1>4
<1>10. m = IF ResOf(r) = "OK" THEN disk_read(r) ELSE r  BY DEF Then, ResOf
<1>11. CASE ResOf(r) = "OK"
  <2>1. m = disk_read(r)  BY <1>10, <1>11
  <2>2. Shaped(r)  BY <1>8 DEF SoundRec
  <2>3. /\ DiskOf(m) = DiskOf(r) /\ FlagOf(m) = FlagOf(r)
        /\ ValOf(m) = ValOf(r) /\ OffOf(m) = OffOf(r)
        /\ FuseOf(r) = -1 => FuseOf(m) = -1 /\ ResOf(m) = "OK"
    <3>1. /\ Shaped(m)
          /\ DiskOf(m) = DiskOf(r) /\ WinOf(m) = WinOf(r) /\ SectOf(m) = SectOf(r)
          /\ FlagOf(m) = FlagOf(r) /\ HintOf(m) = HintOf(r) /\ InfoOf(m) = InfoOf(r)
          /\ ValOf(m) = ValOf(r) /\ FaultOf(m) = FaultOf(r) /\ OffOf(m) = OffOf(r)
          /\ FuseOf(r) = -1 => FuseOf(m) = -1 /\ ResOf(m) = "OK"
      BY ONLY <2>1, <2>2, ReadSound
    <3> QED  BY <3>1
  <2>4. Passes(r, m, {Seen(r)}) /\ Seen(m) = Seen(r)  BY ONLY <1>8, <2>1, ReadPasses
  <2>5. Watches(f, m)
    <3>1. CASE OffOf(r) = TRUE
      <4>1. Passes(s, m, {Seen(s)})
        BY <1>1, <1>8, <2>3, <2>4, <3>1 DEF Passes
      <4> QED  BY <1>1, <2>3, <3>1, <4>1 DEF Watches, Struck
    <3>2. CASE OffOf(r) = FALSE
      <4>1. Seen(r) = Seen(s)  BY <1>8, <3>2 DEF Passes
      <4>2. Passes(s, m, {Seen(s)})  BY ONLY <1>8, <2>4, <4>1, PassesTrans
      <4>3. FuseOf(s) = -1 => FuseOf(r) = -1  BY <1>8 DEF Passes
      <4> QED  BY <1>1, <2>3, <4>2, <4>3 DEF Watches, Struck
    <3> QED  BY <1>5, <1>8, <3>1, <3>2
  <2>6. ASSUME Goes(m)
        PROVE  /\ ValOf(m) = c
               /\ DiskOf(m)[DataSector(c)] = ViewImg.data[c]
               /\ ~fs.wflag => ~FlagOf(m)
    <3>1. OffOf(r) = FALSE  BY <1>5, <1>8, <2>3, <2>6, GoesIs
    <3>2. Goes(r)  BY <1>11, <3>1, GoesIs
    <3>3. r = g /\ ResOf(g) = "OK" /\ OffOf(g) = FALSE  BY <1>8, <1>11, <3>1, <3>2
    <3>4. Seen(r) = Seen(s)  BY <1>8, <3>1 DEF Passes
    <3> PICK y : y = Seen(r).data[c]  OBVIOUS
    <3>5. DiskOf(r)[DataSector(c)] = y  BY ONLY <1>2, <1>8, <3>1, y = Seen(r).data[c], SeenData
    <3> QED  BY <1>1, <1>3, <2>3, <3>3, <3>4, <3>5
  <2> QED  BY <2>5, <2>6 DEF ReadsOn
<1>12. CASE ResOf(r) # "OK"
  <2>1. m = r /\ ~Goes(m)  BY <1>10, <1>12, GoesIs
  <2>2. Struck(f, m)  BY <1>3, <1>5, <1>8, <1>9, <1>12, <2>1 DEF Struck
  <2> QED  BY <1>1, <1>8, <2>1, <2>2 DEF ReadsOn, Watches
<1> QED  BY <1>11, <1>12

(* The bytes read and those of the next sector are the bytes read then.    *)
Follows(x, z, n, y) ==
    /\ x \in Octets /\ z \in Nat /\ n \in Nat /\ z + n <= Len(x)
    /\ y \in Sectorful /\ n <= SectorSize
    /\ \A j \in 1 .. n : y[j] = x[z + j]
Joined(x, z, n, y) == SubSeq(x, 1, z) \o SubSeq(y, 1, n) = SubSeq(x, 1, z + n)
(* The bytes read so far and those of the next sector, put together.       *)
LEMMA Glue ==
    ASSUME NEW x, NEW z, NEW n, NEW y, Follows(x, z, n, y)
    PROVE  Joined(x, z, n, y)
<1> PICK S, s : S = Bytes \cup {0} /\ s = SectorSize  OBVIOUS
<1>0. /\ x \in Seq(S) /\ z \in Nat /\ n \in Nat /\ z + n <= Len(x)
      /\ y \in [1 .. s -> S] /\ n <= s /\ s \in Nat
      /\ \A j \in 1 .. n : y[j] = x[z + j]
  BY Sizes DEF Follows, Octets, Sectorful
<1>1. y \in Seq(S) /\ Len(y) = s  BY ONLY <1>0
<1> PICK a, b, w : a = SubSeq(x, 1, z) /\ b = SubSeq(y, 1, n) /\ w = SubSeq(x, 1, z + n)  OBVIOUS
<1>2. a \in Seq(S) /\ Len(a) = z /\ \A i \in 1 .. z : a[i] = x[i]
  BY ONLY <1>0, a = SubSeq(x, 1, z)
<1>3. b \in Seq(S) /\ Len(b) = n /\ \A i \in 1 .. n : b[i] = y[i]
  BY ONLY <1>0, <1>1, b = SubSeq(y, 1, n)
<1>4. w \in Seq(S) /\ Len(w) = z + n /\ \A i \in 1 .. z + n : w[i] = x[i]
  BY ONLY <1>0, w = SubSeq(x, 1, z + n)
<1> PICK g : g = a \o b  OBVIOUS
<1>5. g \in Seq(S) /\ Len(g) = z + n /\ \A i \in 1 .. z + n : g[i] = IF i <= z THEN a[i] ELSE b[i - z]
  <2>1. a \in Seq(S) /\ b \in Seq(S) /\ Len(a) = z /\ Len(b) = n  BY <1>2, <1>3
  <2>2. a \in Seq(S) /\ b \in Seq(S)  BY <2>1
  <2>3. /\ a \o b \in Seq(S) /\ Len(a \o b) = Len(a) + Len(b)
        /\ \A i \in 1 .. Len(a) + Len(b) : (a \o b)[i] = IF i <= Len(a) THEN a[i] ELSE b[i - Len(a)]
    BY ONLY <2>2
  <2> QED  BY ONLY <2>1, <2>3, g = a \o b
<1>6. \A i \in 1 .. z + n : g[i] = IF i <= z THEN a[i] ELSE b[i - z]  BY <1>5
<1>7. \A i \in 1 .. z + n : g[i] = w[i]
  <2> SUFFICES ASSUME NEW i \in 1 .. z + n PROVE g[i] = w[i]  OBVIOUS
  <2>1. CASE i <= z
    <3>1. i \in 1 .. z  BY ONLY <1>0, <2>1, i \in 1 .. z + n
    <3> QED  BY <1>2, <1>4, <1>6, <2>1, <3>1
  <2>2. CASE ~(i <= z)
    <3> PICK j : j = i - z  OBVIOUS
    <3>1. j \in 1 .. n /\ z + j = i  BY ONLY <1>0, <2>2, i \in 1 .. z + n, j = i - z
    <3>2. g[i] = b[j]  BY <1>6, <2>2
    <3>3. b[j] = x[i]  BY <1>0, <1>3, <3>1
    <3>4. w[i] = x[i]  BY <1>4
    <3> QED  BY <3>2, <3>3, <3>4
  <2> QED  BY <2>1, <2>2
<1>8. g = w  BY ONLY <1>4, <1>5, <1>7
<1> QED  BY <1>8 DEF Joined

(* How far f_read is, and what it reads next: n bytes of cluster c.        *)
ReadsAt(x, q, z, n, c, y) ==
    /\ x \in UNION may[fp.name] /\ Reading(x) /\ x \in Octets
    /\ q \in [1 .. Nth(fp.objsize) -> Clusters]
    /\ Bears(ViewImg.fat, ViewImg.data, q, fp.sclust, fp.objsize, x)
    /\ z = fp.fptr /\ n \in Nat \ {0} /\ z \in Nat
    /\ z + n <= fp.objsize /\ (z + n < fp.objsize => n = SectorSize)
    /\ z % SectorSize = 0 /\ n <= SectorSize
    /\ call.got = SubSeq(x, 1, z)
    /\ c \in Clusters /\ c = q[Nth(z + n)]
    /\ ReadsNext(z, c, fp.clust)
    /\ y = ViewImg.data[c] /\ Follows(x, z, n, y)
(* What f_read reads next is the next of the file's bytes.                 *)
LEMMA ReadsWhat ==
    ASSUME FatInd, Read, fp.fptr < fp.objsize, NEW n,
           n = IF fp.objsize - fp.fptr < SectorSize THEN fp.objsize - fp.fptr ELSE SectorSize
    PROVE  \E x, q, c, y : ReadsAt(x, q, fp.fptr, n, c, y)
<1> PICK z, s, t, fat, data : /\ z = fp.fptr /\ s = SectorSize /\ t = fp.objsize
                              /\ fat = ViewImg.fat /\ data = ViewImg.data
  OBVIOUS
<1>1. ReadCtx /\ FileOpen(FALSE) /\ z \in Nat /\ t \in Nat /\ z < t /\ z % s = 0
  BY DEF Read, ReadCtx, FileOpen
<1>2. s \in Nat \ {0}  BY Sizes
<1> PICK x \in UNION may[fp.name] :
         /\ Reading(x)
         /\ call.got = SubSeq(x, 1, z)
         /\ t > 0 =>
               \E q \in [1 .. Nth(t) -> Clusters] :
                  /\ Bears(fat, data, q, fp.sclust, t, x)
                  /\ z > 0 => fp.clust = q[Nth(z)]
  BY DEF Read
<1>3. t > 0  BY <1>1
<1> PICK q \in [1 .. Nth(t) -> Clusters] :
                  /\ Bears(fat, data, q, fp.sclust, t, x)
                  /\ z > 0 => fp.clust = q[Nth(z)]
  BY <1>3
<1>4. x \in Octets /\ Len(x) = t
  <2>1. fp.name \in Names  BY <1>1 DEF FileOpen
  <2>2. x \in Octets  BY <2>1, MayPick DEF FatInd, FatIInv, Base
  <2> QED  BY <2>2 DEF Reading
<1>5. n \in Nat \ {0} /\ z + n <= t /\ (z + n < t => n = s) /\ n <= s /\ z + n \in 1 .. t
  BY ONLY <1>1, <1>2, s = SectorSize, z = fp.fptr, t = fp.objsize,
          n = IF fp.objsize - fp.fptr < SectorSize THEN fp.objsize - fp.fptr ELSE SectorSize
<1> PICK k, j, e : k = Nth(t) /\ j = Nth(z) /\ e = Nth(z + n)  OBVIOUS
<1>6. Grows(z, n)
  <2>1. (z % SectorSize) + n <= SectorSize  BY <1>1, <1>2, <1>5
  <2> QED  BY <1>1, <1>5, <2>1, NthMore
<1>7. /\ j \in Nat /\ k \in Nat /\ e = j + 1 /\ e \in 1 .. k
      /\ z # 0 => j \in 1 .. k - 1
      /\ z = 0 => j = 0
  <2>1. j \in Nat /\ k \in Nat  BY <1>1, NthType
  <2>2. e = j + 1  BY <1>1, <1>6 DEF Grows
  <2>3. e \in 1 .. k  BY <1>1, <1>5, NthType
  <2>4. z # 0 => j \in 1 .. j
    <3> SUFFICES ASSUME z # 0 PROVE j \in 1 .. j  OBVIOUS
    <3>1. z \in 1 .. z  BY <1>1
    <3> QED  BY <1>1, <3>1, NthType
  <2>5. z = 0 => j = 0  BY NthZero
  <2> QED  BY ONLY <2>1, <2>2, <2>3, <2>4, <2>5
<1> PICK c, y : c = q[e] /\ y = data[c]  OBVIOUS
<1>8. /\ q[1] = fp.sclust /\ \A i \in 1 .. k - 1 : fat[q[i]] = q[i + 1]
      /\ \A b \in 1 .. t : ByteAt(data, q, b) = x[b]
  BY DEF Bears, Path
<1>9. c \in Clusters  BY <1>7
<1>10. ReadsNext(z, c, fp.clust)
  <2>1. z = 0 => c = fp.sclust  BY <1>7, <1>8
  <2>2. z # 0 => fp.clust \in Clusters /\ fat[fp.clust] = c
    <3> SUFFICES ASSUME z # 0 PROVE fp.clust \in Clusters /\ fat[fp.clust] = c  OBVIOUS
    <3>1. z > 0  BY <1>1
    <3>2. fp.clust = q[j] /\ j \in 1 .. k - 1  BY <1>7, <3>1
    <3>3. j \in 1 .. k  BY ONLY <1>7, <3>2
    <3>4. fat[q[j]] = q[e]  BY <1>7, <1>8, <3>2
    <3> QED  BY <3>2, <3>3, <3>4
  <2> QED  BY <1>1, <1>9, <2>1, <2>2 DEF ReadsNext
<1>11. y \in Sectorful
  <2> PICK f : f \in Faults  BY DEF Faults
  <2> PICK r : r = Start(f)  OBVIOUS
  <2>1. ViewImg \in Imgs  BY AtStart
  <2> QED  BY <1>9, <2>1 DEF Imgs
<1>12. \A i \in 1 .. n : y[i] = x[z + i]
  <2> SUFFICES ASSUME NEW i \in 1 .. n PROVE y[i] = x[z + i]  OBVIOUS
  <2> PICK b : b = z + i  OBVIOUS
  <2>1. b \in z + 1 .. z + n /\ b \in 1 .. t /\ b - 1 - z = i - 1
    BY ONLY <1>1, <1>5, i \in 1 .. n, b = z + i
  <2>2. Nth(b) = e /\ (b - 1) % s = (z % s) + (b - 1 - z)  BY <1>6, <2>1 DEF Grows
  <2>3. 1 + ((b - 1) % s) = i
    BY ONLY <1>1, <2>1, <2>2, i \in 1 .. n
  <2>4. ByteAt(data, q, b) = y[i]  BY <2>2, <2>3 DEF ByteAt
  <2> QED  BY <1>8, <2>1, <2>4
<1>13. Follows(x, z, n, y)  BY <1>1, <1>4, <1>5, <1>11, <1>12 DEF Follows
<1>14. ReadsAt(x, q, z, n, c, y)
  BY <1>1, <1>4, <1>5, <1>9, <1>10, <1>13 DEF ReadsAt
<1> QED  BY <1>14

(* With them in the caller's buffer the invariant holds.                   *)
LEMMA ReadGoes ==
    ASSUME FatInd, Read, NEW f, NEW m, NEW x, NEW q, NEW z, NEW n, NEW c, NEW y,
           ReadsAt(x, q, z, n, c, y), ReadsOn(f, m, c), Step(m, f), Goes(m),
           fp' = FpNext(c, z + n), call' = CallGot(SubSeq(x, 1, z + n)),
           may' = may, reply' = reply, moving' = moving
    PROVE  FatInd'
<1>1. /\ x \in UNION may[fp.name] /\ Reading(x)
      /\ q \in [1 .. Nth(fp.objsize) -> Clusters]
      /\ Bears(ViewImg.fat, ViewImg.data, q, fp.sclust, fp.objsize, x)
      /\ n \in Nat \ {0} /\ z \in Nat
      /\ z + n <= fp.objsize /\ (z + n < fp.objsize => n = SectorSize)
      /\ z % SectorSize = 0
      /\ c \in Clusters /\ c = q[Nth(z + n)]
  BY DEF ReadsAt
<1>2. /\ f \in Faults /\ Passes(Start(f), m, {ViewImg}) /\ Struck(f, m)
      /\ ~fs.wflag => ~FlagOf(m)
  BY DEF ReadsOn, Watches
<1>3. /\ Calling /\ ReadCtx /\ FileOpen(FALSE) /\ IsFp /\ IsCall /\ MayType /\ reply = NoReply /\ fs.mounted
      /\ Clean /\ moving = {} /\ call.fn = "f_read" /\ call.pc = "read" /\ fp.objsize \in Nat
      /\ Good(CardImg, may, moving) /\ Good(ViewImg, may, moving)
  BY DEF Read, ReadCtx, FileOpen, Calling, FatInd, FatIInv, Base
<1> PICK e, g : e = z + n /\ g = SubSeq(x, 1, z + n)  OBVIOUS
<1>4. /\ IsFp'
      /\ fp'.name = fp.name /\ fp'.write = fp.write /\ fp'.slot = fp.slot
      /\ fp'.sclust = fp.sclust /\ fp'.objsize = fp.objsize /\ fp'.fptr = e
      /\ fp'.clust = c /\ fp'.sect = fp.sect /\ fp'.buf = fp.buf /\ fp'.dirty = fp.dirty
      /\ fp'.err = fp.err /\ fp'.bytes = fp.bytes
  BY <1>3, FpNextFields
<1>5. /\ IsCall' /\ call'.fn = call.fn /\ call'.pc = call.pc /\ call'.got = g
  BY <1>3, CallGotFields
<1>6. MayType' /\ RepliesHonest'  BY <1>3, NoReplyNext DEF MayType
<1>7. Honest({ViewImg}, may', moving') /\ Good(CardImg, may', moving')  BY <1>3 DEF Honest
<1>8. /\ FsSound' /\ Base'
      /\ Goes(m) => /\ ViewImg' = Seen(m) /\ ViewImg' \in {ViewImg}
                    /\ fs'.mounted = fs.mounted
                    /\ fs'.wflag = FlagOf(m)
      /\ faults' = 0 => faults = 0
  BY <1>2, <1>5, <1>6, <1>7, StepBase
<1>9. ViewImg' = ViewImg /\ fs'.mounted  BY <1>3, <1>8
<1>10. Clean'  BY <1>2, <1>3, <1>8, <1>9 DEF Clean, Quiet
<1>11. e \in Nat /\ e > 0 /\ e <= fp.objsize /\ (e < fp.objsize => e % SectorSize = 0)
  <2>1. e \in Nat /\ e > 0 /\ e <= fp.objsize  BY <1>1, <1>3
  <2>2. e < fp.objsize => e = z + SectorSize  BY <1>1
  <2> QED  BY <1>1, <2>1, <2>2, NextBoundary
<1>12. FileOpen(FALSE)'
  <2>1. fp'.fptr \in Nat /\ fp'.objsize \in Nat /\ IsFp'  BY <1>3, <1>4, <1>11
  <2>2. /\ fp'.name \in Names /\ fp'.write = FALSE /\ fp'.slot \in 1 .. Slots
        /\ {fp'.sclust, fp'.clust, fp'.sect} \subseteq {0} \cup Clusters
        /\ fp'.buf \in Sectorful /\ fp'.dirty \in BOOLEAN /\ fp'.bytes \in Octets
    BY <1>1, <1>3, <1>4 DEF FileOpen
  <2> QED  BY ONLY <2>1, <2>2 DEF FileOpen
<1>13. ReadCtx'  BY <1>3, <1>9, <1>10, <1>12 DEF ReadCtx
<1>14. Calling'  BY <1>3, <1>9 DEF Calling
<1>15. x \in UNION may'[fp'.name] /\ Reading(x)'  BY <1>1, <1>4 DEF Reading
<1>16. q \in [1 .. Nth(fp'.objsize) -> Clusters]
       /\ Bears(ViewImg'.fat, ViewImg'.data, q, fp'.sclust, fp'.objsize, x)
       /\ fp'.clust = q[Nth(fp'.fptr)]
       /\ call'.got = SubSeq(x, 1, fp'.fptr)
  BY <1>1, <1>4, <1>5, <1>9
<1>17. Read'
  <2>1. fp'.fptr <= fp'.objsize /\ (fp'.fptr < fp'.objsize => fp'.fptr % SectorSize = 0)
    BY <1>4, <1>11
  <2>2. call'.pc = "read" /\ call'.fn = "f_read"  BY <1>3, <1>5
  <2> QED  BY <1>13, <1>14, <1>15, <1>16, <2>1, <2>2 DEF Read
<1> QED  BY <1>8, <1>17 DEF FatInd, FatIInv, Phases

(* ReadSector keeps the invariant.                                         *)
LEMMA Keep_ReadSector ==
    ASSUME FatInd, ReadSector
    PROVE  FatInd'
<1>1. call.pc = "read" /\ fp.fptr < fp.objsize  BY DEF ReadSector
<1>2. Read  BY <1>1, PhaseAt
<1> PICK z, n : /\ z = fp.fptr
                /\ n = IF fp.objsize - fp.fptr < SectorSize THEN fp.objsize - fp.fptr ELSE SectorSize
  OBVIOUS
<1> PICK x, q, c, y : ReadsAt(x, q, z, n, c, y)  BY <1>1, <1>2, ReadsWhat
<1> PICK f \in Faults : \E m \in {Then(ReadCluster(Start(f)), disk_read)} :
          /\ Step(m, f)
          /\ \/ Cut(m)
             \/ /\ Goes(m)
                /\ fp' = [fp EXCEPT !.clust = m.val, !.fptr = @ + n]
                /\ call' = [call EXCEPT !.got = @ \o SubSeq(m.disk[DataSector(m.val)], 1, n)]
                /\ UNCHANGED <<may, reply, moving>>
  BY DEF ReadSector
<1> PICK m : /\ m = Then(ReadCluster(Start(f)), disk_read)
             /\ Step(m, f)
             /\ \/ Cut(m)
                \/ /\ Goes(m)
                   /\ fp' = [fp EXCEPT !.clust = m.val, !.fptr = @ + n]
                   /\ call' = [call EXCEPT !.got = @ \o SubSeq(m.disk[DataSector(m.val)], 1, n)]
                   /\ may' = may /\ reply' = reply /\ moving' = moving
  OBVIOUS
<1>3. ReadsOn(f, m, c)
  <2> PICK b : b = fp.clust  OBVIOUS
  <2>1. ReadsNext(z, c, b)  BY DEF ReadsAt
  <2> QED  BY <2>1, ReadStep
<1>4. CASE Cut(m)
  <2>1. Watches(f, m)  BY <1>3 DEF ReadsOn
  <2> QED  BY <1>2, <1>4, <2>1, ReadCut
<1>5. CASE /\ Goes(m)
           /\ fp' = [fp EXCEPT !.clust = m.val, !.fptr = @ + n]
           /\ call' = [call EXCEPT !.got = @ \o SubSeq(m.disk[DataSector(m.val)], 1, n)]
           /\ may' = may /\ reply' = reply /\ moving' = moving
  <2>1. m.val = c /\ m.disk[DataSector(m.val)] = y
    BY <1>3, <1>5 DEF ReadsOn, ReadsAt, ValOf, DiskOf
  <2>2. Follows(x, z, n, y) /\ call.got = SubSeq(x, 1, z)  BY DEF ReadsAt
  <2>3. Joined(x, z, n, y)  BY ONLY <2>2, Glue
  <2>4. call.got \o SubSeq(y, 1, n) = SubSeq(x, 1, z + n)  BY ONLY <2>2, <2>3 DEF Joined
  <2>5. call' = CallGot(SubSeq(x, 1, z + n))
    <3>1. call' = [call EXCEPT !.got = call.got \o SubSeq(y, 1, n)]  BY <1>5, <2>1
    <3> QED  BY ONLY <2>4, <3>1 DEF CallGot
  <2>6. fp' = FpNext(c, z + n)  BY <1>5, <2>1 DEF FpNext
  <2>7. Goes(m) /\ may' = may /\ reply' = reply /\ moving' = moving  BY <1>5
  <2> QED  BY ONLY FatInd, <1>2, <1>3, ReadsAt(x, q, z, n, c, y), Step(m, f), <2>5, <2>6, <2>7, ReadGoes
<1> QED  BY <1>4, <1>5

(* Every step keeps the invariant.                                         *)
LEMMA FatStep ==
    ASSUME FatInd, [FatNext]_fat_vars
    PROVE  FatInd'
<1>1. CASE Calls
  <2>1. CASE Mount \/ Unmount  BY <2>1, Keep_Mount, Keep_Unmount
  <2>2. CASE \E n \in Names : f_open_create(n) \/ f_open_read(n) \/ f_unlink(n)
    <3> PICK n \in Names : f_open_create(n) \/ f_open_read(n) \/ f_unlink(n)  BY <2>2
    <3> QED  BY Keep_f_open_create, Keep_f_open_read, Keep_f_unlink
  <2>3. CASE \E old \in Names, new \in Names : f_rename(old, new)
    <3> PICK old \in Names, new \in Names : f_rename(old, new)  BY <2>3
    <3> QED  BY Keep_f_rename
  <2>4. CASE \E w \in Writes : f_write(w[1], w[2])
    <3> PICK w \in Writes : f_write(w[1], w[2])  BY <2>4
    <3> QED  BY Keep_f_write
  <2>5. CASE f_read \/ f_close \/ f_close_read  BY <2>5, Keep_f_read, Keep_f_close, Keep_f_close_read
  <2> QED  BY <1>1, <2>1, <2>2, <2>3, <2>4, <2>5 DEF Calls
<1>2. CASE Steps
  <2>1. CASE dir_next  BY <2>1, Keep_dir_next
  <2>2. CASE NotFound  BY <2>2, Keep_NotFound
  <2>3. CASE OpenRead  BY <2>3, Keep_OpenRead
  <2>4. CASE Overwrite  BY <2>4, Keep_Overwrite
  <2>5. CASE BackToEntry  BY <2>5, Keep_BackToEntry
  <2>6. CASE dir_register  BY <2>6, Keep_dir_register
  <2>7. CASE remove_chain  BY <2>7, Keep_remove_chain
  <2>8. CASE Unlink  BY <2>8, Keep_Unlink
  <2>9. CASE FoundOld  BY <2>9, Keep_FoundOld
  <2>10. CASE Exists  BY <2>10, Keep_Exists
  <2>11. CASE Rename  BY <2>11, Keep_Rename
  <2>12. CASE Synced  BY <2>12, Keep_Synced
  <2>13. CASE AllWritten  BY <2>13, Keep_AllWritten
  <2>14. CASE FillBuffer  BY <2>14, Keep_FillBuffer
  <2>15. CASE NextSector  BY <2>15, Keep_NextSector
  <2>16. CASE Follow  BY <2>16, Keep_Follow
  <2>17. CASE TryNext  BY <2>17, Keep_TryNext
  <2>18. CASE FindFree  BY <2>18, Keep_FindFree
  <2>19. CASE ClaimCluster  BY <2>19, Keep_ClaimCluster
  <2>20. CASE Flush  BY <2>20, Keep_Flush
  <2>21. CASE WriteSector  BY <2>21, Keep_WriteSector
  <2>22. CASE StartBuffer  BY <2>22, Keep_StartBuffer
  <2>23. CASE f_sync  BY <2>23, Keep_f_sync
  <2>24. CASE ReadSector  BY <2>24, Keep_ReadSector
  <2>25. CASE ReadReturns  BY <2>25, Keep_ReadReturns
  <2> QED  BY <1>2, <2>1, <2>2, <2>3, <2>4, <2>5, <2>6, <2>7, <2>8, <2>9, <2>10, <2>11, <2>12, <2>13,
              <2>14, <2>15, <2>16, <2>17, <2>18, <2>19, <2>20, <2>21, <2>22, <2>23, <2>24, <2>25 DEF Steps
<1>3. CASE Done \/ UNCHANGED fat_vars  BY <1>3, Keep_Nothing DEF Done
<1> QED  BY <1>1, <1>2, <1>3 DEF FatNext

(* The images of FatInv, and the card of FatVolume: what one says of the   *)
(* other.                                                                  *)
Shown(d, v) == v = Img(d) /\ IsDisk(d) /\ v \in Imgs
(* The parts of the card's image.                                          *)
LEMMA ShownFields ==
    ASSUME NEW d, NEW v, Shown(d, v)
    PROVE  /\ \A c \in Clusters : v.fat[c] = FatOf(d, c) /\ v.data[c] = d[DataSector(c)]
           /\ \A i \in 1 .. Slots : v.dir[i] = EntryOf(d, i)
BY DEF Shown, Img

(* The listed slots are the files of the image.                            *)
LEMMA ListedIs ==
    ASSUME NEW d, NEW v, Shown(d, v), Tight(v)
    PROVE  Listed(d) = Files(v)
<1>1. \A i \in 1 .. Slots : v.dir[i] = EntryOf(d, i)  BY ShownFields
<1>2. ~IsFile(Never)  BY DEF IsFile, Never
<1>3. ASSUME NEW i \in 1 .. Slots, IsFile(v.dir[i]), NEW j \in 1 .. i
      PROVE  EntryOf(d, j) # Never
  <2>1. Slots \in Nat  BY Sizes
  <2>2. j \in 1 .. Slots /\ (j = i \/ j < i)  BY <2>1
  <2>3. v.dir[i] # Never  BY <1>2, <1>3
  <2>4. v.dir[j] # Never  BY <2>2, <2>3 DEF Tight
  <2> QED  BY <1>1, <2>2, <2>4
<1> QED  BY <1>1, <1>3 DEF Listed, Files

(* The runs of linked clusters are those of the image.                     *)
LEMMA PathsAre ==
    ASSUME NEW d, NEW v, Shown(d, v), NEW c, NEW k \in Nat, NEW q, NEW fat, fat = v.fat
    PROVE  q \in Paths(d, c, k) <=> Path(fat, q, c, k)
<1>1. \A b \in Clusters : fat[b] = FatOf(d, b)  BY ShownFields
<1>2. ASSUME q \in [1 .. k -> Clusters]
      PROVE  \A j \in 1 .. k - 1 : q[j] \in Clusters /\ fat[q[j]] = FatOf(d, q[j])
  BY <1>1, <1>2
<1> QED  BY <1>2 DEF Paths, Path

(* An entry leads to the bytes that its chain in the image carries.        *)
LEMMA ContentIs ==
    ASSUME NEW d, NEW v, Shown(d, v), NEW i \in Files(v), NEW e, e = v.dir[i], NEW x,
           NEW fat, fat = v.fat, NEW data, data = v.data
    PROVE  HasContent(d, i, x) <=> Carries(fat, data, e.clust, e.size, x)
<1> PICK c, z : c = e.clust /\ z = e.size  OBVIOUS
<1>1. i \in 1 .. Slots /\ EntryOf(d, i) = e  BY ShownFields DEF Files
<1>2. z \in Nat  BY ImgFields DEF Shown
<1>3. Nth(z) \in Nat /\ \A b \in 1 .. z : Nth(b) \in 1 .. Nth(z)  BY <1>2, NthType
<1>4. \A q : q \in Paths(d, c, Nth(z)) <=> Path(fat, q, c, Nth(z))  BY <1>3, PathsAre
<1>5. \A b \in Clusters : data[b] = d[DataSector(b)]  BY ShownFields
<1>6. \A q : Path(fat, q, c, Nth(z)) => \A b \in 1 .. z : ByteAt(data, q, b) = ByteOn(d, q, b)
  BY <1>3, <1>5 DEF Path, ByteAt, ByteOn
<1>7. HasContent(d, i, x) <=>
        Len(x) = z /\ (z > 0 => \E q \in Paths(d, c, Nth(z)) : \A b \in 1 .. z : ByteOn(d, q, b) = x[b])
  BY <1>1 DEF HasContent
<1>8. Carries(fat, data, c, z, x) <=>
        Len(x) = z /\ (z > 0 => \E q \in [1 .. Nth(z) -> Clusters] :
                          Path(fat, q, c, Nth(z)) /\ \A b \in 1 .. z : ByteAt(data, q, b) = x[b])
  BY DEF Carries, Bears
<1>9. \A q : Path(fat, q, c, Nth(z)) => q \in [1 .. Nth(z) -> Clusters]  BY DEF Path
<1> QED  BY <1>4, <1>6, <1>7, <1>8, <1>9

(* A chain is whole on the card when it is in the image.                   *)
LEMMA EndsIs ==
    ASSUME NEW d, NEW v, Shown(d, v), NEW i \in Files(v), NEW e, e = v.dir[i], NEW fat, fat = v.fat
    PROVE  ChainEnds(d, i) <=> Ends(fat, e.clust, e.size)
<1> PICK c, z : c = e.clust /\ z = e.size  OBVIOUS
<1>1. i \in 1 .. Slots /\ EntryOf(d, i) = e  BY ShownFields DEF Files
<1>2. \A k \in 1 .. LastCluster : \A q : q \in Paths(d, c, k) <=> Path(fat, q, c, k)
  <2>1. \A k \in 1 .. LastCluster : k \in Nat  OBVIOUS
  <2> QED  BY <2>1, PathsAre
<1>3. \A b \in Clusters : fat[b] = FatOf(d, b)  BY ShownFields
<1>4. \A k \in 1 .. LastCluster : \A q : Path(fat, q, c, k) => q \in [1 .. k -> Clusters] /\ fat[q[k]] = FatOf(d, q[k])
  BY <1>3 DEF Path
<1>5. ChainEnds(d, i) <=>
        IF c = 0 THEN z = 0
        ELSE \E k \in 1 .. LastCluster : \E q \in Paths(d, c, k) :
                FatOf(d, q[k]) = Eoc /\ k * SectorSize >= z
  BY <1>1 DEF ChainEnds
<1>6. Ends(fat, c, z) <=>
        IF c = 0 THEN z = 0
        ELSE \E k \in 1 .. LastCluster : \E q \in [1 .. k -> Clusters] :
                Path(fat, q, c, k) /\ fat[q[k]] = Eoc /\ k * SectorSize >= z
  BY DEF Ends
<1> QED  BY <1>2, <1>4, <1>5, <1>6

(* What refers to a cluster on the card does in the image.                 *)
LEMMA RefsAre ==
    ASSUME NEW d, NEW v, Shown(d, v), Tight(v), NEW c
    PROVE  /\ \A r : r \in RefsTo(d, c) <=> \/ \E i \in Files(v) : v.dir[i].clust = c /\ r = <<"dir", i>>
                                            \/ \E b \in Clusters : v.fat[b] = c /\ r = <<"fat", b>>
           /\ RefsTo(d, c) = {} <=> NoRef(v, c)
<1>1. Listed(d) = Files(v)  BY ListedIs
<1>2. \A i \in Files(v) : v.dir[i] = EntryOf(d, i)  BY ShownFields DEF Files
<1>3. \A b \in Clusters : v.fat[b] = FatOf(d, b)  BY ShownFields
<1>4. \A r : r \in RefsTo(d, c) <=> \/ \E i \in Files(v) : v.dir[i].clust = c /\ r = <<"dir", i>>
                                    \/ \E b \in Clusters : v.fat[b] = c /\ r = <<"fat", b>>
  BY <1>1, <1>2, <1>3 DEF RefsTo
<1>5. RefsTo(d, c) = {} <=> NoRef(v, c)  BY <1>4 DEF NoRef, Headed, Linked
<1> QED  BY <1>4, <1>5

(* No cluster of the card is named twice when none of the image is.        *)
LEMMA SingleIs ==
    ASSUME NEW d, NEW v, Shown(d, v), Tight(v)
    PROVE  Single(v) <=> \A c \in Clusters : \A r, s \in RefsTo(d, c) : r = s
<1>1. \A c : \A r : r \in RefsTo(d, c) <=> \/ \E i \in Files(v) : v.dir[i].clust = c /\ r = <<"dir", i>>
                                           \/ \E b \in Clusters : v.fat[b] = c /\ r = <<"fat", b>>
  BY RefsAre
<1>2. \A i, j : <<"dir", i>> # <<"fat", j>>  OBVIOUS
<1>3. \A i \in Files(v) : v.dir[i].clust \in {0} \cup Clusters  BY ImgFields DEF Shown
<1>4. ASSUME Single(v), NEW c \in Clusters, NEW r \in RefsTo(d, c), NEW s \in RefsTo(d, c)
      PROVE  r = s
  <2>1. c # 0  BY DEF Clusters
  <2>2. OneHead(v) /\ OneLink(v) /\ ~(Headed(v, c) /\ Linked(v, c))  BY <1>4 DEF Single, HeadOrLink
  <2>3. CASE \E i \in Files(v) : v.dir[i].clust = c /\ r = <<"dir", i>>
    BY <1>1, <2>1, <2>2, <2>3 DEF OneHead, Headed, Linked
  <2>4. CASE \E b \in Clusters : v.fat[b] = c /\ r = <<"fat", b>>
    BY <1>1, <2>1, <2>2, <2>4 DEF OneLink, Headed, Linked
  <2> QED  BY <1>1, <2>3, <2>4
<1>5. ASSUME \A c \in Clusters : \A r, s \in RefsTo(d, c) : r = s
      PROVE  Single(v)
  <2>1. OneHead(v)
    <3> SUFFICES ASSUME NEW i \in Files(v), NEW j \in Files(v), v.dir[i].clust = v.dir[j].clust, v.dir[i].clust # 0
                 PROVE  i = j
      BY DEF OneHead
    <3> PICK c : c = v.dir[i].clust  OBVIOUS
    <3>1. c \in Clusters  BY <1>3
    <3>2. <<"dir", i>> \in RefsTo(d, c) /\ <<"dir", j>> \in RefsTo(d, c)  BY <1>1
    <3>3. <<"dir", i>> = <<"dir", j>>  BY <1>5, <3>1, <3>2
    <3> QED  BY <3>3
  <2>2. OneLink(v)
    <3> SUFFICES ASSUME NEW a \in Clusters, NEW b \in Clusters, v.fat[a] = v.fat[b], v.fat[a] \in Clusters
                 PROVE  a = b
      BY DEF OneLink
    <3> PICK c : c = v.fat[a]  OBVIOUS
    <3>1. <<"fat", a>> \in RefsTo(d, c) /\ <<"fat", b>> \in RefsTo(d, c)  BY <1>1
    <3>2. <<"fat", a>> = <<"fat", b>>  BY <1>5, <3>1
    <3> QED  BY <3>2
  <2>3. HeadOrLink(v)
    <3> SUFFICES ASSUME NEW c \in Clusters, Headed(v, c), Linked(v, c) PROVE FALSE  BY DEF HeadOrLink
    <3> PICK i \in Files(v) : v.dir[i].clust = c  BY DEF Headed
    <3> PICK b \in Clusters : v.fat[b] = c  BY DEF Linked
    <3>1. <<"dir", i>> \in RefsTo(d, c) /\ <<"fat", b>> \in RefsTo(d, c)  BY <1>1
    <3> QED  BY <1>2, <1>5, <3>1
  <2> QED  BY <2>1, <2>2, <2>3 DEF Single
<1> QED  BY <1>4, <1>5

(* The card, and its image.                                                *)
LEMMA CardShown == FsSound => Shown(disk, CardImg)
BY ImgsNow DEF Shown, CardImg, FsSound

(* The invariant says of the card what FilesKept does.                     *)
LEMMA IndFilesKept == FatInd => FilesKept
<1> SUFFICES ASSUME FatInd PROVE FilesKept  OBVIOUS
<1> PICK d, v, mayof, mov : d = disk /\ v = CardImg /\ mayof = may /\ mov = moving  OBVIOUS
<1>1. Shown(d, v)  BY CardShown DEF FatInd
<1>2. Good(v, mayof, mov)  BY DEF FatInd, FatIInv, Base
<1>3. Tight(v) /\ Kept(v, mayof) /\ There(v, mayof) /\ Whole(v, mov)  BY <1>2 DEF Good
<1>4. Listed(d) = Files(v)  BY <1>1, <1>3, ListedIs
<1>5. \A i \in Files(v) : v.dir[i] = EntryOf(d, i)  BY <1>1, ShownFields DEF Files
<1>6. \A n : Has(d, n) <=> Named(v, n)  BY <1>4, <1>5 DEF Has, Named
<1>7. ASSUME NEW i \in Files(v)
      PROVE  \E x \in UNION mayof[EntryOf(d, i).name] : HasContent(d, i, x)
  <2> PICK x \in UNION mayof[v.dir[i].name] : Carries(v.fat, v.data, v.dir[i].clust, v.dir[i].size, x)
    BY <1>3 DEF Kept
  <2>1. HasContent(d, i, x)  BY <1>1, ContentIs
  <2> QED  BY <1>5, <2>1
<1>8. \A n \in Names : Has(d, n) \/ {} \in mayof[n]  BY <1>3, <1>6 DEF There
<1>9. \A p \in mov : p[3] => Has(d, p[1]) \/ Has(d, p[2])  BY <1>3, <1>6 DEF Whole
<1> QED  BY <1>4, <1>7, <1>8, <1>9 DEF FilesKept

(* The invariant says of the chains of the card what ChainsSound does.     *)
LEMMA IndChainsSound == FatInd => ChainsSound
<1> SUFFICES ASSUME FatInd PROVE ChainsSound  OBVIOUS
<1> PICK d, v, mov, mayof : d = disk /\ v = CardImg /\ mov = moving /\ mayof = may  OBVIOUS
<1>1. Shown(d, v)  BY CardShown DEF FatInd
<1>2. Good(v, mayof, mov)  BY DEF FatInd, FatIInv, Base
<1>3. Tight(v) /\ NoDangling(v) /\ (mov = {} => Single(v))  BY <1>2 DEF Good
<1>4. Listed(d) = Files(v)  BY <1>1, <1>3, ListedIs
<1>5. \A b \in Clusters : v.fat[b] = FatOf(d, b)  BY <1>1, ShownFields
<1>6. \A i \in Listed(d) : ChainEnds(d, i)
  <2> SUFFICES ASSUME NEW i \in Files(v) PROVE ChainEnds(d, i)  BY <1>4
  <2>1. Ends(v.fat, v.dir[i].clust, v.dir[i].size)  BY <1>2 DEF Good
  <2> QED  BY <1>1, <2>1, EndsIs
<1>7. \A c : RefsTo(d, c) = {} <=> NoRef(v, c)  BY <1>1, <1>3, RefsAre
<1>8. \A c \in FreeClusters(d) : RefsTo(d, c) = {}
  BY <1>3, <1>5, <1>7 DEF FreeClusters, NoDangling
<1>9. mov = {} => \A c \in Clusters : \A r, s \in RefsTo(d, c) : r = s
  BY <1>1, <1>3, SingleIs
<1>10. ASSUME faults = 0, call.pc = "idle", ~fp.open
       PROVE  /\ \A c \in Clusters : FatOf(d, c) # Free => RefsTo(d, c) # {}
              /\ \A s \in FatSectors : d[s] = d[Mirror(s)]
  <2>1. Rest  BY <1>10, IdleIs
  <2>2. Quiet  BY <1>10, <2>1 DEF Rest, Clean
  <2>3. ViewImg = v  BY <2>2, ViewPlain DEF Quiet
  <2>4. Lost(v) = {}  BY <2>2, <2>3 DEF Quiet
  <2>5. \A c \in Clusters : v.fat[c] # Free => ~NoRef(v, c)  BY <2>4 DEF Lost
  <2>6. \A s \in FatSectors : d[s] = d[Mirror(s)]  BY <1>10 DEF FatInd, FatIInv, Base
  <2> QED  BY <1>5, <1>7, <2>5, <2>6
<1> QED  BY <1>6, <1>8, <1>9, <1>10 DEF ChainsSound

(***************************************************************************)
(* At first.                                                               *)
(***************************************************************************)
(* The images of a card with nothing wrong.                                *)
Fresh(v) ==
    /\ Tight(v) /\ Distinct(v) /\ NoDangling(v) /\ Single(v) /\ Lost(v) = {}
    /\ \A i \in Files(v) : Ends(v.fat, v.dir[i].clust, v.dir[i].size)
(* The image of a card with nothing wrong.                                 *)
LEMMA FlawlessIs ==
    ASSUME NEW d, NEW v, Shown(d, v), Flawless(d)
    PROVE  Fresh(v) /\ Listed(d) = Files(v)
<1>0. v = Img(d)  BY DEF Shown
<1>1. \A i \in 1 .. Slots : v.dir[i] = EntryOf(d, i)  BY ShownFields
<1>2. \A b \in Clusters : v.fat[b] = FatOf(d, b)  BY ShownFields
<1>3. Tight(v)  BY <1>1 DEF Flawless, Tight
<1>4. Listed(d) = Files(v)  BY <1>3, ListedIs
<1>5. \A i \in Files(v) : v.dir[i] = EntryOf(d, i)  BY <1>1 DEF Files
<1>6. Distinct(v)  BY <1>4, <1>5 DEF Flawless, Distinct
<1>7. \A c : RefsTo(d, c) = {} <=> NoRef(v, c)  BY <1>3, RefsAre
<1>8. NoDangling(v)  BY <1>2, <1>7 DEF Flawless, NoDangling, FreeClusters
<1>9. Single(v)  BY <1>3, SingleIs DEF Flawless
<1>10. Lost(v) = {}  BY <1>2, <1>7 DEF Flawless, Lost
<1>11. ASSUME NEW i \in Files(v) PROVE Ends(v.fat, v.dir[i].clust, v.dir[i].size)
  <2>1. ChainEnds(d, i)  BY <1>4 DEF Flawless
  <2> QED  BY <2>1, EndsIs
<1> QED  BY <1>3, <1>4, <1>6, <1>8, <1>9, <1>10, <1>11 DEF Fresh

(* The first k clusters of a longer chain.                                 *)
LEMMA PathCut ==
    ASSUME NEW fat, NEW c, NEW k \in Nat, NEW m \in 1 .. k, NEW q, Path(fat, q, c, k),
           NEW p, p = [j \in 1 .. m |-> q[j]]
    PROVE  Path(fat, p, c, m)
<1>1. \A j \in 1 .. m : j \in 1 .. k /\ p[j] = q[j]  OBVIOUS
<1>2. \A j \in 1 .. m - 1 : j \in 1 .. k - 1 /\ j \in 1 .. m /\ j + 1 \in 1 .. m  OBVIOUS
<1>3. p \in [1 .. m -> Clusters]  BY <1>1 DEF Path
<1> QED  BY <1>1, <1>2, <1>3 DEF Path

(* A file's bytes are on the card: what Content takes along a chain is     *)
(* what the entry leads to.                                                *)
LEMMA ContentOf ==
    ASSUME NEW d, NEW v, Shown(d, v), Flawless(d), NEW i \in Files(v), NEW x, x = Content(d, i)
    PROVE  x \in Octets /\ HasContent(d, i, x)
<1> PICK e, c, z : e = EntryOf(d, i) /\ c = e.clust /\ z = e.size  OBVIOUS
<1> PICK q : q = CHOOSE p \in Paths(d, c, Nth(z)) : TRUE  OBVIOUS
<1>1. v.dir[i] = e /\ i \in 1 .. Slots  BY ShownFields DEF Files
<1>2. c \in {0} \cup Clusters /\ z \in Nat  BY <1>1, ImgFields DEF Shown
<1>3. x = [b \in 1 .. z |-> ByteOn(d, q, b)]  BY DEF Content
<1>4. Nth(z) \in Nat /\ \A b \in 1 .. z : Nth(b) \in 1 .. Nth(z)  BY <1>2, NthType
<1>5. ASSUME z > 0 PROVE q \in Paths(d, c, Nth(z))
  <2> PICK fat : fat = v.fat  OBVIOUS
  <2>1. Ends(fat, c, z)  BY <1>1, FlawlessIs DEF Fresh
  <2>2. c # 0 /\ \E k \in 1 .. LastCluster : \E p \in [1 .. k -> Clusters] :
                   Path(fat, p, c, k) /\ fat[p[k]] = Eoc /\ k * SectorSize >= z
    BY <1>2, <1>5, <2>1 DEF Ends
  <2> PICK k \in 1 .. LastCluster : \E p \in [1 .. k -> Clusters] :
              Path(fat, p, c, k) /\ k * SectorSize >= z
    BY <2>2
  <2> PICK p \in [1 .. k -> Clusters] : Path(fat, p, c, k) /\ k * SectorSize >= z  OBVIOUS
  <2>3. Nth(z) \in 1 .. k
    <3> PICK s, n : s = SectorSize /\ n = Nth(z)  OBVIOUS
    <3>1. s \in Nat \ {0} /\ n \in Nat /\ n > 0 /\ (n - 1) * s <= z - 1 /\ k * s >= z
      BY <1>2, <1>5, Sizes, NthType
    <3>2. k \in Nat /\ k >= 1  OBVIOUS
    <3>3. ASSUME k < n PROVE FALSE
      <4>1. k - 1 < n - 1 /\ k - 1 \in Int /\ n - 1 \in Int  BY ONLY <3>1, <3>2, <3>3
      <4>2. s * (k - 1) + s <= s * (n - 1)  BY ONLY <3>1, <4>1, MulStep
      <4>3. s * (k - 1) + s = k * s /\ s * (n - 1) = (n - 1) * s  BY ONLY <3>1, <3>2
      <4> QED  BY ONLY <1>2, <3>1, <3>2, <4>2, <4>3
    <3> QED  BY <3>1, <3>2, <3>3
  <2>4. Path(fat, [j \in 1 .. Nth(z) |-> p[j]], c, Nth(z))  BY <2>3, PathCut
  <2>5. [j \in 1 .. Nth(z) |-> p[j]] \in Paths(d, c, Nth(z))  BY <1>4, <2>4, PathsAre
  <2> QED  BY <2>5
<1>6. \A b \in 1 .. z : ByteOn(d, q, b) \in Bytes \cup {0}
  <2> SUFFICES ASSUME NEW b \in 1 .. z PROVE ByteOn(d, q, b) \in Bytes \cup {0}  OBVIOUS
  <2>1. z > 0 /\ q \in Paths(d, c, Nth(z))  BY <1>2, <1>5
  <2>2. q[Nth(b)] \in Clusters  BY <1>4, <2>1 DEF Paths
  <2> PICK a : a = q[Nth(b)]  OBVIOUS
  <2>3. d[DataSector(a)] = v.data[a] /\ v.data[a] \in Sectorful  BY <2>2, ShownFields, ImgFields DEF Shown
  <2>4. 1 + ((b - 1) % SectorSize) \in 1 .. SectorSize
    <3> PICK s, n : s = SectorSize /\ n = b - 1  OBVIOUS
    <3>1. s \in Nat \ {0} /\ n \in Int  BY Sizes
    <3>2. n % s \in 0 .. s - 1  BY ONLY <3>1
    <3> QED  BY <3>1, <3>2
  <2> QED  BY <2>3, <2>4 DEF ByteOn, Sectorful
<1>7. x \in Octets /\ Len(x) = z
  <2>1. x \in [1 .. z -> Bytes \cup {0}]  BY <1>3, <1>6
  <2> QED  BY <1>2, <2>1 DEF Octets
<1>8. z > 0 => \E p \in Paths(d, c, Nth(z)) : \A b \in 1 .. z : ByteOn(d, p, b) = x[b]
  BY <1>3, <1>5
<1> QED  BY <1>7, <1>8 DEF HasContent

(* A driver that has mounted nothing.                                      *)
LEMMA InitFs ==
    ASSUME fs = NoFs, IsDisk(disk), faults = 0
    PROVE  FsSound /\ ViewImg = CardImg /\ fs.wflag = FALSE
<1>2. fs = FsRec(<<>>, NoSector, FALSE, Unknown, 0, FALSE)
  BY DEF NoFs, FsRec
<1>3. /\ fs.win = <<>> /\ fs.winsect = NoSector /\ fs.wflag = FALSE /\ fs.last_clst = Unknown
      /\ fs.fsi_flag = 0 /\ fs.mounted = FALSE
  BY ONLY <1>2 DEF FsRec
<1> PICK m : m = Start(NoFault)  OBVIOUS
<1>5. m = Rec(disk, <<>>, NoSector, FALSE, Unknown, 0, "OK", 0, -1, "none", FALSE)
  BY <1>3 DEF Start, Rec, NoFault
<1>6. DiskOf(m) = disk /\ WinOf(m) = <<>> /\ SectOf(m) = NoSector /\ FlagOf(m) = FALSE
  <2>1. Fields(m, disk, <<>>, NoSector, FALSE, Unknown, 0, "OK", 0, -1, "none", FALSE)
    BY ONLY <1>5, RecFields
  <2> QED  BY ONLY <2>1 DEF Fields
<1>7. WindowSound(m)  BY <1>6, SectorKinds DEF WindowSound, Windowed
<1>8. FsSound
  <2>1. fs = FsRec(fs.win, fs.winsect, fs.wflag, fs.last_clst, fs.fsi_flag, fs.mounted)
    BY <1>2, <1>3
  <2>2. Unknown \in Int  BY DEF Unknown
  <2> QED  BY <1>3, <1>7, <2>1, <2>2 DEF FsSound
<1> QED  BY <1>3, <1>8, ViewPlain

(* No call runs.                                                           *)
LEMMA InitCall == call = NoCall => IsCall
<1> SUFFICES ASSUME call = NoCall PROVE IsCall  OBVIOUS
<1>1. call = CallRec("none", "idle", NoName, NoName, 0, 0, Never, 0, 0, 0, 0, 0, <<>>)
  BY DEF NoCall, CallRec
<1>2. /\ call.fn = "none" /\ call.pc = "idle" /\ call.name = NoName /\ call.new = NoName
      /\ call.i = 0 /\ call.dir = 0 /\ call.e = Never /\ call.clst = 0 /\ call.scl = 0
      /\ call.btw = 0 /\ call.left = 0 /\ call.tok = 0 /\ call.got = <<>>
  BY ONLY <1>1 DEF CallRec
<1> QED  BY ONLY <1>1, <1>2 DEF IsCall

(* What FatInit says each file may hold is what it holds.                  *)
InitMay(d) == [n \in Names |-> IF Has(d, n) THEN {{Content(d, SlotOf(d, n))}} ELSE {{}}]
(* Each file holds its content, and no other file is there.                *)
LEMMA MayAtFirst ==
    ASSUME NEW d, NEW v, Shown(d, v), Flawless(d), NEW mayof, mayof = InitMay(d)
    PROVE  /\ Kept(v, mayof) /\ There(v, mayof)
           /\ \A n \in Names : \A s \in mayof[n] :
                 s = {} \/ \E x \in UNION mayof[n] : x \in Octets /\ s = {x}
<1>1. Distinct(v) /\ Listed(d) = Files(v)  BY FlawlessIs DEF Fresh
<1>2. \A i \in Files(v) : v.dir[i] = EntryOf(d, i)  BY ShownFields DEF Files
<1>3. \A n : Has(d, n) <=> Named(v, n)  BY <1>1, <1>2 DEF Has, Named
<1>4. ASSUME NEW i \in Files(v), NEW n, n = v.dir[i].name
      PROVE  Has(d, n) /\ SlotOf(d, n) = i
  <2>1. i \in Listed(d) /\ EntryOf(d, i).name = n  BY <1>1, <1>2, <1>4
  <2>2. \A j \in Listed(d) : EntryOf(d, j).name = n => j = i  BY <1>1, <1>2, <1>4 DEF Distinct
  <2> QED  BY <2>1, <2>2 DEF Has, SlotOf
<1>5. \A i \in Files(v) : v.dir[i].name \in Names  BY ImgFields DEF Shown
<1>6. ASSUME NEW n \in Names, Has(d, n)
      PROVE  \E x : x \in Octets /\ mayof[n] = {{x}}
  <2> PICK i \in Files(v) : v.dir[i].name = n  BY <1>3, <1>6 DEF Named
  <2> PICK x : x = Content(d, i)  OBVIOUS
  <2>1. SlotOf(d, n) = i  BY <1>4
  <2>2. x \in Octets  BY ContentOf
  <2>3. mayof[n] = {{x}}  BY <1>6, <2>1 DEF InitMay
  <2> QED  BY <2>2, <2>3
<1>7. \A n \in Names : ~Has(d, n) => mayof[n] = {{}}  BY DEF InitMay
<1>8. ASSUME NEW i \in Files(v)
      PROVE  \E x \in UNION mayof[v.dir[i].name] :
                Carries(v.fat, v.data, v.dir[i].clust, v.dir[i].size, x)
  <2> PICK n, x : n = v.dir[i].name /\ x = Content(d, i)  OBVIOUS
  <2>1. n \in Names  BY <1>5
  <2>2. Has(d, n) /\ SlotOf(d, n) = i  BY <1>4
  <2>3. mayof[n] = {{x}}  BY <2>1, <2>2 DEF InitMay
  <2>4. HasContent(d, i, x)  BY ContentOf
  <2>5. Carries(v.fat, v.data, v.dir[i].clust, v.dir[i].size, x)  BY <2>4, ContentIs
  <2>6. x \in UNION mayof[n]  BY <2>3
  <2> QED  BY <2>5, <2>6
<1>9. ASSUME NEW n \in Names, NEW s \in mayof[n]
      PROVE  s = {} \/ \E x \in UNION mayof[n] : x \in Octets /\ s = {x}
  <2>1. CASE Has(d, n)
    <3> PICK x : x \in Octets /\ mayof[n] = {{x}}  BY <1>6, <2>1
    <3> QED  OBVIOUS
  <2> QED  BY <1>7, <1>9, <2>1
<1>10. There(v, mayof)  BY <1>3, <1>7 DEF There
<1> QED  BY <1>8, <1>9, <1>10 DEF Kept

(* The invariant holds at first.                                           *)
LEMMA IndInit == FatInit => FatInd
<1> SUFFICES ASSUME FatInit PROVE FatInd  OBVIOUS
<1>1. /\ fs = NoFs /\ fp = NoFp /\ call = NoCall /\ reply = NoReply /\ moving = {} /\ faults = 0
      /\ Flawless(disk) /\ may = InitMay(disk)
  BY FatFsAssumption DEF FatInit, InitMay
<1> PICK d, v, mayof : d = disk /\ v = CardImg /\ mayof = may  OBVIOUS
<1>2. IsDisk(disk)  BY <1>1 DEF Flawless, IsDisk
<1>3. FsSound /\ ViewImg = v /\ fs.wflag = FALSE  BY <1>1, <1>2, InitFs
<1>4. Shown(d, v)  BY <1>3, CardShown
<1>5. Flawless(d) /\ mayof = InitMay(d)  BY <1>1
<1>6. Fresh(v)  BY <1>4, <1>5, FlawlessIs
<1>7. Kept(v, mayof) /\ There(v, mayof)  BY <1>4, <1>5, MayAtFirst
<1>8. MayType
  <2>1. \A n \in Names : \A s \in mayof[n] : s = {} \/ \E x \in UNION mayof[n] : x \in Octets /\ s = {x}
    BY <1>4, <1>5, MayAtFirst
  <2>2. mayof = [n \in Names |-> mayof[n]]  BY <1>5 DEF InitMay
  <2> QED  BY <2>1, <2>2 DEF MayType
<1>9. Whole(v, moving)  BY <1>1 DEF Whole
<1>10. Good(v, may, moving)  BY <1>6, <1>7, <1>9 DEF Good, Fresh
<1>11. WindowCoherent  BY <1>3, WindowIs
<1>12. RepliesHonest  BY <1>1 DEF RepliesHonest, NoReply
<1>13. IsCall  BY <1>1, InitCall
<1>14. \A s \in FatSectors : disk[s] = disk[Mirror(s)]  BY <1>1 DEF Flawless
<1>15. Base  BY <1>3, <1>8, <1>10, <1>11, <1>12, <1>13, <1>14 DEF Base
<1>16. Quiet  BY <1>3, <1>6 DEF Quiet, Fresh
<1>17. Rest  BY <1>1, <1>16 DEF Rest, Closed, Clean
<1> QED  BY <1>3, <1>15, <1>17 DEF FatInd, FatIInv, Phases

(* The inductive invariant of the volume, its window, the open file and    *)
(* the call that runs, whatever disk access fails and wherever power is    *)
(* lost.                                                                   *)
THEOREM FatInvariance == FatSpec => []FatInd
<1>1. FatInit => FatInd  BY IndInit
<1>2. FatInd /\ [FatNext]_fat_vars => FatInd'  BY FatStep
<1> QED  BY <1>1, <1>2, PTL DEF FatSpec

(* Each file on the card holds what a sequence of the calls that returned  *)
(* left in it, at every point a fault may leave it.                        *)
THEOREM FatFilesKept == FatSpec => []FilesKept
<1>1. FatInd => FilesKept  BY IndFilesKept
<1> QED  BY <1>1, FatInvariance, PTL

(* The chains on the card are whole and apart at every such point, and     *)
(* without a fault no cluster is lost.                                     *)
THEOREM FatChainsSound == FatSpec => []ChainsSound
<1>1. FatInd => ChainsSound  BY IndChainsSound
<1> QED  BY <1>1, FatInvariance, PTL

(* The window is what it says it is.                                       *)
THEOREM FatWindowCoherent == FatSpec => []WindowCoherent
<1>1. FatInd => WindowCoherent  BY DEF FatInd, FatIInv, Base
<1> QED  BY <1>1, FatInvariance, PTL

(* No answer of f_write, f_read or f_open misleads.                        *)
THEOREM FatRepliesHonest == FatSpec => []RepliesHonest
<1>1. FatInd => RepliesHonest  BY DEF FatInd, FatIInv, Base
<1> QED  BY <1>1, FatInvariance, PTL
=============================================================================
