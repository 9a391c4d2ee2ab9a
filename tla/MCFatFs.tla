------------------------------- MODULE MCFatFs -------------------------------
(***************************************************************************)
(* Small instance of FatFs: four clusters, two FAT entries to a sector,    *)
(* two directory sectors of one entry; a blank card, and one with a file   *)
(* in a fragmented chain, the search for free clusters told to start at    *)
(* its end.                                                                *)
(***************************************************************************)
EXTENDS FatInv

CONSTANTS n1, n2, byte1, byte2

Keys(s) == CASE s[1] \in {"fat", "fat2"} -> {c \in Clusters : FatSector(c)[2] = s[2]}
             [] s[1] = "dir" -> {i \in 1 .. Slots : DirSector(i) = s}

Image(fat, dir, data, info) ==
    [s \in Sectors |->
        CASE s[1] \in {"fat", "fat2"} -> [c \in Keys(s) |-> fat[c]]
          [] s[1] = "dir"  -> [i \in Keys(s) |-> dir[i]]
          [] s[1] = "data" -> data
          [] s[1] = "info" -> info]

AllFree == [c \in Clusters |-> Free]
NoFiles == [i \in 1 .. Slots |-> Never]
MCWrites == {<<1, byte1>>, <<3, byte2>>}
MCImages ==
    {Image(AllFree, NoFiles, <<0, 0>>, Unknown),
     Image([AllFree EXCEPT ![4] = 2, ![2] = Eoc],
           [NoFiles EXCEPT ![1] = Deleted, ![2] = File(n1, 4, 3)], <<byte1, byte1>>, 4)}
=============================================================================
