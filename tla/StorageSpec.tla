----------------------------- MODULE StorageSpec -----------------------------
(***************************************************************************)
(* The abstract life of the SD storage between the calls main.c makes:     *)
(* mounted once, read any number of times, ended.  Every read is one step  *)
(* of StorageAPI; `last` is the request that returned last, with its       *)
(* result.  SdStorage implements this specification.                       *)
(***************************************************************************)
EXTENDS StorageAPI

CONSTANT Requests    \* the <<sector, count>> pairs callers ask for

VARIABLES last, phase

specVars == <<up, cnt, last, phase>>

NoRead == [request |-> <<0, 0>>, ok |-> FALSE]

SpecInit == up = FALSE /\ cnt = 0 /\ last = NoRead /\ phase = "boot"

(* sd_mount: when it succeeds the handle is usable. *)
SpecMount(ok) ==
    /\ phase = "boot"
    /\ phase' = IF ok THEN "mounted" ELSE "unmounted"
    /\ up' \in (IF ok THEN {TRUE} ELSE BOOLEAN)
    /\ cnt' \in (IF ok THEN Counts ELSE Counts \cup {0})
    /\ UNCHANGED last

SpecRead(r, ok) ==
    /\ phase = "mounted"
    /\ Read(r[1], r[2], ok)
    /\ last' = [request |-> r, ok |-> ok]
    /\ UNCHANGED phase

(* sd_end: the program reboots afterwards. *)
SpecEnd ==
    /\ phase \in {"mounted", "unmounted"}
    /\ phase' = "ended"
    /\ up' \in {up, FALSE}
    /\ UNCHANGED <<cnt, last>>

SpecNext ==
    \/ \E ok \in BOOLEAN : SpecMount(ok)
    \/ \E r \in Requests, ok \in BOOLEAN : SpecRead(r, ok)
    \/ SpecEnd

AbstractSpec == SpecInit /\ [][SpecNext]_specVars
=============================================================================
