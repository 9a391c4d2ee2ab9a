----------------------------- MODULE LvglProofs -----------------------------
(***************************************************************************)
(* Theorems about LVGL.                                                    *)
(*                                                                         *)
(* LvTask: for any number of tasks of any priorities, the list stays       *)
(* sorted whatever the order of creation, equal tasks take turns, the more *)
(* important come first and no task that was due at a call is left out of  *)
(* it.                                                                     *)
(*                                                                         *)
(* LvMem: for every size of the pool and of a header, every set of blocks  *)
(* and every sequence of calls, in every iteration of the loops, the pool  *)
(* stays tiled and the contents of blocks are kept.                        *)
(*                                                                         *)
(* LvRefr: for every screen, display buffer, tree of objects and sequence  *)
(* of setters and refreshes, the buffers suffice and no pixel that waits   *)
(* to be drawn is forgotten.                                               *)
(***************************************************************************)
EXTENDS LvTaskHistory, LvMem, LvRefr, TLAPS, FiniteSetTheorems, SequenceTheorems,
        WellFoundedInduction

(***************************************************************************)
(* Tasks: the list.                                                        *)
(***************************************************************************)
Insert(s, i, x) == SubSeq(s, 1, i - 1) \o <<x>> \o SubSeq(s, i, Len(s))

(* Putting x at position i moves what was at i and behind by one.          *)
LEMMA Inserted ==
    ASSUME NEW S, NEW s \in Seq(S), NEW x \in S, NEW i \in 1 .. Len(s) + 1
    PROVE  /\ Insert(s, i, x) \in Seq(S)
           /\ Len(Insert(s, i, x)) = Len(s) + 1
           /\ \A k \in 1 .. Len(s) + 1 :
                 Insert(s, i, x)[k] = IF k < i THEN s[k] ELSE IF k = i THEN x ELSE s[k - 1]
<1> DEFINE front == SubSeq(s, 1, i - 1)
           back  == SubSeq(s, i, Len(s))
           head  == front \o <<x>>
<1>0. Len(s) \in Nat /\ \A k \in 1 .. Len(s) : s[k] \in S
  OBVIOUS
<1>1. /\ front \in Seq(S) /\ Len(front) = i - 1
      /\ \A k \in 1 .. i - 1 : front[k] = s[k]
  <2>1. /\ i - 1 \in Int /\ 1 \in Int
        /\ \A k \in 1 .. i - 1 : s[k] \in S
    BY <1>0
  <2> HIDE DEF front
  <2>2. /\ front \in Seq(S)
        /\ Len(front) = IF 1 <= i - 1 THEN (i - 1) - 1 + 1 ELSE 0
        /\ \A k \in 1 .. (i - 1) - 1 + 1 : front[k] = s[1 + k - 1]
    BY ONLY <2>1, SubSeqProperties DEF front
  <2> QED  BY <2>2, <1>0
<1>2. /\ back \in Seq(S) /\ Len(back) = Len(s) - i + 1
      /\ \A k \in 1 .. Len(s) - i + 1 : back[k] = s[i + k - 1]
  <2>1. /\ i \in Int /\ Len(s) \in Int
        /\ \A k \in i .. Len(s) : s[k] \in S
    BY <1>0
  <2> HIDE DEF back
  <2>2. /\ back \in Seq(S)
        /\ Len(back) = IF i <= Len(s) THEN Len(s) - i + 1 ELSE 0
        /\ \A k \in 1 .. Len(s) - i + 1 : back[k] = s[i + k - 1]
    BY ONLY <2>1, SubSeqProperties DEF back
  <2> QED  BY <2>2, <1>0
<1> HIDE DEF front, back
<1>3. /\ head \in Seq(S) /\ Len(head) = i
      /\ \A k \in 1 .. i : head[k] = IF k < i THEN s[k] ELSE x
  <2>1. <<x>> \in Seq(S) /\ Len(<<x>>) = 1 /\ <<x>>[1] = x
    OBVIOUS
  <2>2. /\ head \in Seq(S) /\ Len(head) = Len(front) + Len(<<x>>)
        /\ \A k \in 1 .. Len(front) + Len(<<x>>) :
              head[k] = IF k <= Len(front) THEN front[k] ELSE <<x>>[k - Len(front)]
    BY <1>1, <2>1, ConcatProperties
  <2> HIDE DEF head
  <2>3. ASSUME NEW k \in 1 .. i PROVE head[k] = IF k < i THEN s[k] ELSE x
    <3>1. CASE k < i  BY <3>1, <1>1, <2>1, <2>2
    <3>2. CASE k = i
      <4>1. head[k] = <<x>>[1]  BY <3>2, <1>1, <2>1, <2>2
      <4> QED  BY <4>1, <3>2, <2>1
    <3> QED  BY <3>1, <3>2
  <2> QED  BY <2>1, <2>2, <2>3, <1>1
<1> HIDE DEF head
<1>4. /\ head \o back \in Seq(S) /\ Len(head \o back) = Len(head) + Len(back)
      /\ \A k \in 1 .. Len(head) + Len(back) :
            (head \o back)[k] = IF k <= Len(head) THEN head[k] ELSE back[k - Len(head)]
  BY <1>2, <1>3, ConcatProperties
<1>5. ASSUME NEW k \in 1 .. Len(s) + 1
      PROVE  (head \o back)[k] = IF k < i THEN s[k] ELSE IF k = i THEN x ELSE s[k - 1]
  <2>1. CASE k <= i  BY <2>1, <1>0, <1>2, <1>3, <1>4
  <2>2. CASE k > i
    <3>1. k - i \in 1 .. Len(s) - i + 1 /\ i + (k - i) - 1 = k - 1
      BY <2>2, <1>0
    <3>2. back[k - i] = s[k - 1]  BY ONLY <3>1, <1>2
    <3>3. (head \o back)[k] = back[k - i]
      BY <2>2, <1>0, <1>2, <1>3, <1>4
    <3> QED  BY <3>2, <3>3, <2>2
  <2>3. k <= i \/ k > i  BY <1>0
  <2> QED  BY ONLY <2>1, <2>2, <2>3
<1>6. Len(head) + Len(back) = Len(s) + 1  BY <1>0, <1>2, <1>3
<1>7. Insert(s, i, x) = head \o back  BY DEF Insert, head, front, back
<1> QED  BY ONLY <1>4, <1>5, <1>6, <1>7

(* A set of natural numbers that is not empty has a least one.             *)
LEMMA Least ==
    ASSUME NEW T \in SUBSET Nat, T # {}
    PROVE  \E x \in T : \A y \in T : x <= y
<1>1. PICK x \in T : \A y \in T : ~ (<<y, x>> \in OpToRel(<, Nat))
  BY WFMin, NatLessThanWellFounded, Zenon
<1>2. \A i, j \in Nat : i < j => <<i, j>> \in OpToRel(<, Nat)
  BY DEF OpToRel
<1>3. \A y \in T : ~ (y < x)  BY <1>1, <1>2, Zenon
<1> QED  BY <1>3

(* A task goes behind all of higher priority and before all others.        *)
LEMMA InsertPlace ==
    ASSUME SchedulerSound, NEW t \in Tasks
    PROVE  /\ InsertPos(t) \in 1 .. Len(list) + 1
           /\ \A k \in 1 .. Len(list) :
                 IF k < InsertPos(t) THEN Prio[list[k]] > Prio[t]
                                    ELSE Prio[list[k]] <= Prio[t]
<1> USE TasksAssumption DEF SchedulerSound
<1>0. /\ Len(list) \in Nat /\ Prio[t] \in Nat
      /\ \A k \in 1 .. Len(list) : list[k] \in Tasks /\ Prio[list[k]] \in Nat
  BY DEF TypeOK, LV_TASK_PRIO_OFF, LV_TASK_PRIO_HIGHEST
<1>1. CASE NotAbove(t) = {}
  BY <1>0, <1>1 DEF InsertPos, NotAbove
<1>2. CASE NotAbove(t) # {}
  <2>1. \E k \in NotAbove(t) : \A j \in NotAbove(t) : k <= j
    <3>1. NotAbove(t) \in SUBSET Nat  BY <1>0 DEF NotAbove
    <3> QED  BY ONLY <3>1, <1>2, Least
  <2>2. /\ InsertPos(t) \in NotAbove(t)
        /\ \A j \in NotAbove(t) : InsertPos(t) <= j
    BY <2>1, <1>2 DEF InsertPos
  <2> HIDE DEF InsertPos
  <2>3. InsertPos(t) \in 1 .. Len(list) /\ Prio[list[InsertPos(t)]] <= Prio[t]
    BY <2>2 DEF NotAbove
  <2>4. ASSUME NEW k \in 1 .. Len(list), k < InsertPos(t)
        PROVE  Prio[list[k]] > Prio[t]
    BY <2>2, <2>3, <2>4, <1>0 DEF NotAbove
  <2>5. ASSUME NEW k \in 1 .. Len(list), k >= InsertPos(t)
        PROVE  Prio[list[k]] <= Prio[t]
    <3>1. Prio[list[InsertPos(t)]] >= Prio[list[k]]
      BY <2>3, <2>5, <1>0 DEF ListSorted
    <3> QED  BY <3>1, <2>3, <1>0
  <2> QED  BY <2>3, <2>4, <2>5, <1>0
<1> QED  BY <1>1, <1>2

(***************************************************************************)
(* Types and order.                                                        *)
(***************************************************************************)
LEMMA SoundInit == Init => SchedulerSound
<1> SUFFICES ASSUME Init PROVE SchedulerSound
  OBVIOUS
<1>1. mutex \in BOOLEAN /\ (mutex <=> hpc # "out")
  BY Zenon DEF Init
<1>2. ListSorted  BY DEF Init, ListSorted
<1>3. /\ list \in Seq(Tasks) /\ due \subseteq Created /\ Len(list) = 0
      /\ act = 0 /\ interrupter = NoTask /\ hpc = "out"
  BY DEF Init, Created
<1>4. act \in 0 .. (Len(list) + 1)  BY <1>3
<1>5. TypeOK  BY <1>1, <1>3, <1>4, Zenon DEF TypeOK
<1> QED  BY <1>2, <1>5 DEF SchedulerSound

(* What lv_task_create makes of the list.                                  *)
LEMMA Creation ==
    ASSUME SchedulerSound, NEW t \in Tasks, NEW ready \in BOOLEAN,
           lv_task_create(t, ready)
    PROVE  /\ \A k \in 1 .. Len(list) : list[k] # t
           /\ Created' = Created \cup {t}
           /\ list' \in Seq(Tasks) /\ Len(list') = Len(list) + 1
           /\ \E i \in 1 .. Len(list) + 1 :
                 /\ \A k \in 1 .. Len(list) :
                       IF k < i THEN Prio[list[k]] > Prio[t] ELSE Prio[list[k]] <= Prio[t]
                 /\ \A k \in 1 .. Len(list) + 1 :
                       list'[k] = IF k < i THEN list[k]
                                  ELSE IF k = i THEN t ELSE list[k - 1]
<1> DEFINE n == Len(list)
<1>1. list \in Seq(Tasks) /\ n \in Nat /\ \A k \in 1 .. n : list[k] \in Tasks
  BY DEF SchedulerSound, TypeOK
<1>2. PICK i \in 1 .. n + 1 :
         /\ i = InsertPos(t)
         /\ \A k \in 1 .. n : IF k < i THEN Prio[list[k]] > Prio[t]
                                       ELSE Prio[list[k]] <= Prio[t]
  BY InsertPlace
<1>3. /\ list' \in Seq(Tasks) /\ Len(list') = n + 1
      /\ \A k \in 1 .. n + 1 :
            list'[k] = IF k < i THEN list[k] ELSE IF k = i THEN t ELSE list[k - 1]
  <2>1. list' = Insert(list, i, t)
    BY <1>2 DEF lv_task_create, Insert
  <2>2. list \in Seq(Tasks) /\ t \in Tasks /\ i \in 1 .. Len(list) + 1
    BY <1>1, <1>2
  <2>3. Insert(list, i, t) \in Seq(Tasks)  BY <2>2, Inserted
  <2>4. Len(Insert(list, i, t)) = Len(list) + 1  BY <2>2, Inserted
  <2>5. \A k \in 1 .. Len(list) + 1 :
           Insert(list, i, t)[k] =
              IF k < i THEN list[k] ELSE IF k = i THEN t ELSE list[k - 1]
    BY <2>2, Inserted
  <2> QED  BY ONLY <2>1, <2>3, <2>4, <2>5 DEF n
<1> HIDE DEF n
<1>4. \A k \in 1 .. n : list[k] # t
  BY <1>1 DEF lv_task_create, Created, n
<1>5. Created' = Created \cup {t}
  <2>1. Created' \subseteq Created \cup {t}
    <3>1. SUFFICES ASSUME NEW k \in 1 .. n + 1
                   PROVE  list'[k] \in Created \cup {t}
      BY <1>3 DEF Created
    <3>2. CASE k < i
      <4>1. k \in 1 .. n /\ list'[k] = list[k]  BY <3>2, <1>1, <1>2, <1>3
      <4> QED  BY <4>1 DEF Created, n
    <3>3. CASE k = i
      BY <3>3, <1>3
    <3>4. CASE k > i
      <4>1. k - 1 \in 1 .. n /\ list'[k] = list[k - 1]
        BY <3>4, <1>1, <1>2, <1>3
      <4> QED  BY <4>1 DEF Created, n
    <3> QED  BY <3>2, <3>3, <3>4, <1>1, <1>2
  <2>2. t \in Created'
    <3>1. i \in 1 .. Len(list') /\ list'[i] = t  BY <1>1, <1>2, <1>3
    <3> QED  BY <3>1 DEF Created
  <2>3. ASSUME NEW k \in 1 .. n PROVE list[k] \in Created'
    <3>1. CASE k < i
      <4>1. k \in 1 .. n + 1 /\ list'[k] = list[k]  BY <3>1, <1>1, <1>3
      <4> QED  BY <4>1, <1>3 DEF Created
    <3>2. CASE ~ (k < i)
      <4>1. k + 1 \in 1 .. n + 1 /\ list'[k + 1] = list[k]
        BY <3>2, <1>1, <1>2, <1>3
      <4> QED  BY <4>1, <1>3 DEF Created
    <3> QED  BY <3>1, <3>2
  <2> QED  BY <2>1, <2>2, <2>3 DEF Created, n
<1> QED  BY <1>2, <1>3, <1>4, <1>5 DEF n

LEMMA SoundCreate ==
    ASSUME SchedulerSound, NEW t \in Tasks, NEW ready \in BOOLEAN,
           lv_task_create(t, ready)
    PROVE  SchedulerSound'
<1> DEFINE n == Len(list)
<1>1. list \in Seq(Tasks) /\ n \in Nat /\ \A k \in 1 .. n : list[k] \in Tasks
  BY DEF SchedulerSound, TypeOK
<1>2. PICK i \in 1 .. n + 1 :
         /\ \A k \in 1 .. n : IF k < i THEN Prio[list[k]] > Prio[t]
                                       ELSE Prio[list[k]] <= Prio[t]
         /\ \A k \in 1 .. n + 1 :
               list'[k] = IF k < i THEN list[k] ELSE IF k = i THEN t ELSE list[k - 1]
  BY Creation
<1>3. list' \in Seq(Tasks) /\ Len(list') = n + 1  BY Creation
<1>4. \A k \in 1 .. n : list[k] # t  BY Creation
<1>5. Created' = Created \cup {t}  BY Creation
<1> HIDE DEF n
<1>6. TypeOK'
  BY <1>1, <1>3, <1>5 DEF SchedulerSound, TypeOK, lv_task_create, handlerVars, n
<1>7. ListSorted'
  <2> SUFFICES ASSUME NEW j \in 1 .. n + 1, NEW k \in 1 .. n + 1, j < k
               PROVE  list'[j] # list'[k] /\ Prio[list'[j]] >= Prio[list'[k]]
    BY <1>3 DEF ListSorted
  <2>0. /\ \A x \in Tasks : Prio[x] \in Nat
        /\ \A x, y \in 1 .. n :
              x < y => list[x] # list[y] /\ Prio[list[x]] >= Prio[list[y]]
    BY TasksAssumption
       DEF LV_TASK_PRIO_OFF, LV_TASK_PRIO_HIGHEST, SchedulerSound, ListSorted, n
  <2>1. CASE k < i
    <3>1. /\ k \in 1 .. n /\ j \in 1 .. n
          /\ list'[k] = list[k] /\ list'[j] = list[j]
      BY <2>1, <1>1, <1>2, <1>3
    <3> QED  BY <3>1, <2>0
  <2>2. CASE k = i
    <3>1. /\ j \in 1 .. n /\ j < i /\ list'[k] = t /\ list'[j] = list[j]
      BY <2>2, <1>1, <1>2, <1>3
    <3> QED  BY <3>1, <2>0, <1>1, <1>2, <1>4
  <2>3. CASE k > i /\ j < i
    <3>1. /\ k - 1 \in 1 .. n /\ j \in 1 .. n
          /\ list'[k] = list[k - 1] /\ list'[j] = list[j]
      BY <2>3, <1>1, <1>2, <1>3
    <3>2. k - 1 \in 1 .. n /\ j \in 1 .. n /\ j < k - 1
      BY <2>3, <1>1, <1>2
    <3> QED  BY <3>1, <3>2, <2>0
  <2>4. CASE k > i /\ j = i
    <3>1. /\ k - 1 \in 1 .. n /\ ~ (k - 1 < i)
          /\ list'[k] = list[k - 1] /\ list'[j] = t
      BY <2>4, <1>1, <1>2, <1>3
    <3> QED  BY <3>1, <2>0, <1>1, <1>2, <1>4
  <2>5. CASE k > i /\ j > i
    <3>1. /\ k - 1 \in 1 .. n /\ j - 1 \in 1 .. n /\ j - 1 < k - 1
          /\ list'[k] = list[k - 1] /\ list'[j] = list[j - 1]
      BY <2>5, <1>1, <1>2, <1>3
    <3> QED  BY <3>1, <2>0
  <2> QED  BY <2>1, <2>2, <2>3, <2>4, <2>5, <1>2, <1>1
<1> QED  BY <1>6, <1>7 DEF SchedulerSound

(* Everything but a creation leaves the list alone.                        *)
LEMMA ListKept ==
    ASSUME UNCHANGED list, ListSorted
    PROVE  ListSorted' /\ Created' = Created
BY DEF ListSorted, Created

LEMMA SoundStep ==
    ASSUME SchedulerSound, [Next]_lvTaskVars
    PROVE  SchedulerSound'
<1> USE TasksAssumption
<1>0. TypeOK /\ ListSorted /\ Len(list) \in Nat
  BY DEF SchedulerSound, TypeOK
<1>1. ASSUME NEW t \in Tasks, NEW ready \in BOOLEAN, lv_task_create(t, ready)
      PROVE  SchedulerSound'
  BY <1>1, SoundCreate
<1>2. ASSUME NEW t \in Tasks, Elapse(t) PROVE SchedulerSound'
  BY <1>2, <1>0, ListKept DEF Elapse, SchedulerSound, TypeOK, handlerVars
<1>3. CASE MainLoop
  BY <1>3, <1>0, ListKept
     DEF MainLoop, lv_task_handler, BeginScan, SchedulerSound, TypeOK
<1>4. CASE PassInterrupter
  BY <1>4, <1>0, ListKept DEF PassInterrupter, AtEnd, SchedulerSound, TypeOK
<1>5. CASE Pass
  BY <1>5, <1>0, ListKept DEF Pass, AtEnd, SchedulerSound, TypeOK
<1>6. ASSUME NEW t \in Tasks, Run(t) PROVE SchedulerSound'
  BY <1>6, <1>0, ListKept DEF Run, AtEnd, SchedulerSound, TypeOK
<1>7. CASE HandlerReturns
  <2>1. mutex' \in BOOLEAN /\ (mutex' <=> hpc' # "out")
    BY <1>7, Zenon DEF HandlerReturns
  <2>2. /\ list' \in Seq(Tasks) /\ due' \subseteq Created' /\ ListSorted'
        /\ act' = 0 /\ interrupter' = NoTask /\ hpc' = "out"
        /\ act' \in 0 .. (Len(list') + 1)
    BY <1>7, <1>0, ListKept DEF HandlerReturns, TypeOK
  <2>3. TypeOK'  BY <2>1, <2>2, Zenon DEF TypeOK
  <2> QED  BY <2>2, <2>3 DEF SchedulerSound
<1>8. CASE TaskReturns
  BY <1>8, <1>0, ListKept
     DEF TaskReturns, AfterTask, BeginScan, SchedulerSound, TypeOK
<1>9. CASE UNCHANGED lvTaskVars
  BY <1>9, <1>0, ListKept DEF lvTaskVars, handlerVars, SchedulerSound, TypeOK
<1> QED
  BY <1>1, <1>2, <1>3, <1>4, <1>5, <1>6, <1>7, <1>8, <1>9 DEF Next, Scan

(* The list the handler walks is sorted, each task in it once, and it is   *)
(* where its fields say (lv_task_create, lv_task_handler).                 *)
THEOREM SchedulerIsSound == Spec => []SchedulerSound
<1>1. Init => SchedulerSound  BY SoundInit
<1>2. SchedulerSound /\ [Next]_lvTaskVars => SchedulerSound'  BY SoundStep
<1> QED  BY <1>1, <1>2, PTL DEF Spec

(***************************************************************************)
(* The order of the tasks.  ScanFront is the first position of the list that   *)
(* the scan has still to look at; what the invariant says of a task        *)
(* depends on its being before or behind it, and before or behind the      *)
(* interrupter.                                                            *)
(***************************************************************************)
ScanFront == IF hpc = "exec" THEN act + 1 ELSE act
Positions == 1 .. Len(list)

(* The interrupter has not been passed yet. *)
InterrupterAhead ==
    hpc # "out" /\ interrupter # NoTask =>
        /\ Prio[interrupter] # LV_TASK_PRIO_HIGHEST
        /\ \E p \in Positions : p >= ScanFront /\ list[p] = interrupter

(* Those that wait are due, are to come, and are no equals of it.          *)
WaitingAhead ==
    /\ waiting \subseteq due
    /\ hpc # "out" => \A k \in Positions : list[k] \in waiting =>
          /\ k >= ScanFront
          /\ interrupter # NoTask => Prio[list[k]] # Prio[interrupter]

(* The tasks of the block are passed, or equals of the interrupter that    *)
(* come no later.                                                          *)
BlockBehind ==
    /\ hpc = "scan" => \A k \in Positions : list[k] \in block =>
          \/ k < act
          \/ /\ interrupter # NoTask /\ Prio[list[k]] = Prio[interrupter]
             /\ \A p \in Positions : list[p] = interrupter => k <= p
    /\ hpc = "exec" => \A k \in Positions : list[k] \in block =>
          k <= act /\ Prio[list[k]] = Prio[list[act]]

(* Before the front, and up to the interrupter, whoever was due at the     *)
(* call has run.                                                           *)
Passed(k) ==
    \/ k < ScanFront
    \/ interrupter # NoTask /\ \E p \in Positions : list[p] = interrupter /\ k <= p
NoneSkipped ==
    /\ dueAtCall \subseteq Created
    /\ hpc # "out" =>
          /\ dueAtCall \ ran \subseteq due
          /\ \A k \in Positions :
                Passed(k) /\ list[k] \in dueAtCall => list[k] \in ran

HistoryInv == InterrupterAhead /\ WaitingAhead /\ BlockBehind /\ NoneSkipped

LEMMA ListFacts ==
    ASSUME SchedulerSound
    PROVE  /\ Len(list) \in Nat /\ act \in Nat
           /\ \A t \in Tasks : Prio[t] \in 0 .. 5 /\ t # NoTask
           /\ \A k \in Positions : list[k] \in Tasks /\ list[k] \in Created
           /\ \A j, k \in Positions : list[j] = list[k] => j = k
           /\ \A j, k \in Positions : j <= k => Prio[list[j]] >= Prio[list[k]]
<1>1. /\ Len(list) \in Nat /\ act \in Nat
      /\ \A t \in Tasks : Prio[t] \in 0 .. 5 /\ t # NoTask
      /\ \A k \in Positions : list[k] \in Tasks /\ list[k] \in Created
  BY TasksAssumption DEF SchedulerSound, TypeOK, Positions, Created,
     LV_TASK_PRIO_OFF, LV_TASK_PRIO_HIGHEST
<1>2. \A j, k \in Positions : list[j] = list[k] => j = k
  BY <1>1 DEF SchedulerSound, ListSorted, Positions
<1>3. \A j, k \in Positions : j <= k => Prio[list[j]] >= Prio[list[k]]
  BY <1>1 DEF SchedulerSound, ListSorted, Positions
<1> QED  BY <1>1, <1>2, <1>3

LEMMA HistoryInit == HInit => HistoryInv
BY DEF HInit, Init, HistoryInv, InterrupterAhead, WaitingAhead, BlockBehind,
       NoneSkipped, Created

LEMMA OutsideInv ==
    ASSUME SchedulerSound, HistoryInv, Outside, UNCHANGED taskHistory
    PROVE  HistoryInv'
<1>1. ASSUME NEW t \in Tasks, NEW ready \in BOOLEAN, lv_task_create(t, ready)
      PROVE  HistoryInv'
  <2>1. Created' = Created \cup {t}  BY <1>1, Creation
  <2> QED
    BY <1>1, <2>1 DEF lv_task_create, handlerVars, taskHistory, HistoryInv,
       InterrupterAhead, WaitingAhead, BlockBehind, NoneSkipped
<1>2. ASSUME NEW t \in Tasks, Elapse(t) PROVE HistoryInv'
  BY <1>2 DEF Elapse, handlerVars, taskHistory, HistoryInv, InterrupterAhead,
     WaitingAhead, BlockBehind, NoneSkipped, Created, Positions, ScanFront, Passed
<1> QED  BY <1>1, <1>2 DEF Outside

LEMMA CallInv ==
    ASSUME SchedulerSound, HistoryInv, HCall
    PROVE  HistoryInv'
<1> USE ListFacts
<1>1. /\ hpc = "out" /\ ~mutex /\ due \subseteq Created
  BY DEF HCall, MainLoop, SchedulerSound, TypeOK
<1>2. /\ hpc' = "scan" /\ act' = 1 /\ interrupter' = NoTask
      /\ UNCHANGED <<list, due>>
      /\ ran' = {} /\ block' = {} /\ dueAtCall' = due /\ waiting' = due
  BY <1>1 DEF HCall, MainLoop, lv_task_handler, BeginScan
<1>3. InterrupterAhead'  BY <1>2 DEF InterrupterAhead
<1>4. WaitingAhead'  BY <1>2 DEF WaitingAhead, Positions, ScanFront
<1>5. BlockBehind'  BY <1>2 DEF BlockBehind
<1>6. NoneSkipped'  BY <1>1, <1>2 DEF NoneSkipped, Created, Positions, Passed, ScanFront
<1> QED  BY <1>3, <1>4, <1>5, <1>6 DEF HistoryInv

(* A step past the front: nothing of the order is lost.                    *)
LEMMA UnseenInv ==
    ASSUME SchedulerSound, HistoryInv, Unseen, UNCHANGED taskHistory
    PROVE  HistoryInv'
<1> USE ListFacts
<1>1. CASE PassInterrupter
  <2>1. /\ hpc = "scan" /\ hpc' = "scan" /\ act \in Positions
        /\ list[act] = interrupter /\ interrupter # NoTask
        /\ interrupter' = NoTask /\ act' = act + 1 /\ UNCHANGED <<list, due>>
        /\ UNCHANGED <<ran, dueAtCall, waiting, block>>
    BY <1>1 DEF PassInterrupter, AtEnd, taskHistory, Positions, SchedulerSound, TypeOK
  <2>2. InterrupterAhead'  BY <2>1 DEF InterrupterAhead
  <2>3. WaitingAhead'
    BY <2>1 DEF WaitingAhead, HistoryInv, Positions, ScanFront
  <2>4. BlockBehind'
    BY <2>1 DEF BlockBehind, HistoryInv, Positions
  <2>5. NoneSkipped'
    BY <2>1 DEF NoneSkipped, HistoryInv, Positions, ScanFront, Passed, Created
  <2> QED  BY <2>2, <2>3, <2>4, <2>5 DEF HistoryInv
<1>2. CASE Pass
  <2>1. /\ hpc = "scan" /\ hpc' = "scan" /\ act \in Positions
        /\ list[act] # interrupter /\ (MayRun(list[act]) => list[act] \notin due)
        /\ act' = act + 1 /\ UNCHANGED <<list, due, interrupter>>
        /\ UNCHANGED <<ran, dueAtCall, waiting, block>>
    BY <1>2 DEF Pass, AtEnd, taskHistory, Positions, SchedulerSound, TypeOK
  <2>2. InterrupterAhead'
    BY <2>1 DEF InterrupterAhead, HistoryInv, Positions, ScanFront
  <2>3. WaitingAhead'
    <3>1. list[act] \notin waiting
      BY <2>1 DEF WaitingAhead, InterrupterAhead, HistoryInv, MayRun, Positions, ScanFront
    <3> QED  BY <2>1, <3>1 DEF WaitingAhead, HistoryInv, Positions, ScanFront
  <2>4. BlockBehind'
    BY <2>1 DEF BlockBehind, HistoryInv, Positions
  <2>5. NoneSkipped'
    <3>1. list[act] \in dueAtCall => list[act] \in ran
      BY <2>1 DEF NoneSkipped, InterrupterAhead, HistoryInv, MayRun, Positions,
         ScanFront, Passed
    <3> QED
      BY <2>1, <3>1 DEF NoneSkipped, HistoryInv, Positions, ScanFront, Passed, Created
  <2> QED  BY <2>2, <2>3, <2>4, <2>5 DEF HistoryInv
<1>3. CASE HandlerReturns
  BY <1>3 DEF HandlerReturns, taskHistory, HistoryInv, InterrupterAhead,
     WaitingAhead, BlockBehind, NoneSkipped, Created
<1> QED  BY <1>1, <1>2, <1>3 DEF Unseen

(* What the start of a task finds.                                         *)
LEMMA RunFacts ==
    ASSUME SchedulerSound, HistoryInv, NEW t \in Tasks, Run(t)
    PROVE  /\ hpc = "scan" /\ act \in Positions /\ t = list[act] /\ t # interrupter
           /\ t \in due /\ MayRun(t)
           /\ \A k \in Positions : list[k] \in block /\ Prio[list[k]] = Prio[t] => k < act
<1> USE ListFacts
<1>1. /\ hpc = "scan" /\ act \in Positions /\ t = list[act] /\ t # interrupter
      /\ t \in due /\ MayRun(t)
  BY DEF Run, AtEnd, Positions, SchedulerSound, TypeOK
<1>2. interrupter # NoTask => Prio[t] # Prio[interrupter]
  BY <1>1 DEF MayRun, InterrupterAhead, HistoryInv, Positions
<1> QED  BY <1>1, <1>2 DEF BlockBehind, HistoryInv

LEMMA RunInv ==
    ASSUME SchedulerSound, HistoryInv, NEW t \in Tasks, HRun(t)
    PROVE  HistoryInv'
<1> USE ListFacts
<1>1. /\ hpc = "scan" /\ act \in Positions /\ t = list[act] /\ t # interrupter
      /\ \A k \in Positions : list[k] \in block /\ Prio[list[k]] = Prio[t] => k < act
  BY RunFacts DEF HRun
<1>2. /\ hpc' = "exec" /\ due' = due \ {t} /\ UNCHANGED <<list, act, interrupter>>
      /\ ran' = ran \cup {t} /\ waiting' = waiting \ {t} /\ UNCHANGED dueAtCall
      /\ block' = {u \in block : Prio[u] = Prio[t]} \cup {t}
  BY DEF HRun, Run
<1>3. InterrupterAhead'
  BY <1>1, <1>2 DEF InterrupterAhead, HistoryInv, Positions, ScanFront
<1>4. WaitingAhead'
  BY <1>1, <1>2 DEF WaitingAhead, HistoryInv, Positions, ScanFront
<1>5. BlockBehind'
  BY <1>1, <1>2 DEF BlockBehind, Positions
<1>6. NoneSkipped'
  BY <1>1, <1>2 DEF NoneSkipped, HistoryInv, Positions, ScanFront, Passed, Created
<1> QED  BY <1>3, <1>4, <1>5, <1>6 DEF HistoryInv

(* A task of the highest priority leaves the scan where it is; any other   *)
(* becomes the interrupter and the scan begins again in front of it.       *)
LEMMA ReturnsInv ==
    ASSUME SchedulerSound, HistoryInv, HTaskReturns
    PROVE  HistoryInv'
<1> USE ListFacts
<1> DEFINE t == list[act]
<1>1. /\ hpc = "exec" /\ hpc' = "scan" /\ act \in Positions /\ due \subseteq Created
      /\ UNCHANGED <<list, due, ran, dueAtCall, block>>
  BY DEF HTaskReturns, TaskReturns, AfterTask, BeginScan, Positions, SchedulerSound, TypeOK
<1>2. CASE Prio[t] = LV_TASK_PRIO_HIGHEST
  <2>1. act' = act + 1 /\ UNCHANGED <<interrupter, waiting>>
    BY <1>2 DEF HTaskReturns, TaskReturns, AfterTask
  <2>2. InterrupterAhead'
    BY <1>1, <2>1 DEF InterrupterAhead, HistoryInv, Positions, ScanFront
  <2>3. WaitingAhead'
    BY <1>1, <2>1 DEF WaitingAhead, HistoryInv, Positions, ScanFront
  <2>4. BlockBehind'
    BY <1>1, <2>1 DEF BlockBehind, HistoryInv, Positions
  <2>5. NoneSkipped'
    BY <1>1, <2>1 DEF NoneSkipped, HistoryInv, Positions, ScanFront, Passed, Created
  <2> QED  BY <2>2, <2>3, <2>4, <2>5 DEF HistoryInv
<1>3. CASE Prio[t] # LV_TASK_PRIO_HIGHEST
  <2>1. /\ act' = 1 /\ interrupter' = t
        /\ waiting' = {u \in due : Prio[u] # Prio[t]}
    BY <1>3 DEF HTaskReturns, TaskReturns, AfterTask, BeginScan
  <2>2. InterrupterAhead'
    BY <1>1, <1>3, <2>1 DEF InterrupterAhead, Positions, ScanFront
  <2>3. WaitingAhead'
    BY <1>1, <2>1 DEF WaitingAhead, Positions, ScanFront
  <2>4. BlockBehind'
    BY <1>1, <2>1 DEF BlockBehind, HistoryInv, Positions
  <2>5. NoneSkipped'
    BY <1>1, <2>1 DEF NoneSkipped, HistoryInv, Positions, ScanFront, Passed, Created
  <2> QED  BY <2>2, <2>3, <2>4, <2>5 DEF HistoryInv
<1> QED  BY <1>2, <1>3

HInv == SchedulerSound /\ HistoryInv

LEMMA HistoryStep ==
    ASSUME HInv, [HNext]_hVars
    PROVE  HInv'
<1>1. [Next]_lvTaskVars
  BY DEF HNext, HHandler, HCall, HTaskReturns, HRun, Unseen, Outside, Next, Scan, hVars
<1>2. SchedulerSound'  BY <1>1, SoundStep DEF HInv
<1>3. CASE UNCHANGED hVars
  <2>1. /\ UNCHANGED <<list, due, act, interrupter, hpc>>
        /\ UNCHANGED <<ran, dueAtCall, waiting, block>>
    BY <1>3 DEF hVars, lvTaskVars, handlerVars, taskHistory
  <2>2. HistoryInv'
    BY <2>1 DEF HInv, HistoryInv, InterrupterAhead, WaitingAhead, BlockBehind,
       NoneSkipped, Created, Positions, ScanFront, Passed
  <2> QED  BY <1>2, <2>2 DEF HInv
<1>4. CASE HNext
  <2>1. HistoryInv'
    BY <1>4, OutsideInv, CallInv, UnseenInv, RunInv, ReturnsInv
       DEF HNext, HHandler, HInv
  <2> QED  BY <1>2, <2>1 DEF HInv
<1> QED  BY <1>2, <1>3, <1>4 DEF HInv

THEOREM TaskInvariance == HSpec => []HInv
<1>1. HInit => HInv  BY SoundInit, HistoryInit DEF HInit, HInv
<1>2. HInv /\ [HNext]_hVars => HInv'  BY HistoryStep
<1> QED  BY <1>1, <1>2, PTL DEF HSpec

(* A task that starts is not less important than one that was due when the *)
(* scan began and still waits, and has not run since a task of another     *)
(* priority did (lv_task_handler, lv_task.c).                              *)
THEOREM TurnsAreFair == HSpec => TurnsFair
<1> USE ListFacts
<1>1. HInv /\ [HNext]_hVars =>
         [\A t \in Tasks : Run(t) => \A u \in waiting : Prio[u] <= Prio[t]]_hVars
  <2> SUFFICES ASSUME HInv, NEW t \in Tasks, Run(t), NEW u \in waiting
               PROVE  Prio[u] <= Prio[t]
    OBVIOUS
  <2>1. /\ hpc = "scan" /\ act \in Positions /\ t = list[act]
    BY RunFacts DEF HInv
  <2>2. PICK k \in Positions : u = list[k]
    BY DEF HInv, HistoryInv, WaitingAhead, SchedulerSound, TypeOK, Created, Positions
  <2>3. k >= act
    BY <2>1, <2>2 DEF HInv, HistoryInv, WaitingAhead, ScanFront
  <2> QED  BY <2>1, <2>2, <2>3 DEF HInv, Positions
<1>2. HInv /\ [HNext]_hVars =>
         [\A t \in Tasks : Run(t) => t \notin block]_hVars
  <2> SUFFICES ASSUME HInv, NEW t \in Tasks, Run(t) PROVE t \notin block
    OBVIOUS
  <2> QED  BY RunFacts DEF HInv, Positions
<1> QED  BY <1>1, <1>2, TaskInvariance, PTL DEF HSpec, TurnsFair, HigherFirst, NoRerun

(* When the handler returns, every task due at the call has run, unless it *)
(* is turned off (lv_task_handler).                                        *)
THEOREM NoneIsForgotten == HSpec => NoneForgotten
<1> USE ListFacts
<1>1. HInv /\ [HNext]_hVars =>
         [HandlerReturns => \A t \in dueAtCall :
             t \in ran \/ Prio[t] = LV_TASK_PRIO_OFF]_hVars
  <2> SUFFICES ASSUME HInv, HandlerReturns, NEW t \in dueAtCall
               PROVE  t \in ran \/ Prio[t] = LV_TASK_PRIO_OFF
    OBVIOUS
  <2>1. PICK k \in Positions : t = list[k]
    BY DEF HInv, HistoryInv, NoneSkipped, Created, Positions
  <2>2. CASE k < act
    BY <2>1, <2>2 DEF HInv, HistoryInv, NoneSkipped, Passed, ScanFront, HandlerReturns
  <2>3. CASE ~ (k < act)
    <3>1. act \in Positions /\ Prio[list[act]] = LV_TASK_PRIO_OFF
      BY <2>3 DEF HInv, HandlerReturns, AtEnd, Positions, SchedulerSound, TypeOK
    <3>2. Prio[list[act]] >= Prio[list[k]] /\ Prio[list[k]] \in 0 .. 5
      BY <2>3, <3>1 DEF HInv, Positions
    <3> QED  BY <2>1, <3>1, <3>2 DEF LV_TASK_PRIO_OFF
  <2> QED  BY <2>2, <2>3
<1> QED  BY <1>1, TaskInvariance, PTL DEF HSpec, NoneForgotten

(***************************************************************************)
(* LvMem                                                                   *)
(***************************************************************************)
(* Who owns the entries E: every used entry with data has a holder, and    *)
(* every block one entry, not shared with another.                         *)
Owned(E) ==
    /\ \A x \in E : mem[x].used /\ mem[x].d_size > 0 =>
          \E b \in DOMAIN held : IsEntryOf(x, b)
    /\ \A b \in DOMAIN held :
          IF held[b].addr = ZERO THEN Rounded(held[b].bytes) = 0
          ELSE \E x \in E : IsEntryOf(x, b)
    /\ \A b, c \in DOMAIN held :
          held[b].addr = held[c].addr /\ held[b].addr # ZERO => b = c

(* Where the loops stand: on an entry, and joining only into a free one    *)
(* that ends where the next begins.                                        *)
Loops(E) ==
    /\ pc = "idle" => blk = NULL
    /\ pc = "alloc" =>
          /\ e \in E /\ blk \in Blocks
          /\ blk \in DOMAIN held => Rounded(bytes) > OldSize(blk)
    /\ pc = "scan" => e \in E \cup {NULL}
    /\ pc \in {"free", "join"} =>
          /\ e \in E /\ ~mem[e].used
          /\ e_next = ent_get_next(mem, e)
    /\ pc = "free" /\ blk # NULL =>
          /\ blk \in DOMAIN held
          /\ held[blk].addr # ZERO
          /\ Rounded(bytes) <= OldSize(blk)

Sound(E) == Tiles(mem, E) /\ Owned(E) /\ Loops(E)

IInv == MemTypeOK /\ ContentsKept /\ \E E \in SUBSET Units : Sound(E)

-----------------------------------------------------------------------------
(* Rounding.                                                               *)
LEMMA RoundedNat ==
    ASSUME NEW n \in Nat
    PROVE  Rounded(n) \in Nat
  <1> DEFINE d == HDR
  <1>1. d \in Nat \ {0} /\ n + d - 1 \in Nat
    BY LvMemAssumption
  <1>2. (n + d - 1) \div d \in Nat
    <2> HIDE DEF d
    <2> QED BY <1>1
  <1> QED BY <1>2 DEF Rounded

LEMMA RoundedNothing == Rounded(0) = 0
  <1> DEFINE d == HDR
  <1>1. d \in Nat \ {0}
    BY LvMemAssumption
  <1>2. (0 + d - 1) \div d = 0
    <2> HIDE DEF d
    <2>1. (0 + d - 1) = d - 1 /\ d - 1 \in 0 .. d - 1
      BY <1>1
    <2> QED BY <1>1, <2>1
  <1> QED BY <1>2 DEF Rounded

(***************************************************************************)
(* Tilings                                                                 *)
(***************************************************************************)
(* Entries are apart: none begins in the data of another. *)
LEMMA Apart ==
    ASSUME NEW m, NEW E \in SUBSET Units, Tiles(m, E), NEW x \in E
    PROVE  /\ m[x].d_size \in Nat /\ m[x].used \in BOOLEAN
           /\ x \in Nat /\ x + 1 < UNITS /\ End(m, x) <= UNITS
           /\ End(m, x) \in Nat
           /\ \A y \in E : y # x =>
                 \A u \in x .. End(m, x) - 1 : u \notin y .. End(m, y) - 1
  <1>1. \A y \in E : m[y].d_size \in Nat /\ m[y].used \in BOOLEAN /\ y \in Nat
    BY DEF Tiles, Headers, Units
  <1>2. \A y \in E : End(m, y) \in Nat
    BY <1>1 DEF End
  <1>3. End(m, x) <= UNITS
    BY <1>2, LvMemAssumption DEF Tiles, ent_get_next, NULL, Units
  <1>4. ASSUME NEW y \in E, y # x, NEW u \in x .. End(m, x) - 1
        PROVE  u \notin y .. End(m, y) - 1
    <2>1. End(m, x) <= y \/ End(m, y) <= x
      BY <1>1, <1>4 DEF Tiles
    <2> QED BY <1>1, <1>2, <1>4, <2>1
  <1> QED BY <1>1, <1>2, <1>3, <1>4 DEF Tiles

(* A memory with headers of the same sizes is tiled alike. *)
LEMMA SameSizes ==
    ASSUME NEW m, NEW n, NEW E \in SUBSET Units, Tiles(m, E),
           \A x \in E : n[x] \in Headers /\ n[x].d_size = m[x].d_size
    PROVE  Tiles(n, E)
  <1>1. \A x \in E : End(n, x) = End(m, x) /\ ent_get_next(n, x) = ent_get_next(m, x)
    BY DEF End, ent_get_next
  <1> QED BY <1>1 DEF Tiles

(* What ent_trunc leaves of entry x and of the rest. *)
LEMMA Cut ==
    ASSUME NEW m \in [Units -> Contents], NEW E \in SUBSET Units, Tiles(m, E),
           NEW x \in E, NEW size \in Nat, size <= m[x].d_size
    PROVE  LET t == ent_trunc(m, x, size)
           IN  /\ t \in [Units -> Contents]
               /\ t[x] \in Headers /\ t[x].used = m[x].used
               /\ size <= t[x].d_size /\ t[x].d_size <= m[x].d_size
               /\ \A u \in Units :
                     u < x \/ u \in x + 1 .. x + size \/ u >= End(m, x) => t[u] = m[u]
               /\ \E F \in SUBSET Units :
                     /\ E \subseteq F /\ Tiles(t, F)
                     /\ \A y \in F \ E : ~t[y].used
  <1> DEFINE t == ent_trunc(m, x, size)
             d == m[x].d_size
             new == x + 1 + size
  <1>1. /\ d \in Nat /\ x \in Nat /\ x + 1 < UNITS /\ End(m, x) <= UNITS
        /\ End(m, x) = x + 1 + d /\ UNITS \in Nat /\ m[x] \in Headers
    BY Apart, LvMemAssumption DEF End, Tiles
  <1>2. CASE d \in {size, size + 1}
    <2>1. t = m
      BY <1>2 DEF ent_trunc
    <2> QED BY <1>1, <2>1
  <1>3. CASE d \notin {size, size + 1}
    <2> DEFINE rest == Header(FALSE, d - size - 1)
               F == E \cup {new}
    <2>1. /\ d >= size + 2 /\ d - size - 1 \in Nat
          /\ new \in Nat /\ new + 1 < UNITS /\ new \in Units /\ new # x
      BY <1>1, <1>3 DEF Units
    <2>2. t = [m EXCEPT ![x].d_size = size, ![new] = rest]
      BY <1>3 DEF ent_trunc
    <2>3. /\ t[x] = [m[x] EXCEPT !.d_size = size]
          /\ t[new] = rest
          /\ \A u \in Units \ {x, new} : t[u] = m[u]
      BY <2>1, <2>2
    <2>4. rest \in Headers /\ rest.d_size = d - size - 1 /\ ~rest.used
      BY <2>1 DEF Headers, Header
    <2>5. /\ t[x] \in Headers /\ t[x].used = m[x].used /\ t[x].d_size = size
      BY <1>1, <2>3 DEF Headers
    <2>6. t \in [Units -> Contents]
      BY <2>2, <2>4, <2>5, <2>3 DEF Contents
    <2>7. \A u \in Units : u < x \/ u \in x + 1 .. x + size \/ u >= End(m, x) => t[u] = m[u]
      <3> HIDE DEF t
      <3>1. ASSUME NEW u \in Units, u < x \/ u \in x + 1 .. x + size \/ u >= End(m, x)
            PROVE  u \notin {x, new}
        BY <1>1, <2>1, <3>1 DEF Units
      <3> QED BY <2>3, <3>1
    <2>8. new \notin E
      <3>1. new \in x .. End(m, x) - 1
        BY <1>1, <2>1
      <3>2. SUFFICES ASSUME new \in E PROVE FALSE
        OBVIOUS
      <3>3. End(m, new) \in Nat /\ new \in new .. End(m, new) - 1
        BY <2>1, <3>2, Apart DEF End
      <3> QED BY <2>1, <3>1, <3>2, <3>3, Apart
    <2>9. /\ End(t, x) = new /\ End(t, new) = End(m, x)
          /\ \A y \in E \ {x} : t[y] = m[y] /\ End(t, y) = End(m, y)
      <3>1. End(t, x) = new
        BY <2>5 DEF End
      <3>2. End(t, new) = End(m, x)
        <4>1. t[new].d_size = d - size - 1
          BY <2>3, <2>4
        <4> HIDE DEF t
        <4>2. End(t, new) = new + 1 + (d - size - 1)
          BY <4>1 DEF End
        <4> HIDE DEF d
        <4> QED BY <1>1, <2>1, <4>2 DEF new
      <3>3. \A y \in E \ {x} : t[y] = m[y]
        BY <2>3, <2>8
      <3> QED BY <3>1, <3>2, <3>3 DEF End
    <2>10. Tiles(t, F)
      <3> HIDE DEF t, new, rest, d
      <3>1. 0 \in F
        BY DEF Tiles
      <3>2. ASSUME NEW y \in F
            PROVE  /\ t[y] \in Headers /\ y + 1 < UNITS
                   /\ ent_get_next(t, y) \in F \/ End(t, y) = UNITS
        <4>1. CASE y = x
          <5>1. ent_get_next(t, y) = new
            BY <1>1, <2>1, <2>9, <4>1 DEF ent_get_next
          <5> QED BY <1>1, <2>5, <4>1, <5>1
        <4>2. CASE y = new
          <5>1. ent_get_next(t, y) = ent_get_next(m, x)
            BY <2>9, <4>2 DEF ent_get_next
          <5> QED BY <2>1, <2>3, <2>4, <2>9, <4>2, <5>1 DEF Tiles
        <4>3. CASE y \in E \ {x}
          <5>1. ent_get_next(t, y) = ent_get_next(m, y)
            BY <2>9, <4>3 DEF ent_get_next
          <5> QED BY <2>9, <4>3, <5>1 DEF Tiles
        <4> QED BY <4>1, <4>2, <4>3
      <3>3. ASSUME NEW y \in F, NEW z \in F, y < z
            PROVE  End(t, y) <= z
        <4>1. \A w \in E : /\ w \in Nat
                           /\ End(m, w) \in Nat
                           /\ w < x => End(m, w) <= x
                           /\ x < w => End(m, x) <= w
          BY Apart DEF Tiles
        <4>2. CASE y = x
          BY <1>1, <2>1, <2>9, <3>3, <4>1, <4>2 DEF new
        <4>3. CASE y = new
          BY <1>1, <2>1, <2>9, <3>3, <4>1, <4>3 DEF new
        <4>4. CASE y \in E \ {x} /\ z = new
          BY <1>1, <2>1, <2>9, <3>3, <4>1, <4>4 DEF new
        <4>5. CASE y \in E \ {x} /\ z \in E
          BY <2>9, <3>3, <4>5 DEF Tiles
        <4> QED BY <4>2, <4>3, <4>4, <4>5
      <3> QED BY <3>1, <3>2, <3>3 DEF Tiles
    <2>11. \A y \in F \ E : ~t[y].used
      BY <2>3, <2>4
    <2>12. F \in SUBSET Units /\ E \subseteq F
      BY <2>1
    <2> HIDE DEF t, F
    <2> QED BY <1>1, <2>5, <2>6, <2>7, <2>10, <2>11, <2>12 DEF t
  <1> QED BY <1>2, <1>3

(* Joining an entry with the next. *)
LEMMA JoinedEntries ==
    ASSUME NEW m, NEW E \in SUBSET Units, Tiles(m, E), NEW x \in E,
           NEW n, n = ent_get_next(m, x), n # NULL,
           NEW t, t[x] \in Headers, t[x].used = m[x].used,
           t[x].d_size = m[x].d_size + m[n].d_size + 1,
           \A y \in E \ {x} : t[y] = m[y]
    PROVE  /\ Tiles(t, E \ {n}) /\ n \in E /\ x < n
           /\ ent_get_next(t, x) = ent_get_next(m, n)
  <1>1. n \in E /\ n = End(m, x) /\ n = x + 1 + m[x].d_size
    <2>1. UNITS \in Nat
      BY LvMemAssumption
    <2> QED BY <2>1, Apart DEF Tiles, ent_get_next, End
  <1>2. /\ m[x].d_size \in Nat /\ x \in Nat /\ m[x] \in Headers
        /\ m[n].d_size \in Nat /\ n \in Nat
    BY <1>1, Apart DEF Tiles
  <1>3. x < n
    BY <1>1, <1>2
  <1>4. /\ t[x] \in Headers /\ t[x].used = m[x].used
        /\ t[x].d_size = m[x].d_size + m[n].d_size + 1
    OBVIOUS
  <1>5. End(t, x) = End(m, n) /\ ent_get_next(t, x) = ent_get_next(m, n)
    <2>1. End(t, x) = End(m, n)
      BY <1>1, <1>2, <1>4 DEF End
    <2> QED BY <2>1 DEF ent_get_next
  <1>6. \A y \in E \ {x} : End(t, y) = End(m, y) /\ ent_get_next(t, y) = ent_get_next(m, y)
    BY DEF End, ent_get_next
  <1>7. \A y \in E : y \in Nat /\ End(m, y) \in Nat /\ y < End(m, y)
    BY Apart DEF End
  <1>8. 0 \in E \ {n}
    BY <1>2, <1>3 DEF Tiles
  <1>9. \A y, z \in E : y < z => End(m, y) <= z
    BY DEF Tiles
  (* Only x leads to n. *)
  <1>10. ASSUME NEW y \in E, End(m, y) = n PROVE y = x
    <2>1. y < n
      BY <1>7, <1>10
    <2>2. ~(y < x) /\ ~(x < y)
      <3>1. ~(y < x)
        <4> SUFFICES ASSUME y < x PROVE FALSE
          OBVIOUS
        <4>1. End(m, y) <= x
          BY <1>9
        <4> QED BY <1>2, <1>3, <1>10, <4>1
      <3>2. ~(x < y)
        <4> SUFFICES ASSUME x < y PROVE FALSE
          OBVIOUS
        <4>1. n <= y
          BY <1>1, <1>9
        <4> QED BY <1>2, <1>7, <2>1, <4>1
      <3> QED BY <3>1, <3>2
    <2> QED BY <1>2, <1>7, <2>2
  <1>11. ASSUME NEW y \in E \ {n}
         PROVE  /\ t[y] \in Headers /\ y + 1 < UNITS
                /\ ent_get_next(t, y) \in E \ {n} \/ End(t, y) = UNITS
    <2>1. CASE y = x
      <3>1. ent_get_next(m, n) \in E \/ End(m, n) = UNITS
        BY <1>1 DEF Tiles
      <3>2. ent_get_next(m, n) # n
        <4>1. n < End(m, n) /\ n # UNITS
          BY <1>1, <1>7, LvMemAssumption DEF NULL
        <4> QED BY <1>2, <4>1 DEF ent_get_next, NULL
      <3> QED BY <1>4, <1>5, <2>1, <3>1, <3>2 DEF Tiles
    <2>2. CASE y # x
      <3>1. ent_get_next(m, y) # n
        BY <1>1, <1>10, <2>2 DEF ent_get_next
      <3> QED BY <1>6, <2>2, <3>1 DEF Tiles
    <2> QED BY <2>1, <2>2
  <1>12. ASSUME NEW y \in E \ {n}, NEW z \in E \ {n}, y < z
         PROVE  End(t, y) <= z
    <2>1. CASE y = x
      <3>1. n <= z
        BY <1>1, <1>9, <1>12, <2>1
      <3>2. n < z
        BY <1>2, <1>7, <3>1
      <3> QED BY <1>1, <1>5, <1>9, <2>1, <3>2
    <2>2. CASE y # x
      BY <1>6, <1>9, <1>12, <2>2
    <2> QED BY <2>1, <2>2
  <1> QED BY <1>1, <1>2, <1>3, <1>4, <1>5, <1>8, <1>11, <1>12 DEF Tiles

(***************************************************************************)
(* Blocks                                                                  *)
(***************************************************************************)
Holders(b) == b \in DOMAIN held /\ held[b].addr # ZERO

(* Where a block lies: in the data of one entry, and on no header. *)
LEMMA BlockApart ==
    ASSUME MemTypeOK, NEW E \in SUBSET Units, Tiles(mem, E), Owned(E),
           NEW b, Holders(b)
    PROVE  LET x == held[b].addr - 1
               size == Rounded(held[b].bytes)
           IN  /\ x \in E /\ IsEntryOf(x, b) /\ held[b].addr = x + 1
               /\ size \in Nat /\ b \in Blocks
               /\ OldSize(b) = mem[x].d_size
               /\ \A i \in 0 .. size - 1 :
                     /\ x + 1 + i \in Units \ E
                     /\ \A y \in E \ {x} : x + 1 + i \notin y .. End(mem, y) - 1
  <1> DEFINE x == held[b].addr - 1
             size == Rounded(held[b].bytes)
  <1>1. PICK z \in E : IsEntryOf(z, b)
    BY DEF Owned, Holders
  <1>2. /\ z \in Nat /\ z + 1 < UNITS /\ mem[z].d_size \in Nat
        /\ End(mem, z) <= UNITS /\ End(mem, z) = z + 1 + mem[z].d_size
        /\ \A y \in E : y # z =>
              \A u \in z .. End(mem, z) - 1 : u \notin y .. End(mem, y) - 1
    BY Apart DEF End
  <1>3. x = z /\ held[b].addr = x + 1
    BY <1>1, <1>2 DEF IsEntryOf
  <1>4. size \in Nat /\ b \in Blocks
    BY RoundedNat DEF MemTypeOK, Holders
  <1>5. OldSize(b) = mem[x].d_size
    BY <1>2, <1>3, LvMemAssumption DEF OldSize, lv_mem_get_size, NULL, ZERO
  <1>6. size <= mem[z].d_size
    BY <1>1 DEF IsEntryOf
  <1>7. ASSUME NEW i \in 0 .. size - 1
        PROVE  /\ z + 1 + i \in Units \ E
               /\ \A y \in E \ {z} : z + 1 + i \notin y .. End(mem, y) - 1
    <2> DEFINE u == z + 1 + i
    <2>1. u \in z .. End(mem, z) - 1 /\ u \in Units /\ u # z
      BY <1>2, <1>4, <1>6, <1>7, LvMemAssumption DEF Units
    <2>2. ASSUME NEW y \in E \ {z} PROVE u \notin y .. End(mem, y) - 1 /\ u # y
      <3>1. u \notin y .. End(mem, y) - 1
        BY <1>2, <2>1
      <3>2. y \in y .. End(mem, y) - 1
        BY Apart DEF End
      <3> QED BY <3>1, <3>2
    <2> QED BY <2>1, <2>2
  <1> HIDE DEF x, size
  <1> QED BY <1>1, <1>3, <1>4, <1>5, <1>7 DEF x, size

(* Block c is the data of entry y of memory m, and its content is there. *)
Keeps(m, y, c) ==
    /\ held[c].addr = y + 1
    /\ m[y].used
    /\ Rounded(held[c].bytes) <= m[y].d_size
    /\ \A i \in 0 .. Rounded(held[c].bytes) - 1 : m[y + 1 + i] = Data(c, i)

(* In memory m with entries F every block but b is as before, and entry x  *)
(* is left to b.                                                           *)
OthersKept(m, F, x, b) ==
    /\ \A y \in F \ {x} : m[y].used /\ m[y].d_size > 0 =>
          \E c \in DOMAIN held \ {b} : Keeps(m, y, c)
    /\ \A c \in DOMAIN held \ {b} :
          IF held[c].addr = ZERO THEN Rounded(held[c].bytes) = 0
          ELSE \E y \in F \ {x} : Keeps(m, y, c)
    /\ \A c, d \in DOMAIN held \ {b} :
          held[c].addr = held[d].addr /\ held[c].addr # ZERO => c = d

(* A memory in which only entry x, which is free or b's, was touched, and  *)
(* b's entry when it is no longer used.                                    *)
LEMMA OthersStay ==
    ASSUME MemTypeOK, ContentsKept,
           NEW E \in SUBSET Units, Tiles(mem, E), Owned(E),
           NEW x \in E, NEW b,
           mem[x].used => Holders(b) /\ held[b].addr = x + 1,
           NEW m, NEW F \in SUBSET Units,
           \A y \in F \ E : ~m[y].used,
           Holders(b) => \/ held[b].addr = x + 1
                         \/ ~m[held[b].addr - 1].used
                         \/ m[held[b].addr - 1].d_size = 0,
           E \subseteq F,
           \A y \in E \ {x} : (Holders(b) /\ held[b].addr = y + 1) \/ m[y] = mem[y],
           \A u \in Units \ E : u \notin x .. End(mem, x) - 1 => m[u] = mem[u]
    PROVE  OthersKept(m, F, x, b)
  <1>1. ASSUME NEW c \in DOMAIN held \ {b}, NEW y \in E, y # x, IsEntryOf(y, c)
        PROVE  Keeps(m, y, c)
    <2>1. y \in Nat /\ y + 1 < UNITS
      BY Apart
    <2>2. Holders(c) /\ held[c].addr - 1 = y
      BY <1>1, <2>1, LvMemAssumption DEF Holders, IsEntryOf, ZERO
    <2>3. ~(Holders(b) /\ held[b].addr = y + 1)
      BY <1>1, <2>2 DEF Owned, Holders, IsEntryOf
    <2>4. m[y] = mem[y]
      BY <1>1, <2>3
    <2>5. ASSUME NEW i \in 0 .. Rounded(held[c].bytes) - 1
          PROVE  m[y + 1 + i] = Data(c, i)
      <3>1. y + 1 + i \in Units \ E /\ y + 1 + i \notin x .. End(mem, x) - 1
        BY <1>1, <2>2, BlockApart
      <3>2. mem[y + 1 + i] = Data(c, i)
        BY <1>1, <2>2 DEF ContentsKept, Holders, IsEntryOf
      <3> QED BY <3>1, <3>2
    <2> QED BY <1>1, <2>4, <2>5 DEF Keeps, IsEntryOf
  <1>2. ASSUME NEW y \in F \ {x}, m[y].used, m[y].d_size > 0
        PROVE  \E c \in DOMAIN held \ {b} : Keeps(m, y, c)
    <2>1. y \in E /\ y \in Nat
      BY <1>2, Apart
    <2>2. ~(Holders(b) /\ held[b].addr = y + 1)
      <3> SUFFICES ASSUME Holders(b), held[b].addr = y + 1 PROVE FALSE
        OBVIOUS
      <3>1. held[b].addr - 1 = y /\ x \in Nat
        BY <2>1, Apart
      <3> QED BY <1>2, <2>1, <3>1
    <2>3. m[y] = mem[y]
      BY <1>2, <2>1, <2>2
    <2>4. PICK c \in DOMAIN held : IsEntryOf(y, c)
      BY <1>2, <2>1, <2>3 DEF Owned
    <2>5. c # b
      <3>1. y + 1 # ZERO
        BY <2>1, Apart, LvMemAssumption DEF ZERO
      <3> QED BY <2>2, <2>4, <3>1 DEF Holders, IsEntryOf
    <2> QED BY <1>1, <1>2, <2>1, <2>4, <2>5
  <1>3. ASSUME NEW c \in DOMAIN held \ {b}, held[c].addr # ZERO
        PROVE  \E y \in F \ {x} : Keeps(m, y, c)
    <2>1. PICK y \in E : IsEntryOf(y, c)
      BY <1>3 DEF Owned
    <2>2. y # x
      <3> SUFFICES ASSUME y = x PROVE FALSE
        OBVIOUS
      <3>1. Holders(b) /\ held[b].addr = held[c].addr
        BY <2>1 DEF IsEntryOf
      <3> QED BY <1>3, <3>1 DEF Owned, Holders
    <2> QED BY <1>1, <1>3, <2>1, <2>2
  <1> QED BY <1>2, <1>3 DEF OthersKept, Owned

(* b's caller gets entry x of memory m for n bytes. *)
LEMMA Hands ==
    ASSUME MemTypeOK, NEW m \in [Units -> Contents],
           NEW F \in SUBSET Units, Tiles(m, F), NEW x \in F, NEW b \in Blocks,
           OthersKept(m, F, x, b),
           NEW n \in Nat, m[x].used, Rounded(n) <= m[x].d_size,
           \A i \in 0 .. Rounded(n) - 1 : i < Written(b) => m[x + 1 + i] = Data(b, i),
           mem' = Filled(m, b, x + 1, Written(b), Rounded(n)),
           held' = Holding(b, x + 1, n)
    PROVE  /\ mem' \in [Units -> Contents]
           /\ DOMAIN held' \subseteq Blocks
           /\ held' \in [DOMAIN held' -> [addr : 1 .. UNITS - 1 \cup {ZERO}, bytes : Nat]]
           /\ Tiles(mem, F)' /\ Owned(F)' /\ ContentsKept'
           /\ \A y \in F : mem'[y] = m[y]
  <1> DEFINE size == Rounded(n)
             w == Written(b)
  <1>1. size \in Nat /\ w \in Nat
    BY RoundedNat DEF Written, MemTypeOK
  <1>2. /\ x \in Nat /\ x + 1 < UNITS /\ UNITS \in Nat /\ m[x].d_size \in Nat
        /\ End(m, x) <= UNITS /\ End(m, x) = x + 1 + m[x].d_size
        /\ \A y \in F : y # x =>
              \A u \in x .. End(m, x) - 1 : u \notin y .. End(m, y) - 1
    BY Apart, LvMemAssumption DEF End
  <1>3. \A u \in Units : mem'[u] = IF u \in x + 1 + w .. x + 1 + size - 1
                                   THEN Data(b, u - (x + 1)) ELSE m[u]
    BY DEF Filled
  <1>4. mem' \in [Units -> Contents]
    <2>1. \A u \in Units : u \in x + 1 + w .. x + 1 + size - 1 => u - (x + 1) \in Nat
      BY <1>1, <1>2 DEF Units
    <2>2. \A u \in Units : u \in x + 1 + w .. x + 1 + size - 1 => Data(b, u - (x + 1)) \in Contents
      BY <2>1 DEF Data, Contents
    <2> HIDE DEF size, w
    <2>3. \A u \in Units : mem'[u] \in Contents
      BY <1>3, <2>2
    <2> QED BY <2>3 DEF Filled
  <1>5. ASSUME NEW u \in Units, u \notin x + 1 .. End(m, x) - 1
        PROVE  mem'[u] = m[u]
    <2>1. u \notin x + 1 + w .. x + 1 + size - 1
      <3> HIDE DEF w
      <3> QED BY <1>1, <1>2, <1>5 DEF Units
    <2> QED BY <1>3, <2>1
  <1>6. ASSUME NEW y \in F PROVE mem'[y] = m[y]
    <2>1. y \notin x + 1 .. End(m, x) - 1
      <3>1. y \in Nat /\ y \in y .. End(m, y) - 1
        BY Apart DEF End
      <3>2. CASE y = x
        BY <1>2, <3>2
      <3>3. CASE y # x
        BY <1>2, <3>1, <3>3
      <3> QED BY <3>2, <3>3
    <2> QED BY <1>5, <2>1
  <1>7. Tiles(mem, F)'
    <2>1. \A y \in F : mem'[y] \in Headers /\ mem'[y].d_size = m[y].d_size
      BY <1>6 DEF Tiles
    <2> QED BY <2>1, SameSizes
  <1>8. /\ DOMAIN held' = DOMAIN held \cup {b}
        /\ held'[b].addr = x + 1 /\ held'[b].bytes = n
        /\ \A c \in DOMAIN held \ {b} : held'[c] = held[c]
    BY DEF Holding
  <1>9. held' \in [DOMAIN held' -> [addr : 1 .. UNITS - 1 \cup {ZERO}, bytes : Nat]]
    <2>1. x + 1 \in 1 .. UNITS - 1
      BY <1>2
    <2>2. [addr |-> x + 1, bytes |-> n] \in [addr : 1 .. UNITS - 1 \cup {ZERO}, bytes : Nat]
      BY <2>1
    <2> QED BY <2>2 DEF Holding, MemTypeOK
  <1>10. x + 1 # ZERO
    BY <1>2 DEF ZERO
  (* The other blocks. *)
  <1>11. ASSUME NEW c \in DOMAIN held \ {b}, NEW y \in F \ {x}, Keeps(m, y, c)
         PROVE  /\ IsEntryOf(y, c)'
                /\ \A i \in 0 .. Rounded(held'[c].bytes) - 1 :
                      mem'[held'[c].addr + i] = Data(c, i)
    <2>1. held'[c] = held[c] /\ mem'[y] = m[y]
      BY <1>6, <1>8
    <2>2. IsEntryOf(y, c)'
      BY <1>11, <2>1 DEF IsEntryOf, Keeps
    <2>3. Rounded(held[c].bytes) \in Nat
      BY RoundedNat DEF MemTypeOK
    <2>4. ASSUME NEW i \in 0 .. Rounded(held[c].bytes) - 1
          PROVE  mem'[y + 1 + i] = Data(c, i)
      <3>1. /\ y \in Nat /\ m[y].d_size \in Nat /\ End(m, y) = y + 1 + m[y].d_size
            /\ End(m, y) <= UNITS
            /\ \A u \in y .. End(m, y) - 1 : u \notin x .. End(m, x) - 1
        BY Apart DEF End
      <3>2. Rounded(held[c].bytes) <= m[y].d_size /\ m[y + 1 + i] = Data(c, i)
        BY <1>11 DEF Keeps
      <3>3. y + 1 + i \in y .. End(m, y) - 1 /\ y + 1 + i \in Units
        BY <1>2, <2>3, <3>1, <3>2 DEF Units
      <3>4. y + 1 + i \notin x + 1 .. End(m, x) - 1
        BY <1>2, <3>1, <3>3
      <3> QED BY <1>5, <3>2, <3>3, <3>4
    <2> QED BY <1>11, <2>1, <2>2, <2>4 DEF Keeps
  <1>12. ASSUME NEW i \in 0 .. size - 1 PROVE mem'[x + 1 + i] = Data(b, i)
    <2>1. x + 1 + i \in Units /\ (x + 1 + i) - (x + 1) = i /\ i \in Nat
      BY <1>1, <1>2 DEF Units
    <2>2. CASE i < w
      <3>1. x + 1 + i \notin x + 1 + w .. x + 1 + size - 1
        <4> HIDE DEF w, size
        <4> QED BY <1>1, <1>2, <2>1, <2>2
      <3> QED BY <1>3, <2>1, <2>2, <3>1
    <2>3. CASE ~(i < w)
      <3>1. x + 1 + i \in x + 1 + w .. x + 1 + size - 1
        <4> HIDE DEF w, size
        <4> QED BY <1>1, <1>2, <2>1, <2>3
      <3> QED BY <1>3, <2>1, <3>1
    <2> QED BY <2>2, <2>3
  <1>13. IsEntryOf(x, b)'
    BY <1>6, <1>8 DEF IsEntryOf
  <1>14. ContentsKept'
    <2> SUFFICES ASSUME NEW c \in DOMAIN held', held'[c].addr # ZERO,
                        NEW i \in 0 .. Rounded(held'[c].bytes) - 1
                 PROVE  mem'[held'[c].addr + i] = Data(c, i)
      BY DEF ContentsKept
    <2>1. CASE c = b
      BY <1>8, <1>12, <2>1
    <2>2. CASE c # b
      <3>1. PICK y \in F \ {x} : Keeps(m, y, c)
        BY <1>8, <2>2 DEF OthersKept
      <3> QED BY <1>8, <1>11, <2>2, <3>1
    <2> QED BY <2>1, <2>2
  <1>15. Owned(F)'
    <2>1. ASSUME NEW y \in F, mem'[y].used, mem'[y].d_size > 0
          PROVE  \E c \in DOMAIN held' : IsEntryOf(y, c)'
      <3>1. CASE y = x
        BY <1>8, <1>13, <3>1
      <3>2. CASE y # x
        <4>1. PICK c \in DOMAIN held \ {b} : Keeps(m, y, c)
          BY <1>6, <2>1, <3>2 DEF OthersKept
        <4> QED BY <1>8, <1>11, <3>2, <4>1
      <3> QED BY <3>1, <3>2
    <2>2. ASSUME NEW c \in DOMAIN held'
          PROVE  IF held'[c].addr = ZERO THEN Rounded(held'[c].bytes) = 0
                 ELSE \E y \in F : IsEntryOf(y, c)'
      <3>1. CASE c = b
        BY <1>8, <1>10, <1>13, <3>1
      <3>2. CASE c # b
        <4>1. c \in DOMAIN held \ {b} /\ held'[c] = held[c]
          BY <1>8, <3>2
        <4>2. CASE held[c].addr = ZERO
          BY <4>1, <4>2 DEF OthersKept
        <4>3. CASE held[c].addr # ZERO
          <5>1. PICK y \in F \ {x} : Keeps(m, y, c)
            BY <4>1, <4>3 DEF OthersKept
          <5> QED BY <1>11, <4>1, <4>3, <5>1
        <4> QED BY <4>2, <4>3
      <3> QED BY <3>1, <3>2
    <2>3. ASSUME NEW c \in DOMAIN held \ {b}, held[c].addr # ZERO
          PROVE  held[c].addr # x + 1
      <3>1. PICK y \in F \ {x} : Keeps(m, y, c)
        BY <2>3 DEF OthersKept
      <3>2. y \in Nat
        BY Apart
      <3> QED BY <1>2, <3>1, <3>2 DEF Keeps
    <2>4. ASSUME NEW c \in DOMAIN held', NEW d \in DOMAIN held',
                 held'[c].addr = held'[d].addr, held'[c].addr # ZERO
          PROVE  c = d
      BY <1>8, <2>3, <2>4 DEF OthersKept
    <2> QED BY <2>1, <2>2, <2>4 DEF Owned
  <1> QED BY <1>4, <1>6, <1>7, <1>8, <1>9, <1>14, <1>15 DEF MemTypeOK

(***************************************************************************)
(* Steps                                                                   *)
(***************************************************************************)
LEMMA NextEntry ==
    ASSUME NEW m, NEW E \in SUBSET Units, Tiles(m, E), NEW x \in E
    PROVE  /\ ent_get_next(m, x) \in E \cup {NULL}
           /\ E \subseteq Units /\ 0 \in E /\ NULL \notin E
  <1>1. NULL \notin Units
    BY LvMemAssumption DEF Units, NULL
  <1> QED BY <1>1, Apart DEF Tiles, ent_get_next, NULL

(* Steps that move the pointers of the loops and leave memory alone. *)
Walks ==
    \/ \E b \in Blocks, n \in Sizes : Alloc(b, n) \/ ReallocMore(b, n)
    \/ SearchOn \/ SearchFails \/ FreeReturns
    \/ Defrag \/ ScanOn \/ ScanFinds \/ ScanAgain \/ DefragReturns

LEMMA WalkStep == IInv /\ Walks => IInv'
  <1> SUFFICES ASSUME IInv, Walks PROVE IInv'
    OBVIOUS
  <1>1. PICK E \in SUBSET Units : Sound(E)
    BY DEF IInv
  <1>2. UNCHANGED <<mem, held>>
    BY DEF Walks, Alloc, ReallocMore, Search, SearchOn, SearchFails, FreeReturns,
           Defrag, ScanOn, ScanFinds, ScanAgain, DefragReturns
  <1>3. Tiles(mem, E) /\ Owned(E) /\ Loops(E) /\ MemTypeOK /\ ContentsKept
    BY <1>1 DEF Sound, IInv
  <1>4. Tiles(mem, E)' /\ Owned(E)' /\ ContentsKept'
    <2>1. \A x, b : IsEntryOf(x, b)' <=> IsEntryOf(x, b)
      BY <1>2 DEF IsEntryOf
    <2>2. Owned(E)'
      BY <1>2, <1>3, <2>1 DEF Owned
    <2> QED BY <1>2, <1>3, <2>2 DEF ContentsKept
  <1>5. \A x \in E : /\ ent_get_next(mem, x) \in E \cup {NULL}
                     /\ x \in Units /\ x # NULL /\ 0 \in E
    BY <1>3, NextEntry
  <1>6. \A b : OldSize(b)' = OldSize(b)
    BY <1>2 DEF OldSize, lv_mem_get_size
  <1>7. \A x : ent_get_next(mem, x)' = ent_get_next(mem, x)
    BY <1>2
  <1>8. 0 \in E /\ E \subseteq Units
    BY <1>3 DEF Tiles
  <1>9. (pc' \in {"idle", "alloc", "free", "scan", "join"} /\ blk' \in Blocks \cup {NULL}
           /\ bytes' \in Nat /\ e' \in Units \cup {NULL} /\ e_next' \in Units \cup {NULL})
        => MemTypeOK'
    BY <1>2, <1>3 DEF MemTypeOK
  <1>10. MemTypeOK' /\ Loops(E)'
    <2>1. ASSUME Return PROVE MemTypeOK' /\ Loops(E)'
      BY <1>9, <2>1 DEF Return, Loops
    <2>2. ASSUME NEW b \in Blocks, NEW n \in Sizes, Alloc(b, n)
          PROVE  MemTypeOK' /\ Loops(E)'
      BY <1>2, <1>3, <1>8, <1>9, <2>2, LvMemAssumption DEF Alloc, Search, Loops, MemTypeOK
    <2>3. ASSUME NEW b \in Blocks, NEW n \in Sizes, ReallocMore(b, n)
          PROVE  MemTypeOK' /\ Loops(E)'
      <3>1. n \in Nat
        BY LvMemAssumption
      <3>2. /\ pc' = "alloc" /\ blk' = b /\ bytes' = n /\ e' = 0 /\ e_next' = e_next
            /\ Rounded(n) > OldSize(b)
        BY <2>3 DEF ReallocMore, Search
      <3>3. MemTypeOK'
        BY <1>3, <1>8, <1>9, <3>1, <3>2 DEF MemTypeOK
      <3> QED BY <1>6, <1>8, <3>2, <3>3 DEF Loops
    <2>4. CASE SearchOn
      <3>1. pc = "alloc" /\ e' \in E /\ UNCHANGED <<pc, blk, bytes, e_next>>
        BY <1>3, <1>5, <2>4 DEF SearchOn, Loops
      <3> QED BY <1>2, <1>3, <1>6, <1>8, <1>9, <3>1 DEF Loops, MemTypeOK
    <2>5. CASE SearchFails \/ FreeReturns \/ DefragReturns
      BY <2>1, <2>5 DEF SearchFails, FreeReturns, DefragReturns
    <2>6. CASE Defrag
      BY <1>3, <1>8, <1>9, <2>6 DEF Defrag, Loops, MemTypeOK
    <2>7. CASE ScanOn
      <3>1. pc = "scan" /\ e' \in E \cup {NULL} /\ UNCHANGED <<pc, blk, bytes, e_next>>
        BY <1>3, <1>5, <2>7 DEF ScanOn, Loops
      <3> QED BY <1>3, <1>8, <1>9, <3>1 DEF Loops, MemTypeOK
    <2>8. CASE ScanFinds
      <3>1. /\ e \in E /\ e' = e /\ ~mem[e].used
            /\ pc' = "join" /\ e_next' = ent_get_next(mem, e)
            /\ UNCHANGED <<blk, bytes>>
        BY <1>3, <2>8 DEF ScanFinds, Loops
      <3>2. MemTypeOK'
        BY <1>3, <1>5, <1>8, <1>9, <3>1 DEF MemTypeOK
      <3>3. Loops(E)'
        BY <1>2, <1>7, <3>1 DEF Loops
      <3> QED BY <3>2, <3>3
    <2>9. CASE ScanAgain
      <3>1. pc = "join" /\ e \in E /\ e_next = ent_get_next(mem, e) /\ e_next # NULL
        BY <1>3, <2>9 DEF ScanAgain, Loops
      <3>2. e' \in E /\ pc' = "scan" /\ UNCHANGED <<blk, bytes, e_next>>
        BY <1>5, <2>9, <3>1 DEF ScanAgain
      <3> QED BY <1>3, <1>8, <1>9, <3>2 DEF Loops, MemTypeOK
    <2> QED BY <2>2, <2>3, <2>4, <2>5, <2>6, <2>7, <2>8, <2>9 DEF Walks
  <1> QED BY <1>4, <1>10 DEF IInv, Sound

(* A caller gets &zero_mem, or keeps it. *)
LEMMA NothingStep ==
    ASSUME IInv, NEW b \in Blocks, NEW n \in Nat, Rounded(n) = 0,
           pc = "idle", ~Holders(b),
           held' = Holding(b, ZERO, n),
           UNCHANGED <<mem, call>>
    PROVE  IInv'
  <1>1. PICK E \in SUBSET Units : Sound(E)
    BY DEF IInv
  <1>2. Tiles(mem, E) /\ Owned(E) /\ Loops(E) /\ MemTypeOK /\ ContentsKept
    BY <1>1 DEF Sound, IInv
  <1>3. /\ DOMAIN held' = DOMAIN held \cup {b}
        /\ held'[b].addr = ZERO /\ held'[b].bytes = n
        /\ \A c \in DOMAIN held \ {b} : held'[c] = held[c]
    BY DEF Holding
  <1>4. MemTypeOK'
    <2>1. [addr |-> ZERO, bytes |-> n] \in [addr : 1 .. UNITS - 1 \cup {ZERO}, bytes : Nat]
      OBVIOUS
    <2>2. held' \in [DOMAIN held' -> [addr : 1 .. UNITS - 1 \cup {ZERO}, bytes : Nat]]
      BY <1>2, <2>1 DEF Holding, MemTypeOK
    <2> QED BY <1>2, <1>3, <2>2 DEF MemTypeOK, call
  <1>5. ASSUME NEW x \in E PROVE x + 1 # ZERO
    BY <1>2, Apart, LvMemAssumption DEF ZERO
  <1>6. ASSUME NEW x \in E, NEW c \in DOMAIN held \ {b}
        PROVE  IsEntryOf(x, c)' <=> IsEntryOf(x, c)
    BY <1>3 DEF IsEntryOf
  <1>7. Owned(E)'
    <2>1. ASSUME NEW x \in E, mem'[x].used, mem'[x].d_size > 0
          PROVE  \E c \in DOMAIN held' : IsEntryOf(x, c)'
      <3>1. PICK c \in DOMAIN held : IsEntryOf(x, c)
        BY <1>2, <2>1 DEF Owned
      <3>2. c # b
        BY <1>5, <3>1 DEF IsEntryOf, Holders
      <3> QED BY <1>3, <1>6, <3>1, <3>2
    <2>2. ASSUME NEW c \in DOMAIN held'
          PROVE  IF held'[c].addr = ZERO THEN Rounded(held'[c].bytes) = 0
                 ELSE \E x \in E : IsEntryOf(x, c)'
      BY <1>2, <1>3, <1>6 DEF Owned
    <2>3. ASSUME NEW c \in DOMAIN held', NEW d \in DOMAIN held',
                 held'[c].addr = held'[d].addr, held'[c].addr # ZERO
          PROVE  c = d
      BY <1>2, <1>3, <2>3 DEF Owned
    <2> QED BY <2>1, <2>2, <2>3 DEF Owned
  <1>8. ContentsKept'
    BY <1>2, <1>3 DEF ContentsKept
  <1>9. Tiles(mem, E)' /\ Loops(E)'
    BY <1>2 DEF Loops, call
  <1> QED BY <1>4, <1>7, <1>8, <1>9 DEF IInv, Sound

LEMMA AllocNothingStep ==
    ASSUME IInv, NEW b \in Blocks, AllocNothing(b)
    PROVE  IInv'
  BY NothingStep, RoundedNothing DEF AllocNothing, Holders

(* A caller gives a block back; its entry x, if it has one, is free.       *)
LEMMA FreeStep ==
    ASSUME IInv, NEW b \in Blocks, FreeNothing(b) \/ Free(b)
    PROVE  IInv'
  <1>1. PICK E \in SUBSET Units : Sound(E)
    BY DEF IInv
  <1>2. Tiles(mem, E) /\ Owned(E) /\ Loops(E) /\ MemTypeOK /\ ContentsKept
    BY <1>1 DEF Sound, IInv
  <1>3. /\ b \in DOMAIN held /\ pc = "idle" /\ blk = NULL
        /\ held' = [c \in DOMAIN held \ {b} |-> held[c]]
        /\ UNCHANGED <<blk, bytes>>
    BY <1>2 DEF FreeNothing, Free, Loops, call
  <1>4. /\ DOMAIN held' = DOMAIN held \ {b}
        /\ \A c \in DOMAIN held \ {b} : held'[c] = held[c]
    BY <1>3
  <1>5. /\ DOMAIN held' \subseteq Blocks
        /\ held' \in [DOMAIN held' -> [addr : 1 .. UNITS - 1 \cup {ZERO}, bytes : Nat]]
    BY <1>2, <1>3 DEF MemTypeOK
  <1>6. \A c \in DOMAIN held', d \in DOMAIN held' :
           held'[c].addr = held'[d].addr /\ held'[c].addr # ZERO => c = d
    BY <1>2, <1>4 DEF Owned
  <1>7. CASE FreeNothing(b)
    <2>1. held[b].addr = ZERO /\ UNCHANGED <<mem, call>>
      BY <1>7 DEF FreeNothing
    <2>2. MemTypeOK'
      BY <1>2, <1>5, <2>1 DEF MemTypeOK, call
    <2>3. \A x \in E, c \in DOMAIN held' : IsEntryOf(x, c)' <=> IsEntryOf(x, c)
      BY <1>4, <2>1 DEF IsEntryOf
    <2>4. \A x \in E : ~IsEntryOf(x, b)
      BY <1>2, <2>1, Apart, LvMemAssumption DEF IsEntryOf, ZERO
    <2>5. Owned(E)'
      BY <1>2, <1>4, <1>6, <2>1, <2>3, <2>4 DEF Owned
    <2>6. ContentsKept'
      BY <1>2, <1>4, <2>1 DEF ContentsKept
    <2>7. Tiles(mem, E)' /\ Loops(E)'
      BY <1>2, <1>3, <2>1 DEF Loops, call
    <2> QED BY <2>2, <2>5, <2>6, <2>7 DEF IInv, Sound
  <1>8. CASE Free(b)
    <2> DEFINE x == held[b].addr - 1
    <2>1. /\ Holders(b)
          /\ mem' = [mem EXCEPT ![x].used = FALSE]
          /\ pc' = "free" /\ e' = x /\ e_next' = ent_get_next(mem, x)
      BY <1>8 DEF Free, Release, Holders
    <2>2. x \in E /\ x \in Units /\ IsEntryOf(x, b) /\ held[b].addr = x + 1
      BY <1>2, <2>1, BlockApart
    <2> HIDE DEF x
    <2>3. mem[x] \in Headers /\ mem \in [Units -> Contents]
      BY <1>2, <2>2 DEF Tiles, MemTypeOK
    <2>4. /\ mem'[x] \in Headers /\ ~mem'[x].used /\ mem'[x].d_size = mem[x].d_size
          /\ \A u \in Units \ {x} : mem'[u] = mem[u]
      BY <2>1, <2>2, <2>3 DEF Headers
    <2>5. mem' \in [Units -> Contents]
      BY <2>1, <2>3, <2>4 DEF Contents
    <2>6. Tiles(mem, E)'
      <3>1. \A y \in E : mem'[y] \in Headers /\ mem'[y].d_size = mem[y].d_size
        BY <1>2, <2>4 DEF Tiles
      <3> QED BY <1>2, <3>1, SameSizes
    <2>7. ent_get_next(mem', x) = ent_get_next(mem, x)
      BY <2>4 DEF ent_get_next, End
    <2>8. ent_get_next(mem, x) \in Units \cup {NULL}
      BY <1>2, <2>2, NextEntry
    <2>9. MemTypeOK'
      BY <1>2, <1>3, <1>5, <2>1, <2>2, <2>5, <2>8 DEF MemTypeOK
    <2>10. ASSUME NEW c \in DOMAIN held', held'[c].addr # ZERO
           PROVE  \E y \in E \ {x} : IsEntryOf(y, c)' /\ IsEntryOf(y, c)
      <3>1. PICK y \in E : IsEntryOf(y, c)
        BY <1>2, <1>4, <2>10 DEF Owned
      <3>2. y # x
        BY <1>2, <1>4, <2>1, <2>2, <2>10, <3>1 DEF Owned, IsEntryOf, Holders
      <3> QED BY <1>4, <2>4, <3>1, <3>2 DEF IsEntryOf
    <2>11. Owned(E)'
      <3>1. ASSUME NEW y \in E, mem'[y].used, mem'[y].d_size > 0
            PROVE  \E c \in DOMAIN held' : IsEntryOf(y, c)'
        <4>1. y # x /\ mem'[y] = mem[y]
          BY <2>4, <3>1
        <4>2. PICK c \in DOMAIN held : IsEntryOf(y, c)
          BY <1>2, <3>1, <4>1 DEF Owned
        <4>3. c # b
          <5>1. x \in Nat /\ y \in Nat
            BY <2>2 DEF Units
          <5> QED BY <2>2, <4>1, <4>2, <5>1 DEF IsEntryOf
        <4> QED BY <1>4, <4>1, <4>2, <4>3 DEF IsEntryOf
      <3> QED BY <1>2, <1>4, <1>6, <2>10, <3>1 DEF Owned
    <2>12. ContentsKept'
      <3> SUFFICES ASSUME NEW c \in DOMAIN held', held'[c].addr # ZERO,
                          NEW i \in 0 .. Rounded(held'[c].bytes) - 1
                   PROVE  mem'[held'[c].addr + i] = Data(c, i)
        BY DEF ContentsKept
      <3>1. Holders(c) /\ held'[c] = held[c]
        BY <1>4 DEF Holders
      <3>2. held[c].addr + i \in Units \ E
        BY <1>2, <3>1, BlockApart
      <3> QED BY <1>2, <2>2, <2>4, <3>1, <3>2 DEF ContentsKept, Holders
    <2>13. Loops(E)'
      BY <1>3, <2>1, <2>2, <2>4, <2>7 DEF Loops
    <2> QED BY <2>6, <2>9, <2>11, <2>12, <2>13 DEF IInv, Sound
  <1> QED BY <1>7, <1>8

(* One iteration of the joining loops. *)
LEMMA JoinStep ==
    ASSUME IInv, Join
    PROVE  IInv'
  <1>1. PICK E \in SUBSET Units : Sound(E)
    BY DEF IInv
  <1>2. Tiles(mem, E) /\ Owned(E) /\ Loops(E) /\ MemTypeOK /\ ContentsKept
    BY <1>1 DEF Sound, IInv
  <1> PICK n : n = e_next
    OBVIOUS
  <1> PICK F : F = E \ {n}
    OBVIOUS
  <1>3. /\ e \in E /\ ~mem[e].used /\ n = ent_get_next(mem, e) /\ n # NULL
        /\ ~mem[n].used
        /\ mem' = [mem EXCEPT ![e].d_size = @ + mem[n].d_size + 1]
        /\ e_next' = ent_get_next(mem, n)
        /\ UNCHANGED <<held, pc, blk, bytes, e>>
    BY <1>2 DEF Join, Joins, Loops
  <1>4. mem \in [Units -> Contents] /\ e \in Units
    BY <1>2, <1>3 DEF MemTypeOK
  <1>5. /\ mem'[e] = [mem[e] EXCEPT !.d_size = @ + mem[n].d_size + 1]
        /\ \A u \in Units \ {e} : mem'[u] = mem[u]
    BY <1>3, <1>4
  <1>6. /\ Tiles(mem', F) /\ n \in E /\ e < n
        /\ mem'[e] \in Headers /\ ~mem'[e].used
        /\ ent_get_next(mem', e) = ent_get_next(mem, n)
    <2>1. \A y \in E \ {e} : mem'[y] = mem[y]
      BY <1>5
    <2>2. n \in E
      BY <1>2, <1>3, NextEntry
    <2>3. mem[e] \in Headers /\ mem[e].d_size + mem[n].d_size + 1 \in Nat
      BY <1>2, <1>3, <2>2 DEF Tiles, Headers
    <2>4. /\ mem'[e] \in Headers /\ mem'[e].used = mem[e].used
          /\ mem'[e].d_size = mem[e].d_size + mem[n].d_size + 1
      BY <1>5, <2>3 DEF Headers
    <2>5. /\ Tiles(mem', E \ {n}) /\ e < n
          /\ ent_get_next(mem', e) = ent_get_next(mem, n)
      <3>1. Tiles(mem, E) /\ e \in E /\ n = ent_get_next(mem, e) /\ n # NULL
        BY <1>2, <1>3
      <3> QED BY <2>1, <2>4, <3>1, JoinedEntries
    <2> QED BY <1>3, <2>2, <2>4, <2>5
  <1>7. mem' \in [Units -> Contents]
    BY <1>3, <1>4, <1>5, <1>6 DEF Contents
  <1>8. MemTypeOK'
    <2>1. e_next' \in Units \cup {NULL}
      BY <1>2, <1>3, <1>6, NextEntry
    <2> QED BY <1>2, <1>3, <1>7, <2>1 DEF MemTypeOK
  (* A block's entry is neither of the two. *)
  <1>9. ASSUME NEW y \in E, NEW c \in DOMAIN held, IsEntryOf(y, c)
        PROVE  y \in F /\ mem'[y] = mem[y] /\ IsEntryOf(y, c)'
    <2>1. y # n /\ y # e
      BY <1>3, <1>9 DEF IsEntryOf
    <2> QED BY <1>3, <1>5, <1>9, <2>1 DEF IsEntryOf
  <1>10. Owned(F)'
    <2>1. ASSUME NEW y \in F, mem'[y].used, mem'[y].d_size > 0
          PROVE  \E c \in DOMAIN held' : IsEntryOf(y, c)'
      <3>1. y \in E /\ mem'[y] = mem[y]
        BY <1>5, <1>6, <2>1
      <3>2. PICK c \in DOMAIN held : IsEntryOf(y, c)
        BY <1>2, <2>1, <3>1 DEF Owned
      <3> QED BY <1>3, <1>9, <3>1, <3>2
    <2>2. ASSUME NEW c \in DOMAIN held', held'[c].addr # ZERO
          PROVE  \E y \in F : IsEntryOf(y, c)'
      <3>1. PICK y \in E : IsEntryOf(y, c)
        BY <1>2, <1>3, <2>2 DEF Owned
      <3> QED BY <1>3, <1>9, <3>1
    <2>3. \A c \in DOMAIN held' : held'[c].addr = ZERO => Rounded(held'[c].bytes) = 0
      BY <1>2, <1>3 DEF Owned
    <2>4. \A c, d \in DOMAIN held' :
             held'[c].addr = held'[d].addr /\ held'[c].addr # ZERO => c = d
      BY <1>2, <1>3 DEF Owned
    <2> QED BY <1>3, <1>6, <2>1, <2>2, <2>3, <2>4 DEF Owned
  <1>11. ContentsKept'
    <2> SUFFICES ASSUME NEW c \in DOMAIN held, held[c].addr # ZERO,
                        NEW i \in 0 .. Rounded(held[c].bytes) - 1
                 PROVE  mem'[held[c].addr + i] = Data(c, i)
      BY <1>3 DEF ContentsKept
    <2>1. held[c].addr + i \in Units \ E
      BY <1>2, BlockApart DEF Holders
    <2> QED BY <1>2, <1>3, <1>5, <2>1 DEF ContentsKept
  <1>12. Loops(F)'
    <2>1. e' \in F /\ ~mem'[e'].used /\ e_next' = ent_get_next(mem', e') /\ pc' \in {"free", "join"}
      <3>1. e \in Nat /\ n \in Nat
        BY <1>2, <1>3, <1>6, Apart
      <3>2. pc \in {"free", "join"}
        BY DEF Join
      <3> QED BY <1>3, <1>6, <3>1, <3>2
    <2>2. ASSUME pc' = "free", blk' # NULL
          PROVE  /\ blk' \in DOMAIN held' /\ held'[blk'].addr # ZERO
                 /\ Rounded(bytes') <= OldSize(blk)'
      <3>1. blk \in DOMAIN held /\ held[blk].addr # ZERO /\ Rounded(bytes) <= OldSize(blk)
        BY <1>2, <1>3, <2>2 DEF Loops
      <3>2. PICK y \in E : IsEntryOf(y, blk) /\ y = held[blk].addr - 1
        BY <1>2, <3>1, BlockApart DEF Holders
      <3>3. mem'[y] = mem[y]
        BY <1>9, <3>1, <3>2
      <3>4. OldSize(blk)' = OldSize(blk)
        <4>1. held'[blk'].addr = held[blk].addr
          BY <1>3
        <4>2. mem'[held[blk].addr - 1] = mem[held[blk].addr - 1]
          BY <3>2, <3>3
        <4> QED BY <4>1, <4>2 DEF OldSize, lv_mem_get_size
      <3> QED BY <1>3, <3>1, <3>4
    <2> QED BY <2>1, <2>2 DEF Loops
  <1> QED BY <1>6, <1>8, <1>10, <1>11, <1>12 DEF IInv, Sound

(* Entry x was cut and taken. *)
LEMMA TakenEntry ==
    ASSUME MemTypeOK, NEW E \in SUBSET Units, Tiles(mem, E), NEW x \in E,
           NEW size \in Nat, Fits(x, size)
    PROVE  LET m == Taken(x, size)
           IN  /\ m \in [Units -> Contents]
               /\ m[x].used /\ size <= m[x].d_size
               /\ \A y \in E \ {x} : m[y] = mem[y]
               /\ \A u \in Units \ E : u \notin x .. End(mem, x) - 1 => m[u] = mem[u]
               /\ \E F \in SUBSET Units :
                     /\ E \subseteq F /\ Tiles(m, F)
                     /\ \A y \in F \ E : ~m[y].used
  <1> DEFINE t == ent_trunc(mem, x, size)
             m == Taken(x, size)
  <1>1. mem \in [Units -> Contents] /\ size <= mem[x].d_size
    BY DEF MemTypeOK, Fits
  <1>2. /\ t \in [Units -> Contents]
        /\ t[x] \in Headers /\ size <= t[x].d_size
        /\ \A u \in Units : u < x \/ u >= End(mem, x) => t[u] = mem[u]
    BY <1>1, Cut
  <1>3. PICK F \in SUBSET Units : /\ E \subseteq F /\ Tiles(t, F)
                                  /\ \A y \in F \ E : ~t[y].used
    BY <1>1, Cut
  <1>4. m = [t EXCEPT ![x].used = TRUE]
    BY DEF Taken
  <1> HIDE DEF t, m
  <1>5. /\ m[x] \in Headers /\ m[x].used /\ m[x].d_size = t[x].d_size
        /\ \A u \in Units \ {x} : m[u] = t[u]
    BY <1>2, <1>4 DEF Headers
  <1>6. m \in [Units -> Contents]
    BY <1>2, <1>4, <1>5 DEF Contents
  <1>7. Tiles(m, F)
    <2>1. \A y \in F : m[y] \in Headers /\ m[y].d_size = t[y].d_size
      BY <1>3, <1>5 DEF Tiles
    <2> QED BY <1>3, <2>1, SameSizes
  <1>8. ASSUME NEW u \in Units, u \notin x .. End(mem, x) - 1
        PROVE  m[u] = mem[u]
    <2>1. x \in Nat /\ End(mem, x) \in Nat /\ x \in x .. End(mem, x) - 1
      BY Apart DEF End
    <2>2. u # x /\ (u < x \/ u >= End(mem, x))
      BY <1>8, <2>1 DEF Units
    <2> QED BY <1>2, <1>5, <2>2
  <1>9. ASSUME NEW y \in E \ {x} PROVE m[y] = mem[y]
    <2>1. y \in y .. End(mem, y) - 1
      BY Apart DEF End
    <2>2. y \notin x .. End(mem, x) - 1
      BY <2>1, Apart
    <2> QED BY <1>8, <2>2
  <1>10. \A y \in F \ E : ~m[y].used
    BY <1>3, <1>5
  <1> QED BY <1>2, <1>3, <1>5, <1>6, <1>7, <1>8, <1>9, <1>10 DEF m

(* b's caller gets entry x of memory m, and the call is over. *)
LEMMA GivenStep ==
    ASSUME IInv, NEW E \in SUBSET Units, Tiles(mem, E), Owned(E), NEW x \in E,
           NEW b \in Blocks, mem[x].used => Holders(b) /\ held[b].addr = x + 1,
           NEW m \in [Units -> Contents],
           NEW F \in SUBSET Units, Tiles(m, F), \A y \in F \ E : ~m[y].used, E \subseteq F,
           Holders(b) => \/ held[b].addr = x + 1
                         \/ ~m[held[b].addr - 1].used
                         \/ m[held[b].addr - 1].d_size = 0,
           \A y \in E \ {x} : m[y] = mem[y],
           \A u \in Units \ E : u \notin x .. End(mem, x) - 1 => m[u] = mem[u],
           NEW n \in Nat, m[x].used, Rounded(n) <= m[x].d_size,
           \A i \in 0 .. Rounded(n) - 1 : i < Written(b) => m[x + 1 + i] = Data(b, i),
           mem' = Filled(m, b, x + 1, Written(b), Rounded(n)),
           held' = Holding(b, x + 1, n),
           Return \/ (pc = "idle" /\ UNCHANGED call)
    PROVE  IInv'
  <1>1. OthersKept(m, F, x, b)
    BY OthersStay DEF IInv
  <1>2. x \in F
    OBVIOUS
  <1>3. MemTypeOK
    BY DEF IInv
  <1>4. /\ mem' \in [Units -> Contents]
        /\ DOMAIN held' \subseteq Blocks
        /\ held' \in [DOMAIN held' -> [addr : 1 .. UNITS - 1 \cup {ZERO}, bytes : Nat]]
        /\ Tiles(mem, F)' /\ Owned(F)' /\ ContentsKept'
    BY <1>1, <1>2, <1>3, Hands
  <1>5. blk = NULL \/ pc # "idle"
    BY DEF IInv, Sound, Loops
  <1>6. Loops(F)'
    BY <1>5 DEF Return, Loops, call
  <1>7. MemTypeOK'
    BY <1>3, <1>4 DEF MemTypeOK, Return, call
  <1> QED BY <1>4, <1>6, <1>7 DEF IInv, Sound

LEMMA TakeStep ==
    ASSUME IInv, Take
    PROVE  IInv'
  <1>1. PICK E \in SUBSET Units : Sound(E)
    BY DEF IInv
  <1>2. Tiles(mem, E) /\ Owned(E) /\ Loops(E) /\ MemTypeOK /\ ContentsKept
    BY <1>1 DEF Sound, IInv
  <1> DEFINE size == Rounded(bytes)
             m == Taken(e, size)
  <1>3. /\ pc = "alloc" /\ Fits(e, size) /\ ~HasData(blk)
        /\ mem' = Filled(m, blk, e + 1, Written(blk), size)
        /\ held' = Holding(blk, e + 1, bytes)
        /\ Return
    BY DEF Take
  <1>4. e \in E /\ blk \in Blocks /\ bytes \in Nat /\ size \in Nat /\ ~mem[e].used
    BY <1>2, <1>3, RoundedNat DEF Loops, MemTypeOK, Fits
  <1>5. /\ m \in [Units -> Contents]
        /\ m[e].used /\ size <= m[e].d_size
        /\ \A y \in E \ {e} : m[y] = mem[y]
        /\ \A u \in Units \ E : u \notin e .. End(mem, e) - 1 => m[u] = mem[u]
    BY <1>2, <1>3, <1>4, TakenEntry
  <1>6. PICK F \in SUBSET Units : /\ E \subseteq F /\ Tiles(m, F)
                                  /\ \A y \in F \ E : ~m[y].used
    BY <1>2, <1>3, <1>4, TakenEntry
  <1> HIDE DEF m
  <1>7. Holders(blk) => m[held[blk].addr - 1].d_size = 0 /\ Written(blk) = 0
    <2> SUFFICES ASSUME Holders(blk)
                 PROVE  m[held[blk].addr - 1].d_size = 0 /\ Written(blk) = 0
      OBVIOUS
    <2>1. PICK y \in E : /\ y = held[blk].addr - 1 /\ IsEntryOf(y, blk)
                         /\ OldSize(blk) = mem[y].d_size
                         /\ Rounded(held[blk].bytes) \in Nat
      BY <1>2, BlockApart
    <2>2. mem[y].d_size = 0
      BY <1>3, <2>1 DEF HasData, OldSize, Holders
    <2>3. m[y] = mem[y]
      BY <1>4, <1>5, <2>1 DEF IsEntryOf
    <2> QED BY <2>1, <2>2, <2>3 DEF Written, IsEntryOf, Holders
  <1>8. Written(blk) = 0
    <2>1. CASE Holders(blk)
      BY <1>7, <2>1
    <2>2. CASE ~Holders(blk)
      BY <1>2, <2>2 DEF Written, Holders, Owned
    <2> QED BY <2>1, <2>2
  <1>9. \A i \in 0 .. size - 1 : i < Written(blk) => m[e + 1 + i] = Data(blk, i)
    BY <1>4, <1>8
  <1>10. mem[e].used => Holders(blk) /\ held[blk].addr = e + 1
    BY <1>4
  <1>11. \/ ~Holders(blk)
         \/ m[held[blk].addr - 1].d_size = 0
    BY <1>7
  <1> QED BY <1>2, <1>3, <1>4, <1>5, <1>6, <1>9, <1>10, <1>11, GivenStep

(* A block stays in its entry, which may be cut. *)
LEMMA SamePlaceStep ==
    ASSUME IInv, NEW b \in Blocks, Holders(b), NEW n \in Nat,
           Rounded(n) <= OldSize(b),
           NEW m, m = mem \/ m = ent_trunc(mem, held[b].addr - 1, Rounded(n)),
           mem' = Filled(m, b, held[b].addr, Written(b), Rounded(n)),
           held' = Holding(b, held[b].addr, n),
           Return \/ (pc = "idle" /\ UNCHANGED call)
    PROVE  IInv'
  <1>1. PICK E \in SUBSET Units : Sound(E)
    BY DEF IInv
  <1>2. Tiles(mem, E) /\ Owned(E) /\ Loops(E) /\ MemTypeOK /\ ContentsKept
    BY <1>1 DEF Sound, IInv
  <1> DEFINE x == held[b].addr - 1
             size == Rounded(n)
  <1>3. /\ x \in E /\ IsEntryOf(x, b) /\ held[b].addr = x + 1
        /\ OldSize(b) = mem[x].d_size
    BY <1>2, BlockApart
  <1>4. size \in Nat /\ size <= mem[x].d_size /\ mem \in [Units -> Contents] /\ mem[x].used
    BY <1>2, <1>3, RoundedNat DEF MemTypeOK, IsEntryOf
  <1>5. x \in Nat /\ End(mem, x) = x + 1 + mem[x].d_size /\ mem[x].d_size \in Nat
        /\ x + 1 < UNITS /\ End(mem, x) <= UNITS
    BY <1>2, <1>3, Apart DEF End
  <1> HIDE DEF x
  <1>6. /\ m \in [Units -> Contents] /\ m[x].used /\ size <= m[x].d_size
        /\ \A u \in Units :
              u < x \/ u \in x + 1 .. x + size \/ u >= End(mem, x) => m[u] = mem[u]
        /\ \E F \in SUBSET Units :
              /\ E \subseteq F /\ Tiles(m, F)
              /\ \A y \in F \ E : ~m[y].used
    <2>1. CASE m = mem
      BY <1>2, <1>4, <2>1
    <2>2. CASE m = ent_trunc(mem, x, size)
      BY <1>2, <1>3, <1>4, <2>2, Cut
    <2> QED BY <2>1, <2>2 DEF x
  <1>7. PICK F \in SUBSET Units : /\ E \subseteq F /\ Tiles(m, F)
                                  /\ \A y \in F \ E : ~m[y].used
    BY <1>6
  <1>8. \A u \in Units : u \notin x .. End(mem, x) - 1 => m[u] = mem[u]
    BY <1>5, <1>6 DEF Units
  <1>9. ASSUME NEW y \in E \ {x} PROVE m[y] = mem[y]
    <2>1. y \in y .. End(mem, y) - 1
      BY <1>2, Apart DEF End
    <2>2. y \notin x .. End(mem, x) - 1
      BY <1>2, <1>3, <2>1, Apart
    <2> QED BY <1>8, <2>2
  <1>10. ASSUME NEW i \in 0 .. size - 1, i < Written(b)
         PROVE  m[x + 1 + i] = Data(b, i)
    <2>1. x + 1 + i \in x + 1 .. x + size /\ x + 1 + i \in Units
      BY <1>4, <1>5, LvMemAssumption DEF Units
    <2>2. i \in 0 .. Rounded(held[b].bytes) - 1
      <3>1. Rounded(held[b].bytes) \in Nat
        BY <1>2, RoundedNat DEF MemTypeOK, Holders
      <3> QED BY <1>4, <1>10, <3>1 DEF Written, Holders
    <2>3. mem[x + 1 + i] = Data(b, i)
      BY <1>2, <1>3, <2>2 DEF ContentsKept, Holders
    <2> QED BY <1>6, <2>1, <2>3
  <1> QED BY <1>2, <1>3, <1>4, <1>6, <1>7, <1>8, <1>9, <1>10, GivenStep

LEMMA FilledNothing ==
    ASSUME mem \in [Units -> Contents], NEW b
    PROVE  Filled(mem, b, ZERO, 0, 0) = mem
  <1>1. \A u \in Units : u \notin ZERO + 0 .. ZERO + 0 - 1
    BY LvMemAssumption DEF Units, ZERO
  <1> QED BY <1>1 DEF Filled

LEMMA ReallocInPlaceStep ==
    ASSUME IInv, NEW b \in Blocks, NEW n \in Nat, ReallocSame(b, n) \/ ReallocCut(b, n)
    PROVE  IInv'
  <1>1. MemTypeOK /\ b \in DOMAIN held /\ pc = "idle" /\ UNCHANGED call
    BY DEF IInv, ReallocSame, ReallocCut, Called
  <1>2. Rounded(n) \in Nat
    BY RoundedNat
  <1>3. CASE Holders(b)
    <2>1. CASE ReallocSame(b, n)
      <3>1. /\ mem' = Filled(mem, b, held[b].addr, Written(b), Rounded(n))
            /\ held' = Holding(b, held[b].addr, n)
            /\ Rounded(n) <= OldSize(b)
        BY <1>2, <2>1 DEF ReallocSame
      <3> QED BY <1>1, <1>3, <3>1, SamePlaceStep
    <2>2. CASE ReallocCut(b, n)
      <3>1. /\ mem' = Filled(ent_trunc(mem, held[b].addr - 1, Rounded(n)),
                             b, held[b].addr, Written(b), Rounded(n))
            /\ held' = Holding(b, held[b].addr, n)
            /\ Rounded(n) < OldSize(b)
        BY <2>2 DEF ReallocCut
      <3>2. Rounded(n) <= OldSize(b)
        <4>1. PICK E \in SUBSET Units : Tiles(mem, E) /\ Owned(E)
          BY DEF IInv, Sound
        <4>2. OldSize(b) \in Nat
          BY <1>1, <1>3, <4>1, BlockApart, Apart
        <4> QED BY <1>2, <3>1, <4>2
      <3> QED BY <1>1, <1>3, <3>1, <3>2, SamePlaceStep
    <2> QED BY <2>1, <2>2
  <1>4. CASE ~Holders(b)
    <2>1. held[b].addr = ZERO /\ OldSize(b) = 0
      BY <1>1, <1>4 DEF Holders, OldSize, lv_mem_get_size
    <2>2. ReallocSame(b, n)
      BY <1>2, <2>1 DEF ReallocCut
    <2>3. Written(b) = 0
      <3>1. PICK E \in SUBSET Units : Owned(E)
        BY DEF IInv, Sound
      <3> QED BY <1>1, <2>1, <3>1 DEF Owned, Written
    <2>4. /\ Rounded(n) = 0 /\ held' = Holding(b, ZERO, n)
          /\ mem' = Filled(mem, b, ZERO, 0, 0)
      BY <2>1, <2>2, <2>3 DEF ReallocSame
    <2>5. mem' = mem
      BY <1>1, <2>4, FilledNothing DEF MemTypeOK
    <2> QED BY <1>1, <1>4, <2>4, <2>5, NothingStep
  <1> QED BY <1>3, <1>4

LEMMA ReallocReturnsStep ==
    ASSUME IInv, ReallocReturns
    PROVE  IInv'
  <1>1. /\ pc = "free" /\ blk # NULL
        /\ mem' = Filled(mem, blk, held[blk].addr, Written(blk), Rounded(bytes))
        /\ held' = Holding(blk, held[blk].addr, bytes)
        /\ Return
    BY DEF ReallocReturns
  <1>2. /\ Holders(blk) /\ Rounded(bytes) <= OldSize(blk)
        /\ blk \in Blocks /\ bytes \in Nat
    BY <1>1 DEF IInv, Sound, Loops, Holders, MemTypeOK
  <1> QED BY <1>1, <1>2, SamePlaceStep

(* The content moves to entry e, which is cut, and its old entry is freed. *)
LEMMA TakeAndCopyStep ==
    ASSUME IInv, TakeAndCopy
    PROVE  IInv'
  <1>1. PICK E \in SUBSET Units : Sound(E)
    BY DEF IInv
  <1>2. Tiles(mem, E) /\ Owned(E) /\ Loops(E) /\ MemTypeOK /\ ContentsKept
    BY <1>1 DEF Sound, IInv
  <1> DEFINE size == Rounded(bytes)
             o == held[blk].addr - 1
             kept == Kept(OldSize(blk), size)
             n == held[blk].bytes
             w == Rounded(held[blk].bytes)
             t == Taken(e, size)
             c == Copied(t, o + 1, e + 1, kept)
             m == [c EXCEPT ![o].used = FALSE]
  <1>3. pc = "alloc" /\ Fits(e, size) /\ HasData(blk) /\ UNCHANGED <<blk, bytes>>
    BY DEF TakeAndCopy
  <1>4. /\ Holders(blk) /\ e \in E /\ ~mem[e].used /\ Rounded(bytes) > OldSize(blk)
        /\ bytes \in Nat
    BY <1>2, <1>3 DEF HasData, Holders, lv_mem_get_size, Loops, Fits, MemTypeOK
  <1>5. /\ o \in E /\ IsEntryOf(o, blk) /\ held[blk].addr = o + 1
        /\ w \in Nat /\ blk \in Blocks /\ OldSize(blk) = mem[o].d_size
        /\ n \in Nat
    BY <1>2, <1>4, BlockApart DEF MemTypeOK, Holders
  <1>6. /\ mem' = m /\ pc' = "free" /\ e' = o
        /\ e_next' = ent_get_next(c, o)
        /\ held' = Holding(blk, e + 1, n)
    BY <1>5 DEF TakeAndCopy, Release
  <1>7. /\ size \in Nat /\ mem[o].d_size \in Nat /\ mem[o].used /\ w <= mem[o].d_size
        /\ o # e /\ o \in Nat /\ e \in Nat
        /\ End(mem, o) = o + 1 + mem[o].d_size /\ End(mem, o) <= UNITS
        /\ End(mem, e) \in Nat /\ e < End(mem, e) /\ UNITS \in Nat
    BY <1>2, <1>4, <1>5, RoundedNat, Apart, LvMemAssumption DEF IsEntryOf, End
  <1>8. kept = mem[o].d_size /\ kept < size
    BY <1>4, <1>5, <1>7 DEF Kept
  <1>9. /\ t \in [Units -> Contents]
        /\ t[e].used /\ size <= t[e].d_size
        /\ \A y \in E \ {e} : t[y] = mem[y]
        /\ \A u \in Units \ E : u \notin e .. End(mem, e) - 1 => t[u] = mem[u]
    BY <1>2, <1>3, <1>4, <1>7, TakenEntry
  <1>10. PICK F \in SUBSET Units : /\ E \subseteq F /\ Tiles(t, F)
                                   /\ \A y \in F \ E : ~t[y].used
    BY <1>2, <1>3, <1>4, <1>7, TakenEntry
  <1>11. \A u \in Units : c[u] = IF u \in e + 1 .. e + 1 + kept - 1
                                 THEN t[(o + 1) + (u - (e + 1))] ELSE t[u]
    BY DEF Copied
  <1>12. DOMAIN c = Units
    BY DEF Copied
  <1> HIDE DEF t, c, kept, o, w, n, size
  (* The copy goes to units in the data of e, from units in that of o. *)
  <1>13. /\ e \in F /\ t[e].d_size \in Nat /\ End(t, e) = e + 1 + t[e].d_size
         /\ End(t, e) <= UNITS /\ End(t, e) <= End(mem, e)
    <2>1. e \in F /\ t[e].d_size \in Nat /\ End(t, e) = e + 1 + t[e].d_size
          /\ End(t, e) <= UNITS
      BY <1>4, <1>10, Apart DEF End
    <2>2. End(t, e) <= End(mem, e)
      <3>1. ent_trunc(mem, e, size)[e].d_size <= mem[e].d_size
            /\ ent_trunc(mem, e, size)[e] \in Headers
            /\ ent_trunc(mem, e, size) \in [Units -> Contents]
        BY <1>2, <1>3, <1>4, <1>7, Cut DEF MemTypeOK, Fits
      <3>2. t[e].d_size = ent_trunc(mem, e, size)[e].d_size
        BY <1>4, <3>1 DEF t, Taken, Headers
      <3>3. mem[e].d_size \in Nat /\ End(mem, e) = e + 1 + mem[e].d_size
        BY <1>2, <1>4, Apart DEF End
      <3> QED BY <1>7, <2>1, <3>1, <3>2, <3>3
    <2> QED BY <2>1, <2>2
  <1> kept \in Nat /\ kept < t[e].d_size
    BY <1>7, <1>8, <1>9, <1>13
  <1>14. ASSUME NEW u \in Units, u \in e + 1 .. e + 1 + kept - 1
         PROVE  u \in e .. End(mem, e) - 1 /\ u \notin F
    <2>1. u \in e .. End(t, e) - 1 /\ u # e
      BY <1>7, <1>13, <1>14
    <2>2. u \in e .. End(mem, e) - 1
      BY <1>7, <1>13, <2>1
    <2>3. ASSUME NEW y \in F, y # e PROVE u # y
      <3>1. y \in y .. End(t, y) - 1
        BY <1>10, Apart DEF End
      <3> QED BY <1>10, <1>13, <2>1, <2>3, <3>1, Apart
    <2> QED BY <2>1, <2>2, <2>3
  <1>15. ASSUME NEW i \in 0 .. kept - 1
         PROVE  c[e + 1 + i] = mem[o + 1 + i]
    <2>1. /\ e + 1 + i \in Units /\ e + 1 + i \in e + 1 .. e + 1 + kept - 1
          /\ (o + 1) + ((e + 1 + i) - (e + 1)) = o + 1 + i
      BY <1>7, <1>13 DEF Units
    <2>2. o + 1 + i \in Units /\ o + 1 + i \in o .. End(mem, o) - 1 /\ o + 1 + i # o
      BY <1>7, <1>8 DEF Units
    <2>3. o + 1 + i \notin e .. End(mem, e) - 1
      BY <1>2, <1>4, <1>5, <1>7, <2>2, Apart
    <2>4. o + 1 + i \notin E
      <3> SUFFICES ASSUME o + 1 + i \in E PROVE FALSE
        OBVIOUS
      <3>1. o + 1 + i \in (o + 1 + i) .. End(mem, o + 1 + i) - 1
        BY <1>2, Apart DEF End
      <3> QED BY <1>2, <1>5, <2>2, <3>1, Apart
    <2>5. t[o + 1 + i] = mem[o + 1 + i]
      BY <1>9, <2>2, <2>3, <2>4
    <2> QED BY <1>11, <2>1, <2>5
  <1>16. ASSUME NEW y \in F PROVE c[y] = t[y]
    BY <1>11, <1>14
  <1>17. c \in [Units -> Contents]
    <2>1. ASSUME NEW u \in Units PROVE c[u] \in Contents
      <3>1. CASE u \in e + 1 .. e + 1 + kept - 1
        <4>1. (o + 1) + (u - (e + 1)) \in Units
          BY <1>7, <1>8, <3>1 DEF Units
        <4> QED BY <1>9, <1>11, <3>1, <4>1
      <3>2. CASE u \notin e + 1 .. e + 1 + kept - 1
        BY <1>9, <1>11, <3>2
      <3> QED BY <3>1, <3>2
    <2>2. c = [u \in Units |-> c[u]]
      BY DEF c, Copied
    <2> QED BY <2>1, <2>2
  <1>18. /\ o \in F /\ o \in Units /\ c[o] \in Headers
    BY <1>5, <1>10, <1>16 DEF Tiles
  <1>19. /\ m[o] \in Headers /\ ~m[o].used /\ m[o].d_size = c[o].d_size
         /\ \A u \in Units \ {o} : m[u] = c[u]
    BY <1>17, <1>18 DEF Headers
  <1>20. m \in [Units -> Contents]
    BY <1>17, <1>18, <1>19 DEF Contents
  <1> HIDE DEF m
  <1>21. Tiles(m, F)
    <2>1. \A y \in F : m[y] \in Headers /\ m[y].d_size = t[y].d_size
      BY <1>10, <1>16, <1>19 DEF Tiles
    <2> QED BY <1>10, <2>1, SameSizes
  <1>22. OthersKept(m, F, e, blk)
    <2>1. \A y \in F \ E : ~m[y].used
      BY <1>5, <1>10, <1>16, <1>19
    <2>2. ~m[held[blk].addr - 1].used
      BY <1>19 DEF o
    <2>3. \A y \in E \ {e} : (Holders(blk) /\ held[blk].addr = y + 1) \/ m[y] = mem[y]
      BY <1>4, <1>5, <1>9, <1>10, <1>16, <1>19
    <2>4. \A u \in Units \ E : u \notin e .. End(mem, e) - 1 => m[u] = mem[u]
      BY <1>5, <1>9, <1>11, <1>14, <1>19
    <2> QED BY <1>2, <1>4, <1>10, <2>1, <2>2, <2>3, <2>4, OthersStay
  <1>23. m[e].used /\ m[e].d_size = t[e].d_size
    BY <1>4, <1>7, <1>9, <1>13, <1>16, <1>19
  <1>24. ASSUME NEW i \in 0 .. w - 1 PROVE m[e + 1 + i] = Data(blk, i)
    <2>1. i \in 0 .. kept - 1
      BY <1>5, <1>7, <1>8
    <2>2. e + 1 + i \in Units /\ e + 1 + i \notin F
      <3>1. e + 1 + i \in Units /\ e + 1 + i \in e + 1 .. e + 1 + kept - 1
        BY <1>7, <1>13, <2>1 DEF Units
      <3> QED BY <1>14, <3>1
    <2>3. mem[o + 1 + i] = Data(blk, i)
      BY <1>2, <1>4, <1>5 DEF ContentsKept, Holders, w
    <2> QED BY <1>15, <1>18, <1>19, <2>1, <2>2, <2>3
  <1>25. Written(blk) = w /\ Rounded(n) = w
    BY <1>4 DEF Written, Holders, w, n
  <1>26. mem' = Filled(m, blk, e + 1, Written(blk), Rounded(n))
    <2>1. \A u \in Units : u \notin e + 1 + w .. e + 1 + w - 1
      BY <1>5, <1>7
    <2> QED BY <1>6, <1>20, <1>25, <2>1 DEF Filled
  <1>27. Rounded(n) <= m[e].d_size
    BY <1>5, <1>7, <1>8, <1>9, <1>13, <1>23, <1>25
  <1>28. /\ mem' \in [Units -> Contents]
         /\ DOMAIN held' \subseteq Blocks
         /\ held' \in [DOMAIN held' -> [addr : 1 .. UNITS - 1 \cup {ZERO}, bytes : Nat]]
         /\ Tiles(mem, F)' /\ Owned(F)' /\ ContentsKept'
         /\ \A y \in F : mem'[y] = m[y]
    <2>1. \A i \in 0 .. Rounded(n) - 1 : i < Written(blk) => m[e + 1 + i] = Data(blk, i)
      BY <1>24, <1>25
    <2>2. held' = Holding(blk, e + 1, n)
      BY <1>6
    <2> QED BY <1>2, <1>5, <1>13, <1>20, <1>21, <1>22, <1>23, <1>26, <1>27, <2>1, <2>2, Hands
  <1>29. e_next' = ent_get_next(mem', o) /\ e_next' \in Units \cup {NULL}
    <2>1. ent_get_next(c, o) = ent_get_next(m, o) /\ mem' = m
      BY <1>6, <1>19 DEF ent_get_next, End
    <2>2. ent_get_next(m, o) \in Units \cup {NULL}
      BY <1>18, <1>21, NextEntry
    <2> QED BY <1>6, <2>1, <2>2
  <1>30. MemTypeOK'
    BY <1>2, <1>3, <1>6, <1>18, <1>28, <1>29 DEF MemTypeOK
  <1>31. Loops(F)'
    <2>1. held'[blk].addr = e + 1 /\ blk \in DOMAIN held' /\ e + 1 < UNITS
      BY <1>2, <1>4, <1>6, Apart DEF Holding
    <2>2. held'[blk].addr \notin {NULL, ZERO} /\ (e + 1) - 1 = e
      BY <1>7, <2>1 DEF NULL, ZERO
    <2>3. OldSize(blk)' = t[e].d_size
      BY <1>3, <1>13, <1>23, <1>28, <2>1, <2>2 DEF OldSize, lv_mem_get_size
    <2>4. Rounded(bytes') <= OldSize(blk)'
      BY <1>3, <1>9, <2>3 DEF size
    <2>5. e' \in F /\ ~mem'[e'].used /\ e_next' = ent_get_next(mem', e')
      BY <1>6, <1>18, <1>19, <1>28, <1>29
    <2> QED BY <1>3, <1>6, <2>1, <2>2, <2>4, <2>5 DEF Loops
  <1> QED BY <1>28, <1>30, <1>31 DEF IInv, Sound

(***************************************************************************)
(* Theorems                                                                *)
(***************************************************************************)
LEMMA StepHolds == IInv /\ [MemNext]_vars => IInv'
  <1> SUFFICES ASSUME IInv, [MemNext]_vars PROVE IInv'
    OBVIOUS
  <1>1. CASE MemNext
    <2>1. ASSUME NEW b \in Blocks, AllocNothing(b) \/ FreeNothing(b) \/ Free(b)
          PROVE  IInv'
      BY <2>1, AllocNothingStep, FreeStep
    <2>2. ASSUME NEW b \in Blocks, NEW n \in Sizes, ReallocSame(b, n) \/ ReallocCut(b, n)
          PROVE  IInv'
      <3>1. n \in Nat
        BY LvMemAssumption
      <3> QED BY <2>2, <3>1, ReallocInPlaceStep
    <2>3. CASE Walks
      BY <2>3, WalkStep
    <2>4. CASE Take \/ TakeAndCopy \/ Join \/ ReallocReturns
      BY <2>4, TakeStep, TakeAndCopyStep, JoinStep, ReallocReturnsStep
    <2> QED BY <1>1, <2>1, <2>2, <2>3, <2>4 DEF MemNext, Walks
  <1>2. CASE UNCHANGED vars
    <2>1. PICK E \in SUBSET Units : Sound(E)
      BY DEF IInv
    <2>2. Sound(E)'
      <3>1. \A x, b : IsEntryOf(x, b)' <=> IsEntryOf(x, b)
        BY <1>2 DEF IsEntryOf, vars
      <3>2. Owned(E)'
        BY <1>2, <2>1, <3>1 DEF Owned, Sound, vars
      <3>3. Loops(E)'
        BY <1>2, <2>1 DEF Loops, Sound, vars, call, OldSize, lv_mem_get_size
      <3> QED BY <1>2, <2>1, <3>2, <3>3 DEF Sound, vars
    <2>3. MemTypeOK' /\ ContentsKept'
      BY <1>2 DEF IInv, MemTypeOK, ContentsKept, vars, call
    <2> QED BY <2>2, <2>3 DEF IInv
  <1> QED BY <1>1, <1>2

(* lv_mem_init lays one free entry over the pool. *)
LEMMA InitHolds == MemInit => IInv
  <1> SUFFICES ASSUME MemInit PROVE IInv
    OBVIOUS
  <1>1. UNITS \in Nat /\ UNITS > 1 /\ UNITS - 1 \in Nat /\ 0 \in Units
    BY LvMemAssumption DEF Units
  <1>2. mem[0] = Header(FALSE, UNITS - 1) /\ mem[0] \in Headers /\ mem[0].d_size = UNITS - 1
        /\ ~mem[0].used
    BY <1>1 DEF MemInit, Header, Headers
  <1>3. MemTypeOK
    <2>1. mem \in [Units -> Contents]
      BY <1>1, <1>2 DEF MemInit, Contents
    <2> QED BY <2>1 DEF MemInit, MemTypeOK
  <1>4. Tiles(mem, {0})
    <2>1. End(mem, 0) = UNITS
      <3>1. End(mem, 0) = 0 + 1 + (UNITS - 1)
        BY <1>2 DEF End
      <3> QED BY <1>1, <3>1
    <2>2. \A x, y \in {0} : ~(x < y)
      OBVIOUS
    <2>3. 0 + 1 < UNITS
      BY <1>1
    <2> QED BY <1>2, <2>1, <2>2, <2>3 DEF Tiles
  <1>5. Owned({0}) /\ ContentsKept /\ Loops({0})
    BY <1>2 DEF MemInit, Owned, ContentsKept, Loops
  <1> QED BY <1>1, <1>3, <1>4, <1>5 DEF IInv, Sound

(* The inductive invariant. *)
THEOREM MemInvariance == MemSpec => []IInv
  BY InitHolds, StepHolds, PTL DEF MemSpec

(* Types. *)
THEOREM TypeCorrect == MemSpec => []MemTypeOK
  <1>1. IInv => MemTypeOK
    BY DEF IInv
  <1> QED BY <1>1, MemInvariance, PTL

(* The pool is tiled by its entries to its end, and blocks and used        *)
(* entries belong together, in every iteration of every loop of            *)
(* lv_mem.c.                                                               *)
THEOREM PoolStaysTiled == MemSpec => []PoolTiled
  <1>1. IInv => PoolTiled
    BY DEF IInv, Sound, Owned, PoolTiled
  <1> QED BY <1>1, MemInvariance, PTL

(* Nothing lv_mem.c does changes what a caller wrote in a block it holds.  *)
THEOREM ContentsStay == MemSpec => []ContentsKept
  <1>1. IInv => ContentsKept
    BY DEF IInv
  <1> QED BY <1>1, MemInvariance, PTL

-----------------------------------------------------------------------------
(***************************************************************************)
(* LvRefr: the largest and the least of a finite set of integers.          *)
(***************************************************************************)
(* In a finite set with a transitive, irreflexive relation something has   *)
(* nothing above it: the element with the fewest above.                    *)
LEMMA Uppermost ==
    ASSUME NEW S \in SUBSET Int, IsFiniteSet(S), S # {}
    PROVE  \E x \in S : \A y \in S : x >= y
<1> DEFINE Up(x) == {y \in S : y > x}
           T == {Cardinality(Up(x)) : x \in S}
<1>1. \A x \in S : IsFiniteSet(Up(x)) /\ Cardinality(Up(x)) \in Nat
  BY FS_Subset, FS_CardinalityType
<1>2. T \in SUBSET Nat /\ T # {}
  BY <1>1
<1>3. PICK m \in T : \A n \in T : m <= n
  BY <1>2, Least
<1>4. PICK x \in S : m = Cardinality(Up(x))
  BY <1>3
<1>5. ASSUME NEW y \in S, y > x PROVE FALSE
  <2>0. \A z \in S : z \in Int
    OBVIOUS
  <2>a. \A z \in S : z > y => z > x
    BY <2>0, <1>5
  <2>b. ~(y > y)
    BY <2>0, <1>5
  <2>1. Up(y) \subseteq Up(x) /\ y \in Up(x) /\ y \notin Up(y)
    BY <1>5, <2>a, <2>b, Zenon
  <2>2. Cardinality(Up(y)) < Cardinality(Up(x))
    <3>1. PICK A, B : A = Up(x) /\ B = Up(y)
      OBVIOUS
    <3>2. IsFiniteSet(A) /\ B \subseteq A /\ B # A /\ Cardinality(A) \in Nat /\ Cardinality(B) \in Nat
      BY <3>1, <1>1, <2>1, <1>5
    <3>3. Cardinality(B) <= Cardinality(A) /\ Cardinality(B) # Cardinality(A)
      BY ONLY <3>2, FS_Subset
    <3> QED  BY ONLY <3>1, <3>2, <3>3
  <2>3. Cardinality(Up(y)) \in T
    BY <1>5
  <2> HIDE DEF Up, T
  <2> QED  BY <2>2, <2>3, <1>3, <1>4, <1>1, <1>5
<1> QED  BY <1>5

LEMMA MaxMin ==
    ASSUME NEW S \in SUBSET Int, IsFiniteSet(S), S # {}
    PROVE  /\ Max(S) \in S /\ \A y \in S : Max(S) >= y
           /\ Min(S) \in S /\ \A y \in S : Min(S) <= y
<1>1. \E x \in S : \A y \in S : x >= y
  BY Uppermost
<1>2. \E x \in S : \A y \in S : x <= y
  <2> DEFINE N == {-x : x \in S}
  <2>0. \A x \in S : x \in Int /\ -x \in Int
    OBVIOUS
  <2>1. N \in SUBSET Int /\ N # {}
    BY <2>0
  <2>2. IsFiniteSet(N)
    <3> DEFINE f == [x \in S |-> -x]
    <3>1. N = {f[x] : x \in S} /\ f \in [S -> N]
      OBVIOUS
    <3>2. f \in Surjection(S, N)
      BY <3>1 DEF Surjection
    <3> QED  BY <3>2, FS_Surjection
  <2> HIDE DEF N
  <2>3. PICK n \in N : \A y \in N : n >= y
    BY <2>1, <2>2, Uppermost
  <2>4. PICK x \in S : n = -x
    BY <2>3 DEF N
  <2>5. ASSUME NEW y \in S PROVE x <= y
    <3>1. -y \in N
      BY DEF N
    <3> QED  BY <3>1, <2>3, <2>4, <2>0
  <2> QED  BY <2>5
<1> QED  BY <1>1, <1>2 DEF Max, Min

LEMMA ImageFinite ==
    ASSUME NEW S, IsFiniteSet(S), NEW f, DOMAIN f = S
    PROVE  IsFiniteSet({f[x] : x \in S})
<1> DEFINE T == {f[x] : x \in S}
           g == [x \in S |-> f[x]]
<1>1. g \in Surjection(S, T)
  BY DEF Surjection
<1> QED  BY <1>1, FS_Surjection

(***************************************************************************)
(* Areas.                                                                  *)
(***************************************************************************)
LEMMA AreaFields ==
    ASSUME NEW x1 \in Int, NEW y1 \in Int, NEW x2 \in Int, NEW y2 \in Int
    PROVE  Area(x1, y1, x2, y2) \in Areas
BY DEF Area, Areas

LEMMA IntersectArea ==
    ASSUME NEW a \in Areas, NEW b \in Areas
    PROVE  lv_area_intersect(a, b) \in Areas
BY DEF Areas, Area, lv_area_intersect, Upper, Lower

LEMMA GrownArea ==
    ASSUME NEW a \in Areas, NEW n \in Nat
    PROVE  Grown(a, n) \in Areas
BY DEF Areas, Area, Grown

LEMMA MovedArea ==
    ASSUME NEW a \in Areas, NEW x \in Int, NEW y \in Int
    PROVE  Moved(a, x, y) \in Areas
BY DEF Areas, Area, Moved

LEMMA ScreenArea == Screen \in Areas /\ ~Empty(Screen) /\ lv_area_is_in(Screen, Screen)
BY LvRefrAssumption DEF Screen, Area, Areas, Empty, lv_area_is_in

LEMMA CommonArea ==
    ASSUME NEW S \in SUBSET Areas, IsFiniteSet(S), S # {}
    PROVE  Common(S) \in Areas
<1>1. ASSUME NEW f \in [S -> Int]
      PROVE  Max({f[a] : a \in S}) \in Int /\ Min({f[a] : a \in S}) \in Int
  <2>1. IsFiniteSet({f[a] : a \in S})
    BY ImageFinite
  <2>2. {f[a] : a \in S} \in SUBSET Int /\ {f[a] : a \in S} # {}
    OBVIOUS
  <2> QED  BY <2>1, <2>2, MaxMin
<1> DEFINE X1 == [a \in S |-> a.x1]
           Y1 == [a \in S |-> a.y1]
           X2 == [a \in S |-> a.x2]
           Y2 == [a \in S |-> a.y2]
<1>2. /\ X1 \in [S -> Int] /\ Y1 \in [S -> Int]
      /\ X2 \in [S -> Int] /\ Y2 \in [S -> Int]
  BY DEF Areas
<1>3. /\ {X1[a] : a \in S} = {a.x1 : a \in S} /\ {Y1[a] : a \in S} = {a.y1 : a \in S}
      /\ {X2[a] : a \in S} = {a.x2 : a \in S} /\ {Y2[a] : a \in S} = {a.y2 : a \in S}
  OBVIOUS
<1> HIDE DEF X1, Y1, X2, Y2
<1>4. /\ Max({X1[a] : a \in S}) \in Int /\ Max({Y1[a] : a \in S}) \in Int
      /\ Min({X2[a] : a \in S}) \in Int /\ Min({Y2[a] : a \in S}) \in Int
  BY <1>1, <1>2
<1> QED  BY <1>3, <1>4, AreaFields DEF Common

(* A join holds both of its areas, and stays on the screen. *)
LEMMA JoinHolds ==
    ASSUME NEW a \in Areas, NEW b \in Areas, ~Empty(a), ~Empty(b),
           lv_area_is_in(a, Screen), lv_area_is_in(b, Screen)
    PROVE  /\ lv_area_join(a, b) \in Areas
           /\ ~Empty(lv_area_join(a, b)) /\ lv_area_is_in(lv_area_join(a, b), Screen)
           /\ \A p \in Pixels : On(p, a) \/ On(p, b) => On(p, lv_area_join(a, b))
<1> USE LvRefrAssumption DEF Areas, Area, Empty, lv_area_is_in, Screen, lv_area_join, Lower, Upper
<1>1. /\ lv_area_join(a, b) \in Areas
      /\ ~Empty(lv_area_join(a, b)) /\ lv_area_is_in(lv_area_join(a, b), Screen)
  OBVIOUS
<1>2. ASSUME NEW p \in Pixels, On(p, a) \/ On(p, b) PROVE On(p, lv_area_join(a, b))
  <2>1. p[1] \in Int /\ p[2] \in Int
    BY DEF Pixels
  <2>2. PICK c : c = lv_area_join(a, b)
    OBVIOUS
  <2>3. a \in Areas /\ b \in Areas /\ c \in Areas
    BY <1>1, <2>2
  <2>4. /\ c.x1 <= a.x1 /\ c.x1 <= b.x1 /\ c.y1 <= a.y1 /\ c.y1 <= b.y1
        /\ a.x2 <= c.x2 /\ b.x2 <= c.x2 /\ a.y2 <= c.y2 /\ b.y2 <= c.y2
    BY ONLY <2>2, <2>3 DEF Areas, Area, lv_area_join, Lower, Upper
  <2> QED  BY ONLY <1>2, <2>1, <2>2, <2>3, <2>4 DEF On, Areas
<1> QED  BY <1>1, <1>2

LEMMA OnScreen == \A p \in Pixels : On(p, Screen)
BY LvRefrAssumption DEF On, Screen, Pixels, Area

(***************************************************************************)
(* A part of an area.                                                      *)
(***************************************************************************)
LEMMA Quotient ==
    ASSUME NEW v \in Nat, NEW w \in Nat \ {0}
    PROVE  /\ v \div w \in Nat
           /\ w * (v \div w) <= v
           /\ w <= v => v \div w >= 1
OBVIOUS

LEMMA Times ==
    ASSUME NEW w \in Nat, NEW h \in Nat, NEW k \in Nat, h <= k
    PROVE  w * h <= w * k
OBVIOUS

RowsOK(a, r) == a \in Areas /\ ~Empty(a) /\ lv_area_is_in(a, Screen) /\ r \in a.y1 .. a.y2 + 1

LEMMA MaxRow ==
    ASSUME NEW a \in Areas, ~Empty(a), lv_area_is_in(a, Screen)
    PROVE  /\ Width(a) \in Nat \ {0} /\ Height(a) \in Nat \ {0}
           /\ max_row(a) \in Nat \ {0}
           /\ Width(a) * max_row(a) <= VDB_SIZE
           /\ LastRow(a) = a.y2
<1>0. /\ VDB_SIZE \in Nat /\ HOR_RES \in Nat /\ VER_RES \in Nat /\ VDB_SIZE >= HOR_RES
      /\ a.x1 \in Int /\ a.x2 \in Int /\ a.y1 \in Int /\ a.y2 \in Int
  BY LvRefrAssumption DEF Areas
<1>a. /\ a.x1 <= a.x2 /\ a.y1 <= a.y2
      /\ 0 <= a.x1 /\ 0 <= a.y1 /\ a.x2 <= HOR_RES - 1 /\ a.y2 <= VER_RES - 1
  BY <1>0 DEF Empty, lv_area_is_in, Screen, Area
<1>1. /\ Width(a) \in Nat \ {0} /\ Height(a) \in Nat \ {0}
      /\ Width(a) <= VDB_SIZE
      /\ LastRow(a) = a.y2
  BY <1>0, <1>a DEF Width, Height, LastRow, Lower
<1>2. PICK w, q : w = Width(a) /\ q = VDB_SIZE \div w
  OBVIOUS
<1>3. w \in Nat \ {0} /\ w <= VDB_SIZE /\ VDB_SIZE \in Nat
  BY <1>0, <1>1, <1>2
<1>4. q \in Nat \ {0} /\ w * q <= VDB_SIZE
  BY <1>2, <1>3, Quotient
<1>5. max_row(a) = Lower(q, Height(a))
  BY <1>2 DEF max_row
<1>6. max_row(a) \in Nat \ {0} /\ max_row(a) <= q
  BY <1>1, <1>4, <1>5 DEF Lower
<1>7. w * max_row(a) <= w * q /\ w * max_row(a) \in Nat /\ w * q \in Nat
  BY <1>3, <1>4, <1>6, Times
<1> QED  BY <1>1, <1>2, <1>3, <1>4, <1>6, <1>7

LEMMA PartFits ==
    ASSUME NEW a, NEW r, RowsOK(a, r)
    PROVE  /\ lv_area_is_in(Part(a, r), a)
           /\ Empty(Part(a, r)) \/ lv_area_get_size(Part(a, r)) <= VDB_SIZE
<1>0. /\ a \in Areas /\ ~Empty(a) /\ lv_area_is_in(a, Screen)
      /\ r \in a.y1 .. a.y2 + 1
  BY DEF RowsOK
<1>1. PICK w, m : w = Width(a) /\ m = max_row(a)
  OBVIOUS
<1>2. /\ w \in Nat \ {0} /\ m \in Nat \ {0} /\ w * m <= VDB_SIZE /\ LastRow(a) = a.y2
  BY <1>0, <1>1, MaxRow
<1>3. PICK y : y = Lower(r + m - 1, a.y2)
  OBVIOUS
<1>4. Part(a, r) = Area(a.x1, r, a.x2, y)
  BY <1>1, <1>2, <1>3 DEF Part
<1>5. a.x1 \in Int /\ a.x2 \in Int /\ a.y1 \in Int /\ a.y2 \in Int /\ r \in Int
  BY <1>0 DEF Areas
<1>6. y \in Int /\ y <= a.y2 /\ y - r + 1 <= m
  BY <1>2, <1>3, <1>5 DEF Lower
<1>7. lv_area_is_in(Part(a, r), a)
  BY <1>0, <1>4, <1>5, <1>6 DEF lv_area_is_in, Area
<1>8. ASSUME ~Empty(Part(a, r)) PROVE lv_area_get_size(Part(a, r)) <= VDB_SIZE
  <2>1. y - r + 1 \in Nat
    BY <1>4, <1>5, <1>6, <1>8 DEF Empty, Area
  <2>2. lv_area_get_size(Part(a, r)) = w * (y - r + 1)
    BY <1>1, <1>4 DEF lv_area_get_size, Width, Height, Area
  <2>3. w * (y - r + 1) <= w * m /\ w * (y - r + 1) \in Nat /\ w * m \in Nat
    BY <2>1, <1>2, <1>6, Times
  <2> QED  BY <2>2, <2>3, <1>2, LvRefrAssumption
<1> QED  BY <1>7, <1>8

(***************************************************************************)
(* The buffer of invalid areas.                                            *)
(***************************************************************************)
Entries == [area : Areas, joined : BOOLEAN]

Waits(buf, p) == \E i \in DOMAIN buf : ~buf[i].joined /\ On(p, buf[i].area)

Fifo(buf) ==
    /\ buf \in Seq(Entries)
    /\ Len(buf) <= INV_FIFO_SIZE
    /\ \A i \in DOMAIN buf : ~Empty(buf[i].area) /\ lv_area_is_in(buf[i].area, Screen)

Distinct(buf) ==
    \A i \in DOMAIN buf :
        /\ ~buf[i].joined
        /\ \A j \in 1 .. i - 1 : ~lv_area_is_in(buf[i].area, buf[j].area)

(* new is sound, and every pixel that waits in old waits in it. *)
KeepsWaiting(old, new) ==
    /\ Fifo(new) /\ Distinct(new)
    /\ \A p \in Pixels : Waits(old, p) => Waits(new, p)

LEMMA KeepsChain ==
    ASSUME NEW a, NEW b, NEW c, KeepsWaiting(a, b), KeepsWaiting(b, c)
    PROVE  KeepsWaiting(a, c)
BY DEF KeepsWaiting

LEMMA SavedKeeps ==
    ASSUME NEW buf, Fifo(buf), Distinct(buf), NEW a \in Areas, ~Empty(a), lv_area_is_in(a, Screen)
    PROVE  KeepsWaiting(buf, Saved(buf, a))
<1>0. /\ buf \in Seq(Entries) /\ Len(buf) \in Nat /\ DOMAIN buf = 1 .. Len(buf)
      /\ INV_FIFO_SIZE \in Nat \ {0}
  BY LvRefrAssumption DEF Fifo
<1>1. CASE \E i \in DOMAIN buf : lv_area_is_in(a, buf[i].area)
  BY <1>1 DEF Saved, KeepsWaiting
<1>2. CASE /\ ~\E i \in DOMAIN buf : lv_area_is_in(a, buf[i].area)
           /\ Len(buf) < INV_FIFO_SIZE
  <2>1. PICK new : new = Append(buf, Entry(a))
    OBVIOUS
  <2>2. Saved(buf, a) = new
    BY <1>2, <2>1 DEF Saved
  <2>3. Entry(a) \in Entries /\ Entry(a).area = a /\ Entry(a).joined = FALSE
    BY DEF Entry, Entries
  <2>4. /\ new \in Seq(Entries) /\ Len(new) = Len(buf) + 1 /\ DOMAIN new = 1 .. Len(buf) + 1
        /\ new[Len(buf) + 1] = Entry(a)
        /\ \A i \in 1 .. Len(buf) : new[i] = buf[i]
    BY <1>0, <2>1, <2>3
  <2>5. Fifo(new)
    BY <1>0, <1>2, <2>3, <2>4 DEF Fifo
  <2>6. Distinct(new)
    <3> SUFFICES ASSUME NEW i \in 1 .. Len(buf) + 1
                 PROVE  /\ ~new[i].joined
                        /\ \A j \in 1 .. i - 1 : ~lv_area_is_in(new[i].area, new[j].area)
      BY <2>4 DEF Distinct
    <3>1. CASE i = Len(buf) + 1
      <4>1. \A j \in 1 .. i - 1 : new[j] = buf[j] /\ ~lv_area_is_in(a, buf[j].area)
        BY <3>1, <1>0, <1>2, <2>4
      <4> QED  BY <3>1, <4>1, <2>3, <2>4
    <3>2. CASE i # Len(buf) + 1
      <4>1. i \in DOMAIN buf /\ new[i] = buf[i] /\ \A j \in 1 .. i - 1 : new[j] = buf[j]
        BY <3>2, <1>0, <2>4
      <4> QED  BY <4>1 DEF Distinct
    <3> QED  BY <3>1, <3>2
  <2>7. ASSUME NEW p \in Pixels, Waits(buf, p) PROVE Waits(new, p)
    BY <2>7, <1>0, <2>4 DEF Waits
  <2> QED  BY <2>2, <2>5, <2>6, <2>7 DEF KeepsWaiting
<1>3. CASE /\ ~\E i \in DOMAIN buf : lv_area_is_in(a, buf[i].area)
           /\ ~(Len(buf) < INV_FIFO_SIZE)
  <2>1. PICK new : new = <<Entry(Screen)>>
    OBVIOUS
  <2>2. Saved(buf, a) = new
    BY <1>3, <2>1 DEF Saved
  <2>3. Entry(Screen) \in Entries /\ Entry(Screen).area = Screen /\ Entry(Screen).joined = FALSE
    BY ScreenArea DEF Entry, Entries
  <2>4. new \in Seq(Entries) /\ Len(new) = 1 /\ DOMAIN new = {1} /\ new[1] = Entry(Screen)
    BY <2>1, <2>3
  <2>5. Fifo(new) /\ Distinct(new)
    BY <1>0, <2>3, <2>4, ScreenArea DEF Fifo, Distinct
  <2>6. \A p \in Pixels : Waits(new, p)
    BY <2>3, <2>4, OnScreen DEF Waits
  <2> QED  BY <2>2, <2>5, <2>6 DEF KeepsWaiting
<1> QED  BY <1>1, <1>2, <1>3

LEMMA InvAreaKeeps ==
    ASSUME NEW buf, Fifo(buf), Distinct(buf), NEW a \in Areas
    PROVE  KeepsWaiting(buf, lv_inv_area(buf, a))
<1>1. PICK c : c = lv_area_intersect(a, Screen)
  OBVIOUS
<1>2. c \in Areas
  BY <1>1, IntersectArea, ScreenArea
<1>3. lv_area_is_in(c, Screen)
  BY <1>1, LvRefrAssumption
     DEF lv_area_is_in, lv_area_intersect, Screen, Area, Upper, Lower, Areas
<1>4. lv_inv_area(buf, a) = IF Empty(c) THEN buf ELSE Saved(buf, c)
  BY <1>1 DEF lv_inv_area
<1>5. KeepsWaiting(buf, buf)
  BY DEF KeepsWaiting
<1> QED  BY <1>2, <1>3, <1>4, <1>5, SavedKeeps

TreeOK(t) ==
    /\ t.coords \in [All -> Areas]
    /\ t.ext \in [All -> Nat]

LEMMA InvalidateKeeps ==
    ASSUME NEW buf, Fifo(buf), Distinct(buf), NEW t, TreeOK(t), NEW o \in All
    PROVE  KeepsWaiting(buf, lv_obj_invalidate(buf, t, o))
<1>1. PICK above : above = Ancestors(t, o)
  OBVIOUS
<1>2. above \subseteq All /\ IsFiniteSet(above)
  <2>1. above \subseteq All
    BY <1>1 DEF Ancestors
  <2>2. IsFiniteSet(All)
    BY LvRefrAssumption, FS_AddElement DEF All
  <2> QED  BY <2>1, <2>2, FS_Subset
<1>3. PICK S : S = {Grown(t.coords[o], t.ext[o])} \cup {t.coords[q] : q \in above}
  OBVIOUS
<1>4. Common(S) \in Areas
  <2>1. Grown(t.coords[o], t.ext[o]) \in Areas
    BY GrownArea DEF TreeOK
  <2>2. S \in SUBSET Areas /\ S # {}
    BY <1>2, <1>3, <2>1 DEF TreeOK
  <2>3. IsFiniteSet(S)
    <3>1. IsFiniteSet({t.coords[q] : q \in above})
      <4> DEFINE f == [q \in above |-> t.coords[q]]
      <4>1. IsFiniteSet({f[q] : q \in above})
        BY <1>2, ImageFinite
      <4> QED  BY <4>1
    <3>2. IsFiniteSet({Grown(t.coords[o], t.ext[o])})
      BY FS_Singleton
    <3> QED  BY <1>3, <3>1, <3>2, FS_Union
  <2> QED  BY <2>2, <2>3, CommonArea
<1>5. \/ lv_obj_invalidate(buf, t, o) = buf
      \/ lv_obj_invalidate(buf, t, o) = lv_inv_area(buf, Common(S))
  BY <1>1, <1>3 DEF lv_obj_invalidate
<1>6. KeepsWaiting(buf, buf)
  BY DEF KeepsWaiting
<1> QED  BY <1>4, <1>5, <1>6, InvAreaKeeps

(***************************************************************************)
(* The invariant.  While an area is drawn it is one that was not joined    *)
(* away, and the row lies in it or behind it.                              *)
(***************************************************************************)
Drawing ==
    at = "rows" => /\ cur \in DOMAIN inv_buf /\ ~inv_buf[cur].joined
                   /\ RowsOK(Area_p, row)

RefrInv ==
    /\ RefrTypeOK
    /\ Fifo(inv_buf)
    /\ at = "idle" => Distinct(inv_buf)
    /\ Drawing

(* What every setter does. *)
Sets ==
    /\ coords' \in [All -> Areas] /\ ext' \in [All -> Nat]
    /\ hidden' \subseteq All /\ style' \in [All -> Styles]
    /\ par' \in [All -> All \cup {None}]
    /\ KeepsWaiting(inv_buf, inv_buf')

LEMMA TwiceKeeps ==
    ASSUME RefrInv, at = "idle", NEW o \in All, NEW t, TreeOK(t)
    PROVE  KeepsWaiting(inv_buf, Twice(o, t))
<1>1. Fifo(inv_buf) /\ Distinct(inv_buf) /\ TreeOK(Now)
  BY DEF RefrInv, RefrTypeOK, TreeOK, Now, Tree
<1>2. PICK buf : buf = lv_obj_invalidate(inv_buf, Now, o)
  OBVIOUS
<1>3. KeepsWaiting(inv_buf, buf)
  BY <1>1, <1>2, InvalidateKeeps
<1>4. KeepsWaiting(buf, lv_obj_invalidate(buf, t, o))
  BY <1>3, InvalidateKeeps DEF KeepsWaiting
<1> QED  BY <1>2, <1>3, <1>4, KeepsChain DEF Twice

LEMMA AtType ==
    ASSUME RefrTypeOK, NEW o \in All, NEW q \in All, NEW spot \in Int \X Int
    PROVE  At(o, q, spot) \in [All -> Areas]
<1>1. PICK dx, dy : /\ dx = spot[1] + coords[q].x1 - coords[o].x1
                    /\ dy = spot[2] + coords[q].y1 - coords[o].y1
  OBVIOUS
<1>2. dx \in Int /\ dy \in Int
  <2>1. coords[q] \in Areas /\ coords[o] \in Areas /\ spot[1] \in Int /\ spot[2] \in Int
    BY DEF RefrTypeOK
  <2> QED  BY ONLY <1>1, <2>1 DEF Areas
<1>3. At(o, q, spot) = [b \in All |-> IF b \in Below(o) THEN Moved(coords[b], dx, dy) ELSE coords[b]]
  BY <1>1 DEF At
<1>4. \A b \in All : coords[b] \in Areas /\ Moved(coords[b], dx, dy) \in Areas
  BY <1>2, MovedArea DEF RefrTypeOK
<1> QED  BY <1>3, <1>4

LEMMA SetPos ==
    ASSUME RefrInv, NEW o \in Live \ {Scr}, NEW spot \in Spots, lv_obj_set_pos(o, spot)
    PROVE  Sets
<1>1. o \in All /\ par[o] \in All /\ spot \in Int \X Int /\ at = "idle"
  BY LvRefrAssumption DEF Live, lv_obj_set_pos, Call, RefrInv, RefrTypeOK
<1>2. At(o, par[o], spot) \in [All -> Areas]
  BY <1>1, AtType DEF RefrInv
<1>3. PICK t : t = Tree(At(o, par[o], spot), ext, hidden, par)
  OBVIOUS
<1>4. TreeOK(t)
  BY <1>2, <1>3 DEF TreeOK, Tree, RefrInv, RefrTypeOK
<1>5. KeepsWaiting(inv_buf, Twice(o, t))
  BY <1>1, <1>4, TwiceKeeps
<1> QED  BY <1>2, <1>3, <1>5 DEF Sets, lv_obj_set_pos, RefrInv, RefrTypeOK

LEMMA SetSize ==
    ASSUME RefrInv, NEW o \in Live \ {Scr}, NEW dim \in Dims, lv_obj_set_size(o, dim)
    PROVE  Sets
<1>1. o \in All /\ dim \in Nat \X Nat /\ at = "idle"
  BY LvRefrAssumption DEF Live, lv_obj_set_size, Call
<1>2. PICK a, b : /\ a = coords[o]
                  /\ b = Area(a.x1, a.y1, a.x1 + dim[1] - 1, a.y1 + dim[2] - 1)
  OBVIOUS
<1>3. b \in Areas
  <2>1. a \in Areas /\ dim[1] \in Nat /\ dim[2] \in Nat
    BY <1>1, <1>2 DEF RefrInv, RefrTypeOK
  <2> QED  BY ONLY <1>2, <2>1 DEF Areas, Area
<1>4. PICK t : t = Tree([coords EXCEPT ![o] = b], ext, hidden, par)
  OBVIOUS
<1>5. [coords EXCEPT ![o] = b] \in [All -> Areas]
  BY <1>3 DEF RefrInv, RefrTypeOK
<1>6. TreeOK(t)
  BY <1>4, <1>5 DEF TreeOK, Tree, RefrInv, RefrTypeOK
<1>7. KeepsWaiting(inv_buf, Twice(o, t))
  BY <1>1, <1>6, TwiceKeeps
<1>8. /\ coords' = [coords EXCEPT ![o] = b]
      /\ inv_buf' = Twice(o, t)
      /\ UNCHANGED <<ext, hidden, style, par>>
  BY <1>2, <1>4 DEF lv_obj_set_size
<1> QED  BY <1>5, <1>7, <1>8 DEF Sets, RefrInv, RefrTypeOK

LEMMA SetHidden ==
    ASSUME RefrInv, NEW o \in Live \ {Scr}, NEW en \in BOOLEAN, lv_obj_set_hidden(o, en)
    PROVE  Sets
<1>1. o \in All /\ at = "idle"
  BY DEF Live, lv_obj_set_hidden, Call
<1>2. PICK h : h = IF en THEN hidden \cup {o} ELSE hidden \ {o}
  OBVIOUS
<1>3. h \subseteq All
  BY <1>1, <1>2 DEF RefrInv, RefrTypeOK
<1>4. TreeOK(Tree(coords, ext, h, par))
  BY DEF TreeOK, Tree, RefrInv, RefrTypeOK
<1>5. KeepsWaiting(inv_buf, Twice(o, Tree(coords, ext, h, par)))
  BY <1>1, <1>4, TwiceKeeps
<1>6. /\ hidden' = h
      /\ inv_buf' = Twice(o, Tree(coords, ext, h, par))
      /\ UNCHANGED <<coords, ext, style, par>>
  BY <1>2 DEF lv_obj_set_hidden
<1> QED  BY <1>3, <1>5, <1>6 DEF Sets, RefrInv, RefrTypeOK

LEMMA SetStyle ==
    ASSUME RefrInv, NEW o \in Live \ {Scr}, NEW st \in Styles, lv_obj_set_style(o, st)
    PROVE  Sets
<1>1. o \in All /\ at = "idle" /\ st.shadow \in Nat
  BY LvRefrAssumption DEF Live, lv_obj_set_style, Call, AllStyles
<1>2. PICK grown : grown = [ext EXCEPT ![o] = st.shadow]
  OBVIOUS
<1>3. grown \in [All -> Nat]
  BY <1>1, <1>2 DEF RefrInv, RefrTypeOK
<1>4. TreeOK(Tree(coords, grown, hidden, par))
  BY <1>3 DEF TreeOK, Tree, RefrInv, RefrTypeOK
<1>5. KeepsWaiting(inv_buf, Twice(o, Tree(coords, grown, hidden, par)))
  BY <1>1, <1>4, TwiceKeeps
<1>6. /\ ext' = grown
      /\ style' = [style EXCEPT ![o] = st]
      /\ inv_buf' = Twice(o, Tree(coords, grown, hidden, par))
      /\ UNCHANGED <<coords, hidden, par>>
  BY <1>2 DEF lv_obj_set_style
<1>7. style' \in [All -> Styles]
  BY <1>6 DEF RefrInv, RefrTypeOK
<1> QED  BY <1>3, <1>5, <1>6, <1>7 DEF Sets, RefrInv, RefrTypeOK

LEMMA SetParent ==
    ASSUME RefrInv, NEW o \in Live \ {Scr}, NEW q \in Live, lv_obj_set_parent(o, q)
    PROVE  Sets
<1>1. o \in All /\ q \in All /\ par[o] \in All /\ at = "idle"
  BY DEF Live, lv_obj_set_parent, Call, RefrInv, RefrTypeOK
<1>2. PICK spot, there, p :
        /\ spot = <<coords[o].x1 - coords[par[o]].x1, coords[o].y1 - coords[par[o]].y1>>
        /\ there = At(o, q, spot)
        /\ p = [par EXCEPT ![o] = q]
  OBVIOUS
<1>3. there \in [All -> Areas]
  <2>1. coords[o] \in Areas /\ coords[par[o]] \in Areas
    BY <1>1 DEF RefrInv, RefrTypeOK
  <2>2. spot \in Int \X Int
    BY ONLY <1>2, <2>1 DEF Areas
  <2> QED  BY <1>1, <1>2, <2>2, AtType DEF RefrInv
<1>4. p \in [All -> All \cup {None}]
  BY <1>1, <1>2 DEF RefrInv, RefrTypeOK
<1>5. PICK before, after, old, mid :
        /\ before = Tree(coords, ext, hidden, p)
        /\ after = Tree(there, ext, hidden, p)
        /\ old = lv_obj_invalidate(inv_buf, Now, o)
        /\ mid = lv_obj_invalidate(old, before, o)
  OBVIOUS
<1>6. PICK moved : moved = IF there = coords THEN old ELSE lv_obj_invalidate(mid, after, o)
  OBVIOUS
<1>7. TreeOK(Now) /\ TreeOK(before) /\ TreeOK(after)
  BY <1>3, <1>5 DEF TreeOK, Tree, Now, RefrInv, RefrTypeOK
<1>8. KeepsWaiting(inv_buf, old)
  BY <1>1, <1>5, <1>7, InvalidateKeeps DEF RefrInv
<1>9. KeepsWaiting(old, mid)
  BY <1>1, <1>5, <1>7, <1>8, InvalidateKeeps DEF KeepsWaiting
<1>10. KeepsWaiting(mid, lv_obj_invalidate(mid, after, o))
  BY <1>1, <1>7, <1>9, InvalidateKeeps DEF KeepsWaiting
<1>11. KeepsWaiting(inv_buf, moved)
  BY <1>6, <1>8, <1>9, <1>10, KeepsChain
<1>12. KeepsWaiting(moved, lv_obj_invalidate(moved, after, o))
  BY <1>1, <1>7, <1>11, InvalidateKeeps DEF KeepsWaiting
<1>13. KeepsWaiting(inv_buf, lv_obj_invalidate(moved, after, o))
  BY <1>11, <1>12, KeepsChain
<1>14. /\ par' = p /\ coords' = there
       /\ inv_buf' = lv_obj_invalidate(moved, after, o)
       /\ UNCHANGED <<ext, hidden, style>>
  BY <1>2, <1>5, <1>6 DEF lv_obj_set_parent
<1> QED  BY <1>3, <1>4, <1>13, <1>14 DEF Sets, RefrInv, RefrTypeOK

LEMMA Delete ==
    ASSUME RefrInv, NEW o \in Live \ {Scr}, lv_obj_del(o)
    PROVE  Sets
<1>1. o \in All /\ at = "idle" /\ TreeOK(Now)
  BY DEF Live, lv_obj_del, Call, TreeOK, Now, Tree, RefrInv, RefrTypeOK
<1>2. KeepsWaiting(inv_buf, inv_buf')
  BY <1>1, InvalidateKeeps DEF lv_obj_del, RefrInv
<1>3. par' \in [All -> All \cup {None}] /\ hidden' \subseteq All
  BY DEF lv_obj_del, RefrInv, RefrTypeOK
<1> QED  BY <1>2, <1>3 DEF Sets, lv_obj_del, RefrInv, RefrTypeOK

LEMMA SettersStep ==
    ASSUME RefrInv, Setters
    PROVE  Sets /\ Call
<1>1. PICK o \in Live \ {Scr} :
        \/ \E spot \in Spots : lv_obj_set_pos(o, spot)
        \/ \E dim \in Dims : lv_obj_set_size(o, dim)
        \/ \E en \in BOOLEAN : lv_obj_set_hidden(o, en)
        \/ \E st \in Styles : lv_obj_set_style(o, st)
        \/ \E q \in Live : lv_obj_set_parent(o, q)
        \/ lv_obj_del(o)
  BY DEF Setters
<1>2. CASE \E spot \in Spots : lv_obj_set_pos(o, spot)
  BY <1>2, SetPos DEF lv_obj_set_pos
<1>3. CASE \E dim \in Dims : lv_obj_set_size(o, dim)
  BY <1>3, SetSize DEF lv_obj_set_size
<1>4. CASE \E en \in BOOLEAN : lv_obj_set_hidden(o, en)
  BY <1>4, SetHidden DEF lv_obj_set_hidden
<1>5. CASE \E st \in Styles : lv_obj_set_style(o, st)
  BY <1>5, SetStyle DEF lv_obj_set_style
<1>6. CASE \E q \in Live : lv_obj_set_parent(o, q)
  BY <1>6, SetParent DEF lv_obj_set_parent
<1>7. CASE lv_obj_del(o)
  BY <1>7, Delete DEF lv_obj_del
<1> QED  BY <1>1, <1>2, <1>3, <1>4, <1>5, <1>6, <1>7

(***************************************************************************)
(* The refresh.                                                            *)
(***************************************************************************)
(* No pixel stops to wait when an area is joined into another. *)
LEMMA JoinedKeeps ==
    ASSUME NEW buf, Fifo(buf), NEW in \in DOMAIN buf, NEW from \in DOMAIN buf, ~buf[in].joined
    PROVE  /\ Fifo(Joined(buf, in, from))
           /\ \A p \in Pixels : Waits(buf, p) => Waits(Joined(buf, in, from), p)
<1>0. /\ buf \in Seq(Entries) /\ DOMAIN buf = 1 .. Len(buf) /\ Len(buf) \in Nat
      /\ \A i \in DOMAIN buf : buf[i] \in Entries
  BY DEF Fifo
<1>1. CASE ~(in # from /\ ~buf[from].joined /\ Worthwhile(buf[in].area, buf[from].area))
  BY <1>1 DEF Joined
<1>2. CASE in # from /\ ~buf[from].joined /\ Worthwhile(buf[in].area, buf[from].area)
  <2>1. PICK c : c = lv_area_join(buf[in].area, buf[from].area)
    OBVIOUS
  <2>2. /\ c \in Areas /\ ~Empty(c) /\ lv_area_is_in(c, Screen)
        /\ \A p \in Pixels : On(p, buf[in].area) \/ On(p, buf[from].area) => On(p, c)
    <3>1. PICK a, b : a = buf[in].area /\ b = buf[from].area
      OBVIOUS
    <3>2. /\ a \in Areas /\ b \in Areas /\ ~Empty(a) /\ ~Empty(b)
          /\ lv_area_is_in(a, Screen) /\ lv_area_is_in(b, Screen)
      BY <1>0, <3>1 DEF Fifo, Entries
    <3> QED  BY <2>1, <3>1, <3>2, JoinHolds
  <2>3. PICK new : new = Joined(buf, in, from)
    OBVIOUS
  <2>4. new = [buf EXCEPT ![in].area = c, ![from].joined = TRUE]
    BY <1>2, <2>1, <2>3 DEF Joined
  <2>5. /\ DOMAIN new = DOMAIN buf
        /\ new[in] = [area |-> c, joined |-> FALSE]
        /\ new[from].area = buf[from].area /\ new[from] \in Entries
        /\ \A i \in DOMAIN buf \ {in, from} : new[i] = buf[i]
    <3>1. buf[in] \in Entries /\ buf[from] \in Entries
      BY <1>0
    <3> QED  BY ONLY <1>2, <2>2, <2>4, <3>1, in \in DOMAIN buf, from \in DOMAIN buf, ~buf[in].joined DEF Entries
  <2>6. [area |-> c, joined |-> FALSE] \in Entries
    BY <2>2 DEF Entries
  <2>7. new \in Seq(Entries) /\ Len(new) = Len(buf)
    <3>1. new \in [1 .. Len(buf) -> Entries]
      <4>1. \A i \in 1 .. Len(buf) : new[i] \in Entries
        BY <1>0, <2>5, <2>6
      <4>2. new = [i \in 1 .. Len(buf) |-> new[i]]
        BY <1>0, <2>4
      <4> QED  BY <4>1, <4>2
    <3> QED  BY <1>0, <3>1
  <2>8. Fifo(new)
    <3>1. \A i \in DOMAIN new : ~Empty(new[i].area) /\ lv_area_is_in(new[i].area, Screen)
      <4> SUFFICES ASSUME NEW i \in DOMAIN new
                   PROVE  ~Empty(new[i].area) /\ lv_area_is_in(new[i].area, Screen)
        OBVIOUS
      <4>1. CASE i = in
        BY <4>1, <2>2, <2>5
      <4>2. CASE i # in
        <5>1. i \in DOMAIN buf /\ new[i].area = buf[i].area
          BY <4>2, <2>5
        <5> QED  BY <5>1 DEF Fifo
      <4> QED  BY <4>1, <4>2
    <3> QED  BY <2>7, <3>1 DEF Fifo
  <2>9. ASSUME NEW p \in Pixels, Waits(buf, p) PROVE Waits(new, p)
    <3>1. PICK i \in DOMAIN buf : ~buf[i].joined /\ On(p, buf[i].area)
      BY <2>9 DEF Waits
    <3>2. CASE i \in {in, from}
      <4>1. On(p, new[in].area) /\ ~new[in].joined /\ in \in DOMAIN new
        BY <3>1, <3>2, <2>2, <2>5
      <4> QED  BY <4>1 DEF Waits
    <3>3. CASE i \notin {in, from}
      BY <3>1, <3>3, <2>5 DEF Waits
    <3> QED  BY <3>2, <3>3
  <2> QED  BY <2>3, <2>8, <2>9
<1> QED  BY <1>1, <1>2

(* Drawing a full part leaves the row in the area or behind it. *)
LEMMA RowMoves ==
    ASSUME NEW a, NEW r, RowsOK(a, r), r + max_row(a) - 1 <= LastRow(a)
    PROVE  RowsOK(a, r + max_row(a))
<1>1. max_row(a) \in Nat \ {0} /\ LastRow(a) = a.y2
  BY MaxRow DEF RowsOK
<1>2. a.y1 \in Int /\ a.y2 \in Int /\ r \in Int
  BY DEF RowsOK, Areas
<1>3. r + max_row(a) \in a.y1 .. a.y2 + 1
  BY <1>1, <1>2 DEF RowsOK
<1> QED  BY <1>3 DEF RowsOK

LEMMA RowNat ==
    ASSUME NEW a, NEW r, RowsOK(a, r)
    PROVE  r \in Nat
BY LvRefrAssumption DEF RowsOK, Areas, lv_area_is_in, Screen, Area

LEMMA RefrInitInv == RefrInit => RefrInv
<1> SUFFICES ASSUME RefrInit PROVE RefrInv
  OBVIOUS
<1>1. PICK s \in Scenes :
        /\ par = s.par /\ kids = s.kids /\ coords = s.coords
        /\ style = s.style /\ ext = [o \in All |-> s.style[o].shadow]
  BY DEF RefrInit
<1>2. /\ par \in [All -> All \cup {None}] /\ coords \in [All -> Areas]
      /\ style \in [All -> Styles] /\ ext \in [All -> Nat]
  BY <1>1, LvRefrAssumption DEF AllStyles
<1>3. RefrTypeOK
  BY <1>2 DEF RefrInit, RefrTypeOK
<1>4. Fifo(inv_buf) /\ Distinct(inv_buf)
  BY LvRefrAssumption DEF RefrInit, Fifo, Distinct
<1>5. Drawing
  BY DEF RefrInit, Drawing
<1> QED  BY <1>3, <1>4, <1>5 DEF RefrInv

LEMMA RefrStepInv == RefrInv /\ [RefrNext]_refr_vars => RefrInv'
<1> SUFFICES ASSUME RefrInv, [RefrNext]_refr_vars PROVE RefrInv'
  OBVIOUS
<1> USE DEF RefrInv
<1>1. CASE Setters
  <2>1. Sets /\ Call
    BY <1>1, SettersStep
  <2>2. Fifo(inv_buf)' /\ Distinct(inv_buf)'
    BY <2>1 DEF Sets, KeepsWaiting, Fifo, Distinct
  <2>3. at' = "idle"
    BY <2>1 DEF Call, refresh
  <2>4. RefrTypeOK'
    BY <2>1, <2>2 DEF RefrTypeOK, Sets, Call, refresh, Fifo, Entries
  <2> QED  BY <2>2, <2>3, <2>4 DEF Drawing
<1>2. CASE lv_refr_task
  BY <1>2 DEF lv_refr_task, RefrTypeOK, scene, Drawing, Fifo
<1>3. CASE JoinFrom
  <2>1. join_in \in DOMAIN inv_buf /\ join_from \in DOMAIN inv_buf
    BY <1>3 DEF JoinFrom, RefrTypeOK
  <2>2. Fifo(inv_buf')
    BY <1>3, <2>1, JoinedKeeps DEF JoinFrom
  <2>3. RefrTypeOK'
    BY <1>3, <2>2 DEF JoinFrom, RefrTypeOK, scene, Fifo, Entries
  <2> QED  BY <1>3, <2>2, <2>3 DEF JoinFrom, Drawing, Fifo
<1>4. CASE JoinNext
  BY <1>4 DEF JoinNext, RefrTypeOK, scene, Drawing, Fifo
<1>5. CASE JoinEnds
  BY <1>5 DEF JoinEnds, RefrTypeOK, scene, Drawing, Fifo
<1>6. CASE SkipJoined
  BY <1>6 DEF SkipJoined, RefrTypeOK, scene, Drawing, Fifo
<1>7. CASE lv_refr_area_with_vdb
  <2>1. cur \in DOMAIN inv_buf
    BY <1>7 DEF lv_refr_area_with_vdb, RefrTypeOK
  <2>2. RowsOK(inv_buf[cur].area, inv_buf[cur].area.y1)
    <3>1. PICK a : a = inv_buf[cur].area
      OBVIOUS
    <3>2. a \in Areas /\ ~Empty(a) /\ lv_area_is_in(a, Screen)
      <4>1. inv_buf[cur] \in Entries
        BY <2>1 DEF Fifo
      <4> QED  BY <4>1, <2>1, <3>1 DEF Fifo, Entries
    <3>3. RowsOK(a, a.y1)
      BY ONLY <3>2 DEF RowsOK, Areas, Empty
    <3> QED  BY <3>1, <3>3
  <2>3. row' \in Nat
    BY <1>7, <2>2, RowNat DEF lv_refr_area_with_vdb
  <2>4. RefrTypeOK'
    BY <1>7, <2>3 DEF lv_refr_area_with_vdb, RefrTypeOK, scene
  <2>5. Drawing'
    BY <1>7, <2>1, <2>2 DEF lv_refr_area_with_vdb, Drawing, Area_p, RowsOK
  <2> QED  BY <1>7, <2>4, <2>5 DEF lv_refr_area_with_vdb, Fifo
<1>8. CASE FullPart
  <2>1. RowsOK(Area_p, row')
    BY <1>8, RowMoves DEF FullPart, RoomForAll, Drawing
  <2>2. row' \in Nat
    BY <2>1, RowNat
  <2>3. RefrTypeOK'
    BY <1>8, <2>2 DEF FullPart, RefrTypeOK, scene
  <2>4. Drawing'
    BY <1>8, <2>1 DEF FullPart, Drawing, Area_p, RowsOK
  <2> QED  BY <1>8, <2>3, <2>4 DEF FullPart, Fifo
<1>9. CASE LastPart \/ NoLastPart
  <2>1. AreaDone
    BY <1>9 DEF LastPart, NoLastPart
  <2> QED  BY <2>1 DEF AreaDone, RefrTypeOK, scene, Drawing, Fifo
<1>10. CASE RefrReturns
  <2>1. Fifo(inv_buf)' /\ Distinct(inv_buf)'
    BY <1>10, LvRefrAssumption DEF RefrReturns, Fifo, Distinct
  <2> QED  BY <1>10, <2>1 DEF RefrReturns, RefrTypeOK, scene, Drawing, Fifo, Entries
<1>11. CASE UNCHANGED refr_vars
  BY <1>11 DEF refr_vars, scene, refresh, RefrTypeOK, Fifo, Distinct, Drawing, Area_p, RowsOK
<1> QED  BY <1>1, <1>2, <1>3, <1>4, <1>5, <1>6, <1>7, <1>8, <1>9, <1>10, <1>11 DEF RefrNext, Refresh

(* The inductive invariant of the refresh: types, the buffer of invalid    *)
(* areas, and the area being drawn between its rows.                       *)
THEOREM RefrInvariance == RefrSpec => []RefrInv
BY RefrInitInv, RefrStepInv, PTL DEF RefrSpec

(* The buffers of a refresh suffice. *)
THEOREM RefrBuffersFit == RefrSpec => []BuffersFit
<1>1. RefrInv => BuffersFit
  <2> SUFFICES ASSUME RefrInv PROVE BuffersFit
    OBVIOUS
  <2>1. at = "idle" => Distinct(inv_buf)
    BY DEF RefrInv
  <2>2. at = "rows" =>
            /\ lv_area_is_in(Part(Area_p, row), Area_p)
            /\ Empty(Part(Area_p, row)) \/ lv_area_get_size(Part(Area_p, row)) <= VDB_SIZE
    BY PartFits DEF RefrInv, Drawing
  <2> QED  BY <2>1, <2>2 DEF BuffersFit, RefrInv, Fifo, Distinct
<1> QED  BY <1>1, RefrInvariance, PTL

(***************************************************************************)
(* What waits to be drawn is drawn.                                        *)
(***************************************************************************)
DrawsPart(p) ==
    /\ at = "rows" /\ On(p, Part(Area_p, row))
    /\ lv_refr_area_part_vdb(Part(Area_p, row))

LEMMA QueuedBetween ==
    ASSUME at \in {"idle", "join"}, NEW p
    PROVE  Queued(p) <=> Waits(inv_buf, p)
BY DEF Queued, WillDraw, Waits

LEMMA QueuedBetweenNext ==
    ASSUME at' \in {"idle", "join"}, NEW p
    PROVE  Queued(p)' <=> Waits(inv_buf', p)
BY DEF Queued, WillDraw, Waits

(* The rows of the area from `row` on that a part leaves out come next. *)
LEMMA PartTakes ==
    ASSUME NEW a, NEW r, RowsOK(a, r), NEW p \in Pixels, On(p, a), p[2] >= r
    PROVE  /\ On(p, Part(a, r)) \/ p[2] >= r + max_row(a)
           /\ r + max_row(a) - 1 > LastRow(a) => On(p, Part(a, r))
           /\ LastRow(a) # r - 1
<1>1. max_row(a) \in Nat \ {0} /\ LastRow(a) = a.y2
  BY MaxRow DEF RowsOK
<1>2. /\ a.x1 \in Int /\ a.x2 \in Int /\ a.y1 \in Int /\ a.y2 \in Int /\ r \in Int
      /\ p[1] \in Int /\ p[2] \in Int
  BY DEF RowsOK, Areas, Pixels
<1>3. /\ Part(a, r).x1 = a.x1 /\ Part(a, r).x2 = a.x2 /\ Part(a, r).y1 = r
      /\ Part(a, r).y2 = Lower(r + max_row(a) - 1, a.y2)
  BY <1>1 DEF Part, Area
<1> QED  BY <1>1, <1>2, <1>3 DEF On, Lower

LEMMA NoneDroppedStep ==
    ASSUME RefrInv, [RefrNext]_refr_vars, NEW p \in Pixels, Queued(p)
    PROVE  Queued(p)' \/ DrawsPart(p) \/ UNCHANGED refr_vars
<1> USE DEF RefrInv
<1>0. PICK i \in DOMAIN inv_buf : WillDraw(i, p)
  BY DEF Queued
<1>1. CASE Setters
  <2>1. Sets /\ at = "idle" /\ at' = "idle"
    BY <1>1, SettersStep DEF Call, refresh
  <2>2. Waits(inv_buf, p)
    BY <2>1, QueuedBetween
  <2>3. Waits(inv_buf', p)
    BY <2>1, <2>2 DEF Sets, KeepsWaiting
  <2> QED  BY <2>1, <2>3, QueuedBetweenNext
<1>2. CASE lv_refr_task
  BY <1>2, <1>0 DEF lv_refr_task, Queued, WillDraw
<1>3. CASE JoinFrom
  <2>1. join_in \in DOMAIN inv_buf /\ join_from \in DOMAIN inv_buf
    BY <1>3 DEF JoinFrom, RefrTypeOK
  <2>2. at = "join" /\ at' = "join"
    BY <1>3 DEF JoinFrom
  <2>3. Waits(inv_buf, p)
    BY <2>2, QueuedBetween
  <2>4. Waits(inv_buf', p)
    BY <1>3, <2>1, <2>3, JoinedKeeps DEF JoinFrom
  <2> QED  BY <2>2, <2>4, QueuedBetweenNext
<1>4. CASE JoinNext
  BY <1>4, <1>0 DEF JoinNext, Queued, WillDraw
<1>5. CASE JoinEnds
  <2>1. i >= 1
    BY DEF Fifo
  <2> QED  BY <1>5, <1>0, <2>1 DEF JoinEnds, Queued, WillDraw
<1>6. CASE SkipJoined
  <2>1. i # cur /\ i >= cur /\ i \in Nat /\ cur \in Nat
    BY <1>0, <1>6 DEF SkipJoined, WillDraw, RefrTypeOK
  <2> QED  BY <1>6, <1>0, <2>1 DEF SkipJoined, Queued, WillDraw
<1>7. CASE lv_refr_area_with_vdb
  <2>1. i = cur => p[2] >= inv_buf[cur].area.y1
    <3>1. inv_buf[i] \in Entries
      BY DEF Fifo
    <3>2. p[2] \in Int
      BY DEF Pixels
    <3> QED  BY <1>0, <3>1, <3>2 DEF WillDraw, On, Entries, Areas
  <2> QED  BY <1>7, <1>0, <2>1 DEF lv_refr_area_with_vdb, Queued, WillDraw
<1>8. ASSUME at = "rows", i = cur
      PROVE  /\ On(p, Part(Area_p, row)) \/ p[2] >= row + max_row(Area_p)
             /\ row + max_row(Area_p) - 1 > LastRow(Area_p) => On(p, Part(Area_p, row))
             /\ LastRow(Area_p) # row - 1
  BY <1>8, <1>0, PartTakes DEF WillDraw, Drawing, Area_p
<1>9. CASE FullPart
  <2>1. CASE i = cur /\ On(p, Part(Area_p, row))
    BY <1>9, <2>1 DEF FullPart, DrawsPart
  <2>2. CASE ~(i = cur /\ On(p, Part(Area_p, row)))
    <3>1. i = cur => p[2] >= row + max_row(Area_p)
      BY <1>8, <1>9, <2>2 DEF FullPart
    <3> QED  BY <1>9, <1>0, <3>1 DEF FullPart, Queued, WillDraw
  <2> QED  BY <2>1, <2>2
<1>10. ASSUME at = "rows", AreaDone, i # cur
       PROVE  Queued(p)'
  <2>1. i >= cur + 1 /\ i \in Nat
    BY <1>0, <1>10 DEF WillDraw, RefrTypeOK
  <2> QED  BY <1>10, <1>0, <2>1 DEF AreaDone, Queued, WillDraw
<1>11. CASE LastPart
  <2>1. CASE i = cur
    <3>1. row + max_row(Area_p) - 1 > LastRow(Area_p)
      <4>1. RowsOK(Area_p, row)
        BY <1>11 DEF LastPart, Drawing
      <4>2. max_row(Area_p) \in Nat /\ LastRow(Area_p) \in Int /\ row \in Nat
        BY <4>1, MaxRow DEF RowsOK, RefrTypeOK, Areas
      <4> QED  BY <1>11, <4>2 DEF LastPart, RoomForAll
    <3> QED  BY <1>8, <1>11, <2>1, <3>1 DEF LastPart, DrawsPart
  <2>2. CASE i # cur
    BY <1>10, <1>11, <2>2 DEF LastPart
  <2> QED  BY <2>1, <2>2
<1>12. CASE NoLastPart
  <2>1. i # cur
    BY <1>8, <1>12 DEF NoLastPart
  <2> QED  BY <1>10, <1>12, <2>1 DEF NoLastPart
<1>13. CASE RefrReturns
  <2>1. i <= Len(inv_buf) /\ i >= cur /\ i \in Nat /\ cur \in Nat /\ Len(inv_buf) \in Nat
    BY <1>0, <1>13 DEF RefrReturns, WillDraw, RefrTypeOK, Fifo
  <2> QED  BY <1>13, <2>1 DEF RefrReturns
<1> QED  BY <1>1, <1>2, <1>3, <1>4, <1>5, <1>6, <1>7, <1>9, <1>11, <1>12, <1>13 DEF RefrNext, Refresh

(* Every pixel that waits to be drawn waits until a part that holds it is  *)
(* flushed.                                                                *)
THEOREM RefrNoneDropped == RefrSpec => NoneDropped
<1>1. RefrInv /\ [RefrNext]_refr_vars =>
        [\A p \in Pixels : Queued(p) =>
          Queued(p)' \/ (/\ at = "rows" /\ On(p, Part(Area_p, row))
                         /\ lv_refr_area_part_vdb(Part(Area_p, row)))]_refr_vars
  BY NoneDroppedStep DEF DrawsPart
<1> QED  BY <1>1, RefrInvariance, PTL DEF RefrSpec, NoneDropped
=============================================================================
