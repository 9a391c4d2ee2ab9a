----------------------------- MODULE HeapProofs -----------------------------
(***************************************************************************)
(* Theorems about Heap: for every start address, header size and sequence  *)
(* of calls, without a bound on the blocks held.                           *)
(***************************************************************************)
EXTENDS Heap, TLAPS, FiniteSetTheorems

(* Who owns what, without the geometry that follows from Tiled. *)
Owned ==
    /\ \A b \in held :
         /\ HDR <= b.addr
         /\ b.addr - HDR \in used
         /\ b.bytes <= size[b.addr - HDR]
    /\ \A b, c \in held : b.addr = c.addr => b = c
    /\ \A a \in used : \E b \in held : b.addr = Payload(a)

IInv == TypeOK /\ Tiled /\ Owned

-----------------------------------------------------------------------------
(* Rounding up to the header's size never loses a byte. *)
LEMMA AlignUp ==
    ASSUME NEW n \in Nat
    PROVE  Align(n) \in Nat /\ n <= Align(n)
  <1> DEFINE d == HDR
             q == (n + d - 1) \div d
  <1>1. d \in Nat \ {0} /\ n + d - 1 \in Nat
    BY HeapAssumption
  <1>2. q \in Nat /\ n + d - 1 < d * q + d
    <2> HIDE DEF d
    <2> QED BY <1>1
  <1>3. d * q \in Nat /\ q * d = d * q
    BY <1>1, <1>2
  <1>4. Align(n) = q * d
    BY DEF Align
  <1> HIDE DEF d, q
  <1> QED BY <1>1, <1>2, <1>3, <1>4

(* Tiled and Owned give the geometry of the blocks. *)
LEMMA Disjoint == IInv => BlocksDisjoint
  <1> SUFFICES ASSUME IInv PROVE BlocksDisjoint
    OBVIOUS
  <1>1. HDR \in Nat \ {0} /\ START \in Nat
    BY HeapAssumption
  <1>2. ASSUME NEW b \in held
        PROVE  /\ b.addr - HDR \in used
               /\ b.bytes <= size[b.addr - HDR]
               /\ \A a \in Nodes : a >= b.addr + b.bytes \/ a + HDR <= b.addr
               /\ b.addr \in Nat /\ b.bytes \in Nat /\ HDR <= b.addr
    <2> DEFINE n == b.addr - HDR
    <2>1. b.addr \in Nat /\ b.bytes \in Nat
      BY DEF IInv, TypeOK
    <2>2. n \in used /\ b.bytes <= size[n] /\ HDR <= b.addr
      BY DEF IInv, Owned
    <2>3. n \in Nodes /\ n \in Nat /\ size[n] \in Nat
      BY <2>2 DEF IInv, TypeOK
    <2>4. ASSUME NEW a \in Nodes
          PROVE  a >= b.addr + b.bytes \/ a + HDR <= b.addr
      <3>1. a \in Nat /\ size[a] \in Nat
        BY DEF IInv, TypeOK
      <3>2. CASE a <= n
        BY <1>1, <2>1, <2>2, <2>3, <3>1, <3>2
      <3>3. CASE n < a
        <4>1. End(n) <= a
          BY <2>3, <3>3 DEF IInv, Tiled
        <4> QED BY <1>1, <2>1, <2>2, <2>3, <3>1, <4>1 DEF End
      <3> QED BY <2>3, <3>1, <3>2, <3>3
    <2> QED BY <2>1, <2>2, <2>4
  <1>3. ASSUME NEW b \in held, NEW c \in held, b # c
        PROVE  c.addr >= b.addr + b.bytes \/ b.addr >= c.addr + c.bytes
    <2>1. b.addr # c.addr
      BY <1>3 DEF IInv, Owned
    <2>2. c.addr - HDR \in Nodes /\ b.addr - HDR \in Nodes
      BY <1>2 DEF IInv, TypeOK
    <2>3. c.addr - HDR >= b.addr + b.bytes \/ c.addr <= b.addr
      BY <1>1, <1>2, <2>2
    <2>4. b.addr - HDR >= c.addr + c.bytes \/ b.addr <= c.addr
      BY <1>1, <1>2, <2>2
    <2> QED BY <1>1, <1>2, <2>1, <2>3, <2>4
  <1>4. \A a \in used : \E b \in held : b.addr = Payload(a)
    BY DEF IInv, Owned
  <1> QED BY <1>2, <1>3, <1>4 DEF BlocksDisjoint

-----------------------------------------------------------------------------
LEMMA InitInv == Init => IInv
  BY HeapAssumption DEF Init, IInv, TypeOK, Tiled, Owned, Nodes

(* The first block makes the first node. *)
LEMMA MallocFirstInv ==
    ASSUME IInv, NEW bytes \in Sizes, MallocFirst(bytes)
    PROVE  IInv'
  <1>1. bytes \in Nat /\ Align(bytes) \in Nat /\ bytes <= Align(bytes)
    BY AlignUp, HeapAssumption
  <1>2. Nodes = {} /\ used = {} /\ held = {}
    BY HeapAssumption DEF IInv, TypeOK, Owned, MallocFirst
  <1>3. /\ size' = [x \in {START} |-> Align(bytes)]
        /\ prev' = [x \in {START} |-> NULL]
        /\ next' = [x \in {START} |-> NULL]
    BY <1>2 DEF MallocFirst, With, IInv, TypeOK, Nodes
  <1>4. Nodes' = {START} /\ used' = {START}
    BY <1>2, <1>3 DEF MallocFirst, Give, Nodes
  <1>5. held' = {[addr |-> START + HDR, bytes |-> bytes]}
    BY <1>2 DEF MallocFirst, Give, Payload
  <1>6. TypeOK'
    BY <1>1, <1>3, <1>4, <1>5, HeapAssumption DEF MallocFirst, Give, TypeOK
  <1>7. Tiled'
    BY <1>3, <1>4, HeapAssumption DEF Tiled
  <1>8. Owned'
    BY <1>1, <1>3, <1>4, <1>5, HeapAssumption DEF Owned, Payload
  <1> QED BY <1>6, <1>7, <1>8 DEF IInv

(* The steps that leave the list and the blocks alone. *)
LEMMA QuietInv ==
    ASSUME IInv,
           (\E bytes \in Sizes : Malloc(bytes)) \/ Advance \/ Skip \/ FreeReturns
             \/ UNCHANGED vars
    PROVE  IInv'
  <1>1. UNCHANGED <<list, held>>
    BY DEF Malloc, Advance, Skip, FreeReturns, vars
  <1>2. UNCHANGED Nodes
    BY <1>1 DEF list, Nodes
  <1>3. /\ node' \in Nodes \cup {NULL} /\ want' \in Nat
        /\ pc' \in {"idle", "alloc", "free"}
        /\ pc' = "alloc" => node' # NULL
    BY HeapAssumption
      DEF IInv, TypeOK, Malloc, Advance, Skip, FreeReturns, vars
  <1>4. TypeOK'
    BY <1>1, <1>2, <1>3 DEF IInv, TypeOK, list
  <1>5. Tiled'
    BY <1>1, <1>2 DEF IInv, Tiled, list, End
  <1>6. Owned'
    BY <1>1, <1>2 DEF IInv, Owned, list
  <1> QED BY <1>4, <1>5, <1>6 DEF IInv

(* A block is freed. *)
LEMMA FreeInv ==
    ASSUME IInv, NEW b \in held, Free(b)
    PROVE  IInv'
  <1>1. UNCHANGED <<size, prev, next, first, Nodes, want>>
    BY DEF Free, Nodes
  <1>2. used' = used \ {b.addr - HDR} /\ held' = held \ {b}
    BY DEF Free
  <1>3. TypeOK'
    BY <1>1, <1>2, HeapAssumption DEF IInv, TypeOK, Free
  <1>4. Tiled'
    BY <1>1 DEF IInv, Tiled, End
  <1>5. Owned'
    <2>1. HDR \in Nat /\ \A c \in held : c.addr \in Nat
      BY HeapAssumption DEF IInv, TypeOK
    <2>2. \A c \in held' : c.addr - HDR # b.addr - HDR
      BY <1>2, <2>1 DEF IInv, Owned
    <2>3. \A c \in held' : /\ HDR <= c.addr
                           /\ c.addr - HDR \in used'
                           /\ c.bytes <= size'[c.addr - HDR]
      BY <1>1, <1>2, <2>2 DEF IInv, Owned
    <2>4. \A c, e \in held' : c.addr = e.addr => c = e
      BY <1>2 DEF IInv, Owned
    <2>5. ASSUME NEW a \in used'
          PROVE  \E c \in held' : c.addr = Payload(a)
      <3>1. a \in used /\ a # b.addr - HDR /\ a \in Nat
        BY <1>2 DEF IInv, TypeOK
      <3>2. PICK c \in held : c.addr = Payload(a)
        BY <3>1 DEF IInv, Owned
      <3>3. c # b
        BY <2>1, <3>1, <3>2 DEF Payload
      <3> QED BY <1>2, <3>2, <3>3
    <2>6. \A a \in used' : \E c \in held' : c.addr = Payload(a)'
      BY <2>5 DEF Payload
    <2> QED BY <2>3, <2>4, <2>6 DEF Owned
  <1> QED BY <1>3, <1>4, <1>5 DEF IInv

(* Handing out a node that was not used gives its block one owner. *)
LEMMA GiveOwned ==
    ASSUME IInv, NEW a \in Nat, a \notin used, NEW bytes \in Nat,
           Give(a, bytes), bytes <= size'[a],
           \A x \in used : size'[x] = size[x]
    PROVE  Owned'
  <1> DEFINE new == [addr |-> a + HDR, bytes |-> bytes]
  <1>1. HDR \in Nat /\ \A b \in held : b.addr \in Nat /\ b.bytes \in Nat
    BY HeapAssumption DEF IInv, TypeOK
  <1>2. used' = used \cup {a} /\ held' = held \cup {new}
    BY DEF Give, Payload
  <1>3. new.addr = a + HDR /\ new.bytes = bytes /\ new.addr - HDR = a
    BY <1>1
  <1> HIDE DEF new
  <1>4. \A b \in held : /\ HDR <= b.addr
                       /\ b.addr - HDR \in used
                       /\ b.bytes <= size[b.addr - HDR]
    BY DEF IInv, Owned
  <1>5. \A b \in held' : /\ HDR <= b.addr
                        /\ b.addr - HDR \in used'
                        /\ b.bytes <= size'[b.addr - HDR]
    BY <1>1, <1>2, <1>3, <1>4
  <1>6. \A b \in held : b.addr # new.addr
    BY <1>3, <1>4
  <1>7. \A b, c \in held' : b.addr = c.addr => b = c
    BY <1>2, <1>6 DEF IInv, Owned
  <1>8. \A x \in used' : \E b \in held' : b.addr = x + HDR
    BY <1>2, <1>3 DEF IInv, Owned, Payload
  <1> QED BY <1>5, <1>7, <1>8 DEF Owned, Payload

(* A free node that fits is handed out as it is. *)
LEMMA TakeWholeInv ==
    ASSUME IInv, TakeWhole
    PROVE  IInv'
  <1>1. UNCHANGED <<size, prev, next, first, Nodes>> /\ Give(node, want)
    BY DEF TakeWhole, Nodes
  <1>2. want \in Nat /\ node \in Nodes /\ node \in Nat /\ node \notin used
    BY DEF IInv, TypeOK, TakeWhole, Fits
  <1>3. want <= size[node]
    BY <1>2, AlignUp DEF TakeWhole, Fits, IInv, TypeOK
  <1>4. TypeOK'
    <2>1. held' \subseteq [addr : Nat, bytes : Nat]
      BY <1>1, <1>2, HeapAssumption DEF Give, Payload, IInv, TypeOK
    <2> QED BY <1>1, <1>2, <2>1 DEF IInv, TypeOK, Give, NULL
  <1>5. Tiled'
    BY <1>1 DEF IInv, Tiled, End
  <1>6. Owned'
    BY <1>1, <1>2, <1>3, GiveOwned
  <1> QED BY <1>4, <1>5, <1>6 DEF IInv

(* A new node behind the last one. *)
LEMMA AppendInv ==
    ASSUME IInv, Append
    PROVE  IInv'
  <1> DEFINE n == node
             new == End(node)
             s == Align(want)
  <1>1. /\ n \in Nodes /\ n \in Nat \ {NULL} /\ size[n] \in Nat /\ next[n] = NULL
        /\ want \in Nat /\ HDR \in Nat \ {0} /\ START \in Nat /\ START \in Nodes
    BY HeapAssumption DEF IInv, TypeOK, Append
  <1>2. s \in Nat /\ want <= s
    BY <1>1, AlignUp
  <1>3. new \in Nat \ {NULL} /\ n < new /\ new = n + HDR + size[n]
    BY <1>1 DEF End, NULL
  <1>4. /\ size \in [Nodes -> Nat]
        /\ prev \in [Nodes -> Nodes \cup {NULL}]
        /\ next \in [Nodes -> Nodes \cup {NULL}]
        /\ Nodes \subseteq Nat \ {NULL} /\ used \subseteq Nodes
    BY DEF IInv, TypeOK
  (* n is the last node: no other lies behind it. *)
  <1>5. \A b \in Nodes : b <= n /\ (b # n => End(b) <= n)
    <2> TAKE b \in Nodes
    <2>1. b \in Nat /\ ~(n < b)
      BY <1>1, <1>4 DEF IInv, Tiled
    <2>2. b # n => b < n
      BY <1>1, <2>1
    <2> QED BY <1>1, <2>1, <2>2 DEF IInv, Tiled
  <1>6. new \notin Nodes
    BY <1>1, <1>3, <1>4, <1>5
  <1>7. /\ size' = With(size, new, s)
        /\ prev' = With(prev, new, n)
        /\ next' = With(With(next, new, NULL), n, new)
        /\ first' = first /\ Give(new, want)
    BY DEF Append
  <1> HIDE DEF n, new, s
  <1>8. /\ size' \in [Nodes \cup {new} -> Nat]
        /\ size'[new] = s
        /\ \A a \in Nodes : size'[a] = size[a]
    BY <1>2, <1>4, <1>6, <1>7 DEF With
  <1>9. /\ prev' \in [Nodes \cup {new} -> Nodes \cup {NULL}]
        /\ prev'[new] = n
        /\ \A a \in Nodes : prev'[a] = prev[a]
    BY <1>1, <1>4, <1>6, <1>7 DEF With
  <1>10. /\ next' \in [Nodes \cup {new} -> Nodes \cup {new, NULL}]
         /\ next'[n] = new /\ next'[new] = NULL
         /\ \A a \in Nodes \ {n} : next'[a] = next[a]
    <2> DEFINE f == With(next, new, NULL)
    <2>1. /\ f \in [Nodes \cup {new} -> Nodes \cup {NULL}]
          /\ f[new] = NULL
          /\ \A a \in Nodes : f[a] = next[a]
      BY <1>4, <1>6 DEF With
    <2>2. f \in [Nodes \cup {new} -> Nodes \cup {new, NULL}]
      BY <2>1
    <2>3. next' = With(f, n, new)
      BY <1>7
    <2> HIDE DEF f
    <2>4. /\ next' \in [(Nodes \cup {new}) \cup {n} -> Nodes \cup {new, NULL}]
          /\ next'[n] = new
          /\ \A a \in (Nodes \cup {new}) \ {n} : next'[a] = f[a]
      BY <2>2, <2>3 DEF With
    <2> QED BY <1>1, <1>6, <2>1, <2>4
  <1>11. Nodes' = Nodes \cup {new} /\ used' = used \cup {new}
    BY <1>7, <1>8 DEF Nodes, Give
  <1>12. TypeOK'
    <2>1. held' \subseteq [addr : Nat, bytes : Nat]
      BY <1>1, <1>3, <1>7 DEF Give, Payload, IInv, TypeOK
    <2>2. first' = START
      BY <1>1, <1>7 DEF IInv, TypeOK
    <2>3. /\ prev' \in [Nodes' -> Nodes' \cup {NULL}]
          /\ next' \in [Nodes' -> Nodes' \cup {NULL}]
          /\ size' \in [Nodes' -> Nat]
      BY <1>8, <1>9, <1>10, <1>11
    <2> QED BY <1>1, <1>3, <1>4, <1>7, <1>11, <2>1, <2>2, <2>3 DEF TypeOK, Give, NULL
  <1>13. Tiled'
    <2>1. \A a \in Nodes : End(a)' = End(a) /\ End(a) \in Nat
      BY <1>1, <1>4, <1>8 DEF End
    <2>2. \A a \in Nodes : a \in Nat /\ START <= a
      BY <1>4 DEF IInv, Tiled
    <2>3. ASSUME NEW a \in Nodes'
          PROVE  /\ START <= a
                 /\ prev'[a] = NULL <=> a = START
                 /\ prev'[a] # NULL => next'[prev'[a]] = a
      <3>1. CASE a = new
        BY <1>1, <1>3, <1>9, <1>10, <2>2, <3>1
      <3>2. CASE a \in Nodes
        <4>1. /\ START <= a
              /\ prev[a] = NULL <=> a = START
              /\ prev[a] # NULL => next[prev[a]] = a
          BY <3>2 DEF IInv, Tiled
        <4>2. prev'[a] = prev[a] /\ prev[a] # n
          BY <1>1, <1>4, <1>9, <3>2, <4>1
        <4>3. prev[a] # NULL => next'[prev[a]] = next[prev[a]]
          BY <1>4, <1>10, <3>2, <4>2
        <4> QED BY <4>1, <4>2, <4>3
      <3> QED BY <1>11, <3>1, <3>2
    <2>4. ASSUME NEW a \in Nodes'
          PROVE  next'[a] # NULL => next'[a] = End(a)' /\ prev'[next'[a]] = a
      <3>1. CASE a = new
        BY <1>10, <3>1
      <3>2. CASE a = n
        BY <1>1, <1>3, <1>9, <1>10, <2>1, <3>2 DEF n, new
      <3>3. CASE a \in Nodes \ {n}
        BY <1>4, <1>9, <1>10, <2>1, <3>3 DEF IInv, Tiled
      <3> QED BY <1>11, <3>1, <3>2, <3>3
    <2>5. ASSUME NEW a \in Nodes', NEW b \in Nodes', a < b
          PROVE  next'[a] # NULL /\ End(a)' <= b
      <3>1. a # new /\ a \in Nodes
        BY <1>1, <1>3, <1>4, <1>5, <1>11, <2>5
      <3>2. CASE b = new
        <4>1. CASE a = n
          BY <1>1, <1>3, <1>10, <2>1, <3>2, <4>1 DEF n, new
        <4>2. CASE a # n
          <5>1. a < n /\ End(a) <= n
            BY <1>1, <1>4, <1>5, <3>1, <4>2
          <5>2. next[a] # NULL
            BY <1>1, <3>1, <5>1 DEF IInv, Tiled
          <5> QED BY <1>1, <1>3, <1>10, <2>1, <3>1, <3>2, <4>2, <5>1, <5>2
        <4> QED BY <4>1, <4>2
      <3>3. CASE b \in Nodes
        <4>1. a # n
          BY <1>1, <1>4, <1>5, <2>5, <3>3
        <4> QED BY <1>10, <2>1, <2>5, <3>1, <3>3, <4>1 DEF IInv, Tiled
      <3> QED BY <1>11, <3>2, <3>3
    <2> QED BY <2>3, <2>4, <2>5 DEF Tiled
  <1>14. Owned'
    BY <1>1, <1>2, <1>3, <1>4, <1>6, <1>7, <1>8, GiveOwned
  <1> QED BY <1>12, <1>13, <1>14 DEF IInv

(* A free node that is large enough is split in two. *)
LEMMA SplitInv ==
    ASSUME IInv, Split
    PROVE  IInv'
  <1>0. PICK n, s, new, left, x :
             /\ n = node /\ s = Align(want) /\ new = Payload(node) + Align(want)
             /\ left = SplitSize /\ x = next[node]
    OBVIOUS
  <1>1. /\ n \in Nodes /\ n \in Nat \ {NULL} /\ size[n] \in Nat /\ n \notin used
        /\ x \in Nodes \cup {NULL}
        /\ want \in Nat /\ HDR \in Nat \ {0} /\ START \in Nat /\ START \in Nodes
    BY <1>0, HeapAssumption DEF IInv, TypeOK, Split, Fits
  <1>2. s \in Nat /\ want <= s
    BY <1>0, <1>1, AlignUp
  <1>3. /\ left \in Nat /\ left = size[n] - s - HDR
        /\ new = n + HDR + s /\ new \in Nat \ {NULL}
        /\ n < new /\ new < End(n) /\ End(n) = new + HDR + left
    <2>1. size[n] - s >= 4 * HDR
      BY <1>0 DEF Split, Leftover
    <2> QED BY <1>0, <1>1, <1>2, <2>1 DEF SplitSize, Leftover, Payload, End, NULL
  <1>4. /\ size \in [Nodes -> Nat]
        /\ prev \in [Nodes -> Nodes \cup {NULL}]
        /\ next \in [Nodes -> Nodes \cup {NULL}]
        /\ Nodes \subseteq Nat \ {NULL} /\ used \subseteq Nodes
    BY DEF IInv, TypeOK
  <1>5. \A b \in Nodes : n < b => next[n] # NULL /\ End(n) <= b
    BY <1>1 DEF IInv, Tiled
  <1>6. new \notin Nodes
    BY <1>1, <1>3, <1>4, <1>5 DEF End
  <1>7. x # NULL => x = End(n) /\ prev[x] = n /\ x # n /\ x # START
    <2>1. x # NULL => x = End(n) /\ prev[x] = n
      BY <1>0, <1>1 DEF IInv, Tiled
    <2> QED BY <1>1, <1>3, <2>1 DEF IInv, Tiled
  <1>8. /\ size' = With(With(size, new, left), n, s)
        /\ next' = With(With(next, new, x), n, new)
        /\ prev' = With(IF x # NULL THEN With(prev, x, new) ELSE prev, new, n)
        /\ first' = first /\ Give(n, want)
    BY <1>0 DEF Split
  <1>9. /\ size' \in [Nodes \cup {new} -> Nat]
        /\ size'[n] = s /\ size'[new] = left
        /\ \A a \in Nodes \ {n} : size'[a] = size[a]
    BY <1>1, <1>2, <1>3, <1>4, <1>6, <1>8 DEF With
  <1>10. /\ next' \in [Nodes \cup {new} -> Nodes \cup {new, NULL}]
         /\ next'[n] = new /\ next'[new] = x
         /\ \A a \in Nodes \ {n} : next'[a] = next[a]
    BY <1>1, <1>4, <1>6, <1>8 DEF With
  <1>11. /\ prev' \in [Nodes \cup {new} -> Nodes \cup {new, NULL}]
         /\ prev'[new] = n
         /\ x # NULL => prev'[x] = new
         /\ \A a \in Nodes \ {x} : prev'[a] = prev[a]
    <2>1. CASE x = NULL
      BY <1>1, <1>4, <1>6, <1>8, <2>1 DEF With
    <2>2. CASE x # NULL
      BY <1>1, <1>4, <1>6, <1>8, <2>2 DEF With
    <2> QED BY <2>1, <2>2
  <1>12. Nodes' = Nodes \cup {new} /\ used' = used \cup {n}
    BY <1>8, <1>9 DEF Nodes, Give
  <1>13. TypeOK'
    <2>1. held' \subseteq [addr : Nat, bytes : Nat]
      BY <1>1, <1>8 DEF Give, Payload, IInv, TypeOK
    <2>2. first' = START
      BY <1>1, <1>8 DEF IInv, TypeOK
    <2>3. /\ prev' \in [Nodes' -> Nodes' \cup {NULL}]
          /\ next' \in [Nodes' -> Nodes' \cup {NULL}]
          /\ size' \in [Nodes' -> Nat]
      BY <1>9, <1>10, <1>11, <1>12
    <2> QED BY <1>1, <1>3, <1>4, <1>8, <1>12, <2>1, <2>2, <2>3 DEF TypeOK, Give, NULL
  <1>14. Tiled'
    <2>1. /\ \A a \in Nodes \ {n} : End(a)' = End(a)
          /\ \A a \in Nodes : a \in Nat /\ End(a) \in Nat
          /\ End(n)' = new /\ End(new)' = End(n)
      BY <1>1, <1>2, <1>3, <1>4, <1>6, <1>9 DEF End
    <2>2. ASSUME NEW a \in Nodes
          PROVE  /\ START <= a
                 /\ prev[a] = NULL <=> a = START
                 /\ prev[a] # NULL => next[prev[a]] = a
                 /\ next[a] # NULL => next[a] = End(a) /\ prev[next[a]] = a
                 /\ \A b \in Nodes : a < b => next[a] # NULL /\ End(a) <= b
                 /\ prev[a] \in Nodes \cup {NULL} /\ next[a] \in Nodes \cup {NULL}
                 /\ a # NULL
      BY <1>4 DEF IInv, Tiled
    <2>3. ASSUME NEW a \in Nodes'
          PROVE  /\ START <= a
                 /\ prev'[a] = NULL <=> a = START
                 /\ prev'[a] # NULL => next'[prev'[a]] = a
      <3>1. CASE a = new
        <4>1. START <= n
          BY <1>1, <2>2
        <4> QED BY <1>1, <1>3, <1>10, <1>11, <3>1, <4>1
      <3>2. CASE a \in Nodes /\ a = x
        BY <1>3, <1>7, <1>10, <1>11, <2>2, <3>2
      <3>3. CASE a \in Nodes /\ a # x
        <4>1. prev'[a] = prev[a] /\ prev[a] # n
          BY <1>0, <1>1, <1>11, <2>2, <3>3
        <4>2. prev[a] # NULL => next'[prev[a]] = next[prev[a]]
          BY <1>10, <2>2, <3>3, <4>1
        <4> QED BY <2>2, <3>3, <4>1, <4>2
      <3> QED BY <1>12, <3>1, <3>2, <3>3
    <2>4. ASSUME NEW a \in Nodes'
          PROVE  next'[a] # NULL => next'[a] = End(a)' /\ prev'[next'[a]] = a
      <3>1. CASE a = n
        BY <1>10, <1>11, <2>1, <3>1
      <3>2. CASE a = new
        BY <1>7, <1>10, <1>11, <2>1, <3>2
      <3>3. CASE a \in Nodes \ {n}
        <4>1. next[a] # NULL => next[a] # x
          BY <1>7, <2>2, <3>3
        <4>2. next[a] # NULL => prev'[next[a]] = prev[next[a]]
          BY <1>11, <2>2, <3>3, <4>1
        <4> QED BY <1>10, <2>1, <2>2, <3>3, <4>2
      <3> QED BY <1>12, <3>1, <3>2, <3>3
    <2>5. ASSUME NEW a \in Nodes', NEW b \in Nodes', a < b
          PROVE  next'[a] # NULL /\ End(a)' <= b
      <3>1. CASE a = n
        <4>1. b \in Nodes => End(n) <= b /\ b \in Nat
          BY <1>5, <2>1, <2>5, <3>1
        <4> QED BY <1>1, <1>3, <1>10, <1>12, <2>1, <3>1, <4>1
      <3>2. CASE a = new
        <4>1. b \in Nodes /\ b \in Nat /\ n < b
          BY <1>1, <1>3, <1>12, <2>1, <2>5, <3>2
        <4> QED BY <1>0, <1>5, <1>10, <2>1, <3>2, <4>1
      <3>3. CASE a \in Nodes \ {n} /\ b = new
        <4>1. a < n
          BY <1>1, <1>3, <1>5, <2>1, <2>5, <3>3
        <4>2. next[a] # NULL /\ End(a) <= n
          BY <1>1, <2>2, <3>3, <4>1
        <4> QED BY <1>1, <1>3, <1>10, <2>1, <3>3, <4>2
      <3>4. CASE a \in Nodes \ {n} /\ b \in Nodes
        BY <1>10, <2>1, <2>2, <2>5, <3>4
      <3> QED BY <1>12, <3>1, <3>2, <3>3, <3>4
    <2> QED BY <2>3, <2>4, <2>5 DEF Tiled
  <1>15. Owned'
    BY <1>1, <1>2, <1>4, <1>8, <1>9, GiveOwned
  <1> QED BY <1>13, <1>14, <1>15 DEF IInv

(* A free node is merged into the free one before it. *)
LEMMA MergeInv ==
    ASSUME IInv, Merge
    PROVE  IInv'
  <1>0. PICK n, p, x : n = node /\ p = prev[node] /\ x = next[node]
    OBVIOUS
  <1>1. /\ size \in [Nodes -> Nat]
        /\ prev \in [Nodes -> Nodes \cup {NULL}]
        /\ next \in [Nodes -> Nodes \cup {NULL}]
        /\ Nodes \subseteq Nat \ {NULL} /\ used \subseteq Nodes
        /\ HDR \in Nat \ {0} /\ START \in Nat /\ START \in Nodes
    BY HeapAssumption DEF IInv, TypeOK, Merge
  <1>2. /\ n \in Nodes /\ n \in Nat /\ n \notin used /\ n # NULL
        /\ p \in Nodes /\ p \in Nat /\ p \notin used /\ p # NULL
        /\ x \in Nodes \cup {NULL}
    BY <1>0, <1>1 DEF IInv, TypeOK, Merge, Mergeable
  <1>3. ASSUME NEW a \in Nodes
        PROVE  /\ START <= a
               /\ prev[a] = NULL <=> a = START
               /\ prev[a] # NULL => next[prev[a]] = a
               /\ next[a] # NULL => next[a] = End(a) /\ prev[next[a]] = a
               /\ \A b \in Nodes : a < b => next[a] # NULL /\ End(a) <= b
               /\ prev[a] \in Nodes \cup {NULL} /\ next[a] \in Nodes \cup {NULL}
               /\ a # NULL /\ a \in Nat /\ size[a] \in Nat
               /\ End(a) \in Nat /\ a < End(a)
    <2>1. a # NULL /\ a \in Nat /\ size[a] \in Nat
          /\ prev[a] \in Nodes \cup {NULL} /\ next[a] \in Nodes \cup {NULL}
      BY <1>1
    <2>2. End(a) \in Nat /\ a < End(a)
      BY <1>1, <2>1 DEF End
    <2> QED BY <2>1, <2>2 DEF IInv, Tiled
  <1>4. next[p] = n /\ n = End(p) /\ p # n /\ n # START
    BY <1>0, <1>2, <1>3
  <1>5. x # NULL => x = End(n) /\ prev[x] = n /\ x # p /\ x # n /\ x # START
    <2>1. x # NULL => x = End(n) /\ prev[x] = n
      BY <1>0, <1>2, <1>3
    <2>2. p < n /\ n < End(n) /\ End(n) \in Nat
      BY <1>2, <1>3, <1>4
    <2>3. x # NULL => (prev[x] = NULL <=> x = START)
      BY <1>2, <1>3
    <2> QED BY <1>2, <2>1, <2>2, <2>3
  <1>6. /\ size' = Without(With(size, p, size[p] + size[n] + HDR), n)
        /\ next' = Without(With(next, p, x), n)
        /\ prev' = Without(IF x # NULL THEN With(prev, x, p) ELSE prev, n)
        /\ node' = x /\ UNCHANGED <<used, first, want, pc, held>>
    BY <1>0 DEF Merge, Relink, AfterMerge
  <1>7. /\ size' \in [Nodes \ {n} -> Nat]
        /\ size'[p] = size[p] + size[n] + HDR
        /\ \A a \in Nodes \ {n, p} : size'[a] = size[a]
    <2> DEFINE v == size[p] + size[n] + HDR
    <2>1. v \in Nat
      BY <1>1, <1>2
    <2>2. size' = Without(With(size, p, v), n)
      BY <1>6
    <2> HIDE DEF v
    <2>3. /\ size' \in [Nodes \ {n} -> Nat] /\ size'[p] = v
          /\ \A a \in Nodes \ {n, p} : size'[a] = size[a]
      BY <1>1, <1>2, <1>4, <2>1, <2>2 DEF With, Without
    <2> QED BY <2>3 DEF v
  <1>8. /\ DOMAIN next' = Nodes \ {n} /\ next' = [a \in Nodes \ {n} |-> next'[a]]
        /\ next'[p] = x
        /\ \A a \in Nodes \ {n, p} : next'[a] = next[a]
    BY <1>1, <1>2, <1>4, <1>6 DEF With, Without
  <1>9. /\ DOMAIN prev' = Nodes \ {n} /\ prev' = [a \in Nodes \ {n} |-> prev'[a]]
        /\ x # NULL => prev'[x] = p
        /\ \A a \in Nodes \ {n, x} : prev'[a] = prev[a]
    <2>1. CASE x = NULL
      BY <1>1, <1>2, <1>5, <1>6, <2>1 DEF With, Without
    <2>2. CASE x # NULL
      BY <1>1, <1>2, <1>5, <1>6, <2>2 DEF With, Without
    <2> QED BY <2>1, <2>2
  <1>10. Nodes' = Nodes \ {n}
    BY <1>7 DEF Nodes
  (* No other node points to n. *)
  <1>11. /\ \A a \in Nodes \ {n, x} : prev[a] # n /\ prev[a] # p
         /\ \A a \in Nodes \ {n, p} : next[a] # n /\ (next[a] # NULL => next[a] # x)
    <2>1. \A a \in Nodes \ {n, x} : prev[a] # n /\ prev[a] # p
      BY <1>0, <1>2, <1>3, <1>4
    <2>2. \A a \in Nodes \ {n, p} : next[a] # n
      BY <1>0, <1>2, <1>3
    <2>3. \A a \in Nodes \ {n, p} : next[a] # NULL => next[a] # x
      BY <1>0, <1>2, <1>3, <1>5
    <2> QED BY <2>1, <2>2, <2>3
  <1>12. TypeOK'
    <2>1. \A a \in Nodes \ {n} : next'[a] \in (Nodes \ {n}) \cup {NULL}
      BY <1>2, <1>3, <1>5, <1>8, <1>11
    <2>2. \A a \in Nodes \ {n} : prev'[a] \in (Nodes \ {n}) \cup {NULL}
      BY <1>2, <1>3, <1>4, <1>9, <1>11
    <2>3. /\ next' \in [Nodes' -> Nodes' \cup {NULL}]
          /\ prev' \in [Nodes' -> Nodes' \cup {NULL}]
          /\ size' \in [Nodes' -> Nat]
      BY <1>7, <1>8, <1>9, <1>10, <2>1, <2>2
    <2>4. node' \in Nodes' \cup {NULL} /\ used' \subseteq Nodes' /\ START \in Nodes'
          /\ Nodes' \subseteq Nat \ {NULL}
      BY <1>1, <1>2, <1>4, <1>5, <1>6, <1>10
    <2>5. first' = START /\ want' \in Nat /\ pc' = "free"
          /\ held' \subseteq [addr : Nat, bytes : Nat]
      BY <1>1, <1>6 DEF IInv, TypeOK, Merge
    <2> QED BY <2>3, <2>4, <2>5 DEF TypeOK
  <1>13. Tiled'
    <2>1. /\ \A a \in Nodes \ {n, p} : End(a)' = End(a)
          /\ End(p)' = End(n)
      BY <1>1, <1>2, <1>3, <1>4, <1>7 DEF End
    <2>2. ASSUME NEW a \in Nodes'
          PROVE  /\ START <= a
                 /\ prev'[a] = NULL <=> a = START
                 /\ prev'[a] # NULL => next'[prev'[a]] = a
      <3>1. CASE a = x
        BY <1>2, <1>3, <1>5, <1>8, <1>9, <1>10, <3>1
      <3>2. CASE a # x
        <4>1. prev'[a] = prev[a] /\ prev[a] # n /\ prev[a] # p
          BY <1>9, <1>10, <1>11, <3>2
        <4>2. prev[a] # NULL => next'[prev[a]] = next[prev[a]]
          BY <1>3, <1>8, <1>10, <4>1
        <4> QED BY <1>3, <1>10, <4>1, <4>2
      <3> QED BY <3>1, <3>2
    <2>3. ASSUME NEW a \in Nodes'
          PROVE  next'[a] # NULL => next'[a] = End(a)' /\ prev'[next'[a]] = a
      <3>1. CASE a = p
        BY <1>5, <1>8, <1>9, <2>1, <3>1
      <3>2. CASE a # p
        <4>1. next[a] # NULL => prev'[next[a]] = prev[next[a]]
          BY <1>3, <1>9, <1>10, <1>11, <3>2
        <4> QED BY <1>3, <1>8, <1>10, <2>1, <3>2, <4>1
      <3> QED BY <3>1, <3>2
    <2>4. ASSUME NEW a \in Nodes', NEW b \in Nodes', a < b
          PROVE  next'[a] # NULL /\ End(a)' <= b
      <3>1. CASE a = p
        <4>1. n < b
          BY <1>2, <1>3, <1>4, <1>10, <2>4, <3>1
        <4> QED BY <1>0, <1>2, <1>3, <1>8, <1>10, <2>1, <3>1, <4>1
      <3>2. CASE a # p
        BY <1>3, <1>8, <1>10, <2>1, <2>4, <3>2
      <3> QED BY <3>1, <3>2
    <2> QED BY <2>2, <2>3, <2>4 DEF Tiled
  <1>14. Owned'
    <2>1. \A a \in used : size'[a] = size[a]
      BY <1>1, <1>2, <1>7
    <2> QED BY <1>6, <2>1 DEF IInv, Owned, Payload
  <1> QED BY <1>12, <1>13, <1>14 DEF IInv

-----------------------------------------------------------------------------
(* Every step preserves the inductive invariant. *)
LEMMA StepInv == IInv /\ [Next]_vars => IInv'
  <1> SUFFICES ASSUME IInv, [Next]_vars PROVE IInv'
    OBVIOUS
  <1>1. CASE \E bytes \in Sizes : MallocFirst(bytes)
    BY <1>1, MallocFirstInv
  <1>2. CASE (\E bytes \in Sizes : Malloc(bytes)) \/ Advance \/ Skip
               \/ FreeReturns \/ UNCHANGED vars
    BY <1>2, QuietInv
  <1>3. CASE \E b \in held : Free(b)
    BY <1>3, FreeInv
  <1>4. CASE Split
    BY <1>4, SplitInv
  <1>5. CASE TakeWhole
    BY <1>5, TakeWholeInv
  <1>6. CASE Append
    BY <1>6, AppendInv
  <1>7. CASE Merge
    BY <1>7, MergeInv
  <1> QED BY <1>1, <1>2, <1>3, <1>4, <1>5, <1>6, <1>7 DEF Next, Running

(* The inductive invariant holds throughout, whatever is allocated and     *)
(* freed in whatever order.                                                *)
THEOREM Invariance == Spec => []IInv
  BY InitInv, StepInv, PTL DEF Spec

(* The list's fields are defined on the same nodes and its pointers, and   *)
(* those of the loops over it, never leave it (heap.c's node, ->prev and   *)
(* ->next).                                                                *)
THEOREM TypeCorrect == Spec => []TypeOK
  <1>1. IInv => TypeOK
    BY DEF IInv
  <1> QED BY <1>1, Invariance, PTL

(* The nodes tile the heap from its start and the two directions of the    *)
(* list agree after every split, append and merge.                         *)
THEOREM HeapTiled == Spec => []Tiled
  <1>1. IInv => Tiled
    BY DEF IInv
  <1> QED BY <1>1, Invariance, PTL

(* No two blocks that callers hold overlap, and no header lies in a block: *)
(* what malloc returned stays its caller's until free.                     *)
THEOREM BlocksAreDisjoint == Spec => []BlocksDisjoint
  BY Disjoint, Invariance, PTL

(* The heap is sound: its list covers its memory, and what callers hold is *)
(* theirs alone.                                                           *)
THEOREM HeapIsSound == Spec => []HeapSound
  <1>1. Tiled /\ BlocksDisjoint => HeapSound
    BY DEF HeapSound
  <1> QED BY <1>1, HeapTiled, BlocksAreDisjoint, PTL

-----------------------------------------------------------------------------
(* Two free nodes side by side are found only while a block is being freed,*)
(* and only where the pass over the list has not been yet.                 *)
Unmerged(a) == next[a] # NULL /\ a \notin used /\ next[a] \notin used

MergedInv ==
    \A a \in Nodes : Unmerged(a) => pc = "free" /\ node # NULL /\ node <= next[a]

(* What lies behind the node of the pass lies behind its next node, too.   *)
LEMMA PassMovesOn ==
    ASSUME IInv, node \in Nodes, NEW b \in Nodes, node < b
    PROVE  next[node] \in Nodes /\ next[node] # NULL /\ next[node] <= b
  <1>1. next[node] # NULL /\ End(node) <= b
    BY DEF IInv, Tiled
  <1>2. next[node] = End(node) /\ next[node] \in Nodes
    BY <1>1 DEF IInv, Tiled, TypeOK
  <1> QED BY <1>1, <1>2

LEMMA MergedSplit ==
    ASSUME IInv, MergedInv, Split
    PROVE  MergedInv'
  <1> DEFINE m == Payload(node) + Align(want)
             s == SplitSize
  <1>1. PICK n, x, w : n = node /\ x = next[node] /\ w = m
    OBVIOUS
  <1>2. /\ n \in Nodes /\ n \notin used /\ pc = "alloc" /\ n # NULL
        /\ used' = used \cup {n}
        /\ next' = With(With(next, w, x), n, w)
        /\ size' = With(With(size, w, s), n, Align(want))
    BY <1>1 DEF Split, Fits, Give, IInv, TypeOK
  <1> HIDE DEF m, s
  <1>3. next \in [Nodes -> Nodes \cup {NULL}] /\ used \subseteq Nodes
    BY DEF IInv, TypeOK
  <1>4. Nodes' = Nodes \cup {w} \cup {n}
    BY <1>2 DEF Nodes, With
  <1>5. \A a \in Nodes' : a # n => next'[a] = IF a = w THEN x ELSE next[a]
    BY <1>2, <1>3, <1>4 DEF With
  <1>6. x = NULL \/ x \in used
    BY <1>1, <1>2 DEF MergedInv, Unmerged
  <1>7. ASSUME NEW a \in Nodes'
        PROVE  ~Unmerged(a)'
    <2>1. CASE a = n
      BY <1>2, <2>1 DEF Unmerged
    <2>2. CASE a # n /\ a = w
      BY <1>2, <1>5, <1>6, <2>2 DEF Unmerged
    <2>3. CASE a # n /\ a # w
      <3>1. a \in Nodes /\ next'[a] = next[a]
        BY <1>4, <1>5, <2>3
      <3>2. ~Unmerged(a)
        BY <1>2, <3>1 DEF MergedInv
      <3> QED BY <1>2, <3>1, <3>2 DEF Unmerged
    <2> QED BY <2>1, <2>2, <2>3
  <1> QED BY <1>7 DEF MergedInv

LEMMA MergedAppend ==
    ASSUME IInv, MergedInv, Append
    PROVE  MergedInv'
  <1>1. PICK n, w : n = node /\ w = End(node)
    OBVIOUS
  <1>2. /\ n \in Nodes /\ pc = "alloc" /\ next[n] = NULL
        /\ used' = used \cup {w}
        /\ next' = With(With(next, w, NULL), n, w)
        /\ size' = With(size, w, Align(want))
    BY <1>1 DEF Append, Give, IInv, TypeOK
  <1>3. next \in [Nodes -> Nodes \cup {NULL}]
    BY DEF IInv, TypeOK
  <1>4. Nodes' = Nodes \cup {w}
    BY <1>2 DEF Nodes, With
  <1>5. \A a \in Nodes' : next'[a] = IF a = n THEN w ELSE IF a = w THEN NULL
                                      ELSE next[a]
    BY <1>2, <1>3, <1>4 DEF With
  <1>6. ASSUME NEW a \in Nodes'
        PROVE  ~Unmerged(a)'
    <2>1. CASE a = n \/ a = w
      BY <1>2, <1>5, <2>1 DEF Unmerged
    <2>2. CASE a # n /\ a # w
      <3>1. a \in Nodes /\ next'[a] = next[a]
        BY <1>4, <1>5, <2>2
      <3>2. ~Unmerged(a)
        BY <1>2, <3>1 DEF MergedInv
      <3> QED BY <1>2, <3>1, <3>2 DEF Unmerged
    <2> QED BY <2>1, <2>2
  <1> QED BY <1>6 DEF MergedInv

(* A merge moves the pass on, and leaves at most the merged node's own     *)
(* pair, which is before the pass.                                         *)
LEMMA MergedMerge ==
    ASSUME IInv, MergedInv, Merge
    PROVE  MergedInv'
  <1>1. PICK n, p, x : n = node /\ p = prev[node] /\ x = next[node]
    OBVIOUS
  <1>2. /\ n \in Nodes /\ n \in Nat /\ p \in Nodes /\ p # NULL
        /\ x \in Nodes \cup {NULL} /\ Nodes \subseteq Nat /\ pc = "free"
    BY <1>1 DEF Merge, Mergeable, IInv, TypeOK
  <1>3. /\ size' = Without(With(size, p, size[p] + size[n] + HDR), n)
        /\ next' = Without(With(next, p, x), n)
        /\ used' = used /\ node' = x /\ pc' = pc
    BY <1>1 DEF Merge, AfterMerge
  <1>4. Nodes' = Nodes \ {n}
    BY <1>2, <1>3 DEF Nodes, With, Without
  <1>5. next \in [Nodes -> Nodes \cup {NULL}]
    BY DEF IInv, TypeOK
  <1>6. \A a \in Nodes' : next'[a] = IF a = p THEN x ELSE next[a]
    BY <1>2, <1>3, <1>4, <1>5 DEF With, Without
  <1>7. ASSUME NEW a \in Nodes', Unmerged(a)'
        PROVE  pc' = "free" /\ node' # NULL /\ node' <= next'[a]
    <2>1. CASE a = p
      BY <1>2, <1>3, <1>6, <1>7, <2>1 DEF Unmerged
    <2>2. CASE a # p
      <3>1. a \in Nodes /\ next'[a] = next[a] /\ Unmerged(a)
        BY <1>3, <1>4, <1>6, <1>7, <2>2 DEF Unmerged
      <3>2. n <= next[a] /\ next[a] \in Nodes /\ next[a] \in Nat
        BY <1>1, <1>2, <1>5, <3>1 DEF MergedInv, Unmerged
      <3>3. next[a] # n
        <4>1. prev[next[a]] = a
          BY <3>1 DEF IInv, Tiled, Unmerged
        <4> QED BY <1>1, <2>2, <4>1
      <3>4. x \in Nodes /\ x # NULL /\ x <= next[a]
        BY <1>1, <1>2, <3>2, <3>3, PassMovesOn
      <3> QED BY <1>2, <1>3, <3>1, <3>4
    <2> QED BY <2>1, <2>2
  <1> QED BY <1>7 DEF MergedInv

LEMMA MergedSkip ==
    ASSUME IInv, MergedInv, Skip
    PROVE  MergedInv'
  <1>1. /\ node \in Nodes /\ pc = "free" /\ pc' = "free" /\ node' = next[node]
        /\ UNCHANGED <<used, next, size>> /\ Nodes' = Nodes /\ Nodes \subseteq Nat
    BY DEF Skip, list, Nodes, IInv, TypeOK
  <1>2. ASSUME NEW a \in Nodes, Unmerged(a)
        PROVE  next[node] # NULL /\ next[node] <= next[a]
    <2>1. node <= next[a] /\ next[a] \in Nodes
      BY <1>2 DEF MergedInv, Unmerged, IInv, TypeOK
    <2>2. prev[next[a]] = a /\ a # NULL
      BY <1>2 DEF IInv, Tiled, TypeOK, Unmerged
    <2>3. node # next[a]
      BY <1>2, <2>2 DEF Skip, Mergeable, Unmerged
    <2>4. node \in Nat /\ next[a] \in Nat
      BY <1>1, <2>1 DEF IInv, TypeOK
    <2>5. node < next[a]
      BY <2>1, <2>3, <2>4
    <2> QED BY <1>1, <2>1, <2>5, PassMovesOn
  <1> QED BY <1>1, <1>2 DEF MergedInv, Unmerged

LEMMA MergedFree ==
    ASSUME IInv, MergedInv, NEW b \in held, Free(b)
    PROVE  MergedInv'
  <1>1. /\ pc' = "free" /\ node' = first /\ UNCHANGED <<next, size>>
        /\ Nodes' = Nodes /\ b.addr - HDR \in used
    BY DEF Free, Nodes, IInv, Owned
  <1>2. first = START /\ START \in Nodes /\ Nodes \subseteq Nat \ {NULL}
    BY <1>1 DEF IInv, TypeOK
  <1>3. \A a \in Nodes : next[a] # NULL => START <= next[a]
    BY DEF IInv, Tiled, TypeOK
  <1> QED BY <1>1, <1>2, <1>3 DEF MergedInv, Unmerged

LEMMA MergedStep == IInv /\ MergedInv /\ [Next]_vars => MergedInv'
  <1> SUFFICES ASSUME IInv, MergedInv, [Next]_vars PROVE MergedInv'
    OBVIOUS
  <1>1. CASE \E bytes \in Sizes : MallocFirst(bytes)
    <2>1. PICK bytes \in Sizes : MallocFirst(bytes)
      BY <1>1
    <2>2. Nodes = {}
      BY <2>1, HeapAssumption DEF MallocFirst, IInv, TypeOK
    <2>3. Nodes' = {START} /\ used' = used \cup {START}
      BY <2>1, <2>2 DEF MallocFirst, Give, Nodes, With
    <2> QED BY <2>3 DEF MergedInv, Unmerged
  <1>2. CASE \/ \E bytes \in Sizes : Malloc(bytes)
             \/ Advance \/ FreeReturns \/ UNCHANGED vars
    <2>1. UNCHANGED <<used, next, size>> /\ Nodes' = Nodes
      BY <1>2 DEF Malloc, Advance, FreeReturns, vars, list, Nodes
    <2>2. pc = "free" /\ node # NULL => UNCHANGED vars
      BY <1>2 DEF Malloc, Advance, FreeReturns
    <2> QED BY <2>1, <2>2 DEF MergedInv, Unmerged, vars
  <1>3. CASE \E b \in held : Free(b)
    BY <1>3, MergedFree
  <1>4. CASE Split
    BY <1>4, MergedSplit
  <1>5. CASE TakeWhole
    <2>1. UNCHANGED <<next, size>> /\ Nodes' = Nodes /\ pc = "alloc"
          /\ used' = used \cup {node}
      BY <1>5 DEF TakeWhole, Give, Nodes
    <2> QED BY <2>1 DEF MergedInv, Unmerged
  <1>6. CASE Append
    BY <1>6, MergedAppend
  <1>7. CASE Merge
    BY <1>7, MergedMerge
  <1>8. CASE Skip
    BY <1>8, MergedSkip
  <1> QED BY <1>1, <1>2, <1>3, <1>4, <1>5, <1>6, <1>7, <1>8 DEF Next, Running

(* Free space is never left in pieces: between calls no two free nodes lie *)
(* side by side, and when every block is freed the whole heap is one node  *)
(* again, whatever the order of the calls to _heap_free.                   *)
THEOREM FreeSpaceMerges == Spec => []Coalesced
  <1>1. Init => MergedInv
    BY DEF Init, MergedInv, Nodes
  <1>2. IInv /\ MergedInv => Coalesced
    <2> SUFFICES ASSUME IInv, MergedInv, pc = "idle" PROVE Coalesced
      BY DEF Coalesced
    <2>1. \A a \in Nodes \ used : next[a] # NULL => next[a] \in used
      BY DEF MergedInv, Unmerged
    <2>2. held = {} => Cardinality(Nodes) <= 1
      <3> SUFFICES ASSUME held = {} PROVE Cardinality(Nodes) <= 1
        OBVIOUS
      <3>1. used = {}
        BY DEF IInv, Owned
      <3>2. \A a \in Nodes : next[a] = NULL
        BY <2>1, <3>1
      <3>3. \A a, b \in Nodes : a = b
        <4>1. \A a, b \in Nodes : ~(a < b)
          BY <3>2 DEF IInv, Tiled
        <4> QED BY <4>1 DEF IInv, TypeOK
      <3>4. CASE Nodes = {}
        BY <3>4, FS_EmptySet
      <3>5. CASE \E a : a \in Nodes
        <4>1. PICK a : Nodes = {a}
          BY <3>3, <3>5
        <4> QED BY <4>1, FS_Singleton
      <3> QED BY <3>4, <3>5
    <2> QED BY <2>1, <2>2 DEF Coalesced
  <1> QED BY <1>1, <1>2, Invariance, MergedStep, PTL DEF Spec
=============================================================================
