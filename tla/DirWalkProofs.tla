----------------------------- MODULE DirWalkProofs -----------------------------
(***************************************************************************)
(* Proofs about DirWalk, for any directories, any order readdir returns    *)
(* them in and any number of changes: the types, that the depth counted is *)
(* the one the paths need, that a walk that ends by itself misses no       *)
(* directory, and that every node is freed.                                *)
(*                                                                         *)
(* The program keeps no record of what is left to do. The proof makes one: *)
(* the spine, the nodes from tmp_root up to the root. Every right brother  *)
(* of a node of the spine is still to be opened, and every directory that  *)
(* is neither listed nor announced lies below one of those, or below an    *)
(* entry of the directory being read that readdir has not returned         *)
(* (Awaited). At the top of the climb nothing is left of it.               *)
(***************************************************************************)
EXTENDS DirWalk, QueueLemmas, TLAPS

(* The path of a node is its parent's path and its name.                   *)
LEMMA PathRecursion ==
  ASSUME NEW h, NEW n \in Nat, DOMAIN h = 1..n,
         \A a \in 1..n : h[a].parent = NULL \/ h[a].parent \in 1..(a - 1)
  PROVE  \A a \in 1..n :
           FullPath(h, a) = IF h[a].parent = NULL THEN <<h[a].name>>
                            ELSE Append(FullPath(h, h[a].parent), h[a].name)
<1> DEFINE Step(f, b) == IF h[b].parent = NULL THEN <<h[b].name>>
                         ELSE Append(f[h[b].parent], h[b].name)
           Upto(m, f) == f = [b \in 1..m |-> Step(f, b)]
           S == {m \in Nat : m <= n => \E f : Upto(m, f)}
           full == CHOOSE f : f = [b \in DOMAIN h |-> Step(f, b)]
<1>1. 0 \in S
  <2>1. Upto(0, [b \in 1..0 |-> 0])
    OBVIOUS
  <2> QED
    BY <2>1
<1>2. ASSUME NEW m \in Nat, m \in S PROVE m + 1 \in S
  <2> SUFFICES ASSUME m + 1 <= n PROVE \E f : Upto(m + 1, f)
    OBVIOUS
  <2>1. PICK f : Upto(m, f)
    BY <1>2
  <2> DEFINE g == [b \in 1..(m + 1) |-> Step(f, b)]
  <2>2. \A b \in 1..m : f[b] = g[b]
    <3>1. \A b \in 1..m : f[b] = Step(f, b)
      <4> HIDE DEF Step
      <4> QED
        BY <2>1
    <3>2. \A b \in 1..m : g[b] = Step(f, b)
      <4> HIDE DEF Step
      <4> QED
        OBVIOUS
    <3> HIDE DEF Step, g
    <3> QED
      BY <3>1, <3>2
  <2>3. \A b \in 1..(m + 1) : h[b].parent = NULL \/ h[b].parent \in 1..m
    OBVIOUS
  <2>4. \A b \in 1..(m + 1) : Step(f, b) = Step(g, b)
    BY <2>2, <2>3
  <2>5. Upto(m + 1, g)
    BY <2>4
  <2> QED
    BY <2>5
<1>3. PICK f : Upto(n, f)
  <2> HIDE DEF S
  <2>1. \A m \in Nat : m \in S
    BY <1>1, <1>2, Induction
  <2>2. n <= n
    OBVIOUS
  <2> HIDE DEF Upto
  <2> QED
    BY <2>1, <2>2 DEF S
<1>4. full = [b \in DOMAIN h |-> Step(full, b)]
  BY <1>3
<1>5. \A a : FullPath(h, a) = full[a]
  BY DEF FullPath
<1> QED
  BY <1>4, <1>5

(* Links to later nodes change no path.                                    *)
LEMMA PathsKept ==
  ASSUME NEW h, NEW n \in Nat, DOMAIN h = 1..n,
         NEW g, NEW m \in Nat, DOMAIN g = 1..m, n <= m,
         \A a \in 1..n : h[a].parent = NULL \/ h[a].parent \in 1..(a - 1),
         \A a \in 1..m : g[a].parent = NULL \/ g[a].parent \in 1..(a - 1),
         \A a \in 1..n : g[a].parent = h[a].parent /\ g[a].name = h[a].name
  PROVE  \A a \in 1..n : FullPath(g, a) = FullPath(h, a)
<1>h. \A a \in 1..n : FullPath(h, a) = IF h[a].parent = NULL THEN <<h[a].name>>
                                       ELSE Append(FullPath(h, h[a].parent), h[a].name)
  BY PathRecursion
<1>g. \A a \in 1..m : FullPath(g, a) = IF g[a].parent = NULL THEN <<g[a].name>>
                                       ELSE Append(FullPath(g, g[a].parent), g[a].name)
  BY PathRecursion
<1> DEFINE S == {k \in Nat : \A a \in 1..n : a <= k => FullPath(g, a) = FullPath(h, a)}
<1>1. 0 \in S
  OBVIOUS
<1>2. ASSUME NEW k \in Nat, k \in S PROVE k + 1 \in S
  <2> SUFFICES ASSUME NEW a \in 1..n, a = k + 1 PROVE FullPath(g, a) = FullPath(h, a)
    BY <1>2
  <2>1. CASE h[a].parent = NULL
    BY <1>h, <1>g, <2>1
  <2>2. CASE h[a].parent \in 1..(a - 1)
    <3>1. FullPath(g, h[a].parent) = FullPath(h, h[a].parent)
      BY <1>2, <2>2
    <3>2. h[a].parent # NULL
      BY <2>2 DEF NULL
    <3>3. FullPath(h, a) = Append(FullPath(h, h[a].parent), h[a].name)
      BY <1>h, <3>2
    <3>4. FullPath(g, a) = Append(FullPath(g, g[a].parent), g[a].name)
      BY <1>g, <3>2
    <3> QED
      BY <3>1, <3>3, <3>4
  <2> QED
    BY <2>1, <2>2
<1> HIDE DEF S
<1>3. \A k \in Nat : k \in S
  BY <1>1, <1>2, Induction
<1> QED
  BY <1>3 DEF S

-----------------------------------------------------------------------------
(* Directories and their prefixes.                                         *)
Prefix(p, k) == SubSeq(p, 1, k)

(* What the assumptions say of the directories there may be.               *)
LEMMA PathFacts ==
  /\ \A p \in Paths : p \in Seq(Names) /\ Len(p) \in Nat \ {0}
  /\ Root \in Paths /\ Root[1] \in Names /\ Root = <<Root[1]>>
  /\ \A p \in Paths : Len(p) = 1 => p = Root
  /\ Default \subseteq Paths /\ Root \notin Default
<1>1. /\ Root \in Paths /\ Len(Root) = 1
      /\ \A p \in Paths : p \in Seq(Names) /\ Len(p) \in Nat \ {0}
      /\ \A p \in Paths : Len(p) = 1 => p = Root
  BY WalkAssumption DEF WalkAssumption, Root
<1>2. Root[1] \in Names /\ Root = <<Root[1]>>
  BY <1>1
<1> QED
  BY <1>1, <1>2, WalkAssumption DEF WalkAssumption

(* Prefixes and parents.                                                   *)
LEMMA PrefixFacts ==
  ASSUME NEW S, NEW p \in Seq(S), NEW k \in 1..Len(p)
  PROVE  /\ Prefix(p, k) \in Seq(S) /\ Len(Prefix(p, k)) = k
         /\ \A i \in 1..k : Prefix(p, k)[i] = p[i]
<1>n. Len(p) \in Nat /\ \A i \in 1..Len(p) : p[i] \in S
  OBVIOUS
<1>1. \A i \in 1..k : p[i] \in S
  BY <1>n
<1>2. 1 \in Int /\ k \in Int /\ 1 <= k
  BY <1>n
<1>3. /\ SubSeq(p, 1, k) \in Seq(S)
      /\ Len(SubSeq(p, 1, k)) = IF 1 <= k THEN k - 1 + 1 ELSE 0
      /\ \A i \in 1..(k - 1 + 1) : SubSeq(p, 1, k)[i] = p[1 + i - 1]
  BY <1>1, <1>2, SubSeqProperties
<1>4. k - 1 + 1 = k /\ \A i \in 1..k : 1 + i - 1 = i
  BY <1>2
<1> QED
  BY ONLY <1>2, <1>3, <1>4 DEF Prefix

LEMMA PrefixNext ==
  ASSUME NEW S, NEW p \in Seq(S), NEW k \in 1..Len(p), k < Len(p)
  PROVE  Prefix(p, k + 1) = Append(Prefix(p, k), p[k + 1])
<1>1. Len(p) \in Nat /\ k + 1 \in 1..Len(p) /\ p[k + 1] \in S
  OBVIOUS
<1> DEFINE s == Prefix(p, k)
           t == Prefix(p, k + 1)
<1>2. s \in Seq(S) /\ Len(s) = k /\ \A i \in 1..k : s[i] = p[i]
  BY PrefixFacts
<1>3. t \in Seq(S) /\ Len(t) = k + 1 /\ \A i \in 1..(k + 1) : t[i] = p[i]
  BY <1>1, PrefixFacts
<1> HIDE DEF s, t
<1>4. t = Append(s, p[k + 1])
  BY <1>1, <1>2, <1>3
<1> QED
  BY <1>4 DEF s, t

LEMMA PrefixOfPrefix ==
  ASSUME NEW S, NEW p \in Seq(S), NEW k \in 1..Len(p), NEW i \in 1..k
  PROVE  Prefix(Prefix(p, k), i) = Prefix(p, i)
<1> DEFINE q == Prefix(p, k)
           s == Prefix(q, i)
           t == Prefix(p, i)
<1>1. Len(p) \in Nat /\ i \in 1..Len(p)
  OBVIOUS
<1>2. q \in Seq(S) /\ Len(q) = k /\ \A j \in 1..k : q[j] = p[j]
  BY PrefixFacts
<1>3. t \in Seq(S) /\ Len(t) = i /\ \A j \in 1..i : t[j] = p[j]
  BY <1>1, PrefixFacts
<1> HIDE DEF q, t
<1>4. s \in Seq(S) /\ Len(s) = i /\ \A j \in 1..i : s[j] = q[j]
  BY <1>2, PrefixFacts
<1> HIDE DEF s
<1>5. s = t
  BY <1>2, <1>3, <1>4
<1> QED
  BY <1>5 DEF q, s, t

LEMMA Parents ==
  ASSUME NEW p \in Paths, p # Root
  PROVE  /\ Len(p) > 1 /\ Parent(p) \in Paths /\ Last(p) \in Names
         /\ Parent(p) = Prefix(p, Len(p) - 1) /\ Len(p) - 1 \in 1..Len(p)
         /\ Len(Parent(p)) = Len(p) - 1 /\ Last(p) = p[Len(p)]
         /\ p = Append(Parent(p), Last(p))
<1>1. p \in Seq(Names) /\ Len(p) \in Nat /\ Len(p) > 1
  BY PathFacts
<1>2. Parent(p) \in Paths
  BY <1>1, WalkAssumption DEF WalkAssumption, Parent
<1>3. Parent(p) = Prefix(p, Len(p) - 1) /\ Last(p) = p[Len(p)]
  BY DEF Parent, Front, Last, Prefix
<1>4. Len(p) - 1 \in 1..Len(p) /\ Len(p) - 1 < Len(p) /\ (Len(p) - 1) + 1 = Len(p)
  BY <1>1
<1>5. /\ Prefix(p, (Len(p) - 1) + 1) = Append(Prefix(p, Len(p) - 1), p[(Len(p) - 1) + 1])
      /\ Prefix(p, Len(p)) = p /\ Len(Prefix(p, Len(p) - 1)) = Len(p) - 1
      /\ Len(p) \in 1..Len(p) /\ p[Len(p)] \in Names
  <2>1. Len(p) \in 1..Len(p)
    BY <1>1
  <2>2. /\ Prefix(p, (Len(p) - 1) + 1) = Append(Prefix(p, Len(p) - 1), p[(Len(p) - 1) + 1])
        /\ Prefix(p, Len(p)) = p /\ Len(Prefix(p, Len(p) - 1)) = Len(p) - 1
    BY <1>1, <1>4, PrefixFacts, PrefixNext, SubSeqFull DEF Prefix
  <2>3. p[Len(p)] \in Names
    BY <1>1, <2>1
  <2> QED
    BY <2>1, <2>2, <2>3
<1> QED
  BY <1>1, <1>2, <1>3, <1>4, <1>5

LEMMA Extended ==
  ASSUME NEW p \in Seq(Names), NEW n, Append(p, n) \in Paths, Len(p) > 0
  PROVE  /\ Append(p, n) # Root /\ Parent(Append(p, n)) = p /\ Last(Append(p, n)) = n
         /\ n \in Names
<1> DEFINE q == Append(p, n)
<1>1. /\ Len(p) \in Nat /\ Len(q) = Len(p) + 1 /\ q[Len(p) + 1] = n
      /\ \A i \in 1..Len(p) : q[i] = p[i]
  OBVIOUS
<1>2. q \in Seq(Names)
  BY PathFacts
<1>3. q # Root
  BY <1>1, PathFacts
<1>4. Last(q) = n
  BY <1>1 DEF Last
<1> HIDE DEF q
<1>5. Parent(q) = p
  <2>1. Len(q) - 1 = Len(p)
    BY <1>1
  <2>2. Parent(q) = SubSeq(q, 1, Len(p))
    BY <2>1 DEF Parent, Front
  <2> QED
    BY <1>1, <1>2, <2>2
<1>6. n \in Names
  BY <1>3, <1>4, Parents DEF q
<1> QED
  BY <1>3, <1>4, <1>5, <1>6 DEF q

-----------------------------------------------------------------------------
(* The invariant. A node is made after its parent; brothers are made one   *)
(* after another; next links all nodes in the order they were made in.     *)
Tree ==
  /\ heap # <<>> /\ heap[1].parent = NULL
  /\ \A a \in DOMAIN heap : a = 1 \/ heap[a].parent \in 1..(a - 1)
  /\ \A a \in DOMAIN heap : FullPath(heap, a) \in ToSet(list)

Links ==
  /\ \A a, b \in DOMAIN heap :
       a < b /\ heap[a].parent = heap[b].parent => heap[a + 1].parent = heap[a].parent
  /\ \A a \in DOMAIN heap :
       heap[a].Rbrother = IF a < Len(heap) /\ heap[a + 1].parent = heap[a].parent
                          THEN a + 1 ELSE NULL
  /\ \A a \in DOMAIN heap : heap[a].next = IF a < Len(heap) THEN a + 1 ELSE NULL

(* Where the walk is: what tmp_root, prv_node and depth are for. Reader is *)
(* the node of the directory being read.                                   *)
Walking == pc \in {"loop", "read", "next", "climb", "path"}
AtNew   == pc \in {"loop", "path"} \/ findFolder
Reader  == IF findFolder THEN heap[tmpRoot].parent ELSE tmpRoot

Position ==
  Walking =>
    /\ tmpRoot \in DOMAIN heap /\ prvNode = Len(heap) /\ ~done
    /\ pc \in {"loop", "climb"} => ~findFolder
    /\ pc = "loop" => path = FullPath(heap, tmpRoot)
    /\ pc = "read" => path = FullPath(heap, Reader)
    /\ findFolder => tmpRoot # 1 /\ heap[Len(heap)].parent = heap[tmpRoot].parent
    /\ pc = "climb" => heap[tmpRoot].Rbrother = NULL
    /\ pc = "read" /\ ~findFolder => \A c \in DOMAIN heap : heap[c].parent # tmpRoot
    /\ depth = Level(tmpRoot) + (IF AtNew THEN 0 ELSE 1)

(* What the walk still comes to. S is the node t with its ancestors; their *)
(* later brothers are to be opened, and so is tmp_root when it is new.     *)
Spine(t, S) ==
  /\ t \in S /\ S \subseteq 1..t
  /\ \A b \in S : b = 1 \/ (heap[b].parent \in S /\ \A a \in S : a < b => a <= heap[b].parent)
Later(S)    == {b \in DOMAIN heap : \E a \in S : a < b /\ heap[b].parent = heap[a].parent}
ToOpen(S)   == Later(S) \cup (IF AtNew THEN {tmpRoot} ELSE {})
Unopened(S) == \A b \in ToOpen(S), c \in DOMAIN heap : heap[c].parent # b

(* A directory that is neither listed nor announced has an ancestor that   *)
(* the walk comes to, or reads and has not read the way to it yet.         *)
Missing == dirs \ (watched \cup announced)
Covered(S, p) ==
  \E k \in 1..(Len(p) - 1) :
     \/ \E b \in ToOpen(S) : FullPath(heap, b) = Prefix(p, k)
     \/ pc = "read" /\ path = Prefix(p, k) /\ p[k + 1] \in unread
Awaiting(S) == Spine(tmpRoot, S) /\ Unopened(S) /\ \A p \in Missing : Covered(S, p)
Awaited == Walking => \E S \in SUBSET Nat : Awaiting(S)

History ==
  /\ Root \in dirs /\ \A p \in dirs : \A k \in 1..Len(p) : Prefix(p, k) \in dirs
  /\ Root \in watched
  /\ \A p \in ToSet(list) :
       /\ p \in dirs => p \in watched \cup announced
       /\ p \in Default => p \in dirs
       /\ p \notin Default \cup {Root} => Parent(p) \in ToSet(list)

Ended ==
  /\ done => Missing = {}
  /\ pc = "end" => freed = DOMAIN heap

-----------------------------------------------------------------------------
(* What the invariant says of addresses, paths and the node being read.    *)
LEMMA HeapFacts ==
  ASSUME TypeOK, Tree
  PROVE  /\ Len(heap) \in Nat \ {0} /\ DOMAIN heap = 1..Len(heap)
         /\ 1 \in DOMAIN heap /\ Len(heap) \in DOMAIN heap
         /\ \A a \in DOMAIN heap : heap[a] \in Node
         /\ \A a \in 1..Len(heap) : heap[a].parent = NULL \/ heap[a].parent \in 1..(a - 1)
<1>1. heap \in Seq(Node) /\ heap # <<>>
  BY DEF TypeOK, Tree
<1>2. /\ Len(heap) \in Nat \ {0} /\ DOMAIN heap = 1..Len(heap)
      /\ 1 \in DOMAIN heap /\ Len(heap) \in DOMAIN heap
      /\ \A a \in DOMAIN heap : heap[a] \in Node
  BY ONLY <1>1, Placed
<1> QED
  BY <1>2 DEF Tree

LEMMA PathsOfNodes ==
  ASSUME TypeOK, Tree
  PROVE  /\ \A a \in DOMAIN heap : FullPath(heap, a) \in Paths /\ Level(a) \in Nat
         /\ \A a \in DOMAIN heap : a # 1 =>
              /\ heap[a].parent \in DOMAIN heap /\ heap[a].parent < a
              /\ FullPath(heap, a) = Append(FullPath(heap, heap[a].parent), heap[a].name)
              /\ Level(a) = Level(heap[a].parent) + 1
<1>1. Len(heap) \in Nat /\ DOMAIN heap = 1..Len(heap)
  BY HeapFacts
<1>2. \A a \in DOMAIN heap : FullPath(heap, a) \in Paths
  BY DEF TypeOK, Tree, ToSet
<1>3. \A a \in DOMAIN heap : Level(a) \in Nat
  BY <1>2, PathFacts DEF Level
<1>4. ASSUME NEW a \in DOMAIN heap, a # 1
      PROVE  /\ heap[a].parent \in DOMAIN heap /\ heap[a].parent < a
             /\ FullPath(heap, a) = Append(FullPath(heap, heap[a].parent), heap[a].name)
             /\ Level(a) = Level(heap[a].parent) + 1
  <2> DEFINE b == heap[a].parent
  <2>1. b \in 1..(a - 1) /\ b # NULL
    BY <1>4, <1>1 DEF Tree, NULL
  <2>2. b \in DOMAIN heap /\ b < a
    BY <1>1, <2>1
  <2>3. FullPath(heap, a) = Append(FullPath(heap, b), heap[a].name)
    <3>1. \A c \in 1..Len(heap) :
            FullPath(heap, c) = IF heap[c].parent = NULL THEN <<heap[c].name>>
                                ELSE Append(FullPath(heap, heap[c].parent), heap[c].name)
      BY HeapFacts, PathRecursion
    <3> QED
      BY <1>1, <2>1, <3>1
  <2>4. FullPath(heap, b) \in Seq(Names)
    BY <1>2, <2>2, PathFacts
  <2>5. Len(FullPath(heap, a)) = Len(FullPath(heap, b)) + 1 /\ Len(FullPath(heap, b)) \in Nat
    <3> HIDE DEF b
    <3> QED
      BY <2>3, <2>4
  <2> QED
    BY <2>2, <2>3, <2>5 DEF Level
<1> QED
  BY <1>2, <1>3, <1>4

LEMMA Readers ==
  ASSUME TypeOK, Tree, Position, pc = "read"
  PROVE  /\ Reader \in DOMAIN heap /\ Reader # NULL /\ path = FullPath(heap, Reader)
         /\ findFolder => heap[Len(heap)].parent = Reader /\ heap[tmpRoot].parent = Reader
         /\ tmpRoot \in DOMAIN heap /\ prvNode = Len(heap)
<1>1. /\ tmpRoot \in DOMAIN heap /\ prvNode = Len(heap) /\ path = FullPath(heap, Reader)
      /\ findFolder => tmpRoot # 1 /\ heap[Len(heap)].parent = heap[tmpRoot].parent
  BY DEF Position, Walking
<1>2. Reader \in DOMAIN heap
  BY <1>1, PathsOfNodes DEF Reader
<1>3. Reader # NULL
  BY <1>2, HeapFacts DEF NULL
<1> QED
  BY <1>1, <1>2, <1>3 DEF Reader

(* The heap after a directory was found.                                   *)
LEMMA Grown ==
  ASSUME TypeOK, Tree, Position, NEW n \in Names, ReadEntry(n), Append(path, n) \in dirs
  PROVE  /\ heap' \in Seq(Node) /\ Len(heap') = Len(heap) + 1
         /\ DOMAIN heap' = 1..(Len(heap) + 1)
         /\ \A a \in 1..Len(heap) :
              /\ heap'[a].parent = heap[a].parent /\ heap'[a].name = heap[a].name
              /\ heap'[a].Rbrother = IF findFolder /\ a = Len(heap) THEN Len(heap) + 1
                                     ELSE heap[a].Rbrother
              /\ heap'[a].next = IF a = Len(heap) THEN Len(heap) + 1 ELSE heap[a].next
         /\ heap'[Len(heap) + 1] = NewNode(n, Reader)
         /\ \A a \in 1..Len(heap) : FullPath(heap', a) = FullPath(heap, a)
         /\ FullPath(heap', Len(heap) + 1) = Append(path, n)
<1> DEFINE L == Len(heap)
           node == NewNode(n, Reader)
           old == IF findFolder THEN [heap EXCEPT ![L].Rbrother = L + 1, ![L].next = L + 1]
                  ELSE [heap EXCEPT ![L].next = L + 1]
<1>1. /\ pc = "read" /\ L \in Nat \ {0} /\ DOMAIN heap = 1..L /\ L \in DOMAIN heap
      /\ heap \in Seq(Node) /\ prvNode = L
      /\ \A a \in 1..L : heap[a] \in Node
      /\ Reader \in 1..L /\ Reader # NULL
  BY HeapFacts, Readers DEF ReadEntry, TypeOK
<1>2. heap' = Append(old, node)
  BY <1>1 DEF ReadEntry, Linked, Reader
<1>3. node \in Node
  BY <1>1 DEF NewNode, Node, NULL
<1>4. /\ old \in [1..L -> Node]
      /\ \A a \in 1..L :
              /\ old[a].parent = heap[a].parent /\ old[a].name = heap[a].name
              /\ old[a].Rbrother = IF findFolder /\ a = L THEN L + 1 ELSE heap[a].Rbrother
              /\ old[a].next = IF a = L THEN L + 1 ELSE heap[a].next
  <2> HIDE DEF L
  <2> DEFINE last == [heap[L] EXCEPT !.Rbrother = IF findFolder THEN L + 1 ELSE @,
                                     !.next = L + 1]
  <2>1. heap \in [1..L -> Node] /\ heap[L] \in Node /\ L \in 1..L
    BY <1>1
  <2> HIDE DEF L
  <2>2. /\ last \in Node /\ last.parent = heap[L].parent /\ last.name = heap[L].name
        /\ last.Rbrother = (IF findFolder THEN L + 1 ELSE heap[L].Rbrother)
        /\ last.next = L + 1
    <3>0. L + 1 \in Nat
      BY <1>1
    <3>1. CASE findFolder
      BY ONLY <2>1, <3>0, <3>1 DEF Node
    <3>2. CASE ~findFolder
      BY ONLY <2>1, <3>0, <3>2 DEF Node
    <3> QED
      BY <3>1, <3>2
  <2>3. old = [heap EXCEPT ![L] = last]
    <3>1. CASE findFolder
      BY ONLY <2>1, <3>1 DEF Node
    <3>2. CASE ~findFolder
      BY ONLY <2>1, <3>2 DEF Node
    <3> QED
      BY <3>1, <3>2
  <2> HIDE DEF old, last
  <2>4. old \in [1..L -> Node] /\ \A a \in 1..L : old[a] = IF a = L THEN last ELSE heap[a]
    BY ONLY <2>1, <2>2, <2>3
  <2> QED
    BY ONLY <2>2, <2>4
<1>5. old \in Seq(Node) /\ Len(old) = L
  <2> HIDE DEF old, L
  <2>1. L \in Nat /\ old \in [1..L -> Node]
    BY <1>1, <1>4
  <2> QED
    BY ONLY <2>1
<1> HIDE DEF old, node, L
<1>6. /\ heap' \in Seq(Node) /\ Len(heap') = L + 1 /\ DOMAIN heap' = 1..(L + 1)
      /\ \A a \in 1..L : heap'[a] = old[a]
      /\ heap'[L + 1] = node
  BY <1>2, <1>3, <1>5
<1>7. \A a \in 1..(L + 1) : heap'[a].parent = NULL \/ heap'[a].parent \in 1..(a - 1)
  <2>1. heap'[L + 1].parent = Reader /\ Reader \in 1..((L + 1) - 1)
    BY <1>1, <1>6 DEF node, NewNode
  <2>2. \A a \in 1..L : heap[a].parent = NULL \/ heap[a].parent \in 1..(a - 1)
    BY HeapFacts DEF L
  <2>3. \A a \in 1..(L + 1) : a \in 1..L \/ a = L + 1
    BY <1>1
  <2> QED
    BY <1>4, <1>6, <2>1, <2>2, <2>3
<1>8. \A a \in 1..L : FullPath(heap', a) = FullPath(heap, a)
  <2>1. L \in Nat /\ L + 1 \in Nat /\ L <= L + 1
    BY <1>1
  <2>2. \A a \in 1..L : heap[a].parent = NULL \/ heap[a].parent \in 1..(a - 1)
    BY HeapFacts DEF L
  <2>3. \A a \in 1..L : heap'[a].parent = heap[a].parent /\ heap'[a].name = heap[a].name
    BY <1>4, <1>6
  <2>4. DOMAIN heap = 1..L /\ DOMAIN heap' = 1..(L + 1)
    BY <1>1, <1>6
  <2> QED
    BY ONLY <1>7, <2>1, <2>2, <2>3, <2>4, PathsKept
<1>9. FullPath(heap', L + 1) = Append(path, n)
  <2>1. heap'[L + 1].parent = Reader /\ heap'[L + 1].name = n
    BY <1>6 DEF node, NewNode
  <2>2. L + 1 \in Nat /\ L + 1 \in 1..(L + 1)
    BY <1>1
  <2>3. \A a \in 1..(L + 1) :
          FullPath(heap', a) = IF heap'[a].parent = NULL THEN <<heap'[a].name>>
                               ELSE Append(FullPath(heap', heap'[a].parent), heap'[a].name)
    BY ONLY <1>6, <1>7, <2>2, PathRecursion
  <2>4. FullPath(heap', L + 1) = Append(FullPath(heap', Reader), n)
    BY ONLY <1>1, <2>1, <2>2, <2>3
  <2> QED
    BY <1>1, <1>8, <2>4, Readers
<1> QED
  BY ONLY <1>4, <1>6, <1>8, <1>9 DEF L, node

(* What AddNode does to the list, whether the name is new or not.          *)
LEMMA NodeAdded ==
  ASSUME NEW p \in Paths, list \in Seq(Paths), AddNode(p)
  PROVE  /\ list' \in Seq(Paths) /\ ToSet(list') = ToSet(list) \cup {p}
         /\ p \in ToSet(list) => watched' = watched
         /\ p \notin ToSet(list) /\ p \in dirs => watched' = watched \cup {p}
<1>1. CASE p \in ToSet(list)
  BY <1>1 DEF AddNode
<1>2. CASE p \notin ToSet(list)
  <2>1. /\ list' = Append(list, p)
        /\ watched' = IF p \in dirs THEN watched \cup {p} ELSE watched
    BY <1>2 DEF AddNode
  <2>2. /\ list' \in Seq(Paths) /\ Len(list) \in Nat
        /\ DOMAIN list = 1..Len(list) /\ DOMAIN list' = 1..(Len(list) + 1)
        /\ \A i \in 1..Len(list) : list'[i] = list[i]
        /\ list'[Len(list) + 1] = p
    BY <2>1
  <2>3. ToSet(list') = ToSet(list) \cup {p}
    <3>1. 1..(Len(list) + 1) = 1..Len(list) \cup {Len(list) + 1}
      BY <2>2
    <3> QED
      BY ONLY <2>2, <3>1 DEF ToSet
  <2> QED
    BY <1>2, <2>1, <2>2, <2>3
<1> QED
  BY <1>1, <1>2

(* The first state.                                                        *)
LEMMA TypedInit ==
  Init => TypeOK /\ Tree /\ Links /\ Position
<1> SUFFICES ASSUME Init PROVE TypeOK /\ Tree /\ Links /\ Position
  OBVIOUS
<1> DEFINE node == NewNode(Root[1], NULL)
<1>1. node \in Node /\ node.parent = NULL /\ node.Rbrother = NULL /\ node.next = NULL
      /\ node.name = Root[1]
  BY PathFacts DEF NewNode, Node, NULL
<1> HIDE DEF node
<1>2. heap = <<node>>
  BY DEF Init, node
<1>3. heap \in Seq(Node) /\ Len(heap) = 1 /\ DOMAIN heap = {1} /\ heap[1] = node /\ heap # <<>>
  BY <1>1, <1>2
<1>4. list \in Seq(Paths) /\ Root \in ToSet(list) /\ ToSet(list) \subseteq dirs
  <2>1. Root \in Paths /\ Root \in dirs /\ dirs \subseteq Paths
    BY PathFacts DEF Init
  <2>2. CASE list = <<Root>>
    <3>1. DOMAIN list = {1} /\ list[1] = Root /\ list \in Seq(Paths)
      BY <2>1, <2>2
    <3> QED
      BY <2>1, <3>1 DEF ToSet
  <2>3. ASSUME NEW p \in dirs, list = <<p, Root>>
        PROVE  list \in Seq(Paths) /\ Root \in ToSet(list) /\ ToSet(list) \subseteq dirs
    <3>1. DOMAIN list = {1, 2} /\ list[1] = p /\ list[2] = Root /\ list \in Seq(Paths)
      BY <2>1, <2>3
    <3> QED
      BY <2>1, <3>1 DEF ToSet
  <2> QED
    BY <2>2, <2>3 DEF Init
<1>5. FullPath(heap, 1) = Root
  <2>1. \A a \in 1..1 : heap[a].parent = NULL \/ heap[a].parent \in 1..(a - 1)
    BY <1>1, <1>3
  <2>2. 1 \in Nat /\ 1 \in 1..1 /\ DOMAIN heap = 1..1
    BY <1>3
  <2>3. \A a \in 1..1 : FullPath(heap, a) = IF heap[a].parent = NULL THEN <<heap[a].name>>
                                            ELSE Append(FullPath(heap, heap[a].parent), heap[a].name)
    BY ONLY <2>1, <2>2, PathRecursion
  <2> QED
    BY <1>1, <1>3, <2>2, <2>3, PathFacts
<1>6. Tree
  BY <1>1, <1>3, <1>4, <1>5 DEF Tree
<1>7. Links
  BY <1>1, <1>3 DEF Links
<1>8. TypeOK
  <2>1. watched \subseteq Paths /\ announced \subseteq dirs /\ dirs \subseteq Paths
    BY <1>4 DEF Init
  <2>2. MaxChanges \in Nat /\ Root \in Paths
    BY PathFacts, WalkAssumption DEF WalkAssumption
  <2>3. {watch, findFolder, stop, done} \subseteq BOOLEAN
    BY Zenon DEF Init
  <2>4. /\ pc \in {"loop"} /\ {tmpRoot, prvNode} \subseteq DOMAIN heap \cup {NULL}
        /\ depth \in Nat /\ path \in Paths /\ unread \subseteq Names /\ freed \subseteq DOMAIN heap
        /\ changes \in 0..MaxChanges
    BY <1>3, <2>2 DEF Init
  <2> QED
    BY ONLY <1>3, <1>4, <2>1, <2>3, <2>4 DEF TypeOK
<1>9. Position
  <2>1. Level(1) = 0
    <3>1. Len(Root) = 1
      BY PathFacts
    <3> QED
      BY <1>5, <3>1 DEF Level
  <2>2. /\ tmpRoot = 1 /\ prvNode = 1 /\ ~findFolder /\ pc = "loop" /\ path = Root
        /\ depth = 0 /\ ~done
    BY DEF Init
  <2> QED
    BY <1>3, <1>5, <2>1, <2>2 DEF Position, AtNew
<1> QED
  BY <1>6, <1>7, <1>8, <1>9

(* The steps that leave the nodes and the list alone.                      *)
Elsewhere ==
  \/ OpenDir \/ EndDir \/ ReadStopped \/ NextDir \/ Climb \/ GetPath \/ FreeResources
  \/ Interrupt \/ UNCHANGED vars \/ (\E p \in Paths \ {Root} : MakeDir(p) \/ RemoveDir(p))

LEMMA Steps ==
  ASSUME [Next]_vars
  PROVE  Elsewhere \/ \E n \in Names : ReadEntry(n)
BY DEF Next, Walk, Elsewhere

LEMMA NodesKept ==
  ASSUME Elsewhere
  PROVE  UNCHANGED <<heap, list, watch>>
<1>1. CASE OpenDir \/ EndDir \/ ReadStopped \/ NextDir \/ Climb \/ GetPath \/ FreeResources
  BY <1>1 DEF OpenDir, EndDir, ReadStopped, NextDir, Climb, GetPath, FreeResources
<1>2. CASE Interrupt \/ UNCHANGED vars
  BY <1>2 DEF Interrupt, vars, walkVars
<1>3. ASSUME NEW p, MakeDir(p) \/ RemoveDir(p) PROVE UNCHANGED <<heap, list, watch>>
  BY <1>3 DEF MakeDir, RemoveDir, walkVars
<1> QED
  BY <1>1, <1>2, <1>3 DEF Elsewhere

(* The flags; Boolean variables are left to Zenon.                         *)
LEMMA FlagsTyped ==
  ASSUME TypeOK, [Next]_vars
  PROVE  {watch', findFolder', stop', done'} \subseteq BOOLEAN
<1>1. {watch, findFolder, stop, done} \subseteq BOOLEAN
  BY DEF TypeOK
<1>2. /\ watch' = watch
      /\ findFolder' = findFolder \/ findFolder' = TRUE \/ findFolder' = FALSE
      /\ done' = done \/ done' = TRUE
  <2>1. CASE OpenDir \/ EndDir \/ ReadStopped \/ NextDir \/ FreeResources
    BY <2>1, Zenon DEF OpenDir, EndDir, ReadStopped, NextDir, FreeResources
  <2>2. CASE Climb \/ GetPath
    BY <2>2, Zenon DEF Climb, GetPath
  <2>3. ASSUME NEW n, ReadEntry(n)
        PROVE  /\ watch' = watch
               /\ findFolder' = findFolder \/ findFolder' = TRUE \/ findFolder' = FALSE
               /\ done' = done \/ done' = TRUE
    BY <2>3, Zenon DEF ReadEntry
  <2>4. ASSUME NEW p, MakeDir(p) \/ RemoveDir(p)
        PROVE  watch' = watch /\ findFolder' = findFolder /\ done' = done
    BY <2>4, Zenon DEF MakeDir, RemoveDir, walkVars
  <2>5. CASE Interrupt \/ UNCHANGED vars
    BY <2>5, Zenon DEF Interrupt, vars, walkVars
  <2> QED
    BY <2>1, <2>2, <2>3, <2>4, <2>5, Zenon DEF Next, Walk
<1>3. stop' = stop \/ stop' = ~stop
  <2>1. CASE OpenDir \/ EndDir \/ ReadStopped \/ NextDir \/ FreeResources \/ Climb \/ GetPath
    BY <2>1, Zenon DEF OpenDir, EndDir, ReadStopped, NextDir, FreeResources, Climb, GetPath
  <2>2. ASSUME NEW n, ReadEntry(n) PROVE stop' = stop
    BY <2>2, Zenon DEF ReadEntry
  <2>3. ASSUME NEW p, MakeDir(p) \/ RemoveDir(p) PROVE stop' = stop
    BY <2>3, Zenon DEF MakeDir, RemoveDir
  <2>4. CASE Interrupt \/ UNCHANGED vars
    BY <2>4, Zenon DEF Interrupt, vars
  <2> QED
    BY <2>1, <2>2, <2>3, <2>4, Zenon DEF Next, Walk
<1> QED
  BY <1>1, <1>2, <1>3, Zenon

(* FREE_RESOURCES reaches every node.                                      *)
LEMMA AllFreed ==
  ASSUME TypeOK, Tree, Links, FreeResources
  PROVE  freed' = DOMAIN heap
<1> DEFINE L == Len(heap)
           Step(f, a) == IF heap[a].next = NULL THEN {a} ELSE {a} \cup f[heap[a].next]
           after == CHOOSE f : f = [a \in DOMAIN heap |-> Step(f, a)]
           rest == [a \in DOMAIN heap |-> a..L]
<1>1. L \in Nat \ {0} /\ DOMAIN heap = 1..L
  BY HeapFacts
<1>2. \A a \in 1..L : heap[a].next = IF a < L THEN a + 1 ELSE NULL
  BY <1>1 DEF Links
<1>3. ASSUME NEW a \in 1..L PROVE rest[a] = Step(rest, a)
  <2>1. CASE a < L
    <3>1. heap[a].next = a + 1 /\ a + 1 # NULL /\ a + 1 \in 1..L
      BY <1>1, <1>2, <2>1 DEF NULL
    <3>2. a..L = {a} \cup ((a + 1)..L)
      BY <1>1, <2>1
    <3> QED
      BY <1>1, <3>1, <3>2
  <2>2. CASE ~(a < L)
    <3> HIDE DEF L
    <3>1. a = L
      BY <1>1, <2>2
    <3>2. a..L = {a}
      BY <1>1, <3>1
    <3>3. heap[a].next = NULL
      BY <1>2, <2>2
    <3> QED
      BY <1>1, <3>2, <3>3
  <2> QED
    BY <2>1, <2>2
<1>4. rest = [a \in DOMAIN heap |-> Step(rest, a)]
  <2>1. \A a \in DOMAIN heap : rest[a] = Step(rest, a)
    BY <1>1, <1>3
  <2>2. rest = [a \in DOMAIN heap |-> rest[a]]
    OBVIOUS
  <2> HIDE DEF rest, Step
  <2> QED
    BY <2>1, <2>2
<1>5. after = [a \in DOMAIN heap |-> Step(after, a)]
  BY <1>4
<1>6. freed' = after[1]
  BY DEF FreeResources
<1> DEFINE S == {k \in Nat : k < L => after[L - k] = (L - k)..L}
<1>7. \A a \in 1..L : after[a] = Step(after, a)
  <2> HIDE DEF Step
  <2> QED
    BY <1>1, <1>5
<1> HIDE DEF after
<1>8. 0 \in S
  <2>1. L - 0 = L /\ L \in 1..L /\ ~(L < L) /\ L..L = {L}
    BY <1>1
  <2>2. after[L] = {L}
    BY <1>2, <1>7, <2>1
  <2> QED
    BY <2>1, <2>2
<1>9. ASSUME NEW k \in Nat, k \in S PROVE k + 1 \in S
  <2> SUFFICES ASSUME k + 1 < L PROVE after[L - (k + 1)] = (L - (k + 1))..L
    OBVIOUS
  <2> DEFINE a == L - (k + 1)
  <2>1. a \in 1..L /\ a < L /\ a + 1 = L - k /\ k < L /\ a + 1 # 0
    <3> HIDE DEF L
    <3> QED
      BY <1>1
  <2>2. after[a + 1] = (a + 1)..L
    BY <1>9, <2>1
  <2> HIDE DEF a
  <2>3. after[a] = {a} \cup ((a + 1)..L)
    <3>1. heap[a].next = a + 1 /\ heap[a].next # NULL
      BY <1>2, <2>1 DEF NULL
    <3>2. after[a] = Step(after, a)
      BY <1>7, <2>1
    <3> QED
      BY <2>2, <3>1, <3>2
  <2>4. a..L = {a} \cup ((a + 1)..L)
    BY <1>1, <2>1
  <2> QED
    BY <2>3, <2>4 DEF a
<1> HIDE DEF S
<1>10. \A k \in Nat : k \in S
  BY <1>8, <1>9, Induction
<1>11. L - 1 \in Nat /\ L - 1 < L /\ L - (L - 1) = 1
  BY <1>1
<1>12. after[1] = 1..L
  BY <1>10, <1>11 DEF S
<1> QED
  BY <1>1, <1>6, <1>12

(* The brother of a node, and the moves of the walk.                       *)
LEMMA Brother ==
  ASSUME TypeOK, Tree, Links, NEW a \in DOMAIN heap
  PROVE  /\ heap[a].Rbrother # NULL =>
              /\ heap[a].Rbrother = a + 1 /\ a + 1 \in DOMAIN heap /\ a + 1 # 1
              /\ heap[a + 1].parent = heap[a].parent /\ Level(a + 1) = Level(a) /\ a # 1
         /\ heap[a].Rbrother = NULL =>
              \A b \in DOMAIN heap : a < b => heap[b].parent # heap[a].parent
<1>1. /\ Len(heap) \in Nat \ {0} /\ DOMAIN heap = 1..Len(heap)
      /\ heap[a].Rbrother = IF a < Len(heap) /\ heap[a + 1].parent = heap[a].parent
                            THEN a + 1 ELSE NULL
  BY HeapFacts DEF Links
<1>2. ASSUME heap[a].Rbrother # NULL
      PROVE  /\ heap[a].Rbrother = a + 1 /\ a + 1 \in DOMAIN heap /\ a + 1 # 1
             /\ heap[a + 1].parent = heap[a].parent /\ Level(a + 1) = Level(a) /\ a # 1
  <2>1. /\ heap[a].Rbrother = a + 1 /\ a + 1 \in DOMAIN heap /\ a + 1 # 1
        /\ heap[a + 1].parent = heap[a].parent
    BY <1>1, <1>2
  <2>2. a # 1
    <3>1. heap[a + 1].parent # NULL
      BY <1>1, <2>1 DEF Tree, NULL
    <3> QED
      BY <2>1, <3>1 DEF Tree
  <2>3. /\ Level(a + 1) = Level(heap[a + 1].parent) + 1
        /\ Level(a) = Level(heap[a].parent) + 1
    BY <2>1, <2>2, PathsOfNodes
  <2> QED
    BY <2>1, <2>2, <2>3
<1>3. ASSUME heap[a].Rbrother = NULL, NEW b \in DOMAIN heap, a < b
      PROVE  heap[b].parent # heap[a].parent
  <2>1. a + 1 # NULL /\ a < Len(heap)
    BY <1>1, <1>3 DEF NULL
  <2>2. heap[a + 1].parent # heap[a].parent
    BY <1>1, <1>3, <2>1
  <2> QED
    BY <1>3, <2>2 DEF Links
<1> QED
  BY <1>2, <1>3

(* NextDir and Climb, by what they do to tmp_root and the depth.           *)
LEMMA NextDirMoves ==
  ASSUME TypeOK, Tree, Links, Position, NextDir
  PROVE  /\ UNCHANGED <<heap, prvNode, findFolder, path, list, freed, done, dirs, unread,
                        stop, watched, announced, changes>>
         /\ pc = "next" /\ tmpRoot \in DOMAIN heap
         /\ \/ findFolder /\ pc' = "path" /\ UNCHANGED <<tmpRoot, depth>>
            \/ /\ ~findFolder /\ pc' = "path"
               /\ tmpRoot' = tmpRoot + 1 /\ tmpRoot + 1 \in DOMAIN heap
               /\ heap[tmpRoot + 1].parent = heap[tmpRoot].parent /\ tmpRoot + 1 # 1
               /\ depth' = Level(tmpRoot + 1)
            \/ /\ ~findFolder /\ pc' = "climb" /\ UNCHANGED <<tmpRoot, depth>>
               /\ heap[tmpRoot].Rbrother = NULL
<1>1. /\ pc = "next" /\ tmpRoot \in DOMAIN heap
      /\ depth = Level(tmpRoot) + (IF findFolder THEN 0 ELSE 1)
      /\ Level(tmpRoot) \in Nat
  BY PathsOfNodes DEF NextDir, Position, Walking, AtNew
<1>2. CASE findFolder
  BY <1>1, <1>2 DEF NextDir
<1>3. CASE ~findFolder /\ heap[tmpRoot].Rbrother = NULL
  BY <1>1, <1>3 DEF NextDir
<1>4. CASE ~findFolder /\ heap[tmpRoot].Rbrother # NULL
  <2>1. /\ heap[tmpRoot].Rbrother = tmpRoot + 1 /\ tmpRoot + 1 \in DOMAIN heap
        /\ heap[tmpRoot + 1].parent = heap[tmpRoot].parent /\ tmpRoot + 1 # 1
        /\ Level(tmpRoot + 1) = Level(tmpRoot)
    BY <1>1, <1>4, Brother
  <2>2. depth - 1 = Level(tmpRoot + 1)
    BY <1>1, <1>4, <2>1
  <2> QED
    BY <1>1, <1>4, <2>1, <2>2 DEF NextDir
<1> QED
  BY <1>2, <1>3, <1>4

LEMMA ClimbMoves ==
  ASSUME TypeOK, Tree, Links, Position, Climb
  PROVE  /\ UNCHANGED <<heap, prvNode, findFolder, path, list, freed, dirs, unread,
                        stop, watched, announced, changes>>
         /\ pc = "climb" /\ tmpRoot \in DOMAIN heap /\ ~findFolder
         /\ heap[tmpRoot].Rbrother = NULL
         /\ \/ /\ pc' = "free" /\ tmpRoot' = NULL /\ depth' = 0 /\ done'
               /\ heap[tmpRoot].parent \in {1, NULL}
            \/ /\ tmpRoot # 1 /\ heap[tmpRoot].parent \in DOMAIN heap /\ done' = done
               /\ \/ /\ pc' = "climb" /\ tmpRoot' = heap[tmpRoot].parent
                     /\ depth' = Level(tmpRoot') + 1 /\ heap[tmpRoot'].Rbrother = NULL
                  \/ /\ pc' = "path" /\ tmpRoot' = heap[tmpRoot].parent + 1
                     /\ tmpRoot' \in DOMAIN heap /\ tmpRoot' # 1
                     /\ heap[tmpRoot'].parent = heap[heap[tmpRoot].parent].parent
                     /\ heap[tmpRoot].parent # 1
                     /\ depth' = Level(tmpRoot')
<1> DEFINE up == heap[tmpRoot].parent
<1>1. /\ pc = "climb" /\ tmpRoot \in DOMAIN heap /\ ~findFolder /\ heap[tmpRoot].Rbrother = NULL
      /\ depth = Level(tmpRoot) + 1
      /\ Level(tmpRoot) \in Nat
  BY PathsOfNodes DEF Climb, Position, Walking, AtNew
<1>2. CASE up \in {1, NULL}
  BY <1>1, <1>2 DEF Climb, AtTop
<1>3. CASE up \notin {1, NULL}
  <2>1. /\ tmpRoot # 1 /\ up \in DOMAIN heap /\ Level(tmpRoot) = Level(up) + 1
        /\ Level(up) \in Nat
    BY <1>1, <1>3, PathsOfNodes DEF Tree
  <2>2. UNCHANGED <<heap, prvNode, findFolder, path, list, freed, dirs, unread,
                    stop, watched, announced, changes>>
    BY DEF Climb
  <2>3. depth - 1 = Level(up) + 1 /\ depth - 2 = Level(up)
    BY <1>1, <2>1
  <2>4. CASE heap[up].Rbrother = NULL
    <3>1. tmpRoot' = up /\ depth' = depth - 1 /\ pc' = pc /\ done' = done
      BY <1>3, <2>4 DEF Climb, AtTop
    <3> QED
      BY <1>1, <2>1, <2>2, <2>3, <2>4, <3>1
  <2>5. CASE heap[up].Rbrother # NULL
    <3>1. /\ tmpRoot' = heap[up].Rbrother /\ depth' = depth - 2 /\ pc' = "path" /\ done' = done
      BY <1>3, <2>5 DEF Climb, AtTop, CountedDown
    <3>2. /\ heap[up].Rbrother = up + 1 /\ up + 1 \in DOMAIN heap /\ up + 1 # 1
          /\ heap[up + 1].parent = heap[up].parent /\ Level(up + 1) = Level(up) /\ up # 1
      BY <2>1, <2>5, Brother
    <3> QED
      BY <1>1, <2>1, <2>2, <2>3, <3>1, <3>2
  <2> QED
    BY <2>4, <2>5
<1> QED
  BY <1>2, <1>3

(* The parts of the invariant about the nodes, one by one.                 *)
LEMMA TypedStep ==
  ASSUME TypeOK, Tree, Links, Position, [Next]_vars
  PROVE  TypeOK'
<1>0. /\ dirs \subseteq Paths /\ watched \subseteq Paths /\ announced \subseteq dirs
      /\ pc \in {"loop", "read", "next", "climb", "path", "free", "end"}
      /\ heap \in Seq(Node) /\ {tmpRoot, prvNode} \subseteq DOMAIN heap \cup {NULL}
      /\ depth \in Nat /\ path \in Paths /\ list \in Seq(Paths) /\ unread \subseteq Names
      /\ freed \subseteq DOMAIN heap /\ changes \in 0..MaxChanges /\ MaxChanges \in Nat
  BY WalkAssumption DEF TypeOK, WalkAssumption
<1>1. {watch', findFolder', stop', done'} \subseteq BOOLEAN
  BY FlagsTyped
<1> DEFINE Fs == /\ dirs' \subseteq Paths /\ watched' \subseteq Paths /\ announced' \subseteq dirs'
                 /\ changes' \in 0..MaxChanges /\ unread' \subseteq Names
           Wk == /\ pc' \in {"loop", "read", "next", "climb", "path", "free", "end"}
                 /\ heap' \in Seq(Node) /\ list' \in Seq(Paths)
                 /\ {tmpRoot', prvNode'} \subseteq DOMAIN heap' \cup {NULL}
                 /\ depth' \in Nat /\ path' \in Paths /\ freed' \subseteq DOMAIN heap'
<1>2. SUFFICES Fs /\ Wk
  BY ONLY <1>1, <1>2 DEF TypeOK
<1>3. CASE OpenDir \/ EndDir \/ ReadStopped
  <2>1. Children(path) \subseteq Names
    BY DEF Children
  <2> QED
    BY <1>0, <1>3, <2>1 DEF OpenDir, EndDir, ReadStopped
<1>4. CASE NextDir
  <2>1. Level(tmpRoot + 1) \in Nat \/ tmpRoot + 1 \notin DOMAIN heap
    BY PathsOfNodes
  <2> QED
    BY <1>0, <1>4, <2>1, NextDirMoves
<1>5. CASE Climb
  <2>1. \A a \in DOMAIN heap : Level(a) \in Nat
    BY PathsOfNodes
  <2> QED
    BY <1>0, <1>5, <2>1, ClimbMoves
<1>6. CASE GetPath
  <2>1. tmpRoot \in DOMAIN heap
    BY <1>6 DEF GetPath, Position, Walking
  <2>2. FullPath(heap, tmpRoot) \in Paths
    BY <2>1, PathsOfNodes
  <2> QED
    BY <1>0, <1>6, <2>2 DEF GetPath
<1>7. CASE FreeResources
  <2>1. freed' \subseteq DOMAIN heap
    BY <1>7, AllFreed
  <2> QED
    BY <1>0, <1>7, <2>1 DEF FreeResources
<1>8. CASE Interrupt \/ UNCHANGED vars
  BY <1>0, <1>8 DEF Interrupt, Change, vars, walkVars
<1>9. ASSUME NEW p \in Paths \ {Root}, MakeDir(p) \/ RemoveDir(p) PROVE Fs /\ Wk
  <2>1. Last(p) \in Names
    BY DEF Names
  <2> QED
    BY <1>0, <1>9, <2>1 DEF MakeDir, RemoveDir, Change, walkVars
<1>10. ASSUME NEW n \in Names, ReadEntry(n) PROVE Fs /\ Wk
  <2>1. CASE Append(path, n) \notin dirs
    BY <1>0, <1>10, <2>1 DEF ReadEntry
  <2>2. CASE Append(path, n) \in dirs
    <3>1. /\ heap' \in Seq(Node) /\ Len(heap') = Len(heap) + 1
          /\ DOMAIN heap' = 1..(Len(heap) + 1) /\ Len(heap) \in Nat \ {0}
          /\ DOMAIN heap = 1..Len(heap)
          /\ FullPath(heap', Len(heap')) = Append(path, n)
      BY <1>10, <2>2, Grown, HeapFacts
    <3>2. /\ tmpRoot' \in {tmpRoot, Len(heap')} /\ prvNode' = Len(heap')
          /\ AddNode(Append(path, n))
          /\ UNCHANGED <<pc, depth, path, freed, dirs, announced, changes>>
          /\ unread' \subseteq unread
      BY <1>10, <2>2, <3>1 DEF ReadEntry
    <3>3. list' \in Seq(Paths) /\ watched' \subseteq watched \cup {Append(path, n)}
      BY <1>0, <2>2, <3>2, NodeAdded
    <3>4. /\ {tmpRoot', prvNode'} \subseteq DOMAIN heap' \cup {NULL}
          /\ freed' \subseteq DOMAIN heap'
      BY ONLY <1>0, <3>1, <3>2
    <3> QED
      BY ONLY <1>0, <2>2, <3>1, <3>2, <3>3, <3>4
  <2> QED
    BY <2>1, <2>2
<1> QED
  BY <1>3, <1>4, <1>5, <1>6, <1>7, <1>8, <1>9, <1>10, Steps DEF Elsewhere

LEMMA NodesStep ==
  ASSUME TypeOK, Tree, Links, Position, [Next]_vars
  PROVE  Tree' /\ Links'
<1>1. CASE Elsewhere
  BY <1>1, NodesKept DEF Tree, Links
<1>2. ASSUME NEW n \in Names, ReadEntry(n) PROVE Tree' /\ Links'
  <2>1. CASE Append(path, n) \notin dirs
    BY <1>2, <2>1 DEF ReadEntry, Tree, Links
  <2>2. CASE Append(path, n) \in dirs
    <3> DEFINE L == Len(heap)
    <3>1. /\ heap' \in Seq(Node) /\ Len(heap') = L + 1 /\ DOMAIN heap' = 1..(L + 1)
          /\ \A a \in 1..L :
               /\ heap'[a].parent = heap[a].parent /\ heap'[a].name = heap[a].name
               /\ heap'[a].Rbrother = IF findFolder /\ a = L THEN L + 1 ELSE heap[a].Rbrother
               /\ heap'[a].next = IF a = L THEN L + 1 ELSE heap[a].next
          /\ heap'[L + 1] = NewNode(n, Reader)
          /\ \A a \in 1..L : FullPath(heap', a) = FullPath(heap, a)
          /\ FullPath(heap', L + 1) = Append(path, n)
      BY <1>2, <2>2, Grown
    <3>2. /\ L \in Nat \ {0} /\ DOMAIN heap = 1..L /\ Reader \in 1..L
          /\ findFolder => heap[L].parent = Reader
          /\ ~findFolder => \A c \in DOMAIN heap : heap[c].parent # Reader
      <4>1. pc = "read"
        BY <1>2 DEF ReadEntry
      <4> QED
        BY <4>1, HeapFacts, Readers DEF Position, Walking, Reader
    <3>3. ToSet(list') = ToSet(list) \cup {Append(path, n)}
      <4>1. AddNode(FullPath(heap', Len(heap'))) /\ Append(path, n) \in Paths /\ list \in Seq(Paths)
        BY <1>2, <2>2 DEF ReadEntry, TypeOK
      <4>2. AddNode(Append(path, n))
        BY <3>1, <4>1
      <4> QED
        BY <4>1, <4>2, NodeAdded
    <3>4. /\ heap'[L + 1].parent = Reader /\ heap'[L + 1].Rbrother = NULL
          /\ heap'[L + 1].next = NULL
      BY <3>1 DEF NewNode
    <3>5. \A a \in 1..(L + 1) : a \in 1..L \/ a = L + 1
      BY <3>2
    <3>6. 1 \in 1..L /\ L + 1 # 1
      BY <3>2
    <3>7. \A a \in 1..L : /\ a = 1 \/ heap[a].parent \in 1..(a - 1)
                          /\ FullPath(heap, a) \in ToSet(list)
      BY <3>2 DEF Tree
    <3>t. heap[1].parent = NULL
      BY DEF Tree
    <3>8. Tree'
      <4>1. heap' # <<>>
        BY <3>1, <3>6
      <4>2. heap'[1].parent = NULL
        BY <3>1, <3>6, <3>t
      <4>3. \A a \in 1..(L + 1) : a = 1 \/ heap'[a].parent \in 1..(a - 1)
        <5>1. (L + 1) - 1 = L
          BY <3>2
        <5> QED
          BY ONLY <3>1, <3>2, <3>4, <3>5, <3>7, <5>1
      <4>4. \A a \in 1..(L + 1) : FullPath(heap', a) \in ToSet(list')
        BY ONLY <3>1, <3>3, <3>5, <3>7
      <4> QED
        BY ONLY <3>1, <4>1, <4>2, <4>3, <4>4 DEF Tree
    <3> HIDE DEF L
    <3>9. /\ \A a, b \in 1..L :
               a < b /\ heap[a].parent = heap[b].parent => heap[a + 1].parent = heap[a].parent
          /\ \A a \in 1..L :
               /\ heap[a].Rbrother = IF a < L /\ heap[a + 1].parent = heap[a].parent
                                     THEN a + 1 ELSE NULL
               /\ heap[a].next = IF a < L THEN a + 1 ELSE NULL
      BY <3>2 DEF Links, L
    <3>10. ASSUME NEW a \in 1..L, heap[a].parent = Reader
           PROVE  heap'[a + 1].parent = Reader
      <4>1. findFolder /\ heap[L].parent = Reader
        BY <3>2, <3>10
      <4>2. CASE a = L
        BY <3>4, <4>2
      <4>3. CASE a # L
        <5>1. a < L /\ L \in 1..L /\ a + 1 \in 1..L
          BY <3>2, <4>3
        <5> QED
          BY <3>1, <3>9, <3>10, <4>1, <5>1
      <4> QED
        BY <4>2, <4>3
    <3>11. ASSUME NEW a \in 1..(L + 1), NEW b \in 1..(L + 1), a < b,
                  heap'[a].parent = heap'[b].parent
           PROVE  heap'[a + 1].parent = heap'[a].parent
      <4>1. a \in 1..L
        BY <3>2, <3>11
      <4>2. CASE b = L + 1
        BY <3>1, <3>4, <3>10, <3>11, <4>1, <4>2
      <4>3. CASE b # L + 1
        <5>1. b \in 1..L /\ a + 1 \in 1..L
          BY <3>2, <3>11, <4>3
        <5> QED
          BY <3>1, <3>9, <3>11, <4>1, <5>1
      <4> QED
        BY <4>2, <4>3
    <3>12. ASSUME NEW a \in 1..(L + 1)
           PROVE  heap'[a].Rbrother = IF a < L + 1 /\ heap'[a + 1].parent = heap'[a].parent
                                      THEN a + 1 ELSE NULL
      <4>1. CASE a = L + 1
        BY <3>2, <3>4, <4>1
      <4>2. CASE a = L
        <5>1. a \in 1..L /\ a < L + 1 /\ ~(a < L)
          BY <3>2, <4>2
        <5>2. findFolder <=> heap'[a + 1].parent = heap'[a].parent
          BY <3>1, <3>2, <3>4, <4>2, <5>1
        <5> QED
          BY <3>1, <3>9, <4>2, <5>1, <5>2
      <4>3. CASE a # L /\ a # L + 1
        <5>1. a \in 1..L /\ a < L /\ a < L + 1 /\ a + 1 \in 1..L
          BY <3>2, <4>3
        <5> QED
          BY <3>1, <3>9, <4>3, <5>1
      <4> QED
        BY <4>1, <4>2, <4>3
    <3>13. ASSUME NEW a \in 1..(L + 1)
           PROVE  heap'[a].next = IF a < L + 1 THEN a + 1 ELSE NULL
      <4>1. CASE a = L + 1
        BY <3>2, <3>4, <4>1
      <4>2. CASE a = L
        <5>1. a \in 1..L /\ a < L + 1
          BY <3>2, <4>2
        <5> QED
          BY <3>1, <4>2, <5>1
      <4>3. CASE a # L /\ a # L + 1
        <5>1. a \in 1..L /\ a < L /\ a < L + 1
          BY <3>2, <4>3
        <5> QED
          BY <3>1, <3>9, <4>3, <5>1
      <4> QED
        BY <4>1, <4>2, <4>3
    <3>14. Links'
      BY <3>1, <3>11, <3>12, <3>13 DEF Links
    <3> QED
      BY <3>8, <3>14
  <2> QED
    BY <2>1, <2>2
<1> QED
  BY <1>1, <1>2, Steps

LEMMA PositionStep ==
  ASSUME TypeOK, Tree, Links, Position, [Next]_vars,
         Walking /\ AtNew => \A c \in DOMAIN heap : heap[c].parent # tmpRoot
  PROVE  Position'
<1>1. CASE OpenDir
  BY <1>1, PathsOfNodes DEF OpenDir, Position, Walking, AtNew, Reader, Level
<1>2. CASE EndDir \/ ReadStopped
  BY <1>2 DEF EndDir, ReadStopped, Position, Walking, AtNew, Reader, Level
<1>3. CASE NextDir
  BY <1>3, NextDirMoves DEF Position, Walking, AtNew, Reader, Level
<1>4. CASE Climb
  BY <1>4, ClimbMoves DEF Position, Walking, AtNew, Reader, Level
<1>5. CASE GetPath
  BY <1>5 DEF GetPath, Position, Walking, AtNew, Reader, Level
<1>6. CASE FreeResources
  BY <1>6 DEF FreeResources, Position, Walking
<1>7. CASE Interrupt \/ UNCHANGED vars
  BY <1>7 DEF Interrupt, vars, walkVars, Position, Walking, AtNew, Reader, Level
<1>8. ASSUME NEW p, MakeDir(p) \/ RemoveDir(p) PROVE Position'
  BY <1>8 DEF MakeDir, RemoveDir, walkVars, Position, Walking, AtNew, Reader, Level
<1>9. ASSUME NEW n \in Names, ReadEntry(n) PROVE Position'
  <2>1. CASE Append(path, n) \notin dirs
    BY <1>9, <2>1 DEF ReadEntry, Position, Walking, AtNew, Reader, Level
  <2>2. CASE Append(path, n) \in dirs
    <3> DEFINE L == Len(heap)
    <3>0. pc = "read" /\ UNCHANGED <<pc, path, depth, done>> /\ findFolder' = TRUE
      BY <1>9, <2>2 DEF ReadEntry
    <3>1. /\ heap' \in Seq(Node) /\ Len(heap') = L + 1 /\ DOMAIN heap' = 1..(L + 1)
          /\ \A a \in 1..L : heap'[a].parent = heap[a].parent
          /\ heap'[L + 1].parent = Reader
          /\ \A a \in 1..L : FullPath(heap', a) = FullPath(heap, a)
          /\ FullPath(heap', L + 1) = Append(path, n)
      <4>1. heap'[L + 1] = NewNode(n, Reader)
        BY <1>9, <2>2, Grown
      <4>2. heap'[L + 1].parent = Reader
        BY <4>1 DEF NewNode
      <4> QED
        BY <1>9, <2>2, <4>2, Grown
    <3>2. /\ L \in Nat \ {0} /\ DOMAIN heap = 1..L /\ Reader \in 1..L
          /\ path = FullPath(heap, Reader)
          /\ tmpRoot \in 1..L
          /\ findFolder => heap[tmpRoot].parent = Reader
      BY <3>0, HeapFacts, Readers
    <3>3. tmpRoot' = (IF findFolder THEN tmpRoot ELSE L + 1) /\ prvNode' = L + 1
      BY <1>9, <2>2, <3>1 DEF ReadEntry
    <3> HIDE DEF L
    <3>4. tmpRoot' \in 1..(L + 1) /\ tmpRoot' # 1 /\ heap'[tmpRoot'].parent = Reader
      <4>1. findFolder => tmpRoot # 1
        BY <3>0 DEF Position, Walking
      <4> QED
        BY ONLY <3>1, <3>2, <3>3, <4>1
    <3>5. Reader' = Reader /\ path' = FullPath(heap', Reader')
      <4>1. Reader' = Reader
        BY <3>0, <3>4 DEF Reader
      <4> QED
        BY ONLY <3>0, <3>1, <3>2, <4>1
    <3>6. depth = Level(Reader) + 1
      <4>1. depth = Level(tmpRoot) + (IF findFolder THEN 0 ELSE 1)
        BY <3>0 DEF Position, Walking, AtNew
      <4>2. CASE findFolder
        <5>1. tmpRoot # 1 /\ heap[tmpRoot].parent = Reader
          BY <3>0, <3>2, <4>2 DEF Position, Walking
        <5>2. Level(tmpRoot) = Level(Reader) + 1 /\ Level(tmpRoot) \in Nat
          BY <3>2, <5>1, PathsOfNodes
        <5> QED
          BY <4>1, <4>2, <5>2
      <4>3. CASE ~findFolder
        BY <4>1, <4>3 DEF Reader
      <4> QED
        BY <4>2, <4>3
    <3>7. Len(FullPath(heap', tmpRoot')) - 1 = Level(Reader) + 1
      <4>1. CASE findFolder
        <5>1. tmpRoot' = tmpRoot /\ heap[tmpRoot].parent = Reader /\ tmpRoot # 1
          BY <3>0, <3>2, <3>3, <4>1 DEF Position, Walking
        <5>2. Level(tmpRoot) = Level(Reader) + 1
          BY <3>2, <5>1, PathsOfNodes
        <5> QED
          BY <3>1, <3>2, <5>1, <5>2 DEF Level
      <4>2. CASE ~findFolder
        <5>1. path \in Seq(Names) /\ Len(path) \in Nat
          BY PathFacts DEF TypeOK
        <5>2. Len(Append(path, n)) = Len(path) + 1
          BY <5>1
        <5> QED
          BY <3>1, <3>2, <3>3, <4>2, <5>1, <5>2 DEF Level
      <4> QED
        BY <4>1, <4>2
    <3>8. /\ tmpRoot' \in DOMAIN heap' /\ prvNode' = Len(heap') /\ ~done'
          /\ findFolder' /\ pc' = "read"
          /\ heap'[Len(heap')].parent = heap'[tmpRoot'].parent
      <4>1. ~done
        BY <3>0 DEF Position, Walking
      <4> QED
        BY <3>0, <3>1, <3>3, <3>4, <4>1
    <3>9. Level(tmpRoot)' = Level(Reader) + 1 /\ depth' = Level(Reader) + 1
      BY <3>0, <3>6, <3>7 DEF Level
    <3>10. Level(Reader) \in Nat
      BY <3>2, PathsOfNodes
    <3>11. AtNew'
      BY <3>8 DEF AtNew
    <3>12. depth' = Level(tmpRoot)' + (IF AtNew' THEN 0 ELSE 1)
      BY <3>9, <3>10, <3>11
    <3> QED
      BY <3>4, <3>5, <3>8, <3>12 DEF Position
  <2> QED
    BY <2>1, <2>2
<1> QED
  BY <1>1, <1>2, <1>3, <1>4, <1>5, <1>6, <1>7, <1>8, <1>9, Steps DEF Elsewhere

-----------------------------------------------------------------------------
(* The spine when the walk climbs and turns to a brother.                  *)
LEMMA SpineFacts ==
  ASSUME TypeOK, Tree, NEW t \in DOMAIN heap, NEW S, Spine(t, S)
  PROVE  /\ \A a \in S : a \in DOMAIN heap /\ a <= t
         /\ \A a, b \in S : a < b => heap[a].parent < heap[b].parent
         /\ \A a \in S : a \notin Later(S)
         /\ \A a \in S : a # 1 => heap[a].parent \in S /\ heap[a].parent < a
<1>1. Len(heap) \in Nat \ {0} /\ DOMAIN heap = 1..Len(heap) /\ heap[1].parent = 0
  BY HeapFacts DEF Tree, NULL
<1>2. \A a \in S : a \in DOMAIN heap /\ a <= t
  BY <1>1 DEF Spine
<1>3. \A a \in DOMAIN heap : a # 1 => heap[a].parent \in 1..(a - 1)
  BY DEF Tree
<1>4. ASSUME NEW a \in S, NEW b \in S, a < b PROVE heap[a].parent < heap[b].parent
  <2>1. b # 1 /\ a \in 1..Len(heap) /\ b \in 1..Len(heap)
    BY <1>1, <1>2, <1>4
  <2>2. a <= heap[b].parent /\ heap[b].parent \in Nat
    BY <1>1, <1>3, <1>4, <2>1 DEF Spine
  <2>3. heap[a].parent < a /\ heap[a].parent \in Nat
    BY <1>1, <1>3, <2>1
  <2> QED
    BY <2>1, <2>2, <2>3
<1>5. \A a \in S : a \notin Later(S)
  <2> SUFFICES ASSUME NEW a \in S, NEW b \in S, b < a, heap[a].parent = heap[b].parent
               PROVE  FALSE
    BY DEF Later
  <2>1. heap[b].parent < heap[a].parent
    BY <1>4
  <2>2. heap[a].parent \in Nat
    BY <1>2, HeapFacts DEF Node
  <2> QED
    BY <2>1, <2>2
<1>6. ASSUME NEW a \in S, a # 1 PROVE heap[a].parent \in S /\ heap[a].parent < a
  BY <1>1, <1>2, <1>3, <1>6 DEF Spine
<1> QED
  BY <1>2, <1>4, <1>5, <1>6

LEMMA Dropped ==
  ASSUME TypeOK, Tree, NEW t \in DOMAIN heap, NEW S, Spine(t, S), t # 1,
         \A b \in DOMAIN heap : t < b => heap[b].parent # heap[t].parent
  PROVE  Spine(heap[t].parent, S \ {t}) /\ Later(S \ {t}) = Later(S)
<1>1. /\ \A a \in S : a \in DOMAIN heap /\ a <= t
      /\ \A a \in S : a # 1 => heap[a].parent \in S /\ heap[a].parent < a
      /\ t \in S /\ S \subseteq 1..t
      /\ \A b \in S : b = 1 \/ \A a \in S : a < b => a <= heap[b].parent
  BY SpineFacts DEF Spine
<1>2. Len(heap) \in Nat /\ DOMAIN heap = 1..Len(heap)
  BY HeapFacts
<1>3. heap[t].parent \in S \ {t}
  BY <1>1, <1>2
<1>4. S \ {t} \subseteq 1..heap[t].parent
  BY <1>1, <1>2, <1>3
<1>5. \A b \in S \ {t} : b # 1 => heap[b].parent \in S \ {t}
  BY <1>1, <1>2
<1>6. Spine(heap[t].parent, S \ {t})
  BY <1>1, <1>3, <1>4, <1>5 DEF Spine
<1>7. Later(S \ {t}) = Later(S)
  BY DEF Later
<1> QED
  BY <1>6, <1>7

LEMMA Shifted ==
  ASSUME TypeOK, Tree, NEW t \in DOMAIN heap, NEW S, Spine(t, S),
         t + 1 \in DOMAIN heap, heap[t + 1].parent = heap[t].parent
  PROVE  /\ Spine(t + 1, (S \ {t}) \cup {t + 1})
         /\ Later((S \ {t}) \cup {t + 1}) \cup {t + 1} = Later(S)
<1> DEFINE S2 == (S \ {t}) \cup {t + 1}
<1>1. /\ \A a \in S : a \in DOMAIN heap /\ a <= t
      /\ \A a \in S : a # 1 => heap[a].parent \in S /\ heap[a].parent < a
      /\ t \in S /\ S \subseteq 1..t
      /\ \A b \in S : b = 1 \/ \A a \in S : a < b => a <= heap[b].parent
  BY SpineFacts DEF Spine
<1>2. /\ Len(heap) \in Nat /\ DOMAIN heap = 1..Len(heap) /\ t \in Nat /\ t # 0
      /\ \A a \in S : a \in Nat
  <2>1. Len(heap) \in Nat /\ DOMAIN heap = 1..Len(heap)
    BY HeapFacts
  <2> QED
    BY <1>1, <2>1
<1>3. t # 1
  <2>1. t + 1 # 1
    BY <1>2
  <2>2. heap[t + 1].parent # NULL
    BY <1>2, <2>1 DEF Tree, NULL
  <2> QED
    BY <2>2 DEF Tree
<1>4. t + 1 \in S2 /\ S2 \subseteq 1..(t + 1)
  BY <1>1, <1>2
<1>5. ASSUME NEW b \in S2, b # 1
      PROVE  heap[b].parent \in S2 /\ \A a \in S2 : a < b => a <= heap[b].parent
  <2>1. CASE b = t + 1
    <3>1. heap[b].parent = heap[t].parent /\ heap[t].parent \in S /\ heap[t].parent < t
      BY <1>1, <1>3, <2>1
    <3>2. heap[b].parent \in S2
      BY <1>2, <3>1
    <3>3. ASSUME NEW a \in S2, a < b PROVE a <= heap[b].parent
      <4>1. a \in S /\ a < t
        BY <1>1, <1>2, <2>1, <3>3
      <4> QED
        BY <1>1, <1>3, <3>1, <4>1
    <3> QED
      BY <3>2, <3>3
  <2>2. CASE b # t + 1
    <3>1. b \in S /\ b < t /\ heap[b].parent \in S /\ heap[b].parent < b
      BY <1>1, <1>2, <1>5, <2>2
    <3>2. heap[b].parent \in S2
      BY <1>2, <3>1
    <3>3. ASSUME NEW a \in S2, a < b PROVE a <= heap[b].parent
      <4>1. a \in S
        BY <1>2, <3>1, <3>3
      <4> QED
        BY <1>1, <1>5, <3>1, <3>3, <4>1
    <3> QED
      BY <3>2, <3>3
  <2> QED
    BY <2>1, <2>2
<1>6. Spine(t + 1, S2)
  BY <1>4, <1>5 DEF Spine
<1>7. ASSUME NEW b \in DOMAIN heap
      PROVE  b \in Later(S2) \cup {t + 1} <=> b \in Later(S)
  <2>1. CASE b = t + 1
    BY <1>1, <1>2, <2>1 DEF Later
  <2>2. CASE b # t + 1
    <3>1. ASSUME NEW a \in S, a < b, heap[b].parent = heap[a].parent
          PROVE  \E c \in S2 : c < b /\ heap[b].parent = heap[c].parent
      <4>1. CASE a = t
        BY <1>2, <2>2, <3>1, <4>1
      <4>2. CASE a # t
        BY <3>1, <4>2
      <4> QED
        BY <4>1, <4>2
    <3>2. ASSUME NEW a \in S2, a < b, heap[b].parent = heap[a].parent
          PROVE  \E c \in S : c < b /\ heap[b].parent = heap[c].parent
      <4>1. CASE a = t + 1
        BY <1>1, <1>2, <3>2, <4>1
      <4>2. CASE a # t + 1
        BY <3>2, <4>2
      <4> QED
        BY <4>1, <4>2
    <3> QED
      BY <2>2, <3>1, <3>2 DEF Later
  <2> QED
    BY <2>1, <2>2
<1>8. Later(S2) \cup {t + 1} = Later(S)
  <2> HIDE DEF S2
  <2>1. Later(S2) \subseteq DOMAIN heap /\ Later(S) \subseteq DOMAIN heap
    BY DEF Later
  <2> QED
    BY <1>7, <2>1
<1> QED
  BY <1>6, <1>8

-----------------------------------------------------------------------------
(* The directories that exist include every directory above one of them,   *)
(* and what is listed and exists is watched or announced.                  *)
LEMMA PrefixClosed ==
  ASSUME NEW D, D \subseteq Paths, Root \in D, \A p \in D \ {Root} : Parent(p) \in D
  PROVE  \A p \in D : \A k \in 1..Len(p) : Prefix(p, k) \in D
<1> DEFINE S == {m \in Nat : \A p \in D : Len(p) <= m => \A k \in 1..Len(p) : Prefix(p, k) \in D}
<1>1. 0 \in S
  <2>1. \A p \in D : ~(Len(p) <= 0)
    BY PathFacts
  <2> QED
    BY <2>1
<1>2. ASSUME NEW m \in Nat, m \in S PROVE m + 1 \in S
  <2> SUFFICES ASSUME NEW p \in D, Len(p) <= m + 1, NEW k \in 1..Len(p)
               PROVE  Prefix(p, k) \in D
    OBVIOUS
  <2>1. p \in Seq(Names) /\ Len(p) \in Nat \ {0} /\ k \in Nat \ {0}
    BY PathFacts
  <2>2. CASE k = Len(p)
    <3>1. Prefix(p, Len(p)) = p
      BY <2>1, SubSeqFull DEF Prefix
    <3> QED
      BY <2>2, <3>1
  <2>3. CASE k # Len(p)
    <3>1. k \in 1..(Len(p) - 1) /\ Len(p) # 1
      BY <2>1, <2>3
    <3>2. p # Root
      <4>1. Len(Root) = 1
        BY PathFacts
      <4> QED
        BY <3>1, <4>1
    <3>3. /\ Parent(p) = Prefix(p, Len(p) - 1) /\ Len(p) - 1 \in 1..Len(p)
          /\ Len(Parent(p)) = Len(p) - 1 /\ Parent(p) \in D
      BY <3>2, Parents
    <3>4. Prefix(Parent(p), k) \in D
      <4>1. Len(Parent(p)) <= m
        BY <2>1, <3>3
      <4> QED
        BY <1>2, <3>1, <3>3, <4>1
    <3>5. Prefix(Parent(p), k) = Prefix(p, k)
      BY <2>1, <3>1, <3>3, PrefixOfPrefix
    <3> QED
      BY <3>4, <3>5
  <2> QED
    BY <2>2, <2>3
<1> HIDE DEF S
<1>3. \A m \in Nat : m \in S
  BY <1>1, <1>2, Induction
<1>4. ASSUME NEW p \in D PROVE \A k \in 1..Len(p) : Prefix(p, k) \in D
  <2>1. Len(p) \in Nat /\ Len(p) <= Len(p)
    BY PathFacts
  <2> QED
    BY <1>3, <2>1 DEF S
<1> QED
  BY <1>4

(* What is listed, from the first state on.                                *)
LEMMA HistoryInit ==
  Init => History
<1> SUFFICES ASSUME Init PROVE History
  OBVIOUS
<1>1. dirs \subseteq Paths /\ Root \in dirs /\ \A p \in dirs \ {Root} : Parent(p) \in dirs
  BY DEF Init
<1>2. watched = ToSet(list) /\ Root \in ToSet(list)
      /\ ToSet(list) \subseteq {Root} \cup (Default \cap dirs)
  <2>1. CASE list = <<Root>>
    <3>1. DOMAIN list = {1} /\ list[1] = Root
      BY <2>1
    <3> QED
      BY <3>1 DEF Init, ToSet
  <2>2. ASSUME NEW p \in Default \cap dirs, list = <<p, Root>>
        PROVE  Root \in ToSet(list) /\ ToSet(list) \subseteq {Root} \cup (Default \cap dirs)
    <3>1. DOMAIN list = {1, 2} /\ list[1] = p /\ list[2] = Root
      BY <2>2
    <3> QED
      BY <3>1 DEF ToSet
  <2>3. watched = ToSet(list)
    BY DEF Init
  <2> QED
    BY <2>1, <2>2, <2>3 DEF Init
<1>3. \A p \in dirs : \A k \in 1..Len(p) : Prefix(p, k) \in dirs
  BY <1>1, PrefixClosed
<1> QED
  BY <1>1, <1>2, <1>3 DEF History

LEMMA HistoryStep ==
  ASSUME TypeOK, Tree, Position, History, [Next]_vars
  PROVE  History'
<1>0. /\ Root \in dirs /\ \A p \in dirs : \A k \in 1..Len(p) : Prefix(p, k) \in dirs
      /\ Root \in watched /\ dirs \subseteq Paths
      /\ \A p \in ToSet(list) :
           /\ p \in dirs => p \in watched \cup announced
           /\ p \in Default => p \in dirs
           /\ p \notin Default \cup {Root} => Parent(p) \in ToSet(list)
  BY DEF History, TypeOK
<1>1. CASE UNCHANGED <<dirs, watched, announced, list>>
  BY <1>0, <1>1 DEF History
<1>2. CASE OpenDir \/ EndDir \/ ReadStopped \/ NextDir \/ Climb \/ GetPath \/ FreeResources
           \/ Interrupt \/ UNCHANGED vars
  BY <1>1, <1>2 DEF OpenDir, EndDir, ReadStopped, NextDir, Climb, GetPath, FreeResources,
                    Interrupt, vars, walkVars
<1>3. ASSUME NEW p \in Paths \ {Root}, MakeDir(p) PROVE History'
  <2>1. /\ p \notin dirs /\ Parent(p) \in dirs /\ dirs' = dirs \cup {p}
        /\ announced' = IF Parent(p) \in watched \cup announced
                        THEN announced \cup {p} ELSE announced
        /\ UNCHANGED <<list, watched>>
    BY <1>3 DEF MakeDir, walkVars
  <2>2. /\ p \in Seq(Names) /\ Len(p) \in Nat /\ Len(p) > 1
        /\ Parent(p) = Prefix(p, Len(p) - 1) /\ Len(p) - 1 \in 1..Len(p)
        /\ Len(Parent(p)) = Len(p) - 1
    BY PathFacts, Parents
  <2>3. ASSUME NEW k \in 1..Len(p) PROVE Prefix(p, k) \in dirs'
    <3>1. CASE k = Len(p)
      <4>1. Prefix(p, Len(p)) = p
        BY <2>2, SubSeqFull DEF Prefix
      <4> QED
        BY <2>1, <3>1, <4>1
    <3>2. CASE k # Len(p)
      <4>1. k \in 1..(Len(p) - 1)
        BY <2>2, <3>2
      <4>2. Prefix(Parent(p), k) = Prefix(p, k)
        BY <2>2, <4>1, PrefixOfPrefix
      <4> QED
        BY <1>0, <2>1, <2>2, <4>1, <4>2
    <3> QED
      BY <3>1, <3>2
  <2>4. ASSUME p \in ToSet(list) PROVE p \in announced'
    BY <1>0, <2>1, <2>4
  <2>5. announced \subseteq announced'
    BY <2>1
  <2> QED
    BY <1>0, <2>1, <2>3, <2>4, <2>5 DEF History
<1>4. ASSUME NEW p \in Paths \ {Root}, RemoveDir(p) PROVE History'
  <2>1. /\ p \in dirs \ (Default \cup {Root}) /\ Children(p) = {} /\ dirs' = dirs \ {p}
        /\ watched' = watched \ {p} /\ announced' = announced \ {p} /\ list' = list
    BY <1>4 DEF RemoveDir, walkVars
  <2>2. ASSUME NEW q \in dirs, q # p, NEW k \in 1..Len(q), Prefix(q, k) = p
        PROVE  FALSE
    <3>1. q \in Seq(Names) /\ Len(q) \in Nat
      BY <1>0, PathFacts
    <3>2. k # Len(q)
      BY <2>2, <3>1, SubSeqFull DEF Prefix
    <3>3. k < Len(q) /\ k + 1 \in 1..Len(q)
      BY <3>1, <3>2
    <3>4. Prefix(q, k + 1) = Append(p, q[k + 1]) /\ q[k + 1] \in Names
      BY <2>2, <3>1, <3>3, PrefixNext
    <3>5. Append(p, q[k + 1]) \in dirs
      BY <1>0, <3>3, <3>4
    <3> QED
      BY <2>1, <3>4, <3>5 DEF Children
  <2>3. \A q \in dirs' : \A k \in 1..Len(q) : Prefix(q, k) \in dirs'
    BY <1>0, <2>1, <2>2
  <2> QED
    BY <1>0, <2>1, <2>3 DEF History
<1>5. ASSUME NEW n \in Names, ReadEntry(n) PROVE History'
  <2>1. CASE Append(path, n) \notin dirs
    BY <1>1, <1>5, <2>1 DEF ReadEntry
  <2>2. CASE Append(path, n) \in dirs
    <3> DEFINE q == Append(path, n)
    <3>1. pc = "read" /\ UNCHANGED <<dirs, announced>>
      BY <1>5 DEF ReadEntry
    <3>2. FullPath(heap', Len(heap')) = q
      BY <1>5, <2>2, Grown
    <3>3. AddNode(q)
      BY <1>5, <2>2, <3>2 DEF ReadEntry
    <3>4. q \in Paths /\ list \in Seq(Paths)
      BY <2>2 DEF TypeOK
    <3> HIDE DEF q
    <3>5. /\ ToSet(list') = ToSet(list) \cup {q}
          /\ q \in ToSet(list) => watched' = watched
          /\ q \notin ToSet(list) /\ q \in dirs => watched' = watched \cup {q}
      BY <3>3, <3>4, NodeAdded
    <3>6. q \in dirs /\ Parent(q) = path /\ path \in ToSet(list)
      <4>1. path \in Seq(Names) /\ Len(path) > 0
        BY PathFacts DEF TypeOK
      <4>2. Parent(q) = path
        BY <3>4, <4>1, Extended DEF q
      <4>3. path \in ToSet(list)
        BY <3>1, Readers DEF Tree
      <4> QED
        BY <2>2, <4>2, <4>3 DEF q
    <3>7. watched \subseteq watched' /\ q \in watched' \cup announced
      BY <1>0, <3>5, <3>6
    <3> QED
      BY <1>0, <3>1, <3>5, <3>6, <3>7 DEF History
  <2> QED
    BY <2>1, <2>2
<1> QED
  BY <1>2, <1>3, <1>4, <1>5, Steps DEF Elsewhere

-----------------------------------------------------------------------------
(* What is covered stays covered: first the steps that leave the nodes and *)
(* the directories alone, then the others, one by one.                     *)
LEMMA Ancestors ==
  ASSUME TypeOK, History, NEW p \in dirs, NEW k \in 1..(Len(p) - 1)
  PROVE  /\ p \in Seq(Names) /\ Len(p) \in Nat /\ k \in Nat /\ k \in 1..Len(p)
         /\ k + 1 \in 1..Len(p) /\ Prefix(p, k) \in dirs /\ Prefix(p, k + 1) \in dirs
         /\ Prefix(p, k + 1) = Append(Prefix(p, k), p[k + 1]) /\ p[k + 1] \in Names
         /\ k + 1 # Len(p) => k + 1 \in 1..(Len(p) - 1)
         /\ k + 1 = Len(p) => Prefix(p, k + 1) = p
<1>1. p \in Seq(Names) /\ Len(p) \in Nat
  BY PathFacts DEF TypeOK
<1>2. k \in Nat /\ k \in 1..Len(p) /\ k < Len(p) /\ k + 1 \in 1..Len(p)
      /\ (k + 1 # Len(p) => k + 1 \in 1..(Len(p) - 1))
  BY <1>1
<1>3. Prefix(p, k) \in dirs /\ Prefix(p, k + 1) \in dirs
  BY <1>2 DEF History
<1>4. Prefix(p, k + 1) = Append(Prefix(p, k), p[k + 1]) /\ p[k + 1] \in Names
  BY <1>1, <1>2, PrefixNext
<1>5. Prefix(p, Len(p)) = p
  BY <1>1, SubSeqFull DEF Prefix
<1> QED
  BY <1>1, <1>2, <1>3, <1>4, <1>5

LEMMA AwaitedInit ==
  Init => Awaited
<1> SUFFICES ASSUME Init PROVE Awaiting({1})
  BY DEF Awaited
<1>1. TypeOK /\ Tree /\ Position /\ History /\ tmpRoot = 1 /\ pc = "loop" /\ path = Root
  BY TypedInit, HistoryInit DEF Init
<1>2. DOMAIN heap = {1} /\ heap[1].parent = NULL /\ FullPath(heap, 1) = Root
  <2>1. Len(heap) = 1 /\ DOMAIN heap = 1..Len(heap)
    BY <1>1, HeapFacts DEF Init
  <2> QED
    BY <1>1, <2>1 DEF Tree, Position, Walking
<1>3. Spine(tmpRoot, {1})
  BY <1>1 DEF Spine
<1>4. ToOpen({1}) = {1}
  BY <1>1, <1>2 DEF ToOpen, Later, AtNew
<1>5. Unopened({1})
  BY <1>2, <1>4 DEF Unopened, NULL
<1>6. ASSUME NEW p \in Missing PROVE Covered({1}, p)
  <2>1. p \in dirs /\ p # Root /\ p \in Paths
    BY <1>1 DEF Missing, History, TypeOK
  <2>2. Len(p) \in Nat /\ 1 \in 1..(Len(p) - 1)
    BY <2>1, PathFacts, Parents
  <2>3. Prefix(p, 1) \in dirs /\ p \in Seq(Names) /\ 1 \in 1..Len(p)
    BY <1>1, <2>1, <2>2, Ancestors
  <2>4. Len(Prefix(p, 1)) = 1
    BY <2>3, PrefixFacts
  <2>5. Prefix(p, 1) = Root
    BY <1>1, <2>3, <2>4, PathFacts DEF TypeOK
  <2> QED
    BY <1>2, <1>4, <2>2, <2>5 DEF Covered
<1> QED
  BY <1>3, <1>5, <1>6 DEF Awaiting

LEMMA StillAwaiting ==
  ASSUME NEW S, Awaiting(S), NEW T, Spine(tmpRoot', T), ToOpen(T)' = ToOpen(S),
         UNCHANGED <<heap, dirs, watched, announced>>,
         pc = "read" => unread = {} \/ UNCHANGED <<pc, path, unread>>
  PROVE  Awaiting(T)'
<1>1. Spine(tmpRoot, T)'
  BY DEF Spine
<1>2. Unopened(T)'
  BY DEF Awaiting, Unopened
<1>3. ASSUME NEW p \in Missing' PROVE Covered(T, p)'
  <2>1. p \in Missing
    BY <1>3 DEF Missing
  <2>2. Covered(S, p)
    BY <2>1 DEF Awaiting
  <2> HIDE DEF Prefix
  <2> QED
    BY <2>2 DEF Covered
<1> QED
  BY <1>1, <1>2, <1>3 DEF Awaiting

LEMMA AwaitedOpened ==
  ASSUME TypeOK, Position, History, OpenDir, ~stop, NEW S, Awaiting(S)
  PROVE  Awaiting(S)'
<1>1. /\ pc = "loop" /\ path = FullPath(heap, tmpRoot) /\ ~findFolder
      /\ unread' = (IF path \in dirs THEN Children(path) ELSE {})
      /\ pc' = (IF path \in dirs THEN "read" ELSE "next")
      /\ UNCHANGED <<heap, tmpRoot, findFolder, path, dirs, watched, announced>>
  BY DEF OpenDir, Position, Walking
<1>2. ToOpen(S) = Later(S) \cup {tmpRoot} /\ ToOpen(S)' = Later(S)
  BY <1>1 DEF ToOpen, Later, AtNew
<1>3. Spine(tmpRoot, S)' /\ Unopened(S)'
  <2>1. Unopened(S)'
    BY <1>1, <1>2 DEF Awaiting, Unopened
  <2>2. Spine(tmpRoot, S)'
    BY <1>1 DEF Awaiting, Spine
  <2> QED
    BY <2>1, <2>2
<1>4. ASSUME NEW p \in Missing' PROVE Covered(S, p)'
  <2>1. p \in Missing /\ p \in dirs
    BY <1>1, <1>4 DEF Missing
  <2>2. PICK k \in 1..(Len(p) - 1) : \E b \in ToOpen(S) : FullPath(heap, b) = Prefix(p, k)
    BY <1>1, <2>1 DEF Awaiting, Covered
  <2>3. PICK b \in ToOpen(S) : FullPath(heap, b) = Prefix(p, k)
    BY <2>2
  <2>4. CASE b \in Later(S)
    BY <1>1, <1>2, <2>3, <2>4 DEF Covered
  <2>5. CASE b = tmpRoot
    <3>1. path = Prefix(p, k) /\ path \in dirs /\ Append(path, p[k + 1]) \in dirs
          /\ p[k + 1] \in Names
      BY <1>1, <2>1, <2>3, <2>5, Ancestors
    <3>2. p[k + 1] \in unread' /\ pc' = "read"
      BY <1>1, <3>1 DEF Children
    <3> QED
      BY <1>1, <3>1, <3>2 DEF Covered
  <2> QED
    BY <1>2, <2>4, <2>5
<1> QED
  BY <1>3, <1>4 DEF Awaiting

LEMMA AwaitedMade ==
  ASSUME TypeOK, History, NEW d \in Paths \ {Root}, MakeDir(d), NEW S, Awaiting(S)
  PROVE  Awaiting(S)'
<1>1. /\ Parent(d) \in dirs /\ dirs' = dirs \cup {d}
      /\ announced' = (IF Parent(d) \in watched \cup announced
                       THEN announced \cup {d} ELSE announced)
      /\ unread \subseteq unread'
      /\ UNCHANGED <<pc, heap, tmpRoot, findFolder, path, watched>>
  BY DEF MakeDir, walkVars
<1>2. ToOpen(S)' = ToOpen(S)
  BY <1>1 DEF ToOpen, Later, AtNew
<1>3. Spine(tmpRoot, S)' /\ Unopened(S)'
  BY <1>1, <1>2 DEF Awaiting, Spine, Unopened
<1>4. \A p : Covered(S, p) => Covered(S, p)'
  BY <1>1, <1>2 DEF Covered
<1>5. ASSUME NEW p \in Missing' PROVE Covered(S, p)'
  <2>1. CASE p \in Missing
    BY <1>4, <2>1 DEF Awaiting
  <2>2. CASE p \notin Missing
    <3> DEFINE q == Parent(d)
    <3>1. p = d /\ q \in Missing
      BY <1>1, <1>5, <2>2 DEF Missing
    <3>2. Covered(S, q)
      BY <3>1 DEF Awaiting
    <3>3. /\ d \in Seq(Names) /\ Len(d) \in Nat
          /\ q = Prefix(d, Len(d) - 1) /\ Len(q) = Len(d) - 1 /\ Len(d) - 1 \in 1..Len(d)
      BY PathFacts, Parents
    <3> HIDE DEF q
    <3>4. ASSUME NEW k \in 1..(Len(q) - 1)
          PROVE  k \in 1..(Len(d) - 1) /\ Prefix(q, k) = Prefix(d, k) /\ q[k + 1] = d[k + 1]
      <4>1. k \in 1..(Len(d) - 1) /\ k + 1 \in 1..(Len(d) - 1)
        BY <3>3
      <4>2. Prefix(q, k) = Prefix(d, k)
        BY <3>3, <4>1, PrefixOfPrefix
      <4>3. q[k + 1] = d[k + 1]
        BY <3>3, <4>1, PrefixFacts
      <4> QED
        BY <4>1, <4>2, <4>3
    <3>5. Covered(S, d)
      BY <3>2, <3>4 DEF Covered
    <3> QED
      BY <1>4, <3>1, <3>5
  <2> QED
    BY <2>1, <2>2
<1> QED
  BY <1>3, <1>5 DEF Awaiting

LEMMA AwaitedRemoved ==
  ASSUME TypeOK, History, TypeOK', History',
         NEW d \in Paths \ {Root}, RemoveDir(d), NEW S, Awaiting(S)
  PROVE  Awaiting(S)'
<1>1. /\ dirs' = dirs \ {d} /\ watched' = watched \ {d} /\ announced' = announced \ {d}
      /\ unread' = unread \/ (path = Parent(d) /\ unread' = unread \ {Last(d)})
      /\ UNCHANGED <<pc, heap, tmpRoot, findFolder, path>>
  BY DEF RemoveDir, walkVars, Reading
<1>2. ToOpen(S)' = ToOpen(S)
  BY <1>1 DEF ToOpen, Later, AtNew
<1>3. Spine(tmpRoot, S)' /\ Unopened(S)'
  BY <1>1, <1>2 DEF Awaiting, Spine, Unopened
<1>4. ASSUME NEW p \in Missing' PROVE Covered(S, p)'
  <2>1. p \in Missing /\ p \in dirs /\ p \in dirs'
    BY <1>1, <1>4 DEF Missing
  <2>2. PICK k \in 1..(Len(p) - 1) :
          \/ \E b \in ToOpen(S) : FullPath(heap, b) = Prefix(p, k)
          \/ pc = "read" /\ path = Prefix(p, k) /\ p[k + 1] \in unread
    BY <2>1 DEF Awaiting, Covered
  <2>3. CASE \E b \in ToOpen(S) : FullPath(heap, b) = Prefix(p, k)
    BY <1>1, <1>2, <2>3 DEF Covered
  <2>4. CASE pc = "read" /\ path = Prefix(p, k) /\ p[k + 1] \in unread
    <3>1. Append(path, p[k + 1]) \in dirs'
      <4>1. k \in 1..Len(p) /\ k + 1 \in 1..Len(p)
            /\ Prefix(p, k + 1) = Append(Prefix(p, k), p[k + 1])
        BY <2>1, Ancestors
      <4>2. Prefix(p, k + 1) \in dirs'
        BY <2>1, <4>1 DEF History
      <4> QED
        BY <2>4, <4>1, <4>2
    <3>2. ~(path = Parent(d) /\ p[k + 1] = Last(d))
      BY <1>1, <3>1, Parents
    <3>3. p[k + 1] \in unread'
      BY <1>1, <2>4, <3>2
    <3> QED
      BY <1>1, <2>4, <3>3 DEF Covered
  <2> QED
    BY <2>2, <2>3, <2>4
<1> QED
  BY <1>3, <1>4 DEF Awaiting

(* A directory that is found becomes the last node, and one to be opened.  *)
LEMMA SpineGrown ==
  ASSUME TypeOK, Tree, Links, Position, NEW n \in Names, ReadEntry(n),
         Append(path, n) \in dirs, NEW S, Spine(tmpRoot, S), Unopened(S)
  PROVE  \E T \in SUBSET Nat :
           /\ Spine(tmpRoot, T)' /\ Unopened(T)'
           /\ ToOpen(T)' = ToOpen(S) \cup {Len(heap) + 1}
<1> DEFINE L == Len(heap)
           t == tmpRoot
<1>1. /\ pc = "read" /\ L \in Nat \ {0} /\ DOMAIN heap = 1..L /\ DOMAIN heap' = 1..(L + 1)
      /\ \A a \in 1..L : heap'[a].parent = heap[a].parent
      /\ heap'[L + 1].parent = Reader /\ Reader \in 1..L
      /\ t \in 1..L /\ (findFolder => heap[t].parent = Reader /\ t # 1)
      /\ tmpRoot' = (IF findFolder THEN t ELSE L + 1)
      /\ pc' = pc /\ findFolder'
  <2>1. pc = "read" /\ pc' = pc /\ findFolder' = TRUE
    BY DEF ReadEntry
  <2>2. heap'[L + 1] = NewNode(n, Reader)
    BY Grown
  <2>3. heap'[L + 1].parent = Reader
    BY <2>2 DEF NewNode
  <2>4. /\ Len(heap') = L + 1 /\ DOMAIN heap' = 1..(L + 1)
        /\ \A a \in 1..L : heap'[a].parent = heap[a].parent
    BY Grown
  <2>5. tmpRoot' = (IF findFolder THEN t ELSE L + 1)
    BY <2>4 DEF ReadEntry
  <2>6. findFolder => t # 1
    BY <2>1 DEF Position, Walking
  <2>7. L \in Nat \ {0} /\ DOMAIN heap = 1..L
    BY HeapFacts
  <2>8. Reader \in DOMAIN heap /\ t \in DOMAIN heap /\ (findFolder => heap[t].parent = Reader)
    BY <2>1, Readers
  <2> QED
    BY <2>1, <2>3, <2>4, <2>5, <2>6, <2>7, <2>8
<1>2. /\ \A a \in S : a \in 1..L /\ a <= t
      /\ \A a \in S : a \notin Later(S)
      /\ \A a \in S : a # 1 => heap[a].parent \in S /\ heap[a].parent < a
      /\ t \in S /\ S \subseteq 1..t
      /\ \A b \in S : b = 1 \/ \A a \in S : a < b => a <= heap[b].parent
  BY <1>1, SpineFacts DEF Spine
<1>3. \A c \in 1..L : heap[c].parent \in 0..(c - 1)
  BY <1>1, HeapFacts DEF NULL
<1>4. /\ \A c \in 1..L, b \in ToOpen(S) : heap[c].parent # b
      /\ ToOpen(S) = Later(S) \cup (IF findFolder THEN {t} ELSE {})
  BY <1>1 DEF Unopened, ToOpen, AtNew
<1>5. \A T : ToOpen(T)' = Later(T)' \cup {tmpRoot'}
  BY <1>1 DEF ToOpen, AtNew
<1>6. Later(S) \subseteq 1..L /\ Reader \notin Later(S) /\ Reader \in S
  <2>1. Reader \in S
    <3>1. CASE findFolder
      BY <1>1, <1>2, <3>1
    <3>2. CASE ~findFolder
      BY <1>2, <3>2 DEF Reader
    <3> QED
      BY <3>1, <3>2
  <2>2. Later(S) \subseteq DOMAIN heap
    BY DEF Later
  <2>3. Reader \notin Later(S)
    BY <1>2, <2>1
  <2>4. DOMAIN heap = 1..L
    BY <1>1
  <2> QED
    BY ONLY <2>1, <2>2, <2>3, <2>4
<1> HIDE DEF L, t
<1>7. \A c \in 1..(L + 1) : c \in 1..L \/ c = L + 1
  BY <1>1
<1>8. CASE findFolder
  <2>1. Spine(tmpRoot, S)'
    <3>1. tmpRoot' = t /\ \A a \in S : heap'[a].parent = heap[a].parent
      BY <1>1, <1>2, <1>8
    <3> QED
      BY <1>2, <3>1 DEF Spine
  <2>2. Later(S)' = Later(S) \cup {L + 1}
    <3>1. ASSUME NEW b \in 1..L
          PROVE  b \in Later(S)' <=> b \in Later(S)
      <4>1. b \in 1..(L + 1)
        BY <1>1
      <4>2. \A a \in S : heap'[a].parent = heap[a].parent
        BY <1>1, <1>2
      <4> QED
        BY <1>1, <4>1, <4>2 DEF Later
    <3>2. L + 1 \in Later(S)'
      <4>1. t \in S /\ t < L + 1 /\ heap'[t].parent = Reader /\ L + 1 \in 1..(L + 1)
        BY <1>1, <1>2, <1>8
      <4> QED
        BY <1>1, <4>1 DEF Later
    <3>3. Later(S)' \subseteq 1..(L + 1)
      BY <1>1 DEF Later
    <3> QED
      BY <1>6, <1>7, <3>1, <3>2, <3>3
  <2>3. ToOpen(S)' = ToOpen(S) \cup {L + 1}
    BY <1>1, <1>4, <1>5, <1>8, <2>2
  <2>4. Unopened(S)'
    <3> SUFFICES ASSUME NEW b \in ToOpen(S) \cup {L + 1}, NEW c \in 1..(L + 1)
                 PROVE  heap'[c].parent # b
      BY <1>1, <2>3 DEF Unopened
    <3>1. CASE c \in 1..L /\ b \in ToOpen(S)
      BY <1>1, <1>4, <3>1
    <3>2. CASE c \in 1..L /\ b = L + 1
      BY <1>1, <1>3, <3>2
    <3>3. CASE c = L + 1
      <4>1. b # Reader
        <5>1. Reader # L + 1 /\ Reader # t
          BY <1>1, <1>2, <1>8
        <5> QED
          BY <1>4, <1>6, <1>8, <5>1
      <4> QED
        BY <1>1, <3>3, <4>1
    <3> QED
      BY <1>7, <3>1, <3>2, <3>3
  <2>5. S \in SUBSET Nat
    BY <1>1, <1>2
  <2> QED
    BY <2>1, <2>3, <2>4, <2>5 DEF L
<1>9. CASE ~findFolder
  <2>0. S \cup {L + 1} \in SUBSET Nat
    BY <1>1, <1>2
  <2> PICK T \in SUBSET Nat : T = S \cup {L + 1}
    BY <2>0
  <2>1. Reader = t /\ tmpRoot' = L + 1
    BY <1>1, <1>9 DEF Reader, t
  <2>2. \A a \in S : heap'[a].parent = heap[a].parent /\ a < L + 1 /\ a \in Nat
    BY <1>1, <1>2
  <2>3. Spine(tmpRoot, T)'
    <3>1. L + 1 \in T /\ T \subseteq 1..(L + 1)
      BY <1>1, <1>2
    <3>2. ASSUME NEW b \in T
          PROVE  b = 1 \/ (heap'[b].parent \in T /\ \A a \in T : a < b => a <= heap'[b].parent)
      <4>1. CASE b = L + 1
        <5>1. heap'[b].parent = t
          BY <1>1, <2>1, <4>1
        <5>2. ASSUME NEW a \in T, a < b PROVE a \in S
          BY <1>1, <4>1, <5>2
        <5> QED
          BY <1>2, <5>1, <5>2
      <4>2. CASE b \in S
        <5>1. ASSUME NEW a \in T, a < b PROVE a \in S
          BY <1>1, <2>2, <4>2, <5>1
        <5> QED
          BY <1>2, <2>2, <4>2, <5>1
      <4> QED
        BY <4>1, <4>2
    <3> QED
      BY <2>1, <3>1, <3>2 DEF Spine
  <2>4. Later(T)' = Later(S)
    <3>1. ASSUME NEW b \in 1..L
          PROVE  b \in Later(T)' <=> b \in Later(S)
      <4>1. b \in 1..(L + 1) /\ ~(L + 1 < b)
        BY <1>1
      <4>2. (\E a \in T : a < b /\ heap'[b].parent = heap'[a].parent)
              <=> (\E a \in S : a < b /\ heap[b].parent = heap[a].parent)
        BY <1>1, <2>2, <4>1
      <4> QED
        BY <1>1, <4>1, <4>2 DEF Later
    <3>2. L + 1 \notin Later(T)'
      <4> SUFFICES ASSUME NEW a \in T, a < L + 1, heap'[L + 1].parent = heap'[a].parent
                   PROVE  FALSE
        BY DEF Later
      <4>0. a \in S
        BY <1>1
      <4>1. heap[a].parent = t /\ a \in 1..L /\ a <= t
        <5>1. heap'[L + 1].parent = t /\ heap'[a].parent = heap[a].parent
          BY <1>1, <2>1, <2>2, <4>0
        <5> QED
          BY <1>2, <4>0, <5>1
      <4> QED
        BY <1>1, <1>3, <4>1
    <3>3. Later(T)' \subseteq 1..(L + 1)
      BY <1>1 DEF Later
    <3> QED
      BY <1>6, <1>7, <3>1, <3>2, <3>3
  <2>5. ToOpen(T)' = ToOpen(S) \cup {L + 1}
    BY <1>4, <1>5, <1>9, <2>1, <2>4
  <2>6. Unopened(T)'
    <3> SUFFICES ASSUME NEW b \in ToOpen(S) \cup {L + 1}, NEW c \in 1..(L + 1)
                 PROVE  heap'[c].parent # b
      BY <1>1, <2>5 DEF Unopened
    <3>1. CASE c \in 1..L /\ b \in ToOpen(S)
      BY <1>1, <1>4, <3>1
    <3>2. CASE c \in 1..L /\ b = L + 1
      BY <1>1, <1>3, <3>2
    <3>3. CASE c = L + 1
      <4>1. b # Reader
        <5>1. Reader # L + 1
          BY <1>1
        <5> QED
          BY <1>4, <1>6, <1>9, <5>1
      <4> QED
        BY <1>1, <3>3, <4>1
    <3> QED
      BY <1>7, <3>1, <3>2, <3>3
  <2> QED
    BY <2>3, <2>5, <2>6 DEF L
<1> QED
  BY <1>8, <1>9

(* Reading an entry: the way to a directory turns into its node.           *)
LEMMA AwaitedRead ==
  ASSUME TypeOK, Tree, Links, Position, History, History',
         NEW n \in Names, ReadEntry(n), NEW S \in SUBSET Nat, Awaiting(S)
  PROVE  \E T \in SUBSET Nat : Awaiting(T)'
<1>1. /\ pc = "read" /\ unread' = unread \ {n}
      /\ UNCHANGED <<pc, path, dirs, announced>>
  BY DEF ReadEntry
<1>2. CASE Append(path, n) \notin dirs
  <2>1. UNCHANGED <<heap, tmpRoot, findFolder, watched>>
    BY <1>2 DEF ReadEntry
  <2>2. ToOpen(S)' = ToOpen(S)
    BY <1>1, <2>1 DEF ToOpen, Later, AtNew
  <2>3. Spine(tmpRoot, S)' /\ Unopened(S)'
    BY <2>1, <2>2 DEF Awaiting, Spine, Unopened
  <2>4. ASSUME NEW p \in Missing' PROVE Covered(S, p)'
    <3>1. p \in Missing /\ p \in dirs
      BY <1>1, <2>1, <2>4 DEF Missing
    <3>2. PICK k \in 1..(Len(p) - 1) :
            \/ \E b \in ToOpen(S) : FullPath(heap, b) = Prefix(p, k)
            \/ pc = "read" /\ path = Prefix(p, k) /\ p[k + 1] \in unread
      BY <3>1 DEF Awaiting, Covered
    <3>3. CASE \E b \in ToOpen(S) : FullPath(heap, b) = Prefix(p, k)
      BY <2>1, <2>2, <3>3 DEF Covered
    <3>4. CASE path = Prefix(p, k) /\ p[k + 1] \in unread
      <4>1. Append(path, p[k + 1]) \in dirs
        BY <3>1, <3>4, Ancestors
      <4>2. p[k + 1] \in unread'
        BY <1>1, <1>2, <3>4, <4>1
      <4> QED
        BY <1>1, <3>4, <4>2 DEF Covered
    <3> QED
      BY <3>2, <3>3, <3>4
  <2> QED
    BY <2>3, <2>4 DEF Awaiting
<1>3. CASE Append(path, n) \in dirs
  <2> DEFINE L == Len(heap)
  <2>1. PICK T \in SUBSET Nat :
          /\ Spine(tmpRoot, T)' /\ Unopened(T)'
          /\ ToOpen(T)' = ToOpen(S) \cup {L + 1}
    BY <1>3, SpineGrown DEF Awaiting
  <2>2. /\ DOMAIN heap = 1..L /\ tmpRoot \in 1..L
        /\ FullPath(heap', L + 1) = Append(path, n)
        /\ FullPath(heap', Len(heap')) = Append(path, n)
        /\ \A a \in 1..L : FullPath(heap', a) = FullPath(heap, a)
    BY <1>1, <1>3, HeapFacts, Grown, Readers
  <2>3. ToOpen(S) \subseteq 1..L
    BY <2>2 DEF ToOpen, Later
  <2>4. Append(path, n) \in ToSet(list') /\ watched \subseteq watched'
    <3>1. AddNode(Append(path, n)) /\ Append(path, n) \in Paths /\ list \in Seq(Paths)
      BY <1>3, <2>2 DEF ReadEntry, TypeOK
    <3> QED
      BY <1>3, <3>1, NodeAdded
  <2> HIDE DEF L
  <2>5. ASSUME NEW p \in Missing' PROVE Covered(T, p)'
    <3>1. p \in Missing /\ p \in dirs /\ p \notin ToSet(list')
      BY <1>1, <2>4, <2>5 DEF Missing, History
    <3>2. PICK k \in 1..(Len(p) - 1) :
            \/ \E b \in ToOpen(S) : FullPath(heap, b) = Prefix(p, k)
            \/ pc = "read" /\ path = Prefix(p, k) /\ p[k + 1] \in unread
      BY <3>1 DEF Awaiting, Covered
    <3>3. CASE \E b \in ToOpen(S) : FullPath(heap, b) = Prefix(p, k)
      BY <2>1, <2>2, <2>3, <3>3 DEF Covered
    <3>4. CASE path = Prefix(p, k) /\ p[k + 1] \in unread /\ p[k + 1] # n
      BY <1>1, <3>4 DEF Covered
    <3>5. CASE path = Prefix(p, k) /\ p[k + 1] = n
      <4>1. Prefix(p, k + 1) = Append(path, n)
            /\ (k + 1 # Len(p) => k + 1 \in 1..(Len(p) - 1))
            /\ (k + 1 = Len(p) => Prefix(p, k + 1) = p)
        BY <3>1, <3>5, Ancestors
      <4>2. k + 1 \in 1..(Len(p) - 1)
        BY <2>4, <3>1, <4>1
      <4>3. L + 1 \in ToOpen(T)' /\ FullPath(heap', L + 1) = Prefix(p, k + 1)
        BY <2>1, <2>2, <4>1
      <4> QED
        BY <4>2, <4>3 DEF Covered
    <3> QED
      BY <3>2, <3>3, <3>4, <3>5
  <2> QED
    BY <2>1, <2>5 DEF Awaiting
<1> QED
  BY <1>2, <1>3

(* The walk turns to the first directory found, to a brother, or climbs.   *)
LEMMA AwaitedMoved ==
  ASSUME TypeOK, Tree, Links, Position, NextDir \/ Climb, Walking',
         NEW S \in SUBSET Nat, Awaiting(S)
  PROVE  \E T \in SUBSET Nat : Awaiting(T)'
<1>1. /\ tmpRoot \in DOMAIN heap /\ Spine(tmpRoot, S) /\ pc \in {"next", "climb"}
      /\ UNCHANGED <<heap, findFolder, dirs, watched, announced>>
  BY NextDirMoves, ClimbMoves DEF Awaiting
<1>2. Len(heap) \in Nat /\ DOMAIN heap = 1..Len(heap)
  BY HeapFacts
<1>3. \A T : Later(T)' = Later(T)
  BY <1>1 DEF Later
<1>4. ASSUME NEW T \in SUBSET Nat, Spine(tmpRoot', T), ToOpen(T)' = ToOpen(S)
      PROVE  \E U \in SUBSET Nat : Awaiting(U)'
  <2>1. pc # "read"
    BY <1>1
  <2>2. Awaiting(T)'
    BY <1>1, <1>4, <2>1, StillAwaiting
  <2> QED
    BY <2>2
<1>5. ASSUME NextDir PROVE \E T \in SUBSET Nat : Awaiting(T)'
  <2>1. CASE UNCHANGED tmpRoot /\ (findFolder \/ pc' = "climb")
    <3>1. ToOpen(S)' = ToOpen(S)
      BY <1>1, <1>3, <1>5, <2>1, NextDirMoves DEF ToOpen, AtNew
    <3> QED
      BY <1>1, <1>4, <2>1, <3>1
  <2>2. CASE /\ ~findFolder /\ pc' = "path"
             /\ tmpRoot' = tmpRoot + 1 /\ tmpRoot + 1 \in DOMAIN heap
             /\ heap[tmpRoot + 1].parent = heap[tmpRoot].parent
    <3>1. PICK T : T = (S \ {tmpRoot}) \cup {tmpRoot + 1}
      OBVIOUS
    <3>2. Spine(tmpRoot', T) /\ Later(T) \cup {tmpRoot + 1} = Later(S)
      BY <1>1, <2>2, <3>1, Shifted
    <3>3. ToOpen(S) = Later(S) /\ ToOpen(T)' = Later(T) \cup {tmpRoot + 1}
      <4>1. ~AtNew /\ AtNew'
        BY <1>5, <2>2 DEF NextDir, AtNew
      <4>2. ToOpen(S) = Later(S)
        BY <4>1 DEF ToOpen
      <4>3. ToOpen(T)' = Later(T)' \cup {tmpRoot'}
        BY <4>1 DEF ToOpen
      <4>4. Later(T)' = Later(T)
        BY <1>3
      <4> QED
        BY ONLY <2>2, <4>2, <4>3, <4>4
    <3>4. T \in SUBSET Nat
      <4>1. tmpRoot + 1 \in Nat
        BY <1>2, <2>2
      <4> QED
        BY <3>1, <4>1
    <3> QED
      BY <1>4, <3>2, <3>3, <3>4
  <2> QED
    BY <1>5, <2>1, <2>2, NextDirMoves
<1>6. ASSUME Climb PROVE \E T \in SUBSET Nat : Awaiting(T)'
  <2> DEFINE up == heap[tmpRoot].parent
  <2>1. /\ pc = "climb" /\ ~findFolder /\ tmpRoot # 1 /\ up \in DOMAIN heap
        /\ \A b \in DOMAIN heap : tmpRoot < b => heap[b].parent # up
        /\ \/ pc' = "climb" /\ tmpRoot' = up
           \/ /\ pc' = "path" /\ tmpRoot' = up + 1 /\ up + 1 \in DOMAIN heap
              /\ heap[up + 1].parent = heap[up].parent
    <3>1. pc' # "free"
      BY DEF Walking
    <3>2. heap[tmpRoot].Rbrother = NULL
      BY <1>6, ClimbMoves
    <3>3. \A b \in DOMAIN heap : tmpRoot < b => heap[b].parent # up
      BY <1>1, <3>2, Brother
    <3> QED
      BY <1>1, <1>6, <3>1, <3>3, ClimbMoves
  <2>2. PICK T : T = S \ {tmpRoot}
    OBVIOUS
  <2>3. Spine(up, T) /\ Later(T) = Later(S) /\ ToOpen(S) = Later(S)
    <3>1. Spine(up, T) /\ Later(T) = Later(S)
      BY <1>1, <2>1, <2>2, Dropped
    <3> QED
      BY <2>1, <3>1 DEF ToOpen, AtNew
  <2>4. T \in SUBSET Nat
    BY <2>2
  <2> HIDE DEF up
  <2>5. CASE pc' = "climb" /\ tmpRoot' = up
    <3>1. ToOpen(T)' = Later(T)
      BY <1>1, <1>3, <2>1, <2>5 DEF ToOpen, AtNew
    <3> QED
      BY <1>4, <2>3, <2>4, <2>5, <3>1
  <2>6. CASE /\ pc' = "path" /\ tmpRoot' = up + 1 /\ up + 1 \in DOMAIN heap
             /\ heap[up + 1].parent = heap[up].parent
    <3>1. PICK U : U = (T \ {up}) \cup {up + 1}
      OBVIOUS
    <3>2. Spine(tmpRoot', U) /\ Later(U) \cup {up + 1} = Later(T)
      BY <2>1, <2>3, <2>6, <3>1, Shifted
    <3>3. ToOpen(U)' = Later(U) \cup {up + 1}
      <4>1. AtNew'
        BY <2>6 DEF AtNew
      <4>2. ToOpen(U)' = Later(U)' \cup {tmpRoot'}
        BY <4>1 DEF ToOpen
      <4>3. Later(U)' = Later(U)
        BY <1>3
      <4> QED
        BY ONLY <2>6, <4>2, <4>3
    <3>4. U \in SUBSET Nat
      <4>1. up + 1 \in Nat
        BY <1>2, <2>6
      <4> QED
        BY <2>4, <3>1, <4>1
    <3> QED
      BY <1>4, <2>3, <3>2, <3>3, <3>4
  <2> QED
    BY <2>1, <2>5, <2>6
<1> QED
  BY <1>5, <1>6

(* All steps together, and the end.                                        *)
LEMMA AwaitedStep ==
  ASSUME TypeOK, Tree, Links, Position, History, Awaited, TypeOK', History', [Next]_vars
  PROVE  Awaited'
<1> SUFFICES ASSUME Walking' PROVE \E T \in SUBSET Nat : Awaiting(T)'
  BY DEF Awaited
<1>1. ASSUME UNCHANGED <<heap, dirs, watched, announced, tmpRoot>>, Walking, AtNew' = AtNew,
             pc = "read" => unread = {} \/ UNCHANGED <<pc, path, unread>>
      PROVE  \E T \in SUBSET Nat : Awaiting(T)'
  <2>1. PICK S \in SUBSET Nat : Awaiting(S)
    BY <1>1 DEF Awaited
  <2>2. ToOpen(S)' = ToOpen(S) /\ Spine(tmpRoot', S)
    BY <1>1, <2>1 DEF ToOpen, Later, Awaiting
  <2>3. Awaiting(S)'
    BY <1>1, <2>1, <2>2, StillAwaiting
  <2> QED
    BY <2>3
<1>2. CASE OpenDir
  <2>1. Walking /\ ~stop
    BY <1>2 DEF OpenDir, Walking
  <2>2. PICK S \in SUBSET Nat : Awaiting(S)
    BY <2>1 DEF Awaited
  <2>3. Awaiting(S)'
    BY <1>2, <2>1, <2>2, AwaitedOpened
  <2> QED
    BY <2>3
<1>3. CASE EndDir
  BY <1>1, <1>3 DEF EndDir, EndOfDir, Walking, AtNew
<1>4. CASE GetPath
  BY <1>1, <1>4 DEF GetPath, Walking, AtNew
<1>5. CASE ReadStopped \/ FreeResources
  BY <1>5 DEF ReadStopped, FreeResources, Walking
<1>6. CASE Interrupt \/ UNCHANGED vars
  BY <1>1, <1>6 DEF Interrupt, vars, walkVars, Walking, AtNew
<1>7. CASE NextDir \/ Climb
  <2>1. PICK S \in SUBSET Nat : Awaiting(S)
    BY <1>7 DEF Awaited, NextDir, Climb, Walking
  <2> QED
    BY <1>7, <2>1, AwaitedMoved
<1>8. ASSUME NEW d \in Paths \ {Root}, MakeDir(d) \/ RemoveDir(d)
      PROVE  \E T \in SUBSET Nat : Awaiting(T)'
  <2>1. PICK S \in SUBSET Nat : Awaiting(S)
    BY <1>8 DEF Awaited, MakeDir, RemoveDir, walkVars, Walking
  <2>2. Awaiting(S)'
    BY <1>8, <2>1, AwaitedMade, AwaitedRemoved
  <2> QED
    BY <2>2
<1>9. ASSUME NEW n \in Names, ReadEntry(n) PROVE \E T \in SUBSET Nat : Awaiting(T)'
  <2>1. PICK S \in SUBSET Nat : Awaiting(S)
    BY <1>9 DEF Awaited, ReadEntry, Walking
  <2> QED
    BY <1>9, <2>1, AwaitedRead
<1> QED
  BY <1>2, <1>3, <1>4, <1>5, <1>6, <1>7, <1>8, <1>9, Steps DEF Elsewhere

LEMMA EndedStep ==
  ASSUME TypeOK, Tree, Links, Position, History, Awaited, Ended, [Next]_vars
  PROVE  Ended'
<1>1. ASSUME Climb, pc' = "free" PROVE Missing' = {}
  <2>1. /\ pc = "climb" /\ ~findFolder /\ tmpRoot \in DOMAIN heap
        /\ heap[tmpRoot].parent \in {1, NULL} /\ heap[tmpRoot].Rbrother = NULL
        /\ UNCHANGED <<dirs, watched, announced>>
    BY <1>1, ClimbMoves
  <2>2. PICK S \in SUBSET Nat : Awaiting(S)
    BY <2>1 DEF Awaited, Walking
  <2>3. /\ Len(heap) \in Nat /\ DOMAIN heap = 1..Len(heap)
        /\ \A b \in DOMAIN heap : b # 1 => heap[b].parent # NULL
        /\ heap[1].parent = NULL
    BY HeapFacts DEF Tree, NULL
  <2>4. \A b \in DOMAIN heap : tmpRoot < b => heap[b].parent # heap[tmpRoot].parent
    BY <2>1, Brother
  <2>5. S \subseteq {1, tmpRoot}
    <3> SUFFICES ASSUME NEW a \in S, a # 1, a # tmpRoot PROVE FALSE
      OBVIOUS
    <3>1. a \in 1..tmpRoot /\ tmpRoot \in S
          /\ (tmpRoot = 1 \/ \A b \in S : b < tmpRoot => b <= heap[tmpRoot].parent)
      BY <2>2 DEF Awaiting, Spine
    <3>2. a < tmpRoot /\ tmpRoot # 1 /\ ~(a <= 1)
      BY <2>1, <2>3, <3>1
    <3>3. heap[tmpRoot].parent = 1
      BY <2>1, <2>3, <3>2
    <3> QED
      BY <3>1, <3>2, <3>3
  <2>6. Later(S) = {}
    <3> SUFFICES ASSUME NEW b \in DOMAIN heap, NEW a \in S, a < b,
                        heap[b].parent = heap[a].parent
                 PROVE  FALSE
      BY DEF Later
    <3>1. CASE a = 1
      BY <2>3, <3>1
    <3>2. CASE a = tmpRoot
      BY <2>4, <3>2
    <3> QED
      BY <2>5, <3>1, <3>2
  <2>7. ToOpen(S) = {}
    BY <2>1, <2>6 DEF ToOpen, AtNew
  <2>8. \A p : ~Covered(S, p)
    BY <2>1, <2>7 DEF Covered
  <2> QED
    BY <2>1, <2>2, <2>8 DEF Awaiting, Missing
<1>2. ASSUME done, ~Walking PROVE Missing' = {}
  <2>1. Missing = {}
    BY <1>2 DEF Ended
  <2>2. CASE OpenDir \/ EndDir \/ ReadStopped \/ NextDir \/ Climb \/ GetPath
    BY <1>2, <2>2 DEF OpenDir, EndDir, ReadStopped, NextDir, Climb, GetPath, Walking
  <2>3. CASE FreeResources \/ Interrupt \/ UNCHANGED vars
    BY <2>1, <2>3 DEF FreeResources, Interrupt, vars, Missing
  <2>4. ASSUME NEW d, MakeDir(d) PROVE Missing' = {}
    BY <2>1, <2>4 DEF MakeDir, Missing
  <2>5. ASSUME NEW d, RemoveDir(d) PROVE Missing' = {}
    BY <2>1, <2>5 DEF RemoveDir, Missing
  <2>6. ASSUME NEW n, ReadEntry(n) PROVE FALSE
    BY <1>2, <2>6 DEF ReadEntry, Walking
  <2> QED
    BY <2>2, <2>3, <2>4, <2>5, <2>6 DEF Next, Walk
<1>3. done' => done \/ (Climb /\ pc' = "free")
  <2>1. CASE Climb
    BY <2>1, ClimbMoves
  <2>2. CASE OpenDir \/ EndDir \/ ReadStopped \/ NextDir \/ GetPath \/ FreeResources
    BY <2>2 DEF OpenDir, EndDir, ReadStopped, NextDir, GetPath, FreeResources
  <2>3. CASE Interrupt \/ UNCHANGED vars
    BY <2>3 DEF Interrupt, vars, walkVars
  <2>4. ASSUME NEW d, MakeDir(d) \/ RemoveDir(d) PROVE done' = done
    BY <2>4 DEF MakeDir, RemoveDir, walkVars
  <2>5. ASSUME NEW n, ReadEntry(n) PROVE done' = done
    BY <2>5 DEF ReadEntry
  <2> QED
    BY <2>1, <2>2, <2>3, <2>4, <2>5 DEF Next, Walk
<1>4. done => ~Walking
  BY DEF Position
<1>5. pc' = "end" => freed' = DOMAIN heap'
  <2>1. CASE FreeResources
    <3>1. heap' = heap
      BY <2>1 DEF FreeResources
    <3> QED
      BY <2>1, <3>1, AllFreed
  <2>2. CASE OpenDir \/ EndDir \/ ReadStopped \/ GetPath
    BY <2>2 DEF OpenDir, EndDir, ReadStopped, GetPath
  <2>3. CASE NextDir \/ Climb
    BY <2>3, NextDirMoves, ClimbMoves
  <2>4. CASE Interrupt \/ UNCHANGED vars
    BY <2>4 DEF Interrupt, vars, walkVars, Ended
  <2>5. ASSUME NEW d, MakeDir(d) \/ RemoveDir(d) PROVE pc' # "end"
    BY <2>5 DEF MakeDir, RemoveDir, Change, walkVars
  <2>6. ASSUME NEW n, ReadEntry(n) PROVE pc' # "end"
    BY <2>6 DEF ReadEntry
  <2> QED
    BY <2>1, <2>2, <2>3, <2>4, <2>5, <2>6 DEF Next, Walk
<1> QED
  BY <1>1, <1>2, <1>3, <1>4, <1>5 DEF Ended

-----------------------------------------------------------------------------
(* The inductive invariant.                                                *)
Inv == TypeOK /\ Tree /\ Links /\ Position /\ History /\ Awaited /\ Ended

LEMMA Invariant ==
  Spec => []Inv
<1>1. Init => Inv
  <2>1. Init => Ended
    BY DEF Init, Ended
  <2> QED
    BY <2>1, TypedInit, HistoryInit, AwaitedInit DEF Inv
<1>2. Inv /\ [Next]_vars => Inv'
  <2> SUFFICES ASSUME Inv, [Next]_vars PROVE Inv'
    OBVIOUS
  <2>0. TypeOK /\ Tree /\ Links /\ Position /\ History /\ Awaited /\ Ended
    BY DEF Inv
  <2>1. TypeOK'
    BY <2>0, TypedStep
  <2>2. Tree' /\ Links'
    BY <2>0, NodesStep
  <2>3. Walking /\ AtNew => \A c \in DOMAIN heap : heap[c].parent # tmpRoot
    BY <2>0 DEF Awaited, Awaiting, Unopened, ToOpen
  <2>4. Position'
    BY <2>0, <2>3, PositionStep
  <2>5. History'
    BY <2>0, HistoryStep
  <2>6. Awaited'
    BY <2>0, <2>1, <2>5, AwaitedStep
  <2>7. Ended'
    BY <2>0, EndedStep
  <2> QED
    BY <2>1, <2>2, <2>4, <2>5, <2>6, <2>7 DEF Inv
<1> QED
  BY <1>1, <1>2, PTL DEF Spec

(* The walk's nodes, paths and lists stay of their types: a path is that of*)
(* a directory, and tmp_root and prv_node are NULL or nodes.               *)
THEOREM WalkTyping ==
  Spec => []TypeOK
<1>1. Inv => TypeOK
  BY DEF Inv
<1> QED
  BY <1>1, Invariant, PTL

(* ms_get_full_path_from_node is given the depth of its node: its array has*)
(* a place for every ancestor, and no other.                               *)
THEOREM DepthsAreRight ==
  Spec => []DepthIsRight
<1>1. Inv => DepthIsRight
  <2> SUFFICES ASSUME Inv, pc \in {"path", "read"} PROVE DepthIsRight
    BY DEF DepthIsRight
  <2>1. /\ TypeOK /\ Tree /\ tmpRoot \in DOMAIN heap /\ prvNode = Len(heap)
        /\ findFolder => tmpRoot # 1 /\ heap[Len(heap)].parent = heap[tmpRoot].parent
        /\ depth = Level(tmpRoot) + (IF AtNew THEN 0 ELSE 1)
    BY DEF Inv, Position, Walking
  <2>2. Level(tmpRoot) \in Nat
    BY <2>1, PathsOfNodes
  <2>3. CASE pc = "path"
    BY <2>1, <2>2, <2>3 DEF AtNew, DepthIsRight
  <2>4. CASE pc = "read" /\ ~findFolder
    BY <2>1, <2>2, <2>4 DEF AtNew, DepthIsRight
  <2>5. CASE pc = "read" /\ findFolder
    <3>1. prvNode \in DOMAIN heap /\ prvNode # 1
      <4>1. prvNode \in DOMAIN heap /\ heap[tmpRoot].parent # NULL /\ heap[1].parent = NULL
        BY <2>1, <2>5, HeapFacts DEF Tree, NULL
      <4> QED
        BY <2>1, <2>5, <4>1
    <3>2. Level(prvNode) = Level(tmpRoot)
      <4>1. /\ Level(prvNode) = Level(heap[prvNode].parent) + 1
            /\ Level(tmpRoot) = Level(heap[tmpRoot].parent) + 1
        BY <2>1, <2>5, <3>1, PathsOfNodes
      <4> QED
        BY <2>1, <2>5, <4>1
    <3> QED
      BY <2>1, <2>2, <2>5, <3>2 DEF AtNew, DepthIsRight
  <2> QED
    BY <2>3, <2>4, <2>5
<1> QED
  BY <1>1, Invariant, PTL

(* A walk that ends by itself leaves no directory out, whatever directories*)
(* are made and removed meanwhile: each is listed, or was made in one that *)
(* was listed by then, whose watch tells of it.                            *)
THEOREM NothingMissed ==
  Spec => []NothingIsMissed
<1>1. Inv => NothingIsMissed
  BY DEF Inv, Ended, Missing, NothingIsMissed
<1> QED
  BY <1>1, Invariant, PTL

(* However the walk ends, FREE_RESOURCES follows next to every node made.  *)
THEOREM NothingLeaked ==
  Spec => []NothingLeaks
<1>1. Inv => NothingLeaks
  BY DEF Inv, Ended, NothingLeaks
<1> QED
  BY <1>1, Invariant, PTL
=============================================================================
