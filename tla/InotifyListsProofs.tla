-------------------------- MODULE InotifyListsProofs --------------------------
(***************************************************************************)
(* Proofs about the two lists of the inotify code (InotifyLists), for any  *)
(* folders and files and any number of nodes: the types, that each list    *)
(* holds what its history says, and where freed memory is touched.         *)
(*                                                                         *)
(* Nothing in the state says which nodes a list holds; they are found by   *)
(* following pointers (Along). So the first parts show, for any links and  *)
(* labels, that a sequence of nodes in which each links to the one behind  *)
(* it is the one Along finds (Chained, Followed), and what a node linked   *)
(* behind the last, a node cut out and the removal of all nodes of a set   *)
(* (Among) make of it. The invariants are then about those sequences:      *)
(*   Shape       the types; links lead to nodes;                           *)
(*   WatchRight  the chain of watches has the labels of the history, each  *)
(*               node once and none of them freed;                         *)
(*   AddRight    one thread adds at a time, and the node its search        *)
(*               remembered is still the last;                             *)
(*   IgnoreRight the chain of ignored files, likewise, and next goes back  *)
(*               along it except behind a card file that was freed;        *)
(*   IgnoreInv   freed memory was touched only after such a gap, and       *)
(*               IgnoreRight holds until then.                             *)
(***************************************************************************)
EXTENDS InotifyLists, QueueLemmas, TLAPS

(* What Among returns: the elements at some places, in their order.        *)
Rising(f, m)  == \A i, j \in 1..m : i < j => f[i] < f[j]
Picks(s, S, f, m, k) ==
  /\ f \in [1..m -> 1..k] /\ Rising(f, m) /\ m <= k
  /\ \A i \in 1..k : s[i] \in S <=> \E j \in 1..m : f[j] = i

LEMMA AmongPicks ==
  ASSUME NEW T, NEW s \in Seq(T), NEW S
  PROVE  \E m \in Nat : \E f :
           Picks(s, S, f, m, Len(s)) /\ Among(s, S) = [j \in 1..m |-> s[f[j]]]
<1> DEFINE n == Len(s)
           Step(g, k) == IF k = 0 THEN <<>>
                         ELSE IF s[k] \in S THEN Append(g[k - 1], s[k]) ELSE g[k - 1]
           Upto(m, g) == g = [k \in 0..m |-> Step(g, k)]
           upto == CHOOSE g : g = [k \in 0..n |-> Step(g, k)]
           E == {m \in Nat : \E g : Upto(m, g)}
<1>n. n \in Nat /\ \A i \in 1..n : s[i] \in T
  OBVIOUS
<1>1. 0 \in E
  <2>1. Upto(0, [k \in 0..0 |-> <<>>])
    OBVIOUS
  <2> QED
    BY <2>1
<1>2. ASSUME NEW m \in Nat, m \in E PROVE m + 1 \in E
  <2>1. PICK g : Upto(m, g)
    BY <1>2
  <2> DEFINE h == [k \in 0..(m + 1) |-> Step(g, k)]
  <2>2. \A k \in 0..m : g[k] = h[k]
    <3>1. \A k \in 0..m : g[k] = Step(g, k)
      <4> HIDE DEF Step
      <4> QED
        BY <2>1
    <3>2. \A k \in 0..m : h[k] = Step(g, k)
      <4> HIDE DEF Step
      <4> QED
        OBVIOUS
    <3> HIDE DEF Step, h
    <3> QED
      BY <3>1, <3>2
  <2>3. \A k \in 0..(m + 1) : k = 0 \/ k - 1 \in 0..m
    OBVIOUS
  <2>4. \A k \in 0..(m + 1) : Step(g, k) = Step(h, k)
    <3> HIDE DEF h
    <3> QED
      BY <2>2, <2>3
  <2>5. Upto(m + 1, h)
    BY <2>4
  <2> HIDE DEF Upto, h
  <2> QED
    BY <2>5
<1>3. PICK g : Upto(n, g)
  <2> HIDE DEF E
  <2>1. \A m \in Nat : m \in E
    BY <1>1, <1>2, Induction
  <2>2. n <= n /\ n \in Nat
    BY <1>n
  <2> HIDE DEF Upto, n
  <2> QED
    BY <2>1, <2>2 DEF E
<1>4. upto = [k \in 0..n |-> Step(upto, k)]
  BY <1>3
<1>5. Among(s, S) = upto[n]
  BY DEF Among
<1>6. \A k \in 0..n : upto[k] = Step(upto, k)
  <2> HIDE DEF Step, upto
  <2> QED
    BY <1>4
<1> HIDE DEF upto
<1> DEFINE Is(k, m, f) == Picks(s, S, f, m, k) /\ upto[k] = [j \in 1..m |-> s[f[j]]]
           F == {k \in Nat : k <= n => \E m \in Nat : \E f : Is(k, m, f)}
<1> HIDE DEF n, Is
<1>7. 0 \in F
  <2>1. upto[0] = <<>>
    BY <1>n, <1>6
  <2>2. Is(0, 0, [j \in 1..0 |-> 0])
    BY <2>1 DEF Picks, Rising, Is
  <2> QED
    BY <2>2
<1>8. ASSUME NEW k \in Nat, k \in F PROVE k + 1 \in F
  <2> SUFFICES ASSUME k + 1 <= n PROVE \E m \in Nat : \E f : Is(k + 1, m, f)
    OBVIOUS
  <2>0. k <= n
    BY <1>n
  <2>1. \E m \in Nat : \E f : Is(k, m, f)
    BY <1>8, <2>0
  <2> PICK m \in Nat : \E f : Is(k, m, f)
    BY <2>1
  <2> PICK f : Is(k, m, f)
    OBVIOUS
  <2>2. upto[k + 1] = IF s[k + 1] \in S THEN Append(upto[k], s[k + 1]) ELSE upto[k]
    BY <1>6, <1>n
  <2>3. /\ f \in [1..m -> 1..k] /\ Rising(f, m) /\ m <= k
        /\ \A i \in 1..k : s[i] \in S <=> \E j \in 1..m : f[j] = i
        /\ upto[k] = [j \in 1..m |-> s[f[j]]]
    BY DEF Picks, Is
  <2>4. CASE s[k + 1] \notin S
    <3>1. f \in [1..m -> 1..(k + 1)] /\ m <= k + 1
      BY <2>3
    <3>2. ASSUME NEW i \in 1..(k + 1) PROVE s[i] \in S <=> \E j \in 1..m : f[j] = i
      <4>1. CASE i = k + 1
        <5>1. \A j \in 1..m : f[j] # k + 1
          BY <2>3
        <5> QED
          BY <2>4, <4>1, <5>1
      <4>2. CASE i # k + 1
        <5>1. i \in 1..k
          BY <4>2
        <5> QED
          BY <2>3, <5>1
      <4> QED
        BY <4>1, <4>2
    <3>3. Is(k + 1, m, f)
      BY <2>2, <2>3, <2>4, <3>1, <3>2 DEF Picks, Is
    <3> QED
      BY <3>3
  <2>5. CASE s[k + 1] \in S
    <3> DEFINE f2 == [j \in 1..(m + 1) |-> IF j = m + 1 THEN k + 1 ELSE f[j]]
    <3>1. /\ f2 \in [1..(m + 1) -> 1..(k + 1)] /\ m + 1 <= k + 1
          /\ f2[m + 1] = k + 1 /\ \A j \in 1..m : f2[j] = f[j] /\ f2[j] \in 1..k
      BY <2>3
    <3> HIDE DEF f2
    <3>2. Rising(f2, m + 1)
      <4> SUFFICES ASSUME NEW i \in 1..(m + 1), NEW j \in 1..(m + 1), i < j
                   PROVE  f2[i] < f2[j]
        BY DEF Rising
      <4>1. i \in 1..m
        OBVIOUS
      <4>2. CASE j = m + 1
        BY <3>1, <4>1, <4>2
      <4>3. CASE j # m + 1
        BY <2>3, <3>1, <4>1, <4>3 DEF Rising
      <4> QED
        BY <4>2, <4>3
    <3>3. ASSUME NEW i \in 1..(k + 1)
          PROVE  s[i] \in S <=> \E j \in 1..(m + 1) : f2[j] = i
      <4>1. CASE i = k + 1
        BY <2>5, <3>1, <4>1
      <4>2. CASE i # k + 1
        <5>1. i \in 1..k
          BY <4>2
        <5>2. \A j \in 1..(m + 1) : f2[j] = i => j \in 1..m
          BY <3>1, <4>2
        <5>3. (\E j \in 1..(m + 1) : f2[j] = i) <=> (\E j \in 1..m : f[j] = i)
          BY <3>1, <5>2
        <5> QED
          BY <2>3, <5>1, <5>3
      <4> QED
        BY <4>1, <4>2
    <3>4. upto[k + 1] = [j \in 1..(m + 1) |-> s[f2[j]]]
      <4> DEFINE old == [j \in 1..m |-> s[f[j]]]
      <4>1. \A j \in 1..m : s[f[j]] \in T
        BY <1>n, <2>3
      <4>2. old \in Seq(T) /\ Len(old) = m /\ \A j \in 1..m : old[j] = s[f[j]]
        BY <4>1
      <4>3. s[k + 1] \in T
        BY <1>n
      <4>4. upto[k + 1] = Append(old, s[k + 1])
        BY <2>2, <2>3, <2>5
      <4> HIDE DEF old
      <4>5. /\ upto[k + 1] \in Seq(T) /\ Len(upto[k + 1]) = m + 1
            /\ \A j \in 1..m : upto[k + 1][j] = old[j]
            /\ upto[k + 1][m + 1] = s[k + 1]
        BY <4>2, <4>3, <4>4
      <4>6. ASSUME NEW j \in 1..(m + 1) PROVE upto[k + 1][j] = s[f2[j]]
        <5>1. CASE j = m + 1
          BY <3>1, <4>5, <5>1
        <5>2. CASE j # m + 1
          <6>1. j \in 1..m
            BY <5>2
          <6> QED
            BY <3>1, <4>2, <4>5, <6>1
        <5> QED
          BY <5>1, <5>2
      <4> DEFINE q == upto[k + 1]
      <4> HIDE DEF q
      <4>7. q = [j \in 1..(m + 1) |-> q[j]]
        <5>1. q \in Seq(T) /\ Len(q) = m + 1
          BY <4>5 DEF q
        <5> QED
          BY ONLY <5>1
      <4> QED
        BY <4>6, <4>7 DEF q
    <3>5. Is(k + 1, m + 1, f2)
      BY <3>1, <3>2, <3>3, <3>4 DEF Picks, Is
    <3> QED
      BY <3>5
  <2> QED
    BY <2>4, <2>5
<1> HIDE DEF F
<1>9. \A k \in Nat : k \in F
  BY <1>7, <1>8, Induction
<1> QED
  <2>1. n \in Nat /\ n <= n /\ n \in F
    BY <1>9, <1>n
  <2>2. PICK m \in Nat : \E f : Is(n, m, f)
    BY <2>1 DEF F
  <2>3. PICK f : Is(n, m, f)
    BY <2>2
  <2> QED
    BY <1>5, <2>2, <2>3 DEF Is, n

(* Places in ascending order are determined by their set.                  *)
Places(f, m) == f \in [1..m -> Nat] /\ Rising(f, m)
Alike(f, m, g, n) ==
  \A i \in Nat : (\E j \in 1..m : f[j] = i) <=> (\E j \in 1..n : g[j] = i)

LEMMA SamePlaces ==
  ASSUME NEW m \in Nat, NEW n \in Nat, NEW f, NEW g,
         Places(f, m), Places(g, n), Alike(f, m, g, n)
  PROVE  m = n /\ \A j \in 1..m : f[j] = g[j]
<1> DEFINE E == {k \in Nat : \A j \in Nat : j <= k =>
                   (j \in 1..m <=> j \in 1..n) /\ (j \in 1..m => f[j] = g[j])}
<1>0. \A i \in Nat : (\E j \in 1..m : f[j] = i) <=> (\E j \in 1..n : g[j] = i)
  BY DEF Alike
<1>f. f \in [1..m -> Nat] /\ g \in [1..n -> Nat] /\ Rising(f, m) /\ Rising(g, n)
  BY DEF Places
<1>1. 0 \in E
  OBVIOUS
<1>2. ASSUME NEW k \in Nat, k \in E PROVE k + 1 \in E
  <2>0. \A j \in 1..k : (j \in 1..m <=> j \in 1..n) /\ (j \in 1..m => f[j] = g[j])
    BY <1>2
  <2> USE <1>f
  <2>1. ASSUME k + 1 \in 1..m PROVE k + 1 \in 1..n /\ g[k + 1] <= f[k + 1]
    <3>1. PICK j \in 1..n : g[j] = f[k + 1]
      BY <1>0, <2>1
    <3>2. j >= k + 1
      <4> SUFFICES ASSUME j \in 1..k PROVE FALSE
        BY <3>1
      <4>1. j \in 1..m /\ f[j] = g[j] /\ j < k + 1
        BY <2>0, <2>1
      <4>2. f[j] < f[k + 1]
        BY <2>1, <4>1 DEF Rising
      <4>3. f[k + 1] \in Nat
        BY <2>1
      <4> QED
        BY <3>1, <4>1, <4>2, <4>3
    <3>3. k + 1 \in 1..n
      BY <3>1, <3>2
    <3>4. k + 1 = j \/ g[k + 1] < g[j]
      BY <3>1, <3>2, <3>3 DEF Rising
    <3>5. g[k + 1] \in Nat /\ g[j] \in Nat
      BY <3>1, <3>3
    <3> QED
      BY <3>1, <3>3, <3>4, <3>5
  <2>2. ASSUME k + 1 \in 1..n PROVE k + 1 \in 1..m /\ f[k + 1] <= g[k + 1]
    <3>1. PICK j \in 1..m : f[j] = g[k + 1]
      BY <1>0, <2>2
    <3>2. j >= k + 1
      <4> SUFFICES ASSUME j \in 1..k PROVE FALSE
        BY <3>1
      <4>1. j \in 1..n /\ f[j] = g[j] /\ j < k + 1
        BY <2>0, <2>2
      <4>2. g[j] < g[k + 1]
        BY <2>2, <4>1 DEF Rising
      <4>3. g[k + 1] \in Nat
        BY <2>2
      <4> QED
        BY <3>1, <4>1, <4>2, <4>3
    <3>3. k + 1 \in 1..m
      BY <3>1, <3>2
    <3>4. k + 1 = j \/ f[k + 1] < f[j]
      BY <3>1, <3>2, <3>3 DEF Rising
    <3>5. f[k + 1] \in Nat /\ f[j] \in Nat
      BY <3>1, <3>3
    <3> QED
      BY <3>1, <3>3, <3>4, <3>5
  <2>3. k + 1 \in 1..m => f[k + 1] = g[k + 1]
    <3> SUFFICES ASSUME k + 1 \in 1..m PROVE f[k + 1] = g[k + 1]
      OBVIOUS
    <3>1. k + 1 \in 1..n /\ g[k + 1] <= f[k + 1] /\ f[k + 1] <= g[k + 1]
      BY <2>1, <2>2
    <3>2. f[k + 1] \in Nat /\ g[k + 1] \in Nat
      BY <3>1
    <3> QED
      BY <3>1, <3>2
  <2>4. \A j \in Nat : j <= k + 1 => j = 0 \/ j \in 1..k \/ j = k + 1
    OBVIOUS
  <2> QED
    BY <2>0, <2>1, <2>2, <2>3, <2>4
<1> HIDE DEF E
<1>3. \A k \in Nat : k \in E
  BY <1>1, <1>2, Induction
<1>4. \A k \in Nat : (k \in 1..m <=> k \in 1..n) /\ (k \in 1..m => f[k] = g[k])
  <2>1. \A k \in Nat : k <= k
    OBVIOUS
  <2> QED
    BY <1>3, <2>1 DEF E
<1>5. m = n
  <2>1. m = 0 \/ m \in 1..m
    OBVIOUS
  <2>2. n = 0 \/ n \in 1..n
    OBVIOUS
  <2> QED
    BY <1>4, <2>1, <2>2
<1> QED
  BY <1>4, <1>5

-----------------------------------------------------------------------------
(* A chain: the nodes s, linked from address a.                            *)
Closed(link) == link \in Seq(Nat) /\ \A b \in DOMAIN link : link[b] \in 0..Len(link)
Apart(s) == \A i, j \in DOMAIN s : s[i] = s[j] => i = j
Chained(link, a, s) ==
  /\ s \in Seq(DOMAIN link) /\ Len(s) <= Len(link) /\ Apart(s)
  /\ a = HeadOrNull(s)
  /\ \A i \in DOMAIN s : link[s[i]] = IF i < Len(s) THEN s[i + 1] ELSE NULL

(* Following the links, one more node at a time.                           *)
Onward(link, a, p) ==
  LET b == IF p = <<>> THEN a ELSE link[Last(p)]
  IN  IF b = NULL THEN p ELSE Append(p, b)

Trace(met, link, a) ==
  /\ Along(link, a) = met[Len(link)] /\ met[0] = <<>>
  /\ \A k \in 0..(Len(link) - 1) : met[k + 1] = Onward(link, a, met[k])

LEMMA Stepwise ==
  ASSUME NEW link, NEW a, Len(link) \in Nat
  PROVE  \E met : Trace(met, link, a)
<1> DEFINE n == Len(link)
           Further(p, b) == IF b = NULL THEN p ELSE Append(p, b)
           Step(g, k) == IF k = 0 THEN <<>>
                         ELSE Further(g[k - 1], IF g[k - 1] = <<>> THEN a
                                                ELSE link[Last(g[k - 1])])
           met == CHOOSE g : g = [k \in 0..n |-> Step(g, k)]
           Upto(i, g) == g = [k \in 0..i |-> Step(g, k)]
           E == {i \in Nat : \E g : Upto(i, g)}
<1>1. 0 \in E
  <2>1. Upto(0, [k \in 0..0 |-> <<>>])
    OBVIOUS
  <2> HIDE DEF Upto
  <2> QED
    BY <2>1
<1>2. ASSUME NEW i \in Nat, i \in E PROVE i + 1 \in E
  <2>1. PICK g : Upto(i, g)
    BY <1>2
  <2> DEFINE h == [k \in 0..(i + 1) |-> Step(g, k)]
  <2>2. \A k \in 0..i : g[k] = h[k]
    <3>1. \A k \in 0..i : g[k] = Step(g, k)
      <4> HIDE DEF Step
      <4> QED
        BY <2>1
    <3>2. \A k \in 0..i : h[k] = Step(g, k)
      <4> HIDE DEF Step
      <4> QED
        OBVIOUS
    <3> HIDE DEF Step, h
    <3> QED
      BY <3>1, <3>2
  <2>3. \A k \in 0..(i + 1) : k = 0 \/ k - 1 \in 0..i
    OBVIOUS
  <2>4. \A k \in 0..(i + 1) : Step(g, k) = Step(h, k)
    <3> HIDE DEF h, Further
    <3> QED
      BY <2>2, <2>3
  <2>5. Upto(i + 1, h)
    <3>1. h = [k \in 0..(i + 1) |-> Step(h, k)]
      <4> HIDE DEF Step
      <4> QED
        BY <2>4
    <3> QED
      BY <3>1
  <2> HIDE DEF Upto, h
  <2> QED
    BY <2>5
<1>3. PICK g : Upto(n, g)
  <2> HIDE DEF E
  <2>1. \A i \in Nat : i \in E
    BY <1>1, <1>2, Induction
  <2> HIDE DEF Upto, n
  <2>2. n \in Nat
    BY DEF n
  <2> QED
    BY <2>1, <2>2 DEF E
<1>4. met = [k \in 0..n |-> Step(met, k)]
  <2> HIDE DEF Step
  <2> QED
    BY <1>3
<1>5. Along(link, a) = met[n]
  BY DEF Along
<1>6. \A k \in 0..n : met[k] = Step(met, k)
  <2> HIDE DEF Step, met
  <2> QED
    BY <1>4
<1> HIDE DEF met, E, n
<1>7. n \in Nat
  BY DEF n
<1>8. met[0] = <<>>
  <2>1. 0 \in 0..n
    BY <1>7
  <2>2. met[0] = Step(met, 0)
    BY <1>6, <2>1
  <2> QED
    BY <2>2
<1>9. ASSUME NEW k \in 0..(n - 1) PROVE met[k + 1] = Onward(link, a, met[k])
  <2>1. k + 1 \in 0..n /\ (k + 1) - 1 = k /\ k + 1 # 0
    BY <1>7
  <2>2. met[k + 1] = Step(met, k + 1)
    BY <1>6, <2>1
  <2> QED
    BY <2>1, <2>2 DEF Onward
<1>10. Trace(met, link, a)
  BY <1>5, <1>8, <1>9 DEF n, Trace
<1> QED
  BY <1>10

(* Following the links along a chain gives its nodes.                      *)
LEMMA Followed ==
  ASSUME NEW link, NEW a, NEW s, Chained(link, a, s), Len(link) \in Nat
  PROVE  Along(link, a) = s
<1> DEFINE n == Len(link)
           m == Len(s)
<1>0. PICK met : Trace(met, link, a)
  BY Stepwise
<1>1. /\ Along(link, a) = met[n] /\ met[0] = <<>>
      /\ \A k \in 0..(n - 1) : met[k + 1] = Onward(link, a, met[k])
  BY <1>0 DEF Trace
<1>7. /\ m \in Nat /\ m <= n /\ n \in Nat /\ s \in Seq(DOMAIN link) /\ DOMAIN s = 1..m
      /\ a = IF m = 0 THEN NULL ELSE s[1]
      /\ \A i \in 1..m : link[s[i]] = IF i < m THEN s[i + 1] ELSE NULL
      /\ \A i \in 1..m : s[i] \in DOMAIN link /\ s[i] # NULL
  <2>1. m \in Nat /\ DOMAIN s = 1..m /\ s \in Seq(DOMAIN link) /\ DOMAIN link = 1..n
    BY DEF Chained
  <2>2. \A i \in 1..m : s[i] \in DOMAIN link /\ s[i] # NULL
    BY <2>1 DEF NULL
  <2>3. a = IF m = 0 THEN NULL ELSE s[1]
    BY <2>1 DEF Chained, HeadOrNull
  <2> QED
    BY <2>1, <2>2, <2>3 DEF Chained
<1> DEFINE Is(k) == Len(met[k]) = (IF k < m THEN k ELSE m) /\ met[k] \in Seq(DOMAIN link)
                    /\ \A i \in 1..Len(met[k]) : met[k][i] = s[i]
           F == {k \in Nat : k <= n => Is(k)}
<1> HIDE DEF n, m
<1>8. 0 \in F
  <2>1. met[0] = <<>>
    BY <1>1
  <2>2. 0 = (IF 0 < m THEN 0 ELSE m)
    BY <1>7
  <2>3. Len(<<>>) = 0 /\ <<>> \in Seq(DOMAIN link)
    OBVIOUS
  <2>4. \A i \in 1..0 : met[0][i] = s[i]
    OBVIOUS
  <2>5. Is(0)
    BY <2>1, <2>2, <2>3, <2>4
  <2> HIDE DEF Is
  <2> QED
    BY <2>5
<1>9. ASSUME NEW k \in Nat, k \in F PROVE k + 1 \in F
  <2> SUFFICES ASSUME k + 1 <= n PROVE Is(k + 1)
    OBVIOUS
  <2>0. k \in Nat /\ k <= n /\ k \in 0..(n - 1)
    BY <1>7
  <2> DEFINE p == met[k]
             b == IF p = <<>> THEN a ELSE link[Last(p)]
  <2>1. met[k + 1] = IF b = NULL THEN p ELSE Append(p, b)
    BY <1>1, <2>0 DEF Onward
  <2>2. /\ Len(p) = (IF k < m THEN k ELSE m) /\ p \in Seq(DOMAIN link)
        /\ \A i \in 1..Len(p) : p[i] = s[i]
    BY <1>9, <2>0
  <2> HIDE DEF p
  <2>3. CASE k < m
    <3>1. b = s[k + 1] /\ b \in DOMAIN link /\ b # NULL
      <4>1. CASE k = 0
        BY <1>7, <2>2, <2>3, <4>1
      <4>2. CASE k # 0
        <5>1. p # <<>> /\ Last(p) = s[k] /\ k \in 1..m /\ k + 1 \in 1..m
          BY <1>7, <2>0, <2>2, <2>3, <4>2 DEF Last
        <5> QED
          BY <1>7, <2>3, <5>1
      <4> QED
        BY <4>1, <4>2
    <3> HIDE DEF b
    <3>2. met[k + 1] = Append(p, b)
      BY <2>1, <3>1
    <3>3. /\ Append(p, b) \in Seq(DOMAIN link) /\ Len(Append(p, b)) = k + 1
          /\ \A i \in 1..k : Append(p, b)[i] = p[i]
          /\ Append(p, b)[k + 1] = b
      BY <2>2, <2>3, <3>1
    <3>4. \A i \in 1..(k + 1) : i \in 1..k \/ i = k + 1
      BY <2>0
    <3>5. k + 1 = (IF k + 1 < m THEN k + 1 ELSE m)
      BY <1>7, <2>3
    <3> QED
      BY <2>2, <2>3, <3>1, <3>2, <3>3, <3>4, <3>5
  <2>4. CASE ~(k < m)
    <3>1. b = NULL
      <4>1. CASE m = 0
        BY <1>7, <2>2, <2>4, <4>1
      <4>2. CASE m # 0
        <5>1. p # <<>> /\ Last(p) = s[m] /\ m \in 1..m /\ ~(m < m)
          BY <1>7, <2>0, <2>2, <2>4, <4>2 DEF Last
        <5> QED
          BY <1>7, <5>1
      <4> QED
        BY <4>1, <4>2
    <3> HIDE DEF b
    <3>2. met[k + 1] = p /\ m = (IF k + 1 < m THEN k + 1 ELSE m)
      BY <1>7, <2>0, <2>1, <2>4, <3>1
    <3> QED
      BY <2>2, <2>4, <3>2
  <2> QED
    BY <2>3, <2>4
<1> HIDE DEF F
<1>10. \A k \in Nat : k \in F
  BY <1>8, <1>9, Induction
<1>11. Is(n)
  <2>1. n \in Nat /\ n <= n /\ n \in F
    BY <1>7, <1>10
  <2> HIDE DEF Is
  <2> QED
    BY ONLY <2>1 DEF F
<1>12. Len(met[n]) = m
  BY <1>7, <1>11
<1> DEFINE q == met[n]
<1>13. /\ q \in Seq(DOMAIN link) /\ Len(q) = m /\ \A i \in 1..m : q[i] = s[i]
       /\ s \in Seq(DOMAIN link) /\ Len(s) = m
  BY <1>7, <1>11, <1>12 DEF m
<1> HIDE DEF q
<1>14. q = s
  BY <1>13
<1> QED
  BY <1>1, <1>14 DEF q

-----------------------------------------------------------------------------
(* Among, once the places are known, and for two sequences at once: the    *)
(* nodes and what is written in them, in the same order or in the other.   *)
LEMMA Picked ==
  ASSUME NEW T, NEW s \in Seq(T), NEW S, NEW m \in Nat, NEW f, Picks(s, S, f, m, Len(s))
  PROVE  /\ Among(s, S) \in Seq(T) /\ Len(Among(s, S)) = m
         /\ \A j \in 1..m : Among(s, S)[j] = s[f[j]]
<1> DEFINE n == Len(s)
<1>n. n \in Nat /\ \A i \in 1..n : s[i] \in T
  OBVIOUS
<1> HIDE DEF n
<1>1. PICK k \in Nat : \E g : Picks(s, S, g, k, n) /\ Among(s, S) = [j \in 1..k |-> s[g[j]]]
  BY AmongPicks DEF n
<1>2. PICK g : Picks(s, S, g, k, n) /\ Among(s, S) = [j \in 1..k |-> s[g[j]]]
  BY <1>1
<1>3. /\ f \in [1..m -> 1..n] /\ g \in [1..k -> 1..n] /\ Rising(f, m) /\ Rising(g, k)
      /\ \A i \in 1..n : s[i] \in S <=> \E j \in 1..m : f[j] = i
      /\ \A i \in 1..n : s[i] \in S <=> \E j \in 1..k : g[j] = i
  BY <1>2 DEF Picks, n
<1>4. m = k /\ \A j \in 1..m : f[j] = g[j]
  <2>1. f \in [1..m -> Nat] /\ g \in [1..k -> Nat]
    BY <1>n, <1>3
  <2>2. ASSUME NEW i \in Nat PROVE (\E j \in 1..m : f[j] = i) <=> (\E j \in 1..k : g[j] = i)
    <3>1. \A j \in 1..m : f[j] \in 1..n
      BY <1>3
    <3>2. \A j \in 1..k : g[j] \in 1..n
      BY <1>3
    <3> QED
      BY <1>3, <3>1, <3>2
  <2>3. m \in Nat /\ k \in Nat /\ Places(f, m) /\ Places(g, k)
    BY <1>3, <2>1 DEF Places
  <2>4. Alike(f, m, g, k)
    BY <2>2 DEF Alike
  <2> QED
    BY ONLY <2>3, <2>4, SamePlaces
<1>5. \A j \in 1..m : s[f[j]] \in T
  BY <1>n, <1>3
<1>6. Among(s, S) = [j \in 1..m |-> s[f[j]]]
  BY <1>2, <1>4
<1> QED
  BY <1>5, <1>6

LEMMA PickedNodes ==
  ASSUME NEW T, NEW s \in Seq(T), NEW S, Apart(s)
  PROVE  /\ Among(s, S) \in Seq(T) /\ Len(Among(s, S)) \in Nat /\ Len(Among(s, S)) <= Len(s)
         /\ Apart(Among(s, S))
         /\ ToSet(Among(s, S)) = ToSet(s) \cap S
<1> DEFINE n == Len(s)
           k == Among(s, S)
<1>n. n \in Nat /\ DOMAIN s = 1..n
  OBVIOUS
<1>1. PICK m \in Nat : \E f : Picks(s, S, f, m, n)
  BY AmongPicks
<1>2. PICK f : Picks(s, S, f, m, n)
  BY <1>1
<1>3. k \in Seq(T) /\ Len(k) = m /\ \A j \in 1..m : k[j] = s[f[j]]
  BY <1>2, Picked
<1> HIDE DEF k, n
<1>4. /\ f \in [1..m -> 1..n] /\ m <= n /\ \A i, j \in 1..m : i < j => f[i] < f[j]
      /\ \A i \in 1..n : s[i] \in S <=> \E j \in 1..m : f[j] = i
  BY <1>2 DEF Picks, Rising
<1>5. DOMAIN k = 1..m
  BY <1>3
<1>6. Apart(k)
  <2> SUFFICES ASSUME NEW i \in 1..m, NEW j \in 1..m, k[i] = k[j] PROVE i = j
    BY <1>5 DEF Apart
  <2>1. f[i] \in 1..n /\ f[j] \in 1..n
    BY <1>4
  <2>2. f[i] = f[j]
    BY <1>n, <1>3, <2>1 DEF Apart
  <2>3. ~(i < j) /\ ~(j < i)
    BY <1>4, <2>1, <2>2, <1>n
  <2> QED
    BY <2>3
<1>7. ToSet(k) = ToSet(s) \cap S
  <2>1. ASSUME NEW j \in 1..m PROVE k[j] \in ToSet(s) /\ k[j] \in S
    <3>1. f[j] \in 1..n
      BY <1>4
    <3>2. s[f[j]] \in S
      BY <1>4, <3>1
    <3> QED
      BY <1>n, <1>3, <3>1, <3>2 DEF ToSet
  <2>2. ASSUME NEW i \in 1..n, s[i] \in S PROVE s[i] \in ToSet(k)
    <3>1. PICK j \in 1..m : f[j] = i
      BY <1>4, <2>2
    <3>2. j \in DOMAIN k /\ k[j] = s[i]
      BY <1>3, <1>5, <3>1
    <3> QED
      BY ONLY <3>2 DEF ToSet
  <2> QED
    BY <1>n, <1>5, <2>1, <2>2 DEF ToSet
<1> QED
  BY <1>3, <1>4, <1>6, <1>7 DEF k, n

(* The names along a sequence of nodes.                                    *)
Named(s, label) == [i \in DOMAIN s |-> label[s[i]]]
Matches(s, K, w, S) == \A i \in DOMAIN s : s[i] \in K <=> w[i] \in S

LEMMA PickedNames ==
  ASSUME NEW T, NEW s \in Seq(T), NEW K, NEW U, NEW w \in Seq(U), NEW S, NEW label,
         w = Named(s, label), Matches(s, K, w, S)
  PROVE  Among(w, S) = Named(Among(s, K), label)
<1> DEFINE n == Len(s)
           k == Among(s, K)
           v == Among(w, S)
<1>n. /\ n \in Nat /\ DOMAIN s = 1..n /\ Len(w) = n /\ w = [i \in DOMAIN s |-> label[s[i]]]
      /\ \A i \in DOMAIN s : s[i] \in K <=> w[i] \in S
  BY DEF Named, Matches
<1>1. PICK m \in Nat : \E f : Picks(s, K, f, m, n)
  BY AmongPicks
<1>2. PICK f : Picks(s, K, f, m, n)
  BY <1>1
<1>3. Picks(w, S, f, m, n)
  BY <1>n, <1>2 DEF Picks
<1>4. k \in Seq(T) /\ Len(k) = m /\ \A j \in 1..m : k[j] = s[f[j]]
  BY <1>2, Picked
<1>5. v \in Seq(U) /\ Len(v) = m /\ \A j \in 1..m : v[j] = w[f[j]]
  <2>1. Picks(w, S, f, m, Len(w))
    BY <1>n, <1>3
  <2> QED
    BY ONLY <2>1, w \in Seq(U), m \in Nat, Picked
<1>6. \A j \in 1..m : f[j] \in DOMAIN s /\ w[f[j]] = label[s[f[j]]]
  BY <1>n, <1>2 DEF Picks
<1> HIDE DEF k, v, n
<1>7. DOMAIN k = 1..m /\ v = [j \in 1..m |-> v[j]]
  BY <1>4, <1>5
<1>8. \A j \in 1..m : v[j] = label[k[j]]
  BY <1>4, <1>5, <1>6
<1> QED
  BY <1>7, <1>8 DEF k, v, Named

LEMMA PickedReversed ==
  ASSUME NEW T, NEW s \in Seq(T), NEW S
  PROVE  Among(Reverse(s), S) = Reverse(Among(s, S))
<1> DEFINE n == Len(s)
           r == Reverse(s)
           k == Among(s, S)
           v == Among(r, S)
<1>n. n \in Nat /\ DOMAIN s = 1..n /\ \A i \in 1..n : s[i] \in T
  OBVIOUS
<1>r. r \in Seq(T) /\ Len(r) = n /\ \A i \in 1..n : r[i] = s[(n - i) + 1]
  <2>1. r = [i \in 1..n |-> s[(n - i) + 1]]
    BY DEF Reverse
  <2>2. \A i \in 1..n : (n - i) + 1 \in 1..n
    BY <1>n
  <2> HIDE DEF r, n
  <2> QED
    BY <1>n, <2>1, <2>2
<1>1. PICK m \in Nat : \E f : Picks(s, S, f, m, n)
  BY AmongPicks
<1>2. PICK f : Picks(s, S, f, m, n)
  BY <1>1
<1>4. k \in Seq(T) /\ Len(k) = m /\ \A j \in 1..m : k[j] = s[f[j]]
  BY <1>2, Picked
<1> DEFINE g == [j \in 1..m |-> (n - f[(m - j) + 1]) + 1]
<1> HIDE DEF n, r, k
<1>5. /\ f \in [1..m -> 1..n] /\ m <= n /\ Rising(f, m)
      /\ \A i \in 1..n : s[i] \in S <=> \E j \in 1..m : f[j] = i
  BY <1>2 DEF Picks
<1>6. \A j \in 1..m : /\ (m - j) + 1 \in 1..m /\ f[(m - j) + 1] \in 1..n
                      /\ (m - ((m - j) + 1)) + 1 = j
                      /\ g[j] = (n - f[(m - j) + 1]) + 1 /\ g[j] \in 1..n
                      /\ (n - g[j]) + 1 = f[(m - j) + 1]
  <2> SUFFICES ASSUME NEW j \in 1..m
               PROVE  /\ (m - j) + 1 \in 1..m /\ f[(m - j) + 1] \in 1..n
                      /\ (m - ((m - j) + 1)) + 1 = j
                      /\ g[j] = (n - f[(m - j) + 1]) + 1 /\ g[j] \in 1..n
                      /\ (n - g[j]) + 1 = f[(m - j) + 1]
    OBVIOUS
  <2>1. (m - j) + 1 \in 1..m /\ (m - ((m - j) + 1)) + 1 = j
    OBVIOUS
  <2>2. f[(m - j) + 1] \in 1..n
    BY <1>5, <2>1
  <2>3. g[j] = (n - f[(m - j) + 1]) + 1
    OBVIOUS
  <2> HIDE DEF g
  <2> QED
    BY <1>n, <2>1, <2>2, <2>3
<1>7. g \in [1..m -> 1..n]
  BY <1>6
<1> HIDE DEF g
<1>8. Rising(g, m)
  <2> SUFFICES ASSUME NEW i \in 1..m, NEW j \in 1..m, i < j PROVE g[i] < g[j]
    BY DEF Rising
  <2>1. (m - j) + 1 < (m - i) + 1
    OBVIOUS
  <2>2. f[(m - j) + 1] < f[(m - i) + 1]
    BY <1>5, <1>6, <2>1 DEF Rising
  <2> QED
    BY <1>n, <1>6, <2>2
<1>9. ASSUME NEW i \in 1..n PROVE r[i] \in S <=> \E j \in 1..m : g[j] = i
  <2>1. (n - i) + 1 \in 1..n /\ r[i] = s[(n - i) + 1]
    BY <1>n, <1>r
  <2>2. r[i] \in S <=> \E j \in 1..m : f[j] = (n - i) + 1
    BY <1>5, <2>1
  <2>3. ASSUME NEW j \in 1..m, f[j] = (n - i) + 1 PROVE (m - j) + 1 \in 1..m /\ g[(m - j) + 1] = i
    BY <1>n, <1>6, <2>3
  <2>4. ASSUME NEW j \in 1..m, g[j] = i PROVE (m - j) + 1 \in 1..m /\ f[(m - j) + 1] = (n - i) + 1
    BY <1>6, <2>4
  <2> QED
    BY <2>2, <2>3, <2>4
<1>10. v \in Seq(T) /\ Len(v) = m /\ \A j \in 1..m : v[j] = r[g[j]]
  <2>1. Picks(r, S, g, m, Len(r))
    BY <1>5, <1>7, <1>8, <1>9, <1>r DEF Picks
  <2> QED
    BY <1>r, <2>1, Picked
<1> HIDE DEF v
<1>11. \A j \in 1..m : v[j] = k[(m - j) + 1]
  <2> SUFFICES ASSUME NEW j \in 1..m PROVE v[j] = k[(m - j) + 1]
    OBVIOUS
  <2>1. r[g[j]] = s[(n - g[j]) + 1]
    BY <1>6, <1>r
  <2> QED
    BY <1>4, <1>6, <1>10, <2>1
<1>12. v = [j \in 1..m |-> v[j]]
  BY <1>10
<1>13. v = [j \in 1..m |-> k[(m - j) + 1]]
  BY <1>11, <1>12
<1> QED
  BY <1>4, <1>13 DEF v, k, r, Reverse

(* A search returns the first node with the name, or NULL.                 *)
LEMMA Found ==
  ASSUME NEW T, NEW s \in Seq(T), NEW label, NEW x
  PROVE  \/ FoundIn(s, label, x) = NULL /\ \A i \in 1..Len(s) : label[s[i]] # x
         \/ \E i \in 1..Len(s) : /\ FoundIn(s, label, x) = s[i] /\ label[s[i]] = x
                                 /\ \A j \in 1..(i - 1) : label[s[j]] # x
<1> DEFINE n == Len(s)
           S == {b \in ToSet(s) : label[b] = x}
           k == Among(s, S)
<1>n. n \in Nat /\ DOMAIN s = 1..n /\ FoundIn(s, label, x) = HeadOrNull(k)
  BY DEF FoundIn
<1>1. \A i \in 1..n : s[i] \in S <=> label[s[i]] = x
  BY <1>n DEF ToSet
<1> HIDE DEF S
<1>2. PICK m \in Nat : \E f : Picks(s, S, f, m, n)
  BY AmongPicks
<1>3. PICK f : Picks(s, S, f, m, n)
  BY <1>2
<1>4. k \in Seq(T) /\ Len(k) = m /\ \A j \in 1..m : k[j] = s[f[j]]
  BY <1>3, Picked
<1> HIDE DEF n, S, k
<1>5. /\ f \in [1..m -> 1..n] /\ \A i, j \in 1..m : i < j => f[i] < f[j]
      /\ \A i \in 1..n : label[s[i]] = x <=> \E j \in 1..m : f[j] = i
  BY <1>1, <1>3 DEF Picks, Rising
<1>6. CASE m = 0
  <2>1. HeadOrNull(k) = NULL
    BY <1>4, <1>6 DEF HeadOrNull
  <2>2. \A i \in 1..n : label[s[i]] # x
    BY <1>5, <1>6
  <2> QED
    BY <1>n, <2>1, <2>2 DEF n
<1>7. CASE m # 0
  <2>1. 1 \in 1..m /\ f[1] \in 1..n
    BY <1>5, <1>7
  <2>2. HeadOrNull(k) = s[f[1]]
    <3>1. k # <<>> /\ Head(k) = k[1]
      BY <1>4, <1>7
    <3> QED
      BY <1>4, <2>1, <3>1 DEF HeadOrNull
  <2>3. label[s[f[1]]] = x
    BY <1>5, <2>1
  <2>4. ASSUME NEW j \in 1..(f[1] - 1), label[s[j]] = x PROVE FALSE
    <3>1. j \in 1..n /\ j < f[1] /\ f[1] \in Nat
      BY <1>n, <2>1
    <3>2. PICK l \in 1..m : f[l] = j
      BY <1>5, <2>4, <3>1
    <3>3. l = 1 \/ f[1] < f[l]
      BY <1>5, <2>1, <3>2
    <3> QED
      BY <3>1, <3>2, <3>3
  <2> QED
    BY <1>n, <2>1, <2>2, <2>3, <2>4 DEF n
<1> QED
  BY <1>6, <1>7

-----------------------------------------------------------------------------
(* A sequence without the element at place i.                              *)
Without(s, i) == [k \in 1..(Len(s) - 1) |-> IF k < i THEN s[k] ELSE s[k + 1]]

LEMMA Withoutness ==
  ASSUME NEW T, NEW s \in Seq(T), NEW i \in 1..Len(s)
  PROVE  /\ Without(s, i) \in Seq(T) /\ Len(Without(s, i)) = Len(s) - 1
         /\ \A k \in 1..(Len(s) - 1) : Without(s, i)[k] = IF k < i THEN s[k] ELSE s[k + 1]
<1> DEFINE n == Len(s)
           w == Without(s, i)
<1>1. n \in Nat \ {0} /\ \A k \in 1..n : s[k] \in T
  OBVIOUS
<1>2. w = [k \in 1..(n - 1) |-> IF k < i THEN s[k] ELSE s[k + 1]]
  BY DEF Without
<1> HIDE DEF n, w
<1>3. \A k \in 1..(n - 1) : k \in 1..n /\ k + 1 \in 1..n
  BY <1>1
<1>4. n - 1 \in Nat
  BY <1>1
<1>5. \A k \in 1..(n - 1) : w[k] = (IF k < i THEN s[k] ELSE s[k + 1]) /\ w[k] \in T
  BY <1>1, <1>2, <1>3
<1>6. w = [k \in 1..(n - 1) |-> w[k]]
  BY <1>2
<1>7. w \in Seq(T) /\ Len(w) = n - 1
  BY ONLY <1>4, <1>5, <1>6
<1> QED
  BY <1>5, <1>7 DEF n, w

LEMMA RemovedFirst ==
  ASSUME NEW T, NEW s \in Seq(T), NEW x
  PROVE  /\ RemoveFirst(s, x) \in Seq(T)
         /\ (\A i \in 1..Len(s) : s[i] # x) => RemoveFirst(s, x) = s
         /\ \A i \in 1..Len(s) : s[i] = x /\ (\A j \in 1..(i - 1) : s[j] # x)
               => RemoveFirst(s, x) = Without(s, i)
<1>1. (\A i \in 1..Len(s) : s[i] # x) => RemoveFirst(s, x) = s
  BY DEF RemoveFirst
<1> DEFINE I == {i \in 1..Len(s) : s[i] = x}
<1>2. ASSUME I # {} PROVE RemoveFirst(s, x) = RemoveAt(s, Min(I))
  BY <1>2, Zenon DEF RemoveFirst, SelectInSeq
<1>3. ASSUME NEW i \in 1..Len(s) PROVE RemoveAt(s, i) = Without(s, i)
  BY Removed DEF RemoveAt, Without
<1>4. ASSUME NEW i \in I, \A j \in I : i <= j PROVE Min(I) = i
  BY <1>4 DEF Min
<1>5. ASSUME NEW i \in 1..Len(s), s[i] = x, \A j \in 1..(i - 1) : s[j] # x
      PROVE  RemoveFirst(s, x) = Without(s, i)
  <2>1. i \in I /\ \A j \in I : i <= j
    BY <1>5
  <2> HIDE DEF I
  <2> QED
    BY <1>2, <1>3, <1>4, <2>1
<1>6. RemoveFirst(s, x) \in Seq(T)
  <2>1. CASE I = {}
    BY <1>1, <2>1
  <2>2. CASE I # {}
    <3>1. I \subseteq Nat
      OBVIOUS
    <3>2. PICK i \in I : \A j \in I : i <= j
      BY <2>2, <3>1, Least
    <3>3. RemoveFirst(s, x) = Without(s, i) /\ i \in 1..Len(s)
      <4>1. i \in 1..Len(s)
        OBVIOUS
      <4> HIDE DEF I
      <4> QED
        BY <1>2, <1>3, <1>4, <2>2, <3>2, <4>1
    <3> QED
      BY <3>3, Withoutness
  <2> QED
    BY <2>1, <2>2
<1> QED
  BY <1>1, <1>5, <1>6

(* A node is taken out of a chain: the link to it moves behind it.         *)
LEMMA Cut ==
  ASSUME NEW link, NEW a, NEW s, Chained(link, a, s), NEW i \in 1..Len(s),
         NEW link2, NEW a2, Len(link) \in Nat, DOMAIN link2 = DOMAIN link,
         Len(link2) = Len(link),
         \A j \in 1..Len(s) : j # i =>
            link2[s[j]] = IF j = i - 1 THEN link[s[i]] ELSE link[s[j]],
         a2 = IF i = 1 THEN link[s[1]] ELSE a
  PROVE  Chained(link2, a2, Without(s, i))
<1> DEFINE n == Len(s)
           T == DOMAIN link
           w == Without(s, i)
<1>1. /\ s \in Seq(T) /\ n \in Nat \ {0} /\ n <= Len(link) /\ DOMAIN s = 1..n
      /\ \A j, k \in 1..n : s[j] = s[k] => j = k
      /\ a = s[1] /\ \A j \in 1..n : link[s[j]] = IF j < n THEN s[j + 1] ELSE NULL
  <2>1. s \in Seq(T) /\ n \in Nat \ {0} /\ n <= Len(link) /\ DOMAIN s = 1..n
    BY DEF Chained
  <2>2. s # <<>> /\ Head(s) = s[1]
    BY <2>1
  <2> QED
    BY <2>1, <2>2 DEF Chained, Apart, HeadOrNull
<1> HIDE DEF T
<1>2. /\ w \in Seq(T) /\ Len(w) = n - 1
      /\ \A k \in 1..(n - 1) : w[k] = IF k < i THEN s[k] ELSE s[k + 1]
  <2>1. s \in Seq(T) /\ i \in 1..Len(s)
    BY <1>1
  <2> QED
    BY ONLY <2>1, Withoutness
<1>3. DOMAIN w = 1..(n - 1)
  BY <1>2
<1> HIDE DEF w, n, T
<1>i. i \in 1..n
  BY DEF n
<1>4. Apart(w)
  <2> SUFFICES ASSUME NEW j \in 1..(n - 1), NEW k \in 1..(n - 1), w[j] = w[k] PROVE j = k
    BY <1>3 DEF Apart
  <2>1. j \in 1..n /\ k \in 1..n /\ j + 1 \in 1..n /\ k + 1 \in 1..n
    BY <1>1
  <2>2. (IF j < i THEN s[j] ELSE s[j + 1]) = (IF k < i THEN s[k] ELSE s[k + 1])
    BY <1>2
  <2> QED
    BY <1>1, <1>i, <2>1, <2>2
<1>5. a2 = HeadOrNull(w)
  <2>1. CASE n = 1
    <3>1. i = 1 /\ w = <<>>
      BY <1>i, <1>2, <2>1
    <3>2. a2 = NULL
      BY <1>1, <1>i, <2>1, <3>1
    <3> QED
      BY <3>1, <3>2 DEF HeadOrNull
  <2>2. CASE n # 1
    <3>1. 1 \in 1..(n - 1) /\ 1 \in 1..n /\ 1 < n
      BY <1>1, <2>2
    <3>2. w # <<>> /\ Head(w) = w[1]
      BY <1>2, <3>1
    <3>3. w[1] = IF 1 < i THEN s[1] ELSE s[2]
      BY <1>2, <3>1
    <3>4. a2 = IF 1 < i THEN s[1] ELSE s[2]
      BY <1>1, <1>i, <3>1
    <3> QED
      BY <3>2, <3>3, <3>4 DEF HeadOrNull
  <2> QED
    BY <2>1, <2>2
<1>6. ASSUME NEW k \in 1..(n - 1)
      PROVE  link2[w[k]] = IF k < n - 1 THEN w[k + 1] ELSE NULL
  <2>0. k \in 1..n /\ k + 1 \in 1..n
    BY <1>1
  <2>1. CASE k < i - 1
    <3>1. w[k] = s[k] /\ w[k + 1] = s[k + 1] /\ k < n - 1
      <4>1. k < i /\ k + 1 < i /\ k < n - 1 /\ k + 1 \in 1..(n - 1)
        BY <1>1, <1>i, <2>1
      <4> QED
        BY <1>2, <4>1
    <3>2. link2[s[k]] = link[s[k]]
      BY <2>0, <2>1, <1>i DEF n
    <3> QED
      BY <1>1, <2>0, <3>1, <3>2
  <2>2. CASE k = i - 1
    <3>1. w[k] = s[k] /\ link2[s[k]] = link[s[i]]
      <4>1. k < i /\ k # i /\ k \in 1..Len(s)
        BY <1>i, <2>0, <2>2 DEF n
      <4>2. link2[s[k]] = link[s[i]]
        BY <2>2, <4>1
      <4> QED
        BY <1>2, <4>1, <4>2
    <3>2. link[s[i]] = IF i < n THEN s[i + 1] ELSE NULL
      BY <1>1, <1>i
    <3>3. k < n - 1 => w[k + 1] = s[i + 1]
      BY <1>2, <1>i, <2>2
    <3> QED
      BY <1>1, <1>i, <2>2, <3>1, <3>2, <3>3
  <2>3. CASE k >= i
    <3>1. w[k] = s[k + 1] /\ link2[s[k + 1]] = link[s[k + 1]]
      BY <1>2, <1>i, <2>0, <2>3 DEF n
    <3>2. link[s[k + 1]] = IF k + 1 < n THEN s[k + 2] ELSE NULL
      BY <1>1, <2>0
    <3>3. k < n - 1 => w[k + 1] = s[k + 2]
      BY <1>1, <1>2, <1>i, <2>3
    <3> QED
      BY <1>1, <3>1, <3>2, <3>3
  <2> QED
    BY <1>i, <2>1, <2>2, <2>3
<1>7. T = DOMAIN link2 /\ Len(w) <= Len(link2)
  BY <1>1, <1>2 DEF T
<1> QED
  BY <1>2, <1>3, <1>4, <1>5, <1>6, <1>7 DEF Chained, w

(* Relinked makes a chain of the nodes that are kept.                      *)
LEMMA Kept ==
  ASSUME NEW link, NEW s \in Seq(DOMAIN link), Apart(s), Len(link) \in Nat,
         Len(s) <= Len(link), link \in Seq(Nat)
  PROVE  /\ Chained(Relinked(link, s), HeadOrNull(s), s)
         /\ DOMAIN Relinked(link, s) = DOMAIN link /\ Len(Relinked(link, s)) = Len(link)
<1> DEFINE n == Len(s)
           r == Relinked(link, s)
           At(b) == CHOOSE j \in DOMAIN s : s[j] = b
<1>1. n \in Nat /\ DOMAIN s = 1..n /\ \A i \in 1..n : s[i] \in DOMAIN link
  OBVIOUS
<1>2. r = [b \in DOMAIN link |-> IF b \notin ToSet(s) THEN link[b]
                                 ELSE IF At(b) = n THEN NULL ELSE s[At(b) + 1]]
  BY DEF Relinked
<1>3. \A i \in 1..n : At(s[i]) = i
  BY <1>1 DEF Apart
<1>4. \A i \in 1..n : s[i] \in ToSet(s)
  BY <1>1 DEF ToSet
<1> HIDE DEF n, r, At
<1>5. ASSUME NEW i \in 1..n PROVE r[s[i]] = IF i < n THEN s[i + 1] ELSE NULL
  <2>1. s[i] \in DOMAIN link /\ s[i] \in ToSet(s) /\ At(s[i]) = i
    BY <1>1, <1>3, <1>4
  <2>2. r[s[i]] = IF i = n THEN NULL ELSE s[i + 1]
    BY <1>2, <2>1
  <2> QED
    BY <1>1, <2>2
<1>6. DOMAIN r = DOMAIN link /\ Len(r) = Len(link)
  <2>1. DOMAIN r = DOMAIN link
    BY <1>2
  <2>2. DOMAIN r = 1..Len(link)
    BY <2>1
  <2>3. r = [b \in 1..Len(link) |-> r[b]]
    BY <1>2, <2>2
  <2> QED
    BY <2>1, <2>3
<1> QED
  BY <1>1, <1>5, <1>6 DEF Chained, n, r

(* What is known of a chain, place by place.                               *)
LEMMA ChainedPlaces ==
  ASSUME NEW link, NEW a, NEW s, Chained(link, a, s)
  PROVE  /\ s \in Seq(DOMAIN link) /\ Len(s) \in Nat /\ DOMAIN s = 1..Len(s)
         /\ Len(s) <= Len(link)
         /\ \A i \in 1..Len(s) : s[i] \in DOMAIN link
         /\ \A i, j \in 1..Len(s) : s[i] = s[j] => i = j
         /\ a = IF Len(s) = 0 THEN NULL ELSE s[1]
         /\ \A i \in 1..Len(s) : link[s[i]] = IF i < Len(s) THEN s[i + 1] ELSE NULL
<1>1. /\ s \in Seq(DOMAIN link) /\ Len(s) \in Nat /\ DOMAIN s = 1..Len(s)
      /\ Len(s) <= Len(link) /\ \A i \in 1..Len(s) : s[i] \in DOMAIN link
  BY DEF Chained
<1>2. IF Len(s) = 0 THEN s = <<>> ELSE s # <<>> /\ Head(s) = s[1]
  BY <1>1
<1> QED
  BY <1>1, <1>2 DEF Chained, Apart, HeadOrNull

(* A new node, the last of all, is linked behind the last of the chain.    *)
Behind(link, s, link2, e) ==
  \A j \in 1..Len(s) : link2[s[j]] = IF j = Len(s) THEN e ELSE link[s[j]]

LEMMA Longer ==
  ASSUME NEW n \in Nat, NEW link, NEW a, NEW s, Chained(link, a, s),
         NEW link2, NEW a2, DOMAIN link = 1..n, Len(link) = n,
         DOMAIN link2 = 1..(n + 1), Len(link2) = n + 1, link2[n + 1] = NULL,
         Behind(link, s, link2, n + 1),
         a2 = IF a = NULL THEN n + 1 ELSE a
  PROVE  Chained(link2, a2, Append(s, n + 1))
<1> DEFINE m == Len(s)
           t == Append(s, n + 1)
           T == 1..(n + 1)
<1>1. /\ s \in Seq(1..n) /\ m \in Nat /\ m <= n /\ \A i \in 1..m : s[i] \in 1..n
      /\ \A i, j \in 1..m : s[i] = s[j] => i = j
      /\ a = IF m = 0 THEN NULL ELSE s[1]
      /\ \A i \in 1..m : link[s[i]] = IF i < m THEN s[i + 1] ELSE NULL
  BY ChainedPlaces
<1>b. \A j \in 1..m : link2[s[j]] = IF j = m THEN n + 1 ELSE link[s[j]]
  BY DEF Behind
<1>2. /\ t \in Seq(T) /\ Len(t) = m + 1 /\ DOMAIN t = 1..(m + 1)
      /\ t[m + 1] = n + 1 /\ \A i \in 1..m : t[i] = s[i]
  <2>1. s \in Seq(T) /\ n + 1 \in T
    BY <1>1
  <2> HIDE DEF T
  <2> QED
    BY <2>1
<1>3. t # <<>> /\ Head(t) = t[1] /\ t[m + 1] = n + 1
  BY <1>1, <1>2
<1> HIDE DEF t, m
<1>4. Apart(t)
  <2> SUFFICES ASSUME NEW i \in 1..(m + 1), NEW j \in 1..(m + 1), t[i] = t[j] PROVE i = j
    BY <1>2 DEF Apart
  <2>1. i \in 1..m \/ i = m + 1
    BY <1>1
  <2>2. j \in 1..m \/ j = m + 1
    BY <1>1
  <2>3. ASSUME NEW k \in 1..m PROVE t[k] # n + 1
    <3>1. t[k] = s[k] /\ s[k] \in 1..n
      BY <1>1, <1>2
    <3> QED
      BY <3>1
  <2> QED
    BY <1>1, <1>2, <2>1, <2>2, <2>3
<1>5. a2 = HeadOrNull(t)
  <2>1. CASE m = 0
    BY <1>1, <1>3, <2>1 DEF HeadOrNull
  <2>2. CASE m # 0
    <3>1. 1 \in 1..m /\ s[1] # NULL
      BY <1>1, <2>2 DEF NULL
    <3> QED
      BY <1>1, <1>2, <1>3, <2>2, <3>1 DEF HeadOrNull
  <2> QED
    BY <2>1, <2>2
<1>6. ASSUME NEW i \in 1..(m + 1)
      PROVE  link2[t[i]] = IF i < m + 1 THEN t[i + 1] ELSE NULL
  <2>1. CASE i = m + 1
    BY <1>1, <1>3, <2>1
  <2>2. CASE i = m
    <3>1. i \in 1..m /\ i < m + 1
      BY <1>1, <2>2
    <3>2. link2[s[i]] = n + 1
      BY <1>b, <2>2, <3>1
    <3> QED
      BY <1>2, <1>3, <2>2, <3>1, <3>2
  <2>3. CASE i < m
    <3>1. i \in 1..m /\ i + 1 \in 1..m /\ i < m + 1 /\ i # m
      BY <1>1, <2>3
    <3>2. link2[s[i]] = link[s[i]]
      BY <1>b, <3>1
    <3> QED
      BY <1>1, <1>2, <2>3, <3>1, <3>2
  <2> QED
    BY <1>1, <2>1, <2>2, <2>3
<1>7. t \in Seq(DOMAIN link2) /\ Len(t) <= Len(link2)
  BY <1>1, <1>2
<1> QED
  BY <1>2, <1>4, <1>5, <1>6, <1>7 DEF Chained, t

(* A new node is put before the head of the chain.                         *)
LEMMA InFront ==
  ASSUME NEW n \in Nat, NEW link, NEW a, NEW s, Chained(link, a, s),
         NEW link2, DOMAIN link = 1..n, Len(link) = n,
         DOMAIN link2 = 1..(n + 1), Len(link2) = n + 1, link2[n + 1] = a,
         \A j \in 1..Len(s) : link2[s[j]] = link[s[j]]
  PROVE  Chained(link2, n + 1, <<n + 1>> \o s)
<1> DEFINE m == Len(s)
           t == <<n + 1>> \o s
           T == 1..(n + 1)
<1>1. /\ s \in Seq(1..n) /\ m \in Nat /\ m <= n /\ \A i \in 1..m : s[i] \in 1..n
      /\ \A i, j \in 1..m : s[i] = s[j] => i = j
      /\ a = IF m = 0 THEN NULL ELSE s[1]
      /\ \A i \in 1..m : link[s[i]] = IF i < m THEN s[i + 1] ELSE NULL
  BY ChainedPlaces
<1>2. /\ t \in Seq(T) /\ Len(t) = m + 1 /\ t[1] = n + 1
      /\ \A i \in 1..m : t[i + 1] = s[i]
  <2>1. s \in Seq(T) /\ n + 1 \in T
    BY <1>1
  <2> HIDE DEF T
  <2> QED
    BY <2>1, Prefixed
<1>3. t # <<>> /\ Head(t) = t[1] /\ DOMAIN t = 1..(m + 1)
  BY <1>1, <1>2
<1> HIDE DEF t, m
<1>4. \A i \in 1..(m + 1) : i = 1 \/ (i - 1 \in 1..m /\ t[i] = s[i - 1])
  <2> SUFFICES ASSUME NEW i \in 1..(m + 1), i # 1 PROVE i - 1 \in 1..m /\ t[i] = s[i - 1]
    OBVIOUS
  <2>1. i - 1 \in 1..m /\ (i - 1) + 1 = i
    BY <1>1
  <2> QED
    BY <1>2, <2>1
<1>5. Apart(t)
  <2> SUFFICES ASSUME NEW i \in 1..(m + 1), NEW j \in 1..(m + 1), t[i] = t[j] PROVE i = j
    BY <1>3 DEF Apart
  <2>1. \A k \in 1..m : s[k] # n + 1
    BY <1>1
  <2>2. CASE i # 1 /\ j # 1
    <3>1. i - 1 \in 1..m /\ j - 1 \in 1..m /\ s[i - 1] = s[j - 1]
      BY <1>4, <2>2
    <3>2. i - 1 = j - 1
      BY <1>1, <3>1
    <3> QED
      BY <3>1, <3>2
  <2> QED
    BY <1>2, <1>4, <2>1, <2>2
<1>6. ASSUME NEW i \in 1..(m + 1)
      PROVE  link2[t[i]] = IF i < m + 1 THEN t[i + 1] ELSE NULL
  <2>1. CASE i = 1
    <3>1. link2[t[i]] = a
      BY <1>2, <2>1
    <3>2. CASE m = 0
      BY <1>1, <2>1, <3>1, <3>2
    <3>3. CASE m # 0
      <4>1. 1 \in 1..m /\ 1 < m + 1
        BY <1>1, <3>3
      <4> QED
        BY <1>1, <1>2, <2>1, <3>1, <3>3, <4>1
    <3> QED
      BY <3>2, <3>3
  <2>2. CASE i # 1
    <3>1. i - 1 \in 1..m /\ t[i] = s[i - 1] /\ (i - 1) + 1 = i
      BY <1>1, <1>4, <2>2
    <3>2. link2[t[i]] = IF i - 1 < m THEN s[i] ELSE NULL
      BY <1>1, <3>1 DEF m
    <3>3. i - 1 < m <=> i < m + 1
      BY <1>1
    <3>4. i < m + 1 => t[i + 1] = s[i]
      BY <1>1, <1>2
    <3> QED
      BY <3>2, <3>3, <3>4
  <2> QED
    BY <2>1, <2>2
<1>7. t \in Seq(DOMAIN link2) /\ Len(t) <= Len(link2) /\ HeadOrNull(t) = n + 1
  BY <1>1, <1>2, <1>3 DEF HeadOrNull
<1> QED
  BY <1>3, <1>5, <1>6, <1>7, <1>2 DEF Chained, t

-----------------------------------------------------------------------------
(* The names along a chain change as the chain does.                       *)
LEMMA NamedCut ==
  ASSUME NEW T, NEW s \in Seq(T), NEW label, NEW i \in 1..Len(s)
  PROVE  Named(Without(s, i), label) = Without(Named(s, label), i)
<1> DEFINE n == Len(s)
           w == Without(s, i)
           q == Named(s, label)
<1>1. n \in Nat \ {0} /\ DOMAIN s = 1..n
  OBVIOUS
<1>2. w \in Seq(T) /\ Len(w) = n - 1
      /\ \A k \in 1..(n - 1) : w[k] = IF k < i THEN s[k] ELSE s[k + 1]
  BY Withoutness
<1>3. q = [k \in 1..n |-> label[s[k]]]
  BY <1>1 DEF Named
<1>4. Len(q) = n
  BY <1>1, <1>3
<1> HIDE DEF n, w, q
<1>5. DOMAIN w = 1..(n - 1)
  BY <1>2
<1>6. \A k \in 1..(n - 1) : label[w[k]] = IF k < i THEN q[k] ELSE q[k + 1]
  <2>1. \A k \in 1..(n - 1) : k \in 1..n /\ k + 1 \in 1..n
    BY <1>1
  <2> QED
    BY <1>2, <1>3, <2>1
<1>7. Named(w, label) = [k \in 1..(n - 1) |-> label[w[k]]]
  BY <1>5 DEF Named
<1>8. Without(q, i) = [k \in 1..(n - 1) |-> IF k < i THEN q[k] ELSE q[k + 1]]
  BY <1>4 DEF Without
<1> QED
  BY <1>6, <1>7, <1>8 DEF w, q

LEMMA NamedLonger ==
  ASSUME NEW U, NEW label \in Seq(U), NEW p \in U, NEW s \in Seq(DOMAIN label)
  PROVE  Named(Append(s, Len(label) + 1), Append(label, p)) = Append(Named(s, label), p)
<1> DEFINE n == Len(label)
           m == Len(s)
           label2 == Append(label, p)
           t == Append(s, n + 1)
           q == Named(s, label)
           r == Append(q, p)
           v == Named(t, label2)
<1>1. /\ n \in Nat /\ m \in Nat /\ DOMAIN label = 1..n /\ \A i \in 1..m : s[i] \in 1..n
      /\ \A i \in 1..n : label2[i] = label[i] /\ label[i] \in U
      /\ label2[n + 1] = p /\ DOMAIN s = 1..m
  OBVIOUS
<1>2. DOMAIN t = 1..(m + 1) /\ t[m + 1] = n + 1 /\ \A i \in 1..m : t[i] = s[i]
  <2>1. s \in Seq(Nat) /\ n + 1 \in Nat
    BY <1>1
  <2> HIDE DEF n
  <2> QED
    BY <2>1
<1>3. q = [i \in 1..m |-> label[s[i]]] /\ \A i \in 1..m : label[s[i]] \in U
  BY <1>1 DEF Named
<1> HIDE DEF n, m, label2, t, q
<1>4. q \in Seq(U) /\ Len(q) = m /\ \A i \in 1..m : q[i] = label[s[i]]
  BY <1>1, <1>3
<1>5. r \in Seq(U) /\ Len(r) = m + 1 /\ r[m + 1] = p /\ \A i \in 1..m : r[i] = label[s[i]]
  BY <1>1, <1>4
<1>6. v = [i \in 1..(m + 1) |-> label2[t[i]]]
  BY <1>2 DEF Named
<1> HIDE DEF r, v
<1>7. r = [i \in 1..(m + 1) |-> r[i]]
  BY <1>5
<1>8. ASSUME NEW i \in 1..(m + 1) PROVE label2[t[i]] = r[i]
  <2>1. CASE i = m + 1
    BY <1>1, <1>2, <1>5, <2>1
  <2>2. CASE i # m + 1
    <3>1. i \in 1..m
      BY <1>1, <2>2
    <3> QED
      BY <1>1, <1>2, <1>5, <3>1
  <2> QED
    BY <2>1, <2>2
<1> QED
  BY <1>6, <1>7, <1>8 DEF v, r, t, q, n, label2

LEMMA NamedInFront ==
  ASSUME NEW U, NEW label \in Seq(U), NEW p \in U, NEW s \in Seq(DOMAIN label)
  PROVE  Named(<<Len(label) + 1>> \o s, Append(label, p)) = <<p>> \o Named(s, label)
<1> DEFINE n == Len(label)
           m == Len(s)
           label2 == Append(label, p)
           t == <<n + 1>> \o s
           q == Named(s, label)
           r == <<p>> \o q
           v == Named(t, label2)
<1>1. /\ n \in Nat /\ m \in Nat /\ DOMAIN label = 1..n /\ \A i \in 1..m : s[i] \in 1..n
      /\ \A i \in 1..n : label2[i] = label[i] /\ label[i] \in U
      /\ label2[n + 1] = p /\ DOMAIN s = 1..m
  OBVIOUS
<1>2. DOMAIN t = 1..(m + 1) /\ t[1] = n + 1 /\ \A i \in 1..m : t[i + 1] = s[i]
  <2>1. s \in Seq(Nat) /\ n + 1 \in Nat
    BY <1>1
  <2> HIDE DEF n
  <2>2. t \in Seq(Nat) /\ Len(t) = m + 1 /\ t[1] = n + 1 /\ \A i \in 1..m : t[i + 1] = s[i]
    BY <2>1, Prefixed
  <2> QED
    BY <2>2
<1>3. q = [i \in 1..m |-> label[s[i]]] /\ \A i \in 1..m : label[s[i]] \in U
  BY <1>1 DEF Named
<1> HIDE DEF n, m, label2, t, q
<1>4. q \in Seq(U) /\ Len(q) = m /\ \A i \in 1..m : q[i] = label[s[i]]
  BY <1>1, <1>3
<1>5. r \in Seq(U) /\ Len(r) = m + 1 /\ r[1] = p /\ \A i \in 1..m : r[i + 1] = label[s[i]]
  <2>1. /\ r \in Seq(U) /\ Len(r) = Len(q) + 1 /\ r[1] = p
        /\ \A i \in 1..Len(q) : r[i + 1] = q[i]
    BY ONLY <1>4, p \in U, Prefixed DEF r
  <2> QED
    BY <1>4, <2>1
<1>6. v = [i \in 1..(m + 1) |-> label2[t[i]]]
  BY <1>2 DEF Named
<1> HIDE DEF r, v
<1>7. r = [i \in 1..(m + 1) |-> r[i]]
  BY <1>5
<1>8. ASSUME NEW i \in 1..(m + 1) PROVE label2[t[i]] = r[i]
  <2>1. CASE i = 1
    BY <1>1, <1>2, <1>5, <2>1
  <2>2. CASE i # 1
    <3>1. i - 1 \in 1..m /\ (i - 1) + 1 = i
      BY <1>1, <2>2
    <3>2. t[i] = s[i - 1] /\ r[i] = label[s[i - 1]] /\ s[i - 1] \in 1..n
      BY <1>1, <1>2, <1>5, <3>1
    <3> QED
      BY <1>1, <3>2
  <2> QED
    BY <2>1, <2>2
<1> QED
  BY <1>6, <1>7, <1>8 DEF v, r, t, q, n, label2

(* The history of the ignore list is kept in the other order.              *)
LEMMA ReversedLonger ==
  ASSUME NEW U, NEW q \in Seq(U), NEW p \in U
  PROVE  Reverse(Append(q, p)) = <<p>> \o Reverse(q)
<1> DEFINE m == Len(q)
           t == Append(q, p)
           v == Reverse(q)
           r == <<p>> \o v
<1>1. m \in Nat /\ Len(t) = m + 1 /\ t[m + 1] = p /\ \A i \in 1..m : t[i] = q[i] /\ q[i] \in U
  OBVIOUS
<1>2. v = [i \in 1..m |-> q[(m - i) + 1]]
  BY DEF Reverse
<1>3. \A i \in 1..m : (m - i) + 1 \in 1..m
  BY <1>1
<1> HIDE DEF m, t, v
<1>4. v \in Seq(U) /\ Len(v) = m /\ \A i \in 1..m : v[i] = q[(m - i) + 1]
  BY <1>1, <1>2, <1>3
<1>5. r \in Seq(U) /\ Len(r) = m + 1 /\ r[1] = p /\ \A i \in 1..m : r[i + 1] = v[i]
  BY <1>1, <1>4, Prefixed
<1> HIDE DEF r
<1>6. Reverse(t) = [i \in 1..(m + 1) |-> t[((m + 1) - i) + 1]]
  BY <1>1 DEF Reverse
<1>7. r = [i \in 1..(m + 1) |-> r[i]]
  BY <1>5
<1>8. ASSUME NEW i \in 1..(m + 1) PROVE t[((m + 1) - i) + 1] = r[i]
  <2>1. CASE i = 1
    BY <1>1, <1>5, <2>1
  <2>2. CASE i # 1
    <3>1. /\ i - 1 \in 1..m /\ (i - 1) + 1 = i
          /\ (m - (i - 1)) + 1 = ((m + 1) - i) + 1 /\ (m - (i - 1)) + 1 \in 1..m
      BY <1>1, <2>2
    <3>2. r[i] = q[(m - (i - 1)) + 1]
      BY <1>4, <1>5, <3>1
    <3> QED
      BY <1>1, <3>1, <3>2
  <2> QED
    BY <2>1, <2>2
<1> QED
  BY <1>6, <1>7, <1>8 DEF t, v, r

LEMMA ReversedCut ==
  ASSUME NEW U, NEW q \in Seq(U), NEW j \in 1..Len(q)
  PROVE  /\ (Len(q) - j) + 1 \in 1..Len(q)
         /\ Reverse(Without(q, j)) = Without(Reverse(q), (Len(q) - j) + 1)
<1> DEFINE m == Len(q)
           i == (m - j) + 1
           t == Without(q, j)
           v == Reverse(q)
<1>1. m \in Nat \ {0} /\ i \in 1..m /\ \A k \in 1..m : q[k] \in U /\ (m - k) + 1 \in 1..m
  OBVIOUS
<1>2. /\ t \in Seq(U) /\ Len(t) = m - 1
      /\ \A k \in 1..(m - 1) : t[k] = IF k < j THEN q[k] ELSE q[k + 1]
  BY Withoutness
<1>3. v = [k \in 1..m |-> q[(m - k) + 1]]
  BY DEF Reverse
<1>j. j \in 1..m
  OBVIOUS
<1> HIDE DEF m, t, v
<1>4. Len(v) = m /\ \A k \in 1..m : v[k] = q[(m - k) + 1]
  BY <1>1, <1>3
<1>5. Reverse(t) = [k \in 1..(m - 1) |-> t[((m - 1) - k) + 1]]
  BY <1>2 DEF Reverse
<1>6. Without(v, i) = [k \in 1..(m - 1) |-> IF k < i THEN v[k] ELSE v[k + 1]]
  BY <1>4 DEF Without
<1>7. ASSUME NEW k \in 1..(m - 1)
      PROVE  t[((m - 1) - k) + 1] = IF k < i THEN v[k] ELSE v[k + 1]
  <2>1. /\ ((m - 1) - k) + 1 = m - k /\ m - k \in 1..(m - 1) /\ k \in 1..m /\ k + 1 \in 1..m
        /\ (m - (k + 1)) + 1 = m - k
    BY <1>1
  <2>2. t[((m - 1) - k) + 1] = IF m - k < j THEN q[m - k] ELSE q[(m - k) + 1]
    BY <1>2, <2>1
  <2>3. v[k] = q[(m - k) + 1] /\ v[k + 1] = q[m - k]
    BY <1>4, <2>1
  <2>4. k < i <=> ~(m - k < j)
    BY <1>1, <1>j
  <2> QED
    BY <2>2, <2>3, <2>4
<1> QED
  BY <1>1, <1>5, <1>6, <1>7 DEF m, t, v

-----------------------------------------------------------------------------
(* Whatever the links are, only nodes are met, and first the one at a.     *)
LEMMA AlongNodes ==
  ASSUME NEW link, Closed(link), NEW a \in DOMAIN link \cup {NULL}
  PROVE  /\ Along(link, a) \in Seq(DOMAIN link)
         /\ a # NULL => Along(link, a) # <<>> /\ Along(link, a)[1] = a
<1>0. Len(link) \in Nat
  BY DEF Closed
<1>m. PICK met : Trace(met, link, a)
  BY <1>0, Stepwise
<1> DEFINE n == Len(link)
           T == DOMAIN link
<1>1. n \in Nat /\ T = 1..n /\ \A b \in T : link[b] \in T \/ link[b] = NULL
  <2>1. link \in Seq(Nat) /\ \A b \in T : link[b] \in 0..n
    BY DEF Closed
  <2> HIDE DEF T
  <2>2. n \in Nat /\ T = 1..n
    BY <2>1 DEF T
  <2> HIDE DEF n
  <2> QED
    BY <2>1, <2>2 DEF NULL
<1>2. /\ Along(link, a) = met[n] /\ met[0] = <<>>
      /\ \A k \in 0..(n - 1) : met[k + 1] = Onward(link, a, met[k])
  BY <1>m DEF Trace
<1>a. a \in T \/ a = NULL
  OBVIOUS
<1> HIDE DEF n, T
<1> DEFINE Is(k) == /\ met[k] \in Seq(T)
                    /\ k # 0 /\ a # NULL => met[k] # <<>> /\ met[k][1] = a
           F == {k \in Nat : k <= n => Is(k)}
<1>3. 0 \in F
  <2>1. met[0] \in Seq(T) /\ ~(0 # 0)
    BY <1>2
  <2>2. Is(0)
    BY <2>1
  <2> HIDE DEF Is
  <2> QED
    BY <2>2
<1>4. ASSUME NEW k \in Nat, k \in F PROVE k + 1 \in F
  <2> SUFFICES ASSUME k + 1 <= n PROVE Is(k + 1)
    OBVIOUS
  <2>1. k <= n /\ k \in 0..(n - 1) /\ k + 1 # 0
    BY <1>1
  <2> DEFINE p == met[k]
             b == IF p = <<>> THEN a ELSE link[Last(p)]
  <2>2. Is(k)
    BY <1>4, <2>1
  <2>3. met[k + 1] = IF b = NULL THEN p ELSE Append(p, b)
    BY <1>2, <2>1 DEF Onward
  <2>p. p \in Seq(T) /\ (k # 0 /\ a # NULL => p # <<>> /\ p[1] = a)
    BY <2>2
  <2>0. k = 0 => p = <<>>
    BY <1>2
  <2> HIDE DEF p
  <2>4. b \in T \/ b = NULL
    <3>1. CASE p = <<>>
      BY <1>a, <3>1
    <3>2. CASE p # <<>>
      <4>1. Last(p) \in T
        BY <2>p, <3>2 DEF Last
      <4> QED
        BY <1>1, <3>2, <4>1
    <3> QED
      BY <3>1, <3>2
  <2>5. p = <<>> => b = a
    OBVIOUS
  <2> HIDE DEF b
  <2>6. CASE b = NULL
    BY <2>p, <2>0, <2>1, <2>3, <2>5, <2>6
  <2>7. CASE b # NULL
    <3>1. b \in T /\ met[k + 1] = Append(p, b)
      BY <2>3, <2>4, <2>7
    <3>2. /\ Append(p, b) \in Seq(T) /\ Append(p, b) # <<>>
          /\ Append(p, b)[1] = IF p = <<>> THEN b ELSE p[1]
      BY <2>p, <3>1
    <3>3. a # NULL => Append(p, b)[1] = a
      BY <2>p, <2>0, <2>5, <3>2
    <3> QED
      BY <2>1, <3>1, <3>2, <3>3
  <2> QED
    BY <2>6, <2>7
<1> HIDE DEF F
<1>5. \A k \in Nat : k \in F
  BY <1>3, <1>4, Induction
<1>6. n \in Nat /\ n <= n
  BY <1>1
<1>7. Is(n)
  BY <1>5, <1>6 DEF F
<1>8. a # NULL => n # 0
  BY <1>1, <1>a
<1> QED
  BY <1>2, <1>7, <1>8 DEF T

(* The head stays when it is one of those that are kept.                   *)
LEMMA AmongHead ==
  ASSUME NEW T, NEW s \in Seq(T), NEW S, s # <<>>, s[1] \in S
  PROVE  Among(s, S) # <<>> /\ HeadOrNull(Among(s, S)) = s[1]
<1> DEFINE n == Len(s)
           k == Among(s, S)
<1>1. n \in Nat /\ 1 \in 1..n
  OBVIOUS
<1>2. PICK m \in Nat : \E f : Picks(s, S, f, m, n)
  BY AmongPicks
<1>3. PICK f : Picks(s, S, f, m, n)
  BY <1>2
<1>4. k \in Seq(T) /\ Len(k) = m /\ \A j \in 1..m : k[j] = s[f[j]]
  BY <1>3, Picked
<1> HIDE DEF n, k
<1>5. /\ f \in [1..m -> 1..n] /\ \A i, j \in 1..m : i < j => f[i] < f[j]
      /\ \A i \in 1..n : s[i] \in S <=> \E j \in 1..m : f[j] = i
  BY <1>3 DEF Picks, Rising
<1>6. PICK j \in 1..m : f[j] = 1
  BY <1>1, <1>5
<1>7. 1 \in 1..m /\ f[1] \in 1..n /\ (j = 1 \/ f[1] < f[j])
  BY <1>5, <1>6
<1>8. f[1] = 1
  BY <1>1, <1>6, <1>7
<1>9. k # <<>> /\ Head(k) = k[1] /\ k[1] = s[1]
  BY <1>4, <1>7, <1>8
<1> QED
  BY <1>9 DEF HeadOrNull, k

(* The kept and the found are nodes.                                       *)
LEMMA AmongTyped ==
  ASSUME NEW T, NEW s \in Seq(T), NEW S
  PROVE  Among(s, S) \in Seq(T)
<1>1. PICK m \in Nat : \E f : Picks(s, S, f, m, Len(s))
  BY AmongPicks
<1>2. PICK f : Picks(s, S, f, m, Len(s))
  BY <1>1
<1> QED
  BY <1>2, Picked

LEMMA FoundTyped ==
  ASSUME NEW T, NEW s \in Seq(T), NEW label, NEW x
  PROVE  \/ FoundIn(s, label, x) = NULL
         \/ FoundIn(s, label, x) \in T /\ label[FoundIn(s, label, x)] = x
<1>1. CASE \E i \in 1..Len(s) : FoundIn(s, label, x) = s[i] /\ label[s[i]] = x
  BY <1>1
<1> QED
  BY <1>1, Found

LEMMA RelinkedClosed ==
  ASSUME NEW link, Closed(link), NEW s \in Seq(DOMAIN link)
  PROVE  Closed(Relinked(link, s)) /\ Len(Relinked(link, s)) = Len(link)
<1> DEFINE r == Relinked(link, s)
           At(b) == CHOOSE j \in DOMAIN s : s[j] = b
           n == Len(link)
<1>1. r = [b \in DOMAIN link |-> IF b \notin ToSet(s) THEN link[b]
                                 ELSE IF At(b) = Len(s) THEN NULL ELSE s[At(b) + 1]]
  BY DEF Relinked
<1>2. n \in Nat /\ DOMAIN link = 1..n /\ link \in Seq(Nat) /\ \A b \in 1..n : link[b] \in 0..n
  BY DEF Closed
<1>3. \A b \in ToSet(s) : At(b) \in 1..Len(s)
  BY DEF ToSet
<1>4. \A i \in 1..Len(s) : s[i] \in 1..n
  BY <1>2
<1> HIDE DEF r, n, At
<1>5. ASSUME NEW b \in 1..n PROVE r[b] \in 0..n
  <2>1. CASE b \notin ToSet(s)
    BY <1>1, <1>2, <2>1
  <2>2. CASE b \in ToSet(s) /\ At(b) = Len(s)
    <3>1. r[b] = NULL
      BY <1>1, <1>2, <2>2
    <3> QED
      BY <1>2, <3>1 DEF NULL
  <2>3. CASE b \in ToSet(s) /\ At(b) # Len(s)
    <3>1. At(b) + 1 \in 1..Len(s)
      BY <1>3, <2>3
    <3>2. r[b] = s[At(b) + 1]
      BY <1>1, <1>2, <2>3
    <3> QED
      BY <1>2, <1>4, <3>1, <3>2
  <2> QED
    BY <2>1, <2>2, <2>3
<1>6. r = [b \in 1..n |-> r[b]]
  BY <1>1, <1>2
<1>7. r \in Seq(Nat) /\ Len(r) = n
  <2>1. \A b \in 1..n : r[b] \in Nat
    BY <1>2, <1>5
  <2> QED
    BY <1>2, <1>6, <2>1, Replaced DEF n
<1>8. DOMAIN r = 1..n
  BY <1>6
<1> QED
  BY <1>5, <1>7, <1>8 DEF Closed, r, n

-----------------------------------------------------------------------------
(* Types, with what their induction needs: links lead to nodes, and the    *)
(* first watch stays the first as long as the thread runs.                 *)
WatchShape ==
  /\ WatchTypeOK /\ Closed(next)
  /\ adding = [t \in Threads |-> adding[t]]

LEMMA ListedNodes ==
  ASSUME WatchShape
  PROVE  /\ Listed \in Seq(DOMAIN next) /\ DOMAIN next = DOMAIN name
         /\ firstNode # NULL => Listed # <<>> /\ Listed[1] = firstNode
         /\ \A x : \/ FoundIn(Listed, name, x) = NULL
                   \/ FoundIn(Listed, name, x) \in DOMAIN next
                      /\ name[FoundIn(Listed, name, x)] = x
<1>1. Closed(next) /\ firstNode \in DOMAIN next \cup {NULL} /\ DOMAIN next = DOMAIN name
  BY DEF WatchShape, WatchTypeOK
<1>2. /\ Listed \in Seq(DOMAIN next)
      /\ firstNode # NULL => Listed # <<>> /\ Listed[1] = firstNode
  BY <1>1, AlongNodes DEF Listed
<1> QED
  BY <1>1, <1>2, FoundTyped

LEMMA AddShape ==
  ASSUME NEW t \in Threads, NEW path \in Folders, WatchShape, AddWatch(t, path)
  PROVE  WatchShape'
<1>1. /\ UNCHANGED <<firstNode, name, next, nodeFreed, watches>>
      /\ adding' = [adding EXCEPT ![t] = {[path |-> path, last |-> LastOrNull(Listed)]}]
  BY DEF AddWatch
<1>2. LastOrNull(Listed) \in DOMAIN next \cup {NULL}
  <2>1. Listed \in Seq(DOMAIN next)
    BY ListedNodes
  <2> QED
    BY <2>1 DEF LastOrNull, Last
<1>3. ASSUME NEW u \in Threads
      PROVE  adding'[u] \subseteq [path : Folders, last : DOMAIN next \cup {NULL}]
  <2>1. CASE u = t
    <3>1. adding'[u] = {[path |-> path, last |-> LastOrNull(Listed)]}
      BY <1>1, <2>1 DEF WatchShape
    <3> QED
      BY <1>2, <3>1
  <2>2. CASE u # t
    <3>1. adding'[u] = adding[u]
      BY <1>1, <2>2 DEF WatchShape
    <3> QED
      BY <3>1 DEF WatchShape, WatchTypeOK
  <2> QED
    BY <2>1, <2>2
<1>4. adding' = [u \in Threads |-> adding'[u]]
  BY <1>1 DEF WatchShape
<1>5. Closed(next)'
  BY <1>1 DEF WatchShape, Closed
<1> QED
  BY <1>1, <1>3, <1>4, <1>5 DEF WatchShape, WatchTypeOK

(* The node is linked behind the one that was the last in the search.      *)
Linked(last) == Append([a \in DOMAIN next |-> IF firstNode # NULL /\ a = last
                                              THEN Len(next) + 1 ELSE next[a]], NULL)

LEMMA LinkedShape ==
  ASSUME WatchShape, NEW last
  PROVE  /\ Linked(last) \in Seq(Nat) /\ Len(Linked(last)) = Len(next) + 1
         /\ Closed(Linked(last)) /\ Linked(last)[Len(next) + 1] = NULL
         /\ \A a \in DOMAIN next :
              Linked(last)[a] = IF firstNode # NULL /\ a = last THEN Len(next) + 1 ELSE next[a]
<1> DEFINE n == Len(next)
           r == [a \in DOMAIN next |-> IF firstNode # NULL /\ a = last THEN n + 1 ELSE next[a]]
           q == Append(r, NULL)
<1>1. /\ next \in Seq(Nat) /\ n \in Nat /\ DOMAIN next = 1..n
      /\ \A a \in 1..n : next[a] \in 0..n
  BY DEF WatchShape, WatchTypeOK, Closed
<1>2. \A a \in DOMAIN next : r[a] \in Nat /\ r[a] \in 0..(n + 1)
  <2>1. ASSUME NEW a \in 1..n PROVE next[a] \in Nat /\ next[a] \in 0..(n + 1)
    BY <1>1
  <2> HIDE DEF n
  <2>2. n + 1 \in Nat /\ n + 1 \in 0..(n + 1)
    BY <1>1
  <2> QED
    BY <1>1, <2>1, <2>2
<1>3. r = [a \in DOMAIN next |-> r[a]] /\ DOMAIN r = DOMAIN next
  OBVIOUS
<1>4. \A a \in DOMAIN next : r[a] = IF firstNode # NULL /\ a = last THEN n + 1 ELSE next[a]
  OBVIOUS
<1> HIDE DEF r, n
<1>5. r \in Seq(Nat) /\ Len(r) = n
  BY <1>1, <1>2, <1>3, Replaced DEF n
<1>6. /\ q \in Seq(Nat) /\ Len(q) = n + 1 /\ DOMAIN q = 1..(n + 1) /\ q[n + 1] = NULL
      /\ \A a \in 1..n : q[a] = r[a]
  BY <1>1, <1>5 DEF NULL
<1> HIDE DEF q
<1>7. Closed(q)
  <2>1. ASSUME NEW a \in 1..(n + 1) PROVE q[a] \in 0..(n + 1)
    <3>1. CASE a = n + 1
      BY <1>1, <1>6, <3>1 DEF NULL
    <3>2. CASE a # n + 1
      <4>1. a \in 1..n
        BY <1>1, <3>2
      <4> QED
        BY <1>1, <1>2, <1>6, <4>1
    <3> QED
      BY <3>1, <3>2
  <2> QED
    BY <1>6, <2>1 DEF Closed
<1>8. Linked(last) = q
  BY DEF Linked, q, r, n
<1> QED
  BY <1>1, <1>4, <1>6, <1>7, <1>8 DEF n

LEMMA LinkShape ==
  ASSUME NEW t \in Threads, WatchShape, LinkWatch(t)
  PROVE  /\ WatchShape'
         /\ firstNode # NULL => firstNode' = firstNode /\ name'[firstNode] = name[firstNode]
<1>1. PICK new \in adding[t] :
        /\ adding' = [adding EXCEPT ![t] = {}]
        /\ \/ /\ name' = Append(name, new.path)
              /\ next' = Linked(new.last)
              /\ firstNode' = IF firstNode = NULL THEN Len(next') ELSE firstNode
              /\ watches' = Append(watches, new.path)
           \/ UNCHANGED <<firstNode, name, next, watches>>
        /\ UNCHANGED nodeFreed
  BY DEF LinkWatch, Linked
<1>2. new.path \in Folders
  BY DEF WatchShape, WatchTypeOK
<1>3. /\ adding' = [u \in Threads |-> adding'[u]]
      /\ \A u \in Threads : adding'[u] = {} \/ adding'[u] = adding[u]
  BY <1>1 DEF WatchShape
<1>t. /\ next \in Seq(Nat) /\ name \in Seq(Folders) /\ Len(name) = Len(next) /\ Closed(next)
      /\ Len(next) \in Nat /\ DOMAIN next = 1..Len(next) /\ DOMAIN name = 1..Len(next)
      /\ firstNode \in DOMAIN next \cup {NULL} /\ nodeFreed \subseteq DOMAIN next
      /\ watches \in Seq(Folders)
      /\ \A u \in Threads : adding[u] \subseteq [path : Folders, last : DOMAIN next \cup {NULL}]
  BY DEF WatchShape, WatchTypeOK
<1>4. CASE UNCHANGED <<firstNode, name, next, watches>>
  <2>1. Closed(next)'
    BY <1>t, <1>4 DEF Closed
  <2>2. \A u \in Threads : adding'[u] \subseteq [path : Folders, last : DOMAIN next \cup {NULL}]
    BY <1>t, <1>3
  <2> QED
    BY <1>t, <1>1, <1>3, <1>4, <2>1, <2>2 DEF WatchShape, WatchTypeOK
<1>5. CASE /\ name' = Append(name, new.path)
           /\ next' = Linked(new.last)
           /\ firstNode' = IF firstNode = NULL THEN Len(next') ELSE firstNode
           /\ watches' = Append(watches, new.path)
  <2>1. next' \in Seq(Nat) /\ Len(next') = Len(next) + 1 /\ Closed(next)'
    <3>1. /\ Closed(Linked(new.last)) /\ Linked(new.last) \in Seq(Nat)
          /\ Len(Linked(new.last)) = Len(next) + 1
      BY LinkedShape
    <3> QED
      BY <1>5, <3>1 DEF Closed
  <2>2. /\ name' \in Seq(Folders) /\ Len(name') = Len(next) + 1
        /\ \A a \in 1..Len(next) : name'[a] = name[a]
    BY <1>t, <1>2, <1>5
  <2>3. watches' \in Seq(Folders)
    BY <1>t, <1>2, <1>5
  <2>4. /\ DOMAIN next' = 1..(Len(next) + 1) /\ DOMAIN next \subseteq DOMAIN next'
        /\ Len(next') \in DOMAIN next'
    BY <1>t, <2>1
  <2>5. firstNode' \in DOMAIN next' \cup {NULL} /\ nodeFreed' \subseteq DOMAIN next'
    BY <1>t, <1>1, <1>5, <2>4
  <2>6. \A u \in Threads : adding'[u] \subseteq [path : Folders, last : DOMAIN next' \cup {NULL}]
    BY <1>t, <1>3, <2>4
  <2>7. firstNode # NULL => firstNode' = firstNode /\ name'[firstNode] = name[firstNode]
    BY <1>t, <1>5, <2>2
  <2> QED
    BY <1>3, <2>1, <2>2, <2>3, <2>5, <2>6, <2>7 DEF WatchShape, WatchTypeOK
<1> QED
  BY <1>1, <1>4, <1>5

LEMMA RemoveShape ==
  ASSUME NEW t \in Threads, NEW path, WatchShape, RemoveWatch(t, path), firstNode # NULL
  PROVE  /\ WatchShape' /\ UNCHANGED name
         /\ name[firstNode] # path => firstNode' = firstNode
<1> DEFINE a == FoundIn(Listed, name, path)
<1>1. a = NULL \/ (a \in DOMAIN next /\ name[a] = path)
  BY ListedNodes
<1> HIDE DEF a
<1>2. /\ IF a = firstNode
         THEN /\ firstNode' = next[a]
              /\ UNCHANGED <<next, nodeFreed>>
         ELSE /\ next' = IF a = NULL THEN next
                         ELSE Unlinked(CHOOSE b \in ToSet(Listed) : next[b] = a, a)
              /\ nodeFreed' = nodeFreed \cup ({a} \ {NULL})
              /\ UNCHANGED firstNode
      /\ watches' = RemoveFirst(watches, path)
      /\ UNCHANGED <<name, adding>>
  BY DEF RemoveWatch, a
<1>t. /\ next \in Seq(Nat) /\ name \in Seq(Folders) /\ Len(name) = Len(next)
      /\ Len(next) \in Nat /\ DOMAIN next = 1..Len(next)
      /\ \A b \in DOMAIN next : next[b] \in DOMAIN next \cup {NULL}
      /\ firstNode \in DOMAIN next \cup {NULL} /\ nodeFreed \subseteq DOMAIN next
      /\ watches \in Seq(Folders)
      /\ \A u \in Threads : adding[u] \subseteq [path : Folders, last : DOMAIN next \cup {NULL}]
  <2>1. /\ next \in Seq(Nat) /\ Len(next) \in Nat /\ DOMAIN next = 1..Len(next)
        /\ \A b \in DOMAIN next : next[b] \in 0..Len(next)
    BY DEF WatchShape, Closed
  <2>2. \A b \in DOMAIN next : next[b] \in DOMAIN next \cup {NULL}
    BY <2>1 DEF NULL
  <2> QED
    BY <2>1, <2>2 DEF WatchShape, WatchTypeOK
<1>3. watches' \in Seq(Folders)
  BY <1>2, <1>t, RemovedFirst
<1>4. firstNode' \in DOMAIN next \cup {NULL} /\ nodeFreed' \subseteq DOMAIN next
  BY <1>1, <1>2, <1>t
<1>5. next' \in Seq(Nat) /\ Len(next') = Len(next) /\ DOMAIN next' = DOMAIN next /\ Closed(next)'
  <2>1. CASE next' = next
    BY <1>t, <2>1 DEF WatchShape, Closed
  <2>2. CASE next' # next
    <3> DEFINE before == CHOOSE b \in ToSet(Listed) : next[b] = a
    <3> HIDE DEF before
    <3>1. next' = [next EXCEPT ![before] = next[a]] /\ a \in DOMAIN next
      BY <1>1, <1>2, <2>2 DEF Unlinked, before
    <3>2. DOMAIN next' = DOMAIN next /\ next' = [b \in DOMAIN next |-> next'[b]]
      BY <1>t, <3>1
    <3>3. \A b \in DOMAIN next : next'[b] \in DOMAIN next \cup {NULL}
      BY <1>t, <3>1
    <3>4. \A b \in DOMAIN next : next'[b] \in Nat /\ next'[b] \in 0..Len(next)
      BY <1>t, <3>3 DEF NULL
    <3>5. next' \in Seq(Nat) /\ Len(next') = Len(next)
      BY <1>t, <3>2, <3>4, Replaced
    <3> QED
      BY <3>2, <3>4, <3>5 DEF Closed
  <2> QED
    BY <2>1, <2>2
<1>6. WatchShape'
  <2>1. adding' = [u \in Threads |-> adding'[u]]
    BY <1>2 DEF WatchShape
  <2> QED
    BY <1>2, <1>3, <1>4, <1>5, <1>t, <2>1 DEF WatchShape, WatchTypeOK
<1> QED
  BY <1>1, <1>2, <1>6

LEMMA RecursiveShape ==
  ASSUME NEW t \in Threads, NEW below, WatchShape, RemoveWatchRecursive(t, below)
  PROVE  /\ WatchShape' /\ UNCHANGED name
         /\ firstNode # NULL /\ name[firstNode] \notin below => firstNode' = firstNode
<1> DEFINE K == {a \in DOMAIN name : name[a] \notin below}
           kept == Among(Listed, K)
<1> HIDE DEF K
<1>1. /\ firstNode' = HeadOrNull(kept)
      /\ next' = Relinked(next, kept)
      /\ nodeFreed' = nodeFreed \cup (ToSet(Listed) \ ToSet(kept))
      /\ watches' = Among(watches, Folders \ below)
      /\ UNCHANGED <<name, adding>>
  BY DEF RemoveWatchRecursive, K
<1>t. /\ Listed \in Seq(DOMAIN next) /\ kept \in Seq(DOMAIN next) /\ Closed(next)
      /\ next \in Seq(Nat) /\ Len(next) \in Nat /\ DOMAIN next = 1..Len(next)
      /\ name \in Seq(Folders) /\ Len(name) = Len(next) /\ DOMAIN name = DOMAIN next
      /\ nodeFreed \subseteq DOMAIN next /\ watches \in Seq(Folders)
      /\ \A u \in Threads : adding[u] \subseteq [path : Folders, last : DOMAIN next \cup {NULL}]
  BY ListedNodes, AmongTyped DEF WatchShape, WatchTypeOK
<1>2. firstNode # NULL /\ name[firstNode] \notin below => firstNode' = firstNode
  <2> SUFFICES ASSUME firstNode # NULL, name[firstNode] \notin below PROVE firstNode' = firstNode
    OBVIOUS
  <2>1. firstNode \in DOMAIN next /\ Listed # <<>> /\ Listed[1] = firstNode
    BY ListedNodes DEF WatchShape, WatchTypeOK
  <2>2. firstNode \in K
    BY <1>t, <2>1 DEF K
  <2> QED
    BY <1>1, <1>t, <2>1, <2>2, AmongHead
<1> HIDE DEF kept
<1>3. firstNode' \in DOMAIN next \cup {NULL}
  BY <1>1, <1>t DEF HeadOrNull
<1>4. Closed(next') /\ Len(next') = Len(next)
  BY <1>1, <1>t, RelinkedClosed
<1>5. next' \in Seq(Nat) /\ DOMAIN next' = DOMAIN next
  BY <1>t, <1>4 DEF Closed
<1>6. nodeFreed' \subseteq DOMAIN next
  <2>1. ToSet(Listed) \subseteq DOMAIN next
    BY <1>t DEF ToSet
  <2> QED
    BY <1>1, <1>t, <2>1
<1>7. watches' \in Seq(Folders)
  BY <1>1, <1>t, AmongTyped
<1>8. adding' = [u \in Threads |-> adding'[u]]
  BY <1>1 DEF WatchShape
<1> QED
  BY <1>1, <1>t, <1>2, <1>3, <1>4, <1>5, <1>6, <1>7, <1>8 DEF WatchShape, WatchTypeOK

LEMMA Changed ==
  ASSUME NEW S, NEW q \in Seq(S), NEW i, NEW e \in S
  PROVE  [q EXCEPT ![i] = e] \in Seq(S) /\ Len([q EXCEPT ![i] = e]) = Len(q)
<1> DEFINE r == [q EXCEPT ![i] = e]
<1>1. r = [j \in DOMAIN q |-> r[j]] /\ \A j \in DOMAIN q : r[j] \in S
  OBVIOUS
<1>2. DOMAIN r = DOMAIN q
  BY <1>1
<1> HIDE DEF r
<1>3. r \in Seq(S) /\ Len(r) = Len(q)
  BY <1>1, <1>2, Replaced
<1> QED
  BY <1>3 DEF r

LEMMA ModifyShape ==
  ASSUME NEW t \in Threads, NEW from \in Folders, NEW to \in Folders, WatchShape,
         ModifyWatch(t, from, to)
  PROVE  /\ WatchShape' /\ UNCHANGED firstNode
         /\ firstNode # NULL => name'[firstNode] = name[firstNode]
<1>1. CASE AddWatch(t, to)
  <2>1. UNCHANGED <<firstNode, name>>
    BY <1>1 DEF AddWatch
  <2> QED
    BY <1>1, <2>1, AddShape
<1>2. CASE ~AddWatch(t, to)
  <2> DEFINE a == FoundIn(Listed, name, from)
             here == CHOOSE i \in DOMAIN Listed : Listed[i] = a
  <2> HIDE DEF a, here
  <2>1. /\ a \notin {NULL, firstNode}
        /\ name' = [name EXCEPT ![a] = to]
        /\ watches' = [watches EXCEPT ![here] = to]
        /\ UNCHANGED <<firstNode, next, nodeFreed, adding>>
    BY <1>2 DEF ModifyWatch, a, here
  <2>2. /\ name \in Seq(Folders) /\ watches \in Seq(Folders) /\ Len(name) = Len(next)
        /\ DOMAIN name = DOMAIN next
    BY DEF WatchShape, WatchTypeOK
  <2>3. name' \in Seq(Folders) /\ Len(name') = Len(name)
    <3>1. /\ [name EXCEPT ![a] = to] \in Seq(Folders)
          /\ Len([name EXCEPT ![a] = to]) = Len(name)
      BY <2>2, Changed
    <3> QED
      BY <2>1, <3>1
  <2>4. watches' \in Seq(Folders)
    BY <2>1, <2>2, Changed
  <2>5. firstNode # NULL => name'[firstNode] = name[firstNode]
    <3>1. firstNode # NULL => firstNode \in DOMAIN name
      BY <2>2 DEF WatchShape, WatchTypeOK
    <3> QED
      BY <2>1, <2>2, <3>1
  <2>6. Closed(next)' /\ adding' = [u \in Threads |-> adding'[u]]
    BY <2>1 DEF WatchShape, Closed
  <2> QED
    BY <2>1, <2>2, <2>3, <2>4, <2>5, <2>6 DEF WatchShape, WatchTypeOK
<1> QED
  BY <1>1, <1>2

-----------------------------------------------------------------------------
(* The same for the ignore list.                                           *)
IgnoreShape == IgnoreTypeOK /\ Closed(previous) /\ Closed(following)

LEMMA IgnoreNodes ==
  ASSUME IgnoreShape
  PROVE  /\ IgnoreChain \in Seq(DOMAIN file)
         /\ Len(file) \in Nat /\ DOMAIN file = 1..Len(file)
         /\ \A link \in {previous, following} :
              /\ DOMAIN link = DOMAIN file /\ Len(link) = Len(file) /\ link \in Seq(Nat)
              /\ \A a \in DOMAIN file : link[a] \in DOMAIN file \cup {NULL}
         /\ \A x : \/ FindIgnoreFile(x) = NULL
                   \/ FindIgnoreFile(x) \in DOMAIN file /\ file[FindIgnoreFile(x)] = x
<1>1. /\ Len(file) \in Nat /\ DOMAIN file = 1..Len(file)
      /\ \A link \in {previous, following} : Closed(link) /\ Len(link) = Len(file)
      /\ latest \in DOMAIN file \cup {NULL}
  BY DEF IgnoreShape, IgnoreTypeOK
<1>2. ASSUME NEW link \in {previous, following}
      PROVE  /\ DOMAIN link = DOMAIN file /\ link \in Seq(Nat) /\ Len(link) = Len(file)
             /\ \A a \in DOMAIN file : link[a] \in DOMAIN file \cup {NULL}
  <2>1. /\ link \in Seq(Nat) /\ Len(link) = Len(file)
        /\ \A a \in DOMAIN link : link[a] \in 0..Len(link)
    BY <1>1 DEF Closed
  <2>2. DOMAIN link = 1..Len(file)
    BY <2>1
  <2> QED
    BY <1>1, <2>1, <2>2 DEF NULL
<1>3. IgnoreChain \in Seq(DOMAIN file)
  BY <1>1, <1>2, AlongNodes DEF IgnoreChain
<1> QED
  BY <1>1, <1>2, <1>3, FoundTyped DEF FindIgnoreFile

(* Links that lead to nodes make a closed list of links.                   *)
LEMMA ClosedBy ==
  ASSUME NEW n \in Nat, NEW q \in Seq(Nat), Len(q) = n, NEW r, DOMAIN r = 1..n,
         r = [a \in 1..n |-> r[a]], \A a \in 1..n : r[a] \in (1..n) \cup {NULL}
  PROVE  Closed(r) /\ r \in Seq(Nat) /\ Len(r) = n
<1>1. \A a \in 1..n : r[a] \in Nat /\ r[a] \in 0..n
  BY DEF NULL
<1>2. DOMAIN q = 1..n
  OBVIOUS
<1>3. r \in Seq(Nat) /\ Len(r) = n
  BY <1>1, <1>2, Replaced
<1> QED
  BY <1>1, <1>3 DEF Closed

LEMMA ClosedLonger ==
  ASSUME NEW n \in Nat, NEW q, Closed(q), Len(q) = n, NEW a \in (1..(n + 1)) \cup {NULL},
         NEW r, DOMAIN r = 1..n, r = [b \in 1..n |-> r[b]],
         \A b \in 1..n : r[b] \in (1..(n + 1)) \cup {NULL}
  PROVE  Closed(Append(r, a)) /\ Len(Append(r, a)) = n + 1
<1>0. q \in Seq(Nat) /\ DOMAIN q = 1..n
  BY DEF Closed
<1>1. \A b \in 1..n : r[b] \in Nat /\ r[b] \in 0..(n + 1)
  BY DEF NULL
<1>2. r \in Seq(Nat) /\ Len(r) = n
  BY <1>0, <1>1, Replaced
<1>3. a \in Nat /\ a \in 0..(n + 1)
  BY DEF NULL
<1> DEFINE p == Append(r, a)
<1>4. /\ p \in Seq(Nat) /\ Len(p) = n + 1 /\ DOMAIN p = 1..(n + 1) /\ p[n + 1] = a
      /\ \A b \in 1..n : p[b] = r[b]
  BY <1>2, <1>3
<1> HIDE DEF p
<1>5. ASSUME NEW b \in 1..(n + 1) PROVE p[b] \in 0..(n + 1)
  <2>1. b \in 1..n \/ b = n + 1
    OBVIOUS
  <2> QED
    BY <1>1, <1>3, <1>4, <2>1
<1>6. Closed(p)
  BY <1>4, <1>5 DEF Closed
<1> QED
  BY <1>4, <1>6 DEF p

LEMMA AddIgnoreShape ==
  ASSUME NEW path \in Files, IgnoreShape, AddIgnoreFile(path)
  PROVE  IgnoreShape'
<1> DEFINE n == Len(file)
           a == n + 1
<1>t. /\ n \in Nat /\ DOMAIN file = 1..n /\ file \in Seq(Files) /\ ignored \in Seq(Files)
      /\ latest \in (1..n) \cup {NULL} /\ fileFreed \subseteq 1..n /\ gap \in BOOLEAN
      /\ \A link \in {previous, following} :
           /\ DOMAIN link = 1..n /\ Len(link) = n /\ link \in Seq(Nat)
           /\ \A b \in 1..n : link[b] \in (1..n) \cup {NULL}
  BY IgnoreNodes DEF IgnoreShape, IgnoreTypeOK
<1>1. dangled' \in BOOLEAN /\ UNCHANGED <<fileFreed, gap>>
  BY DEF AddIgnoreFile, Touching
<1>2. CASE UNCHANGED <<latest, file, previous, following, ignored>>
  <2>1. Closed(previous)' /\ Closed(following)'
    BY <1>2 DEF IgnoreShape, Closed
  <2> QED
    BY <1>1, <1>2, <2>1 DEF IgnoreShape, IgnoreTypeOK
<1>3. CASE ~UNCHANGED <<latest, file, previous, following, ignored>>
  <2> DEFINE r == [b \in DOMAIN following |-> IF b = latest THEN a ELSE following[b]]
  <2>1. /\ file' = Append(file, path) /\ previous' = Append(previous, latest)
        /\ following' = Append(r, NULL)
        /\ latest' = a /\ ignored' = Append(ignored, path)
    BY <1>3 DEF AddIgnoreFile, NewLatest
  <2>2. DOMAIN r = 1..n /\ r = [b \in 1..n |-> r[b]]
    BY <1>t
  <2>3. \A b \in 1..n : r[b] \in (1..a) \cup {NULL}
    <3>1. \A b \in 1..n : following[b] \in (1..a) \cup {NULL} /\ b \in DOMAIN following
      BY <1>t
    <3>2. a \in 1..a
      BY <1>t
    <3> HIDE DEF n, a
    <3> QED
      BY <3>1, <3>2
  <2> HIDE DEF r, n
  <2>4. Closed(following)' /\ Len(following') = a
    <3>1. Closed(following) /\ Len(following) = n
      BY <1>t DEF IgnoreShape
    <3>2. Closed(Append(r, NULL)) /\ Len(Append(r, NULL)) = n + 1
      BY <1>t, <2>2, <2>3, <3>1, ClosedLonger
    <3> QED
      BY <2>1, <3>2 DEF Closed
  <2>5. Closed(previous)' /\ Len(previous') = a
    <3>1. Closed(previous) /\ Len(previous) = n
      BY <1>t DEF IgnoreShape
    <3>2. previous = [b \in 1..n |-> previous[b]] /\ latest \in (1..(n + 1)) \cup {NULL}
      BY <1>t
    <3>3. \A b \in 1..n : previous[b] \in (1..(n + 1)) \cup {NULL}
      BY <1>t
    <3>4. Closed(Append(previous, latest)) /\ Len(Append(previous, latest)) = n + 1
      BY <1>t, <3>1, <3>2, <3>3, ClosedLonger
    <3> QED
      BY <2>1, <3>4 DEF Closed
  <2>6. file' \in Seq(Files) /\ Len(file') = a /\ DOMAIN file' = 1..a /\ ignored' \in Seq(Files)
    <3>1. Len(file) = n
      BY DEF n
    <3> QED
      BY <1>t, <2>1, <3>1
  <2>7. latest' \in 1..a /\ fileFreed' \subseteq 1..a
    BY <1>1, <1>t, <2>1
  <2>8. \A link \in {previous', following'} : link \in Seq(Nat) /\ Len(link) = a
    BY <2>4, <2>5 DEF Closed
  <2> QED
    BY <1>1, <1>t, <2>4, <2>5, <2>6, <2>7, <2>8 DEF IgnoreShape, IgnoreTypeOK
<1> QED
  BY <1>2, <1>3

LEMMA DeleteIgnoreShape ==
  ASSUME NEW path \in Files, IgnoreShape, DeleteIgnoreFile(path)
  PROVE  IgnoreShape'
<1> DEFINE n == Len(file)
           a == FindIgnoreFile(path)
<1>t. /\ n \in Nat /\ DOMAIN file = 1..n /\ file \in Seq(Files) /\ ignored \in Seq(Files)
      /\ latest \in (1..n) \cup {NULL} /\ fileFreed \subseteq 1..n /\ gap \in BOOLEAN
      /\ \A link \in {previous, following} :
           /\ DOMAIN link = 1..n /\ Len(link) = n /\ link \in Seq(Nat)
           /\ \A b \in 1..n : link[b] \in (1..n) \cup {NULL}
      /\ a = NULL \/ a \in 1..n
  BY IgnoreNodes DEF IgnoreShape, IgnoreTypeOK
<1> HIDE DEF n, a
<1>1. /\ a # NULL /\ dangled' \in BOOLEAN
      /\ following' = [b \in DOMAIN following |->
                        IF b = previous[a] THEN following[a] ELSE following[b]]
      /\ previous' = [b \in DOMAIN previous |->
                       IF b = following[a] THEN previous[a] ELSE previous[b]]
      /\ latest' = (IF a = latest THEN previous[a] ELSE latest)
      /\ fileFreed' = fileFreed \cup {a}
      /\ ignored' = RemoveFirst(ignored, path)
      /\ UNCHANGED <<file, gap>>
  BY DEF DeleteIgnoreFile, NextUnlinked, Touching, a
<1>2. a \in 1..n
  BY <1>t, <1>1
<1>3. \A link \in {previous', following'} : Closed(link) /\ link \in Seq(Nat) /\ Len(link) = n
  <2>1. /\ \A b \in 1..n : previous'[b] \in (1..n) \cup {NULL}
        /\ DOMAIN previous' = 1..n /\ previous' = [b \in 1..n |-> previous'[b]]
    BY <1>t, <1>1, <1>2
  <2>2. /\ \A b \in 1..n : following'[b] \in (1..n) \cup {NULL}
        /\ DOMAIN following' = 1..n /\ following' = [b \in 1..n |-> following'[b]]
    BY <1>t, <1>1, <1>2
  <2>3. Closed(previous') /\ previous' \in Seq(Nat) /\ Len(previous') = n
    BY <1>t, <2>1, ClosedBy
  <2>4. Closed(following') /\ following' \in Seq(Nat) /\ Len(following') = n
    BY <1>t, <2>2, ClosedBy
  <2> QED
    BY <2>3, <2>4
<1>4. latest' \in DOMAIN file \cup {NULL} /\ fileFreed' \subseteq DOMAIN file
  BY <1>t, <1>1, <1>2
<1>5. ignored' \in Seq(Files)
  BY <1>t, <1>1, RemovedFirst
<1>6. Closed(previous)' /\ Closed(following)'
  BY <1>3 DEF Closed
<1>7. n = Len(file')
  BY <1>1 DEF n
<1> QED
  BY <1>1, <1>t, <1>3, <1>4, <1>5, <1>6, <1>7 DEF IgnoreShape, IgnoreTypeOK

LEMMA DeleteMmcShape ==
  ASSUME IgnoreShape, DeleteMmcIgnoreFile
  PROVE  IgnoreShape'
<1> DEFINE K == {a \in DOMAIN file : file[a] \notin CardFiles}
           kept == Among(IgnoreChain, K)
           removed == ToSet(IgnoreChain) \ ToSet(kept)
<1> HIDE DEF K
<1>1. /\ dangled' \in BOOLEAN
      /\ latest' = HeadOrNull(kept)
      /\ previous' = Relinked(previous, kept)
      /\ fileFreed' = fileFreed \cup removed
      /\ gap' \in BOOLEAN
      /\ ignored' = Among(ignored, Files \ CardFiles)
      /\ UNCHANGED <<file, following>>
  BY DEF DeleteMmcIgnoreFile, Touching, UnlinkedFiles, IgnoreShape, IgnoreTypeOK, K
<1>t. /\ IgnoreChain \in Seq(DOMAIN file) /\ DOMAIN previous = DOMAIN file
      /\ Len(previous) = Len(file) /\ Closed(previous) /\ ignored \in Seq(Files)
      /\ fileFreed \subseteq DOMAIN file
  BY IgnoreNodes DEF IgnoreShape, IgnoreTypeOK
<1>2. kept \in Seq(DOMAIN file)
  BY <1>t, AmongTyped
<1>3. removed \subseteq DOMAIN file
  BY <1>t DEF ToSet
<1> HIDE DEF kept, removed
<1>4. latest' \in DOMAIN file \cup {NULL}
  BY <1>1, <1>2 DEF HeadOrNull
<1>5. Closed(previous') /\ Len(previous') = Len(file)
  <2>1. kept \in Seq(DOMAIN previous)
    BY <1>t, <1>2
  <2>2. Closed(Relinked(previous, kept)) /\ Len(Relinked(previous, kept)) = Len(previous)
    BY <1>t, <2>1, RelinkedClosed
  <2> QED
    BY <1>1, <1>t, <2>2
<1>6. ignored' \in Seq(Files)
  BY <1>1, <1>t, AmongTyped
<1>7. Closed(previous)' /\ Closed(following)' /\ previous' \in Seq(Nat)
  BY <1>1, <1>5 DEF Closed, IgnoreShape
<1>8. fileFreed' \subseteq DOMAIN file
  BY <1>1, <1>t, <1>3
<1> QED
  BY <1>1, <1>4, <1>5, <1>6, <1>7, <1>8 DEF IgnoreShape, IgnoreTypeOK

-----------------------------------------------------------------------------
(* Both lists, and the states of the two threads.                          *)
Shape ==
  /\ WatchShape /\ IgnoreShape
  /\ main \in {"out", "in", "removing"}
  /\ inoti \in {"run", "phone", "card", "end"}
  /\ inoti = "run" => firstNode # NULL /\ name[firstNode] = Noti

LEMMA InitShape == Init => Shape
<1> SUFFICES ASSUME Init PROVE Shape
  OBVIOUS
<1>1. /\ firstNode = 1 /\ name = <<Noti>> /\ next = <<NULL>> /\ nodeFreed = {}
      /\ adding = [t \in Threads |-> {}] /\ watches = <<Noti>>
      /\ latest = NULL /\ file = <<>> /\ previous = <<>> /\ following = <<>>
      /\ fileFreed = {} /\ dangled = FALSE /\ gap = FALSE /\ ignored = <<>>
      /\ main = "out" /\ inoti = "run"
  BY DEF Init, WatchInit, IgnoreInit
<1>2. WatchShape
  <2>1. /\ next \in Seq(Nat) /\ Len(next) = 1 /\ DOMAIN next = 1..1 /\ next[1] = 0
        /\ name \in Seq(Folders) /\ Len(name) = 1 /\ watches \in Seq(Folders)
    BY <1>1 DEF NULL, Folders
  <2>2. Closed(next) /\ firstNode \in DOMAIN next
    BY <1>1, <2>1 DEF Closed
  <2>3. adding = [t \in Threads |-> adding[t]] /\ \A t \in Threads : adding[t] = {}
    BY <1>1
  <2> QED
    BY <1>1, <2>1, <2>2, <2>3 DEF WatchShape, WatchTypeOK
<1>3. IgnoreShape
  <2>1. \A S : <<>> \in Seq(S) /\ Len(<<>>) = 0
    OBVIOUS
  <2>2. DOMAIN (<<>>) = {}
    OBVIOUS
  <2> QED
    BY <1>1, <2>1, <2>2 DEF IgnoreShape, IgnoreTypeOK, Closed
<1>4. firstNode # NULL /\ name[firstNode] = Noti
  BY <1>1 DEF NULL
<1> QED
  BY <1>1, <1>2, <1>3, <1>4 DEF Shape

LEMMA WatchUnchanged == ASSUME WatchShape, UNCHANGED watchVars PROVE WatchShape'
  BY DEF WatchShape, WatchTypeOK, watchVars, Closed

LEMMA IgnoreUnchanged == ASSUME IgnoreShape, UNCHANGED ignoreVars PROVE IgnoreShape'
  BY DEF IgnoreShape, IgnoreTypeOK, ignoreVars, Closed

LEMMA NotiApart ==
  Noti \in Folders /\ Noti \notin CardFolders /\ CardFolders \subseteq Folders
BY WatchListAssumption DEF WatchListAssumption, Folders

(* The two threads, and every operation of theirs.                         *)
LEMMA NextShape == ASSUME Shape, [Next]_vars PROVE Shape'
<1> DEFINE First == firstNode' = firstNode /\ name'[firstNode] = name[firstNode]
<1>0. /\ WatchShape /\ IgnoreShape
      /\ inoti = "run" => firstNode # NULL /\ name[firstNode] = Noti
      /\ main \in {"out", "in", "removing"} /\ inoti \in {"run", "phone", "card", "end"}
  BY DEF Shape
<1>t. "main" \in Threads /\ "inoti" \in Threads
  BY DEF Threads
<1>w. ASSUME WatchShape', UNCHANGED <<ignoreVars, inoti>>, main' \in {"out", "in", "removing"},
             inoti = "run" => First
      PROVE  Shape'
  BY <1>0, <1>w, IgnoreUnchanged DEF Shape
<1>i. ASSUME IgnoreShape', UNCHANGED <<watchVars, inoti>>, main' \in {"out", "in", "removing"}
      PROVE  Shape'
  BY <1>0, <1>i, WatchUnchanged DEF Shape, watchVars
<1>1. CASE UNCHANGED vars
  BY <1>0, <1>1, <1>i, IgnoreUnchanged DEF vars
<1>2. CASE CardMounted
  BY <1>0, <1>2, <1>w, WatchUnchanged DEF CardMounted, watchVars
<1>3. ASSUME NEW path \in CardFolders, AddCardWatch(path) PROVE Shape'
  <2>1. AddWatch("main", path) /\ UNCHANGED <<ignoreVars, main, inoti>>
    BY <1>3 DEF AddCardWatch
  <2>2. UNCHANGED <<firstNode, name>>
    BY <2>1 DEF AddWatch
  <2> QED
    BY <1>0, <1>t, <1>w, <2>1, <2>2, NotiApart, AddShape
<1>4. CASE CardRemoved
  <2>1. /\ RemoveWatchRecursive("main", CardFolders) /\ main' = "removing"
        /\ UNCHANGED <<ignoreVars, inoti>>
    BY <1>4 DEF CardRemoved
  <2>2. /\ WatchShape' /\ UNCHANGED name
        /\ firstNode # NULL /\ name[firstNode] \notin CardFolders => firstNode' = firstNode
    BY <1>0, <1>t, <2>1, RecursiveShape
  <2> QED
    BY <1>0, <1>w, <2>1, <2>2, NotiApart
<1>5. CASE CardFilesDropped
  <2>1. DeleteMmcIgnoreFile /\ main' = "out" /\ UNCHANGED <<watchVars, inoti>>
    BY <1>5 DEF CardFilesDropped
  <2> QED
    BY <1>0, <1>i, <2>1, DeleteMmcShape
<1>6. ASSUME NEW path \in Folders \ {Noti}, FolderMade(path) PROVE Shape'
  <2>1. AddWatch("inoti", path) /\ UNCHANGED <<ignoreVars, main, inoti>>
    BY <1>6 DEF FolderMade
  <2>2. UNCHANGED <<firstNode, name>>
    BY <2>1 DEF AddWatch
  <2> QED
    BY <1>0, <1>t, <1>w, <2>1, <2>2, AddShape
<1>7. ASSUME NEW path \in Folders \ {Noti}, FolderDeleted(path) PROVE Shape'
  <2>1. inoti = "run" /\ RemoveWatch("inoti", path) /\ UNCHANGED <<ignoreVars, main, inoti>>
    BY <1>7 DEF FolderDeleted, InotiIdle
  <2>2. WatchShape' /\ UNCHANGED name /\ (name[firstNode] # path => firstNode' = firstNode)
    BY <1>0, <1>t, <2>1, RemoveShape
  <2> QED
    BY <1>0, <1>w, <1>7, <2>1, <2>2
<1>8. ASSUME NEW from \in Folders \ {Noti}, NEW to \in Folders \ {Noti}, FolderRenamed(from, to)
      PROVE  Shape'
  <2>1. ModifyWatch("inoti", from, to) /\ UNCHANGED <<ignoreVars, main, inoti>>
    BY <1>8 DEF FolderRenamed
  <2> QED
    BY <1>0, <1>t, <1>w, <2>1, ModifyShape
<1>9. ASSUME NEW t \in Threads, Link(t) PROVE Shape'
  <2>1. LinkWatch(t) /\ UNCHANGED <<ignoreVars, main, inoti>>
    BY <1>9 DEF Link
  <2> QED
    BY <1>0, <1>w, <2>1, LinkShape
<1>10. ASSUME NEW path \in Files, FileStored(path) PROVE Shape'
  <2>1. AddIgnoreFile(path) /\ UNCHANGED <<watchVars, main, inoti>>
    BY <1>10 DEF FileStored
  <2> QED
    BY <1>0, <1>i, <2>1, AddIgnoreShape
<1>11. ASSUME NEW path \in Files, FileDeleted(path) PROVE Shape'
  <2>1. DeleteIgnoreFile(path) /\ UNCHANGED <<watchVars, main, inoti>>
    BY <1>11 DEF FileDeleted
  <2> QED
    BY <1>0, <1>i, <2>1, DeleteIgnoreShape
<1>12. CASE InotiEnd
  <2>1. UNCHANGED <<ignoreVars, main>>
    BY <1>12 DEF InotiEnd
  <2>2. WatchShape' /\ inoti' \in {"phone", "card", "end"}
    <3>1. CASE inoti = "run" /\ inoti' = "phone" /\ RemoveWatch("inoti", Noti)
      BY <1>0, <1>t, <3>1, RemoveShape
    <3>2. CASE inoti = "phone" /\ inoti' = "card" /\ RemoveWatchRecursive("inoti", PhoneFolders)
      BY <1>0, <1>t, <3>2, RecursiveShape
    <3>3. CASE inoti = "card" /\ inoti' = "end" /\ RemoveWatchRecursive("inoti", CardFolders)
      BY <1>0, <1>t, <3>3, RecursiveShape
    <3> QED
      BY <1>12, <3>1, <3>2, <3>3 DEF InotiEnd
  <2> QED
    BY <1>0, <2>1, <2>2, IgnoreUnchanged DEF Shape
<1> QED
  BY <1>1, <1>2, <1>3, <1>4, <1>5, <1>6, <1>7, <1>8, <1>9, <1>10, <1>11, <1>12 DEF Next

(* The links of both lists lead to nodes and their fields have values of   *)
(* their kinds, however the two threads interleave inside                  *)
(* ms_inoti_add_watch.                                                     *)
THEOREM ListsTyping == Spec => []TypeOK
<1>1. Shape => TypeOK
  BY DEF Shape, WatchShape, IgnoreShape, TypeOK
<1> QED
  BY <1>1, InitShape, NextShape, PTL DEF Spec

-----------------------------------------------------------------------------
(* The list of watches is the chain that its history says, and the last    *)
(* node that a search remembered is still the last.                        *)
WatchRight ==
  /\ Chained(next, firstNode, Listed)
  /\ Named(Listed, name) = watches
  /\ ToSet(Listed) \cap nodeFreed = {}
AddRight ==
  /\ \A t, u \in Threads : adding[t] # {} /\ adding[u] # {} => t = u
  /\ \A t \in Threads : \A new \in adding[t] : new.last = LastOrNull(Listed)

LEMMA ListedBecomes ==
  ASSUME WatchShape', NEW s, Chained(next', firstNode', s), Named(s, name') = watches',
         ToSet(s) \cap nodeFreed' = {}
  PROVE  WatchRight' /\ Listed' = s
<1>1. Len(next') \in Nat
  BY DEF WatchShape, Closed
<1>2. Along(next', firstNode') = s
  BY <1>1, Followed
<1> QED
  BY <1>2 DEF WatchRight, Listed

LEMMA AddStep ==
  ASSUME NEW t \in Threads, NEW path, WatchShape, WatchRight, AddRight, AddWatch(t, path), ~AtOnce
  PROVE  WatchRight' /\ AddRight'
<1>1. /\ UNCHANGED <<firstNode, name, next, nodeFreed, watches>>
      /\ adding' = [adding EXCEPT ![t] = {[path |-> path, last |-> LastOrNull(Listed)]}]
      /\ \A u \in Threads \ {t} : adding[u] = {}
  BY DEF AddWatch, MayUse
<1>2. Listed' = Listed
  BY <1>1 DEF Listed
<1>3. WatchRight'
  BY <1>1, <1>2 DEF WatchRight
<1>4. /\ adding'[t] = {[path |-> path, last |-> LastOrNull(Listed)]}
      /\ \A u \in Threads \ {t} : adding'[u] = {}
  BY <1>1 DEF WatchShape
<1>5. ASSUME NEW u \in Threads, NEW new \in adding'[u] PROVE new.last = LastOrNull(Listed')
  BY <1>2, <1>4
<1> QED
  BY <1>3, <1>4, <1>5 DEF AddRight

LEMMA LinkStep ==
  ASSUME NEW t \in Threads, WatchShape, WatchRight, AddRight, LinkWatch(t), WatchShape'
  PROVE  WatchRight' /\ AddRight'
<1> DEFINE s == Listed
           n == Len(next)
<1>1. PICK new \in adding[t] :
        /\ adding' = [adding EXCEPT ![t] = {}]
        /\ \/ /\ name' = Append(name, new.path)
              /\ next' = Linked(new.last)
              /\ firstNode' = IF firstNode = NULL THEN Len(next') ELSE firstNode
              /\ watches' = Append(watches, new.path)
           \/ UNCHANGED <<firstNode, name, next, watches>>
        /\ UNCHANGED nodeFreed
  BY DEF LinkWatch, Linked
<1>2. \A u \in Threads : adding'[u] = {}
  <2>1. \A u \in Threads : u # t => adding[u] = {}
    BY <1>1 DEF AddRight
  <2> QED
    BY <1>1, <2>1 DEF WatchShape
<1>3. AddRight'
  BY <1>2 DEF AddRight
<1>4. CASE UNCHANGED <<firstNode, name, next, watches>>
  BY <1>1, <1>3, <1>4 DEF WatchRight, Listed
<1>5. CASE /\ name' = Append(name, new.path)
           /\ next' = Linked(new.last)
           /\ firstNode' = IF firstNode = NULL THEN Len(next') ELSE firstNode
           /\ watches' = Append(watches, new.path)
  <2>t. /\ n \in Nat /\ DOMAIN next = 1..n /\ name \in Seq(Folders) /\ Len(name) = n
        /\ DOMAIN name = 1..n /\ nodeFreed \subseteq 1..n
        /\ new.path \in Folders /\ new.last = LastOrNull(s)
    <3>1. n \in Nat /\ DOMAIN next = 1..n
      BY DEF WatchShape, Closed
    <3> QED
      BY <3>1 DEF WatchShape, WatchTypeOK, AddRight
  <2>c. /\ Chained(next, firstNode, s) /\ s \in Seq(1..n)
        /\ Len(s) \in Nat /\ DOMAIN s = 1..Len(s)
        /\ \A i \in 1..Len(s) : s[i] \in 1..n
        /\ \A i, j \in 1..Len(s) : s[i] = s[j] => i = j
        /\ firstNode = IF Len(s) = 0 THEN NULL ELSE s[1]
    BY <2>t, ChainedPlaces DEF WatchRight
  <2>l. /\ Len(next') = n + 1 /\ DOMAIN next' = 1..(n + 1) /\ next'[n + 1] = NULL
        /\ \A a \in 1..n : next'[a] = IF firstNode # NULL /\ a = new.last THEN n + 1 ELSE next[a]
    <3>1. Linked(new.last) \in Seq(Nat) /\ Len(Linked(new.last)) = n + 1
      BY LinkedShape
    <3>2. next' \in Seq(Nat) /\ Len(next') = n + 1
      BY <1>5, <3>1
    <3>3. DOMAIN next' = 1..(n + 1)
      BY <3>2
    <3> QED
      BY <1>5, <2>t, <3>2, <3>3, LinkedShape
  <2>r. Named(s, name) = watches /\ ToSet(s) \cap nodeFreed = {}
    BY DEF WatchRight
  <2> HIDE DEF s, n
  <2>1. \A j \in 1..Len(s) : next'[s[j]] = IF j = Len(s) THEN n + 1 ELSE next[s[j]]
    <3> SUFFICES ASSUME NEW j \in 1..Len(s)
                 PROVE  next'[s[j]] = IF j = Len(s) THEN n + 1 ELSE next[s[j]]
      OBVIOUS
    <3>1. 1 \in 1..Len(s) /\ Len(s) # 0 /\ s[1] \in 1..n /\ Len(s) \in 1..Len(s) /\ s # <<>>
      BY <2>c
    <3>2. firstNode # NULL
      BY <2>c, <3>1 DEF NULL
    <3>3. new.last = s[Len(s)]
      BY <2>t, <3>1 DEF LastOrNull, Last
    <3>4. s[j] = new.last <=> j = Len(s)
      BY <2>c, <3>1, <3>3
    <3> QED
      BY <2>c, <2>l, <3>2, <3>4
  <2>2. firstNode' = IF firstNode = NULL THEN n + 1 ELSE firstNode
    BY <1>5, <2>l
  <2>3. Chained(next', firstNode', Append(s, n + 1))
    <3>1. Len(next) = n /\ Behind(next, s, next', n + 1)
      BY <2>1 DEF n, Behind
    <3> QED
      BY <2>t, <2>c, <2>l, <2>2, <3>1, Longer
  <2>4. Named(Append(s, n + 1), name') = watches'
    <3>1. s \in Seq(DOMAIN name)
      BY <2>t, <2>c
    <3> QED
      BY <1>5, <2>t, <2>r, <3>1, NamedLonger
  <2>5. ToSet(Append(s, n + 1)) \cap nodeFreed' = {}
    <3>1. s \in Seq(Nat) /\ n + 1 \in Nat
      BY <2>t, <2>c
    <3>2. ToSet(Append(s, n + 1)) \subseteq ToSet(s) \cup {n + 1}
      BY <2>c, <3>1 DEF ToSet
    <3>3. n + 1 \notin nodeFreed
      BY <2>t
    <3> QED
      BY <1>1, <2>r, <3>2, <3>3
  <2> QED
    BY <1>3, <2>3, <2>4, <2>5, ListedBecomes
<1> QED
  BY <1>1, <1>4, <1>5

LEMMA RecursiveStep ==
  ASSUME NEW t, NEW below, WatchShape, WatchRight, \A u \in Threads : adding[u] = {},
         RemoveWatchRecursive(t, below), WatchShape'
  PROVE  WatchRight' /\ AddRight'
<1> DEFINE K == {a \in DOMAIN name : name[a] \notin below}
           S == Folders \ below
           s == Listed
           kept == Among(s, K)
<1>t. /\ DOMAIN next = DOMAIN name /\ name \in Seq(Folders) /\ next \in Seq(Nat)
      /\ Len(next) \in Nat /\ watches \in Seq(Folders)
  BY ListedNodes DEF WatchShape, WatchTypeOK
<1>c. /\ s \in Seq(DOMAIN next) /\ Len(s) \in Nat /\ DOMAIN s = 1..Len(s) /\ Apart(s)
      /\ Len(s) <= Len(next) /\ \A i \in DOMAIN s : s[i] \in DOMAIN next
      /\ Named(s, name) = watches /\ ToSet(s) \cap nodeFreed = {}
  BY ChainedPlaces DEF WatchRight, Chained
<1>k. \A i \in DOMAIN s : s[i] \in K <=> watches[i] \in S
  <2>1. ASSUME NEW i \in DOMAIN s
        PROVE  /\ watches[i] = name[s[i]]
               /\ name[s[i]] \in Folders /\ s[i] \in DOMAIN name
    <3>1. s[i] \in DOMAIN name
      BY <1>c, <1>t
    <3>2. Named(s, name)[i] = name[s[i]]
      BY DEF Named
    <3> QED
      BY <1>c, <1>t, <3>1, <3>2
  <2> HIDE DEF s
  <2> QED
    BY <2>1
<1> HIDE DEF K, S, s
<1>1. /\ firstNode' = HeadOrNull(kept)
      /\ next' = Relinked(next, kept)
      /\ nodeFreed' = nodeFreed \cup (ToSet(s) \ ToSet(kept))
      /\ watches' = Among(watches, S)
      /\ UNCHANGED <<name, adding>>
  BY DEF RemoveWatchRecursive, K, S, s
<1>2. /\ kept \in Seq(DOMAIN next) /\ Len(kept) \in Nat /\ Len(kept) <= Len(s) /\ Apart(kept)
      /\ ToSet(kept) = ToSet(s) \cap K
  BY <1>c, PickedNodes
<1>3. Among(watches, S) = Named(kept, name)
  <2>1. Matches(s, K, watches, S)
    BY <1>k DEF Matches
  <2> QED
    BY <1>c, <1>t, <2>1, PickedNames
<1> HIDE DEF kept
<1>4. Chained(next', firstNode', kept)
  <2>1. Len(kept) <= Len(next)
    BY <1>c, <1>t, <1>2
  <2> QED
    BY <1>1, <1>2, <1>t, <2>1, Kept
<1>5. ToSet(kept) \cap nodeFreed' = {}
  BY <1>1, <1>2, <1>c
<1>6. Named(kept, name') = watches'
  BY <1>1, <1>3
<1>7. WatchRight'
  BY <1>4, <1>5, <1>6, ListedBecomes
<1>8. AddRight'
  BY <1>1 DEF AddRight
<1> QED
  BY <1>7, <1>8

(* The place at which the search ends, which is the one that the history   *)
(* loses too.                                                              *)
LEMMA FirstPlace ==
  ASSUME NEW T, NEW s \in Seq(T), NEW label, NEW U, NEW w \in Seq(U), w = Named(s, label), NEW x
  PROVE  \/ /\ FoundIn(s, label, x) = NULL /\ RemoveFirst(w, x) = w
            /\ \A i \in 1..Len(s) : w[i] # x
         \/ \E i \in 1..Len(s) : /\ FoundIn(s, label, x) = s[i] /\ label[s[i]] = x
                                 /\ RemoveFirst(w, x) = Without(w, i)
<1>1. /\ Len(s) \in Nat /\ DOMAIN s = 1..Len(s) /\ Len(w) = Len(s)
      /\ \A i \in 1..Len(s) : w[i] = label[s[i]]
  BY DEF Named
<1>2. CASE FoundIn(s, label, x) = NULL /\ \A i \in 1..Len(s) : label[s[i]] # x
  <2>1. \A i \in 1..Len(w) : w[i] # x
    BY <1>1, <1>2
  <2> QED
    BY <1>1, <1>2, <2>1, RemovedFirst
<1>3. CASE \E i \in 1..Len(s) : /\ FoundIn(s, label, x) = s[i] /\ label[s[i]] = x
                                /\ \A j \in 1..(i - 1) : label[s[j]] # x
  <2>1. PICK i \in 1..Len(s) : /\ FoundIn(s, label, x) = s[i] /\ label[s[i]] = x
                               /\ \A j \in 1..(i - 1) : label[s[j]] # x
    BY <1>3
  <2>2. i \in 1..Len(w) /\ w[i] = x /\ \A j \in 1..(i - 1) : w[j] # x
    <3>1. \A j \in 1..(i - 1) : j \in 1..Len(s)
      BY <1>1
    <3> QED
      BY <1>1, <2>1, <3>1
  <2>3. RemoveFirst(w, x) = Without(w, i)
    BY <2>2, RemovedFirst
  <2> QED
    BY <2>1, <2>3
<1> QED
  BY <1>2, <1>3, Found

(* No other node is left at a node's place.                                *)
LEMMA WithoutNodes ==
  ASSUME NEW T, NEW s \in Seq(T), NEW i \in 1..Len(s), Apart(s)
  PROVE  ToSet(Without(s, i)) = ToSet(s) \ {s[i]}
<1> DEFINE n == Len(s)
           w == Without(s, i)
<1>1. n \in Nat \ {0} /\ DOMAIN s = 1..n /\ \A j, k \in 1..n : s[j] = s[k] => j = k
  BY DEF Apart
<1>2. /\ w \in Seq(T) /\ Len(w) = n - 1
      /\ \A k \in 1..(n - 1) : w[k] = IF k < i THEN s[k] ELSE s[k + 1]
  BY Withoutness
<1>i. i \in 1..n
  OBVIOUS
<1> HIDE DEF w, n
<1>3. DOMAIN w = 1..(n - 1)
  BY <1>2
<1>4. ASSUME NEW k \in 1..(n - 1) PROVE w[k] \in ToSet(s) \ {s[i]}
  <2>1. CASE k < i
    <3>1. k \in 1..n /\ k # i /\ w[k] = s[k]
      BY <1>1, <1>2, <2>1
    <3> QED
      BY <1>1, <1>i, <3>1 DEF ToSet
  <2>2. CASE ~(k < i)
    <3>1. k + 1 \in 1..n /\ k + 1 # i /\ w[k] = s[k + 1]
      BY <1>1, <1>2, <1>i, <2>2
    <3> QED
      BY <1>1, <1>i, <3>1 DEF ToSet
  <2> QED
    BY <2>1, <2>2
<1>5. ASSUME NEW k \in 1..n, k # i PROVE s[k] \in ToSet(w)
  <2>1. CASE k < i
    <3>1. k \in 1..(n - 1) /\ w[k] = s[k]
      BY <1>1, <1>2, <1>i, <2>1
    <3> QED
      BY <1>3, <3>1 DEF ToSet
  <2>2. CASE k > i
    <3>1. k - 1 \in 1..(n - 1) /\ ~(k - 1 < i) /\ (k - 1) + 1 = k
      BY <1>1, <1>i, <2>2
    <3>2. w[k - 1] = s[k]
      BY <1>2, <3>1
    <3> QED
      BY <1>3, <3>1, <3>2 DEF ToSet
  <2> QED
    BY <1>5, <1>i, <2>1, <2>2
<1> QED
  BY <1>1, <1>3, <1>4, <1>5 DEF ToSet, w

LEMMA RemoveStep ==
  ASSUME NEW t, NEW path, WatchShape, WatchRight, \A u \in Threads : adding[u] = {},
         firstNode # NULL, RemoveWatch(t, path), WatchShape'
  PROVE  WatchRight' /\ AddRight'
<1> DEFINE s == Listed
           a == FoundIn(s, name, path)
<1>t. /\ DOMAIN next = DOMAIN name /\ name \in Seq(Folders) /\ next \in Seq(Nat)
      /\ Len(next) \in Nat /\ watches \in Seq(Folders)
  BY ListedNodes DEF WatchShape, WatchTypeOK
<1>c. /\ s \in Seq(DOMAIN next) /\ Len(s) \in Nat /\ DOMAIN s = 1..Len(s)
      /\ \A i \in 1..Len(s) : s[i] \in DOMAIN next
      /\ \A i, j \in 1..Len(s) : s[i] = s[j] => i = j
      /\ firstNode = (IF Len(s) = 0 THEN NULL ELSE s[1])
      /\ \A i \in 1..Len(s) : next[s[i]] = IF i < Len(s) THEN s[i + 1] ELSE NULL
      /\ Chained(next, firstNode, s) /\ Apart(s)
      /\ Named(s, name) = watches /\ ToSet(s) \cap nodeFreed = {}
  BY ChainedPlaces DEF WatchRight, Chained
<1>0. \A i \in 1..Len(s) : s[i] # NULL
  BY <1>c, <1>t DEF NULL
<1>1. AddRight'
  BY DEF RemoveWatch, AddRight
<1>2. /\ IF a = firstNode
         THEN firstNode' = next[a] /\ UNCHANGED <<next, nodeFreed>>
         ELSE /\ next' = IF a = NULL THEN next
                         ELSE Unlinked(CHOOSE b \in ToSet(s) : next[b] = a, a)
              /\ nodeFreed' = nodeFreed \cup ({a} \ {NULL})
              /\ UNCHANGED firstNode
      /\ watches' = RemoveFirst(watches, path)
      /\ UNCHANGED name
  BY DEF RemoveWatch
<1> HIDE DEF s, a
<1>3. \/ a = NULL /\ RemoveFirst(watches, path) = watches
      \/ \E i \in 1..Len(s) : a = s[i] /\ RemoveFirst(watches, path) = Without(watches, i)
  BY <1>c, <1>t, FirstPlace DEF a
<1>4. CASE a = NULL /\ RemoveFirst(watches, path) = watches
  <2>1. /\ next' = next /\ nodeFreed' = nodeFreed /\ firstNode' = firstNode
        /\ watches' = watches /\ name' = name
    BY <1>2, <1>4
  <2> QED
    BY <1>1, <1>c, <2>1, ListedBecomes
<1>5. CASE \E i \in 1..Len(s) : a = s[i] /\ RemoveFirst(watches, path) = Without(watches, i)
  <2>1. PICK i \in 1..Len(s) : a = s[i] /\ RemoveFirst(watches, path) = Without(watches, i)
    BY <1>5
  <2>2. Named(Without(s, i), name') = watches'
    BY <1>2, <1>c, <2>1, NamedCut
  <2>3. ToSet(Without(s, i)) = ToSet(s) \ {a}
    BY <1>c, <2>1, WithoutNodes
  <2>4. ToSet(Without(s, i)) \cap nodeFreed' = {}
    BY <1>2, <1>c, <2>3
  <2>f. Len(s) # 0 /\ firstNode = s[1] /\ 1 \in 1..Len(s)
    BY <1>c
  <2>5. CASE i = 1
    <3>1. firstNode' = next[s[1]] /\ next' = next
      BY <1>2, <2>1, <2>5, <2>f
    <3>2. Chained(next', firstNode', Without(s, i))
      <4>1. \A j \in 1..Len(s) : j # i => next[s[j]] = IF j = i - 1 THEN next[s[i]] ELSE next[s[j]]
        BY <2>5
      <4>2. Chained(next, next[s[1]], Without(s, i))
        BY <1>c, <1>t, <2>5, <4>1, Cut
      <4> QED
        BY <3>1, <4>2
    <3> QED
      BY <1>1, <2>2, <2>4, <3>2, ListedBecomes
  <2>6. CASE i # 1
    <3> DEFINE p == s[i - 1]
    <3>1. i - 1 \in 1..Len(s) /\ (i - 1) + 1 = i /\ i - 1 < Len(s) /\ i - 1 # i
      BY <1>c, <2>6
    <3>2. next[p] = a /\ p \in ToSet(s) /\ p \in DOMAIN next
      BY <1>c, <2>1, <3>1 DEF ToSet
    <3>3. ASSUME NEW b \in ToSet(s), next[b] = a PROVE b = p
      <4>1. PICK j \in 1..Len(s) : b = s[j]
        BY <1>c DEF ToSet
      <4>2. j < Len(s) /\ s[j + 1] = s[i] /\ j + 1 \in 1..Len(s)
        BY <1>0, <1>c, <2>1, <3>3, <4>1
      <4>3. j + 1 = i
        BY <1>c, <4>2
      <4>4. j = i - 1
        BY <4>3
      <4> QED
        BY <4>1, <4>4
    <3>4. (CHOOSE b \in ToSet(s) : next[b] = a) = p
      BY <3>2, <3>3
    <3>5. a # firstNode /\ a # NULL
      BY <1>0, <1>c, <2>1, <2>6, <2>f
    <3>6. next' = [next EXCEPT ![p] = next[a]] /\ firstNode' = firstNode
      BY <1>2, <3>4, <3>5 DEF Unlinked
    <3> HIDE DEF p
    <3>7. DOMAIN next' = DOMAIN next /\ Len(next') = Len(next)
      <4>1. next' = [b \in DOMAIN next |-> next'[b]] /\ DOMAIN next' = DOMAIN next
        BY <3>6
      <4>2. DOMAIN next' = 1..Len(next)
        BY <1>t, <4>1
      <4> QED
        BY <1>t, <4>1, <4>2
    <3>8. ASSUME NEW j \in 1..Len(s), j # i
          PROVE  next'[s[j]] = IF j = i - 1 THEN next[s[i]] ELSE next[s[j]]
      <4>1. s[j] = p <=> j = i - 1
        BY <1>c, <3>1 DEF p
      <4>2. s[j] \in DOMAIN next
        BY <1>c
      <4> QED
        BY <2>1, <3>2, <3>6, <4>1, <4>2
    <3>9. Chained(next', firstNode', Without(s, i))
      BY <1>c, <1>t, <2>6, <3>6, <3>7, <3>8, Cut
    <3> QED
      BY <1>1, <2>2, <2>4, <3>9, ListedBecomes
  <2> QED
    BY <2>5, <2>6
<1> QED
  BY <1>3, <1>4, <1>5

LEMMA RenameStep ==
  ASSUME NEW from, NEW to, WatchShape, WatchRight, AddRight, WatchShape',
         NEW a, a = FoundIn(Listed, name, from), a # NULL,
         name' = [name EXCEPT ![a] = to],
         watches' = [watches EXCEPT ![CHOOSE i \in DOMAIN Listed : Listed[i] = a] = to],
         UNCHANGED <<firstNode, next, nodeFreed, adding>>
  PROVE  WatchRight' /\ AddRight'
<1> DEFINE s == Listed
           here == CHOOSE i \in DOMAIN s : s[i] = a
<1>t. DOMAIN next = DOMAIN name /\ name \in Seq(Folders) /\ watches \in Seq(Folders)
  BY ListedNodes DEF WatchShape, WatchTypeOK
<1>c. /\ s \in Seq(DOMAIN next) /\ Len(s) \in Nat /\ DOMAIN s = 1..Len(s)
      /\ \A i \in 1..Len(s) : s[i] \in DOMAIN next
      /\ \A i, j \in 1..Len(s) : s[i] = s[j] => i = j
      /\ Named(s, name) = watches
  BY ChainedPlaces DEF WatchRight
<1>1. Listed' = s
  BY DEF Listed
<1>2. PICK i \in 1..Len(s) : a = s[i]
  BY <1>c, Found
<1>3. here = i
  BY <1>2, <1>c
<1>4. watches' = [watches EXCEPT ![here] = to]
  OBVIOUS
<1>s. Chained(next, firstNode, s) /\ ToSet(s) \cap nodeFreed = {}
  BY DEF WatchRight
<1> HIDE DEF s, here
<1>5. Named(s, name') = watches'
  <2>1. watches = [j \in DOMAIN s |-> name[s[j]]]
    BY <1>c DEF Named
  <2>2. watches' = [j \in DOMAIN s |-> IF j = i THEN to ELSE name[s[j]]]
    BY <1>3, <1>4, <2>1
  <2>3. \A j \in DOMAIN s : name'[s[j]] = IF j = i THEN to ELSE name[s[j]]
    BY <1>2, <1>c, <1>t
  <2> QED
    BY <2>2, <2>3 DEF Named
<1>6. WatchRight'
  BY <1>1, <1>5, <1>s DEF WatchRight
<1>7. AddRight'
  BY <1>1 DEF AddRight, s
<1> QED
  BY <1>6, <1>7

LEMMA NobodyAdds ==
  ASSUME ~AtOnce, NEW t \in Threads, MayUse(t), adding[t] = {}
  PROVE  \A u \in Threads : adding[u] = {}
BY DEF MayUse

LEMMA WatchRightUnchanged ==
  ASSUME WatchRight, AddRight, UNCHANGED watchVars PROVE WatchRight' /\ AddRight'
<1>1. Listed' = Listed
  BY DEF Listed, watchVars
<1> QED
  BY <1>1 DEF WatchRight, AddRight, watchVars

LEMMA NextWatches ==
  ASSUME ~AtOnce, Shape, WatchRight, AddRight, [Next]_vars
  PROVE  WatchRight' /\ AddRight'
<1>0. WatchShape /\ WatchShape' /\ (inoti = "run" => firstNode # NULL)
  BY NextShape DEF Shape
<1>t. "main" \in Threads /\ "inoti" \in Threads
  BY DEF Threads
<1>u. ASSUME UNCHANGED watchVars PROVE WatchRight' /\ AddRight'
  BY <1>u, WatchRightUnchanged
<1>1. CASE UNCHANGED vars
  BY <1>1, <1>u DEF vars
<1>2. CASE CardMounted \/ CardFilesDropped
  BY <1>2, <1>u DEF CardMounted, CardFilesDropped
<1>3. ASSUME NEW path \in CardFolders, AddCardWatch(path) PROVE WatchRight' /\ AddRight'
  <2>1. AddWatch("main", path)
    BY <1>3 DEF AddCardWatch
  <2> QED
    BY <1>0, <1>t, <2>1, AddStep
<1>4. CASE CardRemoved
  <2>1. RemoveWatchRecursive("main", CardFolders) /\ adding["main"] = {} /\ MayUse("main")
    BY <1>4 DEF CardRemoved, RemoveWatchRecursive
  <2>2. \A u \in Threads : adding[u] = {}
    BY <1>t, <2>1, NobodyAdds
  <2> QED
    BY <1>0, <2>1, <2>2, RecursiveStep
<1>5. ASSUME NEW path \in Folders \ {Noti}, FolderMade(path) PROVE WatchRight' /\ AddRight'
  <2>1. AddWatch("inoti", path)
    BY <1>5 DEF FolderMade
  <2> QED
    BY <1>0, <1>t, <2>1, AddStep
<1>6. ASSUME NEW path \in Folders \ {Noti}, FolderDeleted(path) PROVE WatchRight' /\ AddRight'
  <2>1. inoti = "run" /\ adding["inoti"] = {} /\ RemoveWatch("inoti", path) /\ MayUse("inoti")
    BY <1>6 DEF FolderDeleted, InotiIdle, RemoveWatch
  <2>2. \A u \in Threads : adding[u] = {}
    BY <1>t, <2>1, NobodyAdds
  <2> QED
    BY <1>0, <2>1, <2>2, RemoveStep
<1>7. ASSUME NEW from \in Folders \ {Noti}, NEW to \in Folders \ {Noti}, FolderRenamed(from, to)
      PROVE  WatchRight' /\ AddRight'
  <2>1. ModifyWatch("inoti", from, to)
    BY <1>7 DEF FolderRenamed
  <2>2. CASE AddWatch("inoti", to)
    BY <1>0, <1>t, <2>2, AddStep
  <2>3. CASE ~AddWatch("inoti", to)
    <3> DEFINE a == FoundIn(Listed, name, from)
    <3>1. PICK b : b = a
      OBVIOUS
    <3>2. /\ a \notin {NULL, firstNode}
          /\ name' = [name EXCEPT ![a] = to]
          /\ watches' = [watches EXCEPT ![CHOOSE i \in DOMAIN Listed : Listed[i] = a] = to]
          /\ UNCHANGED <<firstNode, next, nodeFreed, adding>>
      BY <2>1, <2>3 DEF ModifyWatch
    <3> QED
      BY <1>0, <3>2, RenameStep
  <2> QED
    BY <2>2, <2>3
<1>8. ASSUME NEW t \in Threads, Link(t) PROVE WatchRight' /\ AddRight'
  BY <1>0, <1>8, LinkStep DEF Link
<1>9. ASSUME NEW path \in Files, FileStored(path) \/ FileDeleted(path)
      PROVE  WatchRight' /\ AddRight'
  BY <1>9, <1>u DEF FileStored, FileDeleted
<1>10. CASE InotiEnd
  <2>1. MayUse("inoti") /\ adding["inoti"] = {}
    BY <1>10 DEF InotiEnd, RemoveWatch, RemoveWatchRecursive
  <2>2. \A u \in Threads : adding[u] = {}
    BY <1>t, <2>1, NobodyAdds
  <2>3. CASE inoti = "run" /\ RemoveWatch("inoti", Noti)
    BY <1>0, <2>2, <2>3, RemoveStep
  <2>4. CASE RemoveWatchRecursive("inoti", PhoneFolders)
    BY <1>0, <2>2, <2>4, RecursiveStep
  <2>5. CASE RemoveWatchRecursive("inoti", CardFolders)
    BY <1>0, <2>2, <2>5, RecursiveStep
  <2> QED
    BY <1>10, <2>3, <2>4, <2>5 DEF InotiEnd
<1> QED
  BY <1>1, <1>2, <1>3, <1>4, <1>5, <1>6, <1>7, <1>8, <1>9, <1>10 DEF Next

LEMMA InitWatches == Init => WatchRight /\ AddRight
<1> SUFFICES ASSUME Init PROVE WatchRight /\ AddRight
  OBVIOUS
<1>1. /\ firstNode = 1 /\ name = <<Noti>> /\ next = <<NULL>> /\ nodeFreed = {}
      /\ adding = [t \in Threads |-> {}] /\ watches = <<Noti>>
  BY DEF Init, WatchInit
<1> DEFINE s == <<1>>
<1>2. /\ Len(s) = 1 /\ DOMAIN s = 1..1 /\ s[1] = 1 /\ s # <<>> /\ Head(s) = 1
      /\ Len(next) = 1 /\ DOMAIN next = 1..1 /\ next[1] = NULL /\ name[1] = Noti
      /\ \A i \in 1..1 : i = 1
  BY <1>1
<1>3. s \in Seq(DOMAIN next)
  BY <1>2
<1> HIDE DEF s
<1>4. Chained(next, firstNode, s)
  BY <1>1, <1>2, <1>3 DEF Chained, Apart, HeadOrNull
<1>5. Listed = s
  BY <1>2, <1>4, Followed DEF Listed
<1>6. Named(s, name) = watches
  <2>1. watches = [i \in 1..1 |-> Noti]
    BY <1>1
  <2> QED
    BY <1>2, <2>1 DEF Named
<1> QED
  BY <1>1, <1>4, <1>5, <1>6 DEF WatchRight, AddRight

(* As long as neither thread uses the list between the two steps of the    *)
(* other's ms_inoti_add_watch, the list holds the folders that were added  *)
(* and neither removed nor renamed, in their order, and no freed node.     *)
THEOREM WatchesStayListed ==
  ASSUME ~AtOnce
  PROVE  Spec => []WatchesAreListed
<1> DEFINE IInv == Shape /\ WatchRight /\ AddRight
<1>1. Init => IInv
  BY InitShape, InitWatches
<1>2. IInv /\ [Next]_vars => IInv'
  BY NextShape, NextWatches
<1>3. IInv => WatchesAreListed
  BY DEF WatchRight, WatchesAreListed, Named
<1> QED
  BY <1>1, <1>2, <1>3, PTL DEF Spec

-----------------------------------------------------------------------------
(* The ignore list, as long as no freed node was touched: the chain along  *)
(* previous is what the history says, and next goes back along it, or, if  *)
(* a card file was freed behind a phone file, to a freed node.             *)
Back(s, i) == IF i = 1 THEN NULL ELSE s[i - 1]
Backwards(s, links, hole, freed) ==
  \A i \in 1..Len(s) : links[s[i]] = Back(s, i) \/ (hole /\ links[s[i]] \in freed)

IgnoreRight ==
  /\ Chained(previous, latest, IgnoreChain)
  /\ Named(IgnoreChain, file) = Reverse(ignored)
  /\ Apart(ignored)
  /\ ToSet(IgnoreChain) \cap fileFreed = {}
  /\ Backwards(IgnoreChain, following, gap, fileFreed)

IgnoreInv == IF dangled THEN gap ELSE IgnoreRight

LEMMA IgnoreBecomes ==
  ASSUME IgnoreShape', NEW s, Chained(previous', latest', s), Named(s, file') = Reverse(ignored'),
         Apart(ignored'), ToSet(s) \cap fileFreed' = {},
         Backwards(s, following', gap', fileFreed')
  PROVE  IgnoreRight'
<1>1. Len(previous') \in Nat
  BY DEF IgnoreShape, Closed
<1>2. Along(previous', latest') = s
  BY <1>1, Followed
<1> QED
  BY <1>2 DEF IgnoreRight, IgnoreChain

(* What the other lemmas need of the chain.                                *)
LEMMA IgnoreFacts ==
  ASSUME IgnoreShape, IgnoreRight, NEW s, s = IgnoreChain, NEW n, n = Len(file)
  PROVE  /\ n \in Nat /\ DOMAIN file = 1..n /\ file \in Seq(Files)
         /\ DOMAIN previous = 1..n /\ Len(previous) = n /\ previous \in Seq(Nat)
         /\ DOMAIN following = 1..n /\ Len(following) = n
         /\ ignored \in Seq(Files) /\ fileFreed \subseteq 1..n
         /\ s \in Seq(1..n) /\ Len(s) \in Nat /\ DOMAIN s = 1..Len(s) /\ Len(s) <= n
         /\ \A i \in 1..Len(s) : s[i] \in 1..n /\ s[i] # NULL
         /\ \A i, j \in 1..Len(s) : s[i] = s[j] => i = j
         /\ latest = (IF Len(s) = 0 THEN NULL ELSE s[1])
         /\ \A i \in 1..Len(s) : previous[s[i]] = IF i < Len(s) THEN s[i + 1] ELSE NULL
         /\ Chained(previous, latest, s) /\ Apart(s)
         /\ Named(s, file) = Reverse(ignored) /\ Reverse(ignored) \in Seq(Files)
         /\ Len(ignored) = Len(s)
         /\ \A i \in 1..Len(s) : file[s[i]] = ignored[(Len(s) - i) + 1]
         /\ Apart(ignored) /\ ToSet(s) \cap fileFreed = {}
         /\ Backwards(s, following, gap, fileFreed)
<1>1. /\ n \in Nat /\ DOMAIN file = 1..n /\ file \in Seq(Files) /\ ignored \in Seq(Files)
      /\ fileFreed \subseteq 1..n
      /\ DOMAIN previous = 1..n /\ Len(previous) = n /\ previous \in Seq(Nat)
      /\ DOMAIN following = 1..n /\ Len(following) = n
  BY IgnoreNodes DEF IgnoreShape, IgnoreTypeOK
<1>2. /\ Chained(previous, latest, s) /\ Apart(s) /\ Named(s, file) = Reverse(ignored)
      /\ Apart(ignored) /\ ToSet(s) \cap fileFreed = {}
      /\ Backwards(s, following, gap, fileFreed)
  BY DEF IgnoreRight, Chained
<1>3. /\ s \in Seq(1..n) /\ Len(s) \in Nat /\ DOMAIN s = 1..Len(s) /\ Len(s) <= n
      /\ \A i \in 1..Len(s) : s[i] \in 1..n
      /\ \A i, j \in 1..Len(s) : s[i] = s[j] => i = j
      /\ latest = (IF Len(s) = 0 THEN NULL ELSE s[1])
      /\ \A i \in 1..Len(s) : previous[s[i]] = IF i < Len(s) THEN s[i + 1] ELSE NULL
  <2>1. /\ s \in Seq(DOMAIN previous) /\ Len(s) \in Nat /\ DOMAIN s = 1..Len(s)
        /\ Len(s) <= Len(previous)
        /\ \A i \in 1..Len(s) : s[i] \in DOMAIN previous
        /\ \A i, j \in 1..Len(s) : s[i] = s[j] => i = j
        /\ latest = IF Len(s) = 0 THEN NULL ELSE s[1]
        /\ \A i \in 1..Len(s) : previous[s[i]] = IF i < Len(s) THEN s[i + 1] ELSE NULL
    <3>1. Chained(previous, latest, s)
      BY <1>2
    <3> QED
      BY ONLY <3>1, ChainedPlaces
  <2> QED
    BY <1>1, <2>1
<1>4. \A i \in 1..Len(s) : s[i] # NULL
  BY <1>1, <1>3 DEF NULL
<1>5. Reverse(ignored) = [i \in 1..Len(ignored) |-> ignored[(Len(ignored) - i) + 1]]
  BY DEF Reverse
<1>6. Named(s, file) = [i \in 1..Len(s) |-> file[s[i]]]
  BY <1>3 DEF Named
<1>7. Len(ignored) = Len(s)
  <2>1. DOMAIN Reverse(ignored) = 1..Len(ignored) /\ Len(ignored) \in Nat
    BY <1>1, <1>5
  <2>2. 1..Len(ignored) = 1..Len(s)
    BY <1>2, <1>6, <2>1
  <2> QED
    BY <1>3, <2>1, <2>2
<1>8. \A i \in 1..Len(s) : file[s[i]] = ignored[(Len(s) - i) + 1]
  BY <1>2, <1>5, <1>6, <1>7
<1>9. Reverse(ignored) \in Seq(Files)
  <2>1. \A i \in 1..Len(s) : file[s[i]] \in Files
    BY <1>1, <1>3
  <2> QED
    BY <1>2, <1>3, <1>6, <2>1
<1> QED
  BY <1>1, <1>2, <1>3, <1>4, <1>7, <1>8, <1>9

LEMMA AddIgnoreStep ==
  ASSUME NEW path \in Files, IgnoreShape, IgnoreRight, AddIgnoreFile(path), IgnoreShape'
  PROVE  ~dangled' /\ IgnoreRight'
<1> DEFINE s == IgnoreChain
           n == Len(file)
<1>c. /\ n \in Nat /\ DOMAIN file = 1..n /\ file \in Seq(Files)
      /\ DOMAIN previous = 1..n /\ Len(previous) = n /\ previous \in Seq(Nat)
      /\ DOMAIN following = 1..n /\ Len(following) = n
      /\ ignored \in Seq(Files) /\ fileFreed \subseteq 1..n
      /\ s \in Seq(1..n) /\ Len(s) \in Nat /\ DOMAIN s = 1..Len(s) /\ Len(s) <= n
      /\ \A i \in 1..Len(s) : s[i] \in 1..n /\ s[i] # NULL
      /\ \A i, j \in 1..Len(s) : s[i] = s[j] => i = j
      /\ latest = (IF Len(s) = 0 THEN NULL ELSE s[1])
      /\ Chained(previous, latest, s)
      /\ Named(s, file) = Reverse(ignored)
      /\ Len(ignored) = Len(s)
      /\ \A i \in 1..Len(s) : file[s[i]] = ignored[(Len(s) - i) + 1]
      /\ Apart(ignored) /\ ToSet(s) \cap fileFreed = {}
      /\ Backwards(s, following, gap, fileFreed)
  BY IgnoreFacts
<1>1. ~dangled' /\ UNCHANGED <<fileFreed, gap>>
  <2>1. dangled' = (Searched(s, file, path) \cap fileFreed # {})
    BY DEF AddIgnoreFile, Touching
  <2>2. Searched(s, file, path) \subseteq ToSet(s)
    BY DEF Searched, ToSet
  <2>3. UNCHANGED <<fileFreed, gap>>
    BY DEF AddIgnoreFile
  <2> QED
    BY <1>c, <2>1, <2>2, <2>3
<1>2. CASE FindIgnoreFile(path) # NULL
  <2>1. UNCHANGED <<latest, file, previous, following, ignored>>
    BY <1>2 DEF AddIgnoreFile
  <2>2. IgnoreChain' = IgnoreChain
    BY <2>1 DEF IgnoreChain
  <2> QED
    BY <1>1, <2>1, <2>2 DEF IgnoreRight
<1>3. CASE FindIgnoreFile(path) = NULL
  <2> DEFINE r == [b \in DOMAIN following |-> IF b = latest THEN n + 1 ELSE following[b]]
             t == <<n + 1>> \o s
  <2>1. /\ file' = Append(file, path) /\ previous' = Append(previous, latest)
        /\ following' = Append(r, NULL) /\ latest' = n + 1
        /\ ignored' = Append(ignored, path)
    BY <1>3 DEF AddIgnoreFile, NewLatest
  <2>2. \A i \in 1..Len(s) : file[s[i]] # path
    <3>1. FoundIn(s, file, path) = NULL /\ s \in Seq(1..n) /\ \A i \in 1..Len(s) : s[i] # NULL
      BY <1>3, <1>c DEF FindIgnoreFile
    <3> HIDE DEF s
    <3> QED
      BY <3>1, Found
  <2>r. \A b \in 1..n : r[b] = IF b = latest THEN n + 1 ELSE following[b]
    BY <1>c
  <2>d. DOMAIN r = 1..n /\ r = [b \in 1..n |-> r[b]]
    BY <1>c
  <2>n. Len(file) = n
    OBVIOUS
  <2> HIDE DEF s, n, r
  <2>3. Apart(ignored')
    <3> DEFINE m == Len(ignored)
    <3>1. \A k \in 1..m : ignored[k] # path
      <4> SUFFICES ASSUME NEW k \in 1..m, ignored[k] = path PROVE FALSE
        OBVIOUS
      <4>1. (m - k) + 1 \in 1..Len(s) /\ (Len(s) - ((m - k) + 1)) + 1 = k
        BY <1>c
      <4> QED
        BY <1>c, <2>2, <4>1
    <3>i. ignored \in Seq(Files) /\ Apart(ignored) /\ ignored' = Append(ignored, path)
      BY <1>c, <2>1
    <3>2. /\ DOMAIN ignored' = 1..(m + 1) /\ ignored'[m + 1] = path
          /\ \A k \in 1..m : ignored'[k] = ignored[k]
      BY ONLY <3>i, path \in Files
    <3>3. \A j, k \in 1..m : ignored[j] = ignored[k] => j = k
      BY ONLY <3>i DEF Apart
    <3>4. m \in Nat
      BY ONLY <3>i
    <3> HIDE DEF m
    <3>5. \A k \in 1..(m + 1) : k \in 1..m \/ k = m + 1
      BY <3>4
    <3> QED
      BY <3>1, <3>2, <3>3, <3>5 DEF Apart
  <2>4. Chained(previous', latest', t)
    <3>1. /\ DOMAIN previous' = 1..(n + 1) /\ Len(previous') = n + 1 /\ previous'[n + 1] = latest
          /\ \A b \in 1..n : previous'[b] = previous[b]
      <4>1. latest \in Nat
        BY <1>c DEF NULL
      <4>2. /\ n \in Nat /\ previous \in Seq(Nat) /\ Len(previous) = n
            /\ previous' = Append(previous, latest)
        BY <1>c, <2>1
      <4> QED
        BY ONLY <4>1, <4>2
    <3>2. \A j \in 1..Len(s) : previous'[s[j]] = previous[s[j]]
      BY <1>c, <3>1
    <3>3. Chained(previous', n + 1, t)
      BY <1>c, <3>1, <3>2, InFront
    <3> QED
      BY <2>1, <3>3
  <2>5. Named(t, file') = Reverse(ignored')
    <3>1. Named(t, file') = <<path>> \o Named(s, file)
      BY <1>c, <2>1, <2>n, NamedInFront
    <3>2. Reverse(ignored') = <<path>> \o Reverse(ignored)
      BY <1>c, <2>1, ReversedLonger
    <3> QED
      BY <1>c, <3>1, <3>2
  <2>6. /\ Len(t) = Len(s) + 1 /\ t[1] = n + 1 /\ DOMAIN t = 1..(Len(s) + 1)
        /\ \A i \in 1..Len(s) : t[i + 1] = s[i]
    <3>1. s \in Seq(Nat) /\ n + 1 \in Nat
      BY <1>c
    <3>2. /\ t \in Seq(Nat) /\ Len(t) = Len(s) + 1 /\ t[1] = n + 1
          /\ \A i \in 1..Len(s) : t[i + 1] = s[i]
      BY <3>1, Prefixed
    <3> QED
      BY <3>2
  <2> HIDE DEF t
  <2>7. ASSUME NEW i \in 1..(Len(s) + 1), i # 1
        PROVE  i - 1 \in 1..Len(s) /\ t[i] = s[i - 1] /\ (i - 1) + 1 = i
    <3>1. i - 1 \in 1..Len(s) /\ (i - 1) + 1 = i
      BY <1>c, <2>7
    <3> QED
      BY <2>6, <3>1
  <2>8. ToSet(t) \cap fileFreed' = {}
    <3>1. n + 1 \notin fileFreed
      BY <1>c
    <3>2. ToSet(t) \subseteq ToSet(s) \cup {n + 1}
      <4>1. ASSUME NEW i \in 1..(Len(s) + 1) PROVE t[i] \in ToSet(s) \cup {n + 1}
        <5>1. i # 1 => i - 1 \in DOMAIN s /\ t[i] = s[i - 1]
          BY <1>c, <2>7
        <5> QED
          BY <2>6, <5>1 DEF ToSet
      <4> QED
        BY <2>6, <4>1 DEF ToSet
    <3> QED
      BY <1>1, <1>c, <3>1, <3>2
  <2>9. Backwards(t, following', gap', fileFreed')
    <3>1. following'[n + 1] = NULL /\ \A b \in 1..n : following'[b] = r[b]
      <4>1. /\ Closed(following') /\ DOMAIN following = 1..n
            /\ following \in Seq(Nat) /\ Len(following) = n
        BY <1>c DEF IgnoreShape, Closed
      <4>2. r \in Seq(Nat) /\ Len(r) = n
        <5>0. n + 1 \in Nat /\ \A b \in 1..n : following[b] \in Nat
          BY <1>c, <4>1
        <5>1. \A b \in 1..n : r[b] \in Nat
          BY <2>r, <5>0
        <5> QED
          BY <2>d, <4>1, <5>1, Replaced
      <4> QED
        BY <2>1, <4>2 DEF NULL
    <3> SUFFICES ASSUME NEW i \in 1..(Len(s) + 1)
                 PROVE  following'[t[i]] = Back(t, i) \/ (gap /\ following'[t[i]] \in fileFreed)
      BY <1>1, <2>6 DEF Backwards
    <3>2. CASE i = 1
      BY <2>6, <3>1, <3>2 DEF Back
    <3>3. CASE i # 1
      <4> DEFINE k == i - 1
      <4>1. k \in 1..Len(s) /\ t[i] = s[k] /\ i = k + 1 /\ s[k] \in 1..n /\ s[k] # NULL
        BY <1>c, <2>7, <3>3
      <4> HIDE DEF k
      <4>2. following'[t[i]] = IF s[k] = latest THEN n + 1 ELSE following[s[k]]
        BY <2>r, <3>1, <4>1
      <4>3. s[k] = latest <=> k = 1
        BY <1>c, <4>1
      <4>4. Back(t, i) = t[k]
        BY <3>3, <4>1 DEF Back, k
      <4>5. CASE k = 1
        BY <2>6, <4>2, <4>3, <4>4, <4>5
      <4>6. CASE k # 1
        <5>1. t[k] = s[k - 1] /\ Back(s, k) = s[k - 1]
          BY <1>c, <2>7, <4>1, <4>6 DEF Back
        <5>2. following[s[k]] = Back(s, k) \/ (gap /\ following[s[k]] \in fileFreed)
          BY <1>c, <4>1 DEF Backwards
        <5> QED
          BY <4>2, <4>3, <4>4, <4>6, <5>1, <5>2
      <4> QED
        BY <4>5, <4>6
    <3> QED
      BY <3>2, <3>3
  <2>10. IgnoreRight'
    BY <2>3, <2>4, <2>5, <2>8, <2>9, IgnoreBecomes
  <2> QED
    BY <1>1, <2>10
<1> QED
  BY <1>2, <1>3

LEMMA WithoutApart ==
  ASSUME NEW T, NEW s \in Seq(T), NEW i \in 1..Len(s), Apart(s)
  PROVE  Apart(Without(s, i))
<1> DEFINE n == Len(s)
           w == Without(s, i)
<1>1. n \in Nat \ {0} /\ DOMAIN s = 1..n /\ \A j, k \in 1..n : s[j] = s[k] => j = k
  BY DEF Apart
<1>2. /\ w \in Seq(T) /\ Len(w) = n - 1
      /\ \A k \in 1..(n - 1) : w[k] = IF k < i THEN s[k] ELSE s[k + 1]
  BY Withoutness
<1>i. i \in 1..n
  OBVIOUS
<1> HIDE DEF w, n
<1>3. DOMAIN w = 1..(n - 1)
  BY <1>2
<1> SUFFICES ASSUME NEW j \in 1..(n - 1), NEW k \in 1..(n - 1), w[j] = w[k] PROVE j = k
  BY <1>3 DEF Apart, w
<1>4. j \in 1..n /\ k \in 1..n /\ j + 1 \in 1..n /\ k + 1 \in 1..n
  BY <1>1
<1>5. (IF j < i THEN s[j] ELSE s[j + 1]) = (IF k < i THEN s[k] ELSE s[k + 1])
  BY <1>2
<1> QED
  BY <1>1, <1>i, <1>4, <1>5

(* A file is taken out of the chain and of its history at places that are  *)
(* the same distance from the newer end.                                   *)
LEMMA HistoryCut ==
  ASSUME NEW U, NEW q \in Seq(U), Apart(q), NEW i \in 1..Len(q), NEW x,
         q[(Len(q) - i) + 1] = x
  PROVE  /\ Reverse(RemoveFirst(q, x)) = Without(Reverse(q), i)
         /\ Apart(RemoveFirst(q, x))
<1> DEFINE m == Len(q)
           j == (m - i) + 1
<1>1. m \in Nat /\ j \in 1..m /\ (m - j) + 1 = i /\ q[j] = x
  OBVIOUS
<1>2. \A k \in 1..(j - 1) : q[k] # x
  <2> SUFFICES ASSUME NEW k \in 1..(j - 1), q[k] = x PROVE FALSE
    OBVIOUS
  <2>1. k \in DOMAIN q /\ j \in DOMAIN q /\ k # j
    BY <1>1
  <2> QED
    BY <1>1, <2>1 DEF Apart
<1>j. j \in 1..Len(q) /\ (Len(q) - j) + 1 = i
  BY <1>1
<1> HIDE DEF j, m
<1>3. RemoveFirst(q, x) = Without(q, j)
  BY <1>j, <1>1, <1>2, RemovedFirst
<1>4. Reverse(Without(q, j)) = Without(Reverse(q), i)
  BY <1>j, ReversedCut
<1>5. Apart(Without(q, j))
  BY <1>j, WithoutApart
<1> QED
  BY <1>3, <1>4, <1>5

LEMMA DeleteIgnoreStep ==
  ASSUME NEW path \in Files, IgnoreShape, IgnoreRight, DeleteIgnoreFile(path), IgnoreShape'
  PROVE  IF dangled' THEN gap' ELSE IgnoreRight'
<1> DEFINE s == IgnoreChain
           n == Len(file)
           a == FindIgnoreFile(path)
<1>c. /\ n \in Nat /\ DOMAIN file = 1..n /\ file \in Seq(Files)
      /\ DOMAIN previous = 1..n /\ Len(previous) = n /\ previous \in Seq(Nat)
      /\ DOMAIN following = 1..n /\ Len(following) = n
      /\ ignored \in Seq(Files) /\ fileFreed \subseteq 1..n
      /\ s \in Seq(1..n) /\ Len(s) \in Nat /\ DOMAIN s = 1..Len(s) /\ Len(s) <= n
      /\ \A i \in 1..Len(s) : s[i] \in 1..n /\ s[i] # NULL
      /\ \A i, j \in 1..Len(s) : s[i] = s[j] => i = j
      /\ latest = (IF Len(s) = 0 THEN NULL ELSE s[1])
      /\ \A i \in 1..Len(s) : previous[s[i]] = IF i < Len(s) THEN s[i + 1] ELSE NULL
      /\ Chained(previous, latest, s) /\ Apart(s)
      /\ Named(s, file) = Reverse(ignored) /\ Reverse(ignored) \in Seq(Files)
      /\ Len(ignored) = Len(s)
      /\ \A i \in 1..Len(s) : file[s[i]] = ignored[(Len(s) - i) + 1]
      /\ Apart(ignored) /\ ToSet(s) \cap fileFreed = {}
      /\ Backwards(s, following, gap, fileFreed)
  BY IgnoreFacts
<1>1. /\ a # NULL
      /\ dangled' = ((Searched(s, file, path) \cup ({previous[a], following[a]} \ {NULL}))
                       \cap fileFreed # {})
      /\ following' = [b \in DOMAIN following |->
                        IF b = previous[a] THEN following[a] ELSE following[b]]
      /\ previous' = [b \in DOMAIN previous |->
                       IF b = following[a] THEN previous[a] ELSE previous[b]]
      /\ latest' = (IF a = latest THEN previous[a] ELSE latest)
      /\ fileFreed' = fileFreed \cup {a}
      /\ ignored' = RemoveFirst(ignored, path)
      /\ UNCHANGED <<file, gap>>
  BY DEF DeleteIgnoreFile, NextUnlinked, Touching
<1>2. Searched(s, file, path) \subseteq ToSet(s)
  BY DEF Searched, ToSet
<1>3. \/ a = NULL
      \/ \E i \in 1..Len(s) : a = s[i] /\ file[s[i]] = path
  <2>1. s \in Seq(1..n) /\ a = FoundIn(s, file, path)
    BY <1>c DEF FindIgnoreFile
  <2> HIDE DEF s, n, a
  <2> QED
    BY <2>1, Found
<1> HIDE DEF s, n, a
<1>4. PICK i \in 1..Len(s) : a = s[i] /\ file[s[i]] = path
  BY <1>1, <1>3
<1>5. following[a] = Back(s, i) \/ (gap /\ following[a] \in fileFreed)
  BY <1>c, <1>4 DEF Backwards
<1>6. CASE gap /\ following[a] \in fileFreed
  <2>1. following[a] # NULL
    BY <1>c, <1>6 DEF NULL
  <2>2. dangled'
    BY <1>1, <1>6, <2>1
  <2> QED
    BY <1>1, <1>6, <2>2
<1>7. CASE following[a] = Back(s, i)
  <2> DEFINE w == Without(s, i)
             m == Len(s)
  <2>1. /\ m \in Nat /\ i \in 1..m /\ a \in 1..n
        /\ previous[a] = IF i < m THEN s[i + 1] ELSE NULL
        /\ following[a] = IF i = 1 THEN NULL ELSE s[i - 1]
        /\ \A j \in 1..m :
             (s[j] = following[a] <=> j = i - 1) /\ (s[j] = previous[a] <=> j = i + 1)
    <3>1. m \in Nat /\ i \in 1..m /\ a \in 1..n
      BY <1>c, <1>4
    <3>2. previous[a] = IF i < m THEN s[i + 1] ELSE NULL
      BY <1>c, <1>4
    <3>3. following[a] = IF i = 1 THEN NULL ELSE s[i - 1]
      BY <1>7 DEF Back
    <3>4. ASSUME NEW j \in 1..m
          PROVE  (s[j] = following[a] <=> j = i - 1) /\ (s[j] = previous[a] <=> j = i + 1)
      <4>1. s[j] # NULL /\ \A k \in 1..m : s[j] = s[k] => j = k
        BY <1>c
      <4>2. s[j] = following[a] <=> j = i - 1
        <5>1. i = 1 => j # i - 1
          BY <3>1
        <5>2. i # 1 => i - 1 \in 1..m
          BY <3>1
        <5> QED
          BY <3>1, <3>3, <4>1, <5>1, <5>2
      <4>3. s[j] = previous[a] <=> j = i + 1
        <5>1. ~(i < m) => j # i + 1
          BY <3>1
        <5>2. i < m => i + 1 \in 1..m
          BY <3>1
        <5> QED
          BY <3>1, <3>2, <4>1, <5>1, <5>2
      <4> QED
        BY <4>2, <4>3
    <3> QED
      BY <3>1, <3>2, <3>3, <3>4
  <2>2. ~dangled'
    <3>1. previous[a] = NULL \/ previous[a] \in ToSet(s)
      <4>1. i < m => i + 1 \in DOMAIN s
        BY <1>c, <2>1
      <4> QED
        BY <2>1, <4>1 DEF ToSet
    <3>2. following[a] = NULL \/ following[a] \in ToSet(s)
      <4>1. i # 1 => i - 1 \in DOMAIN s
        BY <1>c, <2>1
      <4> QED
        BY <2>1, <4>1 DEF ToSet
    <3>3. Searched(s, file, path) \cup ({previous[a], following[a]} \ {NULL}) \subseteq ToSet(s)
      BY <1>2, <3>1, <3>2
    <3>4. ToSet(s) \cap fileFreed = {}
      BY <1>c
    <3> QED
      BY <1>1, <3>3, <3>4
  <2>3. Chained(previous', latest', w)
    <3>1. DOMAIN previous' = DOMAIN previous /\ Len(previous') = Len(previous)
      <4>1. /\ previous' = [b \in DOMAIN previous |-> previous'[b]]
            /\ DOMAIN previous' = DOMAIN previous /\ DOMAIN previous = 1..n
        BY <1>1, <1>c
      <4>2. Closed(previous')
        BY DEF IgnoreShape, Closed
      <4>3. Len(previous') \in Nat /\ DOMAIN previous' = 1..Len(previous')
        BY <4>2 DEF Closed
      <4> QED
        BY <1>c, <4>1, <4>3
    <3>2. ASSUME NEW j \in 1..m, j # i
          PROVE  previous'[s[j]] = IF j = i - 1 THEN previous[s[i]] ELSE previous[s[j]]
      <4>1. s[j] \in DOMAIN previous
        BY <1>c
      <4> QED
        BY <1>1, <1>4, <2>1, <4>1
    <3>3. latest' = IF i = 1 THEN previous[s[1]] ELSE latest
      <4>1. latest = s[1] /\ 1 \in 1..m
        BY <1>c, <2>1
      <4>2. a = latest <=> i = 1
        BY <1>4, <1>c, <4>1
      <4> QED
        BY <1>1, <1>4, <4>2
    <3> QED
      <4>1. Chained(previous, latest, s) /\ i \in 1..Len(s) /\ Len(previous) \in Nat
        BY <1>c, <2>1
      <4> QED
        BY ONLY <3>1, <3>2, <3>3, <4>1, Cut DEF w, m
  <2>4. Named(w, file') = Reverse(ignored') /\ Apart(ignored')
    <3>1. Named(w, file') = Without(Reverse(ignored), i)
      BY <1>1, <1>c, NamedCut
    <3>2. i \in 1..Len(ignored) /\ ignored[(Len(ignored) - i) + 1] = path
      BY <1>4, <1>c
    <3>3. Reverse(ignored') = Without(Reverse(ignored), i) /\ Apart(ignored')
      BY <1>1, <1>c, <3>2, HistoryCut
    <3> QED
      BY <3>1, <3>3
  <2>5. ToSet(w) \cap fileFreed' = {}
    <3>1. ToSet(w) = ToSet(s) \ {a}
      BY <1>4, <1>c, WithoutNodes
    <3> QED
      BY <1>1, <1>c, <3>1
  <2>6. Backwards(w, following', gap', fileFreed')
    <3>1. Len(w) = m - 1 /\ \A k \in 1..(m - 1) : w[k] = IF k < i THEN s[k] ELSE s[k + 1]
      <4>1. s \in Seq(1..n) /\ i \in 1..Len(s)
        BY <1>c
      <4> QED
        BY ONLY <4>1, Withoutness DEF w, m
    <3> HIDE DEF w, m
    <3> SUFFICES ASSUME NEW k \in 1..(m - 1)
                 PROVE  following'[w[k]] = Back(w, k) \/ (gap' /\ following'[w[k]] \in fileFreed')
      BY <3>1 DEF Backwards
    <3>2. /\ k \in 1..m /\ k + 1 \in 1..m
          /\ k # 1 => k - 1 \in 1..(m - 1) /\ (k - 1) + 1 = k
      BY <2>1
    <3>3. ASSUME NEW j \in 1..m
          PROVE  /\ following'[s[j]] = IF j = i + 1 THEN following[a] ELSE following[s[j]]
                 /\ following[s[j]] = Back(s, j) \/ (gap' /\ following[s[j]] \in fileFreed')
      <4>1. s[j] \in DOMAIN following
        BY <1>c DEF m
      <4>2. following[s[j]] = Back(s, j) \/ (gap /\ following[s[j]] \in fileFreed)
        BY <1>c DEF Backwards, m
      <4> QED
        BY <1>1, <2>1, <4>1, <4>2
    <3>4. CASE k < i
      <4>1. w[k] = s[k] /\ k # i + 1
        BY <2>1, <3>1, <3>4
      <4>2. Back(w, k) = Back(s, k)
        <5>1. k # 1 => k - 1 < i
          BY <2>1, <3>4
        <5> QED
          BY <3>1, <3>2, <5>1 DEF Back
      <4> QED
        BY <3>2, <3>3, <4>1, <4>2
    <3>5. CASE k = i
      <4>1. w[k] = s[i + 1] /\ following'[s[i + 1]] = following[a]
        BY <2>1, <3>1, <3>2, <3>3, <3>5
      <4>2. Back(w, k) = Back(s, i)
        <5>1. k # 1 => k - 1 < i
          BY <2>1, <3>5
        <5> QED
          BY <3>1, <3>2, <3>5, <5>1 DEF Back
      <4> QED
        BY <1>7, <4>1, <4>2
    <3>6. CASE k > i
      <4>1. /\ w[k] = s[k + 1] /\ k + 1 # i + 1 /\ k # 1 /\ k + 1 # 1
            /\ ~(k - 1 < i) /\ (k + 1) - 1 = k
        BY <2>1, <3>1, <3>6
      <4>2. Back(w, k) = s[k] /\ Back(s, k + 1) = s[k]
        BY <3>1, <3>2, <4>1 DEF Back
      <4> QED
        BY <3>2, <3>3, <4>1, <4>2
    <3> QED
      BY <2>1, <3>4, <3>5, <3>6
  <2>7. IgnoreRight'
    BY <2>3, <2>4, <2>5, <2>6, IgnoreBecomes
  <2> QED
    BY <2>2, <2>7
<1> QED
  BY <1>5, <1>6, <1>7

(* Behind a kept file stands the kept file before it, or one that is not.  *)
LEMMA KeptBefore ==
  ASSUME NEW s, NEW S, NEW m \in Nat, NEW n \in Nat, NEW f, Picks(s, S, f, m, n), NEW k \in 1..m
  PROVE  /\ f[k] \in 1..n
         /\ f[k] = 1 => k = 1
         /\ f[k] # 1 => f[k] - 1 \in 1..n /\ (\/ s[f[k] - 1] \notin S
                                              \/ k # 1 /\ f[k - 1] = f[k] - 1)
<1>1. /\ f \in [1..m -> 1..n] /\ \A i, j \in 1..m : i < j => f[i] < f[j]
      /\ \A i \in 1..n : s[i] \in S <=> \E j \in 1..m : f[j] = i
  BY DEF Picks, Rising
<1>2. f[k] \in 1..n
  BY <1>1
<1>3. f[k] = 1 => k = 1
  <2> SUFFICES ASSUME f[k] = 1, k # 1 PROVE FALSE
    OBVIOUS
  <2>1. 1 \in 1..m /\ 1 < k
    OBVIOUS
  <2>2. f[1] < f[k] /\ f[1] \in 1..n
    BY <1>1, <2>1
  <2> QED
    BY <2>2
<1>4. ASSUME f[k] # 1, s[f[k] - 1] \in S PROVE k # 1 /\ f[k - 1] = f[k] - 1
  <2>1. f[k] - 1 \in 1..n
    BY <1>2, <1>4
  <2>2. PICK l \in 1..m : f[l] = f[k] - 1
    BY <1>1, <1>4, <2>1
  <2>3. f[l] < f[k] /\ f[l] \in 1..n
    BY <1>2, <2>1, <2>2
  <2>4. l < k
    <3>1. l = k \/ k < l \/ l < k
      OBVIOUS
    <3>2. k < l => f[k] < f[l]
      BY <1>1
    <3> QED
      BY <1>2, <2>3, <3>1, <3>2
  <2>5. k # 1 /\ k - 1 \in 1..m /\ k - 1 < k /\ (l = k - 1 \/ l < k - 1)
    BY <2>4
  <2>6. f[k - 1] < f[k] /\ f[k - 1] \in 1..n /\ (l = k - 1 \/ f[l] < f[k - 1])
    BY <1>1, <2>5
  <2> QED
    BY <1>2, <2>2, <2>5, <2>6
<1> QED
  BY <1>2, <1>3, <1>4

LEMMA DeleteMmcStep ==
  ASSUME IgnoreShape, IgnoreRight, DeleteMmcIgnoreFile, IgnoreShape'
  PROVE  ~dangled' /\ IgnoreRight'
<1> DEFINE s == IgnoreChain
           n == Len(file)
           K == {a \in DOMAIN file : file[a] \notin CardFiles}
           S == Files \ CardFiles
           kept == Among(s, K)
           removed == ToSet(s) \ ToSet(kept)
<1>c. /\ n \in Nat /\ DOMAIN file = 1..n /\ file \in Seq(Files)
      /\ DOMAIN previous = 1..n /\ Len(previous) = n /\ previous \in Seq(Nat)
      /\ ignored \in Seq(Files)
      /\ s \in Seq(1..n) /\ Len(s) \in Nat /\ DOMAIN s = 1..Len(s) /\ Len(s) <= n
      /\ \A i \in 1..Len(s) : s[i] \in 1..n /\ s[i] # NULL
      /\ Apart(s)
      /\ Named(s, file) = Reverse(ignored) /\ Reverse(ignored) \in Seq(Files)
      /\ Apart(ignored) /\ ToSet(s) \cap fileFreed = {}
      /\ Backwards(s, following, gap, fileFreed)
  BY IgnoreFacts
<1>1. /\ dangled' = (ToSet(s) \cap fileFreed # {})
      /\ latest' = HeadOrNull(kept)
      /\ previous' = Relinked(previous, kept)
      /\ fileFreed' = fileFreed \cup removed
      /\ gap' = (gap \/ \E a \in ToSet(kept) : following[a] \in removed)
      /\ ignored' = Among(ignored, S)
      /\ UNCHANGED <<file, following>>
  BY DEF DeleteMmcIgnoreFile, Touching, UnlinkedFiles
<1>k. ASSUME NEW i \in DOMAIN s PROVE s[i] \in K <=> Named(s, file)[i] \in S
  <2>1. Named(s, file)[i] = file[s[i]]
    BY DEF Named
  <2>2. s[i] \in DOMAIN file /\ file[s[i]] \in Files
    BY <1>c
  <2> QED
    BY <2>1, <2>2
<1> HIDE DEF s, n, K, S, removed
<1>2. ~dangled'
  BY <1>1, <1>c
<1>3. PICK m \in Nat : \E f : Picks(s, K, f, m, Len(s))
  BY <1>c, AmongPicks
<1>4. PICK f : Picks(s, K, f, m, Len(s))
  BY <1>3
<1>5. Len(kept) = m /\ \A j \in 1..m : kept[j] = s[f[j]]
  <2>1. s \in Seq(1..n)
    BY <1>c
  <2> HIDE DEF kept
  <2> QED
    BY <1>4, <2>1, Picked DEF kept
<1>6. /\ kept \in Seq(1..n) /\ Len(kept) <= Len(s) /\ Apart(kept)
      /\ ToSet(kept) = ToSet(s) \cap K
  BY <1>c, PickedNodes
<1>7. Named(kept, file) = Reverse(ignored')
  <2>1. Matches(s, K, Named(s, file), S)
    BY <1>k DEF Matches
  <2>2. Among(Named(s, file), S) = Named(kept, file)
    BY <1>c, <2>1, PickedNames
  <2>3. Among(Reverse(ignored), S) = Reverse(Among(ignored, S))
    BY <1>c, PickedReversed
  <2> QED
    BY <1>1, <1>c, <2>2, <2>3
<1>8. Apart(ignored')
  BY <1>1, <1>c, PickedNodes
<1> HIDE DEF kept
<1>9. Chained(previous', latest', kept)
  <2>1. kept \in Seq(DOMAIN previous) /\ Len(kept) <= Len(previous)
    BY <1>c, <1>5, <1>6
  <2> QED
    BY <1>1, <1>c, <1>6, <2>1, Kept
<1>10. ToSet(kept) \cap fileFreed' = {}
  BY <1>1, <1>c, <1>6 DEF removed
<1>11. Backwards(kept, following', gap', fileFreed')
  <2> SUFFICES ASSUME NEW k \in 1..m
               PROVE  \/ following[kept[k]] = Back(kept, k)
                      \/ gap' /\ following[kept[k]] \in fileFreed'
    BY <1>1, <1>5 DEF Backwards
  <2>0. Len(s) \in Nat
    BY <1>c
  <2> DEFINE i == f[k]
  <2>1. /\ i \in 1..Len(s) /\ (i = 1 => k = 1)
        /\ i # 1 => i - 1 \in 1..Len(s) /\ (s[i - 1] \notin K \/ (k # 1 /\ f[k - 1] = i - 1))
    BY <1>4, <2>0, KeptBefore
  <2>2. kept[k] = s[i]
    BY <1>5
  <2> HIDE DEF i
  <2>3. following[s[i]] = Back(s, i) \/ (gap /\ following[s[i]] \in fileFreed)
    BY <1>c, <2>1 DEF Backwards
  <2>4. CASE gap /\ following[s[i]] \in fileFreed
    BY <1>1, <2>2, <2>4
  <2>5. CASE following[s[i]] = Back(s, i) /\ i = 1
    BY <2>1, <2>2, <2>5 DEF Back
  <2>6. CASE following[s[i]] = Back(s, i) /\ i # 1 /\ s[i - 1] \in K
    <3>1. k # 1 /\ f[k - 1] = i - 1 /\ k - 1 \in 1..m
      BY <2>1, <2>6
    <3>2. kept[k - 1] = s[i - 1]
      BY <1>5, <3>1
    <3> QED
      BY <2>2, <2>6, <3>1, <3>2 DEF Back
  <2>7. CASE following[s[i]] = Back(s, i) /\ i # 1 /\ s[i - 1] \notin K
    <3>1. s[i - 1] \in ToSet(s)
      BY <1>c, <2>1, <2>7 DEF ToSet
    <3>2. s[i - 1] \in removed
      BY <1>6, <2>7, <3>1 DEF removed
    <3>3. following[kept[k]] \in removed
      BY <2>2, <2>7, <3>2 DEF Back
    <3>4. kept[k] \in ToSet(kept)
      <4>1. k \in DOMAIN kept
        BY <1>5, <1>6
      <4> QED
        BY <4>1 DEF ToSet
    <3> QED
      BY <1>1, <3>3, <3>4
  <2> QED
    BY <2>3, <2>4, <2>5, <2>6, <2>7
<1>12. Named(kept, file') = Reverse(ignored')
  BY <1>1, <1>7
<1>13. IgnoreRight'
  BY <1>8, <1>9, <1>10, <1>11, <1>12, IgnoreBecomes
<1> QED
  BY <1>2, <1>13

LEMMA IgnoreRightUnchanged ==
  ASSUME IgnoreInv, UNCHANGED ignoreVars PROVE IgnoreInv'
<1>1. IgnoreChain' = IgnoreChain
  BY DEF IgnoreChain, ignoreVars
<1> QED
  BY <1>1 DEF IgnoreInv, IgnoreRight, ignoreVars

LEMMA NextIgnored == ASSUME Shape, IgnoreInv, [Next]_vars PROVE IgnoreInv'
<1>u. ASSUME UNCHANGED ignoreVars PROVE IgnoreInv'
  BY <1>u, IgnoreRightUnchanged
<1>0. IgnoreShape /\ IgnoreShape'
  BY NextShape DEF Shape
<1>1. CASE UNCHANGED vars
  BY <1>1, <1>u DEF vars
<1>2. CASE Next /\ ~UNCHANGED ignoreVars
  <2>0. IgnoreRight
    BY <1>2 DEF Next, IgnoreInv
  <2>1. CASE CardFilesDropped
    <3>1. DeleteMmcIgnoreFile
      BY <2>1 DEF CardFilesDropped
    <3> QED
      BY <1>0, <2>0, <3>1, DeleteMmcStep DEF IgnoreInv
  <2>2. ASSUME NEW path \in Files, FileStored(path) PROVE IgnoreInv'
    <3>1. AddIgnoreFile(path)
      BY <2>2 DEF FileStored
    <3> QED
      BY <1>0, <2>0, <3>1, AddIgnoreStep DEF IgnoreInv
  <2>3. ASSUME NEW path \in Files, FileDeleted(path) PROVE IgnoreInv'
    <3>1. DeleteIgnoreFile(path)
      BY <2>3 DEF FileDeleted
    <3> QED
      BY <1>0, <2>0, <3>1, DeleteIgnoreStep DEF IgnoreInv
  <2> QED
    BY <1>2, <2>1, <2>2, <2>3 DEF Next, CardMounted, AddCardWatch, CardRemoved, FolderMade,
       FolderDeleted, FolderRenamed, Link, InotiEnd
<1> QED
  BY <1>1, <1>2, <1>u

LEMMA InitIgnored == Init => IgnoreInv
<1> SUFFICES ASSUME Init PROVE IgnoreInv
  OBVIOUS
<1>1. /\ latest = NULL /\ file = <<>> /\ previous = <<>> /\ following = <<>>
      /\ fileFreed = {} /\ dangled = FALSE /\ gap = FALSE /\ ignored = <<>>
  BY DEF Init, IgnoreInit
<1> DEFINE s == <<>>
<1>2. Len(s) = 0 /\ DOMAIN s = {} /\ 1..0 = {} /\ \A T : s \in Seq(T)
  OBVIOUS
<1>3. Reverse(s) = s /\ \A f : Named(s, f) = s
  BY <1>2 DEF Reverse, Named
<1> HIDE DEF s
<1>4. Chained(previous, latest, s) /\ Apart(s)
  BY <1>1, <1>2 DEF Chained, Apart, HeadOrNull, s
<1>5. Len(previous) \in Nat
  BY <1>1
<1>6. IgnoreChain = s
  BY <1>4, <1>5, Followed DEF IgnoreChain
<1> QED
  BY <1>1, <1>2, <1>3, <1>4, <1>6 DEF IgnoreInv, IgnoreRight, Backwards, s

(* Until freed memory is touched, the ignore list holds the DRM files that *)
(* were added and not deleted, the latest first.                           *)
THEOREM IgnoredStayListed == Spec => []IgnoredAreListed
<1>1. IgnoreInv => IgnoredAreListed
  BY DEF IgnoreInv, IgnoreRight, IgnoredAreListed, Named
<1> QED
  BY <1>1, InitShape, NextShape, InitIgnored, NextIgnored, PTL DEF Spec

(* Freed memory is touched only after ms_inoti_delete_mmc_ignore_file      *)
(* freed a card file that had been added after a phone file that stays: no *)
(* sequence of the other operations does it.                               *)
THEOREM OnlyTheGapDangles == Spec => []OnlyGapsDangle
<1>1. IgnoreInv => OnlyGapsDangle
  BY DEF IgnoreInv, OnlyGapsDangle
<1> QED
  BY <1>1, InitShape, NextShape, InitIgnored, NextIgnored, PTL DEF Spec
=============================================================================
