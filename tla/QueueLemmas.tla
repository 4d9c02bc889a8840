----------------------------- MODULE QueueLemmas -----------------------------
(***************************************************************************)
(* Facts about intervals of numbers and about sequences that are used as   *)
(* queues, for the proofs of the other modules.                            *)
(***************************************************************************)
EXTENDS Integers, Sequences, FiniteSets, FiniteSetTheorems,
        SequenceTheorems, TLAPS

(* An interval is finite, and as large as it looks.                        *)
LEMMA Interval ==
  ASSUME NEW n \in Nat
  PROVE  IsFiniteSet(1..n) /\ Cardinality(1..n) = n
<1>1. 1 \in Int /\ n \in Int
  OBVIOUS
<1>2. /\ IsFiniteSet(1..n)
      /\ Cardinality(1..n) = IF 1 > n THEN 0 ELSE n - 1 + 1
  BY ONLY <1>1, FS_Interval, Zenon
<1> QED
  BY <1>2

(* A set of natural numbers has a least element.                           *)
LEMMA Least ==
  ASSUME NEW T, T \subseteq Nat, T # {}
  PROVE  \E x \in T : \A y \in T : x <= y
<1> DEFINE C == {1..n : n \in T}
           R == StrictSubsetOrdering(Nat)
           S == FiniteSubsetsOf(Nat)
<1>1. IsWellFoundedOn(R, S)
  BY FS_StrictSubsetOrderingWellFounded
<1>2. C \subseteq S /\ C # {}
  <2>1. \A n \in Nat : 1..n \in SUBSET Nat /\ IsFiniteSet(1..n)
    BY Interval
  <2>2. \A n \in Nat : 1..n \in S
    BY ONLY <2>1 DEF S, FiniteSubsetsOf
  <2> HIDE DEF S
  <2>3. \A c \in C : c \in S
    BY <2>2 DEF C
  <2>4. C # {}
    BY DEF C
  <2> QED
    BY ONLY <2>3, <2>4
<1> HIDE DEF C, R, S
<1>3. PICK s \in C : \A y \in C : ~ (<<y, s>> \in R)
  BY <1>1, <1>2, WFMin
<1>4. PICK n \in T : s = 1..n
  BY DEF C
<1>5. ASSUME NEW m \in T, ~(n <= m) PROVE FALSE
  <2>1. 1..m \in C /\ 1..m \subseteq 1..n /\ 1..m # 1..n /\ 1..n \subseteq Nat
    BY <1>5 DEF C
  <2>2. <<1..m, 1..n>> \in R
    BY <2>1 DEF R, StrictSubsetOrdering
  <2> QED
    BY <1>3, <1>4, <2>1, <2>2
<1> QED
  BY <1>5

(* Induction, for a property given as the set of numbers that have it.     *)
LEMMA Induction ==
  ASSUME NEW S, 0 \in S, \A n \in Nat : n \in S => n + 1 \in S
  PROVE  \A n \in Nat : n \in S
<1> DEFINE T == Nat \ S
<1> SUFFICES ASSUME T # {} PROVE FALSE
  OBVIOUS
<1>1. PICK n \in T : \A m \in T : n <= m
  BY Least
<1>2. n # 0 /\ n \in Nat /\ n - 1 \in Nat /\ n - 1 \notin T
  BY <1>1
<1> QED
  BY <1>2

-----------------------------------------------------------------------------
(* What the operations on queues do, element by element.                   *)
LEMMA Appended ==
  ASSUME NEW S, NEW q \in Seq(S), NEW e \in S
  PROVE  /\ Append(q, e) \in Seq(S) /\ Len(q) \in Nat
         /\ Len(Append(q, e)) = Len(q) + 1
         /\ \A i \in 1..Len(q) : Append(q, e)[i] = q[i]
         /\ Append(q, e)[Len(q) + 1] = e
OBVIOUS

LEMMA Tailed ==
  ASSUME NEW S, NEW q \in Seq(S), q # <<>>
  PROVE  /\ Tail(q) \in Seq(S) /\ Len(q) \in Nat \ {0}
         /\ Head(q) = q[1] /\ Head(q) \in S
         /\ Len(Tail(q)) = Len(q) - 1
         /\ \A i \in 1..Len(Tail(q)) : Tail(q)[i] = q[i + 1]
OBVIOUS

(* What is in a queue, and that its ends are places of it.                 *)
LEMMA Placed ==
  ASSUME NEW S, NEW q \in Seq(S)
  PROVE  /\ Len(q) \in Nat /\ DOMAIN q = 1..Len(q) /\ \A i \in DOMAIN q : q[i] \in S
         /\ q # <<>> => Len(q) # 0 /\ 1 \in DOMAIN q /\ Len(q) \in DOMAIN q
OBVIOUS

(* What is left when the element at place i is taken out.                  *)
LEMMA Removed ==
  ASSUME NEW S, NEW q \in Seq(S), NEW i \in 1..Len(q)
  PROVE  /\ SubSeq(q, 1, i - 1) \o SubSeq(q, i + 1, Len(q)) \in Seq(S)
         /\ SubSeq(q, 1, i - 1) \o SubSeq(q, i + 1, Len(q))
              = [k \in 1..(Len(q) - 1) |-> IF k < i THEN q[k] ELSE q[k + 1]]
<1> DEFINE t == SubSeq(q, 1, i - 1) \o SubSeq(q, i + 1, Len(q))
           n == Len(q)
           a == SubSeq(q, 1, i - 1)
           b == SubSeq(q, i + 1, n)
<1>0. ASSUME NEW l \in Int, NEW m \in Int, \A k \in l..m : q[k] \in S
      PROVE  /\ SubSeq(q, l, m) \in Seq(S)
             /\ Len(SubSeq(q, l, m)) = IF l <= m THEN m - l + 1 ELSE 0
             /\ \A k \in 1..(m - l + 1) : SubSeq(q, l, m)[k] = q[l + k - 1]
  BY <1>0, SubSeqProperties
<1>1. n \in Nat /\ i \in Nat \ {0} /\ i <= n /\ \A k \in 1..n : q[k] \in S
  OBVIOUS
<1>2. /\ a \in Seq(S) /\ Len(a) = i - 1
      /\ \A k \in 1..(i - 1) : a[k] = q[k]
  <2>1. 1 \in Int /\ i - 1 \in Int /\ \A k \in 1..(i - 1) : q[k] \in S
    BY <1>1
  <2> HIDE DEF n
  <2>2. /\ a \in Seq(S) /\ Len(a) = IF 1 <= i - 1 THEN (i - 1) - 1 + 1 ELSE 0
        /\ \A k \in 1..((i - 1) - 1 + 1) : a[k] = q[1 + k - 1]
    BY ONLY <1>0, <2>1 DEF a
  <2> HIDE DEF a
  <2> QED
    BY ONLY <1>1, <2>2
<1>3. /\ b \in Seq(S) /\ Len(b) = n - i
      /\ \A k \in 1..(n - i) : b[k] = q[k + i]
  <2>1. i + 1 \in Int /\ n \in Int /\ \A k \in (i + 1)..n : q[k] \in S
    BY <1>1
  <2> HIDE DEF n
  <2>2. /\ b \in Seq(S) /\ Len(b) = IF i + 1 <= n THEN n - (i + 1) + 1 ELSE 0
        /\ \A k \in 1..(n - (i + 1) + 1) : b[k] = q[(i + 1) + k - 1]
    BY ONLY <1>0, <2>1 DEF b
  <2> HIDE DEF b
  <2> QED
    BY ONLY <1>1, <2>2
<1> HIDE DEF a, b
<1>4. t = a \o b
  BY DEF a, b
<1> HIDE DEF t
<1>5. /\ t \in Seq(S) /\ Len(t) = Len(a) + Len(b)
      /\ \A k \in 1..Len(a) + Len(b) : t[k] = IF k <= Len(a) THEN a[k] ELSE b[k - Len(a)]
  BY ONLY <1>2, <1>3, <1>4, ConcatProperties, Zenon
<1> HIDE DEF n
<1>6. Len(t) = n - 1
  BY ONLY <1>1, <1>2, <1>3, <1>5
<1>7. ASSUME NEW k \in 1..Len(t), k < i PROVE t[k] = q[k]
  BY ONLY <1>1, <1>2, <1>3, <1>5, <1>6, <1>7
<1>8. ASSUME NEW k \in 1..Len(t), ~(k < i) PROVE t[k] = q[k + 1]
  <2>1. /\ k \in 1..Len(a) + Len(b) /\ ~(k <= Len(a))
        /\ k - Len(a) \in 1..(n - i) /\ (k - Len(a)) + i = k + 1
    BY ONLY <1>1, <1>2, <1>3, <1>6, <1>8
  <2>2. t[k] = b[k - Len(a)]
    BY ONLY <1>5, <2>1
  <2>3. b[k - Len(a)] = q[(k - Len(a)) + i]
    BY ONLY <1>3, <2>1
  <2> QED
    BY ONLY <2>1, <2>2, <2>3
<1>9. t = [k \in 1..(n - 1) |-> IF k < i THEN q[k] ELSE q[k + 1]]
  <2>1. t = [k \in 1..Len(t) |-> t[k]]
    BY ONLY <1>5
  <2>2. \A k \in 1..Len(t) : t[k] = IF k < i THEN q[k] ELSE q[k + 1]
    BY <1>7, <1>8
  <2> QED
    BY ONLY <1>6, <2>1, <2>2
<1> QED
  BY ONLY <1>5, <1>9 DEF n, t

LEMMA Prefixed ==
  ASSUME NEW S, NEW q \in Seq(S), NEW e \in S
  PROVE  /\ <<e>> \o q \in Seq(S) /\ Len(q) \in Nat
         /\ Len(<<e>> \o q) = Len(q) + 1
         /\ (<<e>> \o q)[1] = e
         /\ \A i \in 1..Len(q) : (<<e>> \o q)[i + 1] = q[i]
OBVIOUS

LEMMA Replaced ==
  ASSUME NEW S, NEW q \in Seq(S), NEW f, NEW T,
         DOMAIN f = DOMAIN q, \A i \in DOMAIN q : f[i] \in T,
         f = [i \in DOMAIN q |-> f[i]]
  PROVE  f \in Seq(T) /\ Len(f) = Len(q)
OBVIOUS

(* The places of a sequence behind its head are those of its tail, moved.  *)
LEMMA Moved ==
  ASSUME NEW S, NEW q \in Seq(S), q # <<>>
  PROVE  \E sh \in [1..Len(Tail(q)) -> 1..Len(q)] :
           /\ 1 \in 1..Len(q)
           /\ \A i \in 1..Len(Tail(q)) : Tail(q)[i] = q[sh[i]] /\ 1 < sh[i]
           /\ \A i \in 1..Len(q) : ~(i < 1)
           /\ \A i \in 1..Len(q) : i = 1 \/ \E j \in 1..Len(Tail(q)) : i = sh[j]
           /\ \A i, j \in 1..Len(Tail(q)) : sh[i] < sh[j] <=> i < j
<1> DEFINE t == Tail(q)
           I == 1..Len(t)
           J == 1..Len(q)
           sh == [i \in I |-> i + 1]
<1>1. Len(t) \in Nat /\ Len(q) = Len(t) + 1 /\ \A i \in I : t[i] = q[i + 1]
  BY Tailed
<1>2. \A i \in I : i + 1 \in J /\ 1 < i + 1 /\ sh[i] = i + 1
  BY <1>1
<1>3. sh \in [I -> J]
  BY <1>2
<1>4. \A i \in J : i = 1 \/ (i - 1 \in I /\ i = sh[i - 1])
  BY <1>1
<1>5. \A i, j \in I : i + 1 < j + 1 <=> i < j
  BY <1>1
<1>6. 1 \in J /\ \A i \in J : ~(i < 1)
  BY <1>1
<1> HIDE DEF sh, t, I, J
<1>7. \A i \in I : t[i] = q[sh[i]] /\ 1 < sh[i]
  BY <1>1, <1>2
<1>8. \A i \in J : i = 1 \/ \E j \in I : i = sh[j]
  BY <1>4
<1>9. \A i, j \in I : sh[i] < sh[j] <=> i < j
  BY <1>2, <1>5
<1>10. \E f \in [I -> J] :
         /\ 1 \in J
         /\ \A i \in I : t[i] = q[f[i]] /\ 1 < f[i]
         /\ \A i \in J : ~(i < 1)
         /\ \A i \in J : i = 1 \/ \E j \in I : i = f[j]
         /\ \A i, j \in I : f[i] < f[j] <=> i < j
  BY ONLY <1>3, <1>6, <1>7, <1>8, <1>9, Zenon
<1> QED
  BY ONLY <1>10, Zenon DEF t, I, J
=============================================================================
