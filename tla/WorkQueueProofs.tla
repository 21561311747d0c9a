--------------------------- MODULE WorkQueueProofs ---------------------------
(***************************************************************************)
(* Proofs about WorkQueue for any set of items, priorities, dependencies,  *)
(* number of workers, attempts and restarts.                               *)
(***************************************************************************)
EXTENDS WorkQueueImplements, ThreadPoolRun, SequenceTheorems, FiniteSetTheorems, TLAPS

-----------------------------------------------------------------------------
(* The list operations. *)

\* Inserting s into q behind position k.
LEMMA InsertAfterFacts ==
  ASSUME NEW S, NEW q \in Seq(S), NEW s \in Seq(S), NEW k \in 0..Len(q),
         NEW r, r = InsertAfter(q, k, s)
  PROVE  /\ r \in Seq(S)
         /\ Len(r) = Len(q) + Len(s)
         /\ \A i \in 1..k : r[i] = q[i]
         /\ \A i \in (k + 1)..(k + Len(s)) : r[i] = s[i - k]
         /\ \A i \in (k + Len(s) + 1)..Len(r) : r[i] = q[i - Len(s)]
<1> DEFINE a == SubSeq(q, 1, k)
           b == SubSeq(q, k + 1, Len(q))
<1>0. Len(q) \in Nat /\ Len(s) \in Nat /\ k \in Nat /\ k <= Len(q)
  BY LenProperties
<1>e. \A i \in 1..Len(q) : q[i] \in S
  BY ElementOfSeq
<1>1. a \in Seq(S) /\ Len(a) = k /\ \A i \in 1..k : a[i] = q[i]
  <2>1. \A i \in 1..k : q[i] \in S
    BY <1>0, <1>e
  <2>2. /\ a \in Seq(S)
        /\ Len(a) = IF 1 <= k THEN k - 1 + 1 ELSE 0
        /\ \A i \in 1..(k - 1 + 1) : a[i] = q[1 + i - 1]
    BY <1>0, <2>1, SubSeqProperties
  <2> QED
    BY <1>0, <2>2
<1>2. b \in Seq(S) /\ Len(b) = Len(q) - k /\ \A i \in 1..(Len(q) - k) : b[i] = q[k + i]
  <2>1. \A i \in (k + 1)..Len(q) : q[i] \in S
    BY <1>0, <1>e
  <2>2. /\ b \in Seq(S)
        /\ Len(b) = IF k + 1 <= Len(q) THEN Len(q) - (k + 1) + 1 ELSE 0
        /\ \A i \in 1..(Len(q) - (k + 1) + 1) : b[i] = q[(k + 1) + i - 1]
    BY <1>0, <2>1, SubSeqProperties
  <2> QED
    BY <1>0, <2>2
<1> HIDE DEF a, b
<1>3. a \o s \in Seq(S) /\ Len(a \o s) = k + Len(s)
      /\ \A i \in 1..(k + Len(s)) : (a \o s)[i] = IF i <= k THEN a[i] ELSE s[i - k]
  <2>1. /\ a \o s \in Seq(S)
        /\ Len(a \o s) = Len(a) + Len(s)
        /\ \A i \in 1..(Len(a) + Len(s)) :
              (a \o s)[i] = IF i <= Len(a) THEN a[i] ELSE s[i - Len(a)]
    BY <1>1, ConcatProperties
  <2> QED
    BY <1>1, <2>1
<1>4. (a \o s) \o b \in Seq(S) /\ Len((a \o s) \o b) = Len(q) + Len(s)
      /\ \A i \in 1..(Len(q) + Len(s)) :
            ((a \o s) \o b)[i] = IF i <= k + Len(s) THEN (a \o s)[i] ELSE b[i - (k + Len(s))]
  <2> DEFINE c == a \o s
  <2>0. c \in Seq(S) /\ Len(c) = k + Len(s)
    BY <1>3
  <2> HIDE DEF c
  <2>1. /\ c \o b \in Seq(S)
        /\ Len(c \o b) = Len(c) + Len(b)
        /\ \A i \in 1..(Len(c) + Len(b)) :
              (c \o b)[i] = IF i <= Len(c) THEN c[i] ELSE b[i - Len(c)]
    BY <1>2, <2>0, ConcatProperties
  <2>2. Len(c) + Len(b) = Len(q) + Len(s)
    BY <1>0, <1>2, <2>0
  <2> QED
    BY <2>0, <2>1, <2>2 DEF c
<1>5. r = (a \o s) \o b
  BY DEF InsertAfter, a, b
<1>6. \A i \in 1..(Len(q) + Len(s)) :
         r[i] = IF i <= k + Len(s) THEN (a \o s)[i] ELSE b[i - (k + Len(s))]
  BY <1>4, <1>5
<1>7. Len(r) = Len(q) + Len(s) /\ r \in Seq(S)
  BY <1>4, <1>5
<1>8. ASSUME NEW i \in 1..k PROVE r[i] = q[i]
  BY <1>0, <1>1, <1>3, <1>6
<1>9. ASSUME NEW i \in (k + 1)..(k + Len(s)) PROVE r[i] = s[i - k]
  BY <1>0, <1>3, <1>6
<1>10. ASSUME NEW i \in (k + Len(s) + 1)..Len(r) PROVE r[i] = q[i - Len(s)]
  <2>1. i - (k + Len(s)) \in 1..(Len(q) - k) /\ i \in 1..(Len(q) + Len(s)) /\ ~(i <= k + Len(s))
    BY <1>0, <1>7
  <2>2. r[i] = b[i - (k + Len(s))]
    BY <1>6, <2>1
  <2>3. b[i - (k + Len(s))] = q[k + (i - (k + Len(s)))]
    BY <1>2, <2>1
  <2>4. k + (i - (k + Len(s))) = i - Len(s)
    BY <1>0
  <2> QED
    BY <2>2, <2>3, <2>4
<1> QED
  BY <1>7, <1>8, <1>9, <1>10

\* The members of a list after an insertion; and, when the inserted ids are new and
\* pairwise different, still no duplicates.
LEMMA InsertAfterElems ==
  ASSUME NEW S, NEW q \in Seq(S), NEW s \in Seq(S), NEW k \in 0..Len(q),
         NEW r, r = InsertAfter(q, k, s)
  PROVE  Elems(r) = Elems(q) \cup Elems(s)
<1>0. Len(q) \in Nat /\ Len(s) \in Nat /\ k \in Nat /\ k <= Len(q)
  BY LenProperties
<1>1. /\ Len(r) = Len(q) + Len(s)
      /\ \A i \in 1..k : r[i] = q[i]
      /\ \A i \in (k + 1)..(k + Len(s)) : r[i] = s[i - k]
      /\ \A i \in (k + Len(s) + 1)..Len(r) : r[i] = q[i - Len(s)]
  BY InsertAfterFacts
<1>2. ASSUME NEW i \in 1..Len(r) PROVE r[i] \in Elems(q) \cup Elems(s)
  <2>1. CASE i <= k
    <3>1. i \in 1..k /\ i \in 1..Len(q)
      BY <1>0, <2>1
    <3> QED
      BY <1>1, <3>1 DEF Elems
  <2>2. CASE i > k /\ i <= k + Len(s)
    <3>1. i \in (k + 1)..(k + Len(s)) /\ i - k \in 1..Len(s)
      BY <1>0, <2>2
    <3> QED
      BY <1>1, <3>1 DEF Elems
  <2>3. CASE i > k + Len(s)
    <3>1. i \in (k + Len(s) + 1)..Len(r) /\ i - Len(s) \in 1..Len(q)
      BY <1>0, <1>1, <2>3
    <3> QED
      BY <1>1, <3>1 DEF Elems
  <2> QED
    BY <1>0, <2>1, <2>2, <2>3
<1>3. ASSUME NEW i \in 1..Len(q) PROVE q[i] \in Elems(r)
  <2>1. CASE i <= k
    <3>1. i \in 1..k /\ i \in 1..Len(r)
      BY <1>0, <1>1, <2>1
    <3> QED
      BY <1>1, <3>1 DEF Elems
  <2>2. CASE i > k
    <3>1. /\ i + Len(s) \in (k + Len(s) + 1)..Len(r) /\ i + Len(s) \in 1..Len(r)
          /\ (i + Len(s)) - Len(s) = i
      BY <1>0, <1>1, <2>2
    <3>2. r[i + Len(s)] = q[i]
      BY <1>1, <3>1
    <3> QED
      BY <3>1, <3>2 DEF Elems
  <2> QED
    BY <1>0, <2>1, <2>2
<1>4. ASSUME NEW i \in 1..Len(s) PROVE s[i] \in Elems(r)
  <2>1. /\ i + k \in (k + 1)..(k + Len(s)) /\ i + k \in 1..Len(r)
        /\ (i + k) - k = i
    BY <1>0, <1>1
  <2>2. r[i + k] = s[i]
    BY <1>1, <2>1
  <2> QED
    BY <2>1, <2>2 DEF Elems
<1>5. Elems(r) \subseteq Elems(q) \cup Elems(s)
  BY <1>2 DEF Elems
<1>6. Elems(q) \subseteq Elems(r)
  <2>1. ASSUME NEW x \in Elems(q) PROVE x \in Elems(r)
    <3>1. PICK i \in 1..Len(q) : x = q[i]
      BY <2>1 DEF Elems
    <3> QED
      BY <1>3, <3>1
  <2> QED
    BY <2>1
<1>7. Elems(s) \subseteq Elems(r)
  <2>1. ASSUME NEW x \in Elems(s) PROVE x \in Elems(r)
    <3>1. PICK i \in 1..Len(s) : x = s[i]
      BY <2>1 DEF Elems
    <3> QED
      BY <1>4, <3>1
  <2> QED
    BY <2>1
<1> QED
  BY <1>5, <1>6, <1>7

Injective(q) == \A i, j \in 1..Len(q) : q[i] = q[j] => i = j

LEMMA InsertAfterInjective ==
  ASSUME NEW S, NEW q \in Seq(S), NEW s \in Seq(S), NEW k \in 0..Len(q),
         NEW r, r = InsertAfter(q, k, s),
         Injective(q), Injective(s), Elems(q) \cap Elems(s) = {}
  PROVE  Injective(r)
<1>0. Len(q) \in Nat /\ Len(s) \in Nat /\ k \in Nat /\ k <= Len(q)
  BY LenProperties
<1>1. /\ Len(r) = Len(q) + Len(s)
      /\ \A i \in 1..k : r[i] = q[i]
      /\ \A i \in (k + 1)..(k + Len(s)) : r[i] = s[i - k]
      /\ \A i \in (k + Len(s) + 1)..Len(r) : r[i] = q[i - Len(s)]
  BY InsertAfterFacts
\* Every position of r comes from one of q or of s.
<1> DEFINE FromQ(i, p) == p \in 1..Len(q) /\ r[i] = q[p] /\ i = (IF p <= k THEN p ELSE p + Len(s))
           FromS(i, p) == p \in 1..Len(s) /\ r[i] = s[p] /\ i = p + k
<1>2. ASSUME NEW i \in 1..Len(r)
      PROVE  (\E p \in Int : FromQ(i, p)) \/ (\E p \in Int : FromS(i, p))
  <2>1. CASE i <= k
    <3>1. i \in 1..k /\ FromQ(i, i)
      BY <1>0, <1>1, <2>1
    <3> QED
      BY <3>1
  <2>2. CASE i > k /\ i <= k + Len(s)
    <3>1. i \in (k + 1)..(k + Len(s)) /\ i - k \in 1..Len(s) /\ i = (i - k) + k
      BY <1>0, <2>2
    <3>2. FromS(i, i - k)
      BY <1>1, <3>1
    <3> QED
      BY <3>1, <3>2
  <2>3. CASE i > k + Len(s)
    <3>1. /\ i \in (k + Len(s) + 1)..Len(r) /\ i - Len(s) \in 1..Len(q)
          /\ ~(i - Len(s) <= k) /\ i = (i - Len(s)) + Len(s)
      BY <1>0, <1>1, <2>3
    <3>2. FromQ(i, i - Len(s))
      BY <1>1, <3>1
    <3> QED
      BY <3>1, <3>2
  <2> QED
    BY <1>0, <2>1, <2>2, <2>3
<1>3. ASSUME NEW i \in 1..Len(r), NEW j \in 1..Len(r), r[i] = r[j] PROVE i = j
  <2>1. CASE (\E p \in Int : FromQ(i, p)) /\ (\E p \in Int : FromQ(j, p))
    BY <1>3, <2>1 DEF Injective
  <2>2. CASE (\E p \in Int : FromS(i, p)) /\ (\E p \in Int : FromS(j, p))
    BY <1>3, <2>2 DEF Injective
  <2>3. ~((\E p \in Int : FromQ(i, p)) /\ (\E p \in Int : FromS(j, p)))
    BY <1>3 DEF Elems
  <2>4. ~((\E p \in Int : FromS(i, p)) /\ (\E p \in Int : FromQ(j, p)))
    BY <1>3 DEF Elems
  <2> QED
    BY <1>2, <2>1, <2>2, <2>3, <2>4
<1> QED
  BY <1>3 DEF Injective

\* r is q without the element at position n (its head when n = 1).
Removes(r, q, n) ==
    /\ Len(r) = Len(q) - 1
    /\ \A i \in 1..(n - 1) : r[i] = q[i]
    /\ \A i \in n..Len(r) : r[i] = q[i + 1]

LEMMA RemovalFacts ==
  ASSUME NEW S, NEW q \in Seq(S), NEW n \in 1..Len(q), NEW r \in Seq(S),
         Removes(r, q, n), Injective(q)
  PROVE  Injective(r) /\ Elems(r) = Elems(q) \ {q[n]}
<1> USE DEF Removes
<1>0. Len(q) \in Nat /\ Len(r) \in Nat /\ n \in Nat /\ 1 <= n /\ n <= Len(q)
  BY LenProperties
<1> DEFINE src(i) == IF i < n THEN i ELSE i + 1
<1>1. ASSUME NEW i \in 1..Len(r) PROVE src(i) \in 1..Len(q) /\ r[i] = q[src(i)] /\ src(i) # n
  <2>1. CASE i < n
    BY <1>0, <2>1
  <2>2. CASE i >= n
    BY <1>0, <2>2
  <2> QED
    BY <1>0, <2>1, <2>2
<1>2. ASSUME NEW i \in 1..Len(q), i # n PROVE \E j \in 1..Len(r) : r[j] = q[i]
  <2>1. CASE i < n
    <3>1. i \in 1..(n - 1) /\ i \in 1..Len(r)
      BY <1>0, <2>1
    <3> QED
      BY <3>1
  <2>2. CASE i > n
    <3>1. i - 1 \in n..Len(r) /\ i - 1 \in 1..Len(r) /\ (i - 1) + 1 = i
      BY <1>0, <2>2
    <3>2. r[i - 1] = q[i]
      BY <3>1
    <3> QED
      BY <3>1, <3>2
  <2> QED
    BY <1>0, <1>2, <2>1, <2>2
<1>3. ASSUME NEW i \in 1..Len(r), NEW j \in 1..Len(r), r[i] = r[j] PROVE i = j
  <2>1. src(i) = src(j)
    BY <1>1, <1>3 DEF Injective
  <2> QED
    BY <1>0, <2>1
<1>4. Elems(r) \subseteq Elems(q) \ {q[n]}
  <2>1. ASSUME NEW x \in Elems(r) PROVE x \in Elems(q) /\ x # q[n]
    <3>1. PICK i \in 1..Len(r) : x = r[i]
      BY <2>1 DEF Elems
    <3>2. PICK j \in 1..Len(q) : x = q[j] /\ j # n
      BY <1>1, <3>1
    <3> QED
      BY <1>0, <3>2 DEF Elems, Injective
  <2> QED
    BY <2>1
<1>5. Elems(q) \ {q[n]} \subseteq Elems(r)
  <2>1. ASSUME NEW x \in Elems(q), x # q[n] PROVE x \in Elems(r)
    <3>1. PICK i \in 1..Len(q) : x = q[i]
      BY <2>1 DEF Elems
    <3>2. PICK j \in 1..Len(r) : r[j] = q[i]
      BY <1>2, <2>1, <3>1
    <3> QED
      BY <3>1, <3>2 DEF Elems
  <2> QED
    BY <2>1
<1> QED
  BY <1>3, <1>4, <1>5 DEF Injective

LEMMA TailRemoves ==
  ASSUME NEW S, NEW q \in Seq(S), q # <<>>, Injective(q)
  PROVE  /\ Head(q) \in Elems(q)
         /\ Tail(q) \in Seq(S) /\ Injective(Tail(q))
         /\ Elems(Tail(q)) = Elems(q) \ {Head(q)}
         /\ 1 \in 1..Len(q) /\ Removes(Tail(q), q, 1)
<1> DEFINE t == Tail(q)
           h == Head(q)
<1>1. Len(q) \in Nat \ {0}
  BY EmptySeq
<1>2. /\ t \in Seq(S)
      /\ Len(t) = Len(q) - 1
      /\ \A i \in 1..Len(t) : t[i] = q[i + 1]
  BY HeadTailProperties
<1>3. h = q[1] /\ 1 \in 1..Len(q)
  BY <1>1
<1>4. \A i \in 1..(1 - 1) : t[i] = q[i]
  OBVIOUS
<1> HIDE DEF t, h
<1>5. Removes(t, q, 1)
  BY <1>2, <1>4 DEF Removes
<1>6. PICK n \in 1..Len(q) : n = 1
  BY <1>3
<1>7. Removes(t, q, n)
  BY <1>5, <1>6
<1>8. Injective(t) /\ Elems(t) = Elems(q) \ {q[n]}
  BY <1>2, <1>7, RemovalFacts
<1>9. h \in Elems(q) /\ h = q[n]
  BY <1>3, <1>6 DEF Elems
<1> QED
  BY <1>2, <1>3, <1>5, <1>8, <1>9 DEF t, h

LEMMA WithoutRemoves ==
  ASSUME NEW S, NEW q \in Seq(S), NEW n \in 1..Len(q), Injective(q)
  PROVE  /\ Without(q, n) \in Seq(S) /\ Injective(Without(q, n))
         /\ Elems(Without(q, n)) = Elems(q) \ {q[n]}
         /\ Removes(Without(q, n), q, n)
<1>0. Len(q) \in Nat /\ n \in Nat /\ 1 <= n /\ n <= Len(q)
  BY LenProperties
<1>e. \A i \in 1..Len(q) : q[i] \in S
  BY ElementOfSeq
<1> DEFINE a == SubSeq(q, 1, n - 1)
           b == SubSeq(q, n + 1, Len(q))
<1>1. a \in Seq(S) /\ Len(a) = n - 1 /\ \A i \in 1..(n - 1) : a[i] = q[i]
  <2>1. \A i \in 1..(n - 1) : q[i] \in S
    BY <1>0, <1>e
  <2>2. /\ a \in Seq(S)
        /\ Len(a) = IF 1 <= n - 1 THEN (n - 1) - 1 + 1 ELSE 0
        /\ \A i \in 1..((n - 1) - 1 + 1) : a[i] = q[1 + i - 1]
    BY <1>0, <2>1, SubSeqProperties
  <2> QED
    BY <1>0, <2>2
<1>2. b \in Seq(S) /\ Len(b) = Len(q) - n /\ \A i \in 1..(Len(q) - n) : b[i] = q[n + i]
  <2>1. \A i \in (n + 1)..Len(q) : q[i] \in S
    BY <1>0, <1>e
  <2>2. /\ b \in Seq(S)
        /\ Len(b) = IF n + 1 <= Len(q) THEN Len(q) - (n + 1) + 1 ELSE 0
        /\ \A i \in 1..(Len(q) - (n + 1) + 1) : b[i] = q[(n + 1) + i - 1]
    BY <1>0, <2>1, SubSeqProperties
  <2> QED
    BY <1>0, <2>2
<1> HIDE DEF a, b
<1>3. /\ a \o b \in Seq(S) /\ Len(a \o b) = Len(a) + Len(b)
      /\ \A i \in 1..(Len(a) + Len(b)) : (a \o b)[i] = IF i <= Len(a) THEN a[i] ELSE b[i - Len(a)]
  BY <1>1, <1>2, ConcatProperties
<1> DEFINE r == a \o b
<1>4. r \in Seq(S) /\ Len(r) = Len(q) - 1
  BY <1>0, <1>1, <1>2, <1>3
<1>5. ASSUME NEW i \in 1..(n - 1) PROVE r[i] = q[i]
  BY <1>0, <1>1, <1>2, <1>3
<1>6. ASSUME NEW i \in n..Len(r) PROVE r[i] = q[i + 1]
  <2>1. /\ i \in 1..(Len(a) + Len(b)) /\ ~(i <= Len(a)) /\ i - Len(a) \in 1..(Len(q) - n)
        /\ n + (i - Len(a)) = i + 1
    BY <1>0, <1>1, <1>2, <1>4
  <2> QED
    BY <1>2, <1>3, <2>1
<1>7. Without(q, n) = r
  BY DEF Without, a, b
<1> HIDE DEF r
<1>8. Removes(r, q, n)
  BY <1>4, <1>5, <1>6 DEF Removes
<1>9. Injective(r) /\ Elems(r) = Elems(q) \ {q[n]}
  BY <1>4, <1>8, RemovalFacts
<1> QED
  BY <1>4, <1>7, <1>8, <1>9

\* The order of a list by the numbers f of its elements, highest first.
Sorted(q, f) == \A i, j \in 1..Len(q) : i <= j => f[q[i]] >= f[q[j]]

\* Position k is where an element of value p belongs.
Fits(q, k, f, p) ==
    /\ \A i \in 1..k : f[q[i]] >= p
    /\ \A i \in (k + 1)..Len(q) : f[q[i]] < p

\* All elements have the value p.
Level(s, f, p) == \A i \in 1..Len(s) : f[s[i]] = p

\* Inserting behind everything that is at least as high and before everything lower
\* keeps the order.
LEMMA InsertAfterSorted ==
  ASSUME NEW S, NEW q \in Seq(S), NEW s \in Seq(S), NEW k \in 0..Len(q),
         NEW r, r = InsertAfter(q, k, s),
         NEW f \in [S -> Int], NEW p \in Int, Sorted(q, f), Fits(q, k, f, p), Level(s, f, p)
  PROVE  Sorted(r, f)
<1>0. Len(q) \in Nat /\ Len(s) \in Nat /\ k \in Nat /\ k <= Len(q)
  BY LenProperties
<1>1. /\ Len(r) = Len(q) + Len(s)
      /\ \A i \in 1..k : r[i] = q[i]
      /\ \A i \in (k + 1)..(k + Len(s)) : r[i] = s[i - k]
      /\ \A i \in (k + Len(s) + 1)..Len(r) : r[i] = q[i - Len(s)]
  BY InsertAfterFacts, SMTT(60)
<1>2. ASSUME NEW i \in 1..Len(r), i <= k
      PROVE  i \in 1..Len(q) /\ r[i] = q[i] /\ f[r[i]] >= p
  <2>1. i \in 1..k /\ i \in 1..Len(q)
    BY <1>0, <1>2
  <2>2. r[i] = q[i]
    BY <1>1, <2>1
  <2>3. f[q[i]] >= p
    BY <2>1 DEF Fits
  <2> QED
    BY <2>1, <2>2, <2>3
<1>3. ASSUME NEW i \in 1..Len(r), k < i, i <= k + Len(s) PROVE f[r[i]] = p
  <2>1. i \in (k + 1)..(k + Len(s)) /\ i - k \in 1..Len(s)
    BY <1>0, <1>3
  <2> QED
    BY <1>1, <2>1 DEF Level
<1>4. ASSUME NEW i \in 1..Len(r), k + Len(s) < i
      PROVE  i - Len(s) \in 1..Len(q) /\ r[i] = q[i - Len(s)] /\ f[r[i]] < p
  <2>0. Len(r) = Len(q) + Len(s)
    BY <1>1
  <2>1. /\ i \in (k + Len(s) + 1)..Len(r) /\ i - Len(s) \in (k + 1)..Len(q)
        /\ i - Len(s) \in 1..Len(q)
    BY <1>0, <1>4, <2>0
  <2>2. r[i] = q[i - Len(s)]
    BY <1>1, <2>1
  <2>3. f[q[i - Len(s)]] < p
    BY <2>1 DEF Fits
  <2> QED
    BY <2>1, <2>2, <2>3
<1>5. \A x \in 1..Len(q) : f[q[x]] \in Int
  BY ElementOfSeq
<1>6. ASSUME NEW i \in 1..Len(r), NEW j \in 1..Len(r), i <= j PROVE f[r[i]] >= f[r[j]]
  <2>1. CASE j <= k
    <3>1. i <= k
      BY <1>0, <1>6, <2>1
    <3>2. /\ i \in 1..Len(q) /\ r[i] = q[i]
          /\ j \in 1..Len(q) /\ r[j] = q[j]
      BY <1>2, <2>1, <3>1
    <3> QED
      BY <1>6, <3>2 DEF Sorted
  <2>2. CASE k < j /\ j <= k + Len(s)
    <3>1. f[r[j]] = p
      BY <1>3, <2>2
    <3>2. CASE i <= k
      BY <1>2, <3>1, <3>2
    <3>3. CASE k < i
      <4>1. i <= k + Len(s)
        BY <1>0, <1>6, <2>2
      <4> QED
        BY <1>3, <3>1, <3>3, <4>1
    <3> QED
      BY <1>0, <3>2, <3>3
  <2>3. CASE k + Len(s) < j
    <3>1. j - Len(s) \in 1..Len(q) /\ r[j] = q[j - Len(s)] /\ f[r[j]] < p /\ f[r[j]] \in Int
      BY <1>4, <1>5, <2>3
    <3>2. CASE i <= k
      <4>1. f[r[i]] >= p /\ f[r[i]] \in Int
        BY <1>2, <1>5, <3>2
      <4> QED
        BY <3>1, <4>1
    <3>3. CASE k < i /\ i <= k + Len(s)
      <4>1. f[r[i]] = p
        BY <1>3, <3>3
      <4> QED
        BY <3>1, <4>1
    <3>4. CASE k + Len(s) < i
      <4>1. i - Len(s) \in 1..Len(q) /\ r[i] = q[i - Len(s)]
        BY <1>4, <3>4
      <4>2. i - Len(s) <= j - Len(s)
        BY <1>0, <1>6
      <4> QED
        BY <3>1, <4>1, <4>2 DEF Sorted
    <3> QED
      BY <1>0, <3>2, <3>3, <3>4
  <2> QED
    BY <1>0, <2>1, <2>2, <2>3
<1> QED
  BY <1>6 DEF Sorted

\* So does removing an element.
LEMMA RemovesSorted ==
  ASSUME NEW S, NEW q \in Seq(S), NEW r \in Seq(S), NEW n \in 1..Len(q),
         Removes(r, q, n), NEW f, Sorted(q, f)
  PROVE  Sorted(r, f)
<1>0. Len(q) \in Nat /\ Len(r) = Len(q) - 1 /\ n \in Nat /\ 1 <= n /\ n <= Len(q)
  BY LenProperties DEF Removes
<1> DEFINE src(i) == IF i < n THEN i ELSE i + 1
<1>1. ASSUME NEW i \in 1..Len(r) PROVE src(i) \in 1..Len(q) /\ r[i] = q[src(i)]
  <2>1. CASE i < n
    <3>1. i \in 1..(n - 1) /\ i \in 1..Len(q)
      BY <1>0, <2>1
    <3> QED
      BY <2>1, <3>1 DEF Removes
  <2>2. CASE ~(i < n)
    <3>1. i \in n..Len(r) /\ i + 1 \in 1..Len(q)
      BY <1>0, <2>2
    <3> QED
      BY <2>2, <3>1 DEF Removes
  <2> QED
    BY <2>1, <2>2
<1>2. ASSUME NEW i \in 1..Len(r), NEW j \in 1..Len(r), i <= j PROVE f[r[i]] >= f[r[j]]
  <2>1. src(i) <= src(j)
    BY <1>0, <1>2
  <2>2. /\ src(i) \in 1..Len(q) /\ r[i] = q[src(i)]
        /\ src(j) \in 1..Len(q) /\ r[j] = q[src(j)]
    BY <1>1
  <2> HIDE DEF src
  <2> QED
    BY <2>1, <2>2 DEF Sorted
<1> QED
  BY <1>2 DEF Sorted

-----------------------------------------------------------------------------
(***************************************************************************)
(* The inductive invariant.  What the properties say of the queue, of the  *)
(* workers and of the attempts is kept only together: a client's retry is  *)
(* harmless because a failed item is not in the queue, a worker's write    *)
(* because its item is still running, stop() because a pending item is in  *)
(* work_items.                                                             *)
(***************************************************************************)
\* Waiting: pending_work_ids is the set of pending items, all of them queued.
Waiting(w) ==
    /\ w \in pending <=> status[w] = "pending"
    /\ status[w] = "pending" => w \in Elems(queue)
    /\ w \in Elems(queue) => status[w] \in {"pending", "cancelled"}

\* Known: only completed items leave work_items.
Known(w) ==
    /\ w \in work_items => status[w] # "none"
    /\ status[w] \notin {"none", "completed"} => w \in work_items
    /\ w \in completed => status[w] = "completed"

\* Executing: no client can touch what a worker may still write.
Executing(w) == future[w] \in {"submitted", "executing"} => status[w] = "running"

\* Attempts: a queued item has an attempt left, a started one had its
\* dependencies completed.
Attempts(w) ==
    /\ attempt[w] <= MaxAttempts
    /\ status[w] = "pending" => attempt[w] < MaxAttempts
    /\ status[w] = "none" => attempt[w] = 0
    /\ attempt[w] > 0 => \A d \in dependencies[w] : status[d] = "completed"

ItemInv(w) == Waiting(w) /\ Known(w) /\ Executing(w) /\ Attempts(w)

Inv == TypeOK /\ Injective(queue) /\ \A w \in Items : ItemInv(w)

\* What every step does to an item that is completed or cancelled.
Final(w) == status[w] \in {"completed", "cancelled"} => status'[w] = status[w]

\* What a step has to establish.
StepOK == Inv' /\ \A w \in Items : Final(w)

\* Appending new ids and sorting adds exactly these ids.
LEMMA EnqueueAdds ==
  ASSUME TypeOK, Injective(queue), NEW s \in Seq(Items), NEW p, Injective(s),
         Elems(queue) \cap Elems(s) = {}, Enqueue(s, p)
  PROVE  /\ queue' \in Seq(Items) /\ Injective(queue')
         /\ Elems(queue') = Elems(queue) \cup Elems(s)
<1>1. queue \in Seq(Items)
  BY DEF TypeOK
<1>2. PICK k \in 0..Len(queue) : queue' = InsertAfter(queue, k, s)
  BY DEF Enqueue, Slots
<1>3. queue' \in Seq(Items)
  BY <1>1, <1>2, InsertAfterFacts
<1>4. Elems(queue') = Elems(queue) \cup Elems(s)
  BY <1>1, <1>2, InsertAfterElems
<1>5. Injective(queue')
  BY <1>1, <1>2, InsertAfterInjective
<1> QED
  BY <1>3, <1>4, <1>5

\* A single id as a list.
LEMMA SingleId ==
  ASSUME NEW w \in Items
  PROVE  <<w>> \in Seq(Items) /\ Injective(<<w>>) /\ Elems(<<w>>) = {w}
<1>1. <<w>> \in Seq(Items) /\ Len(<<w>>) = 1 /\ <<w>>[1] = w
  OBVIOUS
<1>2. 1..1 = {1}
  OBVIOUS
<1>3. Injective(<<w>>)
  BY <1>1 DEF Injective
<1>4. Elems(<<w>>) = {w}
  BY <1>1, <1>2 DEF Elems
<1> QED
  BY <1>1, <1>3, <1>4

\* Putting one id back that is not in the queue.
LEMMA EnqueueOne ==
  ASSUME TypeOK, Injective(queue), NEW w \in Items, NEW p,
         w \notin Elems(queue), Enqueue(<<w>>, p)
  PROVE  /\ queue' \in Seq(Items) /\ Injective(queue')
         /\ \A v \in Items : v \in Elems(queue') <=> v \in Elems(queue) \/ v = w
<1> DEFINE s == <<w>>
<1>1. s \in Seq(Items) /\ Injective(s) /\ Elems(s) = {w}
  BY SingleId
<1>2. Enqueue(s, p)
  OBVIOUS
<1> HIDE DEF s
<1>3. Elems(queue) \cap Elems(s) = {}
  BY <1>1
<1>4. /\ queue' \in Seq(Items) /\ Injective(queue')
      /\ Elems(queue') = Elems(queue) \cup Elems(s)
  BY <1>1, <1>2, <1>3, EnqueueAdds
<1> QED
  BY <1>1, <1>4

-----------------------------------------------------------------------------
(* One lemma per operation: it preserves the invariant and revives nothing. *)

LEMMA InvInit == Init => Inv
<1> SUFFICES ASSUME Init PROVE Inv
  OBVIOUS
<1>1. TypeOK
  <2> DEFINE p0 == CHOOSE p \in Priorities : TRUE
  <2>1. p0 \in Priorities /\ priority = [w \in Items |-> p0]
    BY PrioritiesAssumption DEF Init
  <2> HIDE DEF p0
  <2>2. priority \in [Items -> Priorities] /\ starts \in 0..MaxStarts
    BY <2>1, LimitsAssumption DEF Init
  <2>3. /\ status \in [Items -> WorkStatus \cup {"none"}]
        /\ future \in [Items -> FutureState]
        /\ dependencies \in [Items -> SUBSET Items]
        /\ attempt \in [Items -> Nat] /\ completed_at \in [Items -> Nat]
    BY DEF Init, FutureState
  <2>4. queue = <<>> /\ isRunning \in BOOLEAN /\ executorUp \in BOOLEAN
    BY DEF Init
  <2>5. queue \in Seq(Items)
    BY <2>4, EmptySeq
  <2> QED
    BY <2>2, <2>3, <2>4, <2>5 DEF Init, TypeOK
<1>2. Injective(queue) /\ Elems(queue) = {}
  BY DEF Init, Injective, Elems
<1>3. ASSUME NEW w \in Items PROVE ItemInv(w)
  BY <1>2, LimitsAssumption DEF Init, ItemInv, Waiting, Known, Executing, Attempts
<1> QED
  BY <1>1, <1>2, <1>3 DEF Inv

LEMMA AddsStep ==
  ASSUME Inv, NEW s \in Seq(Items), Injective(s), NEW p \in Priorities,
         NEW deps \in [Elems(s) -> SUBSET Items], AddItems(s, p, deps)
  PROVE  StepOK
<1> USE DEF Inv, AddItems, futureVars, mgrVars, lifeVars
<1>s. Elems(s) \subseteq Items
  BY ElementOfSeq DEF Elems
<1>n. \A w \in Elems(s) : status[w] = "none"
  BY DEF Elems
<1>0. Elems(queue) \cap Elems(s) = {}
  <2>1. ASSUME NEW w \in Elems(s), w \in Elems(queue) PROVE FALSE
    <3>1. w \in Items /\ status[w] = "none" /\ Waiting(w)
      BY <1>n, <1>s DEF ItemInv
    <3> QED
      BY <2>1, <3>1 DEF Waiting
  <2> QED
    BY <2>1
<1>q. /\ queue' \in Seq(Items) /\ Injective(queue')
      /\ Elems(queue') = Elems(queue) \cup Elems(s)
  BY <1>0, EnqueueAdds
<1>1. TypeOK'
  BY <1>q, <1>s DEF TypeOK, WorkStatus
<1>2. ASSUME NEW v \in Items PROVE ItemInv(v)'
  <2>0. ItemInv(v)
    OBVIOUS
  <2>1. Waiting(v)'
    BY <2>0, <1>q DEF ItemInv, Waiting, TypeOK
  <2>2. Known(v)'
    BY <2>0, <1>n DEF ItemInv, Known, TypeOK
  <2>3. Executing(v)'
    BY <2>0, <1>n DEF ItemInv, Executing, TypeOK
  <2>4. Attempts(v)'
    <3>1. CASE v \in Elems(s)
      BY <2>0, <3>1, <1>n, LimitsAssumption DEF ItemInv, Attempts, TypeOK
    <3>2. CASE v \notin Elems(s)
      BY <2>0, <3>2, <1>n DEF ItemInv, Attempts, TypeOK
    <3> QED
      BY <3>1, <3>2
  <2> QED
    BY <2>1, <2>2, <2>3, <2>4 DEF ItemInv
<1>3. ASSUME NEW v \in Items PROVE Final(v)
  BY <1>n DEF Final, TypeOK
<1> QED
  BY <1>q, <1>1, <1>2, <1>3 DEF StepOK

\* A failed item with an attempt left goes back to the queue, whoever retries.
Retried(w) ==
    /\ is_retriable(w)
    /\ status' = [status EXCEPT ![w] = "pending"]
    /\ pending' = pending \cup {w}
    /\ Enqueue(<<w>>, priority[w])
    /\ UNCHANGED <<work_items, completed, attempt, dependencies, future>>

LEMMA RetriedKeeps ==
  ASSUME Inv, NEW w \in Items, Retried(w)
  PROVE  /\ queue' \in Seq(Items) /\ Injective(queue')
         /\ \A v \in Items : ItemInv(v)' /\ Final(v)
<1> USE DEF Inv, Retried, is_retriable
<1>0. ItemInv(w) /\ w \notin Elems(queue)
  BY DEF ItemInv, Waiting
<1>q. /\ queue' \in Seq(Items) /\ Injective(queue')
      /\ \A v \in Items : v \in Elems(queue') <=> v \in Elems(queue) \/ v = w
  BY <1>0, EnqueueOne
<1>1. ASSUME NEW v \in Items PROVE ItemInv(v)' /\ Final(v)
  <2>0. ItemInv(v)
    OBVIOUS
  <2>1. Waiting(v)'
    BY <2>0, <1>q DEF ItemInv, Waiting, TypeOK
  <2>2. Known(v)'
    BY <2>0, <1>0 DEF ItemInv, Known, TypeOK
  <2>3. Executing(v)'
    BY <2>0, <1>0 DEF ItemInv, Executing, TypeOK
  <2>4. Attempts(v)'
    BY <2>0, <1>0 DEF ItemInv, Attempts, TypeOK
  <2>5. Final(v)
    BY DEF Final, TypeOK
  <2> QED
    BY <2>1, <2>2, <2>3, <2>4, <2>5 DEF ItemInv
<1> QED
  BY <1>q, <1>1

LEMMA RetryStep ==
  ASSUME Inv, NEW w \in Items, retry_work(w)
  PROVE  StepOK
<1>1. Retried(w)
  BY DEF retry_work, Retried, futureVars
<1>2. /\ queue' \in Seq(Items) /\ Injective(queue')
      /\ \A v \in Items : ItemInv(v)' /\ Final(v)
  BY <1>1, RetriedKeeps
<1>3. TypeOK'
  BY <1>2 DEF Inv, TypeOK, WorkStatus, retry_work, futureVars, mgrVars, lifeVars
<1> QED
  BY <1>2, <1>3 DEF StepOK, Inv

LEMMA HandleRetriableStep ==
  ASSUME Inv, NEW w \in Items, HandleRetriable(w)
  PROVE  StepOK
<1>1. Retried(w)
  BY DEF HandleRetriable, Reaps, Retried, futureVars
<1>2. /\ queue' \in Seq(Items) /\ Injective(queue')
      /\ \A v \in Items : ItemInv(v)' /\ Final(v)
  BY <1>1, RetriedKeeps
<1>3. TypeOK'
  BY <1>2 DEF Inv, TypeOK, WorkStatus, HandleRetriable, Reaps, futureVars, lifeVars
<1> QED
  BY <1>2, <1>3 DEF StepOK, Inv

LEMMA CancelStep ==
  ASSUME Inv, NEW w \in Items, cancel_work(w)
  PROVE  StepOK
<1> USE DEF Inv, cancel_work, mgrVars, lifeVars
<1>0. ItemInv(w) /\ future[w] \notin {"submitted", "executing"}
  BY DEF ItemInv, Executing
<1>q. /\ queue' \in Seq(Items) /\ Injective(queue')
      /\ \A v \in Items : v \in Elems(queue') <=> v \in Elems(queue) /\ v # w
  <2>1. CASE w \in Elems(queue)
    <3>1. PICK i \in 1..Len(queue) : queue[i] = w /\ queue' = Without(queue, i)
      BY <2>1 DEF RemovedFromQueue
    <3>2. queue \in Seq(Items)
      BY DEF TypeOK
    <3>3. /\ Without(queue, i) \in Seq(Items) /\ Injective(Without(queue, i))
          /\ Elems(Without(queue, i)) = Elems(queue) \ {queue[i]}
      BY <3>2, WithoutRemoves
    <3> QED
      BY <3>1, <3>3
  <2>2. CASE w \notin Elems(queue)
    BY <2>2 DEF RemovedFromQueue, TypeOK
  <2> QED
    BY <2>1, <2>2
<1>f. future' = future
  BY <1>0
<1>1. TypeOK'
  BY <1>q, <1>f DEF TypeOK, WorkStatus
<1>2. ASSUME NEW v \in Items PROVE ItemInv(v)' /\ Final(v)
  <2>0. ItemInv(v)
    OBVIOUS
  <2>1. Waiting(v)'
    BY <2>0, <1>q DEF ItemInv, Waiting, TypeOK
  <2>2. Known(v)'
    BY <2>0, <1>0 DEF ItemInv, Known, TypeOK
  <2>3. Executing(v)'
    BY <2>0, <1>0, <1>f DEF ItemInv, Executing, TypeOK
  <2>4. Attempts(v)'
    BY <2>0 DEF ItemInv, Attempts, TypeOK
  <2>5. Final(v)
    BY DEF Final, TypeOK
  <2> QED
    BY <2>1, <2>2, <2>3, <2>4, <2>5 DEF ItemInv
<1> QED
  BY <1>q, <1>1, <1>2 DEF StepOK

LEMMA StopStep ==
  ASSUME Inv, NEW wait \in BOOLEAN, stop(wait)
  PROVE  StepOK
<1> USE DEF Inv, stop, futureVars, mgrVars
<1>1. TypeOK'
  BY DEF TypeOK, WorkStatus
<1>2. ASSUME NEW v \in Items PROVE ItemInv(v)' /\ Final(v)
  <2>0. ItemInv(v)
    OBVIOUS
  <2>1. Waiting(v)'
    BY <2>0 DEF ItemInv, Waiting, Known, TypeOK
  <2>2. Known(v)'
    BY <2>0 DEF ItemInv, Known, Waiting, TypeOK
  <2>3. Executing(v)'
    BY <2>0 DEF ItemInv, Executing, Waiting, TypeOK
  <2>4. Attempts(v)'
    BY <2>0 DEF ItemInv, Attempts, Waiting, TypeOK
  <2>5. Final(v)
    BY <2>0 DEF ItemInv, Waiting, Final, TypeOK
  <2> QED
    BY <2>1, <2>2, <2>3, <2>4, <2>5 DEF ItemInv
<1> QED
  BY <1>1, <1>2 DEF StepOK

\* Eviction removes completed items only.
LEMMA HandleCompletedStep ==
  ASSUME Inv, NEW w \in Items, HandleCompleted(w)
  PROVE  StepOK
<1> USE DEF Inv, HandleCompleted, Reaps, futureVars, lifeVars
<1>e. \A v \in Evicted(completed \cup {w}) : v \in completed \/ v = w
  BY DEF Evicted, Oldest
<1>1. TypeOK'
  BY DEF TypeOK
<1>2. ASSUME NEW v \in Items PROVE ItemInv(v)' /\ Final(v)
  <2>0. ItemInv(v)
    OBVIOUS
  <2>1. Waiting(v)' /\ Executing(v)' /\ Attempts(v)'
    BY <2>0 DEF ItemInv, Waiting, Executing, Attempts
  <2>2. Known(v)'
    BY <2>0, <1>e DEF ItemInv, Known
  <2> QED
    BY <2>1, <2>2 DEF ItemInv, Final
<1> QED
  BY <1>1, <1>2 DEF StepOK

\* Steps that leave items, queue and tracking of pending items alone.
Bystander ==
    UNCHANGED <<status, dependencies, attempt, work_items, queue, pending, completed, future>>

LEMMA BystanderStep ==
  ASSUME Inv, Bystander, TypeOK'
  PROVE  StepOK
<1> USE DEF Inv, Bystander
<1>1. ASSUME NEW v \in Items PROVE ItemInv(v)' /\ Final(v)
  BY DEF ItemInv, Waiting, Known, Executing, Attempts, Final
<1> QED
  BY <1>1 DEF StepOK

\* The head of the queue leaves it.
LEMMA PopsHead ==
  ASSUME Inv, NEW w \in Items, Pops(w)
  PROVE  /\ w \in Elems(queue)
         /\ Tail(queue) \in Seq(Items) /\ Injective(Tail(queue))
         /\ Elems(Tail(queue)) = Elems(queue) \ {w}
  BY TailRemoves DEF Inv, TypeOK, Pops

LEMMA SkipStep ==
  ASSUME Inv, NEW w \in Items, ManagerSkips(w)
  PROVE  StepOK
<1> USE DEF Inv, ManagerSkips, itemVars, futureVars, lifeVars
<1>t. /\ Tail(queue) \in Seq(Items) /\ Injective(Tail(queue))
      /\ Elems(Tail(queue)) = Elems(queue) \ {w}
  BY PopsHead
<1>q. /\ queue' \in Seq(Items) /\ Injective(queue')
      /\ \A v \in Items : v \in Elems(queue') <=> v \in Elems(queue) /\ v # w
  BY <1>t
<1>0. status[w] # "pending"
  BY DEF ItemInv, Known
<1>1. TypeOK'
  BY <1>q DEF TypeOK
<1>2. ASSUME NEW v \in Items PROVE ItemInv(v)' /\ Final(v)
  <2>0. ItemInv(v)
    OBVIOUS
  <2>1. Known(v)' /\ Executing(v)' /\ Attempts(v)'
    BY <2>0 DEF ItemInv, Known, Executing, Attempts
  <2>2. Waiting(v)'
    BY <2>0, <1>q, <1>0 DEF ItemInv, Waiting
  <2> QED
    BY <2>1, <2>2 DEF ItemInv, Final
<1> QED
  BY <1>q, <1>1, <1>2 DEF StepOK

LEMMA DeferStep ==
  ASSUME Inv, NEW w \in Items, ManagerDefers(w)
  PROVE  StepOK
<1> USE DEF Inv, ManagerDefers, itemVars, futureVars, lifeVars
<1> DEFINE t == Tail(queue)
           s == <<w>>
<1>t. /\ w \in Elems(queue)
      /\ t \in Seq(Items) /\ Injective(t) /\ Elems(t) = Elems(queue) \ {w}
  BY PopsHead
<1>s. s \in Seq(Items) /\ Injective(s) /\ Elems(s) = {w}
  BY SingleId
<1>k. PICK k \in 0..Len(t) : queue' = InsertAfter(t, k, s)
  BY DEF Slots
<1> HIDE DEF t, s
<1>d. Elems(t) \cap Elems(s) = {}
  BY <1>t, <1>s
<1>a. queue' \in Seq(Items)
  BY <1>t, <1>s, <1>k, InsertAfterFacts
<1>b. Elems(queue') = Elems(t) \cup Elems(s)
  BY <1>t, <1>s, <1>k, InsertAfterElems
<1>c. Injective(queue')
  BY <1>t, <1>s, <1>k, <1>d, InsertAfterInjective
<1>q. \A v \in Items : v \in Elems(queue') <=> v \in Elems(queue)
  BY <1>t, <1>s, <1>b
<1>1. TypeOK'
  BY <1>a DEF TypeOK
<1>2. ASSUME NEW v \in Items PROVE ItemInv(v)' /\ Final(v)
  <2>0. ItemInv(v)
    OBVIOUS
  <2>1. Known(v)' /\ Executing(v)' /\ Attempts(v)'
    BY <2>0 DEF ItemInv, Known, Executing, Attempts
  <2>2. Waiting(v)'
    BY <2>0, <1>q DEF ItemInv, Waiting
  <2> QED
    BY <2>1, <2>2 DEF ItemInv, Final
<1> QED
  BY <1>c, <1>1, <1>2 DEF StepOK

\* mark_running, whether or not the executor then accepts the item.
LEMMA MarksRunningStep ==
  ASSUME Inv, NEW w \in Items, ManagerSubmits(w) \/ SubmitRaises(w)
  PROVE  StepOK
<1> USE DEF Inv, futureVars, lifeVars
<1>m. MarksRunning(w)
  BY DEF ManagerSubmits, SubmitRaises
<1>t. /\ w \in Elems(queue)
      /\ Tail(queue) \in Seq(Items) /\ Injective(Tail(queue))
      /\ Elems(Tail(queue)) = Elems(queue) \ {w}
  BY <1>m, PopsHead DEF MarksRunning
<1>q. /\ queue' \in Seq(Items) /\ Injective(queue')
      /\ \A v \in Items : v \in Elems(queue') <=> v \in Elems(queue) /\ v # w
  BY <1>m, <1>t DEF MarksRunning
<1>0. status[w] = "pending" /\ attempt[w] < MaxAttempts /\ w \in work_items
  BY <1>m, <1>t DEF MarksRunning, ItemInv, Waiting, Attempts
<1>f. \A v \in Items : v # w => future'[v] = future[v]
  BY DEF ManagerSubmits, SubmitRaises, TypeOK
<1>1. TypeOK'
  <2>1. /\ status' \in [Items -> WorkStatus \cup {"none"}]
        /\ attempt' \in [Items -> Nat]
        /\ pending' \subseteq Items /\ running' \subseteq Items
    BY <1>m DEF TypeOK, WorkStatus, MarksRunning
  <2>2. /\ future' \in [Items -> FutureState]
        /\ futures' \subseteq Items /\ mgrFutures' \subseteq Items
        /\ mgr' \in {"off", "sleep", "loop", "reap"}
    <3>1. CASE ManagerSubmits(w)
      BY <3>1 DEF TypeOK, FutureState, ManagerSubmits
    <3>2. CASE SubmitRaises(w)
      BY <3>2 DEF TypeOK, SubmitRaises
    <3> QED
      BY <3>1, <3>2
  <2> QED
    BY <1>m, <1>q, <2>1, <2>2 DEF TypeOK, MarksRunning
<1>2. ASSUME NEW v \in Items PROVE ItemInv(v)' /\ Final(v)
  <2>0. ItemInv(v)
    OBVIOUS
  <2>1. Waiting(v)'
    BY <2>0, <1>m, <1>q DEF ItemInv, Waiting, MarksRunning, TypeOK
  <2>2. Known(v)'
    BY <2>0, <1>m, <1>0 DEF ItemInv, Known, MarksRunning, TypeOK
  <2>3. Executing(v)'
    BY <2>0, <1>m, <1>f DEF ItemInv, Executing, MarksRunning, TypeOK
  <2>4. Attempts(v)'
    <3>1. \A d \in Items : status[d] = "completed" => status'[d] = "completed"
      BY <1>m, <1>0 DEF MarksRunning, TypeOK
    <3>2. dependencies' = dependencies /\ dependencies[v] \subseteq Items
      BY <1>m DEF MarksRunning, TypeOK
    <3>3. CASE v = w
      BY <3>1, <3>2, <3>3, <1>m, <1>0, LimitsAssumption
      DEF Attempts, MarksRunning, DependenciesCompleted, TypeOK
    <3>4. CASE v # w
      BY <2>0, <3>1, <3>2, <3>4, <1>m DEF ItemInv, Attempts, MarksRunning, TypeOK
    <3> QED
      BY <3>3, <3>4
  <2>5. Final(v)
    BY <1>m, <1>0 DEF Final, MarksRunning, TypeOK
  <2> QED
    BY <2>1, <2>2, <2>3, <2>4, <2>5 DEF ItemInv
<1> QED
  BY <1>q, <1>1, <1>2 DEF StepOK

LEMMA WorkerStep ==
  ASSUME Inv, NEW w \in Items, Worker(w)
  PROVE  StepOK
<1> USE DEF Inv, itemVars, trackVars, mgrVars, lifeVars
<1>q. /\ UNCHANGED <<priority, dependencies, attempt, trackVars, futures, mgrVars, lifeVars>>
      /\ \A v \in Items : v # w => status'[v] = status[v] /\ future'[v] = future[v]
      /\ status' \in [Items -> WorkStatus \cup {"none"}]
      /\ future' \in [Items -> FutureState]
      /\ \/ status' = status /\ (future'[w] = "executing" => future[w] = "submitted")
         \/ status[w] = "running" /\ status'[w] \in {"completed", "failed"}
            /\ future'[w] = "returned"
      /\ future'[w] # "submitted"
  <2>1. CASE WorkerTakes(w)
    BY <2>1 DEF WorkerTakes, TypeOK, FutureState
  <2>2. CASE WorkerSucceeds(w)
    BY <2>2 DEF WorkerSucceeds, TypeOK, WorkStatus, FutureState, ItemInv, Executing
  <2>3. CASE WorkerFails(w)
    BY <2>3 DEF WorkerFails, TypeOK, WorkStatus, FutureState, ItemInv, Executing
  <2>4. CASE FutureDone(w)
    BY <2>4 DEF FutureDone, TypeOK, FutureState
  <2> QED
    BY <2>1, <2>2, <2>3, <2>4 DEF Worker
<1>c. completed_at' \in [Items -> Nat]
  <2>1. CASE WorkerSucceeds(w)
    <3>1. IsFiniteSet({v \in Items : status[v] = "completed"})
      BY ItemsAssumption, FS_Subset
    <3>2. Cardinality({v \in Items : status[v] = "completed"}) \in Nat
      BY <3>1, FS_CardinalityType
    <3> QED
      BY <2>1, <3>2 DEF WorkerSucceeds, TypeOK
  <2>2. CASE ~WorkerSucceeds(w)
    BY <2>2 DEF Worker, WorkerTakes, WorkerFails, FutureDone, TypeOK
  <2> QED
    BY <2>1, <2>2
<1>1. TypeOK'
  BY <1>q, <1>c DEF TypeOK
<1>2. ASSUME NEW v \in Items PROVE ItemInv(v)' /\ Final(v)
  <2>0. ItemInv(v) /\ ItemInv(w)
    OBVIOUS
  <2>1. Waiting(v)'
    BY <2>0, <1>q DEF ItemInv, Waiting
  <2>2. Known(v)'
    BY <2>0, <1>q DEF ItemInv, Known
  <2>3. Executing(v)'
    BY <2>0, <1>q DEF ItemInv, Executing
  <2>4. Attempts(v)'
    <3>1. \A d \in Items : status[d] = "completed" => status'[d] = "completed"
      BY <1>q
    <3>2. dependencies' = dependencies /\ dependencies[v] \subseteq Items
      BY <1>q DEF TypeOK
    <3> QED
      BY <2>0, <1>q, <3>1, <3>2 DEF ItemInv, Attempts
  <2>5. Final(v)
    BY <1>q DEF Final
  <2> QED
    BY <2>1, <2>2, <2>3, <2>4, <2>5 DEF ItemInv
<1> QED
  BY <1>q, <1>1, <1>2 DEF StepOK

\* A cancelled manager gives back what no worker has taken.
LEMMA ManagerCancelledStep ==
  ASSUME Inv, ManagerCancelled
  PROVE  StepOK
<1> USE DEF Inv, ManagerCancelled, itemVars, trackVars
<1>1. TypeOK'
  BY DEF TypeOK, FutureState
<1>2. ASSUME NEW v \in Items PROVE ItemInv(v)' /\ Final(v)
  <2>0. ItemInv(v)
    OBVIOUS
  <2>1. Waiting(v)' /\ Known(v)' /\ Attempts(v)' /\ Final(v)
    BY <2>0 DEF ItemInv, Waiting, Known, Attempts, Final
  <2>2. Executing(v)'
    BY <2>0 DEF ItemInv, Executing
  <2> QED
    BY <2>1, <2>2 DEF ItemInv
<1> QED
  BY <1>1, <1>2 DEF StepOK

LEMMA BystandersStep ==
  ASSUME Inv,
         \/ start \/ ShutdownReturns \/ ManagerScans \/ ManagerWaits
         \/ \E w \in Items : HandleFailed(w) \/ HandleOther(w)
  PROVE  StepOK
<1> USE DEF itemVars, trackVars, futureVars, mgrVars, lifeVars
<1>1. CASE start
  BY <1>1, BystanderStep, LimitsAssumption DEF start, Bystander, Inv, TypeOK
<1>2. CASE ShutdownReturns
  BY <1>2, BystanderStep DEF ShutdownReturns, Bystander, Inv, TypeOK
<1>3. CASE ManagerScans
  BY <1>3, BystanderStep DEF ManagerScans, Bystander, Inv, TypeOK
<1>4. CASE ManagerWaits
  BY <1>4, BystanderStep DEF ManagerWaits, Bystander, Inv, TypeOK
<1>5. ASSUME NEW w \in Items, HandleFailed(w) \/ HandleOther(w) PROVE StepOK
  BY <1>5, BystanderStep DEF HandleFailed, HandleOther, Reaps, Bystander, Inv, TypeOK
<1> QED
  BY <1>1, <1>2, <1>3, <1>4, <1>5

\* A batch is a list of ids without repetition.
LEMMA AddsAllSteps ==
  ASSUME Inv, Adds
  PROVE  StepOK
<1>1. ASSUME NEW w \in Items, NEW p \in Priorities, NEW deps \in SUBSET Items,
             AddWork(w, p, deps)
      PROVE  StepOK
  <2> DEFINE s == <<w>>
             g == [v \in {w} |-> deps]
  <2>1. s \in Seq(Items) /\ Injective(s) /\ Elems(s) = {w}
    BY SingleId
  <2>2. AddItems(s, p, g) /\ g \in [{w} -> SUBSET Items]
    BY <1>1 DEF AddWork
  <2> HIDE DEF s, g
  <2>3. g \in [Elems(s) -> SUBSET Items]
    BY <2>1, <2>2
  <2> QED
    BY <2>1, <2>2, <2>3, AddsStep
<1>2. ASSUME NEW s \in Batches, NEW p \in Priorities,
             NEW graph \in [Elems(s) -> SUBSET Elems(s)], AddWithDependencies(s, p, graph)
      PROVE  StepOK
  <2>1. PICK n \in BatchSizes : s \in [1..n -> Items]
    BY DEF Batches
  <2>2. n \in Nat
    BY LimitsAssumption
  <2>3. s \in Seq(Items)
    BY <2>1, <2>2, SeqDef
  <2>4. Elems(s) \subseteq Items
    BY <2>3, ElementOfSeq DEF Elems
  <2>5. graph \in [Elems(s) -> SUBSET Items]
    BY <2>4
  <2>6. Injective(s)
    BY <1>2 DEF AddWithDependencies, Injective
  <2>7. AddItems(s, p, graph)
    BY <1>2 DEF AddWithDependencies
  <2> QED
    BY <2>3, <2>5, <2>6, <2>7, AddsStep
<1> QED
  BY <1>1, <1>2 DEF Adds

LEMMA StutterStep ==
  ASSUME Inv, UNCHANGED vars
  PROVE  StepOK
<1> USE DEF vars, itemVars, trackVars, futureVars, mgrVars, lifeVars
<1>1. TypeOK'
  BY DEF Inv, TypeOK
<1> QED
  BY <1>1, BystanderStep DEF Bystander

LEMMA EveryStep == Inv /\ [Next]_vars => StepOK
<1> SUFFICES ASSUME Inv, [Next]_vars PROVE StepOK
  OBVIOUS
<1>1. CASE Client
  BY <1>1, AddsAllSteps, CancelStep, RetryStep, StopStep, BystandersStep DEF Client
<1>2. CASE Manager
  <2>1. ASSUME NEW w \in Items, _handle_completed_future(w) PROVE StepOK
    BY <2>1, HandleCompletedStep, HandleRetriableStep, BystandersStep
    DEF _handle_completed_future
  <2>2. ASSUME NEW w \in Items, ManagerStep(w) PROVE StepOK
    BY <2>1, <2>2, SkipStep, DeferStep, MarksRunningStep DEF ManagerStep
  <2> QED
    BY <1>2, <2>2, BystandersStep DEF Manager
<1>3. CASE Shutdown
  BY <1>3, BystandersStep, ManagerCancelledStep DEF Shutdown
<1>4. CASE \E w \in Items : Worker(w)
  BY <1>4, WorkerStep
<1>5. CASE UNCHANGED vars
  BY <1>5, StutterStep
<1> QED
  BY <1>1, <1>2, <1>3, <1>4, <1>5 DEF Next

LEMMA Invariance == Spec => []Inv
<1>1. Inv /\ [Next]_vars => Inv'
  BY EveryStep DEF StepOK
<1> QED
  BY InvInit, <1>1, PTL DEF Spec

-----------------------------------------------------------------------------
(***************************************************************************)
(* What the manager has in flight.  A future that may still run belongs to *)
(* an item in running_work_ids, and while the executor accepts work to the *)
(* manager's own futures, whose number it limits; after stop() nothing new *)
(* is accepted, so that the old futures may outlive the manager's set.     *)
(***************************************************************************)
Submitted == {w \in Items : future[w] \in {"submitted", "executing"}}

InFlight(w) ==
    /\ w \in Submitted => w \in running /\ (executorUp => w \in mgrFutures)
    /\ w \in reap => w \in mgrFutures /\ future[w] \in {"done", "cancelled"}
    /\ w \in mgrFutures => w \in running /\ w \in work_items /\ w \notin completed
    /\ w \in failed => status[w] = "failed" /\ attempt[w] >= MaxAttempts
    /\ w \in work_items /\ status[w] = "completed" => w \in completed \cup running

ManagerState ==
    /\ isRunning \/ (mgr = "off" /\ mgrFutures = {})
    /\ mgr = "reap" \/ reap = {}
    /\ stopper = "none" \/ ~executorUp

Load == Cardinality(mgrFutures) <= MaxWorkers /\ Cardinality(Submitted) <= MaxWorkers

LoadInv == (\A w \in Items : InFlight(w)) /\ ManagerState /\ Load

LEMMA LoadInit == Init => LoadInv
<1> SUFFICES ASSUME Init PROVE LoadInv
  OBVIOUS
<1>1. Submitted = {} /\ mgrFutures = {}
  BY DEF Init, Submitted
<1>2. Load
  BY <1>1, FS_EmptySet, LimitsAssumption DEF Load
<1>3. \A w \in Items : InFlight(w)
  BY <1>1 DEF Init, InFlight
<1>4. ManagerState
  BY DEF Init, ManagerState
<1> QED
  BY <1>2, <1>3, <1>4 DEF LoadInv

\* Steps that submit nothing.
LEMMA LoadShrinks ==
  ASSUME TypeOK, Load, mgrFutures' \subseteq mgrFutures, Submitted' \subseteq Submitted
  PROVE  Load'
<1>1. IsFiniteSet(mgrFutures) /\ IsFiniteSet(Submitted)
  BY ItemsAssumption, FS_Subset DEF TypeOK, Submitted
<1>2. Cardinality(mgrFutures') <= Cardinality(mgrFutures)
  BY <1>1, FS_Subset
<1>3. Cardinality(Submitted') <= Cardinality(Submitted)
  BY <1>1, FS_Subset
<1>4. /\ Cardinality(mgrFutures) \in Nat /\ Cardinality(mgrFutures') \in Nat
      /\ Cardinality(Submitted) \in Nat /\ Cardinality(Submitted') \in Nat
  BY <1>1, FS_Subset, FS_CardinalityType
<1> QED
  BY <1>2, <1>3, <1>4, LimitsAssumption DEF Load

LEMMA LoadClients ==
  ASSUME Inv, LoadInv, Client
  PROVE  LoadInv'
<1> USE DEF Inv, LoadInv, Submitted, futureVars, mgrVars, lifeVars
<1>1. ASSUME NEW s \in Seq(Items), NEW p, NEW deps, AddItems(s, p, deps) PROVE LoadInv'
  <2>n. \A v \in Elems(s) : status[v] = "none"
    BY <1>1 DEF AddItems, Elems
  <2>1. ASSUME NEW v \in Items PROVE InFlight(v)'
    BY <1>1, <2>n DEF AddItems, InFlight, TypeOK
  <2>2. ManagerState'
    BY <1>1 DEF AddItems, ManagerState
  <2>3. mgrFutures' = mgrFutures /\ future' = future
    BY <1>1 DEF AddItems
  <2>4. Load'
    BY <2>3, LoadShrinks
  <2> QED
    BY <2>1, <2>2, <2>4
<1>2. CASE Adds
  <2>1. ASSUME NEW w \in Items, NEW p \in Priorities, NEW deps, AddWork(w, p, deps)
        PROVE  LoadInv'
    <3>1. <<w>> \in Seq(Items)
      BY SingleId
    <3> QED
      BY <1>1, <2>1, <3>1 DEF AddWork
  <2>2. ASSUME NEW s \in Batches, NEW p \in Priorities, NEW graph, AddWithDependencies(s, p, graph)
        PROVE  LoadInv'
    <3>1. PICK n \in BatchSizes : s \in [1..n -> Items]
      BY DEF Batches
    <3>2. s \in Seq(Items)
      BY <3>1, LimitsAssumption, SeqDef
    <3> QED
      BY <1>1, <2>2, <3>2 DEF AddWithDependencies
  <2> QED
    BY <1>2, <2>1, <2>2 DEF Adds
<1>3. ASSUME NEW w \in Items, cancel_work(w) PROVE LoadInv'
  <2>0. ItemInv(w)
    OBVIOUS
  <2>f. future' = future
    BY <1>3, <2>0 DEF cancel_work, ItemInv, Executing
  <2>1. ASSUME NEW v \in Items PROVE InFlight(v)'
    BY <1>3, <2>f DEF cancel_work, InFlight, TypeOK
  <2>2. ManagerState'
    BY <1>3 DEF cancel_work, ManagerState
  <2>3. mgrFutures' = mgrFutures
    BY <1>3 DEF cancel_work
  <2>4. Load'
    BY <2>3, <2>f, LoadShrinks
  <2> QED
    BY <2>1, <2>2, <2>4
<1>4. ASSUME NEW w \in Items, retry_work(w) PROVE LoadInv'
  <2>1. ASSUME NEW v \in Items PROVE InFlight(v)'
    BY <1>4 DEF retry_work, is_retriable, InFlight, TypeOK
  <2>2. ManagerState'
    BY <1>4 DEF retry_work, ManagerState
  <2>3. mgrFutures' = mgrFutures /\ future' = future
    BY <1>4 DEF retry_work
  <2>4. Load'
    BY <2>3, LoadShrinks
  <2> QED
    BY <2>1, <2>2, <2>4
<1>5. CASE start
  <2>0. mgrFutures = {} /\ mgrFutures' = {} /\ mgr = "off" /\ reap = {}
    BY <1>5 DEF start, ManagerState
  <2>1. ASSUME NEW v \in Items PROVE InFlight(v)'
    BY <1>5, <2>0 DEF start, InFlight, itemVars, trackVars
  <2>2. ManagerState'
    BY <1>5, <2>0 DEF start, ManagerState
  <2>3. future' = future
    BY <1>5 DEF start
  <2>4. Load'
    BY <2>0, <2>3, LoadShrinks
  <2> QED
    BY <2>1, <2>2, <2>4
<1>6. ASSUME NEW wait \in BOOLEAN, stop(wait) PROVE LoadInv'
  <2>1. ASSUME NEW v \in Items PROVE InFlight(v)'
    BY <1>6 DEF stop, InFlight, ItemInv, Waiting, TypeOK
  <2>2. ManagerState'
    BY <1>6 DEF stop, ManagerState
  <2>3. mgrFutures' = mgrFutures /\ future' = future
    BY <1>6 DEF stop
  <2>4. Load'
    BY <2>3, LoadShrinks
  <2> QED
    BY <2>1, <2>2, <2>4
<1> QED
  BY <1>2, <1>3, <1>4, <1>5, <1>6 DEF Client

\* A handled future leaves the manager's set; its item is filed, retried or gone.
LEMMA LoadHandles ==
  ASSUME Inv, LoadInv, NEW w \in Items, _handle_completed_future(w)
  PROVE  LoadInv'
<1> USE DEF Inv, LoadInv, Submitted, futureVars, lifeVars
<1>r. Reaps(w)
  BY DEF _handle_completed_future, HandleCompleted, HandleRetriable, HandleFailed, HandleOther
<1>f. /\ future[w] \in {"done", "cancelled"}
      /\ future' = future /\ mgrFutures' = mgrFutures \ {w} /\ executorUp' = executorUp
      /\ reap' = reap \ {w} /\ running' = running \ {w} /\ attempt' = attempt
  BY <1>r DEF Reaps, InFlight
<1>1. ASSUME NEW v \in Items PROVE InFlight(v)'
  <2>1. CASE HandleCompleted(w)
    <3>1. \A u \in Evicted(completed \cup {w}) : u \in completed \/ u = w
      BY DEF Evicted, Oldest
    <3> QED
      BY <1>f, <2>1, <3>1 DEF HandleCompleted, InFlight
  <2>2. CASE HandleRetriable(w)
    BY <1>f, <2>2 DEF HandleRetriable, is_retriable, InFlight, TypeOK
  <2>3. CASE HandleFailed(w)
    <3>1. attempt[w] >= MaxAttempts
      BY <2>3, LimitsAssumption DEF HandleFailed, is_retriable, TypeOK
    <3> QED
      BY <1>f, <2>3, <3>1 DEF HandleFailed, InFlight
  <2>4. CASE HandleOther(w)
    BY <1>f, <2>4 DEF HandleOther, InFlight
  <2> QED
    BY <2>1, <2>2, <2>3, <2>4 DEF _handle_completed_future
<1>2. ManagerState'
  BY <1>r DEF Reaps, ManagerState
<1>3. Load'
  BY <1>f, LoadShrinks
<1> QED
  BY <1>1, <1>2, <1>3

\* The manager submits only while it has fewer futures than workers.
LEMMA LoadSubmits ==
  ASSUME Inv, LoadInv, NEW w \in Items, ManagerSubmits(w)
  PROVE  LoadInv'
<1> USE DEF Inv, LoadInv, Submitted, lifeVars
<1>m. MarksRunning(w) /\ Pops(w)
  BY DEF ManagerSubmits, MarksRunning
<1>0. status[w] = "pending" /\ w \notin completed /\ w \notin failed /\ w \in work_items
  <2>1. w \in Elems(queue)
    BY <1>m, PopsHead
  <2>2. ItemInv(w) /\ InFlight(w)
    OBVIOUS
  <2> QED
    BY <1>m, <2>1, <2>2 DEF MarksRunning, ItemInv, Waiting, Known, InFlight
<1>f. /\ mgrFutures' = mgrFutures \cup {w} /\ running' = running \cup {w}
      /\ future' = [future EXCEPT ![w] = "submitted"] /\ mgr' = "loop"
      /\ status' = [status EXCEPT ![w] = "running"] /\ attempt' = [attempt EXCEPT ![w] = @ + 1]
      /\ UNCHANGED <<work_items, completed, failed, reap, isRunning, executorUp, stopper>>
      /\ executorUp /\ reap = {} /\ mgr = "reap"
  BY <1>m DEF ManagerSubmits, MarksRunning, Pops
<1>1. ASSUME NEW v \in Items PROVE InFlight(v)'
  <2>1. CASE v = w
    BY <1>0, <1>f, <2>1 DEF InFlight, TypeOK
  <2>2. CASE v # w
    BY <1>0, <1>f, <2>2 DEF InFlight, TypeOK
  <2> QED
    BY <2>1, <2>2
<1>2. ManagerState'
  BY <1>f DEF ManagerState
<1>3. Load'
  <2>1. IsFiniteSet(mgrFutures) /\ Cardinality(mgrFutures) \in Nat
    BY ItemsAssumption, FS_Subset, FS_CardinalityType DEF TypeOK
  <2>2. Cardinality(mgrFutures) < MaxWorkers
    BY <1>m, <2>1, LimitsAssumption DEF Pops, Saturated
  <2>3. IsFiniteSet(mgrFutures') /\ Cardinality(mgrFutures') <= MaxWorkers
    <3>1. /\ IsFiniteSet(mgrFutures \cup {w})
          /\ Cardinality(mgrFutures \cup {w}) =
               IF w \in mgrFutures THEN Cardinality(mgrFutures) ELSE Cardinality(mgrFutures) + 1
      BY <2>1, FS_AddElement
    <3> QED
      BY <1>f, <2>1, <2>2, <3>1, LimitsAssumption
  <2>4. Submitted' \in SUBSET mgrFutures'
    BY <1>1, <1>f DEF InFlight
  <2>5. /\ Cardinality(Submitted') <= Cardinality(mgrFutures')
        /\ Cardinality(Submitted') \in Nat /\ Cardinality(mgrFutures') \in Nat
    BY <2>3, <2>4, FS_Subset, FS_CardinalityType
  <2> QED
    BY <2>3, <2>5, LimitsAssumption DEF Load
<1> QED
  BY <1>1, <1>2, <1>3

LEMMA LoadManager ==
  ASSUME Inv, LoadInv, Manager
  PROVE  LoadInv'
<1> USE DEF Inv, LoadInv, Submitted, itemVars, trackVars, futureVars, lifeVars
<1>1. CASE ManagerScans
  <2>1. ASSUME NEW v \in Items PROVE InFlight(v)'
    BY <1>1 DEF ManagerScans, InFlight
  <2>2. ManagerState'
    BY <1>1 DEF ManagerScans, ManagerState
  <2>3. Load'
    BY <1>1, LoadShrinks DEF ManagerScans
  <2> QED
    BY <2>1, <2>2, <2>3
<1>2. CASE ManagerWaits
  <2>1. ASSUME NEW v \in Items PROVE InFlight(v)'
    BY <1>2 DEF ManagerWaits, InFlight
  <2>2. ManagerState'
    BY <1>2 DEF ManagerWaits, ManagerState
  <2>3. Load'
    BY <1>2, LoadShrinks DEF ManagerWaits
  <2> QED
    BY <2>1, <2>2, <2>3
<1>3. ASSUME NEW w \in Items, ManagerSkips(w) \/ ManagerDefers(w) PROVE LoadInv'
  <2>0. /\ UNCHANGED <<status, attempt, work_items, running, completed, failed, future>>
        /\ UNCHANGED <<mgrFutures, reap, isRunning, executorUp, stopper>>
        /\ mgr = "reap" /\ reap = {}
    BY <1>3 DEF ManagerSkips, ManagerDefers, Pops
  <2>1. ASSUME NEW v \in Items PROVE InFlight(v)'
    BY <2>0 DEF InFlight
  <2>2. ManagerState'
    BY <2>0 DEF ManagerState
  <2>3. Load'
    BY <2>0, LoadShrinks
  <2> QED
    BY <2>1, <2>2, <2>3
<1>4. ASSUME NEW w \in Items, SubmitRaises(w) PROVE LoadInv'
  <2>0. MarksRunning(w) /\ Pops(w)
    BY <1>4 DEF SubmitRaises, MarksRunning
  <2>s. status[w] = "pending"
    <3>1. w \in Elems(queue)
      BY <2>0, PopsHead
    <3> QED
      BY <2>0, <3>1 DEF MarksRunning, ItemInv, Waiting
  <2>1. ASSUME NEW v \in Items PROVE InFlight(v)'
    BY <1>4, <2>0, <2>s DEF SubmitRaises, MarksRunning, InFlight, TypeOK
  <2>2. ManagerState'
    BY <1>4, <2>0 DEF SubmitRaises, MarksRunning, Pops, ManagerState
  <2>3. Load'
    BY <1>4, LoadShrinks DEF SubmitRaises
  <2> QED
    BY <2>1, <2>2, <2>3
<1> QED
  BY <1>1, <1>2, <1>3, <1>4, LoadHandles, LoadSubmits DEF Manager, ManagerStep

LEMMA LoadRest ==
  ASSUME Inv, LoadInv,
         Shutdown \/ (\E w \in Items : Worker(w)) \/ UNCHANGED vars
  PROVE  LoadInv'
<1> USE DEF Inv, LoadInv, Submitted, itemVars, trackVars, mgrVars, lifeVars, futureVars
<1>1. CASE ShutdownReturns
  <2>1. ASSUME NEW v \in Items PROVE InFlight(v)'
    BY <1>1 DEF ShutdownReturns, InFlight
  <2>2. ManagerState'
    BY <1>1 DEF ShutdownReturns, ManagerState
  <2>3. Load'
    BY <1>1, LoadShrinks DEF ShutdownReturns
  <2> QED
    BY <2>1, <2>2, <2>3
<1>2. CASE ManagerCancelled
  <2>0. reap = {} /\ Submitted' \subseteq Submitted /\ mgrFutures' = {} /\ ~executorUp
    BY <1>2 DEF ManagerCancelled, ManagerState
  <2>1. ASSUME NEW v \in Items PROVE InFlight(v)'
    BY <1>2, <2>0 DEF ManagerCancelled, InFlight
  <2>2. ManagerState'
    BY <1>2, <2>0 DEF ManagerCancelled, ManagerState
  <2>3. Load'
    BY <2>0, LoadShrinks
  <2> QED
    BY <2>1, <2>2, <2>3
<1>3. ASSUME NEW w \in Items, Worker(w) PROVE LoadInv'
  <2>0. /\ UNCHANGED <<trackVars, mgrVars, lifeVars, attempt>>
        /\ future[w] \in {"submitted", "executing", "returned"}
        /\ \A v \in Items : v # w => status'[v] = status[v] /\ future'[v] = future[v]
        /\ \/ status' = status
           \/ future[w] = "executing" /\ status'[w] \in {"completed", "failed"}
        /\ future'[w] \in {"submitted", "executing"} => future[w] \in {"submitted", "executing"}
    BY <1>3 DEF Worker, WorkerTakes, WorkerSucceeds, WorkerFails, FutureDone, TypeOK
  <2>1. ASSUME NEW v \in Items PROVE InFlight(v)'
    <3>1. w \notin reap /\ (future[w] = "executing" => w \in running /\ status[w] = "running")
      BY <2>0 DEF InFlight, ItemInv, Executing
    <3>2. CASE v = w
      BY <2>0, <3>1, <3>2 DEF InFlight
    <3>3. CASE v # w
      BY <2>0, <3>3 DEF InFlight
    <3> QED
      BY <3>2, <3>3
  <2>2. ManagerState'
    BY <2>0 DEF ManagerState
  <2>3. Load'
    <3>1. Submitted' \subseteq Submitted /\ mgrFutures' = mgrFutures
      BY <2>0
    <3> QED
      BY <3>1, LoadShrinks
  <2> QED
    BY <2>1, <2>2, <2>3
<1>4. CASE UNCHANGED vars
  <2>1. ASSUME NEW v \in Items PROVE InFlight(v)'
    BY <1>4 DEF vars, InFlight
  <2>2. ManagerState'
    BY <1>4 DEF vars, ManagerState
  <2>3. Load'
    BY <1>4, LoadShrinks DEF vars
  <2> QED
    BY <2>1, <2>2, <2>3
<1> QED
  BY <1>1, <1>2, <1>3, <1>4 DEF Shutdown

LEMMA LoadInvariance == Spec => []LoadInv
<1>1. Inv /\ LoadInv /\ [Next]_vars => LoadInv'
  BY LoadClients, LoadManager, LoadRest DEF Next
<1> QED
  BY Invariance, LoadInit, <1>1, PTL DEF Spec

-----------------------------------------------------------------------------
(***************************************************************************)
(* The order of the queue.  An id is appended and the list sorted by one   *)
(* priority at a time; priorities of queued items never change.            *)
(***************************************************************************)
LEMMA EnqueueSorted ==
  ASSUME TypeOK, Sorted(queue, priority), NEW s \in Seq(Items), NEW p \in Priorities,
         Enqueue(s, p), NEW f \in [Items -> Priorities],
         \A v \in Elems(queue) : f[v] = priority[v],
         \A v \in Elems(s) : f[v] = p
  PROVE  Sorted(queue', f)
<1>1. queue \in Seq(Items) /\ Len(queue) \in Nat
  BY LenProperties DEF TypeOK
<1>2. PICK k \in Slots(queue, p) : queue' = InsertAfter(queue, k, s)
  BY DEF Enqueue
<1>3. k \in 0..Len(queue)
  BY <1>2 DEF Slots
<1>4. \A i \in 1..Len(queue) : f[queue[i]] = priority[queue[i]]
  BY DEF Elems
<1>5. Sorted(queue, f)
  BY <1>4 DEF Sorted
<1>6. Fits(queue, k, f, p)
  <2>1. \A i \in 1..k : i \in 1..Len(queue)
    BY <1>1, <1>3
  <2>2. \A i \in (k + 1)..Len(queue) : i \in 1..Len(queue)
    BY <1>1, <1>3
  <2> QED
    BY <1>2, <1>4, <2>1, <2>2 DEF Slots, Fits
<1>7. Level(s, f, p)
  BY DEF Level, Elems
<1>8. f \in [Items -> Int] /\ p \in Int
  BY PrioritiesAssumption
<1> HIDE DEF Slots
<1> QED
  BY <1>1, <1>2, <1>3, <1>5, <1>6, <1>7, <1>8, InsertAfterSorted

LEMMA SortedOne ==
  ASSUME TypeOK, Sorted(queue, priority), NEW w \in Items, Enqueue(<<w>>, priority[w])
  PROVE  Sorted(queue', priority)
<1> DEFINE s == <<w>>
<1>1. s \in Seq(Items) /\ Elems(s) = {w}
  BY SingleId
<1>2. Enqueue(s, priority[w])
  OBVIOUS
<1>3. priority \in [Items -> Priorities] /\ priority[w] \in Priorities
  BY DEF TypeOK
<1> HIDE DEF s
<1> QED
  BY <1>1, <1>2, <1>3, EnqueueSorted

LEMMA SortedTail ==
  ASSUME Inv, Sorted(queue, priority), queue # <<>>
  PROVE  Sorted(Tail(queue), priority)
<1>1. queue \in Seq(Items) /\ Injective(queue)
  BY DEF Inv, TypeOK
<1>2. Tail(queue) \in Seq(Items) /\ 1 \in 1..Len(queue) /\ Removes(Tail(queue), queue, 1)
  BY <1>1, TailRemoves
<1> DEFINE t == Tail(queue)
<1> HIDE DEF t
<1>3. PICK n \in 1..Len(queue) : n = 1
  BY <1>2
<1> QED
  BY <1>1, <1>2, <1>3, RemovesSorted

LEMMA OrderAdds ==
  ASSUME Inv, Sorted(queue, priority), Adds
  PROVE  Sorted(queue', priority')
<1>1. ASSUME NEW s \in Seq(Items), NEW p \in Priorities, NEW deps, AddItems(s, p, deps)
      PROVE  Sorted(queue', priority')
  <2>1. \A v \in Elems(s) : v \in Items /\ status[v] = "none"
    BY <1>1, ElementOfSeq DEF AddItems, Elems
  <2>2. \A v \in Elems(queue) : v \in Items /\ status[v] # "none"
    <3>1. \A v \in Elems(queue) : v \in Items
      BY ElementOfSeq DEF Inv, TypeOK, Elems
    <3>2. \A v \in Items : Waiting(v)
      BY DEF Inv, ItemInv
    <3> QED
      BY <3>1, <3>2 DEF Waiting
  <2>3. priority' = [w \in Items |-> IF w \in Elems(s) THEN p ELSE priority[w]]
    BY <1>1 DEF AddItems
  <2>4. priority' \in [Items -> Priorities]
    BY <2>3 DEF Inv, TypeOK
  <2>5. \A v \in Elems(queue) : priority'[v] = priority[v]
    BY <2>1, <2>2, <2>3
  <2>6. \A v \in Elems(s) : priority'[v] = p
    BY <2>1, <2>3
  <2>7. Enqueue(s, p) /\ TypeOK
    BY <1>1 DEF AddItems, Inv
  <2> QED
    BY <2>4, <2>5, <2>6, <2>7, EnqueueSorted
<1>2. ASSUME NEW w \in Items, NEW p \in Priorities, NEW deps, AddWork(w, p, deps)
      PROVE  Sorted(queue', priority')
  <2>1. <<w>> \in Seq(Items)
    BY SingleId
  <2> QED
    BY <1>1, <1>2, <2>1 DEF AddWork
<1>3. ASSUME NEW s \in Batches, NEW p \in Priorities, NEW graph, AddWithDependencies(s, p, graph)
      PROVE  Sorted(queue', priority')
  <2>1. PICK n \in BatchSizes : s \in [1..n -> Items]
    BY DEF Batches
  <2>2. s \in Seq(Items)
    BY <2>1, LimitsAssumption, SeqDef
  <2> QED
    BY <1>1, <1>3, <2>2 DEF AddWithDependencies
<1> QED
  BY <1>2, <1>3 DEF Adds

LEMMA OrderRemoves ==
  ASSUME Inv, Sorted(queue, priority), NEW w \in Items,
         cancel_work(w) \/ ManagerSkips(w) \/ ManagerSubmits(w) \/ SubmitRaises(w)
  PROVE  Sorted(queue', priority')
<1> USE DEF Inv
<1>1. CASE cancel_work(w)
  <2>1. priority' = priority
    BY <1>1 DEF cancel_work
  <2>2. CASE w \in Elems(queue)
    <3>1. PICK i \in 1..Len(queue) : queue' = Without(queue, i)
      BY <1>1, <2>2 DEF cancel_work, RemovedFromQueue
    <3>2. queue \in Seq(Items)
      BY DEF TypeOK
    <3>3. queue' \in Seq(Items) /\ Removes(queue', queue, i)
      BY <3>1, <3>2, WithoutRemoves
    <3> QED
      BY <2>1, <3>2, <3>3, RemovesSorted
  <2>3. CASE w \notin Elems(queue)
    BY <1>1, <2>1, <2>3 DEF cancel_work, RemovedFromQueue
  <2> QED
    BY <2>2, <2>3
<1>2. CASE ManagerSkips(w)
  <2>1. queue # <<>> /\ queue' = Tail(queue) /\ priority' = priority
    BY <1>2 DEF ManagerSkips, Pops, itemVars
  <2> QED
    BY <2>1, SortedTail
<1>3. CASE ManagerSubmits(w) \/ SubmitRaises(w)
  <2>1. queue # <<>> /\ queue' = Tail(queue) /\ priority' = priority
    BY <1>3 DEF ManagerSubmits, SubmitRaises, MarksRunning, Pops
  <2> QED
    BY <2>1, SortedTail
<1> QED
  BY <1>1, <1>2, <1>3

LEMMA OrderDefers ==
  ASSUME Inv, Sorted(queue, priority), NEW w \in Items, ManagerDefers(w)
  PROVE  Sorted(queue', priority')
<1> DEFINE t == Tail(queue)
           s == <<w>>
<1>1. t \in Seq(Items) /\ Len(t) \in Nat
  BY PopsHead, LenProperties DEF ManagerDefers
<1>2. s \in Seq(Items) /\ Elems(s) = {w}
  BY SingleId
<1>3. Sorted(t, priority)
  BY SortedTail DEF ManagerDefers, Pops
<1>4. PICK k \in Slots(t, priority[w]) : queue' = InsertAfter(t, k, s)
  BY DEF ManagerDefers
<1> HIDE DEF t, s
<1>5. k \in 0..Len(t) /\ Fits(t, k, priority, priority[w])
  BY <1>4 DEF Slots, Fits
<1>6. Level(s, priority, priority[w])
  BY <1>2 DEF Level, Elems
<1>7. priority \in [Items -> Int] /\ priority[w] \in Int /\ priority' = priority
  BY PrioritiesAssumption DEF Inv, TypeOK, ManagerDefers, itemVars
<1>8. Sorted(queue', priority)
  BY <1>1, <1>2, <1>3, <1>4, <1>5, <1>6, <1>7, InsertAfterSorted
<1> QED
  BY <1>7, <1>8

LEMMA OrderStep ==
  ASSUME Inv, Sorted(queue, priority), [Next]_vars
  PROVE  Sorted(queue', priority')
<1> USE DEF itemVars, trackVars
<1>1. ASSUME NEW w \in Items, retry_work(w) \/ HandleRetriable(w) PROVE Sorted(queue', priority')
  <2>1. Enqueue(<<w>>, priority[w]) /\ priority' = priority
    BY <1>1 DEF retry_work, HandleRetriable, Reaps
  <2>2. Sorted(queue', priority)
    BY <2>1, SortedOne DEF Inv
  <2> QED
    BY <2>1, <2>2
<1>2. CASE Client
  <2>1. CASE start \/ \E wait \in BOOLEAN : stop(wait)
    BY <2>1 DEF start, stop
  <2> QED
    BY <1>1, <1>2, <2>1, OrderAdds, OrderRemoves DEF Client
<1>3. CASE Manager
  <2>1. CASE ManagerScans \/ ManagerWaits
    BY <2>1 DEF ManagerScans, ManagerWaits
  <2>2. ASSUME NEW w \in Items, HandleCompleted(w) \/ HandleFailed(w) \/ HandleOther(w)
        PROVE  Sorted(queue', priority')
    BY <2>2 DEF HandleCompleted, HandleFailed, HandleOther, Reaps
  <2>3. ASSUME NEW w \in Items, ManagerStep(w) PROVE Sorted(queue', priority')
    BY <1>1, <2>2, <2>3, OrderRemoves, OrderDefers DEF ManagerStep, _handle_completed_future
  <2> QED
    BY <1>3, <2>1, <2>3 DEF Manager
<1>4. CASE Shutdown
  BY <1>4 DEF Shutdown, ShutdownReturns, ManagerCancelled
<1>5. CASE \E w \in Items : Worker(w)
  BY <1>5 DEF Worker, WorkerTakes, WorkerSucceeds, WorkerFails, FutureDone
<1>6. CASE UNCHANGED vars
  BY <1>6 DEF vars
<1> QED
  BY <1>2, <1>3, <1>4, <1>5, <1>6 DEF Next

LEMMA OrderInvariance == Spec => []Sorted(queue, priority)
<1>1. Init => Sorted(queue, priority)
  BY DEF Init, Sorted
<1>2. Inv /\ Sorted(queue, priority) /\ [Next]_vars => Sorted(queue, priority)'
  BY OrderStep
<1> QED
  BY Invariance, <1>1, <1>2, PTL DEF Spec

-----------------------------------------------------------------------------
(***************************************************************************)
(* The completed items.  completed_at numbers them without repetition, so  *)
(* that the n oldest of them are at least n; and as a clean-up comes at    *)
(* every multiple of the interval, the set never grows past the first      *)
(* multiple above its limit.                                               *)
(***************************************************************************)
Done == {w \in Items : status[w] = "completed"}

Numbered ==
    /\ \A w \in Done : completed_at[w] <= Cardinality(Done)
    /\ \A v, w \in Done : completed_at[v] = completed_at[w] => v = w

Cleaned == \A c \in (MaxCompletedItems + 1)..Cardinality(completed) : c % CleanupInterval # 0

\* How many members of S completed before w.
Rank(S, w) == Cardinality({v \in S : completed_at[v] < completed_at[w]})

LEMMA RankFacts ==
  ASSUME TypeOK, NEW S \in SUBSET Items, NEW v \in S, NEW w \in S
  PROVE  /\ IsFiniteSet(S) /\ Cardinality(S) \in Nat
         /\ Rank(S, w) \in 0..(Cardinality(S) - 1)
         /\ completed_at[w] <= completed_at[v] => Rank(S, w) <= Rank(S, v)
         /\ completed_at[v] < completed_at[w] => Rank(S, v) < Rank(S, w)
<1> DEFINE B(x) == {u \in S : completed_at[u] < completed_at[x]}
<1>0. \A u \in S : completed_at[u] \in Nat
  BY DEF TypeOK
<1>1. IsFiniteSet(S) /\ Cardinality(S) \in Nat
  BY ItemsAssumption, FS_Subset, FS_CardinalityType
<1>2. ASSUME NEW x \in S PROVE IsFiniteSet(B(x)) /\ Cardinality(B(x)) \in Nat
  BY <1>1, FS_Subset, FS_CardinalityType
<1>3. Cardinality(B(w)) <= Cardinality(S) - 1
  <2>1. IsFiniteSet(S \ {w}) /\ Cardinality(S \ {w}) = Cardinality(S) - 1
    BY <1>1, FS_RemoveElement
  <2>2. B(w) \in SUBSET (S \ {w})
    BY <1>0
  <2> QED
    BY <2>1, <2>2, FS_Subset
<1>4. ASSUME completed_at[w] <= completed_at[v] PROVE Cardinality(B(w)) <= Cardinality(B(v))
  <2>1. B(w) \in SUBSET B(v)
    BY <1>0, <1>4
  <2> QED
    BY <1>2, <2>1, FS_Subset
<1>5. ASSUME completed_at[v] < completed_at[w] PROVE Cardinality(B(v)) < Cardinality(B(w))
  <2>1. B(v) \in SUBSET B(w) /\ v \in B(w) /\ v \notin B(v)
    BY <1>0, <1>5
  <2> HIDE DEF B
  <2>2. Cardinality(B(v)) <= Cardinality(B(w)) /\ Cardinality(B(v)) # Cardinality(B(w))
    BY <1>2, <2>1, FS_Subset
  <2> QED
    BY <1>2, <2>2
<1>6. Cardinality(B(w)) \in 0..(Cardinality(S) - 1)
  BY <1>1, <1>2, <1>3
<1> QED
  BY <1>1, <1>4, <1>5, <1>6 DEF Rank

\* All but the n oldest members of a numbered set are at most as many as the others.
LEMMA OldestCount ==
  ASSUME TypeOK, NEW S \in SUBSET Items, NEW n \in Nat, n <= Cardinality(S),
         \A v, w \in S : completed_at[v] = completed_at[w] => v = w
  PROVE  Cardinality(S \ Oldest(S, n)) <= Cardinality(S) - n
<1> DEFINE R == S \ Oldest(S, n)
           T == n..(Cardinality(S) - 1)
           f == [w \in R |-> Rank(S, w)]
<1>0. \A u \in S : completed_at[u] \in Nat
  BY DEF TypeOK
<1>1. Cardinality(S) \in Nat /\ IsFiniteSet(S)
  BY ItemsAssumption, FS_Subset, FS_CardinalityType
<1>2. IsFiniteSet(T) /\ Cardinality(T) = Cardinality(S) - n
  <2>1. n \in Int /\ Cardinality(S) - 1 \in Int
    BY <1>1
  <2>2. /\ IsFiniteSet(T)
        /\ Cardinality(T) = IF n > Cardinality(S) - 1 THEN 0 ELSE (Cardinality(S) - 1) - n + 1
    BY <2>1, FS_Interval
  <2> QED
    BY <1>1, <2>2
<1>3. ASSUME NEW w \in R PROVE w \in S /\ Rank(S, w) \in T
  <2>1. w \in S /\ ~(Rank(S, w) < n)
    BY <1>3 DEF Oldest, Rank
  <2>2. Rank(S, w) \in 0..(Cardinality(S) - 1)
    BY <2>1, RankFacts
  <2> QED
    BY <1>1, <2>1, <2>2
<1>4. ASSUME NEW v \in R, NEW w \in R, Rank(S, v) = Rank(S, w) PROVE v = w
  <2>0. v \in S /\ w \in S /\ Rank(S, v) \in T /\ Rank(S, w) \in T
    BY <1>3
  <2> HIDE DEF R
  <2>1. ~(completed_at[v] < completed_at[w]) /\ ~(completed_at[w] < completed_at[v])
    <3>1. completed_at[v] < completed_at[w] => Rank(S, v) < Rank(S, w)
      BY <2>0, RankFacts
    <3>2. completed_at[w] < completed_at[v] => Rank(S, w) < Rank(S, v)
      BY <2>0, RankFacts
    <3> QED
      BY <1>1, <1>4, <2>0, <3>1, <3>2
  <2> QED
    BY <1>0, <2>0, <2>1
<1>5. f \in [R -> T]
  BY <1>3
<1>6. \A v, w \in R : f[v] = f[w] => v = w
  BY <1>4
<1> HIDE DEF R, T, f
<1>7. f \in Injection(R, T)
  BY <1>5, <1>6 DEF Injection, IsInjective
<1>8. Cardinality(R) <= Cardinality(T)
  BY <1>2, <1>7, FS_Injection
<1> QED
  BY <1>2, <1>8 DEF R

LEMMA DoneFacts ==
  ASSUME TypeOK
  PROVE  IsFiniteSet(Done) /\ Cardinality(Done) \in Nat
  BY ItemsAssumption, FS_Subset, FS_CardinalityType DEF Done

\* A worker's write gives the highest number so far.
LEMMA NumberedStep ==
  ASSUME Inv, Numbered, [Next]_vars
  PROVE  Numbered'
<1>t. TypeOK /\ IsFiniteSet(Done) /\ Cardinality(Done) \in Nat
  BY DoneFacts DEF Inv
<1>1. ASSUME NEW w \in Items, WorkerSucceeds(w) PROVE Numbered'
  <2>1. status[w] = "running"
    BY <1>1 DEF Inv, ItemInv, Executing, WorkerSucceeds
  <2>2. Done' = Done \cup {w} /\ w \notin Done
    BY <1>1, <2>1, <1>t DEF Done, WorkerSucceeds, TypeOK
  <2>3. completed_at' = [completed_at EXCEPT ![w] = Cardinality(Done) + 1]
    BY <1>1 DEF WorkerSucceeds, Done
  <2>4. Cardinality(Done') = Cardinality(Done) + 1
    BY <1>t, <2>2, FS_AddElement
  <2>5. \A v \in Done : v \in Items /\ v # w /\ completed_at[v] \in Nat /\ completed_at'[v] = completed_at[v]
    BY <2>2, <2>3, <1>t DEF Done, TypeOK
  <2>6. completed_at'[w] = Cardinality(Done) + 1
    BY <2>3, <1>t DEF TypeOK
  <2>7. \A v \in Done : completed_at'[v] <= Cardinality(Done)
    BY <2>5 DEF Numbered
  <2>8. ASSUME NEW v \in Done' PROVE completed_at'[v] <= Cardinality(Done')
    BY <1>t, <2>2, <2>4, <2>5, <2>6, <2>7
  <2>9. ASSUME NEW u \in Done', NEW v \in Done', completed_at'[u] = completed_at'[v] PROVE u = v
    <3>1. CASE u \in Done /\ v \in Done
      BY <2>5, <2>9, <3>1 DEF Numbered
    <3>2. CASE u \in Done /\ v = w
      BY <1>t, <2>5, <2>6, <2>7, <2>9, <3>2
    <3>3. CASE u = w /\ v \in Done
      BY <1>t, <2>5, <2>6, <2>7, <2>9, <3>3
    <3> QED
      BY <2>2, <3>1, <3>2, <3>3
  <2> QED
    BY <2>8, <2>9 DEF Numbered
<1>2. ASSUME completed_at' = completed_at, Done' = Done PROVE Numbered'
  BY <1>2 DEF Numbered
<1> USE DEF Done, itemVars
<1>3. CASE Client
  <2>1. ASSUME NEW s, NEW p, NEW deps, AddItems(s, p, deps) PROVE Numbered'
    <3>1. \A v \in Elems(s) : status[v] = "none"
      BY <2>1 DEF AddItems, Elems
    <3> QED
      BY <1>2, <2>1, <3>1 DEF AddItems
  <2>2. CASE Adds
    BY <2>1, <2>2 DEF Adds, AddWork, AddWithDependencies
  <2>3. ASSUME NEW w \in Items, cancel_work(w) \/ retry_work(w) PROVE Numbered'
    BY <1>2, <1>t, <2>3 DEF cancel_work, retry_work, is_retriable, TypeOK
  <2>4. CASE start
    BY <1>2, <2>4 DEF start
  <2>5. ASSUME NEW wait \in BOOLEAN, stop(wait) PROVE Numbered'
    <3>1. \A v \in pending : v \in Items /\ status[v] = "pending"
      BY DEF Inv, TypeOK, ItemInv, Waiting
    <3> QED
      BY <1>2, <2>5, <3>1 DEF stop
  <2> QED
    BY <1>3, <2>2, <2>3, <2>4, <2>5 DEF Client
<1>4. CASE Manager
  <2>1. CASE ManagerScans \/ ManagerWaits
    BY <1>2, <2>1 DEF ManagerScans, ManagerWaits
  <2>2. ASSUME NEW w \in Items, _handle_completed_future(w) PROVE Numbered'
    BY <1>2, <1>t, <2>2 DEF _handle_completed_future, HandleCompleted, HandleRetriable, HandleFailed,
       HandleOther, Reaps, is_retriable, TypeOK
  <2>3. ASSUME NEW w \in Items, ManagerSkips(w) \/ ManagerDefers(w) PROVE Numbered'
    BY <1>2, <2>3 DEF ManagerSkips, ManagerDefers
  <2>4. ASSUME NEW w \in Items, ManagerSubmits(w) \/ SubmitRaises(w) PROVE Numbered'
    <3>1. MarksRunning(w)
      BY <2>4 DEF ManagerSubmits, SubmitRaises
    <3>2. w \in Elems(queue)
      BY <3>1, PopsHead DEF MarksRunning
    <3>3. status[w] # "completed"
      BY <3>2 DEF Inv, ItemInv, Waiting
    <3> QED
      BY <1>2, <1>t, <3>1, <3>3 DEF MarksRunning, TypeOK
  <2> QED
    BY <1>4, <2>1, <2>2, <2>3, <2>4 DEF Manager, ManagerStep
<1>5. CASE Shutdown
  BY <1>2, <1>5 DEF Shutdown, ShutdownReturns, ManagerCancelled
<1>6. ASSUME NEW w \in Items, Worker(w), ~WorkerSucceeds(w) PROVE Numbered'
  <2>1. CASE WorkerFails(w)
    <3>1. status[w] # "completed"
      BY <2>1 DEF Inv, ItemInv, Executing, WorkerFails
    <3> QED
      BY <1>2, <1>t, <2>1, <3>1 DEF WorkerFails, TypeOK
  <2> QED
    BY <1>2, <1>6, <2>1 DEF Worker, WorkerTakes, FutureDone
<1>7. CASE UNCHANGED vars
  BY <1>2, <1>7 DEF vars
<1> QED
  BY <1>1, <1>3, <1>4, <1>5, <1>6, <1>7 DEF Next

\* The completed ids change only where a future is handled.
LEMMA CompletedChanges ==
  ASSUME [Next]_vars, ~ \E w \in Items : HandleCompleted(w)
  PROVE  completed' = completed
<1> USE DEF trackVars
<1>1. CASE Client
  BY <1>1 DEF Client, Adds, AddWork, AddWithDependencies, AddItems, cancel_work, retry_work, start, stop
<1>2. CASE Manager
  BY <1>2 DEF Manager, ManagerScans, ManagerWaits, ManagerStep, _handle_completed_future,
     HandleRetriable, HandleFailed, HandleOther, ManagerSkips, ManagerDefers, ManagerSubmits,
     SubmitRaises, MarksRunning
<1>3. CASE Shutdown
  BY <1>3 DEF Shutdown, ShutdownReturns, ManagerCancelled
<1>4. CASE \E w \in Items : Worker(w)
  BY <1>4 DEF Worker, WorkerTakes, WorkerSucceeds, WorkerFails, FutureDone
<1>5. CASE UNCHANGED vars
  BY <1>5 DEF vars
<1> QED
  BY <1>1, <1>2, <1>3, <1>4, <1>5 DEF Next

LEMMA CleanedStep ==
  ASSUME Inv, Numbered, Cleaned, [Next]_vars
  PROVE  Cleaned'
<1>1. CASE ~ \E w \in Items : HandleCompleted(w)
  BY <1>1, CompletedChanges DEF Cleaned
<1>2. ASSUME NEW w \in Items, HandleCompleted(w) PROVE Cleaned'
  <2> DEFINE S == completed \cup {w}
  <2>1. completed' = S \ Evicted(S)
    BY <1>2 DEF HandleCompleted
  <2>2. S \in SUBSET Items /\ TypeOK
    BY DEF Inv, TypeOK
  <2>3. S \subseteq Done
    BY <1>2, <2>2 DEF Inv, ItemInv, Known, HandleCompleted, Done
  <2>4. IsFiniteSet(completed) /\ Cardinality(completed) \in Nat
    BY <2>2, ItemsAssumption, FS_Subset, FS_CardinalityType
  <2>5. Cardinality(S) \in Nat /\ Cardinality(S) <= Cardinality(completed) + 1
    BY <2>4, FS_AddElement, FS_CardinalityType
  <2> HIDE DEF S
  <2>6. CASE Evicted(S) = {} /\ ~(Cardinality(S) % CleanupInterval = 0 /\ Cardinality(S) > MaxCompletedItems)
    <3>1. completed' = S
      BY <2>1, <2>6
    <3>2. ASSUME NEW c \in (MaxCompletedItems + 1)..Cardinality(S) PROVE c % CleanupInterval # 0
      <4>1. CASE c = Cardinality(S)
        BY <2>5, <2>6, <4>1, LimitsAssumption
      <4>2. CASE c # Cardinality(S)
        <5>1. c \in (MaxCompletedItems + 1)..Cardinality(completed)
          BY <2>4, <2>5, <4>2, LimitsAssumption
        <5> QED
          BY <5>1 DEF Cleaned
      <4> QED
        BY <4>1, <4>2
    <3> QED
      BY <3>1, <3>2 DEF Cleaned
  <2>7. CASE Cardinality(S) % CleanupInterval = 0 /\ Cardinality(S) > MaxCompletedItems
    <3> DEFINE n == Cardinality(S) - MaxCompletedItems
    <3>1. Evicted(S) = Oldest(S, n)
      BY <2>7 DEF Evicted
    <3>2. n \in Nat /\ n <= Cardinality(S) /\ Cardinality(S) - n = MaxCompletedItems
      BY <2>5, <2>7, LimitsAssumption
    <3> HIDE DEF n
    <3>3. \A u, v \in S : completed_at[u] = completed_at[v] => u = v
      BY <2>3 DEF Numbered
    <3>4. Cardinality(S \ Oldest(S, n)) <= Cardinality(S) - n
      BY <2>2, <3>2, <3>3, OldestCount
    <3>5. Cardinality(completed') <= MaxCompletedItems
      BY <2>1, <3>1, <3>2, <3>4
    <3>6. Cardinality(completed') \in Nat
      <4>1. completed' \in SUBSET Items
        BY <2>1, <2>2
      <4> QED
        BY <4>1, ItemsAssumption, FS_Subset, FS_CardinalityType
    <3>7. (MaxCompletedItems + 1)..Cardinality(completed') = {}
      BY <3>5, <3>6, LimitsAssumption
    <3> QED
      BY <3>7 DEF Cleaned
  <2> QED
    BY <2>6, <2>7 DEF Evicted
<1> QED
  BY <1>1, <1>2

LEMMA FiledInvariance == Spec => [](Numbered /\ Cleaned)
<1>1. Init => Numbered /\ Cleaned
  <2> SUFFICES ASSUME Init PROVE Numbered /\ Cleaned
    OBVIOUS
  <2>1. Done = {} /\ completed = {}
    BY DEF Init, Done
  <2>2. (MaxCompletedItems + 1)..Cardinality(completed) = {}
    BY <2>1, FS_EmptySet, LimitsAssumption
  <2> QED
    BY <2>1, <2>2 DEF Numbered, Cleaned
<1>2. Inv /\ Numbered /\ Cleaned /\ [Next]_vars => (Numbered /\ Cleaned)'
  BY NumberedStep, CleanedStep
<1> QED
  BY Invariance, <1>1, <1>2, PTL DEF Spec

\* Among as many consecutive numbers as the interval is long there is one of its multiples.
LEMMA MultipleAhead ==
  ASSUME NEW m \in Nat, NEW c \in Nat \ {0}
  PROVE  \E x \in (m + 1)..(m + c) : x % c = 0
<1> DEFINE r == m % c
           k == m \div c
<1>1. r \in 0..(c - 1) /\ k \in Int /\ m = c * k + r
  OBVIOUS
<1> HIDE DEF r, k
<1>2. \A d \in Nat \ {0}, j \in Int : (d * j) % d = 0
  OBVIOUS
<1>3. (c * (k + 1)) % c = 0
  BY <1>1, <1>2
<1>4. c * (k + 1) = m - r + c
  BY <1>1
<1>5. c * (k + 1) \in (m + 1)..(m + c)
  BY <1>1, <1>4
<1> QED
  BY <1>3, <1>5

-----------------------------------------------------------------------------
(* The results. *)

\* Every variable keeps its type, for any number of items, workers, attempts,
\* restarts and batches that the clients of the queue add.
THEOREM TypeCorrect == Spec => []TypeOK
<1>1. Inv => TypeOK
  BY DEF Inv
<1> QED
  BY Invariance, <1>1, PTL

\* No id is ever in the queue list twice, although clients (retry_work) and the
\* manager (_handle_completed_future) both put failed items back.
THEOREM QueueWithoutDuplicates == Spec => []NoDuplicates
<1>1. Inv => NoDuplicates
  BY DEF Inv, Injective, NoDuplicates
<1> QED
  BY Invariance, <1>1, PTL

\* pending_work_ids is exactly the set of items whose status is pending, all of
\* them are in the queue list and nothing else is but what stop() cancelled.
THEOREM PendingTracked == Spec => []QueueTracksPending
<1>1. Inv => QueueTracksPending
  <2> SUFFICES ASSUME Inv PROVE QueueTracksPending
    OBVIOUS
  <2>1. \A w \in Items : Waiting(w)
    BY DEF Inv, ItemInv
  <2>2. pending \subseteq Items
    BY DEF Inv, TypeOK
  <2>3. \A w \in Elems(queue) : w \in Items
    BY ElementOfSeq DEF Inv, TypeOK, Elems
  <2>4. pending = {w \in Items : status[w] = "pending"}
    BY <2>1, <2>2 DEF Waiting
  <2>5. pending \subseteq Elems(queue)
    BY <2>1, <2>2 DEF Waiting
  <2>6. \A w \in Elems(queue) : status[w] \in {"pending", "cancelled"}
    BY <2>1, <2>3 DEF Waiting
  <2> QED
    BY <2>4, <2>5, <2>6 DEF QueueTracksPending
<1> QED
  BY Invariance, <1>1, PTL

\* A call that the executor may still run belongs to an item that is running, so
\* _process_worker_item overwrites no status that a client has set.
THEOREM WorkersOverwriteNothing == Spec => []ExecutingIsRunning
<1>1. Inv => ExecutingIsRunning
  BY DEF Inv, ItemInv, Executing, ExecutingIsRunning
<1> QED
  BY Invariance, <1>1, PTL

\* No item is started more often than max_attempts, whoever retries it.
THEOREM AttemptsBounded == Spec => []AttemptBound
<1>1. Inv => AttemptBound
  BY DEF Inv, ItemInv, Attempts, AttemptBound
<1> QED
  BY Invariance, <1>1, PTL

\* Whatever was started had all its dependencies completed, and they still are.
THEOREM DependenciesFirst == Spec => []DependencyOrder
<1>1. Inv => DependencyOrder
  BY DEF Inv, ItemInv, Attempts, DependencyOrder
<1> QED
  BY Invariance, <1>1, PTL

\* completed and cancelled are final for every item.
THEOREM StatusFinal == Spec => FinalStatus
<1>1. Inv /\ [Next]_vars =>
        [\A w \in Items : status[w] \in {"completed", "cancelled"} => status'[w] = status[w]]_vars
  BY EveryStep DEF StepOK, Final
<1> QED
  BY Invariance, <1>1, PTL DEF Spec, FinalStatus

\* Never more than max_workers calls are submitted to the executor, although stop() forgets
\* the futures it could not cancel; what the manager has in flight is in work_items and
\* running_work_ids, so that its look-ups never raise; and completed and failed items are
\* filed as what they are.
THEOREM BookkeepingSound == Spec => []BookkeepingAgrees
<1>1. Inv /\ LoadInv => BookkeepingAgrees
  <2> SUFFICES ASSUME Inv, LoadInv PROVE BookkeepingAgrees
    OBVIOUS
  <2>1. WorkerLimit
    BY DEF LoadInv, Load, Submitted, WorkerLimit
  <2>2. InFlightTracked
    BY DEF Inv, TypeOK, LoadInv, InFlight, InFlightTracked
  <2>3. TrackingAgrees
    BY DEF Inv, TypeOK, ItemInv, Known, LoadInv, InFlight, TrackingAgrees
  <2> QED
    BY <2>1, <2>2, <2>3 DEF BookkeepingAgrees
<1> QED
  BY Invariance, LoadInvariance, <1>1, PTL

\* The waiting list is always sorted by priority, whatever is added, retried, deferred or
\* cancelled, and the completed items in memory stay below the limit plus the interval.
THEOREM ShapeKept == Spec => []QueueShape
<1>1. Sorted(queue, priority) => QueueSorted
  BY DEF Sorted, QueueSorted
<1>2. Inv /\ Cleaned => CompletedBounded
  <2> SUFFICES ASSUME Inv, Cleaned, ~CompletedBounded PROVE FALSE
    OBVIOUS
  <2>1. Cardinality(completed) \in Nat
    BY ItemsAssumption, FS_Subset, FS_CardinalityType DEF Inv, TypeOK
  <2>2. PICK x \in (MaxCompletedItems + 1)..(MaxCompletedItems + CleanupInterval) : x % CleanupInterval = 0
    BY MultipleAhead, LimitsAssumption
  <2>3. x \in (MaxCompletedItems + 1)..Cardinality(completed)
    BY <2>1, <2>2, LimitsAssumption DEF CompletedBounded
  <2> QED
    BY <2>2, <2>3 DEF Cleaned
<1> QED
  BY Invariance, OrderInvariance, FiledInvariance, <1>1, <1>2, PTL DEF QueueShape

\* A clean-up removes the oldest: what stays filed completed later than all it removes.
THEOREM OldestEvicted == Spec => EvictsOldest
<1> DEFINE Kept == \A v \in work_items \ work_items', w \in completed' : completed_at[v] < completed_at[w]
<1>1. ASSUME Inv, [Next]_vars PROVE [Kept]_vars
  <2>t. TypeOK
    BY <1>1 DEF Inv
  <2>1. ASSUME NEW u \in Items, HandleCompleted(u) PROVE Kept
    <3> DEFINE S == completed \cup {u}
    <3>1. completed' = S \ Evicted(S) /\ work_items' = work_items \ Evicted(S)
      BY <2>1 DEF HandleCompleted
    <3>2. S \in SUBSET Items
      BY <2>t DEF TypeOK
    <3> HIDE DEF S
    <3>3. ASSUME NEW v \in work_items \ work_items', NEW w \in completed'
          PROVE  completed_at[v] < completed_at[w]
      <4>1. v \in Evicted(S) /\ w \in S /\ w \notin Evicted(S)
        BY <3>1
      <4>0. Cardinality(S) \in Nat
        BY <3>2, ItemsAssumption, FS_Subset, FS_CardinalityType
      <4>2. PICK n \in Int : v \in Oldest(S, n) /\ w \notin Oldest(S, n)
        BY <4>0, <4>1, LimitsAssumption DEF Evicted
      <4>3. v \in S /\ Rank(S, v) < n /\ ~(Rank(S, w) < n)
        BY <4>1, <4>2 DEF Oldest, Rank
      <4>4. completed_at[w] <= completed_at[v] => Rank(S, w) <= Rank(S, v)
        BY <2>t, <3>2, <4>1, <4>3, RankFacts
      <4>5. Rank(S, v) \in Nat /\ Rank(S, w) \in Nat
        BY <2>t, <3>2, <4>1, <4>3, RankFacts
      <4>6. completed_at[v] \in Nat /\ completed_at[w] \in Nat
        BY <2>t, <3>2, <4>1, <4>3 DEF TypeOK
      <4> QED
        BY <4>3, <4>4, <4>5, <4>6
    <3> QED
      BY <3>3
  <2>2. CASE ~ \E u \in Items : HandleCompleted(u)
    <3>1. work_items \subseteq work_items' \/ UNCHANGED vars
      BY <1>1, <2>2 DEF Next, Client, Adds, AddWork, AddWithDependencies, AddItems, cancel_work, retry_work,
         start, stop, Manager, ManagerScans, ManagerWaits, ManagerStep, _handle_completed_future,
         HandleRetriable, HandleFailed, HandleOther, ManagerSkips, ManagerDefers, ManagerSubmits,
         SubmitRaises, MarksRunning, Shutdown, ShutdownReturns, ManagerCancelled, Worker,
         WorkerTakes, WorkerSucceeds, WorkerFails, FutureDone, trackVars
    <3> QED
      BY <3>1
  <2> QED
    BY <2>1, <2>2
<1> QED
  BY Invariance, <1>1, PTL DEF Spec, EvictsOldest

-----------------------------------------------------------------------------
(***************************************************************************)
(* The work queue as its users see it.  It implements WorkItems: initial   *)
(* states are mapped to initial states, and every step to one of an item   *)
(* or to a stutter.  And run_in_thread_pool gets from it what it waits     *)
(* for.  The invariant above says what the queue and the futures mean for  *)
(* the items.                                                              *)
(***************************************************************************)

\* What WorkItems sees of a state.
Phase == [w \in Items |-> PhaseOf[status[w]]]

\* A step of WorkItems, or a stutter.
Allowed == [Promise!ItemsNext]_(Promise!itemsVars)

LEMMA InitImplements == Init => Promise!ItemsInit
  BY DEF Init, Promise!ItemsInit, PhaseOf

-----------------------------------------------------------------------------
(* The steps that change an item, by what they do to its status. *)

\* Items are created, whatever they depend on.
LEMMA CreateStep ==
  ASSUME NEW S \in SUBSET Items,
         \A w \in S : status[w] = "none",
         status' = [w \in Items |-> IF w \in S THEN "pending" ELSE status[w]],
         \A w \in Items \ S : dependencies'[w] = dependencies[w],
         attempt' = attempt
  PROVE  Allowed
<1>1. Promise!Create(S)
  BY DEF Promise!Create, PhaseOf
<1> QED
  BY <1>1 DEF Promise!ItemsNext, Allowed

LEMMA WithdrawStep ==
  ASSUME NEW S \in SUBSET Items,
         \A w \in S : status[w] \in {"pending", "failed"},
         status' = [w \in Items |-> IF w \in S THEN "cancelled" ELSE status[w]],
         UNCHANGED <<dependencies, attempt>>
  PROVE  Allowed
<1>1. Promise!Withdraw(S)
  BY DEF Promise!Withdraw, PhaseOf
<1> QED
  BY <1>1 DEF Promise!ItemsNext, Allowed

\* A new status of one item is a new phase of this item.
LEMMA OnePhase ==
  ASSUME TypeOK, NEW w \in Items, NEW s \in WorkStatus, status' = [status EXCEPT ![w] = s]
  PROVE  [v \in Items |-> PhaseOf[status'[v]]]
            = [[v \in Items |-> PhaseOf[status[v]]] EXCEPT ![w] = PhaseOf[s]]
<1>1. \A v \in Items : PhaseOf[status'[v]] = IF v = w THEN PhaseOf[s] ELSE PhaseOf[status[v]]
  BY DEF TypeOK
<1> QED
  BY <1>1

LEMMA RetryItemStep ==
  ASSUME TypeOK, NEW w \in Items, is_retriable(w),
         status' = [status EXCEPT ![w] = "pending"],
         UNCHANGED <<dependencies, attempt>>
  PROVE  Allowed
<1>1. PhaseOf["pending"] = "waiting" /\ PhaseOf[status[w]] = "failed"
  BY DEF PhaseOf, is_retriable
<1>2. [v \in Items |-> PhaseOf[status'[v]]]
        = [[v \in Items |-> PhaseOf[status[v]]] EXCEPT ![w] = "waiting"]
  BY <1>1, OnePhase DEF WorkStatus
<1>3. Promise!RetryItem(w)
  BY <1>1, <1>2 DEF Promise!RetryItem, is_retriable
<1> QED
  BY <1>3 DEF Promise!ItemsNext, Allowed

LEMMA StartStep ==
  ASSUME TypeOK, NEW w \in Items, status[w] = "pending", attempt[w] < MaxAttempts,
         \A d \in dependencies[w] : status[d] = "completed",
         status' = [status EXCEPT ![w] = "running"],
         attempt' = [attempt EXCEPT ![w] = @ + 1],
         UNCHANGED dependencies
  PROVE  Allowed
<1>1. /\ PhaseOf["running"] = "started" /\ PhaseOf[status[w]] = "waiting"
      /\ PhaseOf["completed"] = "done"
  BY DEF PhaseOf
<1>2. [v \in Items |-> PhaseOf[status'[v]]]
        = [[v \in Items |-> PhaseOf[status[v]]] EXCEPT ![w] = "started"]
  BY <1>1, OnePhase DEF WorkStatus
<1>3. \A d \in dependencies[w] : d \in Items /\ PhaseOf[status[d]] = "done"
  BY <1>1 DEF TypeOK
<1>4. Promise!StartItem(w)
  BY <1>1, <1>2, <1>3 DEF Promise!StartItem
<1> QED
  BY <1>4 DEF Promise!ItemsNext, Allowed

LEMMA FinishStep ==
  ASSUME TypeOK, NEW w \in Items, status[w] = "running", NEW s \in {"completed", "failed"},
         status' = [status EXCEPT ![w] = s],
         UNCHANGED <<dependencies, attempt>>
  PROVE  Allowed
<1>1. PhaseOf[s] \in {"done", "failed"} /\ PhaseOf[status[w]] = "started"
  BY DEF PhaseOf
<1>2. [v \in Items |-> PhaseOf[status'[v]]]
        = [[v \in Items |-> PhaseOf[status[v]]] EXCEPT ![w] = PhaseOf[s]]
  <2>1. s \in WorkStatus
    BY DEF WorkStatus
  <2> QED
    BY <2>1, OnePhase
<1>3. Promise!FinishItem(w)
  <2>1. PICK end \in {"done", "failed"} : end = PhaseOf[s]
    BY <1>1
  <2>2. [v \in Items |-> PhaseOf[status[v]]][w] = "started"
    BY <1>1
  <2>3. [v \in Items |-> PhaseOf[status[v]]]' = [[v \in Items |-> PhaseOf[status[v]]] EXCEPT ![w] = end]
    BY <1>2, <2>1
  <2> QED
    BY <2>2, <2>3 DEF Promise!FinishItem
<1> QED
  BY <1>3 DEF Promise!ItemsNext, Allowed

\* Everything else leaves status, dependencies and attempts alone.
LEMMA HiddenStep ==
  ASSUME UNCHANGED <<status, dependencies, attempt>>
  PROVE  Allowed
  BY DEF Allowed, Promise!itemsVars

-----------------------------------------------------------------------------
(* Which action takes which step. *)

LEMMA AddItemsImplements ==
  ASSUME TypeOK, NEW s \in Seq(Items), NEW p, NEW deps, AddItems(s, p, deps)
  PROVE  Allowed
<1>1. Elems(s) \in SUBSET Items
  BY ElementOfSeq DEF Elems
<1>2. \A w \in Elems(s) : status[w] = "none"
  BY DEF AddItems, Elems
<1>3. /\ status' = [w \in Items |-> IF w \in Elems(s) THEN "pending" ELSE status[w]]
      /\ \A w \in Items \ Elems(s) : dependencies'[w] = dependencies[w]
      /\ attempt' = attempt
  BY DEF AddItems
<1> QED
  BY <1>1, <1>2, <1>3, CreateStep

LEMMA ClientImplements ==
  ASSUME Inv, Client
  PROVE  Allowed
<1>t. TypeOK
  BY DEF Inv
<1>1. ASSUME NEW w \in Items, NEW p \in Priorities, NEW deps \in SUBSET Items, AddWork(w, p, deps)
      PROVE  Allowed
  <2>1. <<w>> \in Seq(Items)
    BY SingleId
  <2> QED
    BY <1>t, <1>1, <2>1, AddItemsImplements DEF AddWork
<1>2. ASSUME NEW s \in Batches, NEW p \in Priorities, NEW graph, AddWithDependencies(s, p, graph)
      PROVE  Allowed
  <2>1. PICK n \in BatchSizes : s \in [1..n -> Items]
    BY DEF Batches
  <2>2. s \in Seq(Items)
    BY <2>1, LimitsAssumption, SeqDef
  <2> QED
    BY <1>t, <1>2, <2>2, AddItemsImplements DEF AddWithDependencies
<1>3. ASSUME NEW w \in Items, cancel_work(w) PROVE Allowed
  <2>1. status' = [v \in Items |-> IF v \in {w} THEN "cancelled" ELSE status[v]]
    BY <1>t, <1>3 DEF cancel_work, TypeOK
  <2>2. /\ \A v \in {w} : status[v] \in {"pending", "failed"}
        /\ UNCHANGED <<dependencies, attempt>>
    BY <1>3 DEF cancel_work
  <2> QED
    BY <2>1, <2>2, WithdrawStep
<1>4. ASSUME NEW w \in Items, retry_work(w) PROVE Allowed
  BY <1>t, <1>4, RetryItemStep DEF retry_work
<1>5. ASSUME NEW wait \in BOOLEAN, stop(wait) PROVE Allowed
  <2>1. pending \cap work_items \in SUBSET Items
    BY <1>t DEF TypeOK
  <2>2. \A w \in pending \cap work_items : status[w] \in {"pending", "failed"}
    BY <2>1 DEF Inv, ItemInv, Waiting
  <2>3. /\ status' = [w \in Items |-> IF w \in pending \cap work_items THEN "cancelled" ELSE status[w]]
        /\ UNCHANGED <<dependencies, attempt>>
    BY <1>5 DEF stop
  <2> QED
    BY <2>1, <2>2, <2>3, WithdrawStep
<1>6. CASE start
  BY <1>6, HiddenStep DEF start, itemVars
<1> QED
  BY <1>1, <1>2, <1>3, <1>4, <1>5, <1>6 DEF Client, Adds

LEMMA ManagerImplements ==
  ASSUME Inv, Manager
  PROVE  Allowed
<1>t. TypeOK
  BY DEF Inv
<1>1. ASSUME NEW w \in Items, _handle_completed_future(w) PROVE Allowed
  <2>1. CASE HandleRetriable(w)
    BY <1>t, <2>1, RetryItemStep DEF HandleRetriable, Reaps
  <2>2. CASE HandleCompleted(w) \/ HandleFailed(w) \/ HandleOther(w)
    BY <2>2, HiddenStep DEF HandleCompleted, HandleFailed, HandleOther, Reaps
  <2> QED
    BY <1>1, <2>1, <2>2 DEF _handle_completed_future
<1>2. ASSUME NEW w \in Items, MarksRunning(w) PROVE Allowed
  <2>1. w \in Elems(queue) /\ status[w] # "cancelled"
    BY <1>2, PopsHead DEF MarksRunning
  <2>2. status[w] = "pending" /\ attempt[w] < MaxAttempts
    BY <2>1 DEF Inv, ItemInv, Waiting, Attempts
  <2>3. \A d \in dependencies[w] : status[d] = "completed"
    BY <1>2 DEF MarksRunning, DependenciesCompleted
  <2>4. /\ status' = [status EXCEPT ![w] = "running"]
        /\ attempt' = [attempt EXCEPT ![w] = @ + 1]
        /\ UNCHANGED dependencies
    BY <1>2 DEF MarksRunning
  <2> QED
    BY <1>t, <2>2, <2>3, <2>4, StartStep
<1>3. ASSUME NEW w \in Items, ManagerSkips(w) \/ ManagerDefers(w) PROVE Allowed
  BY <1>3, HiddenStep DEF ManagerSkips, ManagerDefers, itemVars
<1>4. CASE ManagerScans \/ ManagerWaits
  BY <1>4, HiddenStep DEF ManagerScans, ManagerWaits, itemVars
<1> QED
  BY <1>1, <1>2, <1>3, <1>4 DEF Manager, ManagerStep, ManagerSubmits, SubmitRaises

LEMMA WorkerImplements ==
  ASSUME Inv, NEW w \in Items, Worker(w)
  PROVE  Allowed
<1>t. TypeOK
  BY DEF Inv
<1>e. future[w] = "executing" => status[w] = "running"
  BY DEF Inv, ItemInv, Executing
<1>1. CASE WorkerSucceeds(w)
  BY <1>t, <1>e, <1>1, FinishStep DEF WorkerSucceeds
<1>2. CASE WorkerFails(w)
  BY <1>t, <1>e, <1>2, FinishStep DEF WorkerFails
<1>3. CASE WorkerTakes(w) \/ FutureDone(w)
  BY <1>3, HiddenStep DEF WorkerTakes, FutureDone, itemVars
<1> QED
  BY <1>1, <1>2, <1>3 DEF Worker

LEMMA StepImplements == Inv /\ [Next]_vars => Allowed
<1> SUFFICES ASSUME Inv, [Next]_vars PROVE Allowed
  OBVIOUS
<1>1. CASE Shutdown
  BY <1>1, HiddenStep DEF Shutdown, ShutdownReturns, ManagerCancelled, itemVars
<1>2. CASE UNCHANGED vars
  BY <1>2, HiddenStep DEF vars, itemVars
<1> QED
  BY <1>1, <1>2, ClientImplements, ManagerImplements, WorkerImplements DEF Next

-----------------------------------------------------------------------------
\* The queue with its manager, executor, retries, evictions and restarts implements
\* WorkItems: an item waits, is started after its dependencies, at most max_attempts times,
\* and is done, failed or withdrawn for good.
THEOREM QueueImplementsItems == Spec => ImplementsItems
<1>1. Inv /\ [Next]_vars => [Promise!ItemsNext]_(Promise!itemsVars)
  BY StepImplements DEF Allowed
<1> QED
  BY InitImplements, Invariance, <1>1, PTL DEF Spec, ImplementsItems, Promise!ItemsSpec
-----------------------------------------------------------------------------
(***************************************************************************)
(* run_in_thread_pool.  Its caller is the only client of the queue and     *)
(* stops it only when it has seen every item end or one fail: until then   *)
(* the executor accepts work, so that a running item always has a call     *)
(* that will end; stop() cancels what is pending and shutdown(wait=True)   *)
(* waits for the calls.                                                    *)
(***************************************************************************)
Active(w) == future[w] \in {"submitted", "executing", "returned"}

\* A running item has a call that a worker executes or will execute.
Called(w) == status[w] = "running" => future[w] \in {"submitted", "executing"}

Before == pc \in {"start", "add"}
After == pc \in {"stopping", "done"}

\* What the caller knows of an item, and what it leaves of it.
Handled(w) ==
    /\ Called(w)
    /\ status[w] = "none" <=> Before
    /\ After => status[w] # "pending"
    /\ After /\ stopper # "draining" => ~Active(w)

Recorded(w) ==
    /\ results[w] = "none" => Before \/ w \in waiting
    /\ results[w] \in {"result", "missing"} => status[w] = "completed"
    /\ results[w] = "missing" => w \notin work_items
    /\ results[w] \in {"failed", "cancelled"} => outcome = "raised"

\* The queue runs until the caller stops it, and is stopped when the caller is done.
Running ==
    /\ pc \in {"start", "add", "poll", "sleeping", "stop", "stopping", "done"}
    /\ ~After => stopper = "none" /\ executorUp
    /\ After => mgr \in {"off", "sleep"}
    /\ stopper # "none" => isRunning
    /\ After /\ ~isRunning => mgr = "off"
    /\ After /\ isRunning => stopper # "none"
    /\ pc = "done" => ~isRunning

Outcome ==
    /\ outcome \in {"none", "returned", "raised"}
    /\ pc \in {"start", "add", "poll", "sleeping"} => outcome = "none"
    /\ outcome = "returned" => waiting = {}
    /\ results \in [Items -> {"none", "result", "missing", "failed", "cancelled"}]

RunInv == Inv /\ Running /\ Outcome /\ \A w \in Items : Handled(w) /\ Recorded(w)

LEMMA RunInvInit == RunInit => RunInv
<1> SUFFICES ASSUME RunInit PROVE RunInv
  OBVIOUS
<1>1. Inv
  BY InvInit DEF RunInit
<1>2. Running /\ Outcome
  BY DEF RunInit, Init, Running, Outcome, After
<1>3. \A w \in Items : Handled(w) /\ Recorded(w)
  BY DEF RunInit, Init, Handled, Called, Recorded, Before, After
<1> QED
  BY <1>1, <1>2, <1>3 DEF RunInv

LEMMA RunInvMeans == RunInv => OutcomeWhole
<1> SUFFICES ASSUME RunInv PROVE OutcomeWhole
  OBVIOUS
<1>1. ASSUME outcome = "returned", NEW w \in Items
      PROVE  status[w] = "completed"
             /\ (results[w] = "result" \/ (results[w] = "missing" /\ w \notin work_items))
  <2>1. ~Before /\ waiting = {} /\ results[w] \in {"none", "result", "missing", "failed", "cancelled"}
    BY <1>1 DEF RunInv, Outcome, Before
  <2>2. Recorded(w)
    BY DEF RunInv
  <2> QED
    BY <1>1, <2>1, <2>2 DEF Recorded
<1>2. ASSUME pc = "done", NEW w \in Items
      PROVE  status[w] \in {"completed", "failed", "cancelled"} /\ ~Active(w)
  <2>1. After /\ ~Before
    BY <1>2 DEF After, Before
  <2>2. stopper # "draining"
    BY <1>2 DEF RunInv, Running
  <2>3. Handled(w) /\ status[w] \in WorkStatus \cup {"none"}
    BY DEF RunInv, Inv, TypeOK
  <2> QED
    BY <2>1, <2>2, <2>3 DEF Handled, Called, Active, WorkStatus
<1> QED
  BY <1>1, <1>2 DEF OutcomeWhole, ReturnsAllResults, LeavesNothingRunning, Active

\* The batch contains every item once.
LEMMA BatchIsWhole ==
  ASSUME NEW s \in [1..Cardinality(Items) -> Items], Injective(s)
  PROVE  s \in Seq(Items) /\ Elems(s) = Items
<1>1. Cardinality(Items) \in Nat
  BY ItemsAssumption, FS_CardinalityType
<1>2. s \in Seq(Items) /\ Len(s) = Cardinality(Items)
  BY <1>1, SeqDef
<1>3. s \in Injection(1..Cardinality(Items), Items)
  BY <1>2 DEF Injective, Injection, IsInjective
<1>4. Cardinality(1..Cardinality(Items)) = Cardinality(Items)
  BY <1>1, FS_Interval
<1>5. s \in Surjection(1..Cardinality(Items), Items)
  BY <1>3, <1>4, FS_Injection, ItemsAssumption
<1>6. \A w \in Items : \E i \in 1..Len(s) : s[i] = w
  BY <1>2, <1>5 DEF Surjection
<1> QED
  BY <1>2, <1>6 DEF Elems

LEMMA RunAddKeeps == ASSUME RunInv, RunAdd PROVE RunInv'
<1>1. PICK s \in [1..Cardinality(Items) -> Items], p \in Priorities :
         AddWithDependencies(s, p, [w \in Items |-> {}])
  BY DEF RunAdd
<1>2. Injective(s) /\ AddItems(s, p, [w \in Items |-> {}])
  <2>1. Len(s) = Cardinality(Items)
    BY ItemsAssumption, FS_CardinalityType, SeqDef
  <2> QED
    BY <1>1, <2>1 DEF AddWithDependencies, Injective
<1>3. s \in Seq(Items) /\ Elems(s) = Items
  BY <1>2, BatchIsWhole
<1>4. [w \in Items |-> {}] \in [Elems(s) -> SUBSET Items]
  BY <1>3
<1>5. Inv'
  BY <1>2, <1>3, <1>4, AddsStep DEF RunInv, StepOK
<1>6. /\ \A w \in Items : status'[w] = "pending"
      /\ UNCHANGED <<future, mgr, isRunning, executorUp, stopper>>
      /\ pc = "add" /\ pc' = "poll" /\ waiting' = Items /\ UNCHANGED <<results, outcome>>
  BY <1>2, <1>3 DEF RunAdd, AddItems, futureVars, mgrVars, lifeVars
<1>7. Running' /\ Outcome'
  BY <1>6 DEF RunInv, Running, Outcome, After
<1>8. ASSUME NEW w \in Items PROVE Handled(w)' /\ Recorded(w)'
  <2>1. status[w] = "none"
    BY <1>6 DEF RunInv, Handled, Before
  <2> QED
    BY <1>6, <2>1 DEF RunInv, Handled, Called, Recorded, Before, After
<1> QED
  BY <1>5, <1>7, <1>8 DEF RunInv

LEMMA RunStopKeeps == ASSUME RunInv, RunStop PROVE RunInv'
<1>1. stop(TRUE) /\ pc = "stop" /\ pc' = "stopping" /\ UNCHANGED <<waiting, results, outcome>>
  BY DEF RunStop
<1>2. Inv' /\ \A w \in Items : Final(w)
  BY <1>1, StopStep DEF RunInv, StepOK
<1>3. /\ stopper' = "draining" /\ isRunning /\ isRunning' /\ mgr' = mgr /\ mgr \in {"off", "sleep"}
      /\ UNCHANGED <<future, work_items>>
  BY <1>1 DEF stop, LoopFree, futureVars, mgrVars
<1>4. Running' /\ Outcome'
  BY <1>1, <1>3 DEF RunInv, Running, Outcome, After
<1>5. ASSUME NEW w \in Items PROVE Handled(w)' /\ Recorded(w)'
  <2>1. status'[w] = IF w \in pending \cap work_items THEN "cancelled" ELSE status[w]
    BY <1>1 DEF stop
  <2>2. status[w] = "pending" <=> w \in pending \cap work_items
    BY DEF RunInv, Inv, ItemInv, Waiting, Known
  <2>3. Handled(w) /\ Recorded(w)
    BY DEF RunInv
  <2>4. Handled(w)'
    BY <1>1, <1>3, <2>1, <2>2, <2>3 DEF Handled, Called, Before, After
  <2>5. Recorded(w)'
    BY <1>1, <1>3, <2>1, <2>2, <2>3 DEF Recorded, Before
  <2> QED
    BY <2>4, <2>5
<1> QED
  BY <1>2, <1>4, <1>5 DEF RunInv

LEMMA RunStartKeeps == ASSUME RunInv, RunStart PROVE RunInv'
<1>1. start /\ pc = "start" /\ pc' = "add" /\ UNCHANGED <<waiting, results, outcome>>
  BY DEF RunStart
<1>2. Inv'
  BY <1>1, BystandersStep DEF RunInv, StepOK
<1>3. UNCHANGED <<status, work_items, future, executorUp, stopper>> /\ isRunning'
  BY <1>1 DEF start, itemVars, trackVars, futureVars
<1>4. Running' /\ Outcome'
  BY <1>1, <1>3 DEF RunInv, Running, Outcome, After
<1>5. ASSUME NEW w \in Items PROVE Handled(w)' /\ Recorded(w)'
  BY <1>1, <1>3 DEF RunInv, Handled, Called, Recorded, Before, After
<1> QED
  BY <1>2, <1>4, <1>5 DEF RunInv

\* The caller's own steps look at the queue and leave it alone.
LEMMA PollingKeeps ==
  ASSUME RunInv, PollEnds \/ PollAgain \/ RunReturns \/ \E w \in Items : PollItem(w)
  PROVE  RunInv'
<1>0. UNCHANGED vars
  BY DEF PollEnds, PollAgain, RunReturns, PollItem
<1>1. Inv'
  BY <1>0, StutterStep DEF RunInv, StepOK
<1>2. UNCHANGED <<status, work_items, future, mgr, isRunning, executorUp, stopper>>
  BY <1>0 DEF vars, itemVars, trackVars, futureVars, mgrVars, lifeVars
<1> USE DEF RunInv
<1>3. CASE PollEnds \/ PollAgain \/ RunReturns
  <2>1. Running' /\ Outcome'
    BY <1>2, <1>3 DEF PollEnds, PollAgain, RunReturns, Running, Outcome, After
  <2>2. ASSUME NEW w \in Items PROVE Handled(w)'
    BY <1>2, <1>3 DEF PollEnds, PollAgain, RunReturns, Running, Handled, Called, Active, Before, After
  <2>3. ASSUME NEW w \in Items PROVE Recorded(w)'
    BY <1>2, <1>3 DEF PollEnds, PollAgain, RunReturns, Outcome, Recorded, Before
  <2> QED
    BY <1>1, <2>1, <2>2, <2>3
<1>4. ASSUME NEW w \in Items, PollItem(w) PROVE RunInv'
  <2>1. status[w] \notin {"none"} /\ (w \notin work_items => status[w] = "completed")
    BY <1>4 DEF PollItem, Handled, Before, Inv, ItemInv, Known
  <2>2. /\ results' = results \/ \E r \in {"missing", "result", "failed", "cancelled"} :
              results' = [results EXCEPT ![w] = r]
        /\ waiting' = waiting \/ (waiting' = waiting \ {w} /\ results'[w] # "none")
        /\ results'[w] = results[w] \/
             /\ results'[w] \in {"result", "missing"} => status[w] = "completed"
             /\ results'[w] = "missing" => w \notin work_items
             /\ results'[w] \in {"failed", "cancelled"} => outcome' = "raised"
        /\ \/ pc' = "poll" /\ outcome' = outcome
           \/ pc' = "stop" /\ outcome' = "raised"
        /\ pc = "poll" /\ outcome = "none"
    BY <1>4, <2>1 DEF PollItem, Records, Outcome
  <2>3. Running' /\ Outcome'
    BY <1>2, <2>2 DEF Running, Outcome, After
  <2>4. ASSUME NEW v \in Items PROVE Handled(v)' /\ Recorded(v)'
    <3>0. Handled(v) /\ Recorded(v)
      OBVIOUS
    <3>1. Handled(v)'
      BY <1>2, <2>2, <3>0 DEF Handled, Called, Before, After
    <3>2. Recorded(v)'
      <4>1. CASE v = w
        BY <1>2, <2>2, <3>0, <4>1 DEF Recorded, Before, Outcome
      <4>2. CASE v # w
        BY <1>2, <2>2, <3>0, <4>2 DEF Recorded, Before, Outcome
      <4> QED
        BY <4>1, <4>2
    <3> QED
      BY <3>1, <3>2
  <2> QED
    BY <1>1, <2>3, <2>4
<1> QED
  BY <1>3, <1>4

-----------------------------------------------------------------------------
(* The queue's steps under the caller. *)

\* While the executor accepts work, the manager starts no item without a call, and forgets
\* and files items without creating any.
LEMMA ManagerEffect ==
  ASSUME Inv, Manager, executorUp, NEW v \in Items, Called(v)
  PROVE  /\ work_items' \subseteq work_items
         /\ UNCHANGED lifeVars
         /\ status'[v] = "none" <=> status[v] = "none"
         /\ Called(v)'
<1> USE DEF Inv, Called
<1>1. CASE ManagerScans \/ ManagerWaits
  BY <1>1 DEF ManagerScans, ManagerWaits, itemVars, trackVars, futureVars
<1>2. ASSUME NEW w \in Items, _handle_completed_future(w)
      PROVE  /\ work_items' \subseteq work_items
             /\ UNCHANGED lifeVars
             /\ status'[v] = "none" <=> status[v] = "none"
             /\ Called(v)'
  <2>1. UNCHANGED lifeVars /\ future' = future
    BY <1>2 DEF _handle_completed_future, HandleCompleted, HandleRetriable, HandleFailed,
                HandleOther, Reaps, futureVars
  <2>2. CASE HandleRetriable(w)
    BY <2>1, <2>2 DEF HandleRetriable, is_retriable, TypeOK
  <2>3. CASE HandleCompleted(w) \/ HandleFailed(w) \/ HandleOther(w)
    BY <2>1, <2>3 DEF HandleCompleted, HandleFailed, HandleOther
  <2> QED
    BY <1>2, <2>2, <2>3 DEF _handle_completed_future
<1>3. ASSUME NEW w \in Items, ManagerSkips(w) \/ ManagerDefers(w)
      PROVE  UNCHANGED <<status, future, work_items, lifeVars>>
  BY <1>3 DEF ManagerSkips, ManagerDefers, itemVars, futureVars
<1>4. ASSUME NEW w \in Items, ManagerSubmits(w)
      PROVE  /\ UNCHANGED <<work_items, lifeVars>>
             /\ status'[v] = "none" <=> status[v] = "none"
             /\ Called(v)'
  <2>1. w \in Elems(queue)
    BY <1>4, PopsHead DEF ManagerSubmits, MarksRunning
  <2>2. status[w] \in {"pending", "cancelled"}
    BY <2>1 DEF ItemInv, Waiting
  <2>3. /\ status' = [status EXCEPT ![w] = "running"]
        /\ future' = [future EXCEPT ![w] = "submitted"]
        /\ UNCHANGED <<work_items, lifeVars>>
    BY <1>4 DEF ManagerSubmits, MarksRunning
  <2> QED
    BY <2>2, <2>3 DEF TypeOK
<1>5. ASSUME NEW w \in Items PROVE ~SubmitRaises(w)
  BY DEF SubmitRaises
<1> QED
  BY <1>1, <1>2, <1>3, <1>4, <1>5 DEF Manager, ManagerStep

LEMMA WorkerEffect ==
  ASSUME Inv, NEW w \in Items, Worker(w), NEW v \in Items
  PROVE  /\ UNCHANGED <<work_items, lifeVars, mgr>>
         /\ status'[v] = "none" <=> status[v] = "none"
         /\ status'[v] = "pending" => status[v] = "pending"
         /\ Called(v) => Called(v)'
         /\ Active(v)' => Active(v)
<1>1. future[w] = "executing" => status[w] = "running"
  BY DEF Inv, ItemInv, Executing
<1> QED
  BY <1>1 DEF Inv, Worker, WorkerTakes, WorkerSucceeds, WorkerFails, FutureDone, Called, Active,
              TypeOK, trackVars, mgrVars, itemVars

LEMMA QueueStepKeeps == ASSUME RunInv, QueueStep PROVE RunInv'
<1>0. UNCHANGED <<pc, waiting, todo, results, outcome>>
  BY DEF QueueStep, callerVars
<1>1. Next
  BY DEF QueueStep, Next
<1>2. Inv' /\ \A w \in Items : Final(w)
  BY <1>1, EveryStep DEF RunInv, StepOK
<1>3. Outcome'
  BY <1>0 DEF RunInv, Outcome
<1>4. CASE Manager /\ CallerSuspended
  <2>1. ~After
    BY <1>4 DEF RunInv, Running, After, Manager, ManagerScans, ManagerWaits, ManagerStep,
                _handle_completed_future, HandleCompleted, HandleRetriable, HandleFailed, HandleOther,
                Reaps, ManagerSkips, ManagerDefers, ManagerSubmits, SubmitRaises, MarksRunning, Pops
  <2>2. pc = "sleeping" /\ executorUp /\ stopper = "none"
    BY <1>4, <2>1 DEF CallerSuspended, After, RunInv, Running
  <2>3. ASSUME NEW v \in Items PROVE Handled(v)' /\ Recorded(v)'
    <3>1. Called(v) /\ Handled(v) /\ Recorded(v) /\ Final(v)
      BY <1>2 DEF RunInv, Handled
    <3>2. /\ work_items' \subseteq work_items
          /\ status'[v] = "none" <=> status[v] = "none"
          /\ Called(v)'
      BY <1>4, <2>2, <3>1, ManagerEffect DEF RunInv
    <3>3. Handled(v)'
      BY <1>0, <2>2, <3>1, <3>2 DEF Handled, Before, After
    <3>4. Recorded(v)'
      BY <1>0, <3>1, <3>2 DEF Recorded, Before, Final
    <3> QED
      BY <3>3, <3>4
  <2>4. UNCHANGED lifeVars \/ Items = {}
    <3>1. CASE \E v \in Items : TRUE
      <4>1. PICK v \in Items : TRUE
        BY <3>1
      <4>2. Called(v)
        BY DEF RunInv, Handled
      <4> QED
        BY <1>4, <2>2, <4>2, ManagerEffect DEF RunInv
    <3> QED
      BY <3>1
  <2>5. UNCHANGED lifeVars
    BY <1>4, <2>4 DEF Manager, ManagerScans, ManagerWaits
  <2>6. Running'
    BY <1>0, <2>2, <2>5 DEF RunInv, Running, After, lifeVars
  <2> QED
    BY <1>2, <1>3, <2>3, <2>6 DEF RunInv
<1>5. CASE ShutdownReturns
  <2>1. /\ UNCHANGED <<status, future, work_items, mgr, isRunning, executorUp>>
        /\ stopper = "draining" /\ stopper' = "cancelling"
        /\ \A w \in Items : ~Active(w)
    BY <1>5 DEF ShutdownReturns, itemVars, trackVars, futureVars, mgrVars, Active
  <2>2. Running'
    BY <1>0, <2>1 DEF RunInv, Running, After
  <2>3. ASSUME NEW v \in Items PROVE Handled(v)' /\ Recorded(v)'
    BY <1>0, <2>1 DEF RunInv, Handled, Recorded, Called, Active, Before, After
  <2> QED
    BY <1>2, <1>3, <2>2, <2>3 DEF RunInv
<1>6. CASE ManagerCancelled
  <2>1. stopper = "cancelling" /\ After
    BY <1>6 DEF ManagerCancelled, RunInv, Running
  <2>2. \A w \in Items : ~Active(w) /\ future[w] \in FutureState
    BY <2>1 DEF RunInv, Handled, Inv, TypeOK
  <2>3. /\ UNCHANGED <<status, work_items, executorUp>> /\ ~isRunning' /\ mgr' = "off"
        /\ stopper' = "none"
        /\ \A w \in Items : future'[w] = future[w]
    BY <1>6, <2>2 DEF ManagerCancelled, itemVars, trackVars, Active
  <2>4. Running'
    BY <1>0, <2>1, <2>3 DEF RunInv, Running, After
  <2>5. ASSUME NEW v \in Items PROVE Handled(v)' /\ Recorded(v)'
    BY <1>0, <2>1, <2>2, <2>3 DEF RunInv, Handled, Recorded, Called, Active, Before, After
  <2> QED
    BY <1>2, <1>3, <2>4, <2>5 DEF RunInv
<1>7. ASSUME NEW w \in Items, Worker(w) PROVE RunInv'
  <2>1. UNCHANGED <<work_items, lifeVars, mgr>>
    BY <1>7, WorkerEffect DEF RunInv
  <2>2. Running'
    BY <1>0, <2>1 DEF RunInv, Running, After, lifeVars
  <2>3. ASSUME NEW v \in Items PROVE Handled(v)' /\ Recorded(v)'
    <3>1. Handled(v) /\ Recorded(v) /\ Final(v)
      BY <1>2 DEF RunInv
    <3>2. /\ status'[v] = "none" <=> status[v] = "none"
          /\ status'[v] = "pending" => status[v] = "pending"
          /\ Called(v) => Called(v)'
          /\ Active(v)' => Active(v)
      BY <1>7, WorkerEffect DEF RunInv
    <3>3. Handled(v)'
      BY <1>0, <2>1, <3>1, <3>2 DEF Handled, Before, After, lifeVars
    <3>4. Recorded(v)'
      BY <1>0, <2>1, <3>1 DEF Recorded, Before, Final
    <3> QED
      BY <3>3, <3>4
  <2> QED
    BY <1>2, <1>3, <2>2, <2>3 DEF RunInv
<1> QED
  BY <1>4, <1>5, <1>6, <1>7 DEF QueueStep, Shutdown

LEMMA RunInvStep == RunInv /\ [RunNext]_runVars => RunInv'
<1> SUFFICES ASSUME RunInv, [RunNext]_runVars PROVE RunInv'
  OBVIOUS
<1>1. CASE UNCHANGED runVars
  <2>1. UNCHANGED vars /\ UNCHANGED callerVars
    BY <1>1 DEF runVars
  <2>2. Inv'
    BY <2>1, StutterStep DEF RunInv, StepOK
  <2>3. UNCHANGED <<status, work_items, future, mgr, isRunning, executorUp, stopper>>
    BY <2>1 DEF vars, itemVars, trackVars, futureVars, mgrVars, lifeVars
  <2> QED
    BY <2>1, <2>2, <2>3
       DEF RunInv, callerVars, Running, Outcome, Handled, Recorded, Called, Active, Before, After
<1> QED
  BY <1>1, RunStartKeeps, RunAddKeeps, RunStopKeeps, PollingKeeps, QueueStepKeeps DEF RunNext, Caller

\* run_in_thread_pool, for any items and limits: when it returns, every item has completed and
\* its result is recorded unless it was evicted first; when it is done, returned or raised, no
\* item is pending or running and no call is left in the executor.
THEOREM RunOutcome == RunSpec => []OutcomeWhole
BY RunInvInit, RunInvStep, RunInvMeans, PTL DEF RunSpec
=============================================================================
