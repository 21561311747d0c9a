---------------------------- MODULE SequencesProofs ----------------------------
(***************************************************************************)
(* The batch strategies cut the items of a migration into batches that     *)
(* hold every item once, in order where the strategy keeps it, none larger *)
(* than its limit; and the queue of the asyncio workers keeps the negated  *)
(* priorities sorted, the lowest in front.                                 *)
(*                                                                         *)
(* The strategies are recursive functions over the items.  What such a     *)
(* function computes is proved on the numbers: the set of the numbers at   *)
(* which a fact holds contains 0 and the number after each of its own, so  *)
(* that there is no least number outside it.                               *)
(***************************************************************************)
EXTENDS MCStores, FiniteSetTheorems, SequenceTheorems, WellFoundedInduction, TLAPS

\* Induction on the numbers, for a set of them: the least one outside it is 0 or
\* comes after one inside.
LEMMA AllNumbers ==
    ASSUME NEW T \in SUBSET Nat, 0 \in T, \A n \in T : n + 1 \in T
    PROVE  T = Nat
<1> SUFFICES ASSUME Nat \ T # {} PROVE FALSE
  OBVIOUS
<1> DEFINE R == OpToRel(<, Nat)
<1>1. IsWellFoundedOn(R, Nat)
  BY NatLessThanWellFounded
<1>2. \A x, y \in Nat : x < y => <<x, y>> \in R
  BY DEF OpToRel
<1> HIDE DEF R
<1>3. PICK m \in Nat \ T : \A n \in Nat \ T : ~ (<<n, m>> \in R)
  BY <1>1, WFMin
<1>4. m # 0 /\ m - 1 \in Nat /\ m - 1 < m
  OBVIOUS
<1>5. m - 1 \in T
  BY <1>2, <1>3, <1>4
<1>6. m - 1 + 1 = m
  OBVIOUS
<1> QED
  BY <1>3, <1>5, <1>6


-----------------------------------------------------------------------------
(***************************************************************************)
(* Sequences that recursive functions build up.                            *)
(***************************************************************************)

\* What holds at 0, and at a number if at the one before, holds up to the last.
LEMMA UpToTheLast ==
    ASSUME NEW m \in Nat, NEW T, 0 \in T, \A n \in 1 .. m : n - 1 \in T => n \in T
    PROVE  \A n \in 0 .. m : n \in T
<1> DEFINE U == {n \in Nat : n \in 0 .. m => n \in T}
<1>1. 0 \in U
  OBVIOUS
<1>2. ASSUME NEW n \in U PROVE n + 1 \in U
  <2> SUFFICES ASSUME n + 1 \in 0 .. m PROVE n + 1 \in T
    OBVIOUS
  <2>1. n + 1 \in 1 .. m /\ (n + 1) - 1 = n /\ n \in 0 .. m
    OBVIOUS
  <2> QED BY <2>1
<1>3. U = Nat
  <2>1. U \in SUBSET Nat
    OBVIOUS
  <2> HIDE DEF U
  <2> QED BY <1>1, <1>2, <2>1, AllNumbers
<1> QED BY <1>3

\* A function by recursion, whose values are in a set.
Recursion(S, b, m, F) == b \in S /\ m \in Nat /\ F \in [(1 .. m) \X S -> S]
Recurs(S, b, m, F, g) ==
    g \in [0 .. m -> S] /\ g[0] = b /\ \A n \in 1 .. m : g[n] = F[<<n, g[n - 1]>>]

LEMMA Recursive ==
    ASSUME NEW S, NEW b, NEW m, NEW F, Recursion(S, b, m, F)
    PROVE  \E g : Recurs(S, b, m, F, g)
<1>0. b \in S /\ m \in Nat /\ F \in [(1 .. m) \X S -> S]
  BY DEF Recursion
<1> DEFINE Good(k, g) == g[0] = b /\ \A n \in 1 .. k : g[n] = F[<<n, g[n - 1]>>]
           T == {k \in 0 .. m : \E g \in [0 .. k -> S] : Good(k, g)}
<1>1. 0 \in T
  <2> DEFINE g == [n \in 0 .. 0 |-> b]
  <2>1. g \in [0 .. 0 -> S] /\ g[0] = b /\ 0 \in 0 .. m
    BY <1>0
  <2> HIDE DEF g
  <2>2. \A n \in 1 .. 0 : FALSE
    OBVIOUS
  <2>3. Good(0, g)
    BY <2>1, <2>2
  <2> QED BY <2>1, <2>3
<1>2. ASSUME NEW k \in 1 .. m, k - 1 \in T PROVE k \in T
  <2>1. PICK g \in [0 .. k - 1 -> S] : Good(k - 1, g)
    BY <1>2
  <2>2. k - 1 \in 0 .. k - 1 /\ 0 \in 0 .. k - 1 /\ <<k, g[k - 1]>> \in (1 .. m) \X S
    BY <1>0
  <2>3. g[k - 1] \in S /\ F[<<k, g[k - 1]>>] \in S
    BY <1>0, <2>2
  <2> DEFINE h == [n \in 0 .. k |-> IF n = k THEN F[<<k, g[k - 1]>>] ELSE g[n]]
  <2>4. \A n \in 0 .. k : n # k => n \in 0 .. k - 1
    OBVIOUS
  <2>5. h \in [0 .. k -> S]
    BY <2>3, <2>4
  <2>6. h[0] = b
    BY <2>1, <2>2
  <2>7. ASSUME NEW n \in 1 .. k PROVE h[n] = F[<<n, h[n - 1]>>]
    <3>1. n - 1 \in 0 .. k /\ n - 1 # k /\ n \in 0 .. k
      OBVIOUS
    <3>2. h[n - 1] = g[n - 1]
      BY <3>1
    <3>3. n # k => n \in 1 .. k - 1
      OBVIOUS
    <3>4. n # k => g[n] = F[<<n, g[n - 1]>>]
      BY <2>1, <3>3
    <3>5. h[n] = IF n = k THEN F[<<k, g[k - 1]>>] ELSE g[n]
      BY <3>1
    <3> HIDE DEF h
    <3> QED BY <3>2, <3>4, <3>5
  <2>8. \E f \in [0 .. k -> S] : Good(k, f)
    <3> HIDE DEF h
    <3> QED BY <2>5, <2>6, <2>7
  <2> QED BY <2>8
<1>3. m \in T
  <2> HIDE DEF T
  <2>1. \A n \in 0 .. m : n \in T
    BY <1>0, <1>1, <1>2, UpToTheLast
  <2> QED BY <1>0, <2>1
<1> QED BY <1>3 DEF Recurs

\* The steps of Picked.
IsPicked(list, places, g) ==
    g = [n \in 0 .. Len(list) |->
            IF n = 0 THEN <<>>
            ELSE IF n \in places THEN Append(g[n - 1], list[n]) ELSE g[n - 1]]

LEMMA PickedIs ==
    ASSUME NEW E, NEW list \in Seq(E), NEW places
    PROVE  \E g \in [0 .. Len(list) -> Seq(E)] :
             /\ Picked(list, places) = g[Len(list)] /\ g[0] = <<>>
             /\ \A n \in 1 .. Len(list) :
                  g[n] = IF n \in places THEN Append(g[n - 1], list[n]) ELSE g[n - 1]
<1> DEFINE m == Len(list)
           F == [x \in (1 .. m) \X Seq(E) |-> IF x[1] \in places THEN Append(x[2], list[x[1]]) ELSE x[2]]
<1>1. m \in Nat /\ \A n \in 1 .. m : list[n] \in E
  OBVIOUS
<1>2. F \in [(1 .. m) \X Seq(E) -> Seq(E)]
  <2>1. ASSUME NEW x \in (1 .. m) \X Seq(E)
        PROVE  (IF x[1] \in places THEN Append(x[2], list[x[1]]) ELSE x[2]) \in Seq(E)
    <3>1. x[1] \in 1 .. m /\ x[2] \in Seq(E) /\ list[x[1]] \in E
      BY <1>1
    <3> QED BY <3>1, AppendProperties
  <2> QED BY <2>1
<1>3. <<>> \in Seq(E)
  OBVIOUS
<1>4. PICK h \in [0 .. m -> Seq(E)] : h[0] = <<>> /\ \A n \in 1 .. m : h[n] = F[<<n, h[n - 1]>>]
  <2>1. Recursion(Seq(E), <<>>, m, F)
    BY <1>1, <1>2, <1>3 DEF Recursion
  <2> HIDE DEF F, m
  <2>2. PICK h : Recurs(Seq(E), <<>>, m, F, h)
    BY <2>1, Recursive
  <2> QED BY <2>2 DEF Recurs
<1>5. \A n \in 1 .. m : /\ n - 1 \in 0 .. m /\ n # 0
                        /\ h[n] = IF n \in places THEN Append(h[n - 1], list[n]) ELSE h[n - 1]
  <2> SUFFICES ASSUME NEW n \in 1 .. m
               PROVE  /\ n - 1 \in 0 .. m /\ n # 0
                      /\ h[n] = IF n \in places THEN Append(h[n - 1], list[n]) ELSE h[n - 1]
    OBVIOUS
  <2>1. n - 1 \in 0 .. m /\ n # 0
    BY <1>1
  <2>2. <<n, h[n - 1]>> \in (1 .. m) \X Seq(E)
    BY <2>1
  <2> QED BY <1>4, <2>1, <2>2
<1>6. IsPicked(list, places, h)
  <2>1. h = [n \in 0 .. m |-> h[n]]
    OBVIOUS
  <2>2. \A n \in 0 .. m : h[n] = IF n = 0 THEN <<>>
            ELSE IF n \in places THEN Append(h[n - 1], list[n]) ELSE h[n - 1]
    <3>1. \A n \in 0 .. m : n = 0 \/ n \in 1 .. m
      BY <1>1
    <3> HIDE DEF F, m
    <3> QED BY <1>4, <1>5, <3>1
  <2> HIDE DEF F
  <2> QED BY <2>1, <2>2 DEF IsPicked
<1> DEFINE g == CHOOSE f : IsPicked(list, places, f)
<1>7. IsPicked(list, places, g)
  BY <1>6
<1>8. Picked(list, places) = g[m]
  BY DEF Picked, IsPicked
<1> HIDE DEF g, F
<1>9. \A n \in 0 .. m : g[n] = IF n = 0 THEN <<>>
          ELSE IF n \in places THEN Append(g[n - 1], list[n]) ELSE g[n - 1]
  BY <1>7 DEF IsPicked
<1>10. DOMAIN g = 0 .. m /\ g = [n \in 0 .. m |-> g[n]]
  BY <1>7 DEF IsPicked
<1> DEFINE T == {n \in 0 .. m : g[n] = h[n]}
<1>11. 0 \in T
  BY <1>1, <1>4, <1>9
<1>12. ASSUME NEW n \in 1 .. m, n - 1 \in T PROVE n \in T
  <2>1. n \in 0 .. m /\ n # 0
    BY <1>1
  <2>2. g[n] = IF n \in places THEN Append(g[n - 1], list[n]) ELSE g[n - 1]
    BY <1>9, <2>1
  <2> QED BY <1>5, <1>12, <2>1, <2>2
<1>13. \A n \in 0 .. m : n \in T
  <2> HIDE DEF T, m
  <2> QED BY <1>1, <1>11, <1>12, UpToTheLast
<1>14. g = h
  BY <1>10, <1>13
<1> QED BY <1>4, <1>5, <1>8, <1>14

\* The steps of FlattenSeq.
IsFlattened(bs, g) == g = [i \in 1 .. Len(bs) |-> IF i = 1 THEN bs[i] ELSE g[i - 1] \o bs[i]]

LEMMA FlattenIs ==
    ASSUME NEW E, NEW bs \in Seq(Seq(E))
    PROVE  \E g \in [0 .. Len(bs) -> Seq(E)] :
             /\ FlattenSeq(bs) = g[Len(bs)] /\ g[0] = <<>>
             /\ \A n \in 1 .. Len(bs) : g[n] = g[n - 1] \o bs[n]
<1> DEFINE m == Len(bs)
           F == [x \in (1 .. m) \X Seq(E) |-> x[2] \o bs[x[1]]]
<1>1. m \in Nat /\ \A n \in 1 .. m : bs[n] \in Seq(E)
  OBVIOUS
<1>2. F \in [(1 .. m) \X Seq(E) -> Seq(E)]
  <2>1. ASSUME NEW x \in (1 .. m) \X Seq(E)
        PROVE  x[2] \o bs[x[1]] \in Seq(E)
    <3>1. x[1] \in 1 .. m /\ x[2] \in Seq(E) /\ bs[x[1]] \in Seq(E)
      BY <1>1
    <3> QED BY <3>1, ConcatProperties
  <2> QED BY <2>1
<1>3. <<>> \in Seq(E)
  OBVIOUS
<1>4. PICK h \in [0 .. m -> Seq(E)] : h[0] = <<>> /\ \A n \in 1 .. m : h[n] = F[<<n, h[n - 1]>>]
  <2>1. Recursion(Seq(E), <<>>, m, F)
    BY <1>1, <1>2, <1>3 DEF Recursion
  <2> HIDE DEF F, m
  <2>2. PICK h : Recurs(Seq(E), <<>>, m, F, h)
    BY <2>1, Recursive
  <2> QED BY <2>2 DEF Recurs
<1>5. \A n \in 1 .. m : n - 1 \in 0 .. m /\ n # 0 /\ h[n] = h[n - 1] \o bs[n]
  <2> SUFFICES ASSUME NEW n \in 1 .. m
               PROVE  n - 1 \in 0 .. m /\ n # 0 /\ h[n] = h[n - 1] \o bs[n]
    OBVIOUS
  <2>1. n - 1 \in 0 .. m /\ n # 0
    BY <1>1
  <2>2. <<n, h[n - 1]>> \in (1 .. m) \X Seq(E)
    BY <2>1
  <2> QED BY <1>4, <2>1, <2>2
<1>6. m # 0 => FlattenSeq(bs) = h[m]
  <2> SUFFICES ASSUME m # 0 PROVE FlattenSeq(bs) = h[m]
    OBVIOUS
  <2> DEFINE r == [n \in 1 .. m |-> h[n]]
  <2>1. \A n \in 1 .. m : r[n] = IF n = 1 THEN bs[n] ELSE r[n - 1] \o bs[n]
    <3> SUFFICES ASSUME NEW n \in 1 .. m PROVE r[n] = IF n = 1 THEN bs[n] ELSE r[n - 1] \o bs[n]
      OBVIOUS
    <3>1. r[n] = h[n - 1] \o bs[n]
      BY <1>5
    <3>2. CASE n = 1
      <4>1. h[n - 1] = <<>> /\ bs[n] \in Seq(E)
        BY <1>1, <1>4, <3>2
      <4> QED BY <3>1, <3>2, <4>1, ConcatEmptySeq
    <3>3. CASE n # 1
      <4>1. n - 1 \in 1 .. m
        BY <1>1, <3>3
      <4> QED BY <3>1, <3>3, <4>1
    <3> QED BY <3>2, <3>3
  <2>2. IsFlattened(bs, r)
    <3>1. r = [n \in 1 .. m |-> r[n]]
      OBVIOUS
    <3> HIDE DEF r
    <3> QED BY <2>1, <3>1 DEF IsFlattened
  <2> DEFINE g == CHOOSE f : IsFlattened(bs, f)
  <2>3. IsFlattened(bs, g)
    BY <2>2
  <2>4. FlattenSeq(bs) = g[m]
    BY DEF FlattenSeq, IsFlattened
  <2> HIDE DEF g, F
  <2>5. \A n \in 1 .. m : g[n] = IF n = 1 THEN bs[n] ELSE g[n - 1] \o bs[n]
    BY <2>3 DEF IsFlattened
  <2> DEFINE T == {n \in 0 .. m : n # 0 => g[n] = h[n]}
  <2>6. 0 \in T
    BY <1>1
  <2>7. ASSUME NEW n \in 1 .. m, n - 1 \in T PROVE n \in T
    <3>1. n \in 0 .. m /\ (n # 1 => g[n - 1] = h[n - 1])
      BY <1>1, <2>7
    <3>2. n = 1 => h[n - 1] \o bs[n] = bs[n]
      BY <1>1, <1>4, ConcatEmptySeq
    <3> QED BY <1>5, <2>5, <3>1, <3>2
  <2>8. \A n \in 0 .. m : n \in T
    <3> HIDE DEF T, m
    <3> QED BY <1>1, <2>6, <2>7, UpToTheLast
  <2>9. m \in T
    BY <1>1, <2>8
  <2> QED BY <2>4, <2>9
<1>7. m = 0 => FlattenSeq(bs) = <<>>
  BY DEF FlattenSeq
<1>8. FlattenSeq(bs) = h[m]
  BY <1>4, <1>6, <1>7
<1> QED BY <1>4, <1>5, <1>8

LEMMA FlattenEmpty == FlattenSeq(<<>>) = <<>>
BY DEF FlattenSeq

LEMMA FlattenType ==
    ASSUME NEW E, NEW bs \in Seq(Seq(E))
    PROVE  FlattenSeq(bs) \in Seq(E)
<1>1. PICK g \in [0 .. Len(bs) -> Seq(E)] : FlattenSeq(bs) = g[Len(bs)]
  BY FlattenIs
<1>2. Len(bs) \in 0 .. Len(bs)
  OBVIOUS
<1> QED BY <1>1, <1>2

\* Facts of the library, behind a name where the provers lose them among others.
Same(p, q, r) == (p \o q) \o r = p \o (q \o r)
LEMMA Associates ==
    ASSUME NEW E, NEW p, NEW q, NEW r, p \in Seq(E), q \in Seq(E), r \in Seq(E)
    PROVE  Same(p, q, r)
BY ConcatAssociative, SMTT(30) DEF Same

LEMMA FlattenConcat ==
    ASSUME NEW E, NEW bs \in Seq(Seq(E)), NEW cs \in Seq(Seq(E))
    PROVE  FlattenSeq(bs \o cs) = FlattenSeq(bs) \o FlattenSeq(cs)
<1> DEFINE ds == bs \o cs
<1>1. /\ ds \in Seq(Seq(E)) /\ Len(ds) = Len(bs) + Len(cs) /\ Len(bs) \in Nat /\ Len(cs) \in Nat
      /\ \A i \in 1 .. Len(bs) : ds[i] = bs[i]
      /\ \A i \in 1 .. Len(cs) : ds[Len(bs) + i] = cs[i]
  OBVIOUS
<1>2. \A i \in 1 .. Len(cs) : cs[i] \in Seq(E)
  OBVIOUS
<1>3. PICK f \in [0 .. Len(bs) -> Seq(E)] : FlattenSeq(bs) = f[Len(bs)] /\ f[0] = <<>>
                 /\ \A n \in 1 .. Len(bs) : f[n] = f[n - 1] \o bs[n]
  BY FlattenIs
<1>4. PICK g \in [0 .. Len(cs) -> Seq(E)] : FlattenSeq(cs) = g[Len(cs)] /\ g[0] = <<>>
                 /\ \A n \in 1 .. Len(cs) : g[n] = g[n - 1] \o cs[n]
  BY FlattenIs
<1>5. PICK h \in [0 .. Len(ds) -> Seq(E)] : FlattenSeq(ds) = h[Len(ds)] /\ h[0] = <<>>
                 /\ \A n \in 1 .. Len(ds) : h[n] = h[n - 1] \o ds[n]
  <2>1. ds \in Seq(Seq(E))
    BY <1>1
  <2> HIDE DEF ds
  <2> QED BY <2>1, FlattenIs
<1> HIDE DEF ds
<1> DEFINE T == {n \in 0 .. Len(bs) : h[n] = f[n]}
<1>6. \A n \in 0 .. Len(bs) : n \in T
  <2>1. 0 \in T
    BY <1>1, <1>3, <1>5
  <2>2. ASSUME NEW n \in 1 .. Len(bs), n - 1 \in T PROVE n \in T
    <3>1. n \in 0 .. Len(bs) /\ n \in 1 .. Len(ds)
      BY <1>1
    <3> QED BY <1>1, <1>3, <1>5, <2>2, <3>1
  <2> HIDE DEF T
  <2> QED BY <1>1, <2>1, <2>2, UpToTheLast
<1> DEFINE prefix == FlattenSeq(bs)
           U == {n \in 0 .. Len(cs) : h[Len(bs) + n] = prefix \o g[n]}
<1>7. prefix \in Seq(E)
  BY FlattenType
<1>8. h[Len(bs)] = prefix
  <2>1. Len(bs) \in 0 .. Len(bs)
    BY <1>1
  <2> QED BY <1>3, <1>6, <2>1
<1>9. \A n \in 0 .. Len(cs) : n \in U
  <2>1. 0 \in U
    <3>1. prefix \o <<>> = prefix
      BY <1>7, ConcatEmptySeq
    <3>2. Len(bs) + 0 = Len(bs) /\ 0 \in 0 .. Len(cs)
      BY <1>1
    <3> QED BY <1>4, <1>8, <3>1, <3>2
  <2>2. ASSUME NEW n \in 1 .. Len(cs), n - 1 \in U PROVE n \in U
    <3>1. n \in 0 .. Len(cs) /\ n - 1 \in 0 .. Len(cs) /\ Len(bs) + n \in 1 .. Len(ds)
          /\ Len(bs) + n - 1 = Len(bs) + (n - 1)
      BY <1>1
    <3>2. h[Len(bs) + n] = h[Len(bs) + (n - 1)] \o cs[n]
      <4> DEFINE k == Len(bs) + n
      <4>1. k \in 1 .. Len(ds) /\ k - 1 = Len(bs) + (n - 1) /\ ds[k] = cs[n]
        BY <1>1, <3>1
      <4> HIDE DEF k
      <4>2. h[k] = h[k - 1] \o ds[k]
        BY <1>5, <4>1
      <4> QED BY <4>1, <4>2 DEF k
    <3>3. h[Len(bs) + (n - 1)] = prefix \o g[n - 1]
      BY <2>2
    <3>4. g[n - 1] \in Seq(E) /\ cs[n] \in Seq(E)
      BY <1>2, <3>1
    <3>5. (prefix \o g[n - 1]) \o cs[n] = prefix \o (g[n - 1] \o cs[n])
      <4> DEFINE p == prefix
                 q == g[n - 1]
                 r == cs[n]
      <4>1. p \in Seq(E) /\ q \in Seq(E) /\ r \in Seq(E)
        BY <1>7, <3>4
      <4> HIDE DEF p, q, r
      <4>2. Same(p, q, r)
        BY <4>1, Associates
      <4> QED BY <4>2 DEF p, q, r, Same
    <3>6. g[n] = g[n - 1] \o cs[n]
      BY <1>4
    <3>7. h[Len(bs) + n] = prefix \o g[n]
      BY <3>2, <3>3, <3>5, <3>6
    <3> QED BY <3>1, <3>7
  <2> HIDE DEF U
  <2> QED BY <1>1, <2>1, <2>2, UpToTheLast
<1>10. Len(cs) \in U
  <2>1. Len(cs) \in 0 .. Len(cs)
    BY <1>1
  <2> HIDE DEF U
  <2> QED BY <1>9, <2>1
<1> QED BY <1>1, <1>4, <1>5, <1>10 DEF ds

LEMMA FlattenAppend ==
    ASSUME NEW E, NEW bs \in Seq(Seq(E)), NEW s \in Seq(E)
    PROVE  FlattenSeq(Append(bs, s)) = FlattenSeq(bs) \o s
<1> DEFINE one == <<s>>
<1>1. one \in Seq(Seq(E)) /\ Append(bs, s) = bs \o one /\ Len(one) = 1 /\ one[1] = s
  OBVIOUS
<1> HIDE DEF one
<1>2. PICK g \in [0 .. Len(one) -> Seq(E)] : FlattenSeq(one) = g[Len(one)] /\ g[0] = <<>>
                 /\ \A n \in 1 .. Len(one) : g[n] = g[n - 1] \o one[n]
  BY <1>1, FlattenIs
<1>3. g[1] = g[1 - 1] \o one[1]
  BY <1>1, <1>2
<1>4. g[1] = s
  <2>1. 1 - 1 = 0 /\ <<>> \o s = s
    BY ConcatEmptySeq
  <2> QED BY <1>1, <1>2, <1>3, <2>1
<1>5. FlattenSeq(one) = s
  BY <1>1, <1>2, <1>4
<1> QED BY <1>1, <1>5, FlattenConcat

\* The steps of SizeSum.
IsSizeSum(batch, g) ==
    g = [n \in 0 .. Len(batch) |-> IF n = 0 THEN 0 ELSE g[n - 1] + batch[n].size]

LEMMA SizeSumIs ==
    ASSUME NEW E, NEW batch \in Seq(E), \A e \in E : e.size \in Nat
    PROVE  \E g \in [0 .. Len(batch) -> Nat] :
             /\ SizeSum(batch) = g[Len(batch)] /\ g[0] = 0
             /\ \A n \in 1 .. Len(batch) : g[n] = g[n - 1] + batch[n].size
<1> DEFINE m == Len(batch)
           F == [x \in (1 .. m) \X Nat |-> x[2] + batch[x[1]].size]
<1>1. m \in Nat /\ \A n \in 1 .. m : batch[n].size \in Nat
  OBVIOUS
<1>2. F \in [(1 .. m) \X Nat -> Nat]
  BY <1>1
<1>3. PICK h \in [0 .. m -> Nat] : h[0] = 0 /\ \A n \in 1 .. m : h[n] = F[<<n, h[n - 1]>>]
  <2>1. Recursion(Nat, 0, m, F)
    BY <1>1, <1>2 DEF Recursion
  <2> HIDE DEF F, m
  <2>2. PICK h : Recurs(Nat, 0, m, F, h)
    BY <2>1, Recursive
  <2> QED BY <2>2 DEF Recurs
<1>4. \A n \in 1 .. m : n - 1 \in 0 .. m /\ n # 0 /\ h[n] = h[n - 1] + batch[n].size
  <2> SUFFICES ASSUME NEW n \in 1 .. m
               PROVE  n - 1 \in 0 .. m /\ n # 0 /\ h[n] = h[n - 1] + batch[n].size
    OBVIOUS
  <2>1. n - 1 \in 0 .. m /\ n # 0
    BY <1>1
  <2>2. <<n, h[n - 1]>> \in (1 .. m) \X Nat
    BY <2>1
  <2> QED BY <1>3, <2>1, <2>2
<1>5. IsSizeSum(batch, h)
  <2>1. h = [n \in 0 .. m |-> h[n]]
    OBVIOUS
  <2>2. \A n \in 0 .. m : h[n] = IF n = 0 THEN 0 ELSE h[n - 1] + batch[n].size
    <3>1. \A n \in 0 .. m : n = 0 \/ n \in 1 .. m
      BY <1>1
    <3> HIDE DEF F, m
    <3> QED BY <1>3, <1>4, <3>1
  <2> HIDE DEF F
  <2> QED BY <2>1, <2>2 DEF IsSizeSum
<1> DEFINE g == CHOOSE f : IsSizeSum(batch, f)
<1>6. IsSizeSum(batch, g)
  BY <1>5
<1>7. SizeSum(batch) = g[m]
  BY DEF SizeSum, IsSizeSum
<1> HIDE DEF g, F
<1>8. \A n \in 0 .. m : g[n] = IF n = 0 THEN 0 ELSE g[n - 1] + batch[n].size
  BY <1>6 DEF IsSizeSum
<1> DEFINE T == {n \in 0 .. m : g[n] = h[n]}
<1>9. 0 \in T
  BY <1>1, <1>3, <1>8
<1>10. ASSUME NEW n \in 1 .. m, n - 1 \in T PROVE n \in T
  <2>1. n \in 0 .. m /\ n # 0
    BY <1>1
  <2> QED BY <1>4, <1>8, <1>10, <2>1
<1>11. \A n \in 0 .. m : n \in T
  <2> HIDE DEF T, m
  <2> QED BY <1>1, <1>9, <1>10, UpToTheLast
<1>12. SizeSum(batch) = h[m]
  <2>1. m \in 0 .. m
    BY <1>1
  <2> QED BY <1>7, <1>11, <2>1
<1> QED BY <1>3, <1>4, <1>12

LEMMA SizeSumEmpty == SizeSum(<<>>) = 0
<1> DEFINE none == <<>>
           E == {}
<1>1. none \in Seq(E) /\ Len(none) = 0 /\ \A e \in E : e.size \in Nat
  OBVIOUS
<1> HIDE DEF none, E
<1>2. PICK g \in [0 .. Len(none) -> Nat] : SizeSum(none) = g[Len(none)] /\ g[0] = 0
  BY <1>1, SizeSumIs
<1> QED BY <1>1, <1>2 DEF none

LEMMA SizeSumAppend ==
    ASSUME NEW E, NEW batch \in Seq(E), \A e \in E : e.size \in Nat, NEW e \in E
    PROVE  SizeSum(Append(batch, e)) = SizeSum(batch) + e.size /\ SizeSum(batch) \in Nat
<1> DEFINE more == Append(batch, e)
<1>1. /\ more \in Seq(E) /\ Len(more) = Len(batch) + 1 /\ Len(batch) \in Nat
      /\ more[Len(batch) + 1] = e /\ \A i \in 1 .. Len(batch) : more[i] = batch[i]
  OBVIOUS
<1>2. PICK g \in [0 .. Len(batch) -> Nat] : SizeSum(batch) = g[Len(batch)] /\ g[0] = 0
             /\ \A n \in 1 .. Len(batch) : g[n] = g[n - 1] + batch[n].size
  BY SizeSumIs
<1>3. PICK h \in [0 .. Len(more) -> Nat] : SizeSum(more) = h[Len(more)] /\ h[0] = 0
             /\ \A n \in 1 .. Len(more) : h[n] = h[n - 1] + more[n].size
  <2> HIDE DEF more
  <2> QED BY <1>1, SizeSumIs
<1> HIDE DEF more
<1> DEFINE T == {n \in 0 .. Len(batch) : h[n] = g[n]}
<1>4. 0 \in T
  BY <1>1, <1>2, <1>3
<1>5. ASSUME NEW n \in 1 .. Len(batch), n - 1 \in T PROVE n \in T
  <2>1. n \in 0 .. Len(batch) /\ n \in 1 .. Len(more)
    BY <1>1
  <2> QED BY <1>1, <1>2, <1>3, <1>5, <2>1
<1>6. \A n \in 0 .. Len(batch) : n \in T
  <2> HIDE DEF T
  <2> QED BY <1>1, <1>4, <1>5, UpToTheLast
<1>7. Len(batch) \in 0 .. Len(batch) /\ Len(more) \in 1 .. Len(more) /\ Len(more) - 1 = Len(batch)
  BY <1>1
<1>8. h[Len(more)] = h[Len(batch)] + e.size
  BY <1>1, <1>3, <1>7
<1>9. SizeSum(batch) \in Nat
  BY <1>2, <1>7
<1> QED BY <1>2, <1>3, <1>6, <1>7, <1>8, <1>9 DEF more

-----------------------------------------------------------------------------
(***************************************************************************)
(* Sequences that hold each element once.                                  *)
(***************************************************************************)

Distinct(s) == \A i, j \in 1 .. Len(s) : i # j => s[i] # s[j]

LEMMA Elements ==
    ASSUME NEW E, NEW s \in Seq(E)
    PROVE  /\ ToSet(s) = {s[i] : i \in 1 .. Len(s)} /\ ToSet(s) \subseteq E
           /\ Len(s) \in Nat /\ \A i \in 1 .. Len(s) : s[i] \in E /\ s[i] \in ToSet(s)
           /\ \A e \in ToSet(s) : \E i \in 1 .. Len(s) : e = s[i]
BY DEF ToSet

LEMMA ConcatElements ==
    ASSUME NEW E, NEW s \in Seq(E), NEW t \in Seq(E)
    PROVE  ToSet(s \o t) = ToSet(s) \cup ToSet(t)
<1>1. /\ s \o t \in Seq(E) /\ Len(s \o t) = Len(s) + Len(t) /\ Len(s) \in Nat /\ Len(t) \in Nat
      /\ \A i \in 1 .. Len(s) + Len(t) : (s \o t)[i] = IF i <= Len(s) THEN s[i] ELSE t[i - Len(s)]
  BY ConcatProperties, LenProperties
<1>2. ToSet(s \o t) = {(s \o t)[i] : i \in 1 .. Len(s) + Len(t)}
  BY <1>1, Elements
<1>3. \A i \in 1 .. Len(s) : i \in 1 .. Len(s) + Len(t) /\ (s \o t)[i] = s[i]
  BY <1>1
<1>4. \A i \in 1 .. Len(t) : i + Len(s) \in 1 .. Len(s) + Len(t) /\ (s \o t)[i + Len(s)] = t[i]
  BY <1>1
<1>5. \A i \in 1 .. Len(s) + Len(t) : i \in 1 .. Len(s) \/ i - Len(s) \in 1 .. Len(t)
  BY <1>1
<1>6. ASSUME NEW e \in ToSet(s \o t) PROVE e \in ToSet(s) \cup ToSet(t)
  <2>1. PICK i \in 1 .. Len(s) + Len(t) : e = (s \o t)[i]
    BY <1>2
  <2>2. CASE i <= Len(s)
    <3>1. i \in 1 .. Len(s) /\ e = s[i]
      BY <1>1, <2>1, <2>2
    <3> QED BY <3>1, Elements
  <2>3. CASE ~ (i <= Len(s))
    <3>1. i - Len(s) \in 1 .. Len(t) /\ e = t[i - Len(s)]
      BY <1>1, <2>1, <2>3
    <3> QED BY <3>1, Elements
  <2> QED BY <2>2, <2>3
<1>7. ASSUME NEW e \in ToSet(s) PROVE e \in ToSet(s \o t)
  <2>1. PICK i \in 1 .. Len(s) : e = s[i]
    BY Elements
  <2> QED BY <1>2, <1>3, <2>1
<1>8. ASSUME NEW e \in ToSet(t) PROVE e \in ToSet(s \o t)
  <2>1. PICK i \in 1 .. Len(t) : e = t[i]
    BY Elements
  <2> QED BY <1>2, <1>4, <2>1
<1> QED BY <1>6, <1>7, <1>8

LEMMA ConcatDistinct ==
    ASSUME NEW E, NEW s \in Seq(E), NEW t \in Seq(E)
    PROVE  Distinct(s \o t) <=> Distinct(s) /\ Distinct(t) /\ ToSet(s) \cap ToSet(t) = {}
<1>1. /\ s \o t \in Seq(E) /\ Len(s \o t) = Len(s) + Len(t) /\ Len(s) \in Nat /\ Len(t) \in Nat
      /\ \A i \in 1 .. Len(s) + Len(t) : (s \o t)[i] = IF i <= Len(s) THEN s[i] ELSE t[i - Len(s)]
  BY ConcatProperties, LenProperties
<1>2. \A i \in 1 .. Len(s) : i \in 1 .. Len(s \o t) /\ (s \o t)[i] = s[i]
  BY <1>1
<1>3. \A i \in 1 .. Len(t) : i + Len(s) \in 1 .. Len(s \o t) /\ (s \o t)[i + Len(s)] = t[i]
  BY <1>1
<1>4. ASSUME Distinct(s \o t) PROVE Distinct(s)
  BY <1>2, <1>4 DEF Distinct
<1>5. ASSUME Distinct(s \o t) PROVE Distinct(t)
  <2> SUFFICES ASSUME NEW i \in 1 .. Len(t), NEW j \in 1 .. Len(t), i # j PROVE t[i] # t[j]
    BY DEF Distinct
  <2>1. i + Len(s) # j + Len(s)
    BY <1>1
  <2> QED BY <1>3, <1>5, <2>1 DEF Distinct
<1>6. ASSUME Distinct(s \o t) PROVE ToSet(s) \cap ToSet(t) = {}
  <2> SUFFICES ASSUME NEW e, e \in ToSet(s), e \in ToSet(t) PROVE FALSE
    OBVIOUS
  <2>1. PICK i \in 1 .. Len(s) : e = s[i]
    BY Elements
  <2>2. PICK j \in 1 .. Len(t) : e = t[j]
    BY Elements
  <2>3. i # j + Len(s)
    BY <1>1
  <2> QED BY <1>2, <1>3, <1>6, <2>1, <2>2, <2>3 DEF Distinct
<1>7. ASSUME Distinct(s), Distinct(t), ToSet(s) \cap ToSet(t) = {} PROVE Distinct(s \o t)
  <2> SUFFICES ASSUME NEW i \in 1 .. Len(s \o t), NEW j \in 1 .. Len(s \o t), i # j
               PROVE  (s \o t)[i] # (s \o t)[j]
    BY DEF Distinct
  <2>1. \A k \in 1 .. Len(s \o t) : \/ k \in 1 .. Len(s) /\ (s \o t)[k] = s[k]
                                    \/ k - Len(s) \in 1 .. Len(t) /\ (s \o t)[k] = t[k - Len(s)]
    BY <1>1
  <2>2. \A k \in 1 .. Len(s) : s[k] \in ToSet(s)
    BY Elements
  <2>3. \A k \in 1 .. Len(t) : t[k] \in ToSet(t)
    BY Elements
  <2>4. i - Len(s) # j - Len(s)
    BY <1>1
  <2> QED BY <1>7, <2>1, <2>2, <2>3, <2>4 DEF Distinct
<1> QED BY <1>4, <1>5, <1>6, <1>7

LEMMA OneElement ==
    ASSUME NEW E, NEW e \in E
    PROVE  <<e>> \in Seq(E) /\ ToSet(<<e>>) = {e} /\ Distinct(<<e>>)
<1> DEFINE one == <<e>>
<1>1. one \in Seq(E) /\ Len(one) = 1 /\ one[1] = e
  OBVIOUS
<1> HIDE DEF one
<1>2. ToSet(one) = {one[i] : i \in 1 .. Len(one)}
  BY <1>1, Elements
<1>3. \A i \in 1 .. Len(one) : i = 1
  BY <1>1
<1>4. ToSet(one) = {e} /\ Distinct(one)
  BY <1>1, <1>2, <1>3 DEF Distinct
<1> QED BY <1>1, <1>4 DEF one

LEMMA AppendIs ==
    ASSUME NEW E, NEW s \in Seq(E), NEW e \in E
    PROVE  /\ Append(s, e) \in Seq(E) /\ Append(s, e) # <<>> /\ Append(s, e) = s \o <<e>>
           /\ Len(Append(s, e)) = Len(s) + 1 /\ Append(s, e)[Len(s) + 1] = e
           /\ Append(s, e)[Len(Append(s, e))] = e
           /\ \A i \in 1 .. Len(s) : Append(s, e)[i] = s[i]
<1>1. /\ Append(s, e) \in Seq(E) /\ Len(Append(s, e)) = Len(s) + 1 /\ Len(s) \in Nat
      /\ Append(s, e)[Len(s) + 1] = e
      /\ \A i \in 1 .. Len(s) : Append(s, e)[i] = s[i]
  BY AppendProperties, LenProperties
<1>2. Append(s, e) # <<>>
  BY <1>1
<1>3. Append(s, e) = s \o <<e>>
  BY AppendIsConcat
<1> QED BY <1>1, <1>2, <1>3

OneMore(S, bs, b, cs) ==
    /\ cs \in Seq(S) /\ cs # <<>>
    /\ Len(cs) = Len(bs) + 1 /\ cs[Len(bs) + 1] = b /\ cs[Len(cs)] = b
    /\ \A i \in 1 .. Len(bs) : cs[i] = bs[i]
LEMMA AppendBatch ==
    ASSUME NEW S, NEW bs, NEW b, bs \in Seq(S), b \in S
    PROVE  OneMore(S, bs, b, Append(bs, b))
BY AppendIs DEF OneMore

\* A sequence without repetitions is as long as its elements are many.
LEMMA DistinctLength ==
    ASSUME NEW E, NEW s \in Seq(E), Distinct(s)
    PROVE  Cardinality(ToSet(s)) = Len(s)
<1>1. Len(s) \in Nat /\ s \in [1 .. Len(s) -> E]
  BY LenProperties
<1> DEFINE f == [i \in 1 .. Len(s) |-> s[i]]
<1>2. f \in Bijection(1 .. Len(s), ToSet(s))
  <2>1. f \in [1 .. Len(s) -> ToSet(s)]
    BY Elements
  <2>2. \A i, j \in 1 .. Len(s) : f[i] = f[j] => i = j
    BY DEF Distinct
  <2>3. \A e \in ToSet(s) : \E i \in 1 .. Len(s) : f[i] = e
    BY Elements
  <2> HIDE DEF f
  <2>4. DOMAIN f = 1 .. Len(s)
    BY <2>1
  <2> QED BY <2>1, <2>2, <2>3, <2>4 DEF Bijection, Injection, IsInjective, Surjection
<1>3. ExistsBijection(1 .. Len(s), ToSet(s))
  BY <1>2 DEF ExistsBijection
<1> QED BY <1>1, <1>3, FS_CountingElements

\* What Picked picks.
LEMMA PickedHolds ==
    ASSUME NEW E, NEW list \in Seq(E), NEW places \in SUBSET (1 .. Len(list))
    PROVE  /\ Picked(list, places) \in Seq(E)
           /\ ToSet(Picked(list, places)) = {list[n] : n \in places}
           /\ Distinct(list) => Distinct(Picked(list, places))
<1>1. Len(list) \in Nat /\ \A n \in 1 .. Len(list) : list[n] \in E
  BY LenProperties
<1>2. PICK g \in [0 .. Len(list) -> Seq(E)] :
             /\ Picked(list, places) = g[Len(list)] /\ g[0] = <<>>
             /\ \A n \in 1 .. Len(list) :
                  g[n] = IF n \in places THEN Append(g[n - 1], list[n]) ELSE g[n - 1]
  BY PickedIs, ZenonT(30)
<1> DEFINE m == Len(list)
           Until(n) == {list[i] : i \in places \cap (1 .. n)}
<1>3. \A n \in 0 .. m : g[n] \in Seq(E)
  OBVIOUS
<1> DEFINE T == {n \in 0 .. m : ToSet(g[n]) = Until(n) /\ (Distinct(list) => Distinct(g[n]))}
<1>4. 0 \in T
  <2>1. ToSet(<<>>) = {} /\ Distinct(<<>>)
    BY DEF ToSet, Distinct
  <2>2. Until(0) = {} /\ 0 \in 0 .. m
    BY <1>1
  <2> QED BY <1>2, <2>1, <2>2
<1>5. ASSUME NEW n \in 1 .. m, n - 1 \in T PROVE n \in T
  <2>1. n - 1 \in 0 .. m /\ n \in 0 .. m /\ g[n - 1] \in Seq(E) /\ list[n] \in E
    BY <1>1, <1>3
  <2>2. CASE n \notin places
    <3>1. places \cap (1 .. n) = places \cap (1 .. n - 1)
      <4>1. \A i \in places : i \in 1 .. n <=> i \in 1 .. n - 1
        <5>1. \A i \in places : i # n /\ i \in Nat
          BY <2>2
        <5> QED BY <5>1
      <4> QED BY <4>1
    <3>2. g[n] = g[n - 1]
      BY <1>2, <2>2
    <3> QED BY <1>5, <2>1, <3>1, <3>2
  <2>3. CASE n \in places
    <3> DEFINE one == <<list[n]>>
    <3>2. one \in Seq(E) /\ ToSet(one) = {list[n]} /\ Distinct(one)
      BY <2>1, OneElement
    <3>1. g[n] = g[n - 1] \o one
      <4>1. g[n] = Append(g[n - 1], list[n])
        BY <1>2, <2>3
      <4>2. Append(g[n - 1], list[n]) = g[n - 1] \o one
        BY <2>1, AppendIsConcat
      <4> QED BY <4>1, <4>2
    <3> HIDE DEF one
    <3>3. ToSet(g[n]) = ToSet(g[n - 1]) \cup {list[n]}
      BY <2>1, <3>1, <3>2, ConcatElements
    <3>4. Until(n) = Until(n - 1) \cup {list[n]}
      <4>1. \A i \in places : i \in 1 .. n <=> i \in 1 .. n - 1 \/ i = n
        BY <2>3
      <4> QED BY <2>3, <4>1
    <3>5. ASSUME Distinct(list) PROVE Distinct(g[n])
      <4>1. list[n] \notin Until(n - 1)
        <5>1. \A i \in places \cap (1 .. n - 1) : i # n /\ i \in 1 .. m
          BY <1>1
        <5> QED BY <3>5, <5>1 DEF Distinct
      <4>2. ToSet(g[n - 1]) \cap ToSet(one) = {} /\ Distinct(g[n - 1])
        BY <1>5, <3>2, <3>5, <4>1
      <4> QED BY <2>1, <3>1, <3>2, <4>2, ConcatDistinct
    <3> QED BY <1>5, <2>1, <3>3, <3>4, <3>5
  <2> QED BY <2>2, <2>3
<1>6. \A n \in 0 .. m : n \in T
  <2>1. m \in Nat
    BY <1>1
  <2> HIDE DEF T, m
  <2> QED BY <2>1, <1>4, <1>5, UpToTheLast
<1>7. m \in T
  <2>1. m \in 0 .. m
    BY <1>1
  <2> HIDE DEF T
  <2> QED BY <1>6, <2>1
<1>8. places \cap (1 .. m) = places
  OBVIOUS
<1> QED BY <1>1, <1>2, <1>3, <1>7, <1>8

\* Slices.
LEMMA Multiples ==
    ASSUME NEW n \in Nat, n > 0, NEW k \in Nat, k > 0
    PROVE  (k - 1) * n \in Nat /\ k * n = (k - 1) * n + n
BY SMT

LEMMA Quotient ==
    ASSUME NEW n \in Nat, n > 0, NEW a \in Nat
    PROVE  a \div n \in Nat /\ (a \div n) * n <= a /\ a < (a \div n) * n + n
BY SMTT(30)

LEMMA SlicesAre ==
    ASSUME NEW E, NEW list \in Seq(E), NEW n \in Nat, n > 0
    PROVE  /\ SlicesOf(list, n) \in Seq(Seq(E))
           /\ \A k \in 1 .. Len(SlicesOf(list, n)) :
                /\ Len(SlicesOf(list, n)[k]) \in 1 .. n
                /\ k < Len(SlicesOf(list, n)) => Len(SlicesOf(list, n)[k]) = n
           /\ FlattenSeq(SlicesOf(list, n)) = list
<1> DEFINE L == Len(list)
           K == (L + n - 1) \div n
           ends(k) == IF k * n < L THEN k * n ELSE L
           bs == SlicesOf(list, n)
<1>1. L \in Nat /\ L + n - 1 \in Nat /\ \A i \in 1 .. L : list[i] \in E
  BY LenProperties
<1>2. K \in Nat /\ K * n <= L + n - 1 /\ L + n - 1 < K * n + n
  <2> DEFINE a == L + n - 1
  <2>1. a \in Nat
    BY <1>1
  <2> HIDE DEF a
  <2>2. a \div n \in Nat /\ (a \div n) * n <= a /\ a < (a \div n) * n + n
    BY <2>1, Quotient
  <2> QED BY <2>2 DEF a
<1>3. bs = [k \in 1 .. K |-> SubSeq(list, (k - 1) * n + 1, ends(k))]
  BY DEF SlicesOf
<1> HIDE DEF K
<1>4. ASSUME NEW k \in 1 .. K
      PROVE  /\ (k - 1) * n \in Nat /\ k * n = (k - 1) * n + n /\ (k - 1) * n < L
             /\ k < K => k * n < L
             /\ k = K => k * n >= L
  <2>1. (k - 1) * n \in Nat /\ k * n = (k - 1) * n + n /\ K * n \in Nat
    BY <1>2, Multiples
  <2>2. k * n <= K * n
    BY <1>2, SMTT(30)
  <2>3. k < K => k * n + n <= K * n
    <3> SUFFICES ASSUME k < K PROVE k * n + n <= K * n
      OBVIOUS
    <3>1. k + 1 \in Nat /\ k + 1 > 0 /\ (k + 1) - 1 = k
      BY <1>2
    <3>2. (k + 1) * n = k * n + n
      BY <3>1, Multiples
    <3>3. (k + 1) * n <= K * n
      BY <1>2, SMTT(30)
    <3> QED BY <3>2, <3>3
  <2> QED BY <1>1, <1>2, <2>1, <2>2, <2>3
<1>5. ASSUME NEW k \in 1 .. K
      PROVE  /\ ends(k) \in (k - 1) * n + 1 .. L
             /\ SubSeq(list, (k - 1) * n + 1, ends(k)) \in Seq(E)
             /\ Len(SubSeq(list, (k - 1) * n + 1, ends(k))) = ends(k) - (k - 1) * n
             /\ ends(k) - (k - 1) * n \in 1 .. n
             /\ k < K => ends(k) - (k - 1) * n = n /\ ends(k) = k * n
             /\ k = K => ends(k) = L
  <2> DEFINE a == (k - 1) * n
             b == ends(k)
  <2>1. a \in Nat /\ a < L /\ k * n = a + n /\ (k < K => k * n < L) /\ (k = K => k * n >= L)
    BY <1>4
  <2>2. b = IF a + n < L THEN a + n ELSE L
    BY <2>1
  <2> HIDE DEF a, b, ends
  <2>3. b \in a + 1 .. L /\ b - a \in 1 .. n /\ b \in Int /\ a + 1 \in Int
    BY <1>1, <2>1, <2>2
  <2>4. \A i \in a + 1 .. b : list[i] \in E
    BY <1>1, <2>1, <2>3
  <2>5. SubSeq(list, a + 1, b) \in Seq(E) /\ Len(SubSeq(list, a + 1, b)) = b - a
    BY <2>1, <2>3, <2>4, SubSeqProperties
  <2>6. (k < K => b - a = n /\ b = k * n) /\ (k = K => b = L)
    BY <1>1, <2>1, <2>2
  <2> QED BY <2>3, <2>5, <2>6 DEF a, b
<1>6. bs \in Seq(Seq(E)) /\ Len(bs) = K
  BY <1>2, <1>3, <1>5
<1>7. \A k \in 1 .. K : bs[k] = SubSeq(list, (k - 1) * n + 1, ends(k))
  BY <1>3
<1>8. PICK g \in [0 .. Len(bs) -> Seq(E)] :
             /\ FlattenSeq(bs) = g[Len(bs)] /\ g[0] = <<>>
             /\ \A k \in 1 .. Len(bs) : g[k] = g[k - 1] \o bs[k]
  <2> HIDE DEF bs
  <2> QED BY <1>6, FlattenIs
<1> HIDE DEF bs
<1> DEFINE upTo(k) == IF k = 0 THEN 0 ELSE ends(k)
           T == {k \in 0 .. K : g[k] = SubSeq(list, 1, upTo(k))}
<1>9. 0 \in T
  <2>1. SubSeq(list, 1, 0) = <<>> /\ 0 \in 0 .. K
    BY <1>2, SubSeqEmpty
  <2> QED BY <1>8, <2>1
<1>10. ASSUME NEW k \in 1 .. K, k - 1 \in T PROVE k \in T
  <2> DEFINE a == (k - 1) * n
             b == ends(k)
  <2>1. a \in Nat /\ b \in a + 1 .. L /\ bs[k] = SubSeq(list, a + 1, b)
    BY <1>4, <1>5, <1>7
  <2>2. upTo(k - 1) = a
    <3>1. CASE k = 1
      BY <3>1
    <3>2. CASE k # 1
      <4>1. k - 1 \in 1 .. K /\ k - 1 < K /\ k - 1 # 0
        BY <1>2, <3>2
      <4>2. ends(k - 1) = (k - 1) * n
        BY <1>5, <4>1
      <4> QED BY <4>1, <4>2
    <3> QED BY <3>1, <3>2
  <2>3. upTo(k) = b
    BY <1>2
  <2>4. g[k] = SubSeq(list, 1, a) \o SubSeq(list, a + 1, b)
    BY <1>6, <1>8, <1>10, <2>1, <2>2
  <2> HIDE DEF a, b, upTo, ends
  <2>5. SubSeq(list, 1, a) \o SubSeq(list, a + 1, b) = SubSeq(list, 1, b)
    <3>1. 1 \in 1 .. Len(list) + 1 /\ a \in 1 - 1 .. Len(list) /\ b \in a .. Len(list)
      BY <1>1, <2>1
    <3> QED BY <3>1, ConcatAdjacentSubSeq
  <2>6. g[k] = SubSeq(list, 1, upTo(k))
    BY <2>3, <2>4, <2>5
  <2> QED BY <1>2, <2>6
<1>11. \A k \in 0 .. K : k \in T
  <2> HIDE DEF T
  <2> QED BY <1>2, <1>9, <1>10, UpToTheLast
<1>12. FlattenSeq(bs) = list
  <2>1. K \in 0 .. K
    BY <1>2
  <2>2. g[K] = SubSeq(list, 1, upTo(K))
    BY <1>11, <2>1
  <2>3. CASE K = 0
    <3>1. L = 0
      BY <1>1, <1>2, <2>3
    <3>2. list = <<>>
      BY <3>1
    <3> QED BY <1>6, <1>8, <2>3, <3>2
  <2>4. CASE K # 0
    <3>1. upTo(K) = L
      <4>1. K \in 1 .. K
        BY <1>2, <2>4
      <4> QED BY <1>5, <2>4, <4>1
    <3>2. SubSeq(list, 1, L) = list
      BY SubSeqFull
    <3> QED BY <1>6, <1>8, <2>2, <3>1, <3>2
  <2> QED BY <2>3, <2>4
<1>13. \A k \in 1 .. Len(bs) : Len(bs[k]) \in 1 .. n /\ (k < Len(bs) => Len(bs[k]) = n)
  <2> SUFFICES ASSUME NEW k \in 1 .. K PROVE Len(bs[k]) \in 1 .. n /\ (k < K => Len(bs[k]) = n)
    BY <1>6
  <2>1. Len(bs[k]) = ends(k) - (k - 1) * n
    BY <1>5, <1>7
  <2> QED BY <1>5, <2>1
<1> QED BY <1>6, <1>12, <1>13 DEF bs

-----------------------------------------------------------------------------
(***************************************************************************)
(* Batches by size.                                                        *)
(***************************************************************************)

\* What SizesTight says of a sequence of batches.
TightSizes(bs) ==
    /\ \A n \in 1 .. Len(bs) : bs[n] # <<>> /\ (SizeSum(bs[n]) <= MaxSize \/ Len(bs[n]) = 1)
    /\ \A n \in 1 .. Len(bs) - 1 : SizeSum(bs[n]) + Head(bs[n + 1]).size > MaxSize

\* The batches closed and the one that is filled.
SizeFine(acc) ==
    /\ TightSizes(acc.batches)
    /\ SizeSum(acc.current) <= MaxSize
    /\ acc.batches # <<>> =>
         SizeSum(acc.batches[Len(acc.batches)])
            + (IF acc.current = <<>> THEN 0 ELSE Head(acc.current).size) > MaxSize

Filling(E) == [batches : Seq(Seq(E)), current : Seq(E)]
Sized(E) == \A e \in E : e.size \in Nat

LEMMA TightAppend ==
    ASSUME NEW E, NEW bs \in Seq(Seq(E)), TightSizes(bs), NEW b \in Seq(E), b # <<>>,
           SizeSum(b) <= MaxSize \/ Len(b) = 1,
           bs # <<>> => SizeSum(bs[Len(bs)]) + Head(b).size > MaxSize
    PROVE  TightSizes(Append(bs, b))
<1> DEFINE cs == Append(bs, b)
<1>1. /\ Len(cs) = Len(bs) + 1 /\ Len(bs) \in Nat /\ cs[Len(bs) + 1] = b
      /\ \A n \in 1 .. Len(bs) : cs[n] = bs[n]
  OBVIOUS
<1> HIDE DEF cs
<1>2. ASSUME NEW n \in 1 .. Len(cs) PROVE cs[n] # <<>> /\ (SizeSum(cs[n]) <= MaxSize \/ Len(cs[n]) = 1)
  <2>1. n \in 1 .. Len(bs) \/ n = Len(bs) + 1
    BY <1>1
  <2> QED BY <1>1, <2>1 DEF TightSizes
<1>3. ASSUME NEW n \in 1 .. Len(cs) - 1 PROVE SizeSum(cs[n]) + Head(cs[n + 1]).size > MaxSize
  <2>1. CASE n = Len(bs)
    <3>1. bs # <<>> /\ n \in 1 .. Len(bs)
      BY <1>1, <2>1
    <3>2. cs[n] = bs[Len(bs)] /\ cs[n + 1] = b
      BY <1>1, <2>1, <3>1
    <3> QED BY <3>1, <3>2
  <2>2. CASE n # Len(bs)
    <3>1. n \in 1 .. Len(bs) - 1 /\ n \in 1 .. Len(bs) /\ n + 1 \in 1 .. Len(bs)
      BY <1>1, <2>2
    <3>2. cs[n] = bs[n] /\ cs[n + 1] = bs[n + 1]
      BY <1>1, <3>1
    <3> QED BY <3>1, <3>2 DEF TightSizes
  <2> QED BY <2>1, <2>2
<1>4. TightSizes(cs)
  BY <1>2, <1>3 DEF TightSizes
<1> QED BY <1>4 DEF cs

LEMMA SumNat ==
    ASSUME NEW E, Sized(E), NEW s \in Seq(E)
    PROVE  SizeSum(s) \in Nat
<1>1. PICK g \in [0 .. Len(s) -> Nat] : SizeSum(s) = g[Len(s)]
  BY SizeSumIs DEF Sized
<1>2. Len(s) \in 0 .. Len(s)
  OBVIOUS
<1> QED BY <1>1, <1>2

LEMMA SumOne ==
    ASSUME NEW E, Sized(E), NEW e \in E
    PROVE  SizeSum(<<e>>) = e.size
<1>1. <<>> \in Seq(E) /\ Append(<<>>, e) = <<e>>
  OBVIOUS
<1>2. SizeSum(Append(<<>>, e)) = SizeSum(<<>>) + e.size
  BY <1>1, SizeSumAppend DEF Sized
<1> QED BY <1>1, <1>2, SizeSumEmpty DEF Sized

LEMMA CloseKeeps ==
    ASSUME NEW E, Sized(E), NEW acc \in Filling(E), SizeFine(acc)
    PROVE  /\ Close(acc) \in Filling(E) /\ Close(acc).current = <<>>
           /\ TightSizes(Close(acc).batches)
           /\ FlattenSeq(Close(acc).batches) = FlattenSeq(acc.batches) \o acc.current
           /\ acc.current = <<>> => Close(acc) = acc
           /\ acc.current # <<>> =>
                /\ Close(acc).batches # <<>>
                /\ Close(acc).batches[Len(Close(acc).batches)] = acc.current
<1>1. acc.batches \in Seq(Seq(E)) /\ acc.current \in Seq(E) /\ acc = [batches |-> acc.batches, current |-> acc.current]
  BY DEF Filling
<1>2. CASE acc.current = <<>>
  <2>1. Close(acc) = acc
    BY <1>2 DEF Close
  <2>2. FlattenSeq(acc.batches) \o <<>> = FlattenSeq(acc.batches)
    BY <1>1, FlattenType, ConcatEmptySeq
  <2> QED BY <1>2, <2>1, <2>2 DEF SizeFine
<1>3. CASE acc.current # <<>>
  <2> DEFINE bs == Append(acc.batches, acc.current)
  <2>1. Close(acc) = [batches |-> bs, current |-> <<>>]
    BY <1>3 DEF Close
  <2>2. bs \in Seq(Seq(E)) /\ bs # <<>> /\ Len(bs) = Len(acc.batches) + 1 /\ bs[Len(bs)] = acc.current
    <3>1. OneMore(Seq(E), acc.batches, acc.current, bs)
      BY <1>1, AppendBatch
    <3> QED BY <3>1 DEF OneMore
  <2>3. TightSizes(bs)
    <3>1. acc.batches # <<>> => SizeSum(acc.batches[Len(acc.batches)]) + Head(acc.current).size > MaxSize
      BY <1>3 DEF SizeFine
    <3> QED BY <1>1, <1>3, <3>1, TightAppend DEF SizeFine
  <2>4. FlattenSeq(bs) = FlattenSeq(acc.batches) \o acc.current
    BY <1>1, FlattenAppend
  <2>5. <<>> \in Seq(E)
    OBVIOUS
  <2> HIDE DEF bs
  <2> QED BY <1>3, <2>1, <2>2, <2>3, <2>4, <2>5 DEF Filling
<1> QED BY <1>2, <1>3

LEMMA PutKeeps ==
    ASSUME NEW E, Sized(E), NEW acc \in Filling(E), SizeFine(acc), NEW e \in E
    PROVE  /\ PutBySize(acc, e) \in Filling(E) /\ SizeFine(PutBySize(acc, e))
           /\ FlattenSeq(PutBySize(acc, e).batches) \o PutBySize(acc, e).current
                = (FlattenSeq(acc.batches) \o acc.current) \o <<e>>
<1> DEFINE fits == SizeSum(acc.current) + e.size <= MaxSize
           new == PutBySize(acc, e)
           all == FlattenSeq(acc.batches) \o acc.current
<1>1. /\ acc.batches \in Seq(Seq(E)) /\ acc.current \in Seq(E) /\ <<e>> \in Seq(E) /\ <<>> \in Seq(E)
      /\ acc = [batches |-> acc.batches, current |-> acc.current]
  BY DEF Filling
<1>2. SizeSum(acc.current) \in Nat /\ e.size \in Nat /\ MaxSize \in Nat
  BY <1>1, SumNat, BatchAssumption DEF Sized
<1>3. FlattenSeq(acc.batches) \in Seq(E) /\ all \in Seq(E)
  BY <1>1, FlattenType, ConcatProperties
<1>4. <<e>> # <<>> /\ Len(<<e>>) = 1 /\ Head(<<e>>) = e /\ SizeSum(<<e>>) = e.size
  BY SumOne
<1>5. CASE fits
  <2> DEFINE c == Append(acc.current, e)
  <2>1. ~ (e.size > MaxSize)
    BY <1>2, <1>5
  <2>2. new = [batches |-> acc.batches, current |-> c]
    BY <1>1, <1>5, <2>1 DEF PutBySize
  <2>3. c \in Seq(E) /\ c # <<>> /\ c = acc.current \o <<e>>
    BY <1>1, AppendIs
  <2>4. SizeSum(c) = SizeSum(acc.current) + e.size
    BY <1>1, SizeSumAppend DEF Sized
  <2>5. acc.batches # <<>> => SizeSum(acc.batches[Len(acc.batches)]) + Head(c).size > MaxSize
    <3> SUFFICES ASSUME acc.batches # <<>>
                 PROVE  SizeSum(acc.batches[Len(acc.batches)]) + Head(c).size > MaxSize
      OBVIOUS
    <3>1. acc.batches[Len(acc.batches)] \in Seq(E)
      BY <1>1
    <3>2. SizeSum(acc.batches[Len(acc.batches)]) \in Nat
      BY <3>1, SumNat
    <3>3. Head(c) = IF acc.current = <<>> THEN e ELSE Head(acc.current)
      BY <1>1, HeadTailAppend
    <3>4. SizeSum(acc.batches[Len(acc.batches)])
            + (IF acc.current = <<>> THEN 0 ELSE Head(acc.current).size) > MaxSize
      BY DEF SizeFine
    <3> QED BY <1>2, <3>2, <3>3, <3>4
  <2>6. FlattenSeq(acc.batches) \o c = all \o <<e>>
    BY <1>1, <1>3, <2>3, ConcatAssociative
  <2> HIDE DEF c
  <2>7. new \in Filling(E)
    BY <1>1, <2>2, <2>3 DEF Filling
  <2>8. SizeFine(new)
    <3>1. TightSizes(acc.batches)
      BY DEF SizeFine
    <3>2. SizeSum(c) <= MaxSize
      BY <1>5, <2>4
    <3> QED BY <2>2, <2>3, <2>5, <3>1, <3>2 DEF SizeFine
  <2>9. new.batches = acc.batches /\ new.current = c
    BY <2>2
  <2>10. FlattenSeq(new.batches) \o new.current = all \o <<e>>
    BY <2>6, <2>9
  <2> QED BY <2>7, <2>8, <2>10
<1>6. CASE ~ fits
  <2> DEFINE open == Close(acc)
  <2>1. /\ open \in Filling(E) /\ open.current = <<>> /\ TightSizes(open.batches)
        /\ FlattenSeq(open.batches) = all
        /\ acc.current = <<>> => open = acc
        /\ acc.current # <<>> => open.batches # <<>> /\ open.batches[Len(open.batches)] = acc.current
    BY CloseKeeps
  <2>2. new = IF e.size > MaxSize
              THEN [open EXCEPT !.batches = Append(@, <<e>>)]
              ELSE [open EXCEPT !.current = Append(@, e)]
    BY <1>6 DEF PutBySize
  <2> HIDE DEF open
  <2>3. open.batches \in Seq(Seq(E)) /\ open = [batches |-> open.batches, current |-> <<>>]
    BY <2>1 DEF Filling
  <2>4. ASSUME open.batches # <<>> PROVE SizeSum(open.batches[Len(open.batches)]) \in Nat
    <3>1. open.batches[Len(open.batches)] \in Seq(E)
      BY <2>3, <2>4
    <3> QED BY <3>1, SumNat
  <2>5. CASE e.size > MaxSize
    <3> DEFINE bs == Append(open.batches, <<e>>)
    <3>1. new = [batches |-> bs, current |-> <<>>]
      <4>1. new = [open EXCEPT !.batches = Append(open.batches, <<e>>)]
        BY <2>2, <2>5
      <4> HIDE DEF bs, new
      <4>2. [open EXCEPT !.batches = bs] = [batches |-> bs, current |-> <<>>]
        BY <2>3
      <4> QED BY <4>1, <4>2 DEF bs
    <3>2. bs \in Seq(Seq(E)) /\ bs # <<>> /\ Len(bs) = Len(open.batches) + 1 /\ bs[Len(bs)] = <<e>>
      <4> DEFINE old == open.batches
                 one == <<e>>
      <4>1. old \in Seq(Seq(E)) /\ one \in Seq(E)
        BY <1>1, <2>3
      <4> HIDE DEF old, one
      <4>2. OneMore(Seq(E), old, one, Append(old, one))
        BY <4>1, AppendBatch
      <4> QED BY <4>2 DEF bs, old, one, OneMore
    <3>3. open.batches # <<>> => SizeSum(open.batches[Len(open.batches)]) + Head(<<e>>).size > MaxSize
      BY <1>2, <1>4, <2>4, <2>5
    <3>4. TightSizes(bs)
      BY <1>1, <1>4, <2>1, <2>3, <3>3, TightAppend
    <3>5. FlattenSeq(bs) = all \o <<e>>
      BY <1>1, <2>1, <2>3, FlattenAppend
    <3>6. (all \o <<e>>) \o <<>> = all \o <<e>>
      BY <1>1, <1>3, ConcatProperties, ConcatEmptySeq
    <3>7. SizeSum(bs[Len(bs)]) + 0 > MaxSize
      BY <1>2, <1>4, <2>5, <3>2
    <3> HIDE DEF bs
    <3>8. new \in Filling(E)
      BY <1>1, <3>1, <3>2 DEF Filling
    <3>9. SizeFine(new)
      <4>1. SizeSum(<<>>) <= MaxSize
        BY <1>2, SizeSumEmpty
      <4> QED BY <3>1, <3>4, <3>7, <4>1 DEF SizeFine
    <3>10. new.batches = bs /\ new.current = <<>>
      BY <3>1
    <3>11. FlattenSeq(new.batches) \o new.current = all \o <<e>>
      BY <3>5, <3>6, <3>10
    <3> QED BY <3>8, <3>9, <3>11
  <2>6. CASE ~ (e.size > MaxSize)
    <3>1. new = [batches |-> open.batches, current |-> <<e>>]
      <4>1. Append(<<>>, e) = <<e>>
        OBVIOUS
      <4>2. new = [open EXCEPT !.current = Append(@, e)]
        BY <2>2, <2>6
      <4> QED BY <2>3, <4>1, <4>2
    <3>2. acc.current # <<>>
      BY <1>2, <1>6, <2>6, SizeSumEmpty
    <3>3. open.batches[Len(open.batches)] = acc.current
      BY <2>1, <3>2
    <3>4. SizeSum(open.batches[Len(open.batches)]) + Head(<<e>>).size > MaxSize
      BY <1>2, <1>4, <1>6, <3>3
    <3>5. SizeSum(<<e>>) <= MaxSize
      BY <1>2, <1>4, <2>6
    <3>6. new \in Filling(E)
      BY <1>1, <2>3, <3>1 DEF Filling
    <3>7. SizeFine(new)
      BY <1>4, <2>1, <3>1, <3>4, <3>5 DEF SizeFine
    <3>8. new.batches = open.batches /\ new.current = <<e>>
      BY <3>1
    <3>9. FlattenSeq(new.batches) \o new.current = all \o <<e>>
      BY <2>1, <3>8
    <3> QED BY <3>6, <3>7, <3>9
  <2> QED BY <2>5, <2>6
<1> QED BY <1>5, <1>6

\* The rounds of BySize.
IsFilled(list, g) ==
    g = [n \in 0 .. Len(list) |->
            IF n = 0 THEN [batches |-> <<>>, current |-> <<>>] ELSE PutBySize(g[n - 1], list[n])]

\* Batches by size hold the list in its order, and are tight.
LEMMA BySizeHolds ==
    ASSUME NEW E, Sized(E), NEW list \in Seq(E)
    PROVE  /\ BySize(list) \in Seq(Seq(E)) /\ TightSizes(BySize(list))
           /\ FlattenSeq(BySize(list)) = list
<1> DEFINE m == Len(list)
           nothing == [batches |-> <<>>, current |-> <<>>]
           Fine == {acc \in Filling(E) : SizeFine(acc)}
           F == [x \in (1 .. m) \X Fine |-> PutBySize(x[2], list[x[1]])]
<1>1. m \in Nat /\ \A n \in 1 .. m : list[n] \in E
  BY LenProperties
<1>2. nothing \in Fine
  <2>1. <<>> \in Seq(Seq(E)) /\ <<>> \in Seq(E) /\ Len(<<>>) = 0
    OBVIOUS
  <2>2. nothing \in Filling(E)
    BY <2>1 DEF Filling
  <2>3. TightSizes(<<>>)
    BY <2>1 DEF TightSizes
  <2>4. SizeSum(<<>>) <= MaxSize
    BY SizeSumEmpty, BatchAssumption
  <2> QED BY <2>2, <2>3, <2>4 DEF SizeFine
<1>3. F \in [(1 .. m) \X Fine -> Fine]
  <2>1. ASSUME NEW x \in (1 .. m) \X Fine PROVE PutBySize(x[2], list[x[1]]) \in Fine
    <3>1. x[1] \in 1 .. m /\ x[2] \in Fine /\ list[x[1]] \in E
      BY <1>1
    <3> QED BY <3>1, PutKeeps
  <2> HIDE DEF Fine
  <2> QED BY <2>1
<1>4. PICK h \in [0 .. m -> Fine] : h[0] = nothing /\ \A n \in 1 .. m : h[n] = F[<<n, h[n - 1]>>]
  <2>1. Recursion(Fine, nothing, m, F)
    BY <1>1, <1>2, <1>3 DEF Recursion
  <2> HIDE DEF F, m, Fine, nothing
  <2>2. PICK h : Recurs(Fine, nothing, m, F, h)
    BY <2>1, Recursive
  <2> QED BY <2>2 DEF Recurs
<1> HIDE DEF Fine
<1>5. \A n \in 1 .. m : n - 1 \in 0 .. m /\ n # 0 /\ h[n] = PutBySize(h[n - 1], list[n])
  <2> SUFFICES ASSUME NEW n \in 1 .. m
               PROVE  n - 1 \in 0 .. m /\ n # 0 /\ h[n] = PutBySize(h[n - 1], list[n])
    OBVIOUS
  <2>1. n - 1 \in 0 .. m /\ n # 0
    BY <1>1
  <2>2. <<n, h[n - 1]>> \in (1 .. m) \X Fine
    BY <2>1
  <2> QED BY <1>4, <2>1, <2>2
<1>6. IsFilled(list, h)
  <2>1. h = [n \in 0 .. m |-> h[n]]
    OBVIOUS
  <2>2. \A n \in 0 .. m : h[n] = IF n = 0 THEN nothing ELSE PutBySize(h[n - 1], list[n])
    <3>1. \A n \in 0 .. m : n = 0 \/ n \in 1 .. m
      BY <1>1
    <3> HIDE DEF F, m, nothing
    <3> QED BY <1>4, <1>5, <3>1
  <2> HIDE DEF F
  <2> QED BY <2>1, <2>2 DEF IsFilled
<1> DEFINE g == CHOOSE f : IsFilled(list, f)
<1>7. IsFilled(list, g)
  BY <1>6
<1>8. BySize(list) = Close(g[m]).batches
  BY DEF BySize, IsFilled
<1> HIDE DEF g, F
<1>9. \A n \in 0 .. m : g[n] = IF n = 0 THEN nothing ELSE PutBySize(g[n - 1], list[n])
  BY <1>7 DEF IsFilled
<1> HIDE DEF nothing
<1> DEFINE T == {n \in 0 .. m : g[n] = h[n]}
<1>10. \A n \in 0 .. m : n \in T
  <2>1. 0 \in T
    BY <1>1, <1>4, <1>9
  <2>2. ASSUME NEW n \in 1 .. m, n - 1 \in T PROVE n \in T
    <3>1. n \in 0 .. m /\ n # 0
      BY <1>1
    <3> QED BY <1>5, <1>9, <2>2, <3>1
  <2> HIDE DEF T, m
  <2> QED BY <1>1, <2>1, <2>2, UpToTheLast
<1> DEFINE Covered(acc) == FlattenSeq(acc.batches) \o acc.current
           U == {n \in 0 .. m : Covered(h[n]) = SubSeq(list, 1, n)}
<1>11. \A n \in 0 .. m : n \in U
  <2>1. 0 \in U
    <3>1. <<>> \o <<>> = <<>> /\ SubSeq(list, 1, 0) = <<>> /\ 0 \in 0 .. m
      BY <1>1, SubSeqEmpty
    <3>2. h[0].batches = <<>> /\ h[0].current = <<>>
      BY <1>4 DEF nothing
    <3> QED BY <3>1, <3>2, FlattenEmpty
  <2>2. ASSUME NEW n \in 1 .. m, n - 1 \in U PROVE n \in U
    <3>1. n - 1 \in 0 .. m /\ n \in 0 .. m /\ list[n] \in E
      BY <1>1
    <3>2. h[n - 1] \in Filling(E) /\ SizeFine(h[n - 1])
      BY <3>1 DEF Fine
    <3>3. Covered(h[n]) = Covered(h[n - 1]) \o <<list[n]>>
      BY <1>5, <3>1, <3>2, PutKeeps
    <3>4. SubSeq(list, 1, n) = SubSeq(list, 1, n - 1) \o <<list[n]>>
      <4>1. 1 \in 1 .. Len(list) /\ n \in 1 .. Len(list)
        BY <1>1
      <4> QED BY <4>1, SubSeqRecursiveSecond
    <3> QED BY <2>2, <3>1, <3>3, <3>4
  <2> HIDE DEF U, m
  <2> QED BY <1>1, <2>1, <2>2, UpToTheLast
<1>12. m \in 0 .. m
  BY <1>1
<1>13. g[m] = h[m] /\ h[m] \in Filling(E) /\ SizeFine(h[m]) /\ Covered(h[m]) = SubSeq(list, 1, m)
  BY <1>10, <1>11, <1>12 DEF Fine
<1>14. SubSeq(list, 1, m) = list
  BY SubSeqFull
<1> HIDE DEF m, U, T
<1>15. /\ Close(h[m]) \in Filling(E) /\ TightSizes(Close(h[m]).batches)
       /\ FlattenSeq(Close(h[m]).batches) = list
  BY <1>13, <1>14, CloseKeeps
<1>16. Close(h[m]).batches \in Seq(Seq(E))
  BY <1>15 DEF Filling
<1> QED BY <1>8, <1>13, <1>15, <1>16

-----------------------------------------------------------------------------
(***************************************************************************)
(* Batches by kind.                                                        *)
(***************************************************************************)

\* Of numbers in a set there is a least one.
LEMMA LeastOf ==
    ASSUME NEW X \in SUBSET Nat, X # {}
    PROVE  \E n \in X : \A m \in X : n <= m
<1> SUFFICES ASSUME \A n \in X : \E m \in X : m < n PROVE FALSE
  OBVIOUS
<1> DEFINE T == {n \in Nat : \A m \in X : n < m}
<1>1. 0 \in T
  <2>1. \A m \in X : m # 0
    OBVIOUS
  <2> QED BY <2>1
<1>2. ASSUME NEW n \in T PROVE n + 1 \in T
  <2>1. ASSUME NEW m \in X PROVE n + 1 < m
    <3>1. PICK k \in X : k < m
      OBVIOUS
    <3>2. n < k
      OBVIOUS
    <3> QED BY <3>1, <3>2
  <2> QED BY <2>1
<1>3. T = Nat
  <2>1. T \in SUBSET Nat
    OBVIOUS
  <2> HIDE DEF T
  <2> QED BY <1>1, <1>2, <2>1, AllNumbers
<1>4. PICK m \in X : TRUE
  OBVIOUS
<1>5. m \in T
  BY <1>3
<1> QED BY <1>5

\* The elements of what is flattened are those of its parts.
LEMMA FlattenElements ==
    ASSUME NEW E, NEW bs \in Seq(Seq(E))
    PROVE  /\ \A i \in 1 .. Len(bs) : ToSet(bs[i]) \subseteq ToSet(FlattenSeq(bs))
           /\ \A e \in ToSet(FlattenSeq(bs)) : \E i \in 1 .. Len(bs) : e \in ToSet(bs[i])
<1> DEFINE m == Len(bs)
<1>1. m \in Nat /\ \A n \in 1 .. m : bs[n] \in Seq(E)
  BY LenProperties
<1>2. PICK g \in [0 .. m -> Seq(E)] :
             /\ FlattenSeq(bs) = g[m] /\ g[0] = <<>>
             /\ \A n \in 1 .. m : g[n] = g[n - 1] \o bs[n]
  BY FlattenIs
<1> DEFINE Parts1(n) == /\ \A i \in 1 .. n : ToSet(bs[i]) \subseteq ToSet(g[n])
                        /\ \A e \in ToSet(g[n]) : \E i \in 1 .. n : e \in ToSet(bs[i])
           T == {n \in 0 .. m : Parts1(n)}
<1>3. 0 \in T
  <2>1. ToSet(<<>>) = {}
    BY DEF ToSet
  <2> QED BY <1>1, <1>2, <2>1
<1>4. ASSUME NEW n \in 1 .. m, n - 1 \in T PROVE n \in T
  <2>1. n - 1 \in 0 .. m /\ n \in 0 .. m
    BY <1>1
  <2>2. ToSet(g[n]) = ToSet(g[n - 1]) \cup ToSet(bs[n])
    <3>1. g[n - 1] \in Seq(E) /\ bs[n] \in Seq(E)
      BY <1>1, <2>1
    <3>2. ToSet(g[n - 1] \o bs[n]) = ToSet(g[n - 1]) \cup ToSet(bs[n])
      BY <3>1, ConcatElements
    <3> QED BY <1>2, <3>2
  <2>3. \A i \in 1 .. n : i \in 1 .. n - 1 \/ i = n
    OBVIOUS
  <2>4. \A i \in 1 .. n - 1 : i \in 1 .. n
    OBVIOUS
  <2>5. n \in 1 .. n
    OBVIOUS
  <2>6. \A i \in 1 .. n : ToSet(bs[i]) \subseteq ToSet(g[n])
    BY <1>4, <2>2, <2>3
  <2>7. \A e \in ToSet(g[n]) : \E i \in 1 .. n : e \in ToSet(bs[i])
    BY <1>4, <2>2, <2>4, <2>5
  <2> QED BY <2>1, <2>6, <2>7
<1>5. \A n \in 0 .. m : n \in T
  <2> HIDE DEF T, m
  <2> QED BY <1>1, <1>3, <1>4, UpToTheLast
<1>6. m \in T
  <2>1. m \in 0 .. m
    BY <1>1
  <2> HIDE DEF T
  <2> QED BY <1>5, <2>1
<1> QED BY <1>2, <1>6

\* Batches of the kinds in a set: each of one kind and within the limit, and of a kind
\* only the last one is not full.
OfOneKind(bs) ==
    \A n \in 1 .. Len(bs) :
        /\ Len(bs[n]) \in 1 .. MaxSize
        /\ \A e \in ToSet(bs[n]) : e.kind = bs[n][1].kind
        /\ Len(bs[n]) < MaxSize =>
             \A m \in n + 1 .. Len(bs) : bs[m][1].kind # bs[n][1].kind
KindsFine(bs, kinds, list) ==
    /\ OfOneKind(bs)
    /\ Distinct(FlattenSeq(bs))
    /\ ToSet(FlattenSeq(bs)) = {e \in ToSet(list) : e.kind \in kinds}

LEMMA FirstIn ==
    ASSUME NEW E, NEW bs \in Seq(Seq(E)), NEW n \in 1 .. Len(bs), Len(bs[n]) \in 1 .. MaxSize
    PROVE  bs[n] \in Seq(E) /\ bs[n][1] \in ToSet(bs[n]) /\ bs[n][1] \in ToSet(FlattenSeq(bs))
<1>1. bs[n] \in Seq(E)
  OBVIOUS
<1>2. 1 \in 1 .. Len(bs[n])
  BY BatchAssumption
<1>3. bs[n][1] \in ToSet(bs[n])
  BY <1>1, <1>2, Elements
<1> QED BY <1>1, <1>3, FlattenElements

\* The batches of one more kind.
LEMMA OneMoreKind ==
    ASSUME NEW E, NEW list \in Seq(E), Distinct(list), NEW bs \in Seq(Seq(E)), NEW kinds, NEW k,
           KindsFine(bs, kinds, list), k \notin kinds
    PROVE  /\ bs \o SlicesOf(OfKind(list, k), MaxSize) \in Seq(Seq(E))
           /\ KindsFine(bs \o SlicesOf(OfKind(list, k), MaxSize), kinds \cup {k}, list)
<1> DEFINE group == OfKind(list, k)
           cs == SlicesOf(group, MaxSize)
           ds == bs \o cs
           places == {n \in 1 .. Len(list) : list[n].kind = k}
<1>1. group \in Seq(E) /\ ToSet(group) = {list[n] : n \in places} /\ Distinct(group)
  BY PickedHolds DEF OfKind
<1>2. ToSet(group) = {e \in ToSet(list) : e.kind = k}
  BY <1>1, Elements
<1>3. MaxSize \in Nat /\ MaxSize > 0
  BY BatchAssumption
<1>4. /\ cs \in Seq(Seq(E)) /\ FlattenSeq(cs) = group
      /\ \A i \in 1 .. Len(cs) : Len(cs[i]) \in 1 .. MaxSize /\ (i < Len(cs) => Len(cs[i]) = MaxSize)
  <2> HIDE DEF group
  <2> QED BY <1>1, <1>3, SlicesAre
<1> HIDE DEF group, cs
<1>5. ASSUME NEW i \in 1 .. Len(cs)
      PROVE  cs[i][1].kind = k /\ \A e \in ToSet(cs[i]) : e.kind = k
  <2>1. ToSet(cs[i]) \subseteq ToSet(group)
    BY <1>4, FlattenElements
  <2>2. cs[i][1] \in ToSet(cs[i])
    BY <1>4, FirstIn
  <2> QED BY <1>2, <2>1, <2>2
<1>6. \A i \in 1 .. Len(bs) : bs[i][1].kind \in kinds
  <2> SUFFICES ASSUME NEW i \in 1 .. Len(bs) PROVE bs[i][1].kind \in kinds
    OBVIOUS
  <2>1. Len(bs[i]) \in 1 .. MaxSize
    BY DEF KindsFine, OfOneKind
  <2>2. bs[i][1] \in ToSet(FlattenSeq(bs))
    BY <2>1, FirstIn
  <2> QED BY <2>2 DEF KindsFine
<1>7. /\ ds \in Seq(Seq(E)) /\ Len(ds) = Len(bs) + Len(cs) /\ Len(bs) \in Nat /\ Len(cs) \in Nat
      /\ \A i \in 1 .. Len(bs) : ds[i] = bs[i]
      /\ \A i \in Len(bs) + 1 .. Len(ds) : i - Len(bs) \in 1 .. Len(cs) /\ ds[i] = cs[i - Len(bs)]
  BY <1>4
<1>8. FlattenSeq(ds) = FlattenSeq(bs) \o group
  BY <1>4, FlattenConcat
<1>9. FlattenSeq(bs) \in Seq(E)
  BY FlattenType
<1> HIDE DEF ds
<1>10. OfOneKind(ds)
  <2> SUFFICES ASSUME NEW n \in 1 .. Len(ds)
               PROVE  /\ Len(ds[n]) \in 1 .. MaxSize
                      /\ \A e \in ToSet(ds[n]) : e.kind = ds[n][1].kind
                      /\ Len(ds[n]) < MaxSize =>
                           \A m \in n + 1 .. Len(ds) : ds[m][1].kind # ds[n][1].kind
    BY DEF OfOneKind
  <2>1. CASE n \in 1 .. Len(bs)
    <3>1. ds[n] = bs[n]
      BY <1>7, <2>1
    <3>2. ASSUME Len(bs[n]) < MaxSize, NEW m \in n + 1 .. Len(ds)
          PROVE  ds[m][1].kind # bs[n][1].kind
      <4>1. CASE m \in 1 .. Len(bs)
        <5>1. m \in n + 1 .. Len(bs)
          BY <1>7, <4>1
        <5> QED BY <1>7, <2>1, <3>2, <4>1, <5>1 DEF KindsFine, OfOneKind
      <4>2. CASE m \notin 1 .. Len(bs)
        <5>1. m \in Len(bs) + 1 .. Len(ds)
          BY <1>7, <4>2
        <5>2. m - Len(bs) \in 1 .. Len(cs) /\ ds[m] = cs[m - Len(bs)]
          BY <1>7, <5>1
        <5>3. cs[m - Len(bs)][1].kind = k
          BY <1>5, <5>2
        <5> QED BY <1>6, <2>1, <5>2, <5>3
      <4> QED BY <4>1, <4>2
    <3> QED BY <2>1, <3>1, <3>2 DEF KindsFine, OfOneKind
  <2>2. CASE n \notin 1 .. Len(bs)
    <3> DEFINE i == n - Len(bs)
    <3>1. n \in Len(bs) + 1 .. Len(ds)
      BY <1>7, <2>2
    <3>2. i \in 1 .. Len(cs) /\ ds[n] = cs[i]
      BY <1>7, <3>1
    <3>3. ASSUME NEW m \in n + 1 .. Len(ds) PROVE Len(cs[i]) = MaxSize
      <4>1. i < Len(cs)
        BY <1>7, <3>1
      <4> QED BY <1>4, <3>2, <4>1
    <3> HIDE DEF i
    <3>4. Len(ds[n]) < MaxSize => \A m \in n + 1 .. Len(ds) : FALSE
      BY <1>3, <3>2, <3>3
    <3> QED BY <1>4, <1>5, <3>2, <3>4
  <2> QED BY <2>1, <2>2
<1>11. Distinct(FlattenSeq(ds))
  <2>1. ToSet(FlattenSeq(bs)) \cap ToSet(group) = {}
    BY <1>2 DEF KindsFine
  <2> QED BY <1>1, <1>8, <1>9, <2>1, ConcatDistinct DEF KindsFine
<1>12. ToSet(FlattenSeq(ds)) = {e \in ToSet(list) : e.kind \in kinds \cup {k}}
  <2>1. ToSet(FlattenSeq(ds)) = ToSet(FlattenSeq(bs)) \cup ToSet(group)
    BY <1>1, <1>8, <1>9, ConcatElements
  <2> QED BY <1>2, <2>1 DEF KindsFine
<1>13. KindsFine(ds, kinds \cup {k}, list)
  BY <1>10, <1>11, <1>12 DEF KindsFine
<1> QED BY <1>7, <1>13 DEF ds, cs, group

\* The first entities of the kinds.
LEMMA FirstsOfKinds ==
    ASSUME NEW E, NEW list \in Seq(E), Distinct(list)
    PROVE  /\ FirstOfKinds(list) \in Seq(E)
           /\ \A i, j \in 1 .. Len(FirstOfKinds(list)) :
                i # j => FirstOfKinds(list)[i].kind # FirstOfKinds(list)[j].kind
           /\ \A e \in ToSet(list) : \E i \in 1 .. Len(FirstOfKinds(list)) : e.kind = FirstOfKinds(list)[i].kind
<1> DEFINE places == {n \in 1 .. Len(list) : \A m \in 1 .. n - 1 : list[m].kind # list[n].kind}
           firsts == FirstOfKinds(list)
<1>1. firsts \in Seq(E) /\ ToSet(firsts) = {list[n] : n \in places} /\ Distinct(firsts)
  BY PickedHolds DEF FirstOfKinds
<1> HIDE DEF firsts
<1>2. ASSUME NEW i \in 1 .. Len(firsts), NEW j \in 1 .. Len(firsts), i # j
      PROVE  firsts[i].kind # firsts[j].kind
  <2>1. firsts[i] # firsts[j] /\ firsts[i] \in ToSet(firsts) /\ firsts[j] \in ToSet(firsts)
    BY <1>1, <1>2, Elements DEF Distinct
  <2>2. PICK m \in places : firsts[i] = list[m]
    BY <1>1, <2>1
  <2>3. PICK n \in places : firsts[j] = list[n]
    BY <1>1, <2>1
  <2>4. m # n
    BY <2>1, <2>2, <2>3
  <2>5. m \in 1 .. n - 1 \/ n \in 1 .. m - 1
    BY <2>4
  <2> QED BY <2>2, <2>3, <2>5
<1>3. ASSUME NEW e \in ToSet(list) PROVE \E i \in 1 .. Len(firsts) : e.kind = firsts[i].kind
  <2> DEFINE X == {n \in 1 .. Len(list) : list[n].kind = e.kind}
  <2>1. X # {} /\ X \in SUBSET Nat
    BY Elements
  <2>2. PICK n \in X : \A m \in X : n <= m
    <3> HIDE DEF X
    <3> QED BY <2>1, LeastOf
  <2>3. n \in places
    <3>1. n \in 1 .. Len(list) /\ Len(list) \in Nat
      OBVIOUS
    <3>2. ASSUME NEW m \in 1 .. n - 1 PROVE list[m].kind # list[n].kind
      <4>1. m \in 1 .. Len(list) /\ ~ (n <= m)
        BY <3>1
      <4> QED BY <2>2, <4>1
    <3> QED BY <3>1, <3>2
  <2>4. list[n] \in ToSet(firsts)
    BY <1>1, <2>3
  <2>5. PICK i \in 1 .. Len(firsts) : list[n] = firsts[i]
    <3>1. \A x \in ToSet(firsts) : \E i \in 1 .. Len(firsts) : x = firsts[i]
      BY <1>1, Elements
    <3> QED BY <2>4, <3>1
  <2> QED BY <2>5
<1> QED BY <1>1, <1>2, <1>3 DEF firsts

\* Batches by kind hold each entity of the list once, and are tight.
LEMMA ByKindHolds ==
    ASSUME NEW E, NEW list \in Seq(E), Distinct(list)
    PROVE  /\ ByKind(list) \in Seq(Seq(E)) /\ OfOneKind(ByKind(list))
           /\ Distinct(FlattenSeq(ByKind(list))) /\ ToSet(FlattenSeq(ByKind(list))) = ToSet(list)
<1> DEFINE firsts == FirstOfKinds(list)
           m == Len(firsts)
           cs == [n \in 1 .. m |-> SlicesOf(OfKind(list, firsts[n].kind), MaxSize)]
           Kinds1(n) == {firsts[i].kind : i \in 1 .. n}
<1>1. /\ firsts \in Seq(E) /\ \A i, j \in 1 .. m : i # j => firsts[i].kind # firsts[j].kind
      /\ \A e \in ToSet(list) : \E i \in 1 .. m : e.kind = firsts[i].kind
  BY FirstsOfKinds
<1>2. ByKind(list) = FlattenSeq(cs)
  BY DEF ByKind
<1> HIDE DEF firsts
<1>3. m \in Nat
  BY <1>1
<1>4. \A n \in 1 .. m : SlicesOf(OfKind(list, firsts[n].kind), MaxSize) \in Seq(Seq(E))
  <2> SUFFICES ASSUME NEW k PROVE SlicesOf(OfKind(list, k), MaxSize) \in Seq(Seq(E))
    OBVIOUS
  <2>1. OfKind(list, k) \in Seq(E)
    BY PickedHolds DEF OfKind
  <2>2. MaxSize \in Nat /\ MaxSize > 0
    BY BatchAssumption
  <2> QED BY <2>1, <2>2, SlicesAre
<1>5. cs \in Seq(Seq(Seq(E))) /\ Len(cs) = m
      /\ \A n \in 1 .. m : cs[n] = SlicesOf(OfKind(list, firsts[n].kind), MaxSize)
  BY <1>3, <1>4
<1> HIDE DEF cs
<1>6. PICK g \in [0 .. m -> Seq(Seq(E))] :
             /\ FlattenSeq(cs) = g[m] /\ g[0] = <<>>
             /\ \A n \in 1 .. m : g[n] = g[n - 1] \o cs[n]
  <2> DEFINE S == Seq(E)
  <2>1. cs \in Seq(Seq(S)) /\ Len(cs) = m
    BY <1>5
  <2> HIDE DEF S, m
  <2>2. \E g \in [0 .. m -> Seq(S)] :
             /\ FlattenSeq(cs) = g[m] /\ g[0] = <<>>
             /\ \A n \in 1 .. m : g[n] = g[n - 1] \o cs[n]
    BY <2>1, FlattenIs
  <2> QED BY <2>2 DEF S
<1> DEFINE T == {n \in 0 .. m : KindsFine(g[n], Kinds1(n), list)}
<1>7. 0 \in T
  <2>1. Len(<<>>) = 0 /\ ToSet(<<>>) = {} /\ Distinct(<<>>) /\ OfOneKind(<<>>)
    BY DEF ToSet, Distinct, OfOneKind
  <2>2. Kinds1(0) = {}
    OBVIOUS
  <2> QED BY <1>3, <1>6, <2>1, <2>2, FlattenEmpty DEF KindsFine
<1>8. ASSUME NEW n \in 1 .. m, n - 1 \in T PROVE n \in T
  <2>1. n - 1 \in 0 .. m /\ n \in 0 .. m
    BY <1>3
  <2>2. Kinds1(n) = Kinds1(n - 1) \cup {firsts[n].kind}
    <3>1. \A i \in 1 .. n : i \in 1 .. n - 1 \/ i = n
      OBVIOUS
    <3>2. \A i \in 1 .. n - 1 : i \in 1 .. n
      OBVIOUS
    <3>3. n \in 1 .. n
      OBVIOUS
    <3> QED BY <3>1, <3>2, <3>3
  <2>3. firsts[n].kind \notin Kinds1(n - 1)
    <3>1. \A i \in 1 .. n - 1 : i \in 1 .. m /\ i # n
      BY <1>3
    <3> QED BY <1>1, <3>1
  <2>4. g[n - 1] \in Seq(Seq(E)) /\ KindsFine(g[n - 1], Kinds1(n - 1), list)
    BY <1>8, <2>1
  <2> HIDE DEF Kinds1
  <2>5. KindsFine(g[n - 1] \o cs[n], Kinds1(n - 1) \cup {firsts[n].kind}, list)
    BY <1>5, <2>3, <2>4, OneMoreKind
  <2> QED BY <1>6, <2>1, <2>2, <2>5
<1>9. \A n \in 0 .. m : n \in T
  <2> HIDE DEF T, m
  <2> QED BY <1>3, <1>7, <1>8, UpToTheLast
<1>10. m \in 0 .. m
  BY <1>3
<1>11. g[m] \in Seq(Seq(E)) /\ KindsFine(g[m], Kinds1(m), list)
  BY <1>9, <1>10
<1>12. {e \in ToSet(list) : e.kind \in Kinds1(m)} = ToSet(list)
  BY <1>1
<1> QED BY <1>2, <1>6, <1>11, <1>12 DEF KindsFine

-----------------------------------------------------------------------------
(***************************************************************************)
(* Batches by similarity.                                                  *)
(***************************************************************************)

LEMMA ReverseHolds ==
    ASSUME NEW E, NEW s \in Seq(E)
    PROVE  /\ Reverse(s) \in Seq(E) /\ Len(Reverse(s)) = Len(s)
           /\ ToSet(Reverse(s)) = ToSet(s) /\ (Distinct(s) => Distinct(Reverse(s)))
<1> DEFINE r == Reverse(s)
           m == Len(s)
<1>1. m \in Nat /\ \A i \in 1 .. m : s[i] \in E
  BY LenProperties
<1>2. \A i \in 1 .. m : m - i + 1 \in 1 .. m /\ m - (m - i + 1) + 1 = i
  BY <1>1
<1>3. r = [i \in 1 .. m |-> s[(m - i) + 1]]
  BY DEF Reverse
<1> HIDE DEF r
<1>4. r \in Seq(E) /\ Len(r) = m /\ \A i \in 1 .. m : r[i] = s[m - i + 1]
  BY <1>1, <1>2, <1>3
<1>5. \A e \in ToSet(r) : e \in ToSet(s)
  <2> SUFFICES ASSUME NEW e \in ToSet(r) PROVE e \in ToSet(s)
    OBVIOUS
  <2>1. PICK i \in 1 .. m : e = r[i]
    BY <1>4, Elements
  <2> DEFINE j == m - i + 1
  <2>2. j \in 1 .. m /\ r[i] = s[j]
    BY <1>2, <1>4
  <2> HIDE DEF j
  <2>3. s[j] \in ToSet(s)
    BY <2>2, Elements
  <2> QED BY <2>1, <2>2, <2>3
<1>6. \A e \in ToSet(s) : e \in ToSet(r)
  <2> SUFFICES ASSUME NEW e \in ToSet(s) PROVE e \in ToSet(r)
    OBVIOUS
  <2>1. PICK i \in 1 .. m : e = s[i]
    BY Elements
  <2> DEFINE j == m - i + 1
  <2>2. j \in 1 .. m /\ m - j + 1 = i
    BY <1>2
  <2> HIDE DEF j
  <2>3. r[j] = e
    BY <1>4, <2>1, <2>2
  <2> QED BY <1>4, <2>2, <2>3, Elements
<1>7. ASSUME Distinct(s) PROVE Distinct(r)
  <2> SUFFICES ASSUME NEW i \in 1 .. m, NEW j \in 1 .. m, i # j PROVE r[i] # r[j]
    BY <1>4 DEF Distinct
  <2>1. m - i + 1 # m - j + 1 /\ m - i + 1 \in 1 .. m /\ m - j + 1 \in 1 .. m
    BY <1>1
  <2>2. r[i] = s[m - i + 1] /\ r[j] = s[m - j + 1]
    BY <1>4
  <2>3. \A a, b \in 1 .. m : a # b => s[a] # s[b]
    BY <1>7 DEF Distinct
  <2> QED BY <2>1, <2>2, <2>3
<1> QED BY <1>4, <1>5, <1>6, <1>7 DEF r

LEMMA PlacesFinite ==
    ASSUME NEW m \in Nat, NEW places \in SUBSET (1 .. m)
    PROVE  IsFiniteSet(places)
<1>1. IsFiniteSet(1 .. m)
  BY FS_Interval
<1> QED BY <1>1, FS_Subset

\* As many elements are picked as places are given.
LEMMA PickedLength ==
    ASSUME NEW E, NEW list \in Seq(E), Distinct(list), NEW places \in SUBSET (1 .. Len(list))
    PROVE  Len(Picked(list, places)) = Cardinality(places)
<1> DEFINE p == Picked(list, places)
           f == [n \in places |-> list[n]]
<1>1. p \in Seq(E) /\ ToSet(p) = {list[n] : n \in places} /\ Distinct(p)
  BY PickedHolds
<1>2. Cardinality(ToSet(p)) = Len(p)
  <2> HIDE DEF p
  <2> QED BY <1>1, DistinctLength
<1>3. f \in Bijection(places, ToSet(p))
  <2>1. f \in [places -> ToSet(p)]
    BY <1>1
  <2>2. \A i, j \in places : f[i] = f[j] => i = j
    BY DEF Distinct
  <2>3. \A e \in ToSet(p) : \E i \in places : f[i] = e
    BY <1>1
  <2>4. DOMAIN f = places
    OBVIOUS
  <2> HIDE DEF f, p
  <2> QED BY <2>1, <2>2, <2>3, <2>4 DEF Bijection, Injection, IsInjective, Surjection
<1>4. ExistsBijection(places, ToSet(p))
  BY <1>3 DEF ExistsBijection
<1>5. IsFiniteSet(places)
  <2>1. Len(list) \in Nat
    BY LenProperties
  <2> QED BY <2>1, PlacesFinite
<1>6. Cardinality(ToSet(p)) = Cardinality(places)
  <2> HIDE DEF p
  <2> QED BY <1>4, <1>5, FS_Bijection
<1> QED BY <1>2, <1>6

\* What a round of BySimilarity takes of the rest, and what it leaves.
Taken(rest) == <<rest[1]>> \o Reverse(Picked(rest, Found(rest)))
LeftOver(rest) == Picked(rest, 2 .. Len(rest) \ Found(rest))

LEMMA TakenAndLeft ==
    ASSUME NEW E, NEW rest \in Seq(E), Distinct(rest), rest # <<>>, \A e \in E : e.size \in Nat,
           NEW b, b = Taken(rest), NEW left, left = LeftOver(rest)
    PROVE  /\ b \in Seq(E) /\ left \in Seq(E)
           /\ b # <<>> /\ b[1] = rest[1]
           /\ Distinct(b) /\ Distinct(left) /\ ToSet(b) \cap ToSet(left) = {}
           /\ ToSet(b) \cup ToSet(left) = ToSet(rest)
           /\ Len(left) < Len(rest)
           /\ \A e \in ToSet(b) : Similar(b[1], e)
           /\ Len(b) <= MostSimilar
           /\ Len(b) < MaxSize => \A e \in ToSet(left) : ~ Similar(b[1], e)
<1> DEFINE m == Len(rest)
           found == Found(rest)
           p == Picked(rest, found)
           others == 2 .. m \ found
           limit == MostSimilar - 1
<1>1. m \in Nat /\ m > 0 /\ \A i \in 1 .. m : rest[i] \in E
  BY LenProperties, EmptySeq
<1>2. MaxSize \in Nat /\ MaxSize > 0 /\ Nearness \in Nat /\ limit \in Nat /\ limit >= MaxSize - 1
      /\ MostSimilar \in Nat
  BY BatchAssumption DEF MostSimilar
<1>3. Alike(rest) \subseteq 2 .. m /\ found \subseteq Alike(rest)
  BY DEF Alike, Found
<1>4. found \in SUBSET (1 .. m) /\ others \in SUBSET (1 .. m) /\ 1 \notin found /\ 1 \notin others
  <2>1. \A i \in 2 .. m : i \in 1 .. m
    BY <1>1
  <2>2. 1 \notin 2 .. m
    BY <1>1
  <2> QED BY <1>3, <2>1, <2>2
<1> HIDE DEF found
<1>5. p \in Seq(E) /\ ToSet(p) = {rest[n] : n \in found} /\ Distinct(p) /\ Len(p) = Cardinality(found)
  BY <1>4, PickedHolds, PickedLength
<1>6. left \in Seq(E) /\ ToSet(left) = {rest[n] : n \in others} /\ Distinct(left)
      /\ Len(left) = Cardinality(others)
  <2>1. left = Picked(rest, others)
    BY DEF found, LeftOver
  <2> HIDE DEF others
  <2>2. /\ Picked(rest, others) \in Seq(E) /\ Distinct(Picked(rest, others))
        /\ ToSet(Picked(rest, others)) = {rest[n] : n \in others}
    BY <1>4, PickedHolds
  <2>3. Len(Picked(rest, others)) = Cardinality(others)
    BY <1>4, PickedLength
  <2> QED BY <2>1, <2>2, <2>3
<1> DEFINE r == Reverse(p)
<1> HIDE DEF p
<1>7. r \in Seq(E) /\ Len(r) = Len(p) /\ ToSet(r) = ToSet(p) /\ Distinct(r)
  BY <1>5, ReverseHolds
<1> HIDE DEF r
<1> DEFINE one == <<rest[1]>>
<1>8. b = one \o r /\ one \in Seq(E) /\ ToSet(one) = {rest[1]} /\ Distinct(one) /\ Len(one) = 1 /\ one[1] = rest[1]
  <2>1. rest[1] \in E
    BY <1>1
  <2>2. b = one \o r
    BY DEF r, p, found, Taken
  <2>3. Len(one) = 1 /\ one[1] = rest[1]
    OBVIOUS
  <2> QED BY <2>1, <2>2, <2>3, OneElement
<1> HIDE DEF one
<1>9. b \in Seq(E) /\ b # <<>> /\ b[1] = rest[1] /\ Len(b) = 1 + Cardinality(found)
  <2>1. one \o r \in Seq(E) /\ Len(one \o r) = Len(one) + Len(r) /\ Len(r) \in Nat
    <3>1. one \in Seq(E) /\ r \in Seq(E)
      BY <1>7, <1>8
    <3> QED BY <3>1, ConcatProperties, LenProperties, Zenon
  <2>2. (one \o r)[1] = one[1]
    BY <1>7, <1>8, <2>1, ConcatProperties
  <2>3. b # <<>>
    BY <1>8, <2>1
  <2> QED BY <1>5, <1>7, <1>8, <2>1, <2>2, <2>3
<1>10. ToSet(b) = {rest[1]} \cup {rest[n] : n \in found}
  <2>1. ToSet(one \o r) = ToSet(one) \cup ToSet(r)
    BY <1>7, <1>8, ConcatElements
  <2> QED BY <1>5, <1>7, <1>8, <2>1
<1>11. \A n \in 2 .. m : rest[n] # rest[1]
  <2>1. \A n \in 2 .. m : n \in 1 .. m /\ n # 1 /\ 1 \in 1 .. m
    BY <1>1
  <2> QED BY <2>1 DEF Distinct
<1>12. Distinct(b)
  <2>1. ToSet(one) \cap ToSet(r) = {}
    BY <1>3, <1>5, <1>7, <1>8, <1>11
  <2>2. Distinct(one \o r)
    BY <1>7, <1>8, <2>1, ConcatDistinct
  <2> QED BY <1>8, <2>2
<1>13. ToSet(b) \cap ToSet(left) = {}
  <2>1. \A i \in found, j \in others : rest[i] # rest[j]
    BY <1>4 DEF Distinct
  <2> QED BY <1>6, <1>10, <1>11, <2>1
<1>14. ToSet(b) \cup ToSet(left) = ToSet(rest)
  <2>1. \A i \in 1 .. m : i = 1 \/ i \in found \/ i \in others
    BY <1>1
  <2>2. ToSet(rest) = {rest[i] : i \in 1 .. m}
    BY Elements
  <2>3. 1 \in 1 .. m
    BY <1>1
  <2> HIDE DEF others
  <2> QED BY <1>4, <1>6, <1>10, <2>1, <2>2, <2>3
<1>15. Len(left) < m
  <2>1. IsFiniteSet(1 .. m) /\ Cardinality(1 .. m) = m
    <3>1. 1 \in Int /\ m \in Int
      BY <1>1
    <3>2. IsFiniteSet(1 .. m) /\ Cardinality(1 .. m) = IF 1 > m THEN 0 ELSE m - 1 + 1
      BY <3>1, FS_Interval
    <3> QED BY <1>1, <3>2
  <2>2. others # 1 .. m
    BY <1>1, <1>4
  <2>3. Cardinality(others) <= m /\ (Cardinality(others) = m => others = 1 .. m)
    <3> HIDE DEF others
    <3> QED BY <1>4, <2>1, FS_Subset
  <2>4. Len(left) \in Nat
    BY <1>6
  <2> QED BY <1>1, <1>6, <2>2, <2>3, <2>4
<1>16. \A e \in ToSet(b) : Similar(b[1], e)
  <2>1. Similar(rest[1], rest[1])
    <3>1. rest[1] \in E
      BY <1>1
    <3>2. rest[1].size - rest[1].size = 0
      BY <3>1
    <3>3. 0 \in (0 - Nearness) .. Nearness
      BY <1>2
    <3> QED BY <3>2, <3>3 DEF Similar
  <2>2. \A n \in found : Similar(rest[1], rest[n])
    BY <1>3 DEF Alike
  <2> QED BY <1>9, <1>10, <2>1, <2>2
<1>17. ASSUME Len(b) < MaxSize, NEW e \in ToSet(left), Similar(b[1], e) PROVE FALSE
  <2>1. PICK i \in others : e = rest[i]
    BY <1>6
  <2> DEFINE X == Alike(rest) \ found
  <2>2. i \in X
    BY <1>9, <1>17, <2>1 DEF Alike
  <2>3. X \in SUBSET Nat
    BY <1>3
  <2>4. PICK n \in X : \A k \in X : n <= k
    <3> HIDE DEF X
    <3> QED BY <2>2, <2>3, LeastOf
  <2> DEFINE below == {k \in Alike(rest) : k < n}
  <2>5. Cardinality(below) >= limit
    <3>1. ~ (Cardinality(below) < limit)
      <4>1. n \in Alike(rest) /\ n \notin Found(rest)
        BY <2>4 DEF found
      <4> QED BY <4>1 DEF Found
    <3>2. Cardinality(below) \in Nat
      <4>1. below \in SUBSET (1 .. m)
        <5>1. \A k \in 2 .. m : k \in 1 .. m
          BY <1>1
        <5> QED BY <1>3, <5>1
      <4>2. IsFiniteSet(below)
        <5> HIDE DEF below
        <5> QED BY <1>1, <4>1, PlacesFinite
      <4> HIDE DEF below
      <4> QED BY <4>2, FS_CardinalityType
    <3> HIDE DEF below
    <3> QED BY <1>2, <3>1, <3>2
  <2>6. below \subseteq found
    <3> SUFFICES ASSUME NEW k \in Alike(rest), k < n, k \notin found PROVE FALSE
      OBVIOUS
    <3>1. k \in X /\ n <= k
      BY <2>4
    <3> QED BY <2>3, <2>4, <3>1
  <2>7. IsFiniteSet(found)
    BY <1>1, <1>4, PlacesFinite
  <2>8. Cardinality(below) <= Cardinality(found) /\ Cardinality(found) \in Nat /\ Cardinality(below) \in Nat
    <3> HIDE DEF below
    <3> QED BY <2>6, <2>7, FS_Subset, FS_CardinalityType
  <2> HIDE DEF below
  <2>9. Cardinality(found) >= MaxSize - 1
    BY <1>2, <2>5, <2>8
  <2> QED BY <1>2, <1>9, <1>17, <2>8, <2>9
<1>18. Len(b) <= MostSimilar
  <2>1. IsFiniteSet(found) /\ Cardinality(found) \in Nat
    BY <1>1, <1>4, PlacesFinite, FS_CardinalityType
  <2>2. CASE found = {}
    <3>1. Cardinality(found) = 0
      BY <2>2, FS_EmptySet
    <3> QED BY <1>2, <1>9, <3>1
  <2>3. CASE found # {}
    <3> DEFINE Y == {k \in 0 .. m : m - k \in found}
    <3>1. Y \in SUBSET Nat /\ Y # {}
      <4>1. PICK n \in found : n \in 1 .. m
        BY <1>4, <2>3
      <4>2. m - n \in 0 .. m /\ m - (m - n) = n
        BY <1>1, <4>1
      <4>3. m - n \in Y
        BY <4>1, <4>2
      <4> QED BY <1>1, <4>3
    <3>2. PICK y \in Y : \A k \in Y : y <= k
      <4> HIDE DEF Y
      <4> QED BY <3>1, LeastOf
    <3> DEFINE n == m - y
               below == {k \in Alike(rest) : k < n}
    <3>3. n \in found /\ n \in Nat
      BY <1>1, <1>4, <3>2
    <3>4. \A k \in found : k <= n
      <4> SUFFICES ASSUME NEW k \in found PROVE k <= n
        OBVIOUS
      <4>1. k \in 1 .. m /\ m - k \in 0 .. m /\ m - (m - k) = k
        BY <1>1, <1>4
      <4>2. m - k \in Y
        BY <4>1
      <4>3. y <= m - k /\ y \in Nat
        BY <3>1, <3>2, <4>2
      <4> QED BY <1>1, <4>1, <4>3
    <3>5. Cardinality(below) < limit
      <4>1. n \in Found(rest)
        BY <3>3 DEF found
      <4> QED BY <4>1 DEF Found
    <3>6. found \subseteq below \cup {n}
      <4> SUFFICES ASSUME NEW k \in found, k # n PROVE k < n /\ k \in Alike(rest)
        OBVIOUS
      <4>1. k \in Nat /\ k <= n
        BY <1>4, <3>4
      <4> QED BY <1>3, <3>3, <4>1
    <3>7. IsFiniteSet(below) /\ n \notin below
      <4>1. below \in SUBSET (1 .. m)
        <5>1. \A k \in 2 .. m : k \in 1 .. m
          BY <1>1
        <5> QED BY <1>3, <5>1
      <4>2. n \notin below
        BY <3>3
      <4> HIDE DEF below, n
      <4> QED BY <1>1, <4>1, <4>2, PlacesFinite
    <3> HIDE DEF below, n
    <3>8. /\ IsFiniteSet(below \cup {n}) /\ Cardinality(below \cup {n}) = Cardinality(below) + 1
          /\ Cardinality(below) \in Nat
      BY <3>7, FS_AddElement, FS_CardinalityType
    <3>9. Cardinality(found) <= Cardinality(below \cup {n})
      BY <3>6, <3>8, FS_Subset
    <3> QED BY <1>2, <1>9, <2>1, <3>5, <3>8, <3>9
  <2> QED BY <2>2, <2>3
<1> QED BY <1>6, <1>9, <1>12, <1>13, <1>14, <1>15, <1>16, <1>17, <1>18

\* What GroupsTight says of batches by similarity; and it of the rest.
LikeFirst(bs) ==
    \A n \in 1 .. Len(bs) :
        /\ bs[n] # <<>> /\ Len(bs[n]) <= MostSimilar
        /\ \A e \in ToSet(bs[n]) : Similar(bs[n][1], e)
        /\ Len(bs[n]) < MaxSize => \A k \in n + 1 .. Len(bs) :
              \A e \in ToSet(bs[k]) : ~ Similar(bs[n][1], e)
Rounds(E) == [batches : Seq(Seq(E)), rest : Seq(E)]
RoundFine(acc, list) ==
    /\ LikeFirst(acc.batches)
    /\ \A n \in 1 .. Len(acc.batches) : Len(acc.batches[n]) < MaxSize =>
          \A e \in ToSet(acc.rest) : ~ Similar(acc.batches[n][1], e)
    /\ Distinct(FlattenSeq(acc.batches)) /\ Distinct(acc.rest)
    /\ ToSet(FlattenSeq(acc.batches)) \cap ToSet(acc.rest) = {}
    /\ ToSet(FlattenSeq(acc.batches)) \cup ToSet(acc.rest) = ToSet(list)

LEMMA TakeKeeps ==
    ASSUME NEW E, Sized(E), NEW list \in Seq(E), NEW acc \in Rounds(E), RoundFine(acc, list)
    PROVE  /\ TakeSimilar(acc) \in Rounds(E) /\ RoundFine(TakeSimilar(acc), list)
           /\ acc.rest = <<>> => TakeSimilar(acc) = acc
           /\ acc.rest # <<>> => Len(TakeSimilar(acc).rest) < Len(acc.rest)
<1>1. CASE acc.rest = <<>>
  BY <1>1 DEF TakeSimilar
<1>2. CASE acc.rest # <<>>
  <2> DEFINE b == <<acc.rest[1]>> \o Reverse(Picked(acc.rest, Found(acc.rest)))
             left == Picked(acc.rest, 2 .. Len(acc.rest) \ Found(acc.rest))
             bs == acc.batches
             cs == Append(bs, b)
             new == TakeSimilar(acc)
  <2>1. acc.rest \in Seq(E) /\ bs \in Seq(Seq(E)) /\ Distinct(acc.rest)
    BY DEF Rounds, RoundFine
  <2>2. new = [batches |-> cs, rest |-> left]
    BY <1>2 DEF TakeSimilar
  <2>3. /\ b \in Seq(E) /\ left \in Seq(E)
        /\ b # <<>> /\ b[1] = acc.rest[1]
        /\ Distinct(b) /\ Distinct(left) /\ ToSet(b) \cap ToSet(left) = {}
        /\ ToSet(b) \cup ToSet(left) = ToSet(acc.rest)
        /\ Len(left) < Len(acc.rest)
        /\ \A e \in ToSet(b) : Similar(b[1], e)
        /\ Len(b) <= MostSimilar
        /\ Len(b) < MaxSize => \A e \in ToSet(left) : ~ Similar(b[1], e)
    <3> DEFINE rest == acc.rest
    <3>1. b = Taken(rest) /\ left = LeftOver(rest)
      BY DEF Taken, LeftOver
    <3>2. \A e \in E : e.size \in Nat
      BY DEF Sized
    <3>3. rest \in Seq(E) /\ Distinct(rest) /\ rest # <<>>
      BY <1>2, <2>1
    <3> HIDE DEF b, left, rest
    <3>4. /\ b \in Seq(E) /\ left \in Seq(E)
          /\ b # <<>> /\ b[1] = rest[1]
          /\ Distinct(b) /\ Distinct(left) /\ ToSet(b) \cap ToSet(left) = {}
          /\ ToSet(b) \cup ToSet(left) = ToSet(rest)
          /\ Len(left) < Len(rest)
          /\ \A e \in ToSet(b) : Similar(b[1], e)
          /\ Len(b) <= MostSimilar
          /\ Len(b) < MaxSize => \A e \in ToSet(left) : ~ Similar(b[1], e)
      BY <3>1, <3>2, <3>3, TakenAndLeft
    <3> QED BY <3>4 DEF rest
  <2> HIDE DEF b, left, new
  <2>4. /\ cs \in Seq(Seq(E)) /\ Len(cs) = Len(bs) + 1 /\ Len(bs) \in Nat /\ cs[Len(bs) + 1] = b
        /\ \A n \in 1 .. Len(bs) : cs[n] = bs[n]
    BY <2>1, <2>3
  <2>5. FlattenSeq(cs) = FlattenSeq(bs) \o b /\ FlattenSeq(bs) \in Seq(E)
    BY <2>1, <2>3, FlattenAppend, FlattenType
  <2> HIDE DEF cs
  <2>6. ToSet(FlattenSeq(cs)) = ToSet(FlattenSeq(bs)) \cup ToSet(b)
    BY <2>3, <2>5, ConcatElements
  <2>7. /\ LikeFirst(bs)
        /\ \A n \in 1 .. Len(bs) : Len(bs[n]) < MaxSize =>
              \A e \in ToSet(acc.rest) : ~ Similar(bs[n][1], e)
        /\ Distinct(FlattenSeq(bs)) /\ ToSet(FlattenSeq(bs)) \cap ToSet(acc.rest) = {}
        /\ ToSet(FlattenSeq(bs)) \cup ToSet(acc.rest) = ToSet(list)
    BY DEF RoundFine
  <2>8. Distinct(FlattenSeq(cs))
    <3>1. ToSet(FlattenSeq(bs)) \cap ToSet(b) = {}
      BY <2>3, <2>7
    <3> QED BY <2>3, <2>5, <2>7, <3>1, ConcatDistinct
  <2>9. \A n \in 1 .. Len(cs) : n \in 1 .. Len(bs) \/ n = Len(bs) + 1
    BY <2>4
  <2>10. LikeFirst(cs)
    <3> SUFFICES ASSUME NEW n \in 1 .. Len(cs)
                 PROVE  /\ cs[n] # <<>> /\ Len(cs[n]) <= MostSimilar
                        /\ \A e \in ToSet(cs[n]) : Similar(cs[n][1], e)
                        /\ Len(cs[n]) < MaxSize => \A k \in n + 1 .. Len(cs) :
                              \A e \in ToSet(cs[k]) : ~ Similar(cs[n][1], e)
      BY DEF LikeFirst
    <3>1. CASE n \in 1 .. Len(bs)
      <4>1. cs[n] = bs[n]
        BY <2>4, <3>1
      <4>2. ASSUME Len(bs[n]) < MaxSize, NEW k \in n + 1 .. Len(cs), NEW e \in ToSet(cs[k])
            PROVE  ~ Similar(bs[n][1], e)
        <5>1. CASE k \in 1 .. Len(bs)
          <6>1. k \in n + 1 .. Len(bs)
            BY <4>2, <5>1
          <6>2. cs[k] = bs[k]
            BY <2>4, <5>1
          <6>3. \A f \in ToSet(bs[k]) : ~ Similar(bs[n][1], f)
            BY <2>7, <3>1, <4>2, <6>1 DEF LikeFirst
          <6> QED BY <4>2, <6>2, <6>3
        <5>2. CASE k \notin 1 .. Len(bs)
          <6>1. k \in 1 .. Len(cs)
            BY <2>4, <3>1, <4>2
          <6>2. k = Len(bs) + 1
            BY <2>9, <5>2, <6>1
          <6>3. e \in ToSet(acc.rest)
            BY <2>3, <2>4, <4>2, <6>2
          <6> QED BY <2>7, <3>1, <4>2, <6>3
        <5> QED BY <5>1, <5>2
      <4> QED BY <2>7, <3>1, <4>1, <4>2 DEF LikeFirst
    <3>2. CASE n = Len(bs) + 1
      <4>1. cs[n] = b /\ \A k \in n + 1 .. Len(cs) : FALSE
        BY <2>4, <3>2
      <4> QED BY <2>3, <4>1
    <3> QED BY <2>9, <3>1, <3>2
  <2>11. ASSUME NEW n \in 1 .. Len(cs), Len(cs[n]) < MaxSize, NEW e \in ToSet(left)
         PROVE  ~ Similar(cs[n][1], e)
    <3>1. CASE n \in 1 .. Len(bs)
      <4>1. cs[n] = bs[n] /\ e \in ToSet(acc.rest)
        BY <2>3, <2>4, <3>1
      <4> QED BY <2>7, <2>11, <3>1, <4>1
    <3>2. CASE n = Len(bs) + 1
      BY <2>3, <2>4, <2>11, <3>2
    <3> QED BY <2>9, <3>1, <3>2
  <2>12. new \in Rounds(E) /\ RoundFine(new, list)
    <3>1. new \in Rounds(E)
      BY <2>2, <2>3, <2>4 DEF Rounds
    <3>2. ToSet(FlattenSeq(cs)) \cap ToSet(left) = {}
      BY <2>3, <2>6, <2>7
    <3>3. ToSet(FlattenSeq(cs)) \cup ToSet(left) = ToSet(list)
      BY <2>3, <2>6, <2>7
    <3> QED BY <2>2, <2>3, <2>8, <2>10, <2>11, <3>1, <3>2, <3>3 DEF RoundFine
  <2> QED BY <1>2, <2>2, <2>3, <2>12 DEF new
<1> QED BY <1>1, <1>2

\* The rounds of BySimilarity.
IsRound(list, g) ==
    g = [n \in 0 .. Len(list) |->
            IF n = 0 THEN [batches |-> <<>>, rest |-> list] ELSE TakeSimilar(g[n - 1])]

\* Batches by similarity hold each entity of the list once, and are tight.
LEMMA BySimilarityHolds ==
    ASSUME NEW E, Sized(E), NEW list \in Seq(E), Distinct(list)
    PROVE  /\ BySimilarity(list) \in Seq(Seq(E)) /\ LikeFirst(BySimilarity(list))
           /\ Distinct(FlattenSeq(BySimilarity(list)))
           /\ ToSet(FlattenSeq(BySimilarity(list))) = ToSet(list)
<1> DEFINE m == Len(list)
           first == [batches |-> <<>>, rest |-> list]
           Fine == {acc \in Rounds(E) : RoundFine(acc, list)}
           F == [x \in (1 .. m) \X Fine |-> TakeSimilar(x[2])]
<1>1. m \in Nat
  BY LenProperties
<1>2. first \in Fine
  <2>1. <<>> \in Seq(Seq(E)) /\ Len(<<>>) = 0 /\ ToSet(<<>>) = {} /\ Distinct(<<>>)
    BY DEF ToSet, Distinct
  <2>2. first \in Rounds(E)
    BY <2>1 DEF Rounds
  <2>3. LikeFirst(<<>>)
    BY <2>1 DEF LikeFirst
  <2>4. RoundFine(first, list)
    BY <2>1, <2>3, FlattenEmpty DEF RoundFine
  <2> QED BY <2>2, <2>4
<1>3. F \in [(1 .. m) \X Fine -> Fine]
  <2>1. ASSUME NEW x \in (1 .. m) \X Fine PROVE TakeSimilar(x[2]) \in Fine
    <3>1. x[2] \in Fine
      OBVIOUS
    <3> QED BY <3>1, TakeKeeps
  <2> HIDE DEF Fine
  <2> QED BY <2>1
<1>4. PICK h \in [0 .. m -> Fine] : h[0] = first /\ \A n \in 1 .. m : h[n] = F[<<n, h[n - 1]>>]
  <2>1. Recursion(Fine, first, m, F)
    BY <1>1, <1>2, <1>3 DEF Recursion
  <2> HIDE DEF F, m, Fine, first
  <2>2. PICK h : Recurs(Fine, first, m, F, h)
    BY <2>1, Recursive
  <2> QED BY <2>2 DEF Recurs
<1> HIDE DEF Fine
<1>5. \A n \in 1 .. m : n - 1 \in 0 .. m /\ n # 0 /\ h[n] = TakeSimilar(h[n - 1])
  <2> SUFFICES ASSUME NEW n \in 1 .. m
               PROVE  n - 1 \in 0 .. m /\ n # 0 /\ h[n] = TakeSimilar(h[n - 1])
    OBVIOUS
  <2>1. n - 1 \in 0 .. m /\ n # 0
    BY <1>1
  <2>2. <<n, h[n - 1]>> \in (1 .. m) \X Fine
    BY <2>1
  <2> QED BY <1>4, <2>1, <2>2
<1>6. IsRound(list, h)
  <2>1. h = [n \in 0 .. m |-> h[n]]
    OBVIOUS
  <2>2. \A n \in 0 .. m : h[n] = IF n = 0 THEN first ELSE TakeSimilar(h[n - 1])
    <3>1. \A n \in 0 .. m : n = 0 \/ n \in 1 .. m
      BY <1>1
    <3> HIDE DEF F, m, first
    <3> QED BY <1>4, <1>5, <3>1
  <2> HIDE DEF F
  <2> QED BY <2>1, <2>2 DEF IsRound
<1> DEFINE g == CHOOSE f : IsRound(list, f)
<1>7. IsRound(list, g)
  BY <1>6
<1>8. BySimilarity(list) = g[m].batches
  BY DEF BySimilarity, IsRound
<1> HIDE DEF g, F
<1>9. \A n \in 0 .. m : g[n] = IF n = 0 THEN first ELSE TakeSimilar(g[n - 1])
  BY <1>7 DEF IsRound
<1> HIDE DEF first
<1> DEFINE T == {n \in 0 .. m : g[n] = h[n]}
<1>10. \A n \in 0 .. m : n \in T
  <2>1. 0 \in T
    BY <1>1, <1>4, <1>9
  <2>2. ASSUME NEW n \in 1 .. m, n - 1 \in T PROVE n \in T
    <3>1. n \in 0 .. m /\ n # 0
      BY <1>1
    <3> QED BY <1>5, <1>9, <2>2, <3>1
  <2> HIDE DEF T, m
  <2> QED BY <1>1, <2>1, <2>2, UpToTheLast
<1>11. \A n \in 0 .. m : h[n] \in Rounds(E) /\ RoundFine(h[n], list)
  BY DEF Fine
\* Each round takes one entity at least.
<1> DEFINE U == {n \in 0 .. m : h[n].rest = <<>> \/ Len(h[n].rest) + n <= m}
<1>12. \A n \in 0 .. m : n \in U
  <2>1. 0 \in U
    <3>1. h[0].rest = list
      BY <1>4 DEF first
    <3> QED BY <1>1, <3>1
  <2>2. ASSUME NEW n \in 1 .. m, n - 1 \in U PROVE n \in U
    <3>1. n - 1 \in 0 .. m /\ n \in 0 .. m
      BY <1>1
    <3>2. h[n - 1] \in Rounds(E) /\ RoundFine(h[n - 1], list) /\ h[n] \in Rounds(E)
      BY <1>11, <3>1
    <3>3. h[n - 1].rest \in Seq(E) /\ h[n].rest \in Seq(E)
      BY <3>2 DEF Rounds
    <3>4. CASE h[n - 1].rest = <<>>
      <4>1. h[n] = h[n - 1]
        BY <1>5, <3>2, <3>4, TakeKeeps
      <4> QED BY <3>1, <3>4, <4>1
    <3>5. CASE h[n - 1].rest # <<>>
      <4>1. Len(h[n].rest) < Len(h[n - 1].rest)
        BY <1>5, <3>2, <3>5, TakeKeeps
      <4>2. Len(h[n - 1].rest) + (n - 1) <= m
        BY <2>2, <3>5
      <4>3. Len(h[n].rest) \in Nat /\ Len(h[n - 1].rest) \in Nat
        BY <3>3, LenProperties
      <4>4. Len(h[n].rest) + n <= m
        BY <1>1, <4>1, <4>2, <4>3
      <4> QED BY <3>1, <4>4
    <3> QED BY <3>4, <3>5
  <2> HIDE DEF U, m
  <2> QED BY <1>1, <2>1, <2>2, UpToTheLast
<1>13. m \in 0 .. m
  BY <1>1
<1>14. g[m] = h[m] /\ h[m] \in Rounds(E) /\ RoundFine(h[m], list)
  BY <1>10, <1>11, <1>13
<1>15. h[m].rest = <<>>
  <2>1. h[m].rest \in Seq(E)
    BY <1>14 DEF Rounds
  <2>2. h[m].rest = <<>> \/ Len(h[m].rest) + m <= m
    BY <1>12, <1>13
  <2>3. Len(h[m].rest) = 0 => h[m].rest = <<>>
    BY <2>1, EmptySeq
  <2>4. Len(h[m].rest) \in Nat
    BY <2>1, LenProperties
  <2> QED BY <1>1, <2>2, <2>3, <2>4
<1>16. ToSet(<<>>) = {}
  BY DEF ToSet
<1>17. h[m].batches \in Seq(Seq(E))
  BY <1>14 DEF Rounds
<1> QED BY <1>8, <1>14, <1>15, <1>16, <1>17 DEF RoundFine

-----------------------------------------------------------------------------
(***************************************************************************)
(* The lists that are cut, and what every strategy makes of them.          *)
(***************************************************************************)

EntityRecords == [id : Nat, size : Sizes, kind : EntityKinds]
Numbered(list) == list \in Seq(EntityRecords) /\ \A n \in 1 .. Len(list) : list[n].id = n

\* The result of a strategy.
CutWell(by, bs, list) ==
    /\ bs \in Seq(Seq(EntityRecords)) /\ \A n \in 1 .. Len(bs) : bs[n] # <<>>
    /\ Distinct(FlattenSeq(bs)) /\ ToSet(FlattenSeq(bs)) = ToSet(list)
    /\ by \in {"size", "adaptive"} => FlattenSeq(bs) = list
    /\ by = "size" => TightSizes(bs)
    /\ by = "kind" => OfOneKind(bs)
    /\ by = "similarity" => LikeFirst(bs)

LEMMA NumberedDistinct ==
    ASSUME NEW list, Numbered(list)
    PROVE  Distinct(list)
BY DEF Numbered, Distinct

LEMMA RecordsSized == Sized(EntityRecords)
BY BatchAssumption DEF Sized, EntityRecords

LEMMA LongNotEmpty ==
    ASSUME NEW s, NEW n, Len(s) \in 1 .. n
    PROVE  s # <<>>
<1> SUFFICES ASSUME s = <<>> PROVE FALSE
  OBVIOUS
<1>1. Len(s) = 0
  OBVIOUS
<1> QED BY <1>1

LEMMA SizeCuts ==
    ASSUME NEW list, Numbered(list)
    PROVE  CutWell("size", BySize(list), list)
<1>1. list \in Seq(EntityRecords) /\ Distinct(list)
  BY NumberedDistinct DEF Numbered
<1>2. /\ BySize(list) \in Seq(Seq(EntityRecords)) /\ TightSizes(BySize(list))
      /\ FlattenSeq(BySize(list)) = list
  BY <1>1, RecordsSized, BySizeHolds
<1>3. \A n \in 1 .. Len(BySize(list)) : BySize(list)[n] # <<>>
  BY <1>2 DEF TightSizes
<1> QED BY <1>1, <1>2, <1>3 DEF CutWell

LEMMA SlicesCut ==
    ASSUME NEW list, Numbered(list), NEW size \in Nat, size > 0
    PROVE  CutWell("adaptive", SlicesOf(list, size), list)
<1> DEFINE bs == SlicesOf(list, size)
<1>1. list \in Seq(EntityRecords) /\ Distinct(list)
  BY NumberedDistinct DEF Numbered
<1>2. /\ bs \in Seq(Seq(EntityRecords)) /\ FlattenSeq(bs) = list
      /\ \A k \in 1 .. Len(bs) : Len(bs[k]) \in 1 .. size
  BY <1>1, SlicesAre
<1> HIDE DEF bs
<1>3. \A n \in 1 .. Len(bs) : bs[n] # <<>>
  BY <1>2, LongNotEmpty
<1>4. CutWell("adaptive", bs, list)
  BY <1>1, <1>2, <1>3 DEF CutWell
<1> QED BY <1>4 DEF bs

LEMMA KindsCut ==
    ASSUME NEW list, Numbered(list)
    PROVE  CutWell("kind", ByKind(list), list)
<1>1. list \in Seq(EntityRecords) /\ Distinct(list)
  BY NumberedDistinct DEF Numbered
<1>2. /\ ByKind(list) \in Seq(Seq(EntityRecords)) /\ OfOneKind(ByKind(list))
      /\ Distinct(FlattenSeq(ByKind(list))) /\ ToSet(FlattenSeq(ByKind(list))) = ToSet(list)
  BY <1>1, ByKindHolds
<1>3. \A n \in 1 .. Len(ByKind(list)) : ByKind(list)[n] # <<>>
  BY <1>2, LongNotEmpty DEF OfOneKind
<1> QED BY <1>2, <1>3 DEF CutWell

LEMMA SimilarityCuts ==
    ASSUME NEW list, Numbered(list)
    PROVE  CutWell("similarity", BySimilarity(list), list)
<1>1. list \in Seq(EntityRecords) /\ Distinct(list)
  BY NumberedDistinct DEF Numbered
<1>2. /\ BySimilarity(list) \in Seq(Seq(EntityRecords)) /\ LikeFirst(BySimilarity(list))
      /\ Distinct(FlattenSeq(BySimilarity(list)))
      /\ ToSet(FlattenSeq(BySimilarity(list))) = ToSet(list)
  BY <1>1, RecordsSized, BySimilarityHolds
<1>3. \A n \in 1 .. Len(BySimilarity(list)) : BySimilarity(list)[n] # <<>>
  BY <1>2 DEF LikeFirst
<1> QED BY <1>2, <1>3 DEF CutWell

\* The invariant: the list numbers its entities, and a result is of the list as it is.
Strategies == {"size", "adaptive", "kind", "similarity"}
BatchInv ==
    /\ Numbered(entities)
    /\ batchSize \in MinBatch .. MaxBatch
    /\ cut.by \in {"none"} \cup Strategies
    /\ Cut => CutWell(cut.by, CutBatches, entities)

LEMMA BatchStarts == BatchInit => BatchInv
<1> SUFFICES ASSUME BatchInit PROVE BatchInv
  OBVIOUS
<1>1. entities = <<>> /\ cut.by = "none" /\ batchSize \in MinBatch .. MaxBatch
  BY DEF BatchInit, Empty
<1>2. <<>> \in Seq(EntityRecords) /\ Len(<<>>) = 0
  OBVIOUS
<1>3. Numbered(<<>>)
  BY <1>2 DEF Numbered
<1> QED BY <1>1, <1>3, BatchAssumption DEF BatchInv, Cut

LEMMA OneMoreNumbered ==
    ASSUME NEW list, Numbered(list), NEW size \in Sizes, NEW kind \in EntityKinds
    PROVE  Numbered(Append(list, Entity(Len(list) + 1, size, kind)))
<1> DEFINE e == Entity(Len(list) + 1, size, kind)
           more == Append(list, e)
<1>1. list \in Seq(EntityRecords) /\ Len(list) \in Nat
  BY LenProperties DEF Numbered
<1>2. e \in EntityRecords /\ e.id = Len(list) + 1
  BY <1>1 DEF Entity, EntityRecords
<1> HIDE DEF e
<1>3. OneMore(EntityRecords, list, e, more)
  BY <1>1, <1>2, AppendBatch
<1> HIDE DEF more
<1>4. ASSUME NEW n \in 1 .. Len(more) PROVE more[n].id = n
  <2>1. n \in 1 .. Len(list) \/ n = Len(list) + 1
    BY <1>1, <1>3 DEF OneMore
  <2>2. CASE n \in 1 .. Len(list)
    BY <1>3, <2>2 DEF OneMore, Numbered
  <2>3. CASE n = Len(list) + 1
    BY <1>2, <1>3, <2>3 DEF OneMore
  <2> QED BY <2>1, <2>2, <2>3
<1>5. Numbered(more)
  BY <1>3, <1>4 DEF Numbered, OneMore
<1> QED BY <1>5 DEF more, e

LEMMA ClampFine == \A n \in Int : Clamp(n) \in MinBatch .. MaxBatch
BY BatchAssumption DEF Clamp

LEMMA BatchKeeps == BatchInv /\ [BatchNext]_batchVars => BatchInv'
<1> SUFFICES ASSUME BatchInv, [BatchNext]_batchVars PROVE BatchInv'
  OBVIOUS
<1>1. ASSUME NEW size \in Sizes, NEW kind \in EntityKinds, AddEntity(size, kind) PROVE BatchInv'
  <2>1. /\ entities' = Append(entities, Entity(Len(entities) + 1, size, kind))
        /\ cut' = Empty /\ batchSize' = batchSize
    BY <1>1 DEF AddEntity
  <2>2. Numbered(entities')
    BY <2>1, OneMoreNumbered DEF BatchInv
  <2>3. cut'.by = "none" /\ ~ Cut'
    BY <2>1 DEF Empty, Cut
  <2> QED BY <2>1, <2>2, <2>3 DEF BatchInv
<1>2. ASSUME NEW by \in Strategies, CreateBatches(by) PROVE BatchInv'
  <2>1. /\ cut'.by = by /\ entities' = entities /\ batchSize' = batchSize
        /\ by = "size" => cut'.batches = BySize(entities)
        /\ by = "adaptive" => cut'.batches = SlicesOf(entities, batchSize)
        /\ by = "kind" => cut'.batches = ByKind(entities)
        /\ by = "similarity" => cut'.batches = BySimilarity(entities)
    <3> DEFINE bs == CASE by = "size"       -> BySize(entities)
                       [] by = "adaptive"   -> SlicesOf(entities, batchSize)
                       [] by = "kind"       -> ByKind(entities)
                       [] by = "similarity" -> BySimilarity(entities)
    <3>1. /\ by = "size" => bs = BySize(entities)
          /\ by = "adaptive" => bs = SlicesOf(entities, batchSize)
          /\ by = "kind" => bs = ByKind(entities)
          /\ by = "similarity" => bs = BySimilarity(entities)
      OBVIOUS
    <3>2. /\ cut' = [by |-> by, batches |-> bs, limit |-> IF by = "adaptive" THEN batchSize ELSE MaxSize]
          /\ entities' = entities /\ batchSize' = batchSize
      BY <1>2 DEF CreateBatches
    <3> HIDE DEF bs
    <3>3. cut'.by = by /\ cut'.batches = bs
      BY <3>2
    <3> QED BY <3>1, <3>2, <3>3
  <2>2. Numbered(entities) /\ batchSize \in Nat /\ batchSize > 0
    BY BatchAssumption DEF BatchInv
  <2>3. CutWell(by, cut'.batches, entities)
    <3>1. CASE by = "size"
      BY <2>1, <2>2, <3>1, SizeCuts
    <3>2. CASE by = "adaptive"
      BY <2>1, <2>2, <3>2, SlicesCut
    <3>3. CASE by = "kind"
      BY <2>1, <2>2, <3>3, KindsCut
    <3>4. CASE by = "similarity"
      BY <2>1, <2>2, <3>4, SimilarityCuts
    <3> QED BY <3>1, <3>2, <3>3, <3>4 DEF Strategies
  <2> QED BY <2>1, <2>3 DEF BatchInv, CutBatches
<1>3. ASSUME NEW tenths \in Slow \cup Fast \cup {10}, Adapt(tenths) PROVE BatchInv'
  <2>1. batchSize \in Nat /\ tenths \in Nat
    BY BatchAssumption DEF BatchInv, Slow, Fast
  <2>2. batchSize * tenths \in Nat
    BY <2>1
  <2>3. (batchSize * tenths) \div 10 \in Int
    BY <2>2
  <2>4. batchSize' \in MinBatch .. MaxBatch
    BY <1>3, <2>3, ClampFine DEF Adapt
  <2>5. entities' = entities /\ cut' = cut
    BY <1>3 DEF Adapt
  <2> QED BY <2>4, <2>5 DEF BatchInv, Cut, CutBatches
<1>4. CASE UNCHANGED batchVars
  BY <1>4 DEF batchVars, BatchInv, Cut, CutBatches
<1> QED BY <1>1, <1>2, <1>3, <1>4 DEF BatchNext, Strategies

LEMMA BatchInvMeans == BatchInv => BatchesSound
<1> SUFFICES ASSUME BatchInv PROVE BatchesSound
  OBVIOUS
<1>1. entities \in Seq(EntityRecords) /\ Distinct(entities) /\ Numbered(entities)
  BY NumberedDistinct DEF BatchInv, Numbered
<1>2. BatchTypeOK
  <2>1. ASSUME NEW n \in 1 .. Len(entities)
        PROVE  entities[n] \in [id : {n}, size : Sizes, kind : EntityKinds]
    <3>1. entities[n] \in EntityRecords /\ entities[n].id = n
      BY <1>1 DEF Numbered
    <3> QED BY <3>1 DEF EntityRecords
  <2> QED BY <2>1 DEF BatchInv, BatchTypeOK, Strategies
<1> DEFINE flat == FlattenSeq(CutBatches)
<1>3. ASSUME Cut PROVE CutWell(cut.by, CutBatches, entities)
  BY <1>3 DEF BatchInv
<1>4. BatchesPartition
  <2> SUFFICES ASSUME Cut
               PROVE  /\ \A n \in 1 .. Len(CutBatches) : CutBatches[n] # <<>>
                      /\ Len(flat) = Len(entities) /\ ToSet(flat) = ToSet(entities)
                      /\ cut.by \in {"size", "adaptive"} => flat = entities
    BY DEF BatchesPartition
  <2>1. /\ CutBatches \in Seq(Seq(EntityRecords)) /\ \A n \in 1 .. Len(CutBatches) : CutBatches[n] # <<>>
        /\ Distinct(flat) /\ ToSet(flat) = ToSet(entities)
        /\ cut.by \in {"size", "adaptive"} => flat = entities
    BY <1>3 DEF CutWell
  <2>2. flat \in Seq(EntityRecords)
    BY <2>1, FlattenType
  <2> HIDE DEF flat
  <2>3. Cardinality(ToSet(flat)) = Len(flat) /\ Cardinality(ToSet(entities)) = Len(entities)
    BY <1>1, <2>1, <2>2, DistinctLength
  <2> QED BY <2>1, <2>3
<1>5. SizesTight
  BY <1>3 DEF SizesTight, CutWell, TightSizes, Cut
<1>6. GroupsTight
  <2>1. MaxSize \in Nat
    BY BatchAssumption
  <2>2. cut.by = "kind" => OfOneKind(CutBatches)
    BY <1>3 DEF CutWell, Cut
  <2>3. cut.by = "similarity" => LikeFirst(CutBatches)
    BY <1>3 DEF CutWell, Cut
  <2>4. ASSUME cut.by = "kind", NEW n \in 1 .. Len(CutBatches)
        PROVE  /\ Len(CutBatches[n]) <= MaxSize
               /\ \A e \in ToSet(CutBatches[n]) : e.kind = CutBatches[n][1].kind
               /\ Len(CutBatches[n]) < MaxSize =>
                    \A m \in n + 1 .. Len(CutBatches) : CutBatches[m][1].kind # CutBatches[n][1].kind
    <3>1. Len(CutBatches[n]) \in 1 .. MaxSize
      BY <2>2, <2>4 DEF OfOneKind
    <3>2. Len(CutBatches[n]) <= MaxSize
      BY <2>1, <3>1
    <3> QED BY <2>2, <2>4, <3>2 DEF OfOneKind
  <2>5. ASSUME cut.by = "similarity", NEW n \in 1 .. Len(CutBatches)
        PROVE  /\ Len(CutBatches[n]) <= MostSimilar
               /\ \A e \in ToSet(CutBatches[n]) : Similar(CutBatches[n][1], e)
               /\ Len(CutBatches[n]) < MaxSize => \A m \in n + 1 .. Len(CutBatches) :
                     \A e \in ToSet(CutBatches[m]) : ~ Similar(CutBatches[n][1], e)
    BY <2>3, <2>5 DEF LikeFirst
  <2> QED BY <2>4, <2>5 DEF GroupsTight
<1> QED BY <1>2, <1>4, <1>5, <1>6 DEF BatchesSound

\* Whatever the entities, the strategies of batch_strategies.py put each of them in one
\* batch, and fill the batches as far as the limit, the types and the likeness allow.
THEOREM BatchesAreSound == BatchSpec => []BatchesSound
<1>1. BatchInit => BatchInv
  BY BatchStarts
<1>2. BatchInv /\ [BatchNext]_batchVars => BatchInv'
  BY BatchKeeps
<1>3. BatchInv => BatchesSound
  BY BatchInvMeans
<1> QED BY <1>1, <1>2, <1>3, PTL DEF BatchSpec

-----------------------------------------------------------------------------
(***************************************************************************)
(* The queue of the asyncio workers.                                       *)
(***************************************************************************)

\* The keys of a queue fall, or stay.
Falling(q) == \A i, j \in 1 .. Len(q) : i < j => q[i].key >= q[j].key
Ids(q) == {q[i].id : i \in 1 .. Len(q)}
Keyed == [key : {-p : p \in AsyncPriorities}, id : AsyncItems]

\* A put keeps the order, and adds its id.
LEMMA PutKeepsOrder ==
    ASSUME NEW E, \A r \in E : r.key \in Int, NEW q \in Seq(E), Falling(q),
           NEW key, NEW id, [key |-> key, id |-> id] \in E
    PROVE  /\ Put(q, key, id) \in Seq(E) /\ Falling(Put(q, key, id))
           /\ Ids(Put(q, key, id)) = Ids(q) \cup {id}
<1> DEFINE L == Len(q)
           e == [key |-> key, id |-> id]
           smaller == {i \in 1 .. L : key > q[i].key}
           at == IF smaller = {} THEN L + 1 ELSE CHOOSE i \in smaller : \A j \in smaller : i <= j
           front == SubSeq(q, 1, at - 1)
           back == SubSeq(q, at, L)
           new == Put(q, key, id)
<1>0. key \in Int
  <2>1. e \in E /\ e.key = key
    OBVIOUS
  <2> QED BY <2>1
<1>1. L \in Nat /\ \A i \in 1 .. L : q[i] \in E /\ q[i].key \in Int
  BY LenProperties, ElementOfSeq
<1>2. /\ at \in 1 .. L + 1
      /\ \A i \in 1 .. L : i < at => q[i].key >= key
      /\ at <= L => key > q[at].key
  <2>1. CASE smaller = {}
    <3>1. at = L + 1
      BY <2>1
    <3>2. \A i \in 1 .. L : ~ (key > q[i].key)
      BY <2>1
    <3>3. \A i \in 1 .. L : q[i].key >= key
      BY <1>0, <1>1, <3>2
    <3> HIDE DEF at
    <3> QED BY <1>1, <3>1, <3>3
  <2>2. CASE smaller # {}
    <3>1. smaller \in SUBSET Nat
      BY <1>1
    <3>2. \E i \in smaller : \A j \in smaller : i <= j
      <4> HIDE DEF smaller
      <4> QED BY <2>2, <3>1, LeastOf
    <3>3. at \in smaller /\ \A j \in smaller : at <= j
      <4> HIDE DEF smaller
      <4> QED BY <2>2, <3>2
    <3> HIDE DEF at
    <3>4. at \in 1 .. L /\ key > q[at].key
      BY <3>3
    <3>5. ASSUME NEW i \in 1 .. L, i < at PROVE q[i].key >= key
      <4>1. i \notin smaller
        BY <1>1, <3>3, <3>4, <3>5
      <4>2. ~ (key > q[i].key)
        BY <4>1
      <4> QED BY <1>0, <1>1, <4>2
    <3> QED BY <1>1, <3>4, <3>5
  <2> QED BY <2>1, <2>2
<1>3. new = front \o <<e>> \o back
  BY DEF Put
<1> HIDE DEF at
<1>4. e \in E /\ e.key = key /\ e.id = id
  OBVIOUS
<1>5. /\ front \in Seq(E) /\ Len(front) = at - 1 /\ \A i \in 1 .. at - 1 : front[i] = q[i]
  <2>1. 1 \in Int /\ at - 1 \in Int /\ \A i \in 1 .. at - 1 : q[i] \in E
    BY <1>1, <1>2
  <2>2. /\ front \in Seq(E) /\ Len(front) = IF 1 <= at - 1 THEN at - 1 - 1 + 1 ELSE 0
        /\ \A i \in 1 .. at - 1 - 1 + 1 : front[i] = q[1 + i - 1]
    BY <2>1, SubSeqProperties
  <2> QED BY <1>1, <1>2, <2>2
<1>6. /\ back \in Seq(E) /\ Len(back) = L - at + 1 /\ \A i \in 1 .. L - at + 1 : back[i] = q[at + i - 1]
  <2>1. L \in Int /\ at \in Int /\ \A i \in at .. L : q[i] \in E
    BY <1>1, <1>2
  <2>2. /\ back \in Seq(E) /\ Len(back) = IF at <= L THEN L - at + 1 ELSE 0
        /\ \A i \in 1 .. L - at + 1 : back[i] = q[at + i - 1]
    BY <2>1, SubSeqProperties
  <2> QED BY <1>1, <1>2, <2>2
<1> DEFINE one == <<e>>
<1>7. one \in Seq(E) /\ Len(one) = 1 /\ one[1] = e
  BY <1>4
<1> HIDE DEF one, front, back, e, new
<1>8. /\ new \in Seq(E) /\ Len(new) = L + 1
      /\ \A i \in 1 .. L + 1 : new[i] = IF i < at THEN q[i] ELSE IF i = at THEN e ELSE q[i - 1]
  <2>1. /\ front \o one \in Seq(E) /\ Len(front \o one) = Len(front) + Len(one)
        /\ \A i \in 1 .. Len(front) + Len(one) :
             (front \o one)[i] = IF i <= Len(front) THEN front[i] ELSE one[i - Len(front)]
    BY <1>5, <1>7, ConcatProperties
  <2> DEFINE two == front \o one
  <2>2. two \in Seq(E) /\ Len(two) = at /\ two[at] = e /\ \A i \in 1 .. at - 1 : two[i] = q[i]
    BY <1>1, <1>2, <1>5, <1>7, <2>1
  <2> HIDE DEF two
  <2>3. /\ two \o back \in Seq(E) /\ Len(two \o back) = Len(two) + Len(back)
        /\ \A i \in 1 .. Len(two) + Len(back) :
             (two \o back)[i] = IF i <= Len(two) THEN two[i] ELSE back[i - Len(two)]
    BY <1>6, <2>2, ConcatProperties
  <2>4. new = two \o back
    BY <1>3 DEF two, one
  <2>5. new \in Seq(E) /\ Len(new) = L + 1
    BY <1>1, <1>2, <1>6, <2>2, <2>3, <2>4
  <2>6. ASSUME NEW i \in 1 .. L + 1
        PROVE  new[i] = IF i < at THEN q[i] ELSE IF i = at THEN e ELSE q[i - 1]
    <3>1. new[i] = IF i <= at THEN two[i] ELSE back[i - at]
      BY <1>1, <1>2, <1>6, <2>2, <2>3, <2>4
    <3>2. i > at => i - at \in 1 .. L - at + 1 /\ at + (i - at) - 1 = i - 1
      BY <1>1, <1>2
    <3>3. i > at => back[i - at] = q[i - 1]
      BY <1>6, <3>2
    <3>4. i < at => i \in 1 .. at - 1
      BY <1>1, <1>2
    <3> QED BY <1>1, <1>2, <2>2, <3>1, <3>3, <3>4
  <2> QED BY <2>5, <2>6
<1>9. ASSUME NEW i \in 1 .. L + 1, NEW j \in 1 .. L + 1, i < j PROVE new[i].key >= new[j].key
  <2>1. \A k \in at .. L : key > q[k].key
    <3> SUFFICES ASSUME NEW k \in at .. L PROVE key > q[k].key
      OBVIOUS
    <3>1. at \in 1 .. L /\ k \in 1 .. L /\ key > q[at].key
      BY <1>1, <1>2
    <3>2. q[at].key >= q[k].key
      <4>1. k = at \/ at < k
        BY <3>1
      <4> QED BY <1>1, <3>1, <4>1 DEF Falling
    <3> QED BY <1>0, <1>1, <3>1, <3>2
  <2>2. e.key = key /\ key \in Int
    BY <1>0, <1>4
  <2>3. CASE j < at
    <3>1. new[i] = q[i] /\ new[j] = q[j] /\ i \in 1 .. L /\ j \in 1 .. L
      BY <1>1, <1>2, <1>8, <1>9, <2>3
    <3> QED BY <1>9, <3>1 DEF Falling
  <2>4. CASE j = at
    <3>1. new[i] = q[i] /\ new[j] = e /\ i \in 1 .. L
      BY <1>1, <1>2, <1>8, <1>9, <2>4
    <3> QED BY <1>2, <1>9, <2>2, <2>4, <3>1
  <2>5. CASE j > at
    <3>1. new[j] = q[j - 1] /\ j - 1 \in at .. L /\ j - 1 \in 1 .. L
      BY <1>1, <1>2, <1>8, <2>5
    <3>2. key > q[j - 1].key
      BY <2>1, <3>1
    <3>3. CASE i < at
      <4>1. new[i] = q[i] /\ i \in 1 .. L
        BY <1>1, <1>2, <1>8, <3>3
      <4> QED BY <1>1, <1>2, <2>2, <3>1, <3>2, <3>3, <4>1
    <3>4. CASE i = at
      <4>1. new[i] = e
        BY <1>8, <3>4
      <4> QED BY <1>1, <2>2, <3>1, <3>2, <4>1
    <3>5. CASE i > at
      <4>1. new[i] = q[i - 1] /\ i - 1 \in 1 .. L /\ i - 1 < j - 1
        BY <1>1, <1>2, <1>8, <1>9, <3>5
      <4> QED BY <3>1, <4>1 DEF Falling
    <3> QED BY <1>1, <1>2, <3>3, <3>4, <3>5
  <2> QED BY <1>1, <1>2, <2>3, <2>4, <2>5
<1>10. Falling(new)
  BY <1>8, <1>9 DEF Falling
<1>11. Ids(new) = Ids(q) \cup {id}
  <2>1. ASSUME NEW i \in 1 .. L + 1 PROVE new[i].id \in Ids(q) \cup {id}
    <3>1. CASE i < at
      <4>1. i \in 1 .. L /\ new[i] = q[i]
        BY <1>1, <1>2, <1>8, <3>1
      <4> QED BY <4>1 DEF Ids
    <3>2. CASE i = at
      BY <1>4, <1>8, <3>2
    <3>3. CASE i > at
      <4>1. i - 1 \in 1 .. L /\ ~ (i < at) /\ i # at
        BY <1>1, <1>2, <3>3
      <4>2. new[i] = q[i - 1]
        BY <1>8, <4>1
      <4> QED BY <4>1, <4>2 DEF Ids
    <3> QED BY <1>1, <1>2, <3>1, <3>2, <3>3
  <2>2. ASSUME NEW i \in 1 .. L PROVE \E j \in 1 .. L + 1 : q[i].id = new[j].id
    <3>1. CASE i < at
      <4>1. i \in 1 .. L + 1 /\ new[i] = q[i]
        BY <1>1, <1>2, <1>8, <3>1
      <4> QED BY <4>1
    <3>2. CASE i >= at
      <4>1. i + 1 \in 1 .. L + 1 /\ ~ (i + 1 < at) /\ i + 1 # at /\ i + 1 - 1 = i
        BY <1>1, <1>2, <3>2
      <4>2. new[i + 1] = q[i]
        BY <1>8, <4>1
      <4> QED BY <4>1, <4>2
    <3> QED BY <1>1, <1>2, <3>1, <3>2
  <2>3. at \in 1 .. L + 1 /\ new[at].id = id
    BY <1>1, <1>2, <1>4, <1>8
  <2>4. Ids(new) = {new[i].id : i \in 1 .. L + 1} /\ Ids(q) = {q[i].id : i \in 1 .. L}
    BY <1>8 DEF Ids
  <2>5. \A x \in Ids(new) : x \in Ids(q) \cup {id}
    BY <2>1, <2>4
  <2>6. \A x \in Ids(q) : x \in Ids(new)
    BY <2>2, <2>4
  <2>7. id \in Ids(new)
    BY <2>3, <2>4
  <2> QED BY <2>5, <2>6, <2>7
<1> QED BY <1>8, <1>10, <1>11 DEF new

\* The invariant: what waits is what was added and not taken yet.
AsyncInv ==
    /\ AsyncTypeOK
    /\ Falling(asyncQueue)
    /\ runner = "add" => asyncPending = Ids(asyncQueue)
    /\ runner = "start" => asyncQueue = <<>> /\ asyncPending = {} /\ manager = "off"

LEMMA EmptyQueue ==
    <<>> \in Seq(Keyed) /\ Falling(<<>>) /\ Ids(<<>>) = {}
<1> DEFINE none == <<>>
<1>1. none \in Seq(Keyed) /\ Len(none) = 0
  OBVIOUS
<1> HIDE DEF none
<1>2. Falling(none) /\ Ids(none) = {}
  BY <1>1 DEF Falling, Ids
<1> QED BY <1>1, <1>2 DEF none

LEMMA AsyncStarts == AsyncInit => AsyncInv
BY EmptyQueue DEF AsyncInit, AsyncInv, AsyncTypeOK, Keyed

LEMMA TailFalls ==
    ASSUME NEW E, NEW q \in Seq(E), q # <<>>, Falling(q)
    PROVE  Tail(q) \in Seq(E) /\ Falling(Tail(q))
<1> DEFINE t == Tail(q)
<1>1. t \in Seq(E) /\ Len(t) = Len(q) - 1 /\ \A i \in 1 .. Len(t) : t[i] = q[i + 1]
  BY HeadTailProperties
<1>2. Len(q) \in Nat
  BY LenProperties
<1> HIDE DEF t
<1>3. ASSUME NEW i \in 1 .. Len(t), NEW j \in 1 .. Len(t), i < j PROVE t[i].key >= t[j].key
  <2>1. i + 1 \in 1 .. Len(q) /\ j + 1 \in 1 .. Len(q) /\ i + 1 < j + 1
    BY <1>1, <1>2, <1>3
  <2>2. q[i + 1].key >= q[j + 1].key
    BY <2>1 DEF Falling
  <2> QED BY <1>1, <2>2
<1>4. Falling(t)
  BY <1>3 DEF Falling
<1> QED BY <1>1, <1>4 DEF t

LEMMA AsyncKeeps == AsyncInv /\ [AsyncNext]_asyncVars => AsyncInv'
<1> SUFFICES ASSUME AsyncInv, [AsyncNext]_asyncVars PROVE AsyncInv'
  OBVIOUS
<1> USE DEF AsyncInv, AsyncTypeOK
<1>1. CASE AsyncStart
  BY <1>1, EmptyQueue DEF AsyncStart
<1>2. CASE BatchAdded
  BY <1>2 DEF BatchAdded
<1>3. CASE AsyncManagerRound
  <2>1. /\ asyncQueue # <<>> /\ asyncQueue' = Tail(asyncQueue) /\ runner \notin {"add", "start"}
        /\ UNCHANGED <<asyncStatus, asyncPending, manager, runner>>
    BY <1>3 DEF AsyncManagerRound
  <2>2. Tail(asyncQueue) \in Seq(Keyed) /\ Falling(Tail(asyncQueue))
    BY <2>1, TailFalls DEF Keyed
  <2> QED BY <2>1, <2>2 DEF Keyed
<1>4. CASE AsyncResults
  BY <1>4 DEF AsyncResults
<1>5. CASE AsyncStop
  BY <1>5 DEF AsyncStop
<1>6. ASSUME NEW i \in AsyncItems, NEW p \in AsyncPriorities, AsyncAddWork(i, p) PROVE AsyncInv'
  <2>1. /\ runner = "add" /\ asyncStatus' = [asyncStatus EXCEPT ![i] = "pending"]
        /\ asyncPending' = asyncPending \cup {i} /\ asyncQueue' = Put(asyncQueue, -p, i)
        /\ manager' = manager /\ runner' = runner
    BY <1>6 DEF AsyncAddWork
  <2>2. \A r \in Keyed : r.key \in Int
    BY AsyncAssumption DEF Keyed
  <2>3. [key |-> -p, id |-> i] \in Keyed /\ asyncQueue \in Seq(Keyed)
    BY DEF Keyed
  <2> DEFINE key == -p
             q == asyncQueue
  <2>4. /\ asyncQueue' \in Seq(Keyed) /\ Falling(asyncQueue')
        /\ Ids(asyncQueue') = Ids(asyncQueue) \cup {i}
    <3>1. [key |-> key, id |-> i] \in Keyed /\ q \in Seq(Keyed) /\ Falling(q)
      BY <2>3
    <3>2. asyncQueue' = Put(q, key, i)
      BY <2>1
    <3> HIDE DEF key, q
    <3>3. /\ Put(q, key, i) \in Seq(Keyed) /\ Falling(Put(q, key, i))
          /\ Ids(Put(q, key, i)) = Ids(q) \cup {i}
      BY <2>2, <3>1, PutKeepsOrder
    <3> QED BY <3>2, <3>3 DEF q
  <2>5. asyncStatus' \in [AsyncItems -> {"none", "pending", "cancelled"}]
    BY <2>1
  <2> QED BY <2>1, <2>4, <2>5 DEF Keyed
<1>7. CASE UNCHANGED asyncVars
  BY <1>7 DEF asyncVars
<1> QED BY <1>1, <1>2, <1>3, <1>4, <1>5, <1>6, <1>7 DEF AsyncNext

LEMMA AsyncInvMeans == AsyncInv => AsyncQueueSound
BY DEF AsyncInv, AsyncQueueSound, LowestFirst, Falling, Ids

\* PriorityQueue._put keeps the negated priorities sorted, so that the lowest priority
\* stands in front, and while the batch is added nothing pending is out of the queue.
THEOREM AsyncQueueIsSound == AsyncSpec => []AsyncQueueSound
<1>1. AsyncInit => AsyncInv
  BY AsyncStarts
<1>2. AsyncInv /\ [AsyncNext]_asyncVars => AsyncInv'
  BY AsyncKeeps
<1>3. AsyncInv => AsyncQueueSound
  BY AsyncInvMeans
<1> QED BY <1>1, <1>2, <1>3, PTL DEF AsyncSpec

-----------------------------------------------------------------------------
(***************************************************************************)
(* The sequences side by side.                                             *)
(***************************************************************************)

\* The batches partition the items and respect their limits, and the queue is sorted, while
\* the components of MCStores take turns: the one at work keeps its invariant, the other
\* one rests.
THEOREM SequencesAreSound == StoresSpec => []SequencesSound
<1> DEFINE Inv == BatchInv /\ AsyncInv
<1>1. StoresInit => Inv
  BY BatchStarts, AsyncStarts DEF StoresInit
<1>2. Inv /\ [StoresNext]_storesVars => Inv'
  <2> SUFFICES ASSUME BatchInv, AsyncInv, [StoresNext]_storesVars PROVE BatchInv' /\ AsyncInv'
    OBVIOUS
  <2>1. [BatchNext]_batchVars
    BY DEF StoresNext, Only, storesVars
  <2>2. [AsyncNext]_asyncVars
    BY DEF StoresNext, Only, storesVars
  <2> QED BY <2>1, <2>2, BatchKeeps, AsyncKeeps
<1>3. Inv => SequencesSound
  BY BatchInvMeans, AsyncInvMeans DEF SequencesSound
<1> QED BY <1>1, <1>2, <1>3, PTL DEF StoresSpec
=============================================================================
