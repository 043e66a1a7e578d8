-------------------------- MODULE FlattenTheorems ---------------------------
(***************************************************************************)
(* What FlattenSeq makes of a sequence of sequences, of any length.  It is *)
(* a recursive function, so that this takes an induction; it is done with  *)
(* sets of numbers, of which the least element outside is looked at.       *)
(***************************************************************************)
EXTENDS Integers, Sequences, SequencesExt, WellFoundedInduction, SequenceTheorems,
        FiniteSetTheorems, TLAPS

\* A set of numbers that is not empty has a least one.
LEMMA LeastOf ==
  ASSUME NEW T, T \subseteq Nat, T # {}
  PROVE  \E x \in T : \A y \in T : x <= y
<1> DEFINE R == OpToRel(<, Nat)
<1>1. \A m, n \in Nat : m < n => <<m, n>> \in R
  BY DEF OpToRel
<1>2. IsWellFoundedOn(R, Nat)
  BY NatLessThanWellFounded
<1> HIDE DEF R
<1>3. PICK x \in T : \A y \in T : ~(<<y, x>> \in R)
  BY <1>2, WFMin
<1>4. ASSUME NEW y \in T PROVE x <= y
  <2>1. x \in Nat /\ y \in Nat
    OBVIOUS
  <2>2. ~(y < x)
    BY <1>1, <1>3, <2>1, Zenon
  <2> QED
    BY <2>1, <2>2
<1> QED
  BY <1>4

\* A set that has 0, and with every number below m the next one, has all
\* numbers up to m.
LEMMA UpToInduction ==
  ASSUME NEW m \in Nat, NEW T, 0 \in T, \A n \in Nat : n < m /\ n \in T => n + 1 \in T
  PROVE  \A n \in 0 .. m : n \in T
<1> SUFFICES ASSUME NEW n \in 0 .. m, n \notin T PROVE FALSE
  OBVIOUS
<1> DEFINE Out == {x \in 0 .. m : x \notin T}
<1>1. Out \subseteq Nat /\ Out # {}
  OBVIOUS
<1>2. PICK x \in Out : \A y \in Out : x <= y
  <2> HIDE DEF Out
  <2> QED
    BY <1>1, LeastOf
<1>3. x \in 0 .. m /\ x \notin T
  OBVIOUS
<1>4. x # 0
  BY <1>3
<1>5. x - 1 \in 0 .. m /\ x - 1 \in Nat /\ x - 1 < m /\ ~(x <= x - 1)
  BY <1>3, <1>4
<1>6. x - 1 \in T
  BY <1>2, <1>5
<1>7. x - 1 + 1 \in T
  BY <1>5, <1>6
<1> QED
  BY <1>3, <1>7
-----------------------------------------------------------------------------
\* f is the function by which FlattenSeq is defined, up to the m-th part.
Flattens(f, parts, m) ==
  f = [i \in 1 .. m |-> IF i = 1 THEN parts[i] ELSE f[i - 1] \o parts[i]]

\* There is one, of every length.
LEMMA FlattensExists ==
  ASSUME NEW parts, NEW m \in Nat
  PROVE  \E f : Flattens(f, parts, m)
<1> DEFINE T == {n \in Nat : \E f : Flattens(f, parts, n)}
<1>1. 0 \in T
  <2> DEFINE f == [i \in 1 .. 0 |-> parts[i]]
  <2>1. f = [i \in 1 .. 0 |-> IF i = 1 THEN parts[i] ELSE f[i - 1] \o parts[i]]
    OBVIOUS
  <2>2. Flattens(f, parts, 0)
    BY <2>1 DEF Flattens
  <2> QED
    BY <2>2
<1>2. ASSUME NEW n \in Nat, n \in T PROVE n + 1 \in T
  <2>1. PICK f : Flattens(f, parts, n)
    BY <1>2
  <2> DEFINE g == [i \in 1 .. n + 1 |-> IF i = n + 1
                     THEN IF i = 1 THEN parts[i] ELSE f[i - 1] \o parts[i]
                     ELSE f[i]]
  <2>2. \A i \in 1 .. n : f[i] = IF i = 1 THEN parts[i] ELSE f[i - 1] \o parts[i]
    BY <2>1 DEF Flattens
  <2>3. \A i \in 1 .. n : g[i] = f[i]
    OBVIOUS
  <2>4. \A i \in 1 .. n + 1 : g[i] = IF i = 1 THEN parts[i] ELSE g[i - 1] \o parts[i]
    BY <2>2, <2>3
  <2>5. g = [i \in 1 .. n + 1 |-> g[i]]
    OBVIOUS
  <2> HIDE DEF g
  <2>6. Flattens(g, parts, n + 1)
    BY <2>4, <2>5 DEF Flattens
  <2> QED
    BY <2>6
<1> HIDE DEF T
<1>3. m \in T
  BY <1>1, <1>2, UpToInduction
<1> QED
  BY <1>3 DEF T

\* FlattenSeq, without its recursion.
LEMMA FlattenIs ==
  ASSUME NEW parts, NEW m \in Nat, Len(parts) = m
  PROVE  /\ m = 0 => FlattenSeq(parts) = parts
         /\ m # 0 => \E f : Flattens(f, parts, m) /\ FlattenSeq(parts) = f[m]
<1>1. CASE m = 0
  BY <1>1 DEF FlattenSeq
<1>2. CASE m # 0
  <2> DEFINE F == CHOOSE f : f = [i \in 1 .. m |-> IF i = 1 THEN parts[i] ELSE f[i - 1] \o parts[i]]
  <2>1. FlattenSeq(parts) = F[m]
    BY <1>2 DEF FlattenSeq
  <2>2. \E f : f = [i \in 1 .. m |-> IF i = 1 THEN parts[i] ELSE f[i - 1] \o parts[i]]
    BY FlattensExists DEF Flattens
  <2>3. F = [i \in 1 .. m |-> IF i = 1 THEN parts[i] ELSE F[i - 1] \o parts[i]]
    BY <2>2, Zenon
  <2> HIDE DEF F
  <2> QED
    BY <1>2, <2>1, <2>3 DEF Flattens
<1> QED
  BY <1>1, <1>2
-----------------------------------------------------------------------------
\* whole has the parts one behind the other, the k-th after ofs[k] elements.
FlatParts(parts, whole, ofs) ==
  /\ ofs \in [1 .. Len(parts) + 1 -> Nat]
  /\ ofs[1] = 0
  /\ \A k \in 1 .. Len(parts) : ofs[k + 1] = ofs[k] + Len(parts[k])
  /\ Len(whole) = ofs[Len(parts) + 1]
  /\ \A k \in 1 .. Len(parts) : \A j \in 1 .. Len(parts[k]) : whole[ofs[k] + j] = parts[k][j]

\* The elements of what is put together.
LEMMA ConcatAt ==
  ASSUME NEW S, NEW a \in Seq(S), NEW b \in Seq(S), NEW c, c = a \o b
  PROVE  /\ c \in Seq(S)
         /\ Len(c) = Len(a) + Len(b)
         /\ \A i \in 1 .. Len(a) : c[i] = a[i]
         /\ \A i \in 1 .. Len(b) : c[Len(a) + i] = b[i]
         /\ Len(a) \in Nat /\ Len(b) \in Nat
BY ConcatProperties

\* The function of the recursion has sequences, each with the ones before it
\* at its front.
LEMMA FlattensGrows ==
  ASSUME NEW S, NEW parts \in Seq(Seq(S)), NEW m \in Nat, m = Len(parts),
         NEW f, Flattens(f, parts, m)
  PROVE  \A n \in 1 .. m :
           /\ f[n] \in Seq(S)
           /\ \A k \in 1 .. n : /\ Len(f[k]) <= Len(f[n])
                                /\ \A i \in 1 .. Len(f[k]) : f[n][i] = f[k][i]
<1> DEFINE Good(n) == /\ f[n] \in Seq(S)
                      /\ \A k \in 1 .. n : /\ Len(f[k]) <= Len(f[n])
                                           /\ \A i \in 1 .. Len(f[k]) : f[n][i] = f[k][i]
           T == {n \in Nat : n \in 1 .. m => Good(n)}
<1>1. \A i \in 1 .. m : f[i] = IF i = 1 THEN parts[i] ELSE f[i - 1] \o parts[i]
  BY DEF Flattens
<1>2. ASSUME NEW n \in Nat, n < m, n \in 1 .. m => Good(n) PROVE Good(n + 1)
  <2>1. parts[n + 1] \in Seq(S)
    BY <1>2
  <2>2. CASE n = 0
    <3>1. f[1] = parts[1]
      BY <1>1, <1>2, <2>2
    <3>2. \A k \in 1 .. n + 1 : k = 1
      BY <2>2
    <3>3. f[n + 1] \in Seq(S)
      BY <2>1, <2>2, <3>1
    <3> QED
      BY <2>2, <3>2, <3>3
  <2>3. CASE n # 0
    <3>1. n \in 1 .. m /\ n + 1 \in 1 .. m /\ n + 1 # 1 /\ n + 1 - 1 = n
      BY <1>2, <2>3
    <3>2. f[n + 1] = f[n] \o parts[n + 1]
      <4>1. \A i \in 1 .. m : i # 1 => f[i] = f[i - 1] \o parts[i]
        BY <1>1, Zenon
      <4>2. PICK i : i = n + 1
        OBVIOUS
      <4>3. i \in 1 .. m /\ i # 1 /\ i - 1 = n
        BY <3>1, <4>2
      <4>4. f[i] = f[i - 1] \o parts[i]
        BY <4>1, <4>3, Zenon
      <4> QED
        BY <4>2, <4>3, <4>4, Zenon
    <3>3. f[n] \in Seq(S)
      BY <1>2, <3>1
    <3> DEFINE c == f[n + 1]
               a == f[n]
    <3>4. /\ c \in Seq(S)
          /\ Len(a) <= Len(c)
          /\ \A i \in 1 .. Len(a) : c[i] = a[i]
      <4> DEFINE b == parts[n + 1]
      <4>1. c = a \o b /\ a \in Seq(S) /\ b \in Seq(S)
        BY <2>1, <3>2, <3>3
      <4> HIDE DEF a, b, c
      <4>2. /\ c \in Seq(S)
            /\ Len(c) = Len(a) + Len(b)
            /\ \A i \in 1 .. Len(a) : c[i] = a[i]
            /\ Len(a) \in Nat /\ Len(b) \in Nat
        BY ONLY <4>1, ConcatAt
      <4> QED
        BY <4>2
    <3> HIDE DEF c, a
    <3>5. ASSUME NEW k \in 1 .. n
          PROVE  Len(f[k]) <= Len(c) /\ \A i \in 1 .. Len(f[k]) : c[i] = f[k][i]
      <4>1. Len(f[k]) <= Len(a) /\ \A i \in 1 .. Len(f[k]) : a[i] = f[k][i]
        BY <1>2, <3>1 DEF a
      <4>2. f[k] \in Seq(S) \/ Len(f[k]) \in Nat \/ Len(f[k]) \notin Nat
        OBVIOUS
      <4> QED
        BY <3>3, <3>4, <4>1 DEF a
    <3>6. ASSUME NEW k \in 1 .. n + 1
          PROVE  Len(f[k]) <= Len(c) /\ \A i \in 1 .. Len(f[k]) : c[i] = f[k][i]
      <4>1. CASE k \in 1 .. n
        BY <3>5, <4>1
      <4>2. CASE k = n + 1
        BY <3>4, <4>2 DEF c
      <4> QED
        BY <4>1, <4>2
    <3> QED
      BY <3>4, <3>6 DEF c
  <2> QED
    BY <2>2, <2>3
<1> HIDE DEF Good
<1>3. 0 \in T
  OBVIOUS
<1>4. \A n \in Nat : n < m /\ n \in T => n + 1 \in T
  BY <1>2
<1>5. \A n \in 0 .. m : n \in T
  <2> HIDE DEF T
  <2> QED
    BY <1>3, <1>4, UpToInduction
<1>6. \A n \in 1 .. m : Good(n)
  BY <1>5
<1> QED
  BY <1>6 DEF Good

\* What FlattenSeq returns has the parts one behind the other.
LEMMA FlattenParts ==
  ASSUME NEW S, NEW parts \in Seq(Seq(S))
  PROVE  /\ FlattenSeq(parts) \in Seq(S)
         /\ \E ofs : FlatParts(parts, FlattenSeq(parts), ofs)
<1> DEFINE m == Len(parts)
           whole == FlattenSeq(parts)
<1>m. m \in Nat
  OBVIOUS
<1>1. CASE m = 0
  <2>1. whole = parts /\ parts = <<>>
    BY <1>1, FlattenIs
  <2> DEFINE ofs == [k \in 1 .. 1 |-> 0]
  <2>2. FlatParts(parts, whole, ofs)
    BY <1>1, <2>1 DEF FlatParts
  <2> QED
    BY <2>1, <2>2
<1>2. CASE m # 0
  <2>1. PICK f : Flattens(f, parts, m) /\ whole = f[m]
    BY <1>2, FlattenIs
  <2>2. \A i \in 1 .. m : f[i] = IF i = 1 THEN parts[i] ELSE f[i - 1] \o parts[i]
    BY <2>1 DEF Flattens
  <2>3. \A n \in 1 .. m :
           /\ f[n] \in Seq(S)
           /\ \A k \in 1 .. n : /\ Len(f[k]) <= Len(f[n])
                                /\ \A i \in 1 .. Len(f[k]) : f[n][i] = f[k][i]
    BY <2>1, FlattensGrows
  <2> DEFINE ofs == [k \in 1 .. m + 1 |-> IF k = 1 THEN 0 ELSE Len(f[k - 1])]
  <2>4. m \in 1 .. m
    BY <1>2
  <2>5. whole \in Seq(S)
    BY <2>1, <2>3, <2>4
  <2>6. ofs \in [1 .. m + 1 -> Nat]
    <3>1. ASSUME NEW k \in 1 .. m + 1, k # 1 PROVE Len(f[k - 1]) \in Nat
      <4>1. k - 1 \in 1 .. m
        BY <3>1
      <4> QED
        BY <2>3, <4>1
    <3> QED
      BY <3>1
  <2>7. ofs[1] = 0 /\ \A k \in 1 .. m : ofs[k + 1] = Len(f[k])
    OBVIOUS
  <2>8. ASSUME NEW k \in 1 .. m
        PROVE  /\ ofs[k + 1] = ofs[k] + Len(parts[k])
               /\ \A j \in 1 .. Len(parts[k]) : whole[ofs[k] + j] = parts[k][j]
    <3>1. parts[k] \in Seq(S) /\ Len(parts[k]) \in Nat
      OBVIOUS
    <3>2. f[k] \in Seq(S) /\ ofs[k + 1] = Len(f[k]) /\ Len(f[k]) <= Len(f[m])
          /\ \A i \in 1 .. Len(f[k]) : f[m][i] = f[k][i]
      BY <2>3, <2>4, <2>7
    <3>3. /\ Len(f[k]) = ofs[k] + Len(parts[k])
          /\ \A j \in 1 .. Len(parts[k]) : f[k][ofs[k] + j] = parts[k][j]
          /\ ofs[k] \in Nat
      <4>1. CASE k = 1
        BY <2>2, <2>7, <3>1, <4>1
      <4>2. CASE k # 1
        <5>1. k - 1 \in 1 .. m
          BY <4>2
        <5>2. f[k - 1] \in Seq(S) /\ ofs[k] = Len(f[k - 1]) /\ f[k] = f[k - 1] \o parts[k]
          <6>1. ofs[k - 1 + 1] = Len(f[k - 1]) /\ k - 1 + 1 = k
            BY <2>7, <5>1
          <6> QED
            BY <2>2, <2>3, <4>2, <5>1, <6>1
        <5> DEFINE a == f[k - 1]
                   b == parts[k]
                   c == f[k]
        <5>3. c = a \o b /\ a \in Seq(S) /\ b \in Seq(S) /\ ofs[k] = Len(a)
          BY <3>1, <5>2
        <5> HIDE DEF a, b, c, ofs
        <5>4. /\ Len(c) = Len(a) + Len(b)
              /\ \A i \in 1 .. Len(b) : c[Len(a) + i] = b[i]
              /\ Len(a) \in Nat
          BY ONLY <5>3, ConcatAt
        <5>5. Len(c) = ofs[k] + Len(b) /\ \A i \in 1 .. Len(b) : c[ofs[k] + i] = b[i]
          BY <5>3, <5>4
        <5> QED
          BY <5>3, <5>4, <5>5 DEF b, c
      <4> QED
        BY <4>1, <4>2
    <3>4. ASSUME NEW j \in 1 .. Len(parts[k]) PROVE whole[ofs[k] + j] = parts[k][j]
      <4>1. ofs[k] + j \in 1 .. Len(f[k])
        BY SMTT(60), <3>1, <3>3
      <4> QED
        BY <2>1, <3>2, <3>3, <4>1
    <3> QED
      BY <3>2, <3>3, <3>4
  <2>9. Len(whole) = ofs[m + 1]
    BY <2>1, <2>4, <2>7
  <2> HIDE DEF ofs, whole
  <2>10. FlatParts(parts, whole, ofs)
    BY <2>6, <2>7, <2>8, <2>9 DEF FlatParts
  <2> QED
    BY <2>5, <2>10 DEF whole
<1> QED
  BY <1>1, <1>2, <1>m

\* The parts come one after the other, and leave nothing out.
InOrder(parts, whole, ofs) ==
  /\ \A k \in 1 .. Len(parts) : \A m \in k + 1 .. Len(parts) + 1 :
       ofs[k] + Len(parts[k]) <= ofs[m]
  /\ \A i \in 1 .. Len(whole) :
       \E k \in 1 .. Len(parts) : \E j \in 1 .. Len(parts[k]) : i = ofs[k] + j

\* Nothing is between the parts.
LEMMA FlatOrder ==
  ASSUME NEW S, NEW parts \in Seq(Seq(S)), NEW whole, NEW ofs, FlatParts(parts, whole, ofs)
  PROVE  InOrder(parts, whole, ofs)
<1> DEFINE n == Len(parts)
<1>1. /\ n \in Nat
      /\ ofs \in [1 .. n + 1 -> Nat]
      /\ ofs[1] = 0
      /\ \A k \in 1 .. n : ofs[k + 1] = ofs[k] + Len(parts[k])
      /\ Len(whole) = ofs[n + 1]
  BY DEF FlatParts
<1>2. \A k \in 1 .. n : Len(parts[k]) \in Nat
  OBVIOUS
<1> HIDE DEF n
<1>3. ASSUME NEW k \in 1 .. n, NEW m \in k + 1 .. n + 1 PROVE ofs[k] + Len(parts[k]) <= ofs[m]
  <2> DEFINE T == {d \in Nat : k + 1 + d <= n + 1 => ofs[k + 1] <= ofs[k + 1 + d]}
  <2>0. k \in Nat /\ m \in Nat
    BY <1>1
  <2>1. 0 \in T
    BY <1>1, <2>0
  <2>2. ASSUME NEW d \in Nat, d \in T PROVE d + 1 \in T
    <3>1. SUFFICES ASSUME k + 1 + d + 1 <= n + 1 PROVE ofs[k + 1] <= ofs[k + 1 + d + 1]
      BY <2>0
    <3>2. k + 1 + d \in 1 .. n
      BY <1>1, <2>0, <3>1
    <3>3. ofs[k + 1 + d + 1] = ofs[k + 1 + d] + Len(parts[k + 1 + d])
      BY <1>1, <3>2
    <3>4. ofs[k + 1] <= ofs[k + 1 + d]
      BY <2>2, <2>0, <1>1, <3>1
    <3>5. ofs[k + 1 + d] \in Nat /\ ofs[k + 1] \in Nat /\ Len(parts[k + 1 + d]) \in Nat
      BY <1>1, <1>2, <3>2
    <3> QED
      BY <3>3, <3>4, <3>5
  <2>3. m - (k + 1) \in Nat /\ k + 1 + (m - (k + 1)) = m
    BY <2>0
  <2>4. m - (k + 1) \in T
    <3> HIDE DEF T
    <3>1. m - (k + 1) \in 0 .. m - (k + 1)
      BY <2>3
    <3> QED
      BY <2>1, <2>2, <2>3, <3>1, UpToInduction
  <2>5. ofs[k + 1] <= ofs[m]
    BY <2>3, <2>4, <1>1
  <2> QED
    BY <1>1, <2>5
<1>4. ASSUME NEW i \in 1 .. Len(whole)
      PROVE  \E k \in 1 .. n : \E j \in 1 .. Len(parts[k]) : i = ofs[k] + j
  <2> DEFINE Beyond == {k \in 1 .. n + 1 : ofs[k] >= i}
  <2>0. i \in Nat /\ i >= 1 /\ i <= ofs[n + 1]
    BY <1>1
  <2>1. Beyond \subseteq Nat /\ n + 1 \in Beyond
    BY <1>1, <2>0
  <2>2. PICK m \in Beyond : \A y \in Beyond : m <= y
    <3> HIDE DEF Beyond
    <3> QED
      BY <2>1, LeastOf
  <2>3. m \in 1 .. n + 1 /\ ofs[m] >= i /\ m # 1
    BY <1>1, <2>0
  <2>4. m - 1 \in 1 .. n /\ m - 1 \in 1 .. n + 1 /\ ~(m <= m - 1)
    BY <1>1, <2>3
  <2>5. m - 1 \notin Beyond
    <3> HIDE DEF Beyond
    <3> QED
      BY <2>2, <2>4
  <2>6. ofs[m - 1] < i
    BY <1>1, <2>0, <2>4, <2>5
  <2>7. ofs[m - 1 + 1] = ofs[m - 1] + Len(parts[m - 1]) /\ m - 1 + 1 = m
    BY <1>1, <2>3, <2>4
  <2>8. i - ofs[m - 1] \in 1 .. Len(parts[m - 1]) /\ i = ofs[m - 1] + (i - ofs[m - 1])
    BY SMTT(60), <1>1, <1>2, <2>0, <2>3, <2>4, <2>6, <2>7
  <2> QED
    BY <2>4, <2>8
<1> QED
  BY <1>3, <1>4 DEF n, InOrder
-----------------------------------------------------------------------------
\* The function of the recursion depends on nothing but the parts.
LEMMA FlattensSame ==
  ASSUME NEW m \in Nat, NEW n \in Nat, m <= n,
         NEW parts, NEW more, \A i \in 1 .. m : parts[i] = more[i],
         NEW f, Flattens(f, parts, m), NEW g, Flattens(g, more, n)
  PROVE  \A i \in 1 .. m : f[i] = g[i]
<1> DEFINE T == {i \in Nat : i \in 1 .. m => f[i] = g[i]}
<1>1. \A i \in 1 .. m : f[i] = IF i = 1 THEN parts[i] ELSE f[i - 1] \o parts[i]
  BY DEF Flattens
<1>2. \A i \in 1 .. n : g[i] = IF i = 1 THEN more[i] ELSE g[i - 1] \o more[i]
  BY DEF Flattens
<1>3. 0 \in T
  OBVIOUS
<1>4. ASSUME NEW i \in Nat, i < m, i \in T PROVE i + 1 \in T
  <2>1. PICK j : j = i + 1
    OBVIOUS
  <2>2. j \in 1 .. m /\ j \in 1 .. n /\ j - 1 = i
    BY <1>4, <2>1
  <2>3. CASE j = 1
    BY <1>1, <1>2, <2>1, <2>2, <2>3
  <2>4. CASE j # 1
    <3>1. f[j - 1] = g[j - 1]
      BY <1>4, <2>1, <2>2, <2>4
    <3>2. f[j] = f[j - 1] \o parts[j] /\ g[j] = g[j - 1] \o more[j] /\ parts[j] = more[j]
      BY <1>1, <1>2, <2>2, <2>4, Zenon
    <3>3. f[j] = g[j]
      BY ONLY <3>1, <3>2
    <3> QED
      BY <2>1, <3>3
  <2> QED
    BY <2>3, <2>4
<1> HIDE DEF T
<1>5. \A i \in 0 .. m : i \in T
  BY <1>3, <1>4, UpToInduction
<1> QED
  BY <1>5 DEF T

\* whole is front with one part more.
OneMore(front, part, whole) ==
  /\ Len(whole) = Len(front) + 1
  /\ \A i \in 1 .. Len(front) : whole[i] = front[i]
  /\ whole[Len(front) + 1] = part

\* Then this part is put at the end.
LEMMA FlattenNext ==
  ASSUME NEW S, NEW front \in Seq(Seq(S)), NEW part \in Seq(S), NEW whole,
         OneMore(front, part, whole)
  PROVE  FlattenSeq(whole) = FlattenSeq(front) \o part
<1>0. PICK n \in Nat : n = Len(front)
  OBVIOUS
<1>a. Len(whole) = n + 1 /\ whole[n + 1] = part /\ \A i \in 1 .. n : whole[i] = front[i]
  BY <1>0 DEF OneMore
<1>1. PICK g : Flattens(g, whole, n + 1) /\ FlattenSeq(whole) = g[n + 1]
  BY <1>a, FlattenIs
<1>2. \A i \in 1 .. n + 1 : g[i] = IF i = 1 THEN whole[i] ELSE g[i - 1] \o whole[i]
  BY <1>1 DEF Flattens
<1>3. CASE n = 0
  <2>1. FlattenSeq(front) = front /\ front = <<>>
    <3>1. front = <<>>
      <4> DEFINE SX == Seq(S)
      <4>1. front \in Seq(SX) /\ Len(front) = 0
        BY <1>0, <1>3
      <4> HIDE DEF SX
      <4> QED
        BY ONLY <4>1, EmptySeq
    <3>2. FlattenSeq(front) = front
      BY <1>0, <1>3, FlattenIs
    <3> QED
      BY <3>1, <3>2
  <2>2. FlattenSeq(whole) = part
    BY <1>1, <1>2, <1>3, <1>a
  <2> QED
    BY <2>1, <2>2
<1>4. CASE n # 0
  <2>1. PICK f : Flattens(f, front, n) /\ FlattenSeq(front) = f[n]
    BY <1>0, <1>4, FlattenIs
  <2>2. f[n] = g[n]
    <3>1. \A i \in 1 .. n : front[i] = whole[i]
      BY <1>a
    <3>2. \A i \in 1 .. n : f[i] = g[i]
      <4>1. n <= n + 1 /\ n + 1 \in Nat /\ n \in Nat
        OBVIOUS
      <4> QED
        BY ONLY <1>1, <2>1, <3>1, <4>1, FlattensSame
    <3> QED
      BY <1>4, <3>2
  <2>3. PICK j : j = n + 1
    OBVIOUS
  <2>4. j \in 1 .. n + 1 /\ j # 1 /\ j - 1 = n
    BY <1>4, <2>3
  <2>5. g[j] = g[j - 1] \o whole[j]
    BY <1>2, <2>4, Zenon
  <2> QED
    BY <1>1, <1>a, <2>1, <2>2, <2>3, <2>4, <2>5
<1> QED
  BY <1>3, <1>4
-----------------------------------------------------------------------------
\* s has every element of X, once, and no other.
Lists(s, X) ==
  /\ s \in Seq(X)
  /\ \A x \in X : \E i \in 1 .. Len(s) : s[i] = x
  /\ \A i, j \in 1 .. Len(s) : s[i] = s[j] => i = j

\* The n parts list sets that have nothing in common, and make up X.
InLists(n, parts, sets, X) ==
  /\ n \in Nat
  /\ DOMAIN parts = 1 .. n /\ parts = [k \in 1 .. n |-> parts[k]]
  /\ \A k \in 1 .. n : Lists(parts[k], sets[k])
  /\ \A k, m \in 1 .. n : k # m => sets[k] \cap sets[m] = {}
  /\ X = UNION {sets[k] : k \in 1 .. n}

\* Then one behind the other they list X.
LEMMA FlattenLists ==
  ASSUME NEW n, NEW parts, NEW sets, NEW X, InLists(n, parts, sets, X)
  PROVE  Lists(FlattenSeq(parts), X)
<1> USE DEF InLists
<1>1. \A k \in 1 .. n : sets[k] \subseteq X
  OBVIOUS
<1>2. \A k \in 1 .. n : parts[k] \in Seq(X)
  BY <1>1, SeqMonotonic DEF Lists
<1>3. parts \in Seq(Seq(X)) /\ Len(parts) = n
  <2> DEFINE SX == Seq(X)
  <2>1. \A k \in 1 .. n : parts[k] \in SX
    BY <1>2
  <2> HIDE DEF SX
  <2>2. parts \in [1 .. n -> SX]
    BY <2>1
  <2>3. parts \in Seq(SX) /\ Len(parts) = n
    BY <2>2
  <2> QED
    BY <2>3 DEF SX
<1> DEFINE whole == FlattenSeq(parts)
<1>4. whole \in Seq(X) /\ \E ofs : FlatParts(parts, whole, ofs)
  BY <1>3, FlattenParts
<1> HIDE DEF whole
<1>5. PICK ofs : FlatParts(parts, whole, ofs)
  BY <1>4
<1>6. InOrder(parts, whole, ofs)
  BY <1>3, <1>5, FlatOrder
<1>7. ASSUME NEW x \in X PROVE \E i \in 1 .. Len(whole) : whole[i] = x
  <2>1. PICK k \in 1 .. n : x \in sets[k]
    OBVIOUS
  <2>2. PICK j \in 1 .. Len(parts[k]) : parts[k][j] = x
    BY <2>1 DEF Lists
  <2>3. whole[ofs[k] + j] = x
    BY <1>3, <1>5, <2>2 DEF FlatParts
  <2>4. ofs[k] + Len(parts[k]) <= Len(whole)
    <3>1. Len(whole) = ofs[n + 1]
      BY <1>3, <1>5 DEF FlatParts
    <3>2. n + 1 \in k + 1 .. n + 1
      OBVIOUS
    <3> QED
      BY SMTT(60), <1>3, <1>6, <3>1, <3>2 DEF InOrder
  <2>5. ofs[k] \in Nat /\ Len(parts[k]) \in Nat /\ Len(whole) \in Nat
    <3>1. ofs \in [1 .. n + 1 -> Nat] /\ k \in 1 .. n + 1
      BY <1>3, <1>5 DEF FlatParts
    <3>2. Len(parts[k]) \in Nat
      BY <1>2
    <3>3. Len(whole) \in Nat
      BY <1>4
    <3> QED
      BY <3>1, <3>2, <3>3
  <2>6. ofs[k] + j \in 1 .. Len(whole)
    BY <2>4, <2>5
  <2> QED
    BY <2>3, <2>6
<1>8. ASSUME NEW i \in 1 .. Len(whole), NEW j \in 1 .. Len(whole), whole[i] = whole[j]
      PROVE  i = j
  <2>k. PICK k \in 1 .. n : \E x \in 1 .. Len(parts[k]) : i = ofs[k] + x
    BY <1>3, <1>6 DEF InOrder
  <2>1. PICK x \in 1 .. Len(parts[k]) : i = ofs[k] + x
    BY <2>k
  <2>m. PICK m \in 1 .. n : \E y \in 1 .. Len(parts[m]) : j = ofs[m] + y
    BY <1>3, <1>6 DEF InOrder
  <2>2. PICK y \in 1 .. Len(parts[m]) : j = ofs[m] + y
    BY <2>m
  <2>3. whole[i] = parts[k][x] /\ whole[j] = parts[m][y]
    BY <1>3, <1>5, <2>1, <2>2 DEF FlatParts
  <2>4. parts[k][x] \in sets[k] /\ parts[m][y] \in sets[m]
    <3>1. parts[k] \in Seq(sets[k]) /\ parts[m] \in Seq(sets[m])
      BY DEF Lists
    <3> QED
      BY <3>1
  <2>5. k = m
    BY <1>8, <2>3, <2>4
  <2>6. x = y
    BY <1>8, <2>2, <2>3, <2>5 DEF Lists
  <2> QED
    BY <2>1, <2>2, <2>5, <2>6
<1> QED
  BY <1>4, <1>7, <1>8 DEF Lists, whole

\* The elements of a list.
LEMMA ListElements ==
  ASSUME NEW X, NEW s, Lists(s, X)
  PROVE  /\ DOMAIN s = 1 .. Len(s) /\ Len(s) \in Nat
         /\ X = {s[i] : i \in 1 .. Len(s)}
         /\ \A i \in 1 .. Len(s) : s[i] \in X
         /\ \A i, j \in 1 .. Len(s) : i # j => s[i] # s[j]
<1>1. DOMAIN s = 1 .. Len(s) /\ Len(s) \in Nat /\ \A i \in 1 .. Len(s) : s[i] \in X
  BY DEF Lists
<1>2. \A x \in X : \E i \in 1 .. Len(s) : s[i] = x
  BY DEF Lists
<1>3. X = {s[i] : i \in 1 .. Len(s)}
  BY <1>1, <1>2
<1> QED
  BY <1>1, <1>3 DEF Lists

\* A list has as many elements as it is long.
LEMMA ListCardinality ==
  ASSUME NEW X, NEW s, Lists(s, X)
  PROVE  ToSet(s) = X /\ Cardinality(X) = Len(s)
<1>1. ToSet(s) = X
  <2>1. DOMAIN s = 1 .. Len(s) /\ \A i \in 1 .. Len(s) : s[i] \in X
    BY DEF Lists
  <2> QED
    BY <2>1 DEF Lists, ToSet
<1>2. Len(s) \in Nat /\ s \in [1 .. Len(s) -> X]
  BY DEF Lists
<1>3. s \in Bijection(1 .. Len(s), X)
  <2> DEFINE D == 1 .. Len(s)
  <2>1. /\ s \in [D -> X]
        /\ \A a, b \in D : s[a] = s[b] => a = b
        /\ \A x \in X : \E a \in D : s[a] = x
    BY <1>2 DEF Lists
  <2> HIDE DEF D
  <2>2. s \in Injection(D, X) /\ s \in Surjection(D, X)
    BY <2>1 DEF Injection, Surjection, IsInjective
  <2> QED
    BY <2>2 DEF Bijection, D
<1>4. IsFiniteSet(1 .. Len(s)) /\ Cardinality(1 .. Len(s)) = Len(s)
  BY SMTT(60), <1>2, FS_Interval
<1> QED
  BY <1>1, <1>3, <1>4, FS_Bijection DEF ExistsBijection
=============================================================================
