---------------------------- MODULE LyricsProofs ----------------------------
(* Proofs about Lyrics. *)
EXTENDS Lyrics, WellFoundedInduction, TLAPS

-----------------------------------------------------------------------------
(* Induction over the naturals, as facts about sets of them. *)

\* A nonempty set of naturals has a least element.
LEMMA LeastNat ==
    ASSUME NEW T \in SUBSET Nat, T # {}
    PROVE  \E x \in T : \A y \in T : x <= y
<1> DEFINE R == {ss \in Nat \X Nat : ss[1] < ss[2]}
<1>1. IsWellFoundedOn(R, Nat)
  BY NatLessThanWellFounded DEF OpToRel
<1>2. \A x, y \in Nat : y < x => <<y, x>> \in R
  OBVIOUS
<1> HIDE DEF R
<1>3. \E x \in T : \A y \in T : ~(<<y, x>> \in R)
  BY <1>1, WFMin
<1>4. \A x, y \in Nat : ~(y < x) => x <= y
  OBVIOUS
<1> QED
  BY <1>2, <1>3, <1>4

\* A set of naturals with 0 and the successor of each of its members is all of them.
LEMMA SetInduction ==
    ASSUME NEW T \in SUBSET Nat, 0 \in T, \A n \in T : n + 1 \in T
    PROVE  T = Nat
<1> SUFFICES ASSUME Nat \ T # {} PROVE FALSE
  OBVIOUS
<1>1. PICK x \in Nat \ T : \A y \in Nat \ T : x <= y
  BY LeastNat
<1>2. x # 0 /\ x - 1 \in Nat /\ x - 1 \in T
  BY <1>1
<1> QED
  BY <1>1, <1>2

-----------------------------------------------------------------------------
(* The bytes of a list of entries. *)

Entries == [key : Keys, found : BOOLEAN, at : 0 .. MaxTime, size : Nat]

\* The recursion of Sum has a solution on every list.
LEMMA SumExists ==
    ASSUME NEW s \in Seq(Entries)
    PROVE  \E f : f = [i \in 0 .. Len(s) |-> IF i = 0 THEN 0 ELSE f[i - 1] + s[i].size]
<1> DEFINE Solves(f, n) == /\ f \in [0 .. n -> Nat]
                           /\ f[0] = 0
                           /\ \A i \in 1 .. n : f[i] = f[i - 1] + s[i].size
           T == {n \in Nat : n <= Len(s) => \E f \in [0 .. n -> Nat] : Solves(f, n)}
<1>1. 0 \in T
  <2> DEFINE f == [i \in 0 .. 0 |-> 0]
  <2>1. f \in [0 .. 0 -> Nat] /\ Solves(f, 0)
    OBVIOUS
  <2> QED
    BY <2>1
<1>2. ASSUME NEW n \in T PROVE n + 1 \in T
  <2>0. n \in Nat /\ n + 1 \in Nat
    OBVIOUS
  <2> SUFFICES ASSUME n + 1 <= Len(s) PROVE \E f \in [0 .. n + 1 -> Nat] : Solves(f, n + 1)
    <3> HIDE DEF Solves
    <3> QED
      BY <2>0
  <2>1. PICK f \in [0 .. n -> Nat] : Solves(f, n)
    <3> HIDE DEF Solves
    <3>1. n <= Len(s)
      BY <2>0
    <3> QED
      BY <1>2, <3>1
  <2> DEFINE g == [i \in 0 .. n + 1 |-> IF i <= n THEN f[i] ELSE f[n] + s[n + 1].size]
  <2>2. s[n + 1].size \in Nat
    <3>1. s[n + 1] \in Entries
      OBVIOUS
    <3> QED
      BY <3>1 DEF Entries
  <2>3. g \in [0 .. n + 1 -> Nat]
    <3>1. f[n] + s[n + 1].size \in Nat
      BY <2>1, <2>2
    <3>2. \A i \in 0 .. n : f[i] \in Nat
      BY <2>1
    <3> QED
      BY <3>1, <3>2
  <2>4. g[0] = 0 /\ \A i \in 1 .. n + 1 : g[i] = g[i - 1] + s[i].size
    <3>1. g[0] = 0 /\ g[n + 1] = f[n] + s[n + 1].size /\ g[n] = f[n]
      BY <2>1
    <3>2. \A i \in 1 .. n : g[i] = f[i] /\ g[i - 1] = f[i - 1] /\ f[i] = f[i - 1] + s[i].size
      BY <2>1
    <3>3. \A i \in 1 .. n + 1 : i \in 1 .. n \/ (i = n + 1 /\ i - 1 = n)
      OBVIOUS
    <3> QED
      BY <3>1, <3>2, <3>3
  <2> QED
    BY <2>3, <2>4
<1>3. T = Nat
  <2> HIDE DEF T
  <2>1. T \in SUBSET Nat
    BY DEF T
  <2> QED
    BY <1>1, <1>2, <2>1, SetInduction
<1>4. PICK f \in [0 .. Len(s) -> Nat] : Solves(f, Len(s))
  BY <1>3
<1>5. f = [i \in 0 .. Len(s) |-> IF i = 0 THEN 0 ELSE f[i - 1] + s[i].size]
  BY <1>4
<1> QED
  BY <1>5

\* What Sum is, step by step.
LEMMA SumSteps ==
    ASSUME NEW s \in Seq(Entries)
    PROVE  /\ Sum(s, 0) = 0
           /\ \A i \in 1 .. Len(s) : Sum(s, i) = Sum(s, i - 1) + s[i].size
<1> DEFINE f == CHOOSE f : f = [i \in 0 .. Len(s) |-> IF i = 0 THEN 0 ELSE f[i - 1] + s[i].size]
<1>1. f = [i \in 0 .. Len(s) |-> IF i = 0 THEN 0 ELSE f[i - 1] + s[i].size]
  BY SumExists
<1>2. \A i : Sum(s, i) = f[i]
  BY DEF Sum
<1> HIDE DEF f
<1>3. f[0] = 0 /\ \A i \in 1 .. Len(s) : f[i] = f[i - 1] + s[i].size
  <2>1. \A i \in 0 .. Len(s) : f[i] = IF i = 0 THEN 0 ELSE f[i - 1] + s[i].size
    BY <1>1
  <2> QED
    BY <2>1
<1> QED
  BY <1>2, <1>3

\* An induction along a list.
LEMMA AlongList ==
    ASSUME NEW n \in Nat, NEW T \in SUBSET Nat, 0 \in T,
           \A i \in 1 .. n : i - 1 \in T => i \in T
    PROVE  \A i \in 0 .. n : i \in T
<1> DEFINE U == {i \in Nat : i <= n => i \in T}
<1>1. 0 \in U /\ \A i \in U : i + 1 \in U
  OBVIOUS
<1>2. U = Nat
  <2> HIDE DEF U
  <2>1. U \in SUBSET Nat
    BY DEF U
  <2> QED
    BY <1>1, <2>1, SetInduction
<1> QED
  BY <1>2

LEMMA SumNat ==
    ASSUME NEW s \in Seq(Entries)
    PROVE  \A i \in 0 .. Len(s) : Sum(s, i) \in Nat
<1> DEFINE T == {i \in Nat : Sum(s, i) \in Nat}
<1>1. 0 \in T
  BY SumSteps
<1>2. ASSUME NEW i \in 1 .. Len(s) PROVE s[i].size \in Nat
  <2>1. s[i] \in Entries
    OBVIOUS
  <2> QED
    BY <2>1 DEF Entries
<1>3. ASSUME NEW i \in 1 .. Len(s), i - 1 \in T PROVE i \in T
  <2>1. Sum(s, i) = Sum(s, i - 1) + s[i].size /\ s[i].size \in Nat
    BY <1>2, SumSteps
  <2>2. Sum(s, i - 1) \in Nat
    BY <1>3
  <2> QED
    BY <2>1, <2>2
<1>4. \A i \in 0 .. Len(s) : i \in T
  <2> HIDE DEF T
  <2>1. T \in SUBSET Nat
    BY DEF T
  <2>2. Len(s) \in Nat
    OBVIOUS
  <2> QED
    BY <1>1, <1>3, <2>1, <2>2, AlongList
<1> QED
  BY <1>4

\* The first n entries of a list add up to the same in any list they begin.
LEMMA SumOfPrefix ==
    ASSUME NEW s \in Seq(Entries), NEW t \in Seq(Entries), Len(t) <= Len(s),
           \A i \in 1 .. Len(t) : t[i] = s[i]
    PROVE  \A i \in 0 .. Len(t) : Sum(t, i) = Sum(s, i)
<1> DEFINE T == {i \in Nat : Sum(t, i) = Sum(s, i)}
<1>1. 0 \in T
  BY SumSteps
<1>2. \A i \in 1 .. Len(t) : i - 1 \in T => i \in T
  BY SumSteps
<1>3. \A i \in 0 .. Len(t) : i \in T
  <2> HIDE DEF T
  <2>1. T \in SUBSET Nat
    BY DEF T
  <2>2. Len(s) \in Nat /\ Len(t) \in Nat
    OBVIOUS
  <2> QED
    BY <1>1, <1>2, <2>1, <2>2, AlongList
<1> QED
  BY <1>3

\* An entry put before a list adds its size.
LEMMA SumOfAdded ==
    ASSUME NEW s \in Seq(Entries), NEW e \in Entries, NEW t \in Seq(Entries),
           Len(t) = Len(s) + 1, t[1] = e, \A i \in 1 .. Len(s) : t[i + 1] = s[i]
    PROVE  Bytes(t) = e.size + Bytes(s)
<1> DEFINE T == {i \in Nat : Sum(t, i + 1) = e.size + Sum(s, i)}
<1>0. e.size \in Nat
  BY DEF Entries
<1>1. 0 \in T
  <2>1. 1 \in 1 .. Len(t) /\ 1 - 1 = 0
    OBVIOUS
  <2>2. Sum(t, 1) = Sum(t, 0) + t[1].size
    BY <2>1, SumSteps
  <2> QED
    BY <1>0, <2>2, SumSteps
<1>2. ASSUME NEW i \in 1 .. Len(s), i - 1 \in T PROVE i \in T
  <2>1. Sum(t, i + 1) = Sum(t, i) + t[i + 1].size
    <3>1. i + 1 \in 1 .. Len(t) /\ (i + 1) - 1 = i
      OBVIOUS
    <3> QED
      BY <3>1, SumSteps
  <2>2. Sum(s, i) = Sum(s, i - 1) + s[i].size
    BY SumSteps
  <2>3. Sum(t, i) = e.size + Sum(s, i - 1)
    <3>1. (i - 1) + 1 = i
      OBVIOUS
    <3> QED
      BY <1>2, <3>1
  <2>4. t[i + 1] = s[i] /\ s[i].size \in Nat
    <3>1. t[i + 1] = s[i] /\ s[i] \in Entries
      OBVIOUS
    <3> QED
      BY <3>1 DEF Entries
  <2>5. Sum(s, i - 1) \in Nat
    BY SumNat
  <2> QED
    BY <1>0, <2>1, <2>2, <2>3, <2>4, <2>5
<1>3. \A i \in 0 .. Len(s) : i \in T
  <2> HIDE DEF T
  <2>1. T \in SUBSET Nat
    BY DEF T
  <2>2. Len(s) \in Nat /\ Len(t) \in Nat
    OBVIOUS
  <2> QED
    BY <1>1, <1>2, <2>1, <2>2, AlongList
<1>4. Len(s) \in T
  BY <1>3
<1> QED
  BY <1>4 DEF Bytes

\* One entry put before a list that another one left.
Exchanged(t, s, e, n) ==
    /\ Len(t) = Len(s) /\ t[1] = e
    /\ \A i \in 2 .. n : t[i] = s[i - 1]
    /\ \A i \in n + 1 .. Len(s) : t[i] = s[i]

\* Its size takes the place of the other's.
LEMMA SumOfExchanged ==
    ASSUME NEW s \in Seq(Entries), NEW e \in Entries, NEW t \in Seq(Entries),
           NEW n \in 1 .. Len(s), Exchanged(t, s, e, n)
    PROVE  Bytes(t) = Bytes(s) - s[n].size + e.size
<1> DEFINE Share(i) == IF i = 0 THEN 0
                       ELSE IF i < n THEN e.size + Sum(s, i - 1)
                       ELSE Sum(s, i) - s[n].size + e.size
           T == {i \in Nat : Sum(t, i) = Share(i)}
<1>0. e.size \in Nat
  BY DEF Entries
<1>1. 0 \in T
  BY SumSteps
<1>2. ASSUME NEW i \in 1 .. Len(s), i - 1 \in T PROVE i \in T
  <2>1. Sum(t, i) = Sum(t, i - 1) + t[i].size
    BY SumSteps DEF Exchanged
  <2>2. Sum(s, i) = Sum(s, i - 1) + s[i].size
    BY SumSteps
  <2>3. i > 1 => Sum(s, i - 1) = Sum(s, (i - 1) - 1) + s[i - 1].size
    BY SumSteps
  <2>4. /\ s[i].size \in Nat /\ s[n].size \in Nat
        /\ i > 1 => s[i - 1].size \in Nat
    <3>1. s[i] \in Entries /\ s[n] \in Entries /\ (i > 1 => s[i - 1] \in Entries)
      OBVIOUS
    <3> QED
      BY <3>1 DEF Entries
  <2>5. Sum(s, i) \in Nat /\ Sum(s, i - 1) \in Nat /\ (i > 1 => Sum(s, (i - 1) - 1) \in Nat)
    BY SumNat
  <2>6. Sum(s, 0) = 0
    BY SumSteps
  <2>7. Sum(t, i - 1) = Share(i - 1)
    BY <1>2
  <2>8. CASE i = 1 /\ n = 1
    <3>1. t[1] = e
      BY DEF Exchanged
    <3> QED
      BY <1>0, <2>1, <2>2, <2>4, <2>5, <2>6, <2>7, <2>8, <3>1
  <2>9. CASE i = 1 /\ n # 1
    <3>1. t[1] = e
      BY DEF Exchanged
    <3> QED
      BY <1>0, <2>1, <2>4, <2>5, <2>6, <2>7, <2>9, <3>1
  <2>10. CASE i > 1 /\ i < n
    <3>1. t[i] = s[i - 1]
      BY <2>10 DEF Exchanged
    <3> QED
      BY <1>0, <2>1, <2>3, <2>4, <2>5, <2>7, <2>10, <3>1, SMTT(30)
  <2>11. CASE i > 1 /\ i = n
    <3>1. t[i] = s[i - 1]
      BY <2>11 DEF Exchanged
    <3>2. Sum(t, i - 1) = e.size + Sum(s, (i - 1) - 1)
      BY <2>7, <2>11
    <3>3. Sum(t, i) = e.size + Sum(s, (i - 1) - 1) + s[i - 1].size
      BY <2>1, <3>1, <3>2
    <3>4. Sum(t, i) = Sum(s, i) - s[n].size + e.size
      <4>1. Sum(s, i - 1) = Sum(s, (i - 1) - 1) + s[i - 1].size /\ s[n].size = s[i].size
        BY <2>3, <2>11
      <4>2. Sum(t, i) = e.size + Sum(s, i - 1)
        <5> HIDE DEF Share, T
        <5> QED
          BY <1>0, <2>4, <2>5, <2>11, <3>3, <4>1
      <4>3. Sum(s, i) = Sum(s, i - 1) + s[n].size
        BY <2>2, <4>1
      <4> HIDE DEF Share, T
      <4> QED
        BY <1>0, <2>4, <2>5, <4>2, <4>3
    <3> QED
      BY <2>11, <3>4
  <2>12. CASE i > n
    <3>1. t[i] = s[i]
      BY <2>12 DEF Exchanged
    <3>2. Sum(t, i - 1) = Sum(s, i - 1) - s[n].size + e.size
      BY <2>7, <2>12
    <3>3. Sum(t, i) = Sum(s, i - 1) - s[n].size + e.size + s[i].size
      BY <2>1, <3>1, <3>2
    <3>4. Sum(t, i) = Sum(s, i) - s[n].size + e.size
      BY <1>0, <2>2, <2>4, <2>5, <3>3
    <3> QED
      BY <2>12, <3>4
  <2> QED
    BY <2>8, <2>9, <2>10, <2>11, <2>12
<1>3. \A i \in 0 .. Len(s) : i \in T
  <2> HIDE DEF T
  <2>1. T \in SUBSET Nat
    BY DEF T
  <2>2. Len(s) \in Nat /\ Len(t) \in Nat
    OBVIOUS
  <2> QED
    BY <1>1, <1>2, <2>1, <2>2, AlongList
<1>4. Len(s) \in T
  BY <1>3
<1> QED
  BY <1>4 DEF Bytes, Exchanged

LEMMA Concatenated ==
    ASSUME NEW S, NEW a \in Seq(S), NEW b \in Seq(S)
    PROVE  a \o b \in Seq(S) /\ Len(a \o b) = Len(a) + Len(b)
OBVIOUS

\* What an entry before a list without its n-th one is.
LEMMA FirstOfRest ==
    ASSUME NEW s \in Seq(Entries), NEW e \in Entries, NEW n \in 1 .. Len(s)
    PROVE  /\ <<e>> \o RemoveAt(s, n) \in Seq(Entries)
           /\ Exchanged(<<e>> \o RemoveAt(s, n), s, e, n)
<1> DEFINE a == SubSeq(s, 1, n - 1)
           b == SubSeq(s, n + 1, Len(s))
           c == a \o b
           t == <<e>> \o c
<1>1. a \in Seq(Entries) /\ Len(a) = n - 1 /\ \A i \in 1 .. n - 1 : a[i] = s[i]
  OBVIOUS
<1>2. b \in Seq(Entries) /\ Len(b) = Len(s) - n /\ \A i \in 1 .. Len(s) - n : b[i] = s[n + i]
  OBVIOUS
<1> HIDE DEF a, b
<1>3. c \in Seq(Entries) /\ Len(c) = Len(s) - 1
  <2>1. c \in Seq(Entries) /\ Len(c) = Len(a) + Len(b)
    BY <1>1, <1>2, Concatenated
  <2> QED
    BY <1>1, <1>2, <2>1
<1>4. \A i \in 1 .. n - 1 : c[i] = s[i]
  BY <1>1, <1>2
<1>5. \A i \in n .. Len(s) - 1 : c[i] = s[i + 1]
  <2> SUFFICES ASSUME NEW i \in n .. Len(s) - 1 PROVE c[i] = s[i + 1]
    OBVIOUS
  <2>1. c[i] = b[i - (n - 1)]
    BY <1>1, <1>2
  <2>2. b[i - (n - 1)] = s[n + (i - (n - 1))]
    BY <1>2
  <2> QED
    BY <2>1, <2>2
<1> HIDE DEF c
<1>6. t \in Seq(Entries) /\ Len(t) = Len(s) /\ t[1] = e
  BY <1>3
<1>7. \A i \in 2 .. Len(s) : t[i] = c[i - 1]
  BY <1>3
<1> HIDE DEF t
<1>8. \A i \in 2 .. n : t[i] = s[i - 1]
  <2> SUFFICES ASSUME NEW i \in 2 .. n PROVE t[i] = s[i - 1]
    OBVIOUS
  <2>1. i - 1 \in 1 .. n - 1 /\ i \in 2 .. Len(s)
    OBVIOUS
  <2>2. t[i] = c[i - 1] /\ c[i - 1] = s[i - 1]
    BY <1>4, <1>7, <2>1
  <2> QED
    BY <2>2
<1>9. \A i \in n + 1 .. Len(s) : t[i] = s[i]
  <2> SUFFICES ASSUME NEW i \in n + 1 .. Len(s) PROVE t[i] = s[i]
    OBVIOUS
  <2>1. i - 1 \in n .. Len(s) - 1 /\ i \in 2 .. Len(s) /\ (i - 1) + 1 = i
    OBVIOUS
  <2>2. t[i] = c[i - 1] /\ c[i - 1] = s[(i - 1) + 1]
    BY <1>5, <1>7, <2>1
  <2> QED
    BY <2>1, <2>2
<1>10. Exchanged(t, s, e, n)
  BY <1>6, <1>8, <1>9 DEF Exchanged
<1>11. t = <<e>> \o RemoveAt(s, n)
  BY DEF t, c, a, b, RemoveAt
<1> QED
  BY <1>6, <1>10, <1>11

-----------------------------------------------------------------------------
(* The memory cache. *)

\* No key has two entries.
Apart(s) == \A i, j \in 1 .. Len(s) : s[i].key = s[j].key => i = j

\* A cache that charges for what it holds, each key once.
Charged(m) ==
    /\ m \in [order : Seq(Entries), used : Nat]
    /\ m.used = Bytes(m.order)
    /\ Apart(m.order)

\* What a list holds is in another list.
From(t, s) == \A i \in 1 .. Len(t) : \E j \in 1 .. Len(s) : t[i] = s[j]
\* The same, but for one new entry.
FromOr(t, s, e) == \A i \in 1 .. Len(t) : t[i] = e \/ \E j \in 1 .. Len(s) : t[i] = s[j]

\* An exchange for an entry of the same key keeps the keys apart.
LEMMA ExchangedApart ==
    ASSUME NEW s \in Seq(Entries), NEW t \in Seq(Entries), NEW e \in Entries, NEW n \in 1 .. Len(s),
           Apart(s), Exchanged(t, s, e, n), e.key = s[n].key
    PROVE  Apart(t) /\ FromOr(t, s, e)
<1> DEFINE old(i) == IF i = 1 THEN n ELSE IF i <= n THEN i - 1 ELSE i
<1>1. \A i \in 1 .. Len(t) : old(i) \in 1 .. Len(s) /\ t[i].key = s[old(i)].key
  <2> SUFFICES ASSUME NEW i \in 1 .. Len(t)
               PROVE old(i) \in 1 .. Len(s) /\ t[i].key = s[old(i)].key
    OBVIOUS
  <2>1. CASE i = 1
    BY <2>1 DEF Exchanged
  <2>2. CASE i # 1 /\ i <= n
    BY <2>2 DEF Exchanged
  <2>3. CASE i > n
    BY <2>3 DEF Exchanged
  <2> QED
    BY <2>1, <2>2, <2>3
<1>2. \A i, j \in 1 .. Len(t) : old(i) = old(j) => i = j
  OBVIOUS
<1>3. Apart(t)
  <2> HIDE DEF old
  <2> QED
    BY <1>1, <1>2 DEF Apart
<1>4. ASSUME NEW i \in 1 .. Len(t) PROVE t[i] = e \/ \E j \in 1 .. Len(s) : t[i] = s[j]
  <2>1. CASE i = 1
    BY <2>1 DEF Exchanged
  <2>2. CASE i # 1 /\ i <= n
    <3>1. t[i] = s[i - 1] /\ i - 1 \in 1 .. Len(s)
      BY <2>2 DEF Exchanged
    <3> QED
      BY <3>1
  <2>3. CASE i > n
    <3>1. t[i] = s[i] /\ i \in 1 .. Len(s)
      BY <2>3 DEF Exchanged
    <3> QED
      BY <3>1
  <2> QED
    BY <2>1, <2>2, <2>3
<1> QED
  BY <1>3, <1>4 DEF FromOr

LEMMA PlacesIn ==
    ASSUME Charged(memory), NEW k, NEW n \in Places(k)
    PROVE  n \in 1 .. Len(memory.order) /\ memory.order[n].key = k
<1>1. DOMAIN memory.order = 1 .. Len(memory.order)
  BY DEF Charged
<1> QED
  BY <1>1 DEF Places

\* A hit moves an entry to the front and changes nothing else.
LEMMA TouchedCharged ==
    ASSUME Charged(memory), NEW n \in 1 .. Len(memory.order)
    PROVE  /\ Charged(Touched(n))
           /\ Touched(n).used = memory.used
           /\ From(Touched(n).order, memory.order)
<1> DEFINE s == memory.order
           e == s[n]
           t == <<e>> \o RemoveAt(s, n)
<1>1. memory \in [order : Seq(Entries), used : Nat] /\ s \in Seq(Entries) /\ e \in Entries
      /\ memory.used \in Nat /\ memory.used = Bytes(s) /\ Apart(s) /\ n \in 1 .. Len(s)
      /\ e = s[n]
  BY DEF Charged
<1>2. Touched(n) = [memory EXCEPT !.order = t]
  BY DEF Touched
<1> HIDE DEF s, e
<1>3. t \in Seq(Entries) /\ Exchanged(t, s, e, n)
  BY <1>1, FirstOfRest
<1> HIDE DEF t
<1>4. Bytes(t) = Bytes(s) - s[n].size + e.size
  BY <1>1, <1>3, SumOfExchanged
<1>5. Bytes(s) \in Nat /\ e.size \in Nat
  BY <1>1 DEF Entries
<1>6. Bytes(t) = memory.used
  BY <1>1, <1>4, <1>5
<1>7. Apart(t) /\ FromOr(t, s, e)
  BY <1>1, <1>3, ExchangedApart
<1>8. From(t, s)
  BY <1>1, <1>7 DEF From, FromOr
<1>9. [memory EXCEPT !.order = t] = [order |-> t, used |-> memory.used]
  BY <1>1
<1> QED
  BY <1>1, <1>2, <1>3, <1>6, <1>7, <1>8, <1>9 DEF Charged, s

\* Eviction ends within the budget, with what it kept.
LEMMA EvictedCharged ==
    ASSUME NEW m, Charged(m), Evicted(m)
    PROVE  /\ Charged(memory')
           /\ memory'.used <= Budget
           /\ From(memory'.order, m.order)
<1> DEFINE s == m.order
<1>1. s \in Seq(Entries) /\ m.used = Bytes(s) /\ Apart(s) /\ Len(s) \in Nat
  BY DEF Charged
<1>2. PICK n \in 0 .. Len(s) : Fits(m, n) /\ memory' = Kept(m, n)
  BY DEF Evicted
<1> DEFINE t == SubSeq(s, 1, n)
<1>3. t \in Seq(Entries) /\ Len(t) = n /\ \A i \in 1 .. Len(t) : t[i] = s[i]
  BY <1>1
<1>4. Bytes(t) = Sum(s, n)
  <2> HIDE DEF t, s
  <2> QED
    BY <1>1, <1>3, SumOfPrefix DEF Bytes
<1>5. Sum(s, n) \in Nat /\ Bytes(s) \in Nat
  BY <1>1, SumNat DEF Bytes
<1>6. memory' = [order |-> t, used |-> m.used - (Bytes(s) - Sum(s, n))]
  BY <1>2 DEF Kept
<1>7. m.used - (Bytes(s) - Sum(s, n)) = Bytes(t)
  BY <1>1, <1>4, <1>5
<1>8. memory' = [order |-> t, used |-> Bytes(t)]
  BY <1>6, <1>7
<1>9. Bytes(t) <= Budget
  <2>1. CASE n = 0
    <3>1. Bytes(t) = 0
      BY <1>1, <1>4, <2>1, SumSteps
    <3> QED
      BY <3>1, LimitAssumption
  <2>2. CASE n # 0
    <3>1. Kept(m, n).used <= Budget
      BY <1>2, <2>2 DEF Fits
    <3> QED
      BY <1>2, <1>8, <3>1
  <2> QED
    BY <2>1, <2>2
<1>10. Apart(t) /\ From(t, s)
  <2> HIDE DEF t, s
  <2>1. \A i \in 1 .. Len(t) : i \in 1 .. Len(s)
    BY <1>1, <1>3
  <2> QED
    BY <1>1, <1>3, <2>1 DEF Apart, From
<1>11. Bytes(t) \in Nat
  BY <1>4, <1>5
<1> HIDE DEF t
<1> QED
  BY <1>3, <1>8, <1>9, <1>10, <1>11 DEF Charged

\* An addition or a replacement, before anything is evicted.
LEMMA AddedCharged ==
    ASSUME Charged(memory), NEW e \in Entries, Places(e.key) = {}
    PROVE  Charged(Added(e)) /\ FromOr(Added(e).order, memory.order, e)
<1> DEFINE s == memory.order
           t == <<e>> \o s
<1>1. /\ s \in Seq(Entries) /\ memory.used \in Nat /\ memory.used = Bytes(s) /\ Apart(s)
      /\ \A i \in 1 .. Len(s) : s[i].key # e.key
  <2>1. DOMAIN s = 1 .. Len(s)
    BY DEF Charged
  <2> QED
    BY <2>1 DEF Charged, Places
<1>2. Added(e) = [order |-> t, used |-> memory.used + e.size]
  BY DEF Added
<1> HIDE DEF s
<1>3. t \in Seq(Entries) /\ Len(t) = Len(s) + 1 /\ t[1] = e
  BY <1>1
<1>4. \A i \in 1 .. Len(s) : t[i + 1] = s[i]
  BY <1>1
<1> HIDE DEF t
<1>5. Bytes(t) = e.size + Bytes(s) /\ e.size \in Nat
  BY <1>1, <1>3, <1>4, SumOfAdded DEF Entries
<1>6. Bytes(t) = memory.used + e.size /\ memory.used + e.size \in Nat
  BY <1>1, <1>5
<1>7. \A i \in 1 .. Len(t) : i = 1 \/ (i - 1 \in 1 .. Len(s) /\ t[i] = s[i - 1])
  <2> SUFFICES ASSUME NEW i \in 1 .. Len(t), i # 1 PROVE i - 1 \in 1 .. Len(s) /\ t[i] = s[i - 1]
    OBVIOUS
  <2>1. Len(s) \in Nat
    BY <1>1
  <2>2. i - 1 \in 1 .. Len(s) /\ (i - 1) + 1 = i
    BY <1>3, <2>1
  <2> QED
    BY <1>4, <2>2
<1>8. FromOr(t, s, e)
  BY <1>3, <1>7 DEF FromOr
<1>9. Apart(t)
  <2> SUFFICES ASSUME NEW i \in 1 .. Len(t), NEW j \in 1 .. Len(t), t[i].key = t[j].key PROVE i = j
    BY DEF Apart
  <2>1. CASE i = 1 \/ j = 1
    BY <1>1, <1>3, <1>7, <2>1
  <2>2. CASE i # 1 /\ j # 1
    <3>1. i - 1 \in 1 .. Len(s) /\ t[i] = s[i - 1]
      BY <1>7, <2>2
    <3>2. j - 1 \in 1 .. Len(s) /\ t[j] = s[j - 1]
      BY <1>7, <2>2
    <3>3. s[i - 1].key = s[j - 1].key
      BY <3>1, <3>2
    <3>4. \A a, b \in 1 .. Len(s) : s[a].key = s[b].key => a = b
      BY <1>1 DEF Apart
    <3>5. i - 1 = j - 1
      BY <3>1, <3>2, <3>3, <3>4
    <3>6. i \in Int /\ j \in Int
      BY <1>3, <1>1
    <3> QED
      BY <3>5, <3>6
  <2> QED
    BY <2>1, <2>2
<1> QED
  BY <1>2, <1>3, <1>6, <1>8, <1>9 DEF Charged, s

LEMMA ReplacedCharged ==
    ASSUME Charged(memory), NEW e \in Entries, NEW n \in Places(e.key)
    PROVE  Charged(Replaced(e, n)) /\ FromOr(Replaced(e, n).order, memory.order, e)
<1> DEFINE s == memory.order
           t == <<e>> \o RemoveAt(s, n)
<1>1. /\ s \in Seq(Entries) /\ memory.used \in Nat /\ memory.used = Bytes(s) /\ Apart(s)
      /\ n \in 1 .. Len(s) /\ e.key = s[n].key
  BY DEF Charged, Places
<1>2. Replaced(e, n) = [order |-> t, used |-> memory.used - s[n].size + e.size]
  BY DEF Replaced
<1> HIDE DEF s
<1>3. t \in Seq(Entries) /\ Exchanged(t, s, e, n)
  BY <1>1, FirstOfRest
<1> HIDE DEF t
<1>4. Bytes(t) = memory.used - s[n].size + e.size
  BY <1>1, <1>3, SumOfExchanged
<1>5. Apart(t) /\ FromOr(t, s, e)
  BY <1>1, <1>3, ExchangedApart
<1>6. Bytes(t) \in Nat
  <2>1. Len(t) \in 0 .. Len(t)
    BY <1>3
  <2> QED
    BY <1>3, <2>1, SumNat DEF Bytes
<1>7. Replaced(e, n) = [order |-> t, used |-> Bytes(t)]
  BY <1>2, <1>4
<1> QED
  BY <1>3, <1>5, <1>6, <1>7 DEF Charged, s

\* Whatever put does, the cache charges for what it holds, within the budget, and
\* holds nothing but the entry put and what it held.
LEMMA PutCharged ==
    ASSUME Charged(memory), memory.used <= Budget, NEW e \in Entries, Put(e)
    PROVE  /\ Charged(memory')
           /\ memory'.used <= Budget
           /\ FromOr(memory'.order, memory.order, e)
<1>1. \A s, t : From(t, s) => FromOr(t, s, e)
  BY DEF From, FromOr
<1>2. ASSUME NEW m, Charged(m), FromOr(m.order, memory.order, e), Evicted(m)
      PROVE  /\ Charged(memory')
             /\ memory'.used <= Budget
             /\ FromOr(memory'.order, memory.order, e)
  <2>1. Charged(memory') /\ memory'.used <= Budget /\ From(memory'.order, m.order)
    BY <1>2, EvictedCharged
  <2> QED
    BY <1>2, <2>1 DEF From, FromOr
<1>3. CASE UNCHANGED memory
  <2>1. From(memory.order, memory.order)
    BY DEF From
  <2> QED
    BY <1>1, <1>3, <2>1
<1>4. CASE Places(e.key) = {} /\ Evicted(Added(e))
  BY <1>2, <1>4, AddedCharged
<1>5. CASE \E n \in Places(e.key) : Evicted(Replaced(e, n))
  BY <1>2, <1>5, ReplacedCharged
<1> QED
  BY <1>3, <1>4, <1>5 DEF Put

-----------------------------------------------------------------------------
(* The invariant. *)

\* An entry for no lyrics is not from after the provider's last word on its key.
HonestEntry(e, heard) == ~e.found => heard[e.key] >= e.at
Honest(s, heard) == \A i \in 1 .. Len(s) : HonestEntry(s[i], heard)

MemoryFine ==
    /\ Charged(memory) /\ memory.used <= Budget
    /\ Honest(memory.order, silent)

\* The same of the rows of the durable cache.
HonestRow(k, row, heard) == row.state # "found" => heard[k] >= row.at

StoreFine ==
    /\ store \in [Keys -> Row]
    /\ \A k \in Keys : HonestRow(k, store[k], silent)

\* The circuit counts the faults in a row, its pause is no shorter than the schedule's,
\* and after enough faults it is open for as long as the last one asks.
Noticed == [streak : 0 .. FailureThreshold, own : Nat, until : Nat, probed : BOOLEAN]
BreakerFine ==
    /\ breaker \in [failures : 0 .. FailureThreshold, coolOff : Nat, openUntil : Nat]
    /\ faults \in Noticed
    /\ breaker.failures = faults.streak
    /\ breaker.coolOff >= faults.own
    /\ faults.streak = FailureThreshold
        => breaker.openUntil # 0 /\ breaker.openUntil >= faults.until

Ask == [pc : {"idle", "memory", "store", "fill", "fetch", "save", "done"},
        at : 0 .. MaxTime, left : SUBSET Indexes, missing : SUBSET Indexes,
        rows : [Indexes -> Row],
        slot : [Indexes -> {"none", "waiting", "calling", "found", "silent", "failed"}],
        out : [Indexes -> Keys \cup {""}]]

\* The rows read are honest, the silence told came after the resolve began, and the
\* answers are those of their tracks.
Fine(q, heard, time) ==
    /\ q.at <= time
    /\ \A i \in Indexes : HonestRow(KeyAt(i), q.rows[i], heard)
    /\ \A i \in Indexes : q.slot[i] = "silent" => q.pc # "idle" /\ heard[KeyAt(i)] >= q.at
    /\ \A i \in Indexes : q.out[i] \in {"", KeyAt(i)}

AsksFine ==
    /\ res \in [Resolves -> Ask]
    /\ \A r \in Resolves : Fine(res[r], silent, now)

HistoryFine ==
    /\ has \in SUBSET Keys
    /\ now \in 1 .. MaxTime
    /\ silent \in [Keys -> 0 .. MaxTime]
    /\ \A k \in Keys : silent[k] <= now

LyricsInv == MemoryFine /\ StoreFine /\ BreakerFine /\ AsksFine /\ HistoryFine

-----------------------------------------------------------------------------
(* What the steps are made of. *)

LEMMA KeysOfTracks == \A i \in Indexes : KeyAt(i) \in Keys
BY SizeAssumption DEF Indexes, KeyAt

\* The entry for an answer that is honest.
LEMMA EntryOfAnswer ==
    ASSUME NEW k \in Keys, NEW state, NEW at \in 0 .. MaxTime, NEW heard,
           state # "found" => heard[k] >= at
    PROVE  /\ Entry(k, state = "found", at) \in Entries
           /\ HonestEntry(Entry(k, state = "found", at), heard)
<1> DEFINE e == Entry(k, state = "found", at)
<1>1. Size[k] \in Nat
  BY SizeAssumption
<1>2. CASE state = "found"
  <2>1. e = [key |-> k, found |-> TRUE, at |-> at, size |-> Size[k]]
    BY <1>2 DEF Entry
  <2> HIDE DEF e
  <2>2. e \in Entries
    BY <1>1, <2>1 DEF Entries
  <2>3. e.found
    BY <2>1
  <2>4. HonestEntry(e, heard)
    BY <2>3 DEF HonestEntry
  <2> QED
    BY <2>2, <2>4 DEF e
<1>3. CASE state # "found"
  <2>1. e = [key |-> k, found |-> FALSE, at |-> at, size |-> 1]
    BY <1>3 DEF Entry
  <2> HIDE DEF e
  <2>2. e \in Entries
    BY <2>1 DEF Entries
  <2>3. e.key = k /\ e.at = at
    BY <2>1
  <2>4. HonestEntry(e, heard)
    BY <1>3, <2>3 DEF HonestEntry
  <2> QED
    BY <2>2, <2>4 DEF e
<1> QED
  BY <1>2, <1>3

\* One put keeps the memory cache fine.
LEMMA PutFine ==
    ASSUME MemoryFine, NEW e \in Entries, HonestEntry(e, silent), Put(e), UNCHANGED silent
    PROVE  MemoryFine'
<1>1. /\ Charged(memory') /\ memory'.used <= Budget
      /\ FromOr(memory'.order, memory.order, e)
  BY PutCharged DEF MemoryFine
<1>2. Honest(memory'.order, silent)
  BY <1>1 DEF FromOr, Honest, MemoryFine
<1> QED
  BY <1>1, <1>2 DEF MemoryFine, Charged

\* Nothing heard of a key is forgotten.
Grown(a, b) == \A k \in Keys : a[k] \in Nat /\ b[k] \in Nat /\ a[k] <= b[k]

\* What was heard since and the time that passed take nothing away.
LEMMA FineLater ==
    ASSUME NEW q \in Ask, NEW a, NEW b, NEW t \in Nat, NEW u \in Nat, t <= u,
           Grown(a, b), Fine(q, a, t)
    PROVE  Fine(q, b, u)
<1> DEFINE began == q.at
           read == q.rows
<1>1. began \in Nat /\ (\A i \in Indexes : read[i].at \in Nat)
  <2>1. q.at \in 0 .. MaxTime /\ q.rows \in [Indexes -> Row]
    BY DEF Ask
  <2>2. \A x \in Row : x.at \in 0 .. MaxTime
    BY DEF Row
  <2> QED
    BY <2>1, <2>2, LimitAssumption
<1>2. /\ began <= t
      /\ \A i \in Indexes : HonestRow(KeyAt(i), read[i], a)
      /\ \A i \in Indexes : q.slot[i] = "silent" => q.pc # "idle" /\ a[KeyAt(i)] >= began
      /\ \A i \in Indexes : q.out[i] \in {"", KeyAt(i)}
  BY DEF Fine
<1> HIDE DEF began, read
<1>3. began <= u
  <2>1. began \in Nat /\ began <= t
    BY <1>1, <1>2
  <2> QED
    BY <2>1
<1>4. ASSUME NEW i \in Indexes PROVE HonestRow(KeyAt(i), read[i], b)
  <2>1. a[KeyAt(i)] \in Nat /\ b[KeyAt(i)] \in Nat /\ a[KeyAt(i)] <= b[KeyAt(i)]
    BY KeysOfTracks DEF Grown
  <2> DEFINE x == a[KeyAt(i)]
             y == b[KeyAt(i)]
             z == read[i].at
  <2>2. x \in Nat /\ y \in Nat /\ z \in Nat /\ x <= y /\ (read[i].state # "found" => x >= z)
    BY <1>1, <1>2, <2>1 DEF HonestRow
  <2> HIDE DEF x, y, z
  <2>3. read[i].state # "found" => y >= z
    BY <2>2
  <2> QED
    BY <2>3 DEF HonestRow, y, z
<1>5. ASSUME NEW i \in Indexes, q.slot[i] = "silent" PROVE q.pc # "idle" /\ b[KeyAt(i)] >= began
  <2>1. a[KeyAt(i)] \in Nat /\ b[KeyAt(i)] \in Nat /\ a[KeyAt(i)] <= b[KeyAt(i)]
    BY KeysOfTracks DEF Grown
  <2> DEFINE x == a[KeyAt(i)]
             y == b[KeyAt(i)]
  <2>2. x \in Nat /\ y \in Nat /\ x <= y /\ x >= began /\ q.pc # "idle"
    BY <1>2, <1>5, <2>1
  <2> HIDE DEF x, y
  <2>3. y >= began
    BY <1>1, <2>2
  <2> QED
    BY <2>2, <2>3 DEF y
<1> QED
  BY <1>2, <1>3, <1>4, <1>5 DEF Fine, began, read

LEMMA HonestRowLater ==
    ASSUME NEW k \in Keys, NEW row \in Row, NEW a, NEW b, Grown(a, b), HonestRow(k, row, a)
    PROVE  HonestRow(k, row, b)
<1> DEFINE x == a[k]
           y == b[k]
           z == row.at
<1>1. x \in Nat /\ y \in Nat /\ x <= y
  BY DEF Grown
<1>2. z \in Nat
  BY LimitAssumption DEF Row
<1>3. row.state # "found" => x >= z
  BY DEF HonestRow
<1> HIDE DEF x, y, z
<1>4. row.state # "found" => y >= z
  BY <1>1, <1>2, <1>3
<1> QED
  BY <1>4 DEF HonestRow, y, z

LEMMA HonestLater ==
    ASSUME NEW s \in Seq(Entries), NEW a, NEW b, Grown(a, b), Honest(s, a)
    PROVE  Honest(s, b)
<1> SUFFICES ASSUME NEW i \in 1 .. Len(s), ~s[i].found PROVE b[s[i].key] >= s[i].at
  BY DEF Honest, HonestEntry
<1> DEFINE x == a[s[i].key]
           y == b[s[i].key]
           z == s[i].at
<1>1. s[i] \in Entries
  OBVIOUS
<1>2. s[i].key \in Keys /\ s[i].at \in 0 .. MaxTime
  BY <1>1 DEF Entries
<1>3. x \in Nat /\ y \in Nat /\ x <= y
  BY <1>2 DEF Grown
<1>4. z \in Nat
  BY <1>2, LimitAssumption
<1>5. x >= z
  BY DEF Honest, HonestEntry
<1> HIDE DEF x, y, z
<1>6. y >= z
  BY <1>3, <1>4, <1>5
<1> QED
  BY <1>6 DEF y, z

\* A resolve that moves on and leaves what Fine looks at.
LEMMA FineStays ==
    ASSUME NEW p, NEW q, NEW heard, NEW time, Fine(p, heard, time), q.pc # "idle",
           q.at = p.at, q.rows = p.rows, q.slot = p.slot, q.out = p.out
    PROVE  Fine(q, heard, time)
BY DEF Fine

\* No call is begun.
Quiet(p, q) == \A n \in Indexes : q.slot[n] = "calling" => p.slot[n] = "calling"
QuietStep == \A r \in Resolves : Quiet(res[r], res'[r])

LEMMA OneMoves ==
    ASSUME AsksFine, NEW r \in Resolves, NEW q \in Ask, Fine(q, silent, now),
           res' = [res EXCEPT ![r] = q], UNCHANGED <<silent, now>>
    PROVE  /\ AsksFine'
           /\ Quiet(res[r], q) => QuietStep
<1>1. res' \in [Resolves -> Ask] /\ \A x \in Resolves : res'[x] = IF x = r THEN q ELSE res[x]
  BY DEF AsksFine
<1>2. AsksFine'
  BY <1>1 DEF AsksFine
<1> QED
  BY <1>1, <1>2 DEF QuietStep, Quiet

\* The two ends of a loop over the tracks.
LEMMA LookedFine ==
    ASSUME NEW q \in Ask, NEW heard, NEW time, Fine(q, heard, time), q.pc # "idle"
    PROVE  Looked(q) \in Ask /\ Fine(Looked(q), heard, time) /\ Looked(q).slot = q.slot
<1> DEFINE p == [q EXCEPT !.pc = IF q.missing = {} THEN "done" ELSE "store"]
<1>1. p \in Ask /\ p.pc # "idle" /\ p.at = q.at /\ p.rows = q.rows /\ p.slot = q.slot
      /\ p.out = q.out
  BY DEF Ask
<1>2. Looked(q) \in {q, p}
  BY DEF Looked
<1> HIDE DEF p
<1>3. Fine(p, heard, time)
  BY <1>1, FineStays
<1> QED
  BY <1>1, <1>2, <1>3

LEMMA FetchingFine ==
    ASSUME NEW q \in Ask, NEW heard, NEW time, Fine(q, heard, time)
    PROVE  /\ Fetching(q) \in Ask /\ Fine(Fetching(q), heard, time)
           /\ Quiet(q, Fetching(q))
<1> DEFINE d == [q EXCEPT !.pc = "done"]
           w == [i \in Indexes |-> IF i \in Firsts(q.missing) THEN "waiting" ELSE "none"]
           f == [q EXCEPT !.pc = "fetch", !.left = Firsts(q.missing), !.slot = w]
<1>1. d \in Ask /\ d.pc # "idle" /\ d.at = q.at /\ d.rows = q.rows /\ d.slot = q.slot
      /\ d.out = q.out
  BY DEF Ask
<1>2. w \in [Indexes -> {"none", "waiting", "calling", "found", "silent", "failed"}]
      /\ \A i \in Indexes : w[i] \notin {"calling", "silent"}
  OBVIOUS
<1>3. Firsts(q.missing) \in SUBSET Indexes
  BY DEF Firsts, Ask
<1>4. Fetching(q) \in {d, f}
  BY DEF Fetching
<1> HIDE DEF w
<1>5. f \in Ask /\ f.at = q.at /\ f.rows = q.rows /\ f.slot = w /\ f.out = q.out
  BY <1>2, <1>3 DEF Ask
<1> HIDE DEF d, f
<1>6. Fine(d, heard, time) /\ Quiet(q, d)
  BY <1>1, FineStays DEF Quiet
<1>7. Fine(f, heard, time) /\ Quiet(q, f)
  BY <1>2, <1>5 DEF Fine, Quiet
<1> QED
  BY <1>1, <1>4, <1>5, <1>6, <1>7

\* What a step does not touch stays fine.
LEMMA Untouched ==
    ASSUME LyricsInv
    PROVE  /\ UNCHANGED <<memory, silent>> => MemoryFine'
           /\ UNCHANGED <<store, silent>> => StoreFine'
           /\ UNCHANGED <<breaker, faults>> => BreakerFine'
           /\ UNCHANGED <<has, now, silent>> => HistoryFine'
<1>1. UNCHANGED <<memory, silent>> => MemoryFine'
  BY DEF LyricsInv, MemoryFine, Charged, Honest
<1>2. UNCHANGED <<store, silent>> => StoreFine'
  BY DEF LyricsInv, StoreFine
<1>3. UNCHANGED <<breaker, faults>> => BreakerFine'
  BY DEF LyricsInv, BreakerFine
<1>4. UNCHANGED <<has, now, silent>> => HistoryFine'
  BY DEF LyricsInv, HistoryFine
<1> QED
  BY <1>1, <1>2, <1>3, <1>4

\* Nor does it ask anybody.
LEMMA NobodyMoves ==
    ASSUME UNCHANGED res PROVE QuietStep
BY DEF QuietStep, Quiet

-----------------------------------------------------------------------------
(* The steps of a resolve. *)

LEMMA BeginFine ==
    ASSUME LyricsInv, NEW r \in Resolves, Begin(r)
    PROVE  LyricsInv' /\ QuietStep
<1> DEFINE p == res[r]
           pc == IF Indexes = {} THEN "done" ELSE "memory"
           q == [p EXCEPT !.pc = pc, !.at = now, !.left = Indexes]
<1>1. p \in Ask /\ Fine(p, silent, now) /\ p.pc = "idle"
  BY DEF LyricsInv, AsksFine, Begin
<1>0. now \in 0 .. MaxTime /\ now <= now
  BY DEF LyricsInv, HistoryFine
<1>2. pc \in {"done", "memory"}
  OBVIOUS
<1>3. res' = [res EXCEPT ![r] = q]
  BY DEF Begin, LyricsInv, AsksFine
<1> HIDE DEF p, pc
<1>4. q \in Ask /\ q.at = now /\ q.rows = p.rows /\ q.slot = p.slot /\ q.out = p.out
  BY <1>0, <1>1, <1>2 DEF Ask
<1> HIDE DEF q
<1>5. \A i \in Indexes : q.slot[i] # "silent"
  BY <1>1, <1>4 DEF Fine
<1>6. Fine(q, silent, now)
  BY <1>0, <1>1, <1>4, <1>5 DEF Fine
<1>7. Quiet(res[r], q)
  BY <1>4 DEF Quiet, p
<1>8. AsksFine' /\ QuietStep
  BY <1>3, <1>4, <1>6, <1>7, OneMoves DEF Begin, LyricsInv
<1> QED
  BY <1>8, Untouched DEF Begin, LyricsInv

\* A track that is still missing, and one with an answer of its own.
LEMMA MissedFine ==
    ASSUME NEW p \in Ask, NEW i \in Indexes, NEW heard, NEW time,
           Fine(p, heard, time), p.pc # "idle"
    PROVE  LET q == Missed(p, i)
           IN  q \in Ask /\ Fine(q, heard, time) /\ q.pc = p.pc /\ q.slot = p.slot
<1> DEFINE q == Missed(p, i)
<1>1. q \in Ask /\ q.pc = p.pc /\ q.at = p.at /\ q.rows = p.rows /\ q.slot = p.slot /\ q.out = p.out
  BY DEF Ask, Missed
<1> HIDE DEF q
<1>2. Fine(q, heard, time)
  BY <1>1, FineStays
<1> QED
  BY <1>1, <1>2 DEF q

LEMMA GivenFine ==
    ASSUME NEW p \in Ask, NEW i \in Indexes, NEW heard, NEW time,
           Fine(p, heard, time), p.pc # "idle", NEW a \in {"", KeyAt(i)}
    PROVE  LET q == Given(p, i, a)
           IN  q \in Ask /\ Fine(q, heard, time) /\ q.pc = p.pc /\ q.slot = p.slot
<1> DEFINE out == [p.out EXCEPT ![i] = a]
           left == p.left \ {i}
           q == [p EXCEPT !.left = left, !.out = out]
<1>1. out \in [Indexes -> Keys \cup {""}] /\ (\A j \in Indexes : out[j] \in {"", KeyAt(j)})
  <2>1. p.out \in [Indexes -> Keys \cup {""}] /\ (\A j \in Indexes : p.out[j] \in {"", KeyAt(j)})
    BY DEF Ask, Fine
  <2> QED
    BY <2>1, KeysOfTracks
<1>2. left \in SUBSET Indexes
  BY DEF Ask
<1>3. Given(p, i, a) = q
  BY DEF Ask, Given
<1> HIDE DEF out, left
<1>4. q \in Ask /\ q.pc = p.pc /\ q.at = p.at /\ q.rows = p.rows /\ q.slot = p.slot /\ q.out = out
  BY <1>1, <1>2 DEF Ask
<1> HIDE DEF q
<1>5. Fine(q, heard, time)
  BY <1>1, <1>4 DEF Fine
<1> QED
  BY <1>3, <1>4, <1>5

LEMMA GetFine ==
    ASSUME LyricsInv, NEW r \in Resolves, Get(r)
    PROVE  LyricsInv' /\ QuietStep
<1> DEFINE p == res[r]
           Good(q) == q \in Ask /\ Fine(q, silent, now) /\ q.pc # "idle" /\ q.slot = p.slot
<1>1. p \in Ask /\ Fine(p, silent, now) /\ p.pc # "idle"
  BY DEF LyricsInv, AsksFine, Get
<1>2. PICK i \in Indexes :
        \/ /\ Places(KeyAt(i)) = {}
           /\ res' = [res EXCEPT ![r] = Looked(Missed(p, i))]
           /\ UNCHANGED memory
        \/ \E n \in Places(KeyAt(i)) :
            LET e == memory.order[n] IN
            /\ res' = [res EXCEPT ![r] = Looked(
                  IF Fresh(e.found, e.at, p.at)
                  THEN Given(p, i, IF e.found THEN e.key ELSE "") ELSE Missed(p, i))]
            /\ memory' = Touched(n)
  BY DEF Get
<1>3. UNCHANGED <<store, breaker, has, now, silent, faults>>
  BY DEF Get
<1> HIDE DEF p
<1>4. Good(Missed(p, i))
  BY <1>1, MissedFine
<1>5. ASSUME NEW a \in {"", KeyAt(i)} PROVE Good(Given(p, i, a))
  BY <1>1, GivenFine
<1>6. ASSUME NEW q, Good(q), res' = [res EXCEPT ![r] = Looked(q)] PROVE AsksFine' /\ QuietStep
  <2>1. Looked(q) \in Ask /\ Fine(Looked(q), silent, now) /\ Looked(q).slot = p.slot
    BY <1>6, LookedFine
  <2>2. Quiet(res[r], Looked(q))
    BY <2>1 DEF Quiet, p
  <2> QED
    BY <1>3, <1>6, <2>1, <2>2, OneMoves DEF LyricsInv
<1> HIDE DEF Good
<1>7. CASE /\ res' = [res EXCEPT ![r] = Looked(Missed(p, i))]
           /\ UNCHANGED memory
  <2>1. AsksFine' /\ QuietStep
    BY <1>4, <1>6, <1>7
  <2> QED
    BY <1>3, <1>7, <2>1, Untouched DEF LyricsInv
<1>8. ASSUME NEW n \in Places(KeyAt(i)), memory' = Touched(n),
             NEW e, e = memory.order[n],
             res' = [res EXCEPT ![r] = Looked(
                  IF Fresh(e.found, e.at, p.at)
                  THEN Given(p, i, IF e.found THEN e.key ELSE "") ELSE Missed(p, i))]
      PROVE  LyricsInv' /\ QuietStep
  <2> DEFINE a == IF e.found THEN e.key ELSE ""
  <2>1. a \in {"", KeyAt(i)}
    BY <1>8 DEF Places
  <2>2. Good(Given(p, i, a))
    BY <1>5, <2>1
  <2> HIDE DEF a
  <2>3. AsksFine' /\ QuietStep
    <3>1. CASE Fresh(e.found, e.at, p.at)
      <4>1. res' = [res EXCEPT ![r] = Looked(Given(p, i, a))]
        BY <1>8, <3>1 DEF a
      <4> QED
        BY <1>6, <2>2, <4>1
    <3>2. CASE ~Fresh(e.found, e.at, p.at)
      <4>1. res' = [res EXCEPT ![r] = Looked(Missed(p, i))]
        BY <1>8, <3>2
      <4> QED
        BY <1>4, <1>6, <4>1
    <3> QED
      BY <3>1, <3>2
  <2>4. MemoryFine'
    <3>1. Charged(memory) /\ memory.used <= Budget /\ Honest(memory.order, silent)
      BY DEF LyricsInv, MemoryFine
    <3>2. n \in 1 .. Len(memory.order)
      BY <3>1, PlacesIn
    <3>3. Charged(memory') /\ memory'.used <= Budget /\ From(memory'.order, memory.order)
      BY <1>8, <3>1, <3>2, TouchedCharged
    <3>4. Honest(memory'.order, silent)
      BY <3>1, <3>3 DEF From, Honest
    <3> QED
      BY <1>3, <3>3, <3>4 DEF MemoryFine, Charged
  <2> QED
    BY <1>3, <2>3, <2>4, Untouched DEF LyricsInv
<1> QED
  BY <1>2, <1>7, <1>8

LEMMA ReadStoreFine ==
    ASSUME LyricsInv, NEW r \in Resolves, ReadStore(r)
    PROVE  LyricsInv' /\ QuietStep
<1> DEFINE p == res[r]
           fresh == {i \in p.missing : /\ Cached(KeyAt(i))
                                       /\ Fresh(store[KeyAt(i)].state = "found", store[KeyAt(i)].at, p.at)}
           rows == [i \in Indexes |-> IF i \in fresh THEN store[KeyAt(i)] ELSE NoRow]
           q == [p EXCEPT !.left = fresh, !.missing = @ \ fresh, !.rows = rows]
           f == [q EXCEPT !.pc = "fill"]
<1>1. p \in Ask /\ Fine(p, silent, now) /\ p.pc = "store"
  BY DEF LyricsInv, AsksFine, ReadStore
<1>2. res' = [res EXCEPT ![r] = IF fresh = {} THEN Fetching(q) ELSE f]
  BY DEF ReadStore
<1>3. fresh \in SUBSET Indexes
  BY <1>1 DEF Ask
<1>4. rows \in [Indexes -> Row] /\ \A i \in Indexes : HonestRow(KeyAt(i), rows[i], silent)
  <2>1. NoRow \in Row /\ \A i \in Indexes : HonestRow(KeyAt(i), NoRow, silent)
    <3>1. \A i \in Indexes : silent[KeyAt(i)] \in Nat
      BY KeysOfTracks DEF LyricsInv, HistoryFine
    <3> QED
      BY <3>1, LimitAssumption DEF NoRow, Row, HonestRow
  <2>2. \A i \in Indexes : store[KeyAt(i)] \in Row /\ HonestRow(KeyAt(i), store[KeyAt(i)], silent)
    BY KeysOfTracks DEF LyricsInv, StoreFine
  <2> QED
    BY <2>1, <2>2
<1> HIDE DEF p, fresh, rows
<1>5. q \in Ask /\ q.pc = "store" /\ q.at = p.at /\ q.rows = rows /\ q.slot = p.slot /\ q.out = p.out
  BY <1>1, <1>3, <1>4 DEF Ask
<1>6. f \in Ask /\ f.pc = "fill" /\ f.at = p.at /\ f.rows = rows /\ f.slot = p.slot /\ f.out = p.out
  BY <1>5 DEF Ask
<1> HIDE DEF q, f
<1>7. Fine(q, silent, now) /\ Fine(f, silent, now)
  BY <1>1, <1>4, <1>5, <1>6 DEF Fine
<1>8. AsksFine' /\ QuietStep
  <2>1. CASE fresh = {}
    <3>1. Fetching(q) \in Ask /\ Fine(Fetching(q), silent, now) /\ Quiet(q, Fetching(q))
      BY <1>5, <1>7, FetchingFine
    <3>2. Quiet(res[r], Fetching(q))
      BY <1>5, <3>1, SMTT(30) DEF Quiet, p
    <3> QED
      BY <1>2, <2>1, <3>1, <3>2, OneMoves DEF ReadStore, LyricsInv
  <2>2. CASE fresh # {}
    <3>1. Quiet(res[r], f)
      BY <1>6 DEF Quiet, p
    <3> QED
      BY <1>2, <1>6, <1>7, <2>2, <3>1, OneMoves DEF ReadStore, LyricsInv
  <2> QED
    BY <2>1, <2>2
<1> QED
  BY <1>8, Untouched DEF ReadStore, LyricsInv

LEMMA MissStoreFine ==
    ASSUME LyricsInv, NEW r \in Resolves, MissStore(r)
    PROVE  LyricsInv' /\ QuietStep
<1>1. res[r] \in Ask /\ Fine(res[r], silent, now)
  BY DEF LyricsInv, AsksFine
<1>2. Fetching(res[r]) \in Ask /\ Fine(Fetching(res[r]), silent, now)
      /\ Quiet(res[r], Fetching(res[r]))
  BY <1>1, FetchingFine
<1>3. AsksFine' /\ QuietStep
  BY <1>2, OneMoves DEF MissStore, LyricsInv
<1> QED
  BY <1>3, Untouched DEF MissStore, LyricsInv

LEMMA FillFine ==
    ASSUME LyricsInv, NEW r \in Resolves, Fill(r)
    PROVE  LyricsInv' /\ QuietStep
<1> DEFINE p == res[r]
<1>1. p \in Ask /\ Fine(p, silent, now) /\ p.pc = "fill"
  BY DEF LyricsInv, AsksFine, Fill
<1>2. UNCHANGED <<store, breaker, has, now, silent, faults>>
  BY ZenonT(40) DEF Fill
<1>3. PICK i \in Indexes :
        LET row == p.rows[i]
            given == Given(p, i, IF row.state = "found" THEN KeyAt(i) ELSE "")
            filled == [given EXCEPT !.rows[i] = NoRow]
        IN /\ res' = [res EXCEPT ![r] = IF filled.left = {} THEN Fetching(filled) ELSE filled]
           /\ Put(Entry(KeyAt(i), row.state = "found", row.at))
  BY DEF Fill
<1> DEFINE row == p.rows[i]
           a == IF row.state = "found" THEN KeyAt(i) ELSE ""
           g == Given(p, i, a)
           rows == [g.rows EXCEPT ![i] = NoRow]
           q == [g EXCEPT !.rows = rows]
<1>4. row \in Row /\ HonestRow(KeyAt(i), row, silent) /\ KeyAt(i) \in Keys
  BY <1>1, KeysOfTracks DEF Ask, Fine
<1>5. Put(Entry(KeyAt(i), row.state = "found", row.at))
  BY <1>3
<1> HIDE DEF p, row
<1>6. row.at \in 0 .. MaxTime /\ a \in {"", KeyAt(i)}
  BY <1>4 DEF Row
<1>7. g \in Ask /\ Fine(g, silent, now) /\ g.pc = "fill" /\ g.slot = p.slot
  BY <1>1, <1>6, GivenFine
<1>8. res' = [res EXCEPT ![r] = IF q.left = {} THEN Fetching(q) ELSE q]
  <2> HIDE DEF g
  <2>1. [g EXCEPT !.rows[i] = NoRow] = q
    BY <1>7 DEF Ask
  <2>2. res' = [res EXCEPT ![r] = IF [g EXCEPT !.rows[i] = NoRow].left = {}
                                  THEN Fetching([g EXCEPT !.rows[i] = NoRow])
                                  ELSE [g EXCEPT !.rows[i] = NoRow]]
    BY <1>3 DEF g, row
  <2> QED
    BY <2>1, <2>2
<1> HIDE DEF a, g
<1>9. MemoryFine'
  <2>1. row.state # "found" => silent[KeyAt(i)] >= row.at
    BY <1>4 DEF HonestRow
  <2>2. /\ Entry(KeyAt(i), row.state = "found", row.at) \in Entries
        /\ HonestEntry(Entry(KeyAt(i), row.state = "found", row.at), silent)
    BY <1>4, <1>6, <2>1, EntryOfAnswer
  <2> QED
    BY <1>2, <1>5, <2>2, PutFine DEF LyricsInv
<1>10. rows \in [Indexes -> Row] /\ \A j \in Indexes : HonestRow(KeyAt(j), rows[j], silent)
  <2>1. NoRow \in Row /\ HonestRow(KeyAt(i), NoRow, silent)
    <3>1. silent[KeyAt(i)] \in Nat
      BY <1>4 DEF LyricsInv, HistoryFine
    <3> QED
      BY <3>1, LimitAssumption DEF NoRow, Row, HonestRow
  <2>2. g.rows \in [Indexes -> Row] /\ \A j \in Indexes : HonestRow(KeyAt(j), g.rows[j], silent)
    BY <1>7 DEF Ask, Fine
  <2> QED
    BY <2>1, <2>2
<1> HIDE DEF rows
<1>11. q \in Ask /\ q.pc = "fill" /\ q.at = g.at /\ q.rows = rows /\ q.slot = p.slot /\ q.out = g.out
  BY <1>7, <1>10 DEF Ask
<1> HIDE DEF q
<1>12. Fine(q, silent, now)
  BY <1>7, <1>10, <1>11 DEF Fine
<1>13. Quiet(res[r], q)
  BY <1>11 DEF Quiet, p
<1>14. AsksFine' /\ QuietStep
  <2>1. CASE q.left = {}
    <3>1. Fetching(q) \in Ask /\ Fine(Fetching(q), silent, now) /\ Quiet(q, Fetching(q))
      BY <1>11, <1>12, FetchingFine
    <3>2. Quiet(res[r], Fetching(q))
      BY <1>13, <3>1 DEF Quiet
    <3>3. res' = [res EXCEPT ![r] = Fetching(q)]
      BY <1>8, <2>1
    <3> QED
      BY <1>2, <3>1, <3>2, <3>3, OneMoves DEF LyricsInv
  <2>2. CASE q.left # {}
    <3>1. res' = [res EXCEPT ![r] = q]
      BY <1>8, <2>2
    <3> QED
      BY <1>2, <1>11, <1>12, <1>13, <3>1, OneMoves DEF LyricsInv
  <2> QED
    BY <2>1, <2>2
<1> QED
  BY <1>2, <1>9, <1>14, Untouched DEF LyricsInv

\* One slot changes, in a call.
LEMMA SlotFine ==
    ASSUME NEW p \in Ask, NEW n \in Indexes, NEW heard, NEW time, Fine(p, heard, time),
           NEW x \in {"calling", "found", "silent", "failed"},
           x = "silent" => p.pc # "idle" /\ heard[KeyAt(n)] >= p.at
    PROVE  LET q == [p EXCEPT !.slot[n] = x]
           IN  q \in Ask /\ Fine(q, heard, time) /\ (x # "calling" => Quiet(p, q))
<1> DEFINE slot == [p.slot EXCEPT ![n] = x]
           q == [p EXCEPT !.slot = slot]
<1>1. slot \in [Indexes -> {"none", "waiting", "calling", "found", "silent", "failed"}]
      /\ \A i \in Indexes : slot[i] = IF i = n THEN x ELSE p.slot[i]
  BY DEF Ask
<1>2. [p EXCEPT !.slot[n] = x] = q
  BY DEF Ask
<1> HIDE DEF slot
<1>3. q \in Ask /\ q.pc = p.pc /\ q.at = p.at /\ q.rows = p.rows /\ q.slot = slot /\ q.out = p.out
  BY <1>1 DEF Ask
<1> HIDE DEF q
<1>4. \A i \in Indexes : slot[i] = "silent" => p.pc # "idle" /\ heard[KeyAt(i)] >= p.at
  BY <1>1 DEF Fine
<1>5. Fine(q, heard, time)
  BY <1>3, <1>4 DEF Fine
<1>6. x # "calling" => Quiet(p, q)
  BY <1>1, <1>3 DEF Quiet
<1> QED
  BY <1>2, <1>3, <1>5, <1>6

\* That a call began changes nothing else of what is noted of the faults.
LEMMA ProbedNoticed ==
    ASSUME NEW f \in Noticed, NEW g, NEW x, g = [f EXCEPT !.probed = f.probed \/ x], x \in BOOLEAN
    PROVE  g \in Noticed /\ g.streak = f.streak /\ g.own = f.own /\ g.until = f.until
<1>1. (f.probed \/ x) \in BOOLEAN
  OBVIOUS
<1> QED
  BY <1>1 DEF Noticed

\* A call begins only while the circuit allows it.
LEMMA CallFine ==
    ASSUME LyricsInv, NEW r \in Resolves, NEW n \in Indexes, Call(r, n)
    PROVE  LyricsInv' /\ (QuietStep \/ allow)
<1> DEFINE x == IF allow THEN "calling" ELSE "failed"
           p == res[r]
           q == [p EXCEPT !.slot[n] = x]
<1>1. p \in Ask /\ Fine(p, silent, now)
  BY DEF LyricsInv, AsksFine
<1>2. /\ res' = [res EXCEPT ![r] = q] /\ UNCHANGED <<memory, store, breaker, has, now, silent>>
      /\ faults' = [faults EXCEPT !.probed = @ \/ (allow /\ faults.streak = FailureThreshold)]
  BY DEF Call, Skipped, LyricsInv, AsksFine
<1>3. x \in {"calling", "failed"} /\ (x = "calling" => allow)
  OBVIOUS
<1> HIDE DEF x, p
<1>4. q \in Ask /\ Fine(q, silent, now) /\ (x # "calling" => Quiet(p, q))
  BY <1>1, <1>3, SlotFine
<1> HIDE DEF q
<1>5. AsksFine' /\ (Quiet(p, q) => QuietStep)
  BY <1>2, <1>4, OneMoves DEF LyricsInv, p
<1>6. BreakerFine'
  <2>1. BreakerFine /\ faults \in Noticed
    BY DEF LyricsInv, BreakerFine
  <2>2. /\ faults' \in Noticed /\ faults'.streak = faults.streak
        /\ faults'.own = faults.own /\ faults'.until = faults.until
    BY <1>2, <2>1, ProbedNoticed
  <2> QED
    BY <1>2, <2>1, <2>2 DEF BreakerFine
<1> QED
  BY <1>2, <1>3, <1>4, <1>5, <1>6, Untouched DEF LyricsInv

\* A circuit that closes, or starts closed, has no fault behind it.
LEMMA ClosedFine ==
    /\ Closed \in [failures : 0 .. FailureThreshold, coolOff : Nat, openUntil : Nat]
    /\ NoFaults \in Noticed
    /\ Closed.failures = NoFaults.streak /\ Closed.coolOff >= NoFaults.own
    /\ NoFaults.streak # FailureThreshold
<1>1. 0 \in 0 .. FailureThreshold /\ FailureThreshold # 0
  BY LimitAssumption
<1> QED
  BY <1>1 DEF Closed, NoFaults, Noticed

\* What the provider answers is heard now, after the resolve began.
LEMMA AnswerFine ==
    ASSUME LyricsInv, NEW r \in Resolves, NEW n \in Indexes, Answer(r, n)
    PROVE  LyricsInv' /\ QuietStep
<1> DEFINE k == KeyAt(n)
           x == IF k \in has THEN "found" ELSE "silent"
           p == res[r]
           q == [p EXCEPT !.slot[n] = x]
<1>1. /\ p \in Ask /\ \A s \in Resolves : res[s] \in Ask /\ Fine(res[s], silent, now)
      /\ p.pc = "fetch" /\ k \in Keys /\ res \in [Resolves -> Ask]
  BY KeysOfTracks DEF LyricsInv, AsksFine, Answer
<1>2. res' = [res EXCEPT ![r] = q]
  BY DEF Answer, LyricsInv, AsksFine
<1>3. /\ silent' = IF k \in has THEN silent ELSE [silent EXCEPT ![k] = now]
      /\ breaker' = Closed /\ faults' = NoFaults
      /\ UNCHANGED <<memory, store, has, now>>
  BY DEF Answer, recordSuccess
<1>4. x \in {"found", "silent"} /\ (x = "silent" => k \notin has)
  OBVIOUS
<1> HIDE DEF x, p, k
<1>5. now \in Nat /\ now \in 1 .. MaxTime /\ now \in 0 .. MaxTime
  BY LimitAssumption DEF LyricsInv, HistoryFine
<1>6. silent \in [Keys -> 0 .. MaxTime] /\ (\A l \in Keys : silent[l] <= now)
      /\ (\A l \in Keys : silent[l] \in Nat)
  BY LimitAssumption DEF LyricsInv, HistoryFine
<1>7. silent' \in [Keys -> 0 .. MaxTime] /\ (\A l \in Keys : silent'[l] \in {silent[l], now})
      /\ (k \notin has => silent'[k] = now)
  BY <1>1, <1>3, <1>5, <1>6
<1>8. Grown(silent, silent') /\ (\A l \in Keys : silent'[l] <= now)
  BY <1>5, <1>6, <1>7 DEF Grown
<1>9. HistoryFine'
  BY <1>3, <1>7, <1>8 DEF LyricsInv, HistoryFine
<1>10. MemoryFine'
  <2>1. Charged(memory) /\ memory.used <= Budget /\ Honest(memory.order, silent)
    BY DEF LyricsInv, MemoryFine
  <2>2. Honest(memory.order, silent')
    BY <1>8, <2>1, HonestLater DEF Charged
  <2> QED
    BY <1>3, <2>1, <2>2 DEF MemoryFine, Charged
<1>11. StoreFine'
  <2>1. store \in [Keys -> Row] /\ \A l \in Keys : HonestRow(l, store[l], silent)
    BY DEF LyricsInv, StoreFine
  <2>2. \A l \in Keys : HonestRow(l, store[l], silent')
    BY <1>8, <2>1, HonestRowLater
  <2> QED
    BY <1>3, <2>1, <2>2 DEF StoreFine
<1>12. \A s \in Resolves : Fine(res[s], silent', now)
  <2>1. now <= now
    BY <1>5
  <2> QED
    BY <1>1, <1>5, <1>8, <2>1, FineLater
<1>13. q \in Ask /\ Fine(q, silent', now) /\ Quiet(p, q)
  <2>1. x = "silent" => p.pc # "idle" /\ silent'[KeyAt(n)] >= p.at
    <3>1. p.at <= now
      BY <1>1 DEF Fine, p
    <3>2. x = "silent" => silent'[KeyAt(n)] = now
      BY <1>4, <1>7 DEF k
    <3>3. p.at \in Nat
      <4>1. p.at \in 0 .. MaxTime
        BY <1>1 DEF Ask
      <4> QED
        BY <4>1, LimitAssumption
    <3> QED
      BY <1>1, <1>5, <3>1, <3>2, <3>3
  <2>2. Fine(p, silent', now)
    BY <1>12 DEF p
  <2> QED
    BY <1>1, <1>4, <2>1, <2>2, SlotFine
<1> HIDE DEF q
<1>14. res' \in [Resolves -> Ask] /\ \A s \in Resolves : res'[s] = IF s = r THEN q ELSE res[s]
  BY <1>1, <1>2, <1>13
<1>15. AsksFine'
  BY <1>3, <1>12, <1>13, <1>14 DEF AsksFine
<1>16. QuietStep
  BY <1>13, <1>14 DEF QuietStep, Quiet, p
<1>17. BreakerFine'
  BY <1>3, ClosedFine DEF BreakerFine
<1> QED
  BY <1>9, <1>10, <1>11, <1>15, <1>16, <1>17 DEF LyricsInv

\* The pause of the circuit is no shorter than the one the schedule asks for.
LEMMA PauseGrows ==
    ASSUME LyricsInv, NEW after \in RetryTimes
    PROVE  /\ CoolOff(after) \in Nat /\ Scheduled \in Nat /\ after \in Nat
           /\ CoolOff(after) >= Scheduled /\ CoolOff(after) >= after /\ CoolOff(after) # 0
<1> DEFINE c == breaker.coolOff
           own == faults.own
           doubled == Smaller(Larger(c * 2, BaseCoolOff), MaxCoolOff)
<1>1. c \in Nat /\ own \in Nat /\ c >= own
  BY DEF LyricsInv, BreakerFine, Noticed
<1>2. /\ BaseCoolOff \in Nat /\ BaseCoolOff # 0 /\ MaxCoolOff \in Nat
      /\ BaseCoolOff <= MaxCoolOff /\ after \in Nat
  BY LimitAssumption
<1>3. CoolOff(after) = Larger(doubled, after)
  BY DEF CoolOff
<1>4. Scheduled = IF own = 0 THEN BaseCoolOff ELSE Smaller(2 * own, MaxCoolOff)
  BY DEF Scheduled
<1> HIDE DEF c, own
<1>5. /\ doubled \in Nat /\ doubled >= BaseCoolOff
      /\ doubled >= Smaller(2 * own, MaxCoolOff) /\ Smaller(2 * own, MaxCoolOff) \in Nat
  BY <1>1, <1>2 DEF Smaller, Larger
<1> HIDE DEF doubled
<1>6. Larger(doubled, after) \in Nat /\ Larger(doubled, after) >= doubled /\ Larger(doubled, after) >= after
  BY <1>2, <1>5 DEF Larger
<1> QED
  BY <1>2, <1>3, <1>4, <1>5, <1>6

\* After a failure the circuit stays closed only below the threshold, and an open one
\* stays so for as long as the failure asks.
LEMMA FailureFine ==
    ASSUME LyricsInv, NEW after \in RetryTimes, recordFailure(after)
    PROVE  BreakerFine'
<1> DEFINE b == breaker
           f == faults
           coolOff == CoolOff(after)
           until == now + Larger(Scheduled, after)
<1>1. /\ b.failures \in 0 .. FailureThreshold
      /\ b \in [failures : 0 .. FailureThreshold, coolOff : Nat, openUntil : Nat]
      /\ f \in Noticed /\ f.streak = b.failures /\ b.coolOff >= f.own
      /\ FailureThreshold \in Nat /\ FailureThreshold # 0
  BY LimitAssumption DEF LyricsInv, BreakerFine
<1>2. now \in Nat /\ now # 0
  BY LimitAssumption DEF LyricsInv, HistoryFine
<1>3. /\ coolOff \in Nat /\ Scheduled \in Nat /\ coolOff >= Scheduled
      /\ now + coolOff \in Nat /\ now + coolOff # 0 /\ until \in Nat /\ now + coolOff >= until
  BY <1>2, PauseGrows DEF Larger
<1>4. /\ breaker' = IF Opens(b.failures)
            THEN [failures |-> FailureThreshold, coolOff |-> coolOff, openUntil |-> now + coolOff]
            ELSE [b EXCEPT !.failures = @ + 1]
      /\ faults' = IF f.streak + 1 >= FailureThreshold
            THEN [streak |-> FailureThreshold, own |-> Scheduled, until |-> until, probed |-> FALSE]
            ELSE [f EXCEPT !.streak = @ + 1]
  BY DEF recordFailure, Noted
<1> HIDE DEF b, f, coolOff, until
<1>5. CASE b.failures + 1 >= FailureThreshold
  <2>1. breaker' = [failures |-> FailureThreshold, coolOff |-> coolOff, openUntil |-> now + coolOff]
    BY <1>4, <1>5 DEF Opens
  <2>2. faults' = [streak |-> FailureThreshold, own |-> Scheduled, until |-> until, probed |-> FALSE]
    BY <1>1, <1>4, <1>5
  <2>3. FailureThreshold \in 0 .. FailureThreshold
    BY <1>1
  <2> QED
    BY <1>3, <2>1, <2>2, <2>3 DEF BreakerFine, Noticed
<1>6. CASE ~(b.failures + 1 >= FailureThreshold)
  <2>1. breaker' = [b EXCEPT !.failures = b.failures + 1]
    BY <1>4, <1>6 DEF Opens
  <2>2. faults' = [f EXCEPT !.streak = b.failures + 1]
    BY <1>1, <1>4, <1>6
  <2>3. b.failures + 1 \in 0 .. FailureThreshold /\ b.failures + 1 # FailureThreshold
    BY <1>1, <1>6
  <2>4. faults' \in Noticed /\ faults'.streak = b.failures + 1 /\ faults'.own = f.own
    BY <1>1, <2>2, <2>3 DEF Noticed
  <2>5. /\ breaker' \in [failures : 0 .. FailureThreshold, coolOff : Nat, openUntil : Nat]
        /\ breaker'.failures = b.failures + 1 /\ breaker'.coolOff = b.coolOff
    BY <1>1, <2>1, <2>3
  <2> QED
    BY <1>1, <2>3, <2>4, <2>5 DEF BreakerFine
<1> QED
  BY <1>5, <1>6

LEMMA FaultFine ==
    ASSUME LyricsInv, NEW r \in Resolves, NEW n \in Indexes, Fault(r, n)
    PROVE  LyricsInv' /\ QuietStep
<1> DEFINE p == res[r]
           q == [p EXCEPT !.slot[n] = "failed"]
<1>1. p \in Ask /\ Fine(p, silent, now)
  BY DEF LyricsInv, AsksFine
<1>2. res' = [res EXCEPT ![r] = q] /\ UNCHANGED <<memory, store, has, now, silent>>
  BY DEF Fault, LyricsInv, AsksFine
<1>3. BreakerFine'
  BY FailureFine DEF Fault
<1> HIDE DEF p
<1>4. q \in Ask /\ Fine(q, silent, now) /\ Quiet(p, q)
  BY <1>1, SlotFine
<1> HIDE DEF q
<1>5. AsksFine' /\ QuietStep
  BY <1>2, <1>4, OneMoves DEF LyricsInv, p
<1> QED
  BY <1>2, <1>3, <1>5, Untouched DEF LyricsInv

\* One answer goes to the tracks it was fetched for.
LEMMA CollectFine ==
    ASSUME LyricsInv, NEW r \in Resolves, Collect(r)
    PROVE  LyricsInv' /\ QuietStep
<1> DEFINE p == res[r]
<1>1. p \in Ask /\ Fine(p, silent, now) /\ p.pc = "fetch"
  BY DEF LyricsInv, AsksFine, Collect, AllBack
<1>2. UNCHANGED <<store, breaker, has, now, silent, faults>>
  BY DEF Collect
<1>3. PICK n \in Indexes :
        /\ IsNext(n, p.left \cap Answered(r))
        /\ res' = [res EXCEPT
                ![r].left = @ \ {n},
                ![r].pc = IF p.left \cap Answered(r) = {n} THEN "save" ELSE @,
                ![r].out = [i \in Indexes |->
                    IF i \in IndexesOf(r, n)
                    THEN IF p.slot[n] = "found" THEN KeyAt(n) ELSE "" ELSE @[i]]]
        /\ Put(Entry(KeyAt(n), p.slot[n] = "found", FetchedAt(r)))
  BY DEF Collect
<1> DEFINE left == p.left \ {n}
           pc == IF p.left \cap Answered(r) = {n} THEN "save" ELSE p.pc
           out == [i \in Indexes |->
                    IF i \in IndexesOf(r, n)
                    THEN IF p.slot[n] = "found" THEN KeyAt(n) ELSE "" ELSE p.out[i]]
           q == [p EXCEPT !.left = left, !.pc = pc, !.out = out]
<1>4. res' = [res EXCEPT ![r] = q]
  BY <1>3 DEF LyricsInv, AsksFine
<1>5. p.slot[n] \in {"found", "silent"} /\ KeyAt(n) \in Keys /\ FetchedAt(r) = p.at
  BY <1>3, KeysOfTracks DEF IsNext, Answered, FetchedAt
<1>6. \A i \in IndexesOf(r, n) : KeyAt(i) = KeyAt(n)
  BY DEF IndexesOf
<1>7. out \in [Indexes -> Keys \cup {""}] /\ \A i \in Indexes : out[i] \in {"", KeyAt(i)}
  <2>1. p.out \in [Indexes -> Keys \cup {""}] /\ \A i \in Indexes : p.out[i] \in {"", KeyAt(i)}
    BY <1>1 DEF Ask, Fine
  <2> QED
    BY <1>5, <1>6, <2>1
<1>8. pc \in {"save", "fetch"} /\ left \in SUBSET Indexes
  BY <1>1 DEF Ask
<1> HIDE DEF p, left, pc, out
<1>9. q \in Ask /\ q.pc = pc /\ q.at = p.at /\ q.rows = p.rows /\ q.slot = p.slot /\ q.out = out
  BY <1>1, <1>7, <1>8 DEF Ask
<1> HIDE DEF q
<1>10. Fine(q, silent, now)
  BY <1>1, <1>7, <1>8, <1>9 DEF Fine
<1>11. Quiet(res[r], q)
  BY <1>9 DEF Quiet, p
<1>12. AsksFine' /\ QuietStep
  BY <1>2, <1>4, <1>9, <1>10, <1>11, OneMoves DEF LyricsInv
<1>13. MemoryFine'
  <2>1. p.slot[n] # "found" => silent[KeyAt(n)] >= p.at
    BY <1>1, <1>5 DEF Fine
  <2>2. p.at \in 0 .. MaxTime
    BY <1>1 DEF Ask
  <2>3. /\ Entry(KeyAt(n), p.slot[n] = "found", p.at) \in Entries
        /\ HonestEntry(Entry(KeyAt(n), p.slot[n] = "found", p.at), silent)
    BY <1>5, <2>1, <2>2, EntryOfAnswer
  <2>4. Put(Entry(KeyAt(n), p.slot[n] = "found", p.at))
    BY <1>3, <1>5
  <2> QED
    BY <1>2, <2>3, <2>4, PutFine DEF LyricsInv
<1> QED
  BY <1>2, <1>12, <1>13, Untouched DEF LyricsInv

\* A resolve ends.
LEMMA EndsFine ==
    ASSUME LyricsInv, NEW r \in Resolves, res' = [res EXCEPT ![r].pc = "done"],
           UNCHANGED <<now, silent>>
    PROVE  AsksFine' /\ QuietStep
<1> DEFINE p == res[r]
           q == [p EXCEPT !.pc = "done"]
<1>1. p \in Ask /\ Fine(p, silent, now)
  BY DEF LyricsInv, AsksFine
<1>2. res' = [res EXCEPT ![r] = q]
  BY DEF LyricsInv, AsksFine
<1> HIDE DEF p
<1>3. q \in Ask /\ q.pc = "done" /\ q.at = p.at /\ q.rows = p.rows /\ q.slot = p.slot /\ q.out = p.out
  BY <1>1 DEF Ask
<1> HIDE DEF q
<1>4. Fine(q, silent, now)
  BY <1>1, <1>3, FineStays
<1>5. Quiet(res[r], q)
  BY <1>3 DEF Quiet, p
<1> QED
  BY <1>2, <1>3, <1>4, <1>5, OneMoves DEF LyricsInv

LEMMA GiveUpFine ==
    ASSUME LyricsInv, NEW r \in Resolves, GiveUp(r)
    PROVE  LyricsInv' /\ QuietStep
<1>1. AsksFine' /\ QuietStep
  BY EndsFine DEF GiveUp
<1> QED
  BY <1>1, Untouched DEF GiveUp, LyricsInv

\* The rows saved are those of the answers.
LEMMA SaveManyFine ==
    ASSUME LyricsInv, NEW r \in Resolves, SaveMany(r)
    PROVE  LyricsInv' /\ QuietStep
<1>1. AsksFine' /\ QuietStep
  BY EndsFine DEF SaveMany
<1>2. Upserted(r) \in [Keys -> Row] /\ \A k \in Keys : HonestRow(k, Upserted(r)[k], silent)
  <2> DEFINE p == res[r]
             state(k) == IF k \in {KeyAt(n) : n \in Slots(r, "found")} THEN "found" ELSE "silent"
             row(k) == IF k \notin AnsweredKeys(r) THEN store[k]
                       ELSE [state |-> state(k), at |-> p.at]
  <2>1. Upserted(r) = [k \in Keys |-> row(k)]
    BY DEF Upserted, FetchedAt
  <2>2. ASSUME NEW k \in Keys PROVE row(k) \in Row /\ HonestRow(k, row(k), silent)
    <3>1. CASE k \notin AnsweredKeys(r)
      BY <3>1 DEF LyricsInv, StoreFine
    <3>2. CASE k \in AnsweredKeys(r)
      <4>1. p \in Ask /\ Fine(p, silent, now)
        BY DEF LyricsInv, AsksFine
      <4>2. PICK n \in Indexes : p.slot[n] \in {"found", "silent"} /\ KeyAt(n) = k
        BY <3>2 DEF AnsweredKeys, Answered
      <4>3. p.slot[n] = "found" => state(k) = "found"
        BY <4>2 DEF Slots
      <4>4. state(k) # "found" => silent[k] >= p.at
        BY <4>1, <4>2, <4>3 DEF Fine
      <4>5. row(k) = [state |-> state(k), at |-> p.at]
        BY <3>2
      <4>6. p.at \in 0 .. MaxTime
        BY <4>1 DEF Ask
      <4>7. state(k) \in {"found", "silent"}
        OBVIOUS
      <4> HIDE DEF state, p, row
      <4> QED
        BY <4>4, <4>5, <4>6, <4>7 DEF Row, HonestRow
    <3> QED
      BY <3>1, <3>2
  <2> HIDE DEF row
  <2> QED
    BY <2>1, <2>2
<1>3. UNCHANGED <<memory, breaker, has, now, silent, faults>> /\ store' \in {Upserted(r), store}
  BY DEF SaveMany
<1>4. StoreFine'
  BY <1>2, <1>3 DEF StoreFine, LyricsInv
<1> QED
  BY <1>1, <1>3, <1>4, Untouched DEF LyricsInv

-----------------------------------------------------------------------------
(* The other steps. *)

\* Nothing in memory: an empty cache, a closed circuit, an idle or a lost resolve.
LEMMA EmptyFine ==
    /\ Charged(Empty) /\ Empty.used <= Budget
    /\ \A heard : Honest(Empty.order, heard)
<1>1. <<>> \in Seq(Entries) /\ Len(<<>>) = 0
  OBVIOUS
<1>2. Bytes(<<>>) = 0
  BY <1>1, SumSteps DEF Bytes
<1>3. Empty.order = <<>> /\ Empty.used = 0 /\ Empty \in [order : Seq(Entries), used : Nat]
  BY <1>1 DEF Empty
<1>4. \A i : i \notin 1 .. Len(Empty.order)
  BY <1>1, <1>3
<1>5. Empty.used <= Budget
  BY <1>3, LimitAssumption
<1> QED
  BY <1>2, <1>3, <1>4, <1>5 DEF Charged, Apart, Honest

LEMMA IdleFine ==
    ASSUME NEW q \in {Idle, [Idle EXCEPT !.pc = "done"]}, NEW heard, NEW time \in Nat,
           \A k \in Keys : heard[k] \in Nat
    PROVE  /\ q \in Ask /\ Fine(q, heard, time)
           /\ \A n \in Indexes : q.slot[n] # "calling"
<1>1. 0 \in 0 .. MaxTime
  BY LimitAssumption
<1>2. NoRow \in Row /\ NoRow.at = 0
  BY <1>1 DEF NoRow, Row
<1>3. /\ Idle.rows = [i \in Indexes |-> NoRow] /\ Idle.slot = [i \in Indexes |-> "none"]
      /\ Idle.out = [i \in Indexes |-> ""] /\ Idle.at = 0
  BY DEF Idle
<1>4. Idle \in Ask
  BY <1>1, <1>2 DEF Idle, Ask
<1>5. /\ q \in Ask /\ q.at = 0 /\ q.rows = [i \in Indexes |-> NoRow]
      /\ q.slot = [i \in Indexes |-> "none"] /\ q.out = [i \in Indexes |-> ""]
  BY <1>3, <1>4, ZenonT(40) DEF Ask
<1>6. \A i \in Indexes : HonestRow(KeyAt(i), q.rows[i], heard)
  <2>1. \A i \in Indexes : q.rows[i].at = 0 /\ heard[KeyAt(i)] \in Nat
    BY <1>2, <1>5, KeysOfTracks
  <2> QED
    BY <2>1 DEF HonestRow
<1>7. \A i \in Indexes : q.slot[i] = "none" /\ q.out[i] = ""
  BY <1>5
<1>8. q.at <= time
  <2>1. q.at = 0
    BY <1>5
  <2> QED
    BY <2>1
<1> QED
  BY <1>5, <1>6, <1>7, <1>8 DEF Fine

LEMMA HeardNat ==
    ASSUME HistoryFine
    PROVE  now \in Nat /\ Grown(silent, silent) /\ \A k \in Keys : silent[k] \in Nat
BY LimitAssumption DEF HistoryFine, Grown

LEMMA CrashFine ==
    ASSUME LyricsInv, Crash
    PROVE  LyricsInv' /\ QuietStep
<1>1. /\ memory' = Empty /\ breaker' = Closed /\ faults' = NoFaults
      /\ res' = [r \in Resolves |-> IF res[r].pc = "idle" THEN Idle ELSE [Idle EXCEPT !.pc = "done"]]
      /\ UNCHANGED <<store, has, now, silent>>
  BY DEF Crash
<1>2. ASSUME NEW r \in Resolves
      PROVE  /\ res'[r] \in Ask /\ Fine(res'[r], silent, now)
             /\ \A n \in Indexes : res'[r].slot[n] # "calling"
  <2>1. now \in Nat /\ \A k \in Keys : silent[k] \in Nat
    BY HeardNat DEF LyricsInv
  <2>2. res'[r] \in {Idle, [Idle EXCEPT !.pc = "done"]}
    BY <1>1
  <2> DEFINE q == res'[r]
  <2> HIDE DEF q
  <2>3. q \in Ask /\ Fine(q, silent, now) /\ \A n \in Indexes : q.slot[n] # "calling"
    BY <2>1, <2>2, IdleFine DEF q
  <2> QED
    BY <2>3 DEF q
<1>3. AsksFine'
  BY <1>1, <1>2 DEF AsksFine
<1>4. QuietStep
  BY <1>2 DEF QuietStep, Quiet
<1>5. MemoryFine'
  BY <1>1, EmptyFine DEF MemoryFine
<1>6. BreakerFine'
  BY <1>1, ClosedFine DEF BreakerFine
<1> QED
  BY <1>1, <1>3, <1>4, <1>5, <1>6, Untouched DEF LyricsInv

LEMMA ContributeFine ==
    ASSUME LyricsInv, NEW k \in Keys, Contribute(k)
    PROVE  LyricsInv' /\ QuietStep
<1>1. /\ has' = has \cup {k}
      /\ UNCHANGED <<memory, store, breaker, res, now, silent, faults>>
  BY DEF Contribute
<1>2. AsksFine'
  BY <1>1 DEF LyricsInv, AsksFine
<1>3. HistoryFine'
  BY <1>1 DEF LyricsInv, HistoryFine
<1> QED
  BY <1>1, <1>2, <1>3, NobodyMoves, Untouched DEF LyricsInv

LEMMA TickFine ==
    ASSUME LyricsInv, Tick
    PROVE  LyricsInv' /\ QuietStep
<1>1. /\ now < MaxTime /\ now' = now + 1
      /\ UNCHANGED <<memory, store, breaker, res, has, silent, faults>>
  BY DEF Tick
<1>2. now \in 1 .. MaxTime /\ MaxTime \in Nat
  BY LimitAssumption DEF LyricsInv, HistoryFine
<1>3. now \in Nat /\ now' \in Nat /\ now <= now' /\ now' \in 1 .. MaxTime
  BY <1>1, <1>2
<1>4. AsksFine'
  <2>1. Grown(silent, silent)
    BY HeardNat DEF LyricsInv
  <2>2. \A r \in Resolves : Fine(res[r], silent, now')
    BY <1>3, <2>1, FineLater DEF LyricsInv, AsksFine
  <2> QED
    BY <1>1, <2>2 DEF LyricsInv, AsksFine
<1>5. HistoryFine'
  <2>1. \A k \in Keys : silent[k] \in Nat /\ silent[k] <= now
    BY HeardNat DEF LyricsInv, HistoryFine
  <2>2. \A k \in Keys : silent[k] <= now'
    BY <1>1, <1>3, <2>1
  <2> QED
    BY <1>1, <1>3, <2>2 DEF LyricsInv, HistoryFine
<1> QED
  BY <1>1, <1>4, <1>5, NobodyMoves, Untouched DEF LyricsInv

-----------------------------------------------------------------------------
(* The theorems. *)

LEMMA LyricsInit == Init => LyricsInv
<1> SUFFICES ASSUME Init PROVE LyricsInv
  OBVIOUS
<1>1. HistoryFine
  <2>1. 0 \in 0 .. MaxTime /\ 1 \in 1 .. MaxTime /\ 0 <= 1
    BY LimitAssumption
  <2> QED
    BY <2>1 DEF Init, HistoryFine, Never
<1>2. MemoryFine
  BY EmptyFine DEF Init, MemoryFine
<1>3. BreakerFine
  BY ClosedFine DEF Init, BreakerFine
<1>4. StoreFine
  <2>1. \A k \in Keys : silent[k] \in Nat /\ store[k] = NoRow
    BY DEF Init, Never
  <2>2. NoRow \in Row /\ NoRow.at = 0
    BY LimitAssumption DEF NoRow, Row
  <2>3. \A k \in Keys : HonestRow(k, store[k], silent)
    BY <2>1, <2>2 DEF HonestRow
  <2> QED
    BY <2>2, <2>3 DEF Init, StoreFine
<1>5. AsksFine
  <2>1. Idle \in Ask /\ Fine(Idle, silent, now)
    BY <1>1, HeardNat, IdleFine
  <2> QED
    BY <2>1 DEF Init, AsksFine
<1> QED
  BY <1>1, <1>2, <1>3, <1>4, <1>5 DEF LyricsInv

\* Every step keeps the invariant, and none begins a call the circuit does not allow.
LEMMA LyricsStep ==
    ASSUME LyricsInv, [Next]_vars
    PROVE  LyricsInv' /\ (QuietStep \/ allow)
<1>1. ASSUME NEW r \in Resolves,
             \/ Begin(r) \/ Get(r) \/ ReadStore(r) \/ MissStore(r) \/ Fill(r)
             \/ Collect(r) \/ GiveUp(r) \/ SaveMany(r)
      PROVE  LyricsInv' /\ QuietStep
  BY <1>1, BeginFine, GetFine, ReadStoreFine, MissStoreFine, FillFine, CollectFine,
     GiveUpFine, SaveManyFine
<1>2. ASSUME NEW r \in Resolves, NEW n \in Indexes, Call(r, n) \/ Answer(r, n) \/ Fault(r, n)
      PROVE  LyricsInv' /\ (QuietStep \/ allow)
  BY <1>2, CallFine, AnswerFine, FaultFine
<1>3. CASE Crash \/ Tick \/ \E k \in Keys : Contribute(k)
  BY <1>3, CrashFine, TickFine, ContributeFine
<1>4. CASE UNCHANGED vars
  <2>1. AsksFine'
    BY <1>4 DEF vars, LyricsInv, AsksFine
  <2> QED
    BY <1>4, <2>1, NobodyMoves, Untouched DEF vars, LyricsInv
<1> QED
  BY <1>1, <1>2, <1>3, <1>4 DEF Next

LEMMA LyricsInvHolds == Spec => []LyricsInv
<1> QED
  BY LyricsInit, LyricsStep, PTL DEF Spec

\* Every variable of the lookups has its type: the lists of the cache, the rows, the
\* circuit's counter and times, and each resolve (Resolver, Client, memoryCache).
THEOREM LyricsTyped == Spec => []TypeOK
<1>1. LyricsInv => TypeOK
  BY DEF LyricsInv, MemoryFine, StoreFine, BreakerFine, Noticed, AsksFine, HistoryFine, Charged,
         Entries, Ask, TypeOK
<1> QED
  BY <1>1, LyricsInvHolds, PTL

\* For any sizes, budget and interleaving of resolves, the cache charges exactly for the
\* entries it holds, has one for a key at most, and stays within its budget (memoryCache.put).
THEOREM CacheIsAccounted == Spec => []BytesAccounted
<1>1. LyricsInv => BytesAccounted
  <2> SUFFICES ASSUME LyricsInv PROVE BytesAccounted
    OBVIOUS
  <2>1. Charged(memory) /\ memory.used <= Budget
    BY DEF LyricsInv, MemoryFine
  <2>2. ASSUME NEW k \in Keys, NEW m \in Places(k), NEW n \in Places(k)
        PROVE  m = n
    <3>1. /\ m \in 1 .. Len(memory.order) /\ n \in 1 .. Len(memory.order)
          /\ memory.order[m].key = k /\ memory.order[n].key = k
      BY <2>1, PlacesIn
    <3> QED
      BY <2>1, <3>1 DEF Charged, Apart
  <2> QED
    BY <2>1, <2>2 DEF BytesAccounted, Charged
<1> QED
  BY <1>1, LyricsInvHolds, PTL

\* Wherever "no lyrics" is remembered, the provider said so, and since the time the
\* memory is dated by (Resolver.fetchMissing, ErrOpen).
THEOREM SilenceWasHeard == Spec => []SilenceIsAnswered
<1>1. LyricsInv => SilenceIsAnswered
  <2> SUFFICES ASSUME LyricsInv PROVE SilenceIsAnswered
    OBVIOUS
  <2>1. memory.order \in Seq(Entries) /\ Honest(memory.order, silent)
    BY DEF LyricsInv, MemoryFine, Charged
  <2>2. ASSUME NEW e \in ToSet(memory.order), ~e.found PROVE silent[e.key] >= e.at
    <3>1. PICK i \in 1 .. Len(memory.order) : e = memory.order[i]
      <4>1. DOMAIN memory.order = 1 .. Len(memory.order)
        BY <2>1
      <4> QED
        BY <4>1 DEF ToSet
    <3> QED
      BY <2>1, <2>2, <3>1 DEF Honest, HonestEntry
  <2>3. ASSUME NEW k \in Keys, store[k].state = "silent" PROVE silent[k] >= store[k].at
    BY <2>3 DEF LyricsInv, StoreFine, HonestRow
  <2> QED
    BY <2>2, <2>3 DEF SilenceIsAnswered
<1> QED
  BY <1>1, LyricsInvHolds, PTL

\* No track is given the lyrics of another one (Resolver.fetchMissing).
THEOREM LyricsOfTheirTrack == Spec => []AnswersOfTheirTrack
<1>1. LyricsInv => AnswersOfTheirTrack
  BY DEF LyricsInv, AsksFine, Fine, AnswersOfTheirTrack
<1> QED
  BY <1>1, LyricsInvHolds, PTL

\* No call begins in the pause that the last of a run of faults asks for, be it the
\* doubled cool-off or a longer Retry-After, whatever was under way when the circuit
\* opened (Client.allow, recordFailure).
THEOREM CallsWait == Spec => PausesAreKept
<1>1. ASSUME LyricsInv, [Next]_vars
      PROVE  PauseKept
  <2> SUFFICES ASSUME NEW r \in Resolves, NEW n \in Indexes, Begins(r, n),
                      faults.streak = FailureThreshold
               PROVE  now > faults.until
    BY DEF PauseKept
  <2>1. res[r].slot[n] = "waiting" /\ res'[r].slot[n] = "calling"
    BY DEF Begins, Slots
  <2>2. ~QuietStep
    BY <2>1 DEF QuietStep, Quiet
  <2>3. allow
    BY <1>1, <2>2, LyricsStep
  <2>4. breaker.openUntil # 0 /\ breaker.openUntil >= faults.until /\ breaker.openUntil \in Nat
    BY <1>1 DEF LyricsInv, BreakerFine
  <2>5. faults.until \in Nat /\ now \in Nat
    BY <1>1, LimitAssumption DEF LyricsInv, BreakerFine, Noticed, HistoryFine
  <2> QED
    BY <2>3, <2>4, <2>5 DEF allow
<1> QED
  BY <1>1, LyricsInvHolds, PTL DEF Spec, PausesAreKept
=============================================================================
