--------------------------- MODULE ListingLemmas ---------------------------
(***************************************************************************)
(* Lemmas about what the page loops are made of: pages of a listing, and   *)
(* what Only and Sorted make of a sequence, for every sequence.  Induction *)
(* is over sets: a set of numbers with 0 and every successor has them all, *)
(* because the others would have a smallest one.                           *)
(***************************************************************************)
EXTENDS Filtering, ProviderPages, Integers, SequencesExt, SequenceTheorems,
        NaturalsInduction, WellFoundedInduction, TLAPS

-----------------------------------------------------------------------------
(* Induction.                                                              *)

\* Induction over the natural numbers.
LEMMA NatSetInduction ==
    ASSUME NEW T, 0 \in T, \A n \in Nat : n \in T => n + 1 \in T
    PROVE  Nat \subseteq T
  <1> DEFINE Others == Nat \ T
             R == OpToRel(<, Nat)
  <1>1. ASSUME Others # {} PROVE FALSE
    <2>1. IsWellFoundedOn(R, Nat)
      BY NatLessThanWellFounded
    <2>2. Others \subseteq Nat
      OBVIOUS
    <2> HIDE DEF Others
    <2>3. PICK n \in Others : \A m \in Others : ~(<<m, n>> \in R)
      BY <1>1, <2>1, <2>2, WFMin
    <2>4. n \in Nat /\ n \notin T
      BY DEF Others
    <2>5. n - 1 \in Nat /\ n - 1 < n
      BY <2>4
    <2>6. n - 1 \in T
      BY <2>3, <2>4, <2>5 DEF Others, OpToRel
    <2> QED
      BY <2>4, <2>5, <2>6
  <1> QED
    BY <1>1

\* Induction over sequences.
LEMMA SeqSetInduction ==
    ASSUME NEW X, NEW T, <<>> \in T,
           \A s \in Seq(X), e \in X : s \in T => Append(s, e) \in T
    PROVE  Seq(X) \subseteq T
  <1> DEFINE Lens == {n \in Nat : \A s \in Seq(X) : Len(s) = n => s \in T}
  <1>1. 0 \in Lens
    BY EmptySeq
  <1>2. ASSUME NEW n \in Nat, n \in Lens PROVE n + 1 \in Lens
    <2> SUFFICES ASSUME NEW s \in Seq(X), Len(s) = n + 1 PROVE s \in T
      OBVIOUS
    <2>1. s # <<>>
      BY EmptySeq
    <2>2. PICK t \in Seq(X), e \in X : s = Append(t, e)
      BY <2>1, SequenceEmptyOrAppend
    <2>3. Len(t) = n
      BY <2>2, AppendProperties, LenProperties
    <2> QED
      BY <1>2, <2>2, <2>3
  <1>3. Nat \subseteq Lens
    <2> HIDE DEF Lens
    <2> QED
      BY <1>1, <1>2, NatSetInduction
  <1> QED
    BY <1>3, LenProperties

-----------------------------------------------------------------------------
(* Only.                                                                   *)

Keeping(items, S, f, m) ==
    f = [n \in 0 .. m |-> IF n = 0 THEN <<>>
                          ELSE IF items[n] \in S THEN Append(f[n - 1], items[n]) ELSE f[n - 1]]

\* The function that Only is defined by exists.
LEMMA KeptExists ==
    ASSUME NEW items, NEW S, NEW m \in Nat
    PROVE  \E f : Keeping(items, S, f, m)
  <1> DEFINE T == {n \in Nat : \E f : Keeping(items, S, f, n)}
  <1>1. 0 \in T
    <2>1. Keeping(items, S, [n \in 0 .. 0 |-> <<>>], 0)
      BY DEF Keeping
    <2> QED
      BY <2>1
  <1>2. ASSUME NEW n \in Nat, n \in T PROVE n + 1 \in T
    <2>1. PICK f : Keeping(items, S, f, n)
      BY <1>2
    <2> DEFINE g == [k \in 0 .. n + 1 |->
                        IF k <= n THEN f[k]
                        ELSE IF items[k] \in S THEN Append(f[n], items[k]) ELSE f[n]]
    <2>2. Keeping(items, S, g, n + 1)
      <3>1. ASSUME NEW k \in 0 .. n + 1
            PROVE  g[k] = IF k = 0 THEN <<>>
                          ELSE IF items[k] \in S THEN Append(g[k - 1], items[k]) ELSE g[k - 1]
        <4>1. CASE k = n + 1
          BY <4>1
        <4>2. CASE k \in 0 .. n
          <5>1. f[k] = IF k = 0 THEN <<>>
                       ELSE IF items[k] \in S THEN Append(f[k - 1], items[k]) ELSE f[k - 1]
            BY <2>1, <4>2 DEF Keeping
          <5> QED
            BY <4>2, <5>1
        <4> QED
          BY <4>1, <4>2
      <3> QED
        BY <3>1 DEF Keeping
    <2> QED
      BY <2>2
  <1>3. Nat \subseteq T
    <2> HIDE DEF T
    <2> QED
      BY <1>1, <1>2, NatSetInduction
  <1> QED
    BY <1>3

\* What it says of the first items, and of one item more.
LEMMA KeptOneMore ==
    ASSUME NEW items, NEW S, NEW m \in Nat, NEW f, Keeping(items, S, f, m)
    PROVE  /\ f[0] = <<>>
           /\ \A n \in Nat : n < m =>
                  f[n + 1] = IF items[n + 1] \in S THEN Append(f[n], items[n + 1]) ELSE f[n]
  <1>1. \A n \in 0 .. m :
            f[n] = IF n = 0 THEN <<>>
                   ELSE IF items[n] \in S THEN Append(f[n - 1], items[n]) ELSE f[n - 1]
    BY DEF Keeping
  <1>2. ASSUME NEW n \in Nat, n < m
        PROVE  f[n + 1] = IF items[n + 1] \in S THEN Append(f[n], items[n + 1]) ELSE f[n]
    <2>1. n + 1 \in 0 .. m /\ n + 1 # 0 /\ (n + 1) - 1 = n
      BY <1>2
    <2> QED
      BY <1>1, <2>1
  <1> QED
    BY <1>1, <1>2

LEMMA OnlyIsKept ==
    ASSUME NEW X, NEW s \in Seq(X), NEW S
    PROVE  \E f : Keeping(s, S, f, Len(s)) /\ Only(s, S) = f[Len(s)]
  <1>1. \E f : Keeping(s, S, f, Len(s))
    BY KeptExists, LenProperties
  <1> QED
    BY <1>1 DEF Keeping, Only

\* Nothing of nothing; and one item more is kept behind the others, or not.
LEMMA OnlyEmpty == ASSUME NEW S PROVE Only(<<>>, S) = <<>>
  <1>1. PICK f : Keeping(<<>>, S, f, Len(<<>>)) /\ Only(<<>>, S) = f[Len(<<>>)]
    <2>1. <<>> \in Seq({})
      BY EmptySeq
    <2> QED
      BY <2>1, OnlyIsKept
  <1>2. Len(<<>>) = 0
    BY EmptySeq
  <1> QED
    BY <1>1, <1>2 DEF Keeping

LEMMA OnlyAppend ==
    ASSUME NEW X, NEW s \in Seq(X), NEW e \in X, NEW S
    PROVE  Only(Append(s, e), S) = IF e \in S THEN Append(Only(s, S), e) ELSE Only(s, S)
  <1> DEFINE t == Append(s, e)
             N == Len(s)
  <1>1. /\ t \in Seq(X) /\ Len(t) = N + 1 /\ N \in Nat
        /\ t[N + 1] = e /\ \A i \in 1 .. N : t[i] = s[i]
    BY AppendProperties, LenProperties
  <1>2. PICK f : Keeping(s, S, f, N) /\ Only(s, S) = f[N]
    BY OnlyIsKept
  <1>3. PICK g : Keeping(t, S, g, N + 1) /\ Only(t, S) = g[N + 1]
    <2> HIDE DEF t
    <2> QED
      BY <1>1, OnlyIsKept
  <1> HIDE DEF t, N
  <1> DEFINE T == {n \in Nat : n <= N => f[n] = g[n]}
  <1>4. 0 \in T
    <2>1. f[0] = <<>>
      BY <1>1, <1>2 DEF Keeping
    <2>2. g[0] = <<>>
      BY <1>1, <1>3 DEF Keeping
    <2> QED
      BY <2>1, <2>2
  <1>5. ASSUME NEW n \in Nat, n \in T PROVE n + 1 \in T
    <2> SUFFICES ASSUME n + 1 <= N PROVE f[n + 1] = g[n + 1]
      OBVIOUS
    <2>1. f[n] = g[n] /\ n + 1 \in 1 .. N /\ n + 1 \in 0 .. N + 1
      BY <1>1, <1>5
    <2>2. f[n + 1] = IF s[n + 1] \in S THEN Append(f[n], s[n + 1]) ELSE f[n]
      BY <1>1, <1>2, <2>1, KeptOneMore
    <2>3. g[n + 1] = IF t[n + 1] \in S THEN Append(g[n], t[n + 1]) ELSE g[n]
      BY <1>1, <1>3, <2>1, KeptOneMore
    <2> QED
      BY <1>1, <2>1, <2>2, <2>3
  <1>6. Nat \subseteq T
    <2> HIDE DEF T
    <2> QED
      BY <1>4, <1>5, NatSetInduction
  <1>7. f[N] = g[N]
    BY <1>1, <1>6
  <1>8. g[N + 1] = IF t[N + 1] \in S THEN Append(g[N], t[N + 1]) ELSE g[N]
    BY <1>1, <1>3, KeptOneMore
  <1> QED
    BY <1>1, <1>2, <1>3, <1>7, <1>8 DEF t

\* What is kept has the types of the items and is in S; there is no more of it.
LEMMA OnlyType ==
    ASSUME NEW X, NEW s \in Seq(X), NEW S
    PROVE  Only(s, S) \in Seq(X \cap S) /\ Only(s, S) \in Seq(X) /\ Len(Only(s, S)) <= Len(s)
  <1> DEFINE T == {u \in Seq(X) : Only(u, S) \in Seq(X \cap S) /\ Len(Only(u, S)) <= Len(u)}
  <1>1. <<>> \in T
    <2>1. <<>> \in Seq(X) /\ <<>> \in Seq(X \cap S)
      BY EmptySeq
    <2>2. Len(<<>>) = 0 /\ 0 <= 0
      BY EmptySeq
    <2>3. Only(<<>>, S) = <<>>
      BY OnlyEmpty
    <2>4. Only(<<>>, S) \in Seq(X \cap S) /\ Len(Only(<<>>, S)) <= Len(<<>>)
      BY <2>1, <2>2, <2>3, Zenon
    <2> QED
      BY <2>1, <2>4, Zenon
  <1>2. ASSUME NEW u \in Seq(X), NEW e \in X, u \in T PROVE Append(u, e) \in T
    <2>1. Append(u, e) \in Seq(X) /\ Len(Append(u, e)) = Len(u) + 1
      BY AppendProperties
    <2>2. Len(u) \in Nat /\ Len(Only(u, S)) \in Nat
      BY <1>2, LenProperties
    <2>3. CASE e \in S
      <3>1. Only(Append(u, e), S) = Append(Only(u, S), e)
        BY <2>3, OnlyAppend
      <3>2. /\ Append(Only(u, S), e) \in Seq(X \cap S)
            /\ Len(Append(Only(u, S), e)) = Len(Only(u, S)) + 1
        BY <1>2, <2>3, AppendProperties
      <3> QED
        BY <1>2, <2>1, <2>2, <3>1, <3>2
    <2>4. CASE e \notin S
      <3>1. Only(Append(u, e), S) = Only(u, S)
        BY <2>4, OnlyAppend
      <3> QED
        BY <1>2, <2>1, <2>2, <3>1
    <2> QED
      BY <2>3, <2>4
  <1>3. Seq(X) \subseteq T
    <2> HIDE DEF T
    <2> QED
      BY <1>1, <1>2, SeqSetInduction
  <1>4. Only(s, S) \in Seq(X \cap S) /\ Len(Only(s, S)) <= Len(s)
    BY <1>3
  <1> QED
    BY <1>4, SeqMonotonic

\* An item behind the second of two sequences is behind both.
Joined(a, v, w) == a = v \o w

LEMMA AppendBehind ==
    ASSUME NEW X, NEW v \in Seq(X), NEW w \in Seq(X), NEW e \in X, NEW a, Joined(a, v, w)
    PROVE  a \in Seq(X) /\ Joined(Append(a, e), v, Append(w, e))
  <1> DEFINE z == <<e>>
  <1>1. z \in Seq(X)
    OBVIOUS
  <1>2. a \in Seq(X)
    BY ConcatProperties DEF Joined
  <1>3. Append(a, e) = a \o z /\ Append(w, e) = w \o z
    BY <1>2, AppendIsConcat
  <1> HIDE DEF z
  <1>4. (v \o w) \o z = v \o (w \o z)
    BY <1>1, ConcatAssociative
  <1>5. Append(a, e) = v \o (w \o z)
    BY <1>3, <1>4 DEF Joined
  <1> QED
    BY <1>2, <1>3, <1>5 DEF Joined

\* Two sequences, one after the other, are kept one after the other.
LEMMA OnlyConcat ==
    ASSUME NEW X, NEW s \in Seq(X), NEW t \in Seq(X), NEW S
    PROVE  Only(s \o t, S) = Only(s, S) \o Only(t, S)
  <1> DEFINE o == Only(s, S)
             T == {u \in Seq(X) : \A a : Joined(a, s, u) => Joined(Only(a, S), o, Only(u, S))}
  <1>1. o \in Seq(X)
    BY OnlyType
  <1>2. <<>> \in T
    <2>1. s \o <<>> = s /\ o \o <<>> = o
      BY <1>1, ConcatEmptySeq
    <2> QED
      BY <2>1, OnlyEmpty, EmptySeq DEF Joined
  <1> HIDE DEF o
  <1>3. ASSUME NEW u \in Seq(X), NEW e \in X, u \in T PROVE Append(u, e) \in T
    <2> DEFINE v == Append(u, e)
    <2>1. ASSUME NEW a, Joined(a, s, v) PROVE Joined(Only(a, S), o, Only(v, S))
      <3> DEFINE b == s \o u
                 p == Only(b, S)
                 q == Only(u, S)
      <3>1. Joined(b, s, u)
        BY DEF Joined
      <3>2. b \in Seq(X) /\ a = Append(b, e)
        <4> HIDE DEF b
        <4> QED
          BY <2>1, <3>1, AppendBehind DEF Joined
      <3>3. Joined(p, o, q)
        <4> HIDE DEF b
        <4> QED
          BY <1>3, <3>1
      <3>4. q \in Seq(X) /\ Only(v, S) = IF e \in S THEN Append(q, e) ELSE q
        BY OnlyType, OnlyAppend
      <3> HIDE DEF b
      <3>5. Only(a, S) = IF e \in S THEN Append(p, e) ELSE p
        BY <3>2, OnlyAppend
      <3> HIDE DEF p, q, v
      <3>6. Joined(Append(p, e), o, Append(q, e))
        BY <1>1, <3>3, <3>4, AppendBehind
      <3> QED
        BY <3>3, <3>4, <3>5, <3>6
    <2>2. v \in Seq(X)
      BY AppendProperties
    <2> HIDE DEF v
    <2>3. v \in T
      BY <2>1, <2>2
    <2> QED
      BY <2>3 DEF v
  <1>4. Seq(X) \subseteq T
    <2> HIDE DEF T
    <2> QED
      BY <1>2, <1>3, SeqSetInduction
  <1> QED
    BY <1>4 DEF Joined, o

\* Of the items only those in the sequence matter, of the set only those in it.
LEMMA OnlyAgree ==
    ASSUME NEW X, NEW s \in Seq(X), NEW S, NEW R,
           \A n \in 1 .. Len(s) : s[n] \in S <=> s[n] \in R
    PROVE  Only(s, S) = Only(s, R)
  <1> DEFINE Same(u) == \A n \in 1 .. Len(u) : u[n] \in S <=> u[n] \in R
             T == {u \in Seq(X) : Same(u) => Only(u, S) = Only(u, R)}
  <1>1. <<>> \in T
    BY OnlyEmpty, EmptySeq
  <1>2. ASSUME NEW u \in Seq(X), NEW e \in X, u \in T PROVE Append(u, e) \in T
    <2> DEFINE v == Append(u, e)
    <2>1. /\ v \in Seq(X) /\ Len(v) = Len(u) + 1 /\ Len(u) \in Nat
          /\ v[Len(u) + 1] = e /\ \A i \in 1 .. Len(u) : v[i] = u[i]
      BY AppendProperties, LenProperties
    <2>2. /\ Only(v, S) = IF e \in S THEN Append(Only(u, S), e) ELSE Only(u, S)
          /\ Only(v, R) = IF e \in R THEN Append(Only(u, R), e) ELSE Only(u, R)
      BY OnlyAppend
    <2> HIDE DEF v
    <2>3. ASSUME Same(v) PROVE Only(v, S) = Only(v, R)
      <3>1. (e \in S <=> e \in R) /\ Same(u)
        BY <2>1, <2>3
      <3> QED
        BY <1>2, <2>2, <3>1
    <2> QED
      BY <2>1, <2>3 DEF v
  <1>3. Seq(X) \subseteq T
    <2> HIDE DEF T
    <2> QED
      BY <1>1, <1>2, SeqSetInduction
  <1> QED
    BY <1>3

\* All of them, and none of them.
LEMMA OnlyAll ==
    ASSUME NEW X, NEW s \in Seq(X), NEW S, X \subseteq S
    PROVE  Only(s, S) = s
  <1> DEFINE T == {u \in Seq(X) : Only(u, S) = u}
  <1>1. <<>> \in T
    BY OnlyEmpty, EmptySeq
  <1>2. ASSUME NEW u \in Seq(X), NEW e \in X, u \in T PROVE Append(u, e) \in T
    BY <1>2, OnlyAppend, AppendProperties
  <1>3. Seq(X) \subseteq T
    <2> HIDE DEF T
    <2> QED
      BY <1>1, <1>2, SeqSetInduction
  <1> QED
    BY <1>3

LEMMA OnlyNone ==
    ASSUME NEW X, NEW s \in Seq(X), NEW S, X \cap S = {}
    PROVE  Only(s, S) = <<>>
  <1> DEFINE T == {u \in Seq(X) : Only(u, S) = <<>>}
  <1>1. <<>> \in T
    BY OnlyEmpty, EmptySeq
  <1>2. ASSUME NEW u \in Seq(X), NEW e \in X, u \in T PROVE Append(u, e) \in T
    BY <1>2, OnlyAppend, AppendProperties
  <1>3. Seq(X) \subseteq T
    <2> HIDE DEF T
    <2> QED
      BY <1>1, <1>2, SeqSetInduction
  <1> QED
    BY <1>3

\* No item in S gets lost.
LEMMA OnlyMembers ==
    ASSUME NEW X, NEW s \in Seq(X), NEW S, NEW n \in 1 .. Len(s), s[n] \in S
    PROVE  Contains(Only(s, S), s[n])
  <1> DEFINE Kept(u) == \A i \in 1 .. Len(u) : u[i] \in S =>
                            Contains(Only(u, S), u[i])
             T == {u \in Seq(X) : Kept(u)}
  <1>1. <<>> \in T
    BY EmptySeq
  <1>2. ASSUME NEW u \in Seq(X), NEW e \in X, u \in T PROVE Append(u, e) \in T
    <2> DEFINE v == Append(u, e)
               o == Only(u, S)
    <2>1. /\ v \in Seq(X) /\ Len(v) = Len(u) + 1 /\ Len(u) \in Nat
          /\ v[Len(u) + 1] = e /\ \A i \in 1 .. Len(u) : v[i] = u[i]
      BY AppendProperties, LenProperties
    <2>2. Only(v, S) = IF e \in S THEN Append(o, e) ELSE o
      BY OnlyAppend
    <2>3. /\ Append(o, e) \in Seq(X) /\ Len(Append(o, e)) = Len(o) + 1 /\ Len(o) \in Nat
          /\ Append(o, e)[Len(o) + 1] = e /\ \A i \in 1 .. Len(o) : Append(o, e)[i] = o[i]
      <3>1. o \in Seq(X)
        BY OnlyType
      <3> HIDE DEF o
      <3> QED
        BY <3>1, AppendProperties, LenProperties
    <2>4. \A i \in 1 .. Len(u) : u[i] \in S => Contains(o, u[i])
      BY <1>2
    <2> HIDE DEF v, o
    <2>5. ASSUME NEW i \in 1 .. Len(v), v[i] \in S
          PROVE  Contains(Only(v, S), v[i])
      <3>1. CASE i = Len(u) + 1
        BY <2>1, <2>2, <2>3, <2>5, <3>1 DEF Contains
      <3>2. CASE i \in 1 .. Len(u)
        <4>1. PICK j \in 1 .. Len(o) : o[j] = v[i]
          BY <2>1, <2>4, <2>5, <3>2 DEF Contains
        <4> QED
          BY <2>2, <2>3, <4>1 DEF Contains
      <3> QED
        BY <2>1, <3>1, <3>2
    <2> QED
      BY <2>1, <2>5 DEF v
  <1>3. Seq(X) \subseteq T
    <2> HIDE DEF T
    <2> QED
      BY <1>1, <1>2, SeqSetInduction
  <1> QED
    BY <1>3

\* What is kept is in the sequence, and in its order.
From(s, part) == \A j \in 1 .. Len(part) : \E a \in 1 .. Len(s) : s[a] = part[j]
InOrder(s, part) ==
    \A j, k \in 1 .. Len(part) : j < k =>
        \E a, b \in 1 .. Len(s) : a < b /\ s[a] = part[j] /\ s[b] = part[k]

LEMMA OnlyInOrder ==
    ASSUME NEW X, NEW s \in Seq(X), NEW S
    PROVE  From(s, Only(s, S)) /\ InOrder(s, Only(s, S))
  <1> DEFINE T == {u \in Seq(X) : From(u, Only(u, S)) /\ InOrder(u, Only(u, S))}
  <1>1. <<>> \in T
    <2>1. <<>> \in Seq(X) /\ Len(<<>>) = 0 /\ Only(<<>>, S) = <<>>
      BY OnlyEmpty, EmptySeq
    <2>2. From(<<>>, <<>>) /\ InOrder(<<>>, <<>>)
      BY EmptySeq DEF From, InOrder
    <2> QED
      BY <2>1, <2>2, Zenon
  <1>2. ASSUME NEW u \in Seq(X), NEW e \in X, u \in T PROVE Append(u, e) \in T
    <2> DEFINE v == Append(u, e)
               o == Only(u, S)
               p == Append(o, e)
    <2>1. /\ v \in Seq(X) /\ Len(v) = Len(u) + 1 /\ Len(u) \in Nat
          /\ v[Len(u) + 1] = e /\ \A i \in 1 .. Len(u) : v[i] = u[i]
      BY AppendProperties, LenProperties
    <2>2. Only(v, S) = IF e \in S THEN p ELSE o
      BY OnlyAppend
    <2>3. /\ Len(p) = Len(o) + 1 /\ Len(o) \in Nat
          /\ p[Len(o) + 1] = e /\ \A i \in 1 .. Len(o) : p[i] = o[i]
      <3>1. o \in Seq(X)
        BY OnlyType
      <3> HIDE DEF o
      <3> QED
        BY <3>1, AppendProperties, LenProperties
    <2>4. From(u, o) /\ InOrder(u, o)
      BY <1>2
    <2> HIDE DEF v, o, p
    <2>5. From(v, o) /\ InOrder(v, o)
      <3>1. ASSUME NEW j \in 1 .. Len(o) PROVE \E a \in 1 .. Len(v) : v[a] = o[j]
        BY <2>1, <2>4 DEF From
      <3>2. ASSUME NEW j \in 1 .. Len(o), NEW k \in 1 .. Len(o), j < k
            PROVE  \E a, b \in 1 .. Len(v) : a < b /\ v[a] = o[j] /\ v[b] = o[k]
        <4>1. PICK a \in 1 .. Len(u), b \in 1 .. Len(u) : a < b /\ u[a] = o[j] /\ u[b] = o[k]
          BY <2>4, <3>2 DEF InOrder
        <4>2. a \in 1 .. Len(v) /\ b \in 1 .. Len(v) /\ v[a] = o[j] /\ v[b] = o[k]
          BY <2>1, <4>1
        <4> QED
          BY <4>1, <4>2
      <3> QED
        BY <3>1, <3>2 DEF From, InOrder
    <2>6. From(v, p)
      <3>1. ASSUME NEW j \in 1 .. Len(p) PROVE \E a \in 1 .. Len(v) : v[a] = p[j]
        <4>1. CASE j = Len(o) + 1
          BY <2>1, <2>3, <4>1
        <4>2. CASE j \in 1 .. Len(o)
          BY <2>3, <2>5, <4>2 DEF From
        <4> QED
          BY <2>3, <4>1, <4>2
      <3> QED
        BY <3>1 DEF From
    <2>7. InOrder(v, p)
      <3>1. ASSUME NEW j \in 1 .. Len(p), NEW k \in 1 .. Len(p), j < k
            PROVE  \E a, b \in 1 .. Len(v) : a < b /\ v[a] = p[j] /\ v[b] = p[k]
        <4>1. j \in 1 .. Len(o) /\ p[j] = o[j]
          BY <2>3, <3>1
        <4>2. CASE k = Len(o) + 1
          <5>1. PICK a \in 1 .. Len(u) : u[a] = o[j]
            BY <2>4, <4>1 DEF From
          <5>2. /\ a \in 1 .. Len(v) /\ Len(u) + 1 \in 1 .. Len(v) /\ a < Len(u) + 1
                /\ v[a] = p[j] /\ v[Len(u) + 1] = p[k]
            BY <2>1, <2>3, <4>1, <4>2, <5>1
          <5> QED
            BY <5>2
        <4>3. CASE k \in 1 .. Len(o)
          <5>1. PICK a \in 1 .. Len(v), b \in 1 .. Len(v) : a < b /\ v[a] = o[j] /\ v[b] = o[k]
            BY <2>5, <3>1, <4>1, <4>3 DEF InOrder
          <5> QED
            BY <2>3, <4>1, <4>3, <5>1
        <4> QED
          BY <2>3, <4>2, <4>3
      <3> QED
        BY <3>1 DEF InOrder
    <2>8. From(v, Only(v, S)) /\ InOrder(v, Only(v, S))
      BY <2>2, <2>5, <2>6, <2>7
    <2> QED
      BY <2>1, <2>8 DEF v
  <1>3. Seq(X) \subseteq T
    <2> HIDE DEF T
    <2> QED
      BY <1>1, <1>2, SeqSetInduction
  <1> QED
    BY <1>3

-----------------------------------------------------------------------------
(* Sorted.                                                                 *)

Inserted(s, x) == Only(s, 0 .. x) \o <<x>> \o Only(s, Nat \ (0 .. x))

Sorting(items, f, m) ==
    f = [n \in 0 .. m |-> IF n = 0 THEN <<>>
                          ELSE Only(f[n - 1], 0 .. items[n]) \o <<items[n]>>
                                   \o Only(f[n - 1], Nat \ (0 .. items[n]))]

\* The function that Sorted is defined by exists.
LEMMA SortedExists ==
    ASSUME NEW items, NEW m \in Nat
    PROVE  \E f : Sorting(items, f, m)
  <1> DEFINE T == {n \in Nat : \E f : Sorting(items, f, n)}
  <1>1. 0 \in T
    <2>1. Sorting(items, [n \in 0 .. 0 |-> <<>>], 0)
      BY DEF Sorting
    <2> QED
      BY <2>1
  <1>2. ASSUME NEW n \in Nat, n \in T PROVE n + 1 \in T
    <2>1. PICK f : f = [k \in 0 .. n |-> IF k = 0 THEN <<>> ELSE Inserted(f[k - 1], items[k])]
      BY <1>2 DEF Sorting, Inserted
    <2> DEFINE g == [k \in 0 .. n + 1 |-> IF k <= n THEN f[k] ELSE Inserted(f[n], items[k])]
    <2>2. g = [k \in 0 .. n + 1 |-> IF k = 0 THEN <<>> ELSE Inserted(g[k - 1], items[k])]
      <3>1. ASSUME NEW k \in 0 .. n + 1
            PROVE  g[k] = IF k = 0 THEN <<>> ELSE Inserted(g[k - 1], items[k])
        <4>1. CASE k = n + 1
          BY <4>1
        <4>2. CASE k \in 0 .. n
          <5>1. f[k] = IF k = 0 THEN <<>> ELSE Inserted(f[k - 1], items[k])
            BY <2>1, <4>2
          <5> QED
            BY <4>2, <5>1
        <4> QED
          BY <4>1, <4>2
      <3> QED
        BY <3>1
    <2>3. Sorting(items, g, n + 1)
      <3> HIDE DEF g
      <3> QED
        BY <2>2 DEF Sorting, Inserted
    <2> QED
      BY <2>3
  <1>3. Nat \subseteq T
    <2> HIDE DEF T
    <2> QED
      BY <1>1, <1>2, NatSetInduction
  <1> QED
    BY <1>3

\* What it says of the first items, and of one item more.
LEMMA SortedOneMore ==
    ASSUME NEW items, NEW m \in Nat, NEW f, Sorting(items, f, m)
    PROVE  /\ f[0] = <<>>
           /\ \A n \in Nat : n < m =>
                  f[n + 1] = Inserted(f[n], items[n + 1])
  <1>1. \A n \in 0 .. m : f[n] = IF n = 0 THEN <<>> ELSE Inserted(f[n - 1], items[n])
    BY DEF Sorting, Inserted
  <1>2. ASSUME NEW n \in Nat, n < m PROVE f[n + 1] = Inserted(f[n], items[n + 1])
    <2>1. n + 1 \in 0 .. m /\ n + 1 # 0 /\ (n + 1) - 1 = n
      BY <1>2
    <2> QED
      BY <1>1, <2>1
  <1>3. f[0] = <<>>
    <2>1. 0 \in 0 .. m
      OBVIOUS
    <2> QED
      BY <1>1, <2>1, Zenon
  <1> QED
    BY <1>2, <1>3

LEMMA SortedIsSorting ==
    ASSUME NEW X, NEW s \in Seq(X)
    PROVE  \E f : Sorting(s, f, Len(s)) /\ Sorted(s) = f[Len(s)]
  <1>1. \E f : Sorting(s, f, Len(s))
    BY SortedExists, LenProperties
  <1> QED
    BY <1>1 DEF Sorting, Sorted

\* Nothing sorted is nothing; one item more is put in its place.
LEMMA SortedEmpty == Sorted(<<>>) = <<>>
  <1>1. PICK f : Sorting(<<>>, f, Len(<<>>)) /\ Sorted(<<>>) = f[Len(<<>>)]
    <2>1. <<>> \in Seq({})
      BY EmptySeq
    <2> QED
      BY <2>1, SortedIsSorting
  <1>2. Len(<<>>) = 0
    BY EmptySeq
  <1> QED
    BY <1>1, <1>2 DEF Sorting

LEMMA SortedAppend ==
    ASSUME NEW X, NEW s \in Seq(X), NEW e \in X
    PROVE  Sorted(Append(s, e)) = Inserted(Sorted(s), e)
  <1> DEFINE t == Append(s, e)
             N == Len(s)
  <1>1. /\ t \in Seq(X) /\ Len(t) = N + 1 /\ N \in Nat
        /\ t[N + 1] = e /\ \A i \in 1 .. N : t[i] = s[i]
    BY AppendProperties, LenProperties
  <1>2. PICK f : Sorting(s, f, N) /\ Sorted(s) = f[N]
    BY SortedIsSorting
  <1>3. PICK g : Sorting(t, g, N + 1) /\ Sorted(t) = g[N + 1]
    <2> HIDE DEF t
    <2> QED
      BY <1>1, SortedIsSorting
  <1> HIDE DEF t, N
  <1>4. /\ f[0] = <<>>
        /\ \A n \in Nat : n < N => f[n + 1] = Inserted(f[n], s[n + 1])
    BY <1>1, <1>2, SortedOneMore
  <1>5. /\ g[0] = <<>>
        /\ \A n \in Nat : n < N + 1 => g[n + 1] = Inserted(g[n], t[n + 1])
    <2>1. N + 1 \in Nat
      BY <1>1
    <2> DEFINE M == N + 1
    <2>2. M \in Nat /\ Sorting(t, g, M)
      BY <1>3, <2>1
    <2> HIDE DEF M
    <2>3. /\ g[0] = <<>>
          /\ \A n \in Nat : n < M => g[n + 1] = Inserted(g[n], t[n + 1])
      BY <2>2, SortedOneMore
    <2> QED
      BY <2>3 DEF M
  <1> DEFINE T == {n \in Nat : n <= N => f[n] = g[n]}
  <1>6. 0 \in T
    BY <1>4, <1>5
  <1>7. ASSUME NEW n \in Nat, n \in T PROVE n + 1 \in T
    <2> SUFFICES ASSUME n + 1 <= N PROVE f[n + 1] = g[n + 1]
      OBVIOUS
    <2>1. f[n] = g[n] /\ n + 1 \in 1 .. N /\ n < N /\ n < N + 1
      BY <1>1, <1>7
    <2>2. f[n + 1] = Inserted(f[n], s[n + 1])
      BY <1>4, <2>1
    <2>3. g[n + 1] = Inserted(g[n], t[n + 1])
      BY <1>5, <2>1
    <2> QED
      BY <1>1, <2>1, <2>2, <2>3
  <1>8. Nat \subseteq T
    <2> HIDE DEF T
    <2> QED
      BY <1>6, <1>7, NatSetInduction
  <1>9. f[N] = g[N]
    BY <1>1, <1>8
  <1>10. g[N + 1] = Inserted(g[N], t[N + 1])
    BY <1>1, <1>5
  <1> QED
    BY <1>1, <1>2, <1>3, <1>9, <1>10 DEF t

\* A set and what is not in it share the items.
LEMMA OnlySplit ==
    ASSUME NEW X, X \subseteq Nat, NEW s \in Seq(X), NEW S
    PROVE  Len(Only(s, S)) + Len(Only(s, Nat \ S)) = Len(s)
  <1> DEFINE T == {u \in Seq(X) : Len(Only(u, S)) + Len(Only(u, Nat \ S)) = Len(u)}
  <1>1. <<>> \in T
    <2>1. <<>> \in Seq(X) /\ Len(<<>>) = 0 /\ 0 + 0 = 0
      BY EmptySeq
    <2>2. Only(<<>>, S) = <<>> /\ Only(<<>>, Nat \ S) = <<>>
      BY OnlyEmpty
    <2> QED
      BY <2>1, <2>2, Zenon
  <1>2. ASSUME NEW u \in Seq(X), NEW e \in X, u \in T PROVE Append(u, e) \in T
    <2> DEFINE a == Only(u, S)
               b == Only(u, Nat \ S)
    <2>1. /\ a \in Seq(X) /\ b \in Seq(X) /\ Len(a) + Len(b) = Len(u)
      BY <1>2, OnlyType
    <2>2. /\ Only(Append(u, e), S) = IF e \in S THEN Append(a, e) ELSE a
          /\ Only(Append(u, e), Nat \ S) = IF e \in S THEN b ELSE Append(b, e)
      <3> DEFINE R == Nat \ S
      <3>1. e \in R <=> ~(e \in S)
        OBVIOUS
      <3> HIDE DEF R
      <3>2. Only(Append(u, e), R) = IF e \in R THEN Append(Only(u, R), e) ELSE Only(u, R)
        BY OnlyAppend
      <3>3. Only(Append(u, e), S) = IF e \in S THEN Append(Only(u, S), e) ELSE Only(u, S)
        BY OnlyAppend
      <3>4. Only(Append(u, e), R) = IF e \in S THEN Only(u, R) ELSE Append(Only(u, R), e)
        BY <3>1, <3>2
      <3> QED
        BY <3>3, <3>4 DEF R
    <2> HIDE DEF a, b
    <2>3. /\ Len(Append(a, e)) = Len(a) + 1 /\ Len(Append(b, e)) = Len(b) + 1
          /\ Len(Append(u, e)) = Len(u) + 1 /\ Append(u, e) \in Seq(X)
          /\ Len(a) \in Nat /\ Len(b) \in Nat /\ Len(u) \in Nat
      BY <2>1, AppendProperties, LenProperties
    <2> QED
      BY <2>1, <2>2, <2>3
  <1>3. Seq(X) \subseteq T
    <2> HIDE DEF T
    <2> QED
      BY <1>1, <1>2, SeqSetInduction
  <1> QED
    BY <1>3

\* Three pieces in a row.
Pieces(p, a, x, b) == p = a \o <<x>> \o b

Laid(p, a, x, b, X) ==
    /\ p \in Seq(X) /\ Len(p) = Len(a) + 1 + Len(b)
    /\ \A i \in 1 .. Len(a) : p[i] = a[i]
    /\ p[Len(a) + 1] = x
    /\ \A i \in 1 .. Len(b) : p[Len(a) + 1 + i] = b[i]
    /\ Len(a) \in Nat /\ Len(b) \in Nat

LEMMA ThreePieces ==
    ASSUME NEW X, NEW a \in Seq(X), NEW x \in X, NEW b \in Seq(X), NEW p, Pieces(p, a, x, b)
    PROVE  Laid(p, a, x, b, X)
  <1> DEFINE q == Append(a, x)
  <1>1. a \o <<x>> = q
    BY AppendIsConcat
  <1>2. /\ q \in Seq(X) /\ Len(q) = Len(a) + 1 /\ Len(a) \in Nat /\ Len(b) \in Nat
        /\ q[Len(a) + 1] = x /\ \A i \in 1 .. Len(a) : q[i] = a[i]
    BY AppendProperties, LenProperties
  <1>3. p = q \o b
    BY <1>1 DEF Pieces
  <1> HIDE DEF q
  <1>4. /\ q \o b \in Seq(X) /\ Len(q \o b) = Len(q) + Len(b)
        /\ \A i \in 1 .. Len(q) + Len(b) :
              (q \o b)[i] = IF i <= Len(q) THEN q[i] ELSE b[i - Len(q)]
    BY <1>2, ConcatProperties
  <1>5. /\ p \in Seq(X) /\ Len(p) = Len(q) + Len(b)
        /\ \A i \in 1 .. Len(q) + Len(b) : p[i] = IF i <= Len(q) THEN q[i] ELSE b[i - Len(q)]
    BY <1>3, <1>4
  <1>6. \A i \in 1 .. Len(b) : p[Len(a) + 1 + i] = b[i]
    <2> SUFFICES ASSUME NEW i \in 1 .. Len(b) PROVE p[Len(a) + 1 + i] = b[i]
      OBVIOUS
    <2>1. /\ Len(a) + 1 + i \in 1 .. Len(q) + Len(b) /\ ~(Len(a) + 1 + i <= Len(q))
          /\ (Len(a) + 1 + i) - Len(q) = i
      BY <1>2
    <2> QED
      BY <1>5, <2>1
  <1> QED
    BY <1>2, <1>5, <1>6 DEF Laid

Ascending(s) == \A j, k \in 1 .. Len(s) : j < k => s[j] <= s[k]
Descending(s) == \A j, k \in 1 .. Len(s) : j < k => s[k] < s[j]
Increasing(s) == \A j, k \in 1 .. Len(s) : j < k => s[j] < s[k]

\* Inserting a number into a sequence in ascending order.
LEMMA InsertedFacts ==
    ASSUME NEW X, X \subseteq Nat, NEW s \in Seq(X), NEW x \in X
    PROVE  /\ Inserted(s, x) \in Seq(X) /\ Len(Inserted(s, x)) = Len(s) + 1
           /\ Contains(Inserted(s, x), x)
           /\ \A n \in 1 .. Len(s) : Contains(Inserted(s, x), s[n])
           /\ Ascending(s) => Ascending(Inserted(s, x))
  <1> DEFINE S == 0 .. x
             R == Nat \ S
             a == Only(s, S)
             b == Only(s, R)
             p == Inserted(s, x)
  <1>1. /\ \A y \in Nat : y \in S <=> y <= x
        /\ \A y \in Nat : y \in R <=> x < y
        /\ x \in Nat
    OBVIOUS
  <1>2. Pieces(p, a, x, b)
    BY DEF Inserted, Pieces
  <1>3. Len(a) + Len(b) = Len(s)
    BY OnlySplit
  <1> HIDE DEF S, R, p
  <1>4. /\ a \in Seq(X \cap S) /\ a \in Seq(X)
        /\ b \in Seq(X \cap R) /\ b \in Seq(X)
    BY OnlyType
  <1>5. From(s, a) /\ InOrder(s, a) /\ From(s, b) /\ InOrder(s, b)
    BY OnlyInOrder
  <1>6. \A n \in 1 .. Len(s) : s[n] \in S => Contains(a, s[n])
    BY OnlyMembers
  <1>7. \A n \in 1 .. Len(s) : s[n] \in R => Contains(b, s[n])
    BY OnlyMembers
  <1> HIDE DEF a, b
  <1>8. /\ p \in Seq(X) /\ Len(p) = Len(a) + 1 + Len(b)
        /\ \A i \in 1 .. Len(a) : p[i] = a[i]
        /\ p[Len(a) + 1] = x
        /\ \A i \in 1 .. Len(b) : p[Len(a) + 1 + i] = b[i]
        /\ Len(a) \in Nat /\ Len(b) \in Nat
    <2>1. Laid(p, a, x, b, X)
      BY <1>2, <1>4, ThreePieces
    <2> QED
      BY <2>1 DEF Laid
  <1>9. Len(p) = Len(s) + 1 /\ Len(s) \in Nat
    <2>1. Len(s) \in Nat
      BY LenProperties
    <2>2. Len(p) = Len(a) + 1 + Len(b) /\ Len(a) \in Nat /\ Len(b) \in Nat
      BY <1>8
    <2> QED
      BY <1>3, <2>1, <2>2
  <1>10. \E j \in 1 .. Len(s) + 1 : p[j] = x
    BY <1>8, <1>9
  <1>11. \A n \in 1 .. Len(s) : \E j \in 1 .. Len(s) + 1 : p[j] = s[n]
    <2> SUFFICES ASSUME NEW n \in 1 .. Len(s) PROVE \E j \in 1 .. Len(s) + 1 : p[j] = s[n]
      OBVIOUS
    <2>1. s[n] \in Nat
      BY ElementOfSeq
    <2>2. CASE s[n] \in S
      <3>1. PICK j \in 1 .. Len(a) : a[j] = s[n]
        BY <1>6, <2>2 DEF Contains
      <3>2. j \in 1 .. Len(s) + 1 /\ p[j] = s[n]
        BY <1>8, <1>9, <3>1
      <3> QED
        BY <3>2
    <2>3. CASE s[n] \in R
      <3>1. PICK j \in 1 .. Len(b) : b[j] = s[n]
        BY <1>7, <2>3 DEF Contains
      <3>2. Len(a) + 1 + j \in 1 .. Len(s) + 1 /\ p[Len(a) + 1 + j] = s[n]
        BY <1>8, <1>9, <3>1
      <3> QED
        BY <3>2
    <2> QED
      BY <1>1, <2>1, <2>2, <2>3
  <1>12. ASSUME Ascending(s) PROVE Ascending(p)
    <2>1. /\ \A i \in 1 .. Len(a) : a[i] \in Nat /\ a[i] <= x
          /\ \A i \in 1 .. Len(b) : b[i] \in Nat /\ x < b[i]
      <3>1. \A i \in 1 .. Len(a) : a[i] \in X \cap S
        BY <1>4, ElementOfSeq
      <3>2. \A i \in 1 .. Len(b) : b[i] \in X \cap R
        BY <1>4, ElementOfSeq
      <3> QED
        BY <1>1, <3>1, <3>2
    <2>2. Ascending(a) /\ Ascending(b)
      <3>1. ASSUME NEW j \in 1 .. Len(a), NEW k \in 1 .. Len(a), j < k PROVE a[j] <= a[k]
        <4>1. PICK m \in 1 .. Len(s), n \in 1 .. Len(s) : m < n /\ s[m] = a[j] /\ s[n] = a[k]
          BY <1>5, <3>1 DEF InOrder
        <4> QED
          BY <1>12, <4>1 DEF Ascending
      <3>2. ASSUME NEW j \in 1 .. Len(b), NEW k \in 1 .. Len(b), j < k PROVE b[j] <= b[k]
        <4>1. PICK m \in 1 .. Len(s), n \in 1 .. Len(s) : m < n /\ s[m] = b[j] /\ s[n] = b[k]
          BY <1>5, <3>2 DEF InOrder
        <4> QED
          BY <1>12, <4>1 DEF Ascending
      <3> QED
        BY <3>1, <3>2 DEF Ascending
    <2>3. ASSUME NEW j \in 1 .. Len(p), NEW k \in 1 .. Len(p), j < k PROVE p[j] <= p[k]
      <3>1. \A i \in 1 .. Len(p) :
                i \in 1 .. Len(a) \/ i = Len(a) + 1 \/ \E l \in 1 .. Len(b) : i = Len(a) + 1 + l
        <4> SUFFICES ASSUME NEW i \in 1 .. Len(p), ~(i \in 1 .. Len(a)), i # Len(a) + 1
                     PROVE  \E l \in 1 .. Len(b) : i = Len(a) + 1 + l
          OBVIOUS
        <4>1. i \in Nat /\ i <= Len(a) + 1 + Len(b) /\ i > Len(a) + 1
          BY <1>8
        <4>2. i - (Len(a) + 1) \in 1 .. Len(b) /\ i = Len(a) + 1 + (i - (Len(a) + 1))
          BY <1>8, <4>1
        <4> QED
          BY <4>2
      <3>2. CASE j \in 1 .. Len(a) /\ k \in 1 .. Len(a)
        BY <1>8, <2>2, <2>3, <3>2 DEF Ascending
      <3>3. CASE j \in 1 .. Len(a) /\ k = Len(a) + 1
        BY <1>8, <2>1, <3>3
      <3>4. CASE j \in 1 .. Len(a) /\ \E l \in 1 .. Len(b) : k = Len(a) + 1 + l
        <4>1. PICK l \in 1 .. Len(b) : k = Len(a) + 1 + l
          BY <3>4
        <4>2. p[j] = a[j] /\ p[k] = b[l]
          BY <1>8, <3>4, <4>1
        <4> QED
          BY <1>1, <2>1, <3>4, <4>2
      <3>5. CASE j = Len(a) + 1 /\ \E l \in 1 .. Len(b) : k = Len(a) + 1 + l
        <4>1. PICK l \in 1 .. Len(b) : k = Len(a) + 1 + l
          BY <3>5
        <4>2. p[j] = x /\ p[k] = b[l]
          BY <1>8, <3>5, <4>1
        <4> QED
          BY <1>1, <2>1, <4>2
      <3>6. CASE /\ \E l \in 1 .. Len(b) : j = Len(a) + 1 + l
                 /\ \E l \in 1 .. Len(b) : k = Len(a) + 1 + l
        <4>1. PICK l \in 1 .. Len(b) : j = Len(a) + 1 + l
          BY <3>6
        <4>2. PICK m \in 1 .. Len(b) : k = Len(a) + 1 + m
          BY <3>6
        <4>3. p[j] = b[l] /\ p[k] = b[m] /\ l < m
          BY <1>8, <2>3, <4>1, <4>2
        <4> QED
          BY <2>2, <4>3 DEF Ascending
      <3> DEFINE Left(i)  == i \in 1 .. Len(a)
                 Mid(i)   == i = Len(a) + 1
                 Right(i) == \E l \in 1 .. Len(b) : i = Len(a) + 1 + l
      <3>7. /\ Right(j) => ~Mid(k) /\ ~Left(k)
            /\ Mid(j) => ~Mid(k) /\ ~Left(k)
        BY <1>8, <2>3
      <3>8. (Left(j) \/ Mid(j) \/ Right(j)) /\ (Left(k) \/ Mid(k) \/ Right(k))
        BY <3>1
      <3> HIDE DEF Left, Mid, Right
      <3> QED
        BY <3>2, <3>3, <3>4, <3>5, <3>6, <3>7, <3>8 DEF Left, Mid, Right
    <2> QED
      BY <2>3 DEF Ascending
  <1> QED
    BY <1>8, <1>9, <1>10, <1>11, <1>12 DEF p, Contains

\* Sorting a sequence of numbers: in ascending order, and nothing is lost.
LEMMA SortedFacts ==
    ASSUME NEW X, X \subseteq Nat, NEW s \in Seq(X)
    PROVE  /\ Sorted(s) \in Seq(X) /\ Len(Sorted(s)) = Len(s)
           /\ \A n \in 1 .. Len(s) : Contains(Sorted(s), s[n])
           /\ Ascending(Sorted(s))
  <1> DEFINE Right(u) == /\ Sorted(u) \in Seq(X) /\ Len(Sorted(u)) = Len(u)
                         /\ \A n \in 1 .. Len(u) : Contains(Sorted(u), u[n])
                         /\ Ascending(Sorted(u))
             T == {u \in Seq(X) : Right(u)}
  <1>1. <<>> \in T
    <2>1. <<>> \in Seq(X) /\ Len(<<>>) = 0
      BY EmptySeq
    <2>2. Sorted(<<>>) = <<>>
      BY SortedEmpty
    <2>3. Ascending(<<>>)
      BY <2>1 DEF Ascending
    <2>4. \A n \in 1 .. Len(<<>>) : FALSE
      BY <2>1
    <2>5. Right(<<>>)
      BY <2>1, <2>2, <2>3, <2>4, Zenon
    <2> QED
      BY <2>1, <2>5
  <1>2. ASSUME NEW u \in Seq(X), NEW e \in X, u \in T PROVE Append(u, e) \in T
    <2> DEFINE v == Append(u, e)
               o == Sorted(u)
               p == Inserted(o, e)
    <2>1. /\ v \in Seq(X) /\ Len(v) = Len(u) + 1 /\ Len(u) \in Nat
          /\ v[Len(u) + 1] = e /\ \A i \in 1 .. Len(u) : v[i] = u[i]
      BY AppendProperties, LenProperties
    <2>2. Sorted(v) = p
      BY SortedAppend
    <2>3. /\ o \in Seq(X) /\ Len(o) = Len(u) /\ Ascending(o)
          /\ \A n \in 1 .. Len(u) : Contains(o, u[n])
      BY <1>2
    <2> HIDE DEF v, o
    <2>4. /\ p \in Seq(X) /\ Len(p) = Len(o) + 1
          /\ Contains(p, e)
          /\ \A n \in 1 .. Len(o) : Contains(p, o[n])
          /\ Ascending(p)
      <3>1. p \in Seq(X) /\ Len(p) = Len(o) + 1
        BY <2>3, InsertedFacts
      <3>2. Contains(p, e)
        BY <2>3, InsertedFacts
      <3>3. \A n \in 1 .. Len(o) : Contains(p, o[n])
        BY <2>3, InsertedFacts
      <3>4. Ascending(p)
        BY <2>3, InsertedFacts
      <3> QED
        BY <3>1, <3>2, <3>3, <3>4
    <2> HIDE DEF p
    <2>5. ASSUME NEW n \in 1 .. Len(v) PROVE Contains(p, v[n])
      <3>1. CASE n = Len(u) + 1
        BY <2>1, <2>3, <2>4, <3>1
      <3>2. CASE n \in 1 .. Len(u)
        <4>1. PICK i \in 1 .. Len(o) : o[i] = u[n]
          BY <2>3, <3>2 DEF Contains
        <4> QED
          BY <2>1, <2>4, <3>2, <4>1
      <3> QED
        BY <2>1, <3>1, <3>2
    <2>6. Right(v)
      BY <2>1, <2>2, <2>3, <2>4, <2>5
    <2> QED
      BY <2>1, <2>6 DEF v
  <1>3. Seq(X) \subseteq T
    <2> HIDE DEF T
    <2> QED
      BY <1>1, <1>2, SeqSetInduction
  <1> QED
    BY <1>3

\* Reversing a sequence, and that this is what sorting does to one in descending order.
LEMMA ReverseType ==
    ASSUME NEW X, NEW s \in Seq(X)
    PROVE  /\ Reverse(s) \in Seq(X) /\ Len(Reverse(s)) = Len(s)
           /\ \A i \in 1 .. Len(s) : Reverse(s)[i] = s[(Len(s) - i) + 1]
  <1>1. Len(s) \in Nat
    BY LenProperties
  <1>2. \A i \in 1 .. Len(s) : s[(Len(s) - i) + 1] \in X
    <2> SUFFICES ASSUME NEW i \in 1 .. Len(s) PROVE s[(Len(s) - i) + 1] \in X
      OBVIOUS
    <2>1. (Len(s) - i) + 1 \in 1 .. Len(s)
      BY <1>1
    <2> QED
      BY <2>1, ElementOfSeq
  <1>3. Reverse(s) \in [1 .. Len(s) -> X]
    BY <1>2 DEF Reverse
  <1>4. Reverse(s) \in Seq(X)
    BY <1>1, <1>3, SeqDef
  <1>5. Len(Reverse(s)) = Len(s)
    BY <1>1, <1>3, <1>4, LenProperties
  <1> QED
    BY <1>4, <1>5 DEF Reverse

LEMMA SortedReverses ==
    ASSUME NEW X, X \subseteq Nat, NEW s \in Seq(X), Descending(s)
    PROVE  Sorted(s) = Reverse(s)
  <1> DEFINE T == {u \in Seq(X) : Descending(u) => Sorted(u) = Reverse(u)}
  <1>1. <<>> \in T
    <2>1. <<>> \in Seq(X) /\ Len(<<>>) = 0
      BY EmptySeq
    <2>2. Reverse(<<>>) \in Seq(X) /\ Len(Reverse(<<>>)) = 0
      BY <2>1, ReverseType
    <2>3. Reverse(<<>>) = <<>>
      BY <2>2, EmptySeq
    <2> QED
      BY <2>1, <2>3, SortedEmpty
  <1>2. ASSUME NEW u \in Seq(X), NEW e \in X, u \in T PROVE Append(u, e) \in T
    <2> DEFINE v == Append(u, e)
               r == Reverse(u)
               Y == {y \in X : e < y}
    <2>1. /\ v \in Seq(X) /\ Len(v) = Len(u) + 1 /\ Len(u) \in Nat
          /\ v[Len(u) + 1] = e /\ \A i \in 1 .. Len(u) : v[i] = u[i]
      BY AppendProperties, LenProperties
    <2>2. Sorted(v) = Inserted(Sorted(u), e)
      BY SortedAppend
    <2> HIDE DEF v
    <2>3. ASSUME Descending(v) PROVE Sorted(v) = Reverse(v)
      <3>1. Descending(u)
        BY <2>1, <2>3 DEF Descending
      <3>2. Sorted(u) = r
        BY <1>2, <3>1
      <3>3. u \in Seq(Y)
        <4>1. \A i \in 1 .. Len(u) : u[i] \in Y
          <5> SUFFICES ASSUME NEW i \in 1 .. Len(u) PROVE u[i] \in Y
            OBVIOUS
          <5>1. u[i] \in X
            BY ElementOfSeq
          <5>2. i \in 1 .. Len(v) /\ Len(u) + 1 \in 1 .. Len(v) /\ i < Len(u) + 1
            BY <2>1
          <5>3. v[Len(u) + 1] < v[i]
            BY <2>3, <5>2 DEF Descending
          <5> QED
            BY <2>1, <5>1, <5>3
        <4>2. u \in [1 .. Len(u) -> Y]
          BY <4>1, LenProperties
        <4> QED
          BY <2>1, <4>2, SeqDef
      <3>4. r \in Seq(Y) /\ Len(r) = Len(u) /\ \A i \in 1 .. Len(u) : r[i] = u[(Len(u) - i) + 1]
        BY <3>3, ReverseType
      <3> DEFINE S == 0 .. e
                 R == Nat \ S
      <3>5. Y \cap S = {} /\ Y \subseteq R
        <4>1. \A y \in Y : y \in Nat /\ e \in Nat /\ e < y
          OBVIOUS
        <4> HIDE DEF Y
        <4>2. \A y \in Y : y \notin S /\ y \in R
          BY <4>1
        <4> QED
          BY <4>2
      <3> HIDE DEF r, S, R, Y
      <3>6. Only(r, S) = <<>> /\ Only(r, R) = r
        BY <3>4, <3>5, OnlyAll, OnlyNone
      <3>7. Pieces(Inserted(r, e), <<>>, e, r)
        BY <3>6 DEF Inserted, Pieces, S, R
      <3>8. r \in Seq(X) /\ <<>> \in Seq(X) /\ Len(<<>>) = 0
        BY <3>4, SeqMonotonic, EmptySeq DEF Y
      <3> DEFINE p == Inserted(r, e)
      <3>9. /\ p \in Seq(X) /\ Len(p) = Len(<<>>) + 1 + Len(r) /\ p[Len(<<>>) + 1] = e
            /\ \A i \in 1 .. Len(r) : p[Len(<<>>) + 1 + i] = r[i]
        <4>1. Laid(p, <<>>, e, r, X)
          BY <3>7, <3>8, ThreePieces
        <4> QED
          BY <4>1 DEF Laid
      <3> HIDE DEF p
      <3>10. Reverse(v) \in Seq(X) /\ Len(Reverse(v)) = Len(v)
             /\ \A i \in 1 .. Len(v) : Reverse(v)[i] = v[(Len(v) - i) + 1]
        BY <2>1, ReverseType
      <3>11. ASSUME NEW i \in 1 .. Len(v) PROVE p[i] = Reverse(v)[i]
        <4>1. CASE i = 1
          <5>1. p[1] = e
            BY <3>8, <3>9
          <5>2. (Len(v) - 1) + 1 = Len(u) + 1
            BY <2>1
          <5> QED
            BY <2>1, <3>10, <4>1, <5>1, <5>2
        <4>2. CASE i # 1
          <5>1. i - 1 \in 1 .. Len(r) /\ 0 + 1 + (i - 1) = i
            BY <2>1, <3>4, <4>2
          <5>2. p[i] = r[i - 1]
            BY <3>8, <3>9, <5>1
          <5>3. /\ (Len(u) - (i - 1)) + 1 = (Len(v) - i) + 1
                /\ (Len(v) - i) + 1 \in 1 .. Len(u)
            BY <2>1, <4>2
          <5>4. r[i - 1] = u[(Len(v) - i) + 1]
            BY <3>4, <5>1, <5>3
          <5> QED
            BY <2>1, <3>10, <5>2, <5>3, <5>4
        <4> QED
          BY <4>1, <4>2
      <3>12. Len(p) = Len(v)
        BY <2>1, <3>4, <3>8, <3>9
      <3>13. p = Reverse(v)
        BY <3>9, <3>10, <3>11, <3>12, SeqEqual
      <3> QED
        BY <2>2, <3>2, <3>13 DEF p
    <2> QED
      BY <2>1, <2>3 DEF v
  <1>3. Seq(X) \subseteq T
    <2> HIDE DEF T
    <2> QED
      BY <1>1, <1>2, SeqSetInduction
  <1> QED
    BY <1>3

-----------------------------------------------------------------------------
(* Arithmetic, and pages.                                                  *)

LEMMA Quotient ==
    ASSUME NEW n \in Nat, NEW size \in Nat \ {0}
    PROVE  /\ n \div size \in Nat
           /\ size * (n \div size) <= n /\ n < size * (n \div size) + size
  OBVIOUS

LEMMA Product ==
    ASSUME NEW m \in Nat, NEW n \in Nat, NEW size \in Nat, m <= n
    PROVE  m * size \in Nat /\ size * m = m * size /\ m * size <= n * size
  OBVIOUS

\* The page after p begins one page later than p.
LEMMA NextPlace ==
    ASSUME NEW p \in Nat \ {0}, NEW size \in Nat
    PROVE  /\ (p - 1) * size \in Nat /\ p * size \in Nat
           /\ p * size = (p - 1) * size + size
           /\ (p + 1) * size = p * size + size
  OBVIOUS

\* There is a page after p when p ends before the listing does.
LEMMA MorePages ==
    ASSUME NEW len \in Nat, NEW p \in Nat \ {0}, NEW size \in Nat \ {0}
    PROVE  p < (len + size - 1) \div size <=> p * size < len
  <1> DEFINE q == (len + size - 1) \div size
  <1>1. q \in Nat /\ size * q <= len + size - 1 /\ len + size - 1 < size * q + size
    <2>1. len + size - 1 \in Nat
      OBVIOUS
    <2> QED
      BY <2>1, Quotient
  <1> HIDE DEF q
  <1>2. p * size \in Nat /\ q * size \in Nat /\ size * q = q * size
    BY <1>1, Product
  <1>3. ASSUME p < q PROVE p * size < len
    <2>1. p + 1 <= q /\ p + 1 \in Nat
      BY <1>1, <1>3
    <2>2. (p + 1) * size <= q * size
      BY <1>1, <2>1, Product
    <2>3. (p + 1) * size = p * size + size
      BY NextPlace
    <2> QED
      BY <1>1, <1>2, <2>2, <2>3
  <1>4. ASSUME ~(p < q) PROVE ~(p * size < len)
    <2>1. q <= p
      BY <1>1, <1>4
    <2>2. q * size <= p * size
      BY <1>1, <2>1, Product
    <2> QED
      BY <1>1, <1>2, <2>2
  <1> QED
    BY <1>3, <1>4 DEF q

\* The beginning of a sequence, and the rest.
LEMMA FirstOf ==
    ASSUME NEW X, NEW s \in Seq(X), NEW n \in Nat, n <= Len(s)
    PROVE  /\ SubSeq(s, 1, n) \in Seq(X) /\ Len(SubSeq(s, 1, n)) = n
           /\ \A i \in 1 .. n : SubSeq(s, 1, n)[i] = s[i]
  <1>1. \A i \in 1 .. n : s[i] \in X
    BY ElementOfSeq, LenProperties
  <1>2. n - 1 + 1 = n /\ (1 <= n => n - 1 + 1 = n)
    OBVIOUS
  <1>3. /\ SubSeq(s, 1, n) \in Seq(X)
        /\ Len(SubSeq(s, 1, n)) = IF 1 <= n THEN n - 1 + 1 ELSE 0
        /\ \A i \in 1 .. n - 1 + 1 : SubSeq(s, 1, n)[i] = s[1 + i - 1]
    BY <1>1, SubSeqProperties
  <1>4. Len(SubSeq(s, 1, n)) = n
    BY <1>2, <1>3
  <1>5. \A i \in 1 .. n : 1 + i - 1 = i
    OBVIOUS
  <1> QED
    BY <1>2, <1>3, <1>4, <1>5

\* A page: its items are those of the listing from its place on, at most size,
\* and up to the end when there is no next one.
LEMMA PageFacts ==
    ASSUME NEW X, NEW s \in Seq(X), NEW p \in Nat \ {0}, NEW size \in Nat \ {0}
    PROVE  LET at == (p - 1) * size
               resp == PageOf(s, p, size) IN
           /\ at \in Nat /\ Len(s) \in Nat /\ p * size = at + size
           /\ resp.page = p
           /\ resp.next = IF at + size < Len(s) THEN p + 1 ELSE 0
           /\ resp.items \in Seq(X) /\ Len(resp.items) <= size /\ Len(resp.items) \in Nat
           /\ Len(resp.items) = IF at + size < Len(s) THEN size
                                ELSE IF at < Len(s) THEN Len(s) - at ELSE 0
           /\ \A j \in 1 .. Len(resp.items) : at + j \in 1 .. Len(s) /\ resp.items[j] = s[at + j]
  <1> DEFINE at == (p - 1) * size
             to == IF at + size < Len(s) THEN at + size ELSE Len(s)
             items == SubSeq(s, at + 1, to)
             resp == PageOf(s, p, size)
  <1>1. at \in Nat /\ Len(s) \in Nat /\ p * size = at + size
    BY NextPlace, LenProperties
  <1>2. p < PageCount(s, size) <=> at + size < Len(s)
    BY <1>1, MorePages DEF PageCount
  <1>3. resp = [items |-> items, page |-> p, next |-> IF at + size < Len(s) THEN p + 1 ELSE 0]
    BY <1>1, <1>2 DEF PageOf
  <1> HIDE DEF at, resp
  <1>4. \A i \in at + 1 .. to : i \in 1 .. Len(s)
    BY <1>1
  <1>5. \A i \in at + 1 .. to : s[i] \in X
    BY <1>4, ElementOfSeq
  <1>6. to \in Int /\ at + 1 \in Int
    BY <1>1
  <1> HIDE DEF to
  <1>7. /\ items \in Seq(X)
        /\ Len(items) = IF at + 1 <= to THEN to - (at + 1) + 1 ELSE 0
        /\ \A i \in 1 .. to - (at + 1) + 1 : items[i] = s[at + 1 + i - 1]
    BY <1>5, <1>6, SubSeqProperties
  <1> HIDE DEF items
  <1>8. Len(items) = IF at + size < Len(s) THEN size ELSE IF at < Len(s) THEN Len(s) - at ELSE 0
    BY <1>1, <1>7 DEF to
  <1>9. Len(items) <= size /\ Len(items) \in Nat
    BY <1>1, <1>8
  <1>10. ASSUME NEW j \in 1 .. Len(items) PROVE at + j \in 1 .. Len(s) /\ items[j] = s[at + j]
    <2>1. j \in 1 .. to - (at + 1) + 1 /\ at + 1 + j - 1 = at + j
      BY <1>1, <1>6, <1>7
    <2>2. at + j \in at + 1 .. to
      BY <1>1, <1>6, <2>1
    <2> QED
      BY <1>4, <1>7, <2>1, <2>2
  <1>11. resp.items = items /\ resp.page = p
         /\ resp.next = IF at + size < Len(s) THEN p + 1 ELSE 0
    BY <1>3
  <1> QED
    BY <1>1, <1>7, <1>8, <1>9, <1>10, <1>11 DEF at, resp

\* The same of the items alone.
LEMMA PageItems ==
    ASSUME NEW X, NEW s \in Seq(X), NEW p \in Nat \ {0}, NEW size \in Nat \ {0},
           NEW at, at = (p - 1) * size, NEW items, items = PageOf(s, p, size).items
    PROVE  /\ items \in Seq(X) /\ Len(items) <= size /\ Len(items) \in Nat
           /\ Len(items) = IF at + size < Len(s) THEN size
                           ELSE IF at < Len(s) THEN Len(s) - at ELSE 0
           /\ \A j \in 1 .. Len(items) : at + j \in 1 .. Len(s) /\ items[j] = s[at + j]
  <1> DEFINE here == (p - 1) * size
             all == PageOf(s, p, size).items
  <1>1. /\ all \in Seq(X) /\ Len(all) <= size /\ Len(all) \in Nat
        /\ Len(all) = IF here + size < Len(s) THEN size
                      ELSE IF here < Len(s) THEN Len(s) - here ELSE 0
        /\ \A j \in 1 .. Len(all) : here + j \in 1 .. Len(s) /\ all[j] = s[here + j]
    BY PageFacts
  <1>2. here = at /\ all = items
    OBVIOUS
  <1> HIDE DEF here, all
  <1> QED
    BY <1>1, <1>2

\* The rest of a sequence.
LEMMA RestOf ==
    ASSUME NEW X, NEW s \in Seq(X), NEW n \in Nat, n <= Len(s)
    PROVE  /\ SubSeq(s, n + 1, Len(s)) \in Seq(X) /\ Len(SubSeq(s, n + 1, Len(s))) = Len(s) - n
           /\ \A i \in 1 .. Len(s) - n : SubSeq(s, n + 1, Len(s))[i] = s[n + i]
  <1> DEFINE r == SubSeq(s, n + 1, Len(s))
  <1>1. Len(s) \in Nat
    BY LenProperties
  <1>2. \A i \in n + 1 .. Len(s) : s[i] \in X
    BY <1>1, ElementOfSeq
  <1>3. /\ r \in Seq(X) /\ Len(r) = IF n + 1 <= Len(s) THEN Len(s) - (n + 1) + 1 ELSE 0
        /\ \A i \in 1 .. Len(s) - (n + 1) + 1 : r[i] = s[n + 1 + i - 1]
    BY <1>1, <1>2, SubSeqProperties
  <1> HIDE DEF r
  <1>4. Len(r) = Len(s) - n
    BY <1>1, <1>3
  <1>5. ASSUME NEW i \in 1 .. Len(s) - n PROVE r[i] = s[n + i]
    <2>1. i \in 1 .. Len(s) - (n + 1) + 1 /\ n + 1 + i - 1 = n + i
      BY <1>1
    <2> QED
      BY <1>3, <2>1
  <1> QED
    BY <1>3, <1>4, <1>5 DEF r

\* An item put into a sequence, and one taken out of it.
LEMMA InsertFacts ==
    ASSUME NEW X, NEW s \in Seq(X), NEW i \in 1 .. Len(s) + 1, NEW e \in X
    PROVE  /\ InsertAt(s, i, e) \in Seq(X) /\ Len(InsertAt(s, i, e)) = Len(s) + 1
           /\ \A j \in 1 .. Len(s) : j < i => InsertAt(s, i, e)[j] = s[j]
           /\ InsertAt(s, i, e)[i] = e
           /\ \A j \in 1 .. Len(s) : i <= j => InsertAt(s, i, e)[j + 1] = s[j]
  <1> DEFINE n == i - 1
             a == SubSeq(s, 1, n)
             b == SubSeq(s, n + 1, Len(s))
             p == InsertAt(s, i, e)
  <1>1. Len(s) \in Nat /\ n \in Nat /\ n <= Len(s) /\ i = n + 1
    BY LenProperties
  <1>2. Pieces(p, a, e, b)
    BY <1>1 DEF InsertAt, Pieces
  <1> HIDE DEF n
  <1>3. a \in Seq(X) /\ Len(a) = n /\ \A j \in 1 .. n : a[j] = s[j]
    BY <1>1, FirstOf
  <1>4. b \in Seq(X) /\ Len(b) = Len(s) - n /\ \A j \in 1 .. Len(s) - n : b[j] = s[n + j]
    BY <1>1, RestOf
  <1> HIDE DEF a, b, p
  <1>5. /\ p \in Seq(X) /\ Len(p) = n + 1 + (Len(s) - n)
        /\ \A j \in 1 .. n : p[j] = a[j]
        /\ p[n + 1] = e
        /\ \A j \in 1 .. Len(s) - n : p[n + 1 + j] = b[j]
    <2>1. Laid(p, a, e, b, X)
      BY <1>2, <1>3, <1>4, ThreePieces
    <2> QED
      BY <1>3, <1>4, <2>1 DEF Laid
  <1>6. ASSUME NEW j \in 1 .. Len(s), j < i PROVE p[j] = s[j]
    BY <1>1, <1>3, <1>5, <1>6
  <1>7. ASSUME NEW j \in 1 .. Len(s), i <= j PROVE p[j + 1] = s[j]
    <2>1. j - n \in 1 .. Len(s) - n /\ n + 1 + (j - n) = j + 1 /\ n + (j - n) = j
      BY <1>1, <1>7
    <2>2. p[n + 1 + (j - n)] = b[j - n] /\ b[j - n] = s[n + (j - n)]
      BY <1>4, <1>5, <2>1
    <2> QED
      BY <2>1, <2>2
  <1>8. Len(p) = Len(s) + 1
    BY <1>1, <1>5
  <1> QED
    BY <1>1, <1>5, <1>6, <1>7, <1>8 DEF p

LEMMA RemoveFacts ==
    ASSUME NEW X, NEW s \in Seq(X), NEW i \in 1 .. Len(s)
    PROVE  /\ RemoveAt(s, i) \in Seq(X) /\ Len(RemoveAt(s, i)) = Len(s) - 1
           /\ \A j \in 1 .. Len(s) - 1 : RemoveAt(s, i)[j] = IF j < i THEN s[j] ELSE s[j + 1]
  <1> DEFINE n == i - 1
             a == SubSeq(s, 1, n)
             b == SubSeq(s, i + 1, Len(s))
             p == RemoveAt(s, i)
  <1>1. Len(s) \in Nat /\ n \in Nat /\ n <= Len(s) /\ i = n + 1 /\ i \in Nat /\ i <= Len(s)
    BY LenProperties
  <1>2. p = a \o b
    BY <1>1 DEF RemoveAt
  <1> HIDE DEF n
  <1>3. a \in Seq(X) /\ Len(a) = n /\ \A j \in 1 .. n : a[j] = s[j]
    BY <1>1, FirstOf
  <1>4. b \in Seq(X) /\ Len(b) = Len(s) - i /\ \A j \in 1 .. Len(s) - i : b[j] = s[i + j]
    BY <1>1, RestOf
  <1> HIDE DEF a, b, p
  <1>5. /\ a \o b \in Seq(X) /\ Len(a \o b) = Len(a) + Len(b)
        /\ \A j \in 1 .. Len(a) + Len(b) :
              (a \o b)[j] = IF j <= Len(a) THEN a[j] ELSE b[j - Len(a)]
    BY <1>3, <1>4, ConcatProperties
  <1>6. /\ p \in Seq(X) /\ Len(p) = n + (Len(s) - i)
        /\ \A j \in 1 .. n + (Len(s) - i) : p[j] = IF j <= n THEN a[j] ELSE b[j - n]
    BY <1>2, <1>3, <1>4, <1>5
  <1>7. Len(p) = Len(s) - 1
    BY <1>1, <1>6
  <1>8. ASSUME NEW j \in 1 .. Len(s) - 1 PROVE p[j] = IF j < i THEN s[j] ELSE s[j + 1]
    <2>1. j \in 1 .. n + (Len(s) - i)
      BY <1>1
    <2>2. CASE j < i
      BY <1>1, <1>3, <1>6, <2>1, <2>2
    <2>3. CASE ~(j < i)
      <3>1. ~(j <= n) /\ j - n \in 1 .. Len(s) - i /\ i + (j - n) = j + 1
        BY <1>1, <2>3
      <3>2. p[j] = b[j - n] /\ b[j - n] = s[i + (j - n)]
        BY <1>4, <1>6, <2>1, <3>1
      <3> QED
        BY <2>3, <3>1, <3>2
    <2> QED
      BY <2>2, <2>3
  <1> QED
    BY <1>6, <1>7, <1>8 DEF p

-----------------------------------------------------------------------------
(* Keeping fewer items, and the rest of what is kept.                      *)

\* The items of part are in s, none of them before its place in part.
Behind(s, part) ==
    \A j \in 1 .. Len(part) : \E m \in 1 .. Len(s) : j <= m /\ s[m] = part[j]

LEMMA OnlyFewer ==
    ASSUME NEW X, NEW s \in Seq(X), NEW S, NEW R, R \subseteq S
    PROVE  Behind(Only(s, S), Only(s, R))
  <1> DEFINE T == {u \in Seq(X) : Behind(Only(u, S), Only(u, R))}
  <1>1. <<>> \in T
    <2>1. <<>> \in Seq(X) /\ Len(<<>>) = 0 /\ Only(<<>>, S) = <<>> /\ Only(<<>>, R) = <<>>
      BY OnlyEmpty, EmptySeq
    <2>2. Behind(<<>>, <<>>)
      BY EmptySeq DEF Behind
    <2> QED
      BY <2>1, <2>2, Zenon
  <1>2. ASSUME NEW u \in Seq(X), NEW e \in X, u \in T PROVE Append(u, e) \in T
    <2> DEFINE v == Append(u, e)
               a == Only(u, S)
               b == Only(u, R)
               c == Append(a, e)
               d == Append(b, e)
    <2>1. v \in Seq(X) /\ a \in Seq(X) /\ b \in Seq(X)
      BY AppendProperties, OnlyType
    <2>2. /\ Only(v, S) = IF e \in S THEN c ELSE a
          /\ Only(v, R) = IF e \in R THEN d ELSE b
      BY OnlyAppend
    <2>3. Behind(a, b)
      BY <1>2
    <2> HIDE DEF v, a, b
    <2>4. /\ Len(c) = Len(a) + 1 /\ Len(a) \in Nat
          /\ c[Len(a) + 1] = e /\ \A i \in 1 .. Len(a) : c[i] = a[i]
      BY <2>1, AppendProperties, LenProperties
    <2>5. /\ Len(d) = Len(b) + 1 /\ Len(b) \in Nat
          /\ d[Len(b) + 1] = e /\ \A i \in 1 .. Len(b) : d[i] = b[i]
      BY <2>1, AppendProperties, LenProperties
    <2> HIDE DEF c, d
    <2>6. Behind(c, b)
      <3>1. ASSUME NEW j \in 1 .. Len(b) PROVE \E m \in 1 .. Len(c) : j <= m /\ c[m] = b[j]
        <4>1. PICK m \in 1 .. Len(a) : j <= m /\ a[m] = b[j]
          BY <2>3 DEF Behind
        <4>2. m \in 1 .. Len(c) /\ c[m] = b[j]
          BY <2>4, <4>1
        <4> QED
          BY <4>1, <4>2
      <3> QED
        BY <3>1 DEF Behind
    <2>7. Len(b) <= Len(a)
      <3>1. CASE Len(b) = 0
        BY <2>4, <3>1
      <3>2. CASE Len(b) \in 1 .. Len(b)
        BY <2>3, <2>4, <2>5, <3>2 DEF Behind
      <3> QED
        BY <2>5, <3>1, <3>2
    <2>8. Behind(c, d)
      <3>1. ASSUME NEW j \in 1 .. Len(d) PROVE \E m \in 1 .. Len(c) : j <= m /\ c[m] = d[j]
        <4>1. CASE j = Len(b) + 1
          <5>1. Len(a) + 1 \in 1 .. Len(c) /\ j <= Len(a) + 1 /\ c[Len(a) + 1] = d[j]
            BY <2>4, <2>5, <2>7, <4>1
          <5> QED
            BY <5>1
        <4>2. CASE j \in 1 .. Len(b)
          <5>1. d[j] = b[j]
            BY <2>5, <4>2
          <5> QED
            BY <2>6, <4>2, <5>1 DEF Behind
        <4> QED
          BY <2>5, <3>1, <4>1, <4>2
      <3> QED
        BY <3>1 DEF Behind
    <2>9. Behind(Only(v, S), Only(v, R))
      BY <2>2, <2>3, <2>6, <2>8
    <2> QED
      BY <2>1, <2>9 DEF v
  <1>3. Seq(X) \subseteq T
    <2> HIDE DEF T
    <2> QED
      BY <1>1, <1>2, SeqSetInduction
  <1> QED
    BY <1>3

\* What is left of a sequence without its first n items, if it has that many.
Rest(s, n) == SubSeq(s, n + 1, Len(s))

LEMMA RestFacts ==
    ASSUME NEW X, NEW s \in Seq(X), NEW n \in Nat
    PROVE  /\ Rest(s, n) \in Seq(X)
           /\ Len(Rest(s, n)) = IF n <= Len(s) THEN Len(s) - n ELSE 0
           /\ \A i \in 1 .. Len(Rest(s, n)) : n + i \in 1 .. Len(s) /\ Rest(s, n)[i] = s[n + i]
  <1>1. Len(s) \in Nat
    BY LenProperties
  <1>2. CASE n <= Len(s)
    <2>1. /\ Rest(s, n) \in Seq(X) /\ Len(Rest(s, n)) = Len(s) - n
          /\ \A i \in 1 .. Len(s) - n : Rest(s, n)[i] = s[n + i]
      BY <1>2, RestOf DEF Rest
    <2>2. \A i \in 1 .. Len(s) - n : n + i \in 1 .. Len(s)
      BY <1>1
    <2> QED
      BY <1>2, <2>1, <2>2
  <1>3. CASE Len(s) < n
    <2>1. Rest(s, n) = <<>>
      BY <1>1, <1>3, SubSeqEmpty DEF Rest
    <2>2. <<>> \in Seq(X) /\ Len(<<>>) = 0
      OBVIOUS
    <2>3. ~(n <= Len(s)) /\ \A i \in 1 .. 0 : FALSE
      BY <1>1, <1>3
    <2> QED
      BY <2>1, <2>2, <2>3
  <1> QED
    BY <1>1, <1>2, <1>3

\* Nothing has no rest.
LEMMA RestEmpty ==
    ASSUME NEW n \in Nat
    PROVE  Rest(<<>>, n) = <<>>
  <1> DEFINE none == <<>>
             rest == Rest(none, n)
  <1>1. none \in Seq({}) /\ Len(none) = 0
    BY EmptySeq
  <1> HIDE DEF none
  <1>2. rest \in Seq({}) /\ Len(rest) = IF n <= Len(none) THEN Len(none) - n ELSE 0
    BY <1>1, RestFacts
  <1> HIDE DEF rest
  <1>3. Len(rest) = 0
    BY <1>1, <1>2
  <1>4. rest = <<>>
    BY <1>2, <1>3, EmptySeq
  <1> QED
    BY <1>4 DEF none, rest

\* Skipping the first n of two sequences: those of the second are skipped that
\* are more than the first has.
LEMMA RestJoined ==
    ASSUME NEW X, NEW s \in Seq(X), NEW t \in Seq(X), NEW n \in Nat
    PROVE  LET m == IF n <= Len(s) THEN 0 ELSE n - Len(s) IN
           Rest(s \o t, n) = Rest(s, n) \o Rest(t, m)
  <1> DEFINE m == IF n <= Len(s) THEN 0 ELSE n - Len(s)
             all == s \o t
             a == Rest(s, n)
             b == Rest(t, m)
             c == Rest(all, n)
             d == a \o b
  <1>1. Len(s) \in Nat /\ Len(t) \in Nat /\ m \in Nat
    BY LenProperties
  <1>2. /\ all \in Seq(X) /\ Len(all) = Len(s) + Len(t)
        /\ \A i \in 1 .. Len(s) + Len(t) : all[i] = IF i <= Len(s) THEN s[i] ELSE t[i - Len(s)]
    BY ConcatProperties
  <1> HIDE DEF m, all
  <1>3. /\ a \in Seq(X) /\ Len(a) = IF n <= Len(s) THEN Len(s) - n ELSE 0
        /\ \A i \in 1 .. Len(a) : n + i \in 1 .. Len(s) /\ a[i] = s[n + i]
    BY RestFacts
  <1>4. /\ b \in Seq(X) /\ Len(b) = IF m <= Len(t) THEN Len(t) - m ELSE 0
        /\ \A i \in 1 .. Len(b) : m + i \in 1 .. Len(t) /\ b[i] = t[m + i]
    BY <1>1, RestFacts
  <1>5. /\ c \in Seq(X) /\ Len(c) = IF n <= Len(all) THEN Len(all) - n ELSE 0
        /\ \A i \in 1 .. Len(c) : n + i \in 1 .. Len(all) /\ c[i] = all[n + i]
    <2>1. all \in Seq(X)
      BY <1>2
    <2> QED
      BY <2>1, RestFacts
  <1> HIDE DEF a, b, c
  <1>6. /\ d \in Seq(X) /\ Len(d) = Len(a) + Len(b)
        /\ \A i \in 1 .. Len(a) + Len(b) : d[i] = IF i <= Len(a) THEN a[i] ELSE b[i - Len(a)]
    BY <1>3, <1>4, ConcatProperties
  <1> HIDE DEF d
  <1>7. Len(a) \in Nat /\ Len(b) \in Nat /\ Len(c) \in Nat
    BY <1>3, <1>4, <1>5, LenProperties
  <1>8. Len(c) = Len(d)
    <2>1. /\ Len(c) = IF n <= Len(s) + Len(t) THEN Len(s) + Len(t) - n ELSE 0
          /\ Len(a) = IF n <= Len(s) THEN Len(s) - n ELSE 0
          /\ Len(b) = IF m <= Len(t) THEN Len(t) - m ELSE 0
          /\ Len(d) = Len(a) + Len(b)
      BY <1>2, <1>3, <1>4, <1>5, <1>6
    <2>2. CASE n <= Len(s)
      <3>1. m = 0
        BY <2>2 DEF m
      <3> QED
        BY <1>1, <2>1, <2>2, <3>1
    <2>3. CASE ~(n <= Len(s))
      <3>1. m = n - Len(s)
        BY <2>3 DEF m
      <3> QED
        BY <1>1, <2>1, <2>3, <3>1
    <2> QED
      BY <2>2, <2>3
  <1>9. ASSUME NEW i \in 1 .. Len(c) PROVE c[i] = d[i]
    <2>1. n + i \in 1 .. Len(s) + Len(t) /\ c[i] = all[n + i] /\ i \in 1 .. Len(a) + Len(b)
      BY <1>2, <1>5, <1>6, <1>8
    <2>2. CASE i <= Len(a)
      <3>1. i \in 1 .. Len(a) /\ n + i <= Len(s)
        BY <1>3, <1>7, <2>2
      <3> QED
        BY <1>2, <1>3, <1>6, <2>1, <2>2, <3>1
    <2>3. CASE ~(i <= Len(a))
      <3>1. i - Len(a) \in 1 .. Len(b)
        BY <1>7, <2>1, <2>3
      <3>2. ~(n + i <= Len(s)) /\ n + i - Len(s) = m + (i - Len(a))
        <4>1. Len(a) = IF n <= Len(s) THEN Len(s) - n ELSE 0
          BY <1>3
        <4>2. m = IF n <= Len(s) THEN 0 ELSE n - Len(s)
          BY DEF m
        <4>3. i \in Nat /\ 1 <= i
          BY <1>7
        <4>4. i > Len(a)
          BY <1>7, <2>3, <4>3
        <4>5. CASE n <= Len(s)
          <5>1. Len(a) = Len(s) - n /\ m = 0
            BY <4>1, <4>2, <4>5
          <5> QED
            BY <1>1, <4>3, <4>4, <5>1
        <4>6. CASE ~(n <= Len(s))
          <5>1. Len(a) = 0 /\ m = n - Len(s)
            BY <4>1, <4>2, <4>6
          <5> QED
            BY <1>1, <4>3, <4>6, <5>1
        <4> QED
          BY <4>5, <4>6
      <3>3. d[i] = t[m + (i - Len(a))]
        BY <1>4, <1>6, <2>1, <2>3, <3>1
      <3> QED
        BY <1>2, <2>1, <3>2, <3>3
    <2> QED
      BY <2>2, <2>3
  <1>10. c = d
    BY <1>5, <1>6, <1>8, <1>9, SeqEqual
  <1> QED
    BY <1>10 DEF c, d, a, b, all, m

\* A page is what is left behind the pages before it, up to its size: when that
\* is as much of the beginning of the listing as fills it,
LEMMA WindowFilled ==
    ASSUME NEW X, NEW s \in Seq(X), NEW t \in Seq(X), NEW p \in Nat \ {0}, NEW size \in Nat \ {0},
           Len(t) <= Len(s), \A i \in 1 .. Len(t) : s[i] = t[i],
           NEW at, at = (p - 1) * size, size <= Len(Rest(t, at))
    PROVE  SubSeq(Rest(t, at), 1, size) = PageOf(s, p, size).items
  <1> DEFINE r == Rest(t, at)
             a == SubSeq(r, 1, size)
             items == PageOf(s, p, size).items
  <1>1. at \in Nat /\ Len(s) \in Nat /\ Len(t) \in Nat
    BY LenProperties, NextPlace
  <1>2. /\ r \in Seq(X) /\ Len(r) = IF at <= Len(t) THEN Len(t) - at ELSE 0
        /\ \A i \in 1 .. Len(r) : at + i \in 1 .. Len(t) /\ r[i] = t[at + i]
    BY <1>1, RestFacts
  <1>3. /\ items \in Seq(X)
        /\ Len(items) = IF at + size < Len(s) THEN size
                        ELSE IF at < Len(s) THEN Len(s) - at ELSE 0
        /\ \A j \in 1 .. Len(items) : at + j \in 1 .. Len(s) /\ items[j] = s[at + j]
    BY PageFacts
  <1> HIDE DEF r, items
  <1>4. a \in Seq(X) /\ Len(a) = size /\ \A i \in 1 .. size : a[i] = r[i]
    <2>1. size <= Len(r)
      BY DEF r
    <2> QED
      BY <1>2, <2>1, FirstOf
  <1>5. Len(items) = size
    <2>1. size <= Len(t) - at
      BY <1>1, <1>2 DEF r
    <2> QED
      BY <1>1, <1>3, <2>1
  <1>6. ASSUME NEW i \in 1 .. size PROVE a[i] = items[i]
    <2>1. i \in 1 .. Len(r)
      BY <1>1, <1>2 DEF r
    <2>2. at + i \in 1 .. Len(t) /\ a[i] = t[at + i] /\ items[i] = s[at + i]
      BY <1>2, <1>3, <1>4, <1>5, <2>1
    <2> QED
      BY <2>2
  <1> HIDE DEF a
  <1>7. a = items
    BY <1>3, <1>4, <1>5, <1>6, SeqEqual
  <1> QED
    BY <1>7 DEF a, items, r

\* and when it is all that is left, and no more than a page.
LEMMA WindowLast ==
    ASSUME NEW X, NEW s \in Seq(X), NEW p \in Nat \ {0}, NEW size \in Nat \ {0},
           NEW at, at = (p - 1) * size, Len(Rest(s, at)) <= size
    PROVE  Rest(s, at) = PageOf(s, p, size).items
  <1> DEFINE r == Rest(s, at)
             items == PageOf(s, p, size).items
  <1>1. at \in Nat /\ Len(s) \in Nat
    BY LenProperties, NextPlace
  <1>2. /\ r \in Seq(X) /\ Len(r) = IF at <= Len(s) THEN Len(s) - at ELSE 0
        /\ \A i \in 1 .. Len(r) : at + i \in 1 .. Len(s) /\ r[i] = s[at + i]
    BY <1>1, RestFacts
  <1>3. /\ items \in Seq(X)
        /\ Len(items) = IF at + size < Len(s) THEN size
                        ELSE IF at < Len(s) THEN Len(s) - at ELSE 0
        /\ \A j \in 1 .. Len(items) : at + j \in 1 .. Len(s) /\ items[j] = s[at + j]
    BY PageFacts
  <1>4. Len(r) <= size
    OBVIOUS
  <1> HIDE DEF r, items
  <1>5. Len(r) = Len(items)
    BY <1>1, <1>2, <1>3, <1>4
  <1>6. r = items
    BY <1>2, <1>3, <1>5, SeqEqual
  <1> QED
    BY <1>6 DEF items, r
=============================================================================
