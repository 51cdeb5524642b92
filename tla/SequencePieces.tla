--------------------------- MODULE SequencePieces ---------------------------
(* Facts about sequences that are put together from pieces, one piece per    *)
(* element of another sequence: how files are edited line by line and lists  *)
(* are filtered.  FlattenSeq is defined by recursion on the number of        *)
(* pieces; Stepwise is the induction those facts need, stated for a set.     *)
EXTENDS Integers, Sequences, SequencesExt, SequenceTheorems, WellFoundedInduction, TLAPS

(* The pieces g gives for the elements of s, one after the other.            *)
Bind(g, s) == FlattenSeq([i \in DOMAIN s |-> g[s[i]]])

-----------------------------------------------------------------------------
(* A set of numbers that has 0, and with a number the next, has them all.    *)
LEMMA Stepwise ==
  ASSUME NEW N \in Nat, NEW U \in SUBSET (0 .. N), 0 \in U,
         \A n \in 0 .. N - 1 : n \in U => n + 1 \in U
  PROVE  \A n \in 0 .. N : n \in U
<1> DEFINE V == (0 .. N) \ U
<1>1. SUFFICES ASSUME V # {} PROVE FALSE
  OBVIOUS
<1>2. V \subseteq Nat
  OBVIOUS
<1>3. PICK m \in V : \A k \in V : <<k, m>> \notin OpToRel(<, Nat)
  BY <1>1, <1>2, NatLessThanWellFounded, WFMin
<1>4. \A k \in V : ~(k < m)
  BY <1>2, <1>3 DEF OpToRel
<1>5. m # 0
  OBVIOUS
<1>6. m - 1 \in 0 .. N - 1 /\ m - 1 \in U
  BY <1>4, <1>5
<1> QED  BY <1>6

(* Of some positions one is the last.                                       *)
LEMMA Greatest ==
  ASSUME NEW n \in Nat, NEW S \in SUBSET (1 .. n), S # {}
  PROVE  \E i \in S : \A j \in S : j <= i
<1> DEFINE U == {m \in Nat : \A j \in S : j <= m}
<1>1. n \in U
  OBVIOUS
<1>2. PICK m \in U : \A k \in U : <<k, m>> \notin OpToRel(<, Nat)
  BY <1>1, NatLessThanWellFounded, WFMin
<1>3. \A k \in U : ~(k < m)
  BY <1>2 DEF OpToRel
<1>4. m \in S
  <2>1. SUFFICES ASSUME m \notin S PROVE FALSE
    OBVIOUS
  <2>2. PICK j \in S : TRUE
    OBVIOUS
  <2>3. m - 1 \in U
    BY <2>1, <2>2
  <2> QED  BY <1>3, <2>3
<1> QED  BY <1>4

(* Of some numbers one is the least.                                       *)
LEMMA LeastOf ==
  ASSUME NEW S \in SUBSET Nat, S # {}
  PROVE  \E m \in S : \A k \in S : m <= k
<1>1. PICK m \in S : \A k \in S : <<k, m>> \notin OpToRel(<, Nat)
  BY NatLessThanWellFounded, WFMin
<1>2. \A k \in S : ~(k < m)
  BY <1>1 DEF OpToRel
<1> QED  BY <1>2

(* The recursion of FlattenSeq, from no piece to all of them.                *)
Grows(out, p, N) ==
  /\ out[0] = <<>> /\ out[N] = FlattenSeq(p)
  /\ \A n \in 0 .. N - 1 : out[n + 1] = out[n] \o p[n + 1]

LEMMA FlattenEmpty == FlattenSeq(<<>>) = <<>>
BY DEF FlattenSeq

LEMMA FlattenSteps ==
  ASSUME NEW S, NEW p \in Seq(Seq(S))
  PROVE  \E out \in [0 .. Len(p) -> Seq(S)] : Grows(out, p, Len(p))
<1>0. PICK N \in Nat : N = Len(p) /\ \A i \in 1 .. N : p[i] \in Seq(S)
  OBVIOUS
<1> DEFINE Upto(n, g) == g[0] = <<>> /\ \A i \in Nat : i < n => g[i + 1] = g[i] \o p[i + 1]
<1> DEFINE Has(n) == \E g \in [0 .. n -> Seq(S)] : Upto(n, g)
<1> DEFINE U == {n \in 0 .. N : Has(n)}
<1>1. 0 \in U
  <2>1. PICK g : g = [i \in 0 .. 0 |-> <<>>]
    OBVIOUS
  <2>2. g \in [0 .. 0 -> Seq(S)] /\ Upto(0, g)
    <3>1. \A i \in Nat : ~(i < 0)
      OBVIOUS
    <3>2. g \in [0 .. 0 -> Seq(S)] /\ g[0] = <<>>
      BY <2>1
    <3> QED  BY <3>1, <3>2
  <2>3. Has(0)
    BY <2>2
  <2> HIDE DEF Has
  <2> QED  BY <2>3
<1>2. ASSUME NEW n \in 0 .. N - 1, n \in U PROVE n + 1 \in U
  <2>1. PICK g \in [0 .. n -> Seq(S)] : Upto(n, g)
    BY <1>2
  <2>2. PICK x \in Seq(S) : x = g[n] \o p[n + 1]
    <3>1. p[n + 1] \in Seq(S) /\ g[n] \in Seq(S)
      BY <1>0
    <3>2. g[n] \o p[n + 1] \in Seq(S)
      BY <3>1
    <3> QED  BY <3>2
  <2>3. PICK h : h = [i \in 0 .. n + 1 |-> IF i = n + 1 THEN x ELSE g[i]]
    OBVIOUS
  <2>4. h \in [0 .. n + 1 -> Seq(S)]
    <3>1. \A i \in 0 .. n + 1 : i = n + 1 \/ i \in 0 .. n
      OBVIOUS
    <3> QED  BY <2>2, <2>3, <3>1
  <2>5. h[0] = <<>>
    BY <2>1, <2>3
  <2>6. ASSUME NEW i \in Nat, i < n + 1 PROVE h[i + 1] = h[i] \o p[i + 1]
    <3>1. i \in 0 .. n + 1 /\ i + 1 \in 0 .. n + 1 /\ i # n + 1
      BY <2>6
    <3>2. h[i] = g[i] /\ h[i + 1] = IF i = n THEN x ELSE g[i + 1]
      BY <2>3, <3>1
    <3>3. i # n => i < n
      BY <2>6
    <3> QED  BY <2>1, <2>2, <3>2, <3>3
  <2>7. Has(n + 1)
    BY <2>4, <2>5, <2>6
  <2> HIDE DEF Has
  <2> QED  BY <2>7
<1>3. PICK g \in [0 .. N -> Seq(S)] : Upto(N, g)
  <2>1. U \in SUBSET (0 .. N)
    OBVIOUS
  <2> HIDE DEF U
  <2>2. \A n \in 0 .. N : n \in U
    BY <1>1, <1>2, <2>1, Stepwise
  <2>3. N \in U
    BY <2>2
  <2> QED  BY <2>3 DEF U
<1>4. CASE N = 0
  <2>1. \A s \in Seq(Seq(S)) : Len(s) = 0 => s = <<>>
    OBVIOUS
  <2>2. p = <<>>
    BY <1>0, <1>4, <2>1
  <2>3. g[0] = <<>>
    BY <1>3
  <2> QED  BY <1>0, <1>3, <1>4, <2>2, <2>3, FlattenEmpty DEF Grows
<1>5. CASE N # 0
  <2> DEFINE IsFlat(f) == f = [i \in 1 .. Len(p) |-> IF i = 1 THEN p[i] ELSE f[i - 1] \o p[i]]
  <2>1. \E f : IsFlat(f)
    <3>1. PICK f : f = [i \in 1 .. N |-> g[i]]
      OBVIOUS
    <3>2. ASSUME NEW i \in 1 .. N PROVE f[i] = IF i = 1 THEN p[i] ELSE f[i - 1] \o p[i]
      <4>1. i - 1 \in Nat /\ i - 1 < N /\ i - 1 + 1 = i
        OBVIOUS
      <4>2. g[i] = g[i - 1] \o p[i]
        BY <1>3, <4>1
      <4>3. CASE i = 1
        <5>1. g[i - 1] = <<>> /\ p[i] \in Seq(S)
          BY <1>0, <1>3, <4>3
        <5>2. \A q \in Seq(S) : <<>> \o q = q
          OBVIOUS
        <5> QED  BY <3>1, <4>2, <4>3, <5>1, <5>2
      <4>4. CASE i # 1
        <5>1. i - 1 \in 1 .. N
          BY <4>4
        <5> QED  BY <3>1, <4>2, <4>4, <5>1
      <4> QED  BY <4>3, <4>4
    <3>3. IsFlat(f)
      BY <1>0, <3>1, <3>2
    <3> HIDE DEF IsFlat
    <3> QED  BY <3>3
  <2>2. PICK f : f = CHOOSE x : IsFlat(x)
    OBVIOUS
  <2>3. IsFlat(f)
    <3> HIDE DEF IsFlat
    <3> QED  BY <2>1, <2>2
  <2>4. FlattenSeq(p) = f[N]
    BY <1>0, <1>5, <2>2 DEF FlattenSeq
  <2>5. \A i \in 1 .. N : f[i] = IF i = 1 THEN p[i] ELSE f[i - 1] \o p[i]
    BY <1>0, <2>3
  <2> HIDE DEF IsFlat
  <2> DEFINE V == {n \in 0 .. N : n = 0 \/ f[n] = g[n]}
  <2>6. ASSUME NEW n \in 0 .. N - 1, n \in V PROVE n + 1 \in V
    <3>1. n + 1 \in 1 .. N /\ n + 1 - 1 = n
      OBVIOUS
    <3>2. f[n + 1] = IF n = 0 THEN p[n + 1] ELSE f[n] \o p[n + 1]
      BY <2>5, <3>1
    <3>3. g[n + 1] = g[n] \o p[n + 1] /\ g[0] = <<>>
      <4>1. n \in Nat /\ n < N
        OBVIOUS
      <4> QED  BY <1>3, <4>1
    <3>4. CASE n = 0
      <4>1. \A q \in Seq(S) : <<>> \o q = q
        OBVIOUS
      <4>2. p[n + 1] \in Seq(S)
        BY <1>0, <3>1
      <4>3. f[n + 1] = p[n + 1]
        BY <3>2, <3>4
      <4>4. g[n + 1] = <<>> \o p[n + 1]
        BY <3>3, <3>4
      <4>5. f[n + 1] = g[n + 1]
        BY <4>1, <4>2, <4>3, <4>4
      <4> QED  BY <3>1, <4>5
    <3>5. CASE n # 0
      <4>1. f[n] = g[n]
        BY <2>6, <3>5
      <4>2. f[n + 1] = g[n + 1]
        BY <3>2, <3>3, <3>5, <4>1
      <4> QED  BY <3>1, <4>2
    <3> QED  BY <3>4, <3>5
  <2>7. N \in V
    <3>1. V \in SUBSET (0 .. N) /\ 0 \in V
      OBVIOUS
    <3> HIDE DEF V
    <3>2. \A n \in 0 .. N : n \in V
      BY <2>6, <3>1, Stepwise
    <3> QED  BY <3>2
  <2>8. Grows(g, p, N)
    <3>1. \A n \in 0 .. N - 1 : n \in Nat /\ n < N
      OBVIOUS
    <3>2. g[0] = <<>> /\ \A n \in 0 .. N - 1 : g[n + 1] = g[n] \o p[n + 1]
      BY <1>3, <3>1
    <3>3. g[N] = FlattenSeq(p)
      BY <1>5, <2>4, <2>7
    <3> QED  BY <3>2, <3>3 DEF Grows
  <2> QED  BY <1>0, <1>3, <2>8
<1> QED  BY <1>4, <1>5

LEMMA CatAssociates ==
  ASSUME NEW S, NEW x \in Seq(S), NEW y \in Seq(S), NEW z \in Seq(S)
  PROVE  (x \o y) \o z = x \o (y \o z)
OBVIOUS

LEMMA CatIndices ==
  ASSUME NEW S, NEW s \in Seq(S), NEW t \in Seq(S)
  PROVE  /\ s \o t \in Seq(S) /\ Len(s \o t) = Len(s) + Len(t)
         /\ DOMAIN (s \o t) = 1 .. Len(s) + Len(t)
         /\ \A i \in 1 .. Len(s) + Len(t) :
              (s \o t)[i] = IF i <= Len(s) THEN s[i] ELSE t[i - Len(s)]
         /\ s \o t = [i \in 1 .. Len(s) + Len(t) |-> (s \o t)[i]]
<1>1. /\ s \o t \in Seq(S) /\ Len(s \o t) = Len(s) + Len(t)
      /\ DOMAIN (s \o t) = 1 .. Len(s) + Len(t)
  OBVIOUS
<1>2. \A i \in 1 .. Len(s) + Len(t) :
        (s \o t)[i] = IF i <= Len(s) THEN s[i] ELSE t[i - Len(s)]
  OBVIOUS
<1>3. \A r \in Seq(S) : r = [i \in DOMAIN r |-> r[i]]
  OBVIOUS
<1> QED  BY <1>1, <1>2, <1>3

(* Where the elements of a concatenation come from.                          *)
LEMMA CatPlaces ==
  ASSUME NEW S, NEW s \in Seq(S), NEW t \in Seq(S)
  PROVE  /\ s \o t \in Seq(S) /\ Len(s) \in Nat
         /\ \A i \in DOMAIN s : i \in DOMAIN (s \o t) /\ (s \o t)[i] = s[i]
         /\ \A m \in DOMAIN t : Len(s) + m \in DOMAIN (s \o t) /\ (s \o t)[Len(s) + m] = t[m]
         /\ \A i \in DOMAIN (s \o t) :
              i \in DOMAIN s \/ \E m \in DOMAIN t : i = Len(s) + m
<1>1. /\ s \o t \in Seq(S) /\ DOMAIN s = 1 .. Len(s) /\ DOMAIN t = 1 .. Len(t)
      /\ DOMAIN (s \o t) = 1 .. Len(s) + Len(t) /\ Len(s) \in Nat /\ Len(t) \in Nat
  OBVIOUS
<1>2. \A i \in DOMAIN s : i \in DOMAIN (s \o t) /\ (s \o t)[i] = s[i]
  BY <1>1
<1>3. ASSUME NEW m \in DOMAIN t
      PROVE  Len(s) + m \in DOMAIN (s \o t) /\ (s \o t)[Len(s) + m] = t[m]
  BY <1>1
<1>4. ASSUME NEW i \in DOMAIN (s \o t), i \notin DOMAIN s
      PROVE  i - Len(s) \in DOMAIN t /\ i = Len(s) + (i - Len(s))
  BY <1>1, <1>4
<1> QED  BY <1>1, <1>2, <1>3, <1>4

(* The elements of a concatenation, and when none is there twice.            *)
NoRepeats(s) == \A i, j \in DOMAIN s : s[i] = s[j] => i = j

LEMMA CatElements ==
  ASSUME NEW S, NEW s \in Seq(S), NEW t \in Seq(S)
  PROVE  /\ s \o t \in Seq(S) /\ ToSet(s \o t) = ToSet(s) \cup ToSet(t)
         /\ NoRepeats(s) /\ NoRepeats(t) /\ ToSet(s) \cap ToSet(t) = {} => NoRepeats(s \o t)
<1>1. PICK r : r = s \o t
  OBVIOUS
<1>2. /\ r \in Seq(S) /\ Len(s) \in Nat
      /\ \A i \in DOMAIN s : i \in DOMAIN r /\ r[i] = s[i]
      /\ \A m \in DOMAIN t : Len(s) + m \in DOMAIN r /\ r[Len(s) + m] = t[m]
      /\ \A i \in DOMAIN r : i \in DOMAIN s \/ \E m \in DOMAIN t : i = Len(s) + m
  BY <1>1, CatPlaces
<1>3. ToSet(r) = ToSet(s) \cup ToSet(t)
  BY <1>2 DEF ToSet
<1>0. ASSUME ToSet(s) \cap ToSet(t) = {}, NEW i \in DOMAIN s, NEW m \in DOMAIN t
      PROVE  s[i] # t[m]
  BY <1>0 DEF ToSet
<1>4. ASSUME NoRepeats(s), NoRepeats(t), ToSet(s) \cap ToSet(t) = {} PROVE NoRepeats(r)
  <2> SUFFICES ASSUME NEW i \in DOMAIN r, NEW j \in DOMAIN r, r[i] = r[j] PROVE i = j
    BY DEF NoRepeats
  <2>1. CASE i \in DOMAIN s
    <3>1. ~\E m \in DOMAIN t : j = Len(s) + m
      BY <1>0, <1>2, <1>4, <2>1
    <3> QED  BY <1>2, <1>4, <2>1, <3>1 DEF NoRepeats
  <2>2. CASE \E m \in DOMAIN t : i = Len(s) + m
    <3>1. j \notin DOMAIN s
      BY <1>0, <1>2, <1>4, <2>2
    <3> QED  BY <1>2, <1>4, <2>2, <3>1 DEF NoRepeats
  <2> QED  BY <1>2, <2>1, <2>2
<1> QED  BY <1>1, <1>2, <1>3, <1>4

(* The piece q lies in s after its first d elements.                         *)
LiesAt(q, d, s) == \A m \in DOMAIN q : d + m \in DOMAIN s /\ s[d + m] = q[m]

(* The element i of s belongs to one of the pieces.                          *)
InPiece(i, p, s) ==
  \E k \in DOMAIN p : \E d \in Nat : \E j \in DOMAIN p[k] : i = d + j /\ LiesAt(p[k], d, s)

LEMMA FlattenPlaces ==
  ASSUME NEW S, NEW p \in Seq(Seq(S))
  PROVE  /\ FlattenSeq(p) \in Seq(S)
         /\ \A i \in DOMAIN FlattenSeq(p) : InPiece(i, p, FlattenSeq(p))
         /\ \A k \in DOMAIN p : \E d \in Nat : LiesAt(p[k], d, FlattenSeq(p))
<1>1. PICK N \in Nat : N = Len(p) /\ DOMAIN p = 1 .. N /\ \A k \in 1 .. N : p[k] \in Seq(S)
  OBVIOUS
<1>2. PICK out \in [0 .. N -> Seq(S)] : Grows(out, p, N)
  BY <1>1, FlattenSteps
<1> DEFINE Placed(n) == /\ \A i \in DOMAIN out[n] : InPiece(i, p, out[n])
                        /\ \A k \in 1 .. N : k <= n => \E d \in Nat : LiesAt(p[k], d, out[n])
           U == {n \in 0 .. N : Placed(n)}
<1>3. 0 \in U
  <2>1. out[0] = <<>>
    BY <1>2 DEF Grows
  <2>2. Placed(0)
    BY <2>1
  <2> HIDE DEF Placed
  <2> QED  BY <2>2
<1>4. ASSUME NEW n \in 0 .. N - 1, n \in U PROVE n + 1 \in U
  <2>1. n + 1 \in 1 .. N /\ n \in 0 .. N
    OBVIOUS
  <2>2. PICK s \in Seq(S) : s = out[n]
    BY <2>1
  <2>3. PICK t \in Seq(S) : t = p[n + 1]
    BY <1>1, <2>1
  <2>4. PICK r : r = s \o t
    OBVIOUS
  <2>5. out[n + 1] = r
    BY <1>2, <2>2, <2>3, <2>4 DEF Grows
  <2>6. /\ Len(s) \in Nat
        /\ \A i \in DOMAIN s : i \in DOMAIN r /\ r[i] = s[i]
        /\ \A m \in DOMAIN t : Len(s) + m \in DOMAIN r /\ r[Len(s) + m] = t[m]
        /\ \A i \in DOMAIN r : i \in DOMAIN s \/ \E m \in DOMAIN t : i = Len(s) + m
    BY <2>4, CatPlaces
  <2>7. ASSUME NEW q, NEW d, LiesAt(q, d, s) PROVE LiesAt(q, d, r)
    BY <2>6, <2>7 DEF LiesAt
  <2>8. LiesAt(p[n + 1], Len(s), r)
    BY <2>3, <2>6 DEF LiesAt
  <2>9. ASSUME NEW i \in DOMAIN r PROVE InPiece(i, p, r)
    <3>1. CASE i \in DOMAIN s
      <4>1. InPiece(i, p, s)
        BY <1>4, <2>2, <3>1
      <4> QED  BY <2>7, <4>1 DEF InPiece
    <3>2. CASE \E m \in DOMAIN t : i = Len(s) + m
      <4>1. PICK m \in DOMAIN p[n + 1] : i = Len(s) + m
        BY <2>3, <3>2
      <4>2. n + 1 \in DOMAIN p /\ Len(s) \in Nat
        BY <1>1, <2>1, <2>6
      <4> QED  BY <2>8, <4>1, <4>2 DEF InPiece
    <3> QED  BY <2>6, <3>1, <3>2
  <2>10. ASSUME NEW k \in 1 .. N, k <= n + 1 PROVE \E d \in Nat : LiesAt(p[k], d, r)
    <3>1. CASE k = n + 1
      BY <2>6, <2>8, <3>1
    <3>2. CASE k <= n
      <4>1. PICK d \in Nat : LiesAt(p[k], d, s)
        BY <1>4, <2>2, <3>2
      <4> QED  BY <2>7, <4>1
    <3> QED  BY <2>10, <3>1, <3>2
  <2>11. Placed(n + 1)
    BY <2>5, <2>9, <2>10
  <2> HIDE DEF Placed
  <2> QED  BY <2>1, <2>11
<1>5. Placed(N)
  <2>1. U \in SUBSET (0 .. N)
    OBVIOUS
  <2> HIDE DEF U
  <2>2. \A n \in 0 .. N : n \in U
    BY <1>3, <1>4, <2>1, Stepwise
  <2>3. N \in U
    BY <2>2
  <2> QED  BY <2>3 DEF U
<1>6. out[N] = FlattenSeq(p) /\ out[N] \in Seq(S)
  BY <1>2 DEF Grows
<1>7. \A k \in 1 .. N : k <= N
  OBVIOUS
<1> HIDE DEF U
<1> QED  BY <1>1, <1>5, <1>6, <1>7

(* The recursion has one result.                                             *)
LEMMA FlattenIs ==
  ASSUME NEW S, NEW p \in Seq(Seq(S)), NEW g, g[0] = <<>>,
         \A n \in 0 .. Len(p) - 1 : g[n + 1] = g[n] \o p[n + 1]
  PROVE  g[Len(p)] = FlattenSeq(p)
<1>1. PICK N \in Nat : N = Len(p)
  OBVIOUS
<1>2. PICK out \in [0 .. N -> Seq(S)] : Grows(out, p, N)
  BY <1>1, FlattenSteps
<1> DEFINE U == {n \in 0 .. N : g[n] = out[n]}
<1>3. 0 \in U
  BY <1>2 DEF Grows
<1>4. ASSUME NEW n \in 0 .. N - 1, n \in U PROVE n + 1 \in U
  <2>1. n + 1 \in 0 .. N
    OBVIOUS
  <2>2. g[n + 1] = g[n] \o p[n + 1] /\ out[n + 1] = out[n] \o p[n + 1]
    BY <1>1, <1>2 DEF Grows
  <2>3. g[n + 1] = out[n + 1]
    BY <1>4, <2>2
  <2> QED  BY <2>1, <2>3
<1>5. N \in U
  <2>1. U \in SUBSET (0 .. N)
    OBVIOUS
  <2> HIDE DEF U
  <2>2. \A n \in 0 .. N : n \in U
    BY <1>3, <1>4, <2>1, Stepwise
  <2> QED  BY <2>2
<1> QED  BY <1>1, <1>2, <1>5 DEF Grows

LEMMA FlattenCat ==
  ASSUME NEW S, NEW p \in Seq(Seq(S)), NEW q \in Seq(Seq(S))
  PROVE  FlattenSeq(p \o q) = FlattenSeq(p) \o FlattenSeq(q)
<1>0. ASSUME NEW x \in Seq(S), NEW y \in Seq(S), NEW z \in Seq(S)
      PROVE  (x \o y) \o z = x \o (y \o z)
  BY CatAssociates
<1>1. PICK N \in Nat : N = Len(p) /\ DOMAIN p = 1 .. N
  OBVIOUS
<1>2. PICK M \in Nat : M = Len(q) /\ DOMAIN q = 1 .. M /\ \A m \in 1 .. M : q[m] \in Seq(S)
  OBVIOUS
<1>3. PICK a \in [0 .. N -> Seq(S)] : Grows(a, p, N)
  BY <1>1, FlattenSteps
<1>4. PICK b \in [0 .. M -> Seq(S)] : Grows(b, q, M)
  BY <1>2, FlattenSteps
<1>5. PICK r \in Seq(Seq(S)) : r = p \o q
  <2>1. p \o q \in Seq(Seq(S))
    OBVIOUS
  <2> QED  BY <2>1
<1>6. /\ Len(r) = N + M
      /\ \A n \in 1 .. N : r[n] = p[n]
      /\ \A m \in 1 .. M : r[N + m] = q[m]
  BY <1>1, <1>2, <1>5
<1>7. PICK g : g = [n \in 0 .. N + M |-> IF n <= N THEN a[n] ELSE a[N] \o b[n - N]]
  OBVIOUS
<1>8. a[N] \in Seq(S) /\ a[N] = FlattenSeq(p) /\ b[M] = FlattenSeq(q) /\ b[M] \in Seq(S)
      /\ a[0] = <<>> /\ b[0] = <<>>
  BY <1>3, <1>4 DEF Grows
<1>9. \A m \in 0 .. M : g[N + m] = a[N] \o b[m]
  <2>1. ASSUME NEW m \in 0 .. M PROVE g[N + m] = a[N] \o b[m]
    <3>1. CASE m = 0
      <4>1. g[N + m] = a[N] /\ b[m] = <<>>
        BY <1>7, <1>8, <3>1
      <4>2. \A x \in Seq(S) : x \o <<>> = x
        OBVIOUS
      <4> QED  BY <1>8, <4>1, <4>2
    <3>2. CASE m # 0
      <4>1. N + m \in 0 .. N + M /\ ~(N + m <= N) /\ N + m - N = m
        BY <3>2
      <4> QED  BY <1>7, <4>1
    <3> QED  BY <3>1, <3>2
  <2> QED  BY <2>1
<1>10. \A n \in 0 .. N : g[n] = a[n]
  <2>1. \A n \in 0 .. N : n \in 0 .. N + M /\ n <= N
    OBVIOUS
  <2> QED  BY <1>7, <2>1
<1>11. ASSUME NEW n \in 0 .. N + M - 1 PROVE g[n + 1] = g[n] \o r[n + 1]
  <2>1. CASE n < N
    <3>1. n \in 0 .. N /\ n + 1 \in 0 .. N /\ n \in 0 .. N - 1 /\ n + 1 \in 1 .. N
      BY <2>1
    <3>2. a[n + 1] = a[n] \o p[n + 1]
      BY <1>3, <3>1 DEF Grows
    <3> QED  BY <1>6, <1>10, <3>1, <3>2
  <2>2. CASE n >= N
    <3>1. PICK m \in 0 .. M - 1 : n = N + m
      <4>1. n - N \in 0 .. M - 1 /\ n = N + (n - N)
        BY <2>2
      <4> QED  BY <4>1
    <3>2. m \in 0 .. M /\ m + 1 \in 0 .. M /\ m + 1 \in 1 .. M /\ n + 1 = N + (m + 1)
      BY <3>1
    <3>3. b[m + 1] = b[m] \o q[m + 1]
      BY <1>4, <3>1 DEF Grows
    <3>4. g[n + 1] = a[N] \o b[m + 1] /\ g[n] = a[N] \o b[m] /\ r[n + 1] = q[m + 1]
      BY <1>6, <1>9, <3>1, <3>2
    <3>5. b[m] \in Seq(S) /\ q[m + 1] \in Seq(S)
      BY <1>2, <3>2
    <3>6. a[N] \o (b[m] \o q[m + 1]) = (a[N] \o b[m]) \o q[m + 1]
      <4>1. PICK x \in Seq(S), y \in Seq(S), z \in Seq(S) :
              x = a[N] /\ y = b[m] /\ z = q[m + 1]
        BY <1>8, <3>5
      <4>2. (x \o y) \o z = x \o (y \o z)
        BY <1>0
      <4> QED  BY <4>1, <4>2
    <3> QED  BY <3>3, <3>4, <3>6
  <2>3. n < N \/ n >= N
    OBVIOUS
  <2> QED  BY <2>1, <2>2, <2>3
<1>12. g[0] = <<>>
  BY <1>8, <1>10
<1>13. g[N + M] = FlattenSeq(r)
  <2>0. Len(r) = N + M
    BY <1>6
  <2>1. \A n \in 0 .. Len(r) - 1 : g[n + 1] = g[n] \o r[n + 1]
    <3>1. 0 .. Len(r) - 1 = 0 .. N + M - 1
      BY <2>0
    <3> QED  BY <1>11, <3>1
  <2>2. g[Len(r)] = FlattenSeq(r)
    BY <1>12, <2>1, FlattenIs
  <2> QED  BY <1>6, <2>2
<1>14. g[N + M] = a[N] \o b[M]
  BY <1>9
<1> QED  BY <1>5, <1>8, <1>13, <1>14

LEMMA FlattenOne ==
  ASSUME NEW S, NEW s \in Seq(S)
  PROVE  FlattenSeq(<<s>>) = s
<1>1. PICK out \in [0 .. 1 -> Seq(S)] : Grows(out, <<s>>, 1)
  <2>1. <<s>> \in Seq(Seq(S)) /\ Len(<<s>>) = 1
    OBVIOUS
  <2> QED  BY <2>1, FlattenSteps
<1>2. out[0] = <<>> /\ out[0 + 1] = out[0] \o <<s>>[0 + 1] /\ out[1] = FlattenSeq(<<s>>)
  <2>1. 0 \in 0 .. 1 - 1
    OBVIOUS
  <2> QED  BY <1>1, <2>1 DEF Grows
<1>3. \A x \in Seq(S) : <<>> \o x = x
  OBVIOUS
<1> QED  BY <1>2, <1>3

-----------------------------------------------------------------------------
(* Bind: one piece per element.                                              *)
LEMMA BindPieces ==
  ASSUME NEW S, NEW T, NEW g \in [S -> Seq(T)], NEW s \in Seq(S)
  PROVE  [i \in DOMAIN s |-> g[s[i]]] \in Seq(Seq(T)) /\ Bind(g, s) \in Seq(T)
<1>1. PICK p : p = [i \in DOMAIN s |-> g[s[i]]]
  OBVIOUS
<1>2. PICK N \in Nat : DOMAIN s = 1 .. N /\ \A i \in 1 .. N : s[i] \in S
  OBVIOUS
<1>3. p \in [1 .. N -> Seq(T)]
  BY <1>1, <1>2
<1>4. p \in Seq(Seq(T))
  BY <1>2, <1>3
<1>5. FlattenSeq(p) \in Seq(T)
  BY <1>4, FlattenPlaces
<1> QED  BY <1>1, <1>4, <1>5 DEF Bind

LEMMA BindEmpty ==
  ASSUME NEW g
  PROVE  Bind(g, <<>>) = <<>>
<1>1. [i \in DOMAIN <<>> |-> g[<<>>[i]]] = <<>>
  OBVIOUS
<1> QED  BY <1>1, FlattenEmpty DEF Bind

LEMMA BindOne ==
  ASSUME NEW S, NEW T, NEW g \in [S -> Seq(T)], NEW x \in S
  PROVE  Bind(g, <<x>>) = g[x]
<1>1. PICK p : p = [i \in DOMAIN <<x>> |-> g[<<x>>[i]]]
  OBVIOUS
<1>2. p = <<g[x]>>
  <2>1. p = [i \in 1 .. 1 |-> g[x]]
    BY <1>1
  <2>2. <<g[x]>> = [i \in 1 .. 1 |-> g[x]]
    OBVIOUS
  <2> QED  BY <2>1, <2>2
<1>3. FlattenSeq(<<g[x]>>) = g[x]
  BY FlattenOne
<1> QED  BY <1>1, <1>2, <1>3 DEF Bind

LEMMA BindCat ==
  ASSUME NEW S, NEW T, NEW g \in [S -> Seq(T)], NEW s \in Seq(S), NEW t \in Seq(S)
  PROVE  Bind(g, s \o t) = Bind(g, s) \o Bind(g, t)
<1>0. ASSUME NEW x \in Seq(Seq(T)), NEW y \in Seq(Seq(T))
      PROVE  /\ x \o y \in Seq(Seq(T)) /\ Len(x \o y) = Len(x) + Len(y)
             /\ \A i \in 1 .. Len(x) + Len(y) :
                  (x \o y)[i] = IF i <= Len(x) THEN x[i] ELSE y[i - Len(x)]
             /\ x \o y = [i \in 1 .. Len(x) + Len(y) |-> (x \o y)[i]]
  BY CatIndices
<1>a. \A i \in 1 .. Len(s) + Len(t) : (s \o t)[i] = IF i <= Len(s) THEN s[i] ELSE t[i - Len(s)]
  BY CatIndices
<1>1. PICK p : p = [i \in DOMAIN s |-> g[s[i]]]
  OBVIOUS
<1>2. PICK q : q = [i \in DOMAIN t |-> g[t[i]]]
  OBVIOUS
<1>3. PICK r : r = [i \in DOMAIN (s \o t) |-> g[(s \o t)[i]]]
  OBVIOUS
<1>4. p \in Seq(Seq(T)) /\ q \in Seq(Seq(T))
  <2>1. [i \in DOMAIN s |-> g[s[i]]] \in Seq(Seq(T))
    BY BindPieces
  <2>2. [i \in DOMAIN t |-> g[t[i]]] \in Seq(Seq(T))
    BY BindPieces
  <2> QED  BY <1>1, <1>2, <2>1, <2>2
<1>5. PICK N \in Nat : N = Len(s) /\ DOMAIN s = 1 .. N /\ N = Len(p)
  <2>1. DOMAIN p = 1 .. Len(s)
    BY <1>1
  <2>2. Len(p) = Len(s)
    BY <1>4, <2>1
  <2> QED  BY <2>2
<1>6. PICK M \in Nat : M = Len(t) /\ DOMAIN t = 1 .. M /\ M = Len(q)
  <2>1. DOMAIN q = 1 .. Len(t)
    BY <1>2
  <2>2. Len(q) = Len(t)
    BY <1>4, <2>1
  <2> QED  BY <2>2
<1>7. DOMAIN (s \o t) = 1 .. N + M
  <2>1. DOMAIN (s \o t) = 1 .. Len(s) + Len(t)
    BY CatIndices
  <2> QED  BY <1>5, <1>6, <2>1
<1>8. \A i \in 1 .. N + M : (s \o t)[i] = IF i <= N THEN s[i] ELSE t[i - N]
  BY <1>5, <1>6, <1>a
<1>9. /\ p \o q \in Seq(Seq(T)) /\ Len(p \o q) = N + M
      /\ \A i \in 1 .. N + M : (p \o q)[i] = IF i <= N THEN p[i] ELSE q[i - N]
  BY <1>4, <1>5, <1>6, <1>0
<1>10. p \o q = [i \in 1 .. N + M |-> (p \o q)[i]]
  BY <1>4, <1>5, <1>6, <1>0
<1>11. ASSUME NEW i \in 1 .. N + M PROVE r[i] = (p \o q)[i]
  <2>1. r[i] = g[(s \o t)[i]]
    BY <1>3, <1>7
  <2>2. CASE i <= N
    <3>1. i \in 1 .. N
      BY <2>2
    <3> QED  BY <1>1, <1>5, <1>8, <1>9, <2>1, <2>2, <3>1
  <2>3. CASE ~(i <= N)
    <3>1. i - N \in 1 .. M
      BY <2>3
    <3>2. (s \o t)[i] = t[i - N] /\ (p \o q)[i] = q[i - N]
      BY <1>8, <1>9, <2>3
    <3> QED  BY <1>2, <1>6, <2>1, <3>1, <3>2
  <2> QED  BY <2>2, <2>3
<1>12. r = p \o q
  <2>1. r = [i \in 1 .. N + M |-> r[i]]
    BY <1>3, <1>7
  <2> QED  BY <1>10, <1>11, <2>1
<1>13. FlattenSeq(p \o q) = FlattenSeq(p) \o FlattenSeq(q)
  BY <1>4, FlattenCat
<1> QED  BY <1>1, <1>2, <1>3, <1>12, <1>13 DEF Bind

(* Two passes over a file are one pass whose pieces are already edited: k    *)
(* gives what g makes of the pieces of h.                                    *)
Composed(R, S, T, g, h, k) ==
  /\ g \in [S -> Seq(T)] /\ h \in [R -> Seq(S)] /\ k \in [R -> Seq(T)]
  /\ \A x \in R : k[x] = Bind(g, h[x])

LEMMA BindBind ==
  ASSUME NEW R, NEW S, NEW T, NEW g, NEW h, NEW k, Composed(R, S, T, g, h, k)
  PROVE  \A s \in Seq(R) : Bind(g, Bind(h, s)) = Bind(k, s)
<1>a. /\ g \in [S -> Seq(T)] /\ h \in [R -> Seq(S)] /\ k \in [R -> Seq(T)]
      /\ \A x \in R : k[x] = Bind(g, h[x])
  BY DEF Composed
<1>0. \A x \in Seq(S), y \in Seq(S) : Bind(g, x \o y) = Bind(g, x) \o Bind(g, y)
  <2>1. \A f \in [S -> Seq(T)] : \A x \in Seq(S), y \in Seq(S) :
          Bind(f, x \o y) = Bind(f, x) \o Bind(f, y)
    BY BindCat
  <2> QED  BY <1>a, <2>1
<1> SUFFICES ASSUME NEW s \in Seq(R) PROVE Bind(g, Bind(h, s)) = Bind(k, s)
  OBVIOUS
<1>2. PICK N \in Nat : N = Len(s) /\ DOMAIN s = 1 .. N /\ \A i \in 1 .. N : s[i] \in R
  OBVIOUS
<1>1. PICK p \in Seq(Seq(S)) : p = [i \in DOMAIN s |-> h[s[i]]]
  <2>1. PICK p : p = [i \in DOMAIN s |-> h[s[i]]]
    OBVIOUS
  <2>2. p \in [1 .. N -> Seq(S)]
    BY <1>a, <1>2, <2>1
  <2>3. p \in Seq(Seq(S))
    BY <2>2
  <2> QED  BY <2>1, <2>3
<1>3. Len(p) = N
  <2>1. DOMAIN p = 1 .. N
    BY <1>1, <1>2
  <2> QED  BY <2>1
<1>4. PICK out \in [0 .. N -> Seq(S)] : Grows(out, p, N)
  BY <1>3, FlattenSteps
<1>7. PICK q \in Seq(Seq(T)) : q = [i \in DOMAIN s |-> k[s[i]]]
  <2>1. PICK q : q = [i \in DOMAIN s |-> k[s[i]]]
    OBVIOUS
  <2>2. q \in [1 .. N -> Seq(T)]
    BY <1>a, <1>2, <2>1
  <2>3. q \in Seq(Seq(T))
    BY <2>2
  <2> QED  BY <2>1, <2>3
<1>8. Len(q) = N
  <2>1. DOMAIN q = 1 .. N
    BY <1>2, <1>7
  <2> QED  BY <2>1
<1>9. PICK f : f = [n \in 0 .. N |-> Bind(g, out[n])]
  OBVIOUS
<1>10. f[0] = <<>>
  <2>1. out[0] = <<>>
    BY <1>4 DEF Grows
  <2> QED  BY <1>9, <2>1, BindEmpty
<1>11. ASSUME NEW n \in 0 .. N - 1 PROVE f[n + 1] = f[n] \o q[n + 1]
  <2>1. n + 1 \in 1 .. N /\ n + 1 \in 0 .. N /\ n \in 0 .. N
    OBVIOUS
  <2>2. out[n + 1] = out[n] \o p[n + 1]
    BY <1>4 DEF Grows
  <2>3. s[n + 1] \in R /\ p[n + 1] = h[s[n + 1]] /\ q[n + 1] = Bind(g, h[s[n + 1]])
    BY <1>a, <1>1, <1>2, <1>7, <2>1
  <2>4. out[n] \in Seq(S) /\ p[n + 1] \in Seq(S)
    BY <1>a, <1>2, <2>1, <2>3
  <2>5. Bind(g, out[n] \o p[n + 1]) = Bind(g, out[n]) \o Bind(g, p[n + 1])
    <3>1. PICK x \in Seq(S), y \in Seq(S) : x = out[n] /\ y = p[n + 1]
      BY <2>4
    <3> QED  BY <1>0, <3>1
  <2>6. f[n + 1] = Bind(g, out[n + 1]) /\ f[n] = Bind(g, out[n])
    BY <1>9, <2>1
  <2> QED  BY <2>2, <2>3, <2>5, <2>6
<1>12. f[N] = FlattenSeq(q)
  <2>1. \A n \in 0 .. Len(q) - 1 : f[n + 1] = f[n] \o q[n + 1]
    BY <1>8, <1>11
  <2>2. f[Len(q)] = FlattenSeq(q)
    BY <1>10, <2>1, FlattenIs
  <2> QED  BY <1>8, <2>2
<1>13. f[N] = Bind(g, FlattenSeq(p))
  <2>1. out[N] = FlattenSeq(p) /\ N \in 0 .. N
    BY <1>4 DEF Grows
  <2> QED  BY <1>9, <2>1
<1> QED  BY <1>1, <1>7, <1>12, <1>13 DEF Bind

(* No piece gives nothing.                                                   *)
LEMMA BindNothing ==
  ASSUME NEW S, NEW T, NEW g \in [S -> Seq(T)], NEW s \in Seq(S),
         \A i \in DOMAIN s : g[s[i]] = <<>>
  PROVE  Bind(g, s) = <<>>
<1>1. PICK p \in Seq(Seq(T)) : p = [i \in DOMAIN s |-> g[s[i]]]
  <2>1. [i \in DOMAIN s |-> g[s[i]]] \in Seq(Seq(T))
    BY BindPieces
  <2> QED  BY <2>1
<1>2. \A i \in DOMAIN FlattenSeq(p) : InPiece(i, p, FlattenSeq(p))
  BY FlattenPlaces
<1>3. DOMAIN FlattenSeq(p) = {}
  <2>1. \A k \in DOMAIN p : p[k] = <<>>
    BY <1>1
  <2>2. DOMAIN <<>> = {}
    OBVIOUS
  <2> QED  BY <1>2, <2>1, <2>2 DEF InPiece
<1>4. FlattenSeq(p) \in Seq(T)
  BY FlattenPlaces
<1>5. \A x \in Seq(T) : DOMAIN x = {} => x = <<>>
  <2> SUFFICES ASSUME NEW x \in Seq(T), DOMAIN x = {} PROVE x = <<>>
    OBVIOUS
  <2>1. Len(x) = 0
    OBVIOUS
  <2>2. \A y \in Seq(T) : Len(y) = 0 => y = <<>>
    OBVIOUS
  <2> QED  BY <2>1, <2>2
<1> QED  BY <1>1, <1>3, <1>4, <1>5 DEF Bind

(* Which elements there are.                                                 *)
LEMMA BindElements ==
  ASSUME NEW S, NEW T, NEW g \in [S -> Seq(T)], NEW s \in Seq(S)
  PROVE  /\ \A i \in DOMAIN Bind(g, s) : \E k \in DOMAIN s : \E j \in DOMAIN g[s[k]] :
              Bind(g, s)[i] = g[s[k]][j]
         /\ \A k \in DOMAIN s : \A j \in DOMAIN g[s[k]] : \E i \in DOMAIN Bind(g, s) :
              Bind(g, s)[i] = g[s[k]][j]
<1>1. PICK p \in Seq(Seq(T)) : p = [i \in DOMAIN s |-> g[s[i]]]
  <2>1. [i \in DOMAIN s |-> g[s[i]]] \in Seq(Seq(T))
    BY BindPieces
  <2> QED  BY <2>1
<1>2. PICK f : f = FlattenSeq(p)
  OBVIOUS
<1>3. \A i \in DOMAIN f : InPiece(i, p, f)
  BY <1>2, FlattenPlaces
<1>4. \A k \in DOMAIN p : \E d \in Nat : LiesAt(p[k], d, f)
  BY <1>2, FlattenPlaces
<1>5. DOMAIN p = DOMAIN s /\ \A k \in DOMAIN s : p[k] = g[s[k]]
  BY <1>1
<1>6. \A i \in DOMAIN f : \E k \in DOMAIN s : \E j \in DOMAIN g[s[k]] : f[i] = g[s[k]][j]
  <2>1. \A i \in DOMAIN f : \E k \in DOMAIN s : \E j \in DOMAIN p[k] : f[i] = p[k][j]
    <3> SUFFICES ASSUME NEW i \in DOMAIN f
                 PROVE  \E k \in DOMAIN s : \E j \in DOMAIN p[k] : f[i] = p[k][j]
      OBVIOUS
    <3>1. PICK k \in DOMAIN p : \E d \in Nat : \E j \in DOMAIN p[k] :
                                  i = d + j /\ LiesAt(p[k], d, f)
      BY <1>3 DEF InPiece
    <3>2. PICK d \in Nat : \E j \in DOMAIN p[k] : i = d + j /\ LiesAt(p[k], d, f)
      BY <3>1
    <3>3. PICK j \in DOMAIN p[k] : i = d + j /\ LiesAt(p[k], d, f)
      BY <3>2
    <3>4. f[i] = p[k][j]
      BY <3>3 DEF LiesAt
    <3> QED  BY <1>5, <3>4
  <2> QED  BY <1>5, <2>1
<1>7. \A k \in DOMAIN s : \A j \in DOMAIN g[s[k]] : \E i \in DOMAIN f : f[i] = g[s[k]][j]
  BY <1>4, <1>5 DEF LiesAt
<1> QED  BY <1>1, <1>2, <1>6, <1>7 DEF Bind

(* A sequence without repetitions loses its last element.                    *)
LEMMA DropLast ==
  ASSUME NEW S, NEW s \in Seq(S), s # <<>>, NoRepeats(s)
  PROVE  /\ s[Len(s)] \in ToSet(s) /\ s[Len(s)] \in S
         /\ SubSeq(s, 1, Len(s) - 1) \in Seq(S) /\ NoRepeats(SubSeq(s, 1, Len(s) - 1))
         /\ ToSet(SubSeq(s, 1, Len(s) - 1)) = ToSet(s) \ {s[Len(s)]}
<1>1. PICK n \in Nat : n = Len(s) /\ n > 0
  BY EmptySeq
<1>a. \A i \in 1 .. n - 1 : s[i] \in S
  BY <1>1
<1>b. /\ SubSeq(s, 1, n - 1) \in Seq(S)
      /\ Len(SubSeq(s, 1, n - 1)) = n - 1
      /\ \A i \in 1 .. n - 1 : SubSeq(s, 1, n - 1)[i] = s[i]
  BY <1>1, <1>a
<1>2. PICK r \in Seq(S) : r = SubSeq(s, 1, n - 1)
  BY <1>b
<1>3. Len(r) = n - 1 /\ \A i \in 1 .. n - 1 : r[i] = s[i]
  BY <1>2, <1>b
<1>4. DOMAIN r = 1 .. n - 1 /\ DOMAIN s = 1 .. n
  BY <1>1, <1>3
<1>5. s[n] \in ToSet(s) /\ s[n] \in S
  BY <1>1, <1>4 DEF ToSet
<1>6. NoRepeats(r)
  BY <1>3, <1>4 DEF NoRepeats
<1>7. ToSet(r) = ToSet(s) \ {s[n]}
  <2>1. \A i \in 1 .. n - 1 : s[i] # s[n]
    BY <1>1, <1>4 DEF NoRepeats
  <2>2. \A i \in 1 .. n : i = n \/ i \in 1 .. n - 1
    OBVIOUS
  <2> QED  BY <1>3, <1>4, <2>1, <2>2 DEF ToSet
<1> QED  BY <1>1, <1>2, <1>5, <1>6, <1>7

-----------------------------------------------------------------------------
(* FlattenSeq keeps an order that the pieces keep.                           *)
InOrder(R, s) == \A i, j \in DOMAIN s : i < j => <<s[i], s[j]>> \in R

LEMMA CatInOrder ==
  ASSUME NEW S, NEW R, NEW s \in Seq(S), NEW t \in Seq(S), InOrder(R, s), InOrder(R, t),
         \A i \in DOMAIN s, j \in DOMAIN t : <<s[i], t[j]>> \in R
  PROVE  InOrder(R, s \o t)
<1>1. PICK r : r = s \o t
  OBVIOUS
<1>2. PICK n \in Nat, m \in Nat : n = Len(s) /\ m = Len(t) /\ DOMAIN s = 1 .. n /\ DOMAIN t = 1 .. m
  OBVIOUS
<1>3. DOMAIN r = 1 .. n + m /\ (\A i \in 1 .. n : r[i] = s[i]) /\ (\A j \in 1 .. m : r[n + j] = t[j])
  BY <1>1, <1>2
<1>4. SUFFICES ASSUME NEW i \in 1 .. n + m, NEW j \in 1 .. n + m, i < j PROVE <<r[i], r[j]>> \in R
  BY <1>1, <1>3 DEF InOrder
<1>5. CASE j <= n
  <2>1. i \in 1 .. n /\ j \in 1 .. n
    BY <1>4, <1>5
  <2> QED  BY <1>2, <1>3, <1>4, <2>1 DEF InOrder
<1>6. CASE i <= n /\ j > n
  <2>1. PICK k \in 1 .. m : j = n + k
    <3>1. j - n \in 1 .. m /\ j = n + (j - n)
      BY <1>6
    <3> QED  BY <3>1
  <2>2. i \in 1 .. n
    BY <1>6
  <2> QED  BY <1>2, <1>3, <2>1, <2>2
<1>7. CASE i > n
  <2>1. i - n \in 1 .. m /\ i = n + (i - n) /\ j - n \in 1 .. m /\ j = n + (j - n) /\ i - n < j - n
    BY <1>4, <1>7
  <2>2. PICK k \in 1 .. m, l \in 1 .. m : i = n + k /\ j = n + l /\ k < l
    BY <2>1
  <2>3. r[i] = t[k] /\ r[j] = t[l]
    BY <1>3, <2>2
  <2>4. <<t[k], t[l]>> \in R
    BY <1>2, <2>2 DEF InOrder
  <2> QED  BY <2>3, <2>4
<1> QED  BY <1>5, <1>6, <1>7

(* Every element of one piece comes before every element of a later one.     *)
PiecesInOrder(R, p) ==
  /\ \A k \in DOMAIN p : InOrder(R, p[k])
  /\ \A k, l \in DOMAIN p : k < l =>
       \A i \in DOMAIN p[k], j \in DOMAIN p[l] : <<p[k][i], p[l][j]>> \in R

(* Each element of r is one of s or one of t.                                *)
Joins(s, t, r) ==
  /\ \A h \in DOMAIN s : r[h] = s[h]
  /\ \A m \in DOMAIN t : r[Len(s) + m] = t[m]
  /\ \A i \in DOMAIN r : i \in DOMAIN s \/ \E m \in DOMAIN t : i = Len(s) + m

LEMMA CatJoins ==
  ASSUME NEW S, NEW s \in Seq(S), NEW t \in Seq(S)
  PROVE  Joins(s, t, s \o t)
BY CatPlaces DEF Joins

LEMMA FlattenInOrder ==
  ASSUME NEW S, NEW R, NEW p \in Seq(Seq(S)), PiecesInOrder(R, p)
  PROVE  InOrder(R, FlattenSeq(p))
<1>1. PICK N \in Nat : N = Len(p) /\ DOMAIN p = 1 .. N /\ \A i \in 1 .. N : p[i] \in Seq(S)
  OBVIOUS
<1>2. PICK out \in [0 .. N -> Seq(S)] : Grows(out, p, N)
  BY <1>1, FlattenSteps
<1>3. /\ out[0] = <<>> /\ out[N] = FlattenSeq(p)
      /\ \A n \in 0 .. N - 1 : out[n + 1] = out[n] \o p[n + 1]
  BY <1>2 DEF Grows
<1>4. PICK U \in SUBSET (0 .. N) : U = {n \in 0 .. N :
        /\ InOrder(R, out[n])
        /\ \A i \in DOMAIN out[n] : \E k \in 1 .. n : \E j \in DOMAIN p[k] : out[n][i] = p[k][j]}
  OBVIOUS
<1>5. 0 \in U
  <2>1. DOMAIN <<>> = {}
    OBVIOUS
  <2> QED  BY <1>3, <1>4, <2>1 DEF InOrder
<1>6. ASSUME NEW n \in 0 .. N - 1, n \in U PROVE n + 1 \in U
  <2>0. n + 1 \in 1 .. N /\ n + 1 \in 0 .. N /\ n \in 0 .. N
    OBVIOUS
  <2>1. PICK s \in Seq(S), t \in Seq(S) : s = out[n] /\ t = p[n + 1]
    <3>1. out[n] \in Seq(S) /\ p[n + 1] \in Seq(S)
      BY <1>1, <2>0
    <3> QED  BY <3>1
  <2>a. Joins(s, t, s \o t)
    BY CatJoins
  <2>2. out[n + 1] = s \o t /\ n + 1 \in 1 .. N
    BY <1>3, <2>0, <2>1
  <2>3. InOrder(R, s) /\ \A i \in DOMAIN s : \E k \in 1 .. n : \E j \in DOMAIN p[k] : s[i] = p[k][j]
    BY <1>4, <1>6, <2>1
  <2>4. InOrder(R, t)
    BY <1>1, <2>1, <2>2 DEF PiecesInOrder
  <2>5. \A i \in DOMAIN s, j \in DOMAIN t : <<s[i], t[j]>> \in R
    <3>1. SUFFICES ASSUME NEW i \in DOMAIN s, NEW j \in DOMAIN t PROVE <<s[i], t[j]>> \in R
      OBVIOUS
    <3>2. PICK k \in 1 .. n : \E h \in DOMAIN p[k] : s[i] = p[k][h]
      BY <2>3
    <3>3. PICK h \in DOMAIN p[k] : s[i] = p[k][h]
      BY <3>2
    <3>4. k \in DOMAIN p /\ n + 1 \in DOMAIN p /\ k < n + 1
      BY <1>1, <2>2
    <3>5. \A a \in DOMAIN p[k], b \in DOMAIN p[n + 1] : <<p[k][a], p[n + 1][b]>> \in R
      BY <3>4 DEF PiecesInOrder
    <3> QED  BY <2>1, <3>3, <3>5
  <2>6. InOrder(R, s \o t)
    BY <2>3, <2>4, <2>5, CatInOrder
  <2>7. \A i \in DOMAIN (s \o t) : \E k \in 1 .. n + 1 : \E j \in DOMAIN p[k] : (s \o t)[i] = p[k][j]
    <3>1. SUFFICES ASSUME NEW i \in DOMAIN (s \o t)
                   PROVE  \E k \in 1 .. n + 1 : \E j \in DOMAIN p[k] : (s \o t)[i] = p[k][j]
      OBVIOUS
    <3>2. /\ \A h \in DOMAIN s : (s \o t)[h] = s[h]
          /\ \A m \in DOMAIN t : (s \o t)[Len(s) + m] = t[m]
          /\ i \in DOMAIN s \/ \E m \in DOMAIN t : i = Len(s) + m
      BY <2>a DEF Joins
    <3>3. CASE i \in DOMAIN s
      <4>1. \A k \in 1 .. n : k \in 1 .. n + 1
        OBVIOUS
      <4> QED  BY <2>3, <3>2, <3>3, <4>1
    <3>4. CASE i \notin DOMAIN s
      <4>1. PICK m \in DOMAIN t : i = Len(s) + m
        BY <3>2, <3>4
      <4>2. (s \o t)[i] = p[n + 1][m] /\ m \in DOMAIN p[n + 1]
        BY <2>1, <3>2, <4>1
      <4>3. n + 1 \in 1 .. n + 1
        OBVIOUS
      <4> QED  BY <4>2, <4>3
    <3> QED  BY <3>3, <3>4
  <2>8. out[n + 1] = s \o t
    BY <2>2
  <2>9. /\ InOrder(R, out[n + 1])
        /\ \A i \in DOMAIN out[n + 1] : \E k \in 1 .. n + 1 : \E j \in DOMAIN p[k] : out[n + 1][i] = p[k][j]
    BY <2>6, <2>7, <2>8
  <2> QED  BY <1>4, <2>0, <2>9
<1>7. \A n \in 0 .. N : n \in U
  BY <1>5, <1>6, Stepwise
<1>8. N \in U
  BY <1>7
<1> QED  BY <1>3, <1>4, <1>8

(* The elements of r are those of the pieces.                                *)
Drawn(p, r) ==
  /\ \A i \in DOMAIN r : \E k \in DOMAIN p : \E j \in DOMAIN p[k] : r[i] = p[k][j]
  /\ \A k \in DOMAIN p : \A j \in DOMAIN p[k] : \E i \in DOMAIN r : r[i] = p[k][j]

LEMMA FlattenElements ==
  ASSUME NEW S, NEW p \in Seq(Seq(S))
  PROVE  FlattenSeq(p) \in Seq(S) /\ Drawn(p, FlattenSeq(p))
<1>1. PICK f : f = FlattenSeq(p)
  OBVIOUS
<1>2. /\ f \in Seq(S) /\ \A i \in DOMAIN f : InPiece(i, p, f)
      /\ \A k \in DOMAIN p : \E d \in Nat : LiesAt(p[k], d, f)
  BY <1>1, FlattenPlaces
<1>3. \A i \in DOMAIN f : \E k \in DOMAIN p : \E j \in DOMAIN p[k] : f[i] = p[k][j]
  <2>1. SUFFICES ASSUME NEW i \in DOMAIN f PROVE \E k \in DOMAIN p : \E j \in DOMAIN p[k] : f[i] = p[k][j]
    OBVIOUS
  <2>2. PICK k \in DOMAIN p : \E d \in Nat : \E j \in DOMAIN p[k] : i = d + j /\ LiesAt(p[k], d, f)
    BY <1>2 DEF InPiece
  <2>3. PICK d \in Nat : \E j \in DOMAIN p[k] : i = d + j /\ LiesAt(p[k], d, f)
    BY <2>2
  <2>4. PICK j \in DOMAIN p[k] : i = d + j /\ LiesAt(p[k], d, f)
    BY <2>3
  <2>5. f[i] = p[k][j]
    BY <2>4 DEF LiesAt
  <2> QED  BY <2>5
<1>4. \A k \in DOMAIN p : \A j \in DOMAIN p[k] : \E i \in DOMAIN f : f[i] = p[k][j]
  BY <1>2 DEF LiesAt
<1>5. Drawn(p, f)
  BY <1>3, <1>4 DEF Drawn
<1> QED  BY <1>1, <1>2, <1>5

(* Pieces of one element each give the sequence itself.                      *)
LEMMA FlattenSingles ==
  ASSUME NEW S, NEW s \in Seq(S)
  PROVE  FlattenSeq([i \in DOMAIN s |-> <<s[i]>>]) = s
<1>1. PICK N \in Nat : N = Len(s) /\ DOMAIN s = 1 .. N
  OBVIOUS
<1>2. PICK p : p = [i \in DOMAIN s |-> <<s[i]>>]
  OBVIOUS
<1>3. p \in Seq(Seq(S)) /\ Len(p) = N
  <2>1. \A i \in 1 .. N : <<s[i]>> \in Seq(S)
    BY <1>1
  <2>2. p \in [1 .. N -> Seq(S)]
    BY <1>1, <1>2, <2>1
  <2> QED  BY <2>2
<1>4. PICK g : g = [n \in 0 .. N |-> SubSeq(s, 1, n)]
  OBVIOUS
<1>5. g[0] = <<>>
  BY <1>1, <1>4
<1>6. ASSUME NEW n \in 0 .. N - 1 PROVE g[n + 1] = g[n] \o p[n + 1]
  <2>1. PICK m \in 1 .. N : m = n + 1
    OBVIOUS
  <2>2. g[m] = SubSeq(s, 1, m) /\ g[n] = SubSeq(s, 1, n)
    <3>1. m \in 0 .. N /\ n \in 0 .. N
      BY <1>1
    <3> QED  BY <1>4, <3>1
  <2>3. p[m] = <<s[m]>>
    BY <1>1, <1>2
  <2>4. SubSeq(s, 1, m) = SubSeq(s, 1, n) \o <<s[m]>>
    BY <1>1, <2>1
  <2> QED  BY <2>1, <2>2, <2>3, <2>4
<1>7. g[N] = s
  <2>1. SubSeq(s, 1, N) = s
    BY <1>1
  <2> QED  BY <1>4, <2>1
<1>8. g[Len(p)] = FlattenSeq(p)
  <2>1. \A n \in 0 .. Len(p) - 1 : g[n + 1] = g[n] \o p[n + 1]
    BY <1>3, <1>6
  <2> QED  BY <1>3, <1>5, <2>1, FlattenIs
<1> QED  BY <1>2, <1>3, <1>7, <1>8

(* What pieces give is flattened piece by piece.                             *)
Flattens(S, T, g, p) == g \in [S -> Seq(T)] /\ p \in Seq(Seq(S))

LEMMA BindFlatten ==
  ASSUME NEW S, NEW T, NEW g, NEW p, Flattens(S, T, g, p)
  PROVE  Bind(g, FlattenSeq(p)) = FlattenSeq([k \in DOMAIN p |-> Bind(g, p[k])])
<1>a. g \in [S -> Seq(T)] /\ p \in Seq(Seq(S))
  BY DEF Flattens
<1>0. \A x \in Seq(S), y \in Seq(S) : Bind(g, x \o y) = Bind(g, x) \o Bind(g, y)
  <2>1. \A f \in [S -> Seq(T)] : \A x \in Seq(S), y \in Seq(S) :
          Bind(f, x \o y) = Bind(f, x) \o Bind(f, y)
    BY BindCat
  <2> QED  BY <1>a, <2>1
<1>b. \A y \in Seq(S) : Bind(g, y) \in Seq(T)
  <2>1. \A f \in [S -> Seq(T)] : \A y \in Seq(S) : Bind(f, y) \in Seq(T)
    BY BindPieces
  <2> QED  BY <1>a, <2>1
<1>1. PICK N \in Nat : N = Len(p) /\ DOMAIN p = 1 .. N
  BY <1>a
<1>2. PICK out \in [0 .. N -> Seq(S)] : Grows(out, p, N)
  BY <1>1, <1>a, FlattenSteps
<1>3. PICK q : q = [k \in DOMAIN p |-> Bind(g, p[k])]
  OBVIOUS
<1>4. q \in Seq(Seq(T)) /\ Len(q) = N
  <2>1. \A k \in 1 .. N : Bind(g, p[k]) \in Seq(T)
    <3>1. SUFFICES ASSUME NEW k \in 1 .. N PROVE Bind(g, p[k]) \in Seq(T)
      OBVIOUS
    <3>2. PICK y \in Seq(S) : y = p[k]
      BY <1>1, <1>a
    <3>3. Bind(g, y) \in Seq(T)
      BY <1>b
    <3> QED  BY <3>2, <3>3
  <2>2. q \in [1 .. N -> Seq(T)]
    BY <1>1, <1>3, <2>1
  <2> QED  BY <2>2
<1>5. PICK h : h = [n \in 0 .. N |-> Bind(g, out[n])]
  OBVIOUS
<1>6. h[0] = <<>>
  BY <1>1, <1>2, <1>5, BindEmpty DEF Grows
<1>7. ASSUME NEW n \in 0 .. N - 1 PROVE h[n + 1] = h[n] \o q[n + 1]
  <2>1. PICK m \in 1 .. N : m = n + 1
    OBVIOUS
  <2>2. PICK x \in Seq(S) : x = out[n]
    BY <1>2
  <2>3. PICK y \in Seq(S) : y = p[m]
    BY <1>1, <1>a
  <2>4. out[m] = x \o y
    BY <1>2, <2>1, <2>2, <2>3 DEF Grows
  <2>5. Bind(g, x \o y) = Bind(g, x) \o Bind(g, y)
    BY <1>0
  <2>6. h[m] = Bind(g, x \o y) /\ h[n] = Bind(g, x)
    <3>1. m \in 0 .. N /\ n \in 0 .. N
      BY <1>1
    <3> QED  BY <1>5, <2>2, <2>4, <3>1
  <2>7. q[m] = Bind(g, y)
    BY <1>1, <1>3, <2>3
  <2> QED  BY <2>1, <2>5, <2>6, <2>7
<1>8. h[Len(q)] = FlattenSeq(q)
  <2>1. \A n \in 0 .. Len(q) - 1 : h[n + 1] = h[n] \o q[n + 1]
    BY <1>4, <1>7
  <2> QED  BY <1>4, <1>6, <2>1, FlattenIs
<1>9. h[N] = Bind(g, FlattenSeq(p))
  BY <1>1, <1>2, <1>5 DEF Grows
<1> QED  BY <1>3, <1>4, <1>8, <1>9
=============================================================================
