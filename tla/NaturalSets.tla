------------------------------ MODULE NaturalSets ------------------------------
(* Least and greatest elements of sets of natural numbers, by the library's *)
(* theorems on well-founded relations and on cardinalities; recursion up to *)
(* a number, by the least one for which it would fail; and what FlattenSeq  *)
(* makes of a sequence of sequences.                                        *)
EXTENDS Integers, SequencesExt, WellFoundedInduction, FiniteSetTheorems, SequenceTheorems, TLAPS

LEMMA LeastNat ==
    ASSUME NEW T, T \subseteq Nat, T # {}
    PROVE  \E m \in T : \A n \in T : m =< n
<1>1. PICK m \in T : \A n \in T : <<n, m>> \notin OpToRel(<, Nat)
  BY WFMin, NatLessThanWellFounded, Zenon
<1>2. \A n \in T : ~(n < m)
  BY <1>1 DEF OpToRel
<1> QED BY <1>2

LEMMA GreatestNat ==
    ASSUME NEW S, IsFiniteSet(S), S \subseteq Nat, S # {}
    PROVE  \E m \in S : \A n \in S : n =< m
<1> DEFINE Above(s) == {r \in S : r > s}
<1>1. \A s \in S : IsFiniteSet(Above(s)) /\ Cardinality(Above(s)) \in Nat
  BY FS_Subset, FS_CardinalityType
<1> DEFINE Counts == {Cardinality(Above(s)) : s \in S}
<1>2. PICK c \in Counts : \A d \in Counts : c =< d
  <2>1. Counts \subseteq Nat /\ Counts # {}
    BY <1>1
  <2> HIDE DEF Counts
  <2> QED BY <2>1, LeastNat
<1>3. PICK m \in S : c = Cardinality(Above(m))
  BY <1>2
<1>4. ASSUME NEW n \in S, ~(n =< m) PROVE FALSE
  <2>1. Above(n) \subseteq Above(m) /\ n \in Above(m) /\ n \notin Above(n)
    <3>1. n \in Nat /\ m \in Nat /\ m < n
      BY <1>4, <1>3
    <3>2. \A r \in S : r \in Nat
      OBVIOUS
    <3>3. \A r : r \in Above(n) => r \in S /\ n < r
      OBVIOUS
    <3>4. Above(n) \subseteq Above(m)
      <4>1. ASSUME NEW r \in Above(n) PROVE r \in S /\ m < r
        BY <3>1, <3>2, <3>3
      <4> QED BY <4>1
    <3> QED BY <3>1, <3>4
  <2>2. Cardinality(Above(n)) < Cardinality(Above(m))
    <3>1. Above(n) \in SUBSET Above(m) /\ Above(n) # Above(m)
      BY <2>1
    <3>2. IsFiniteSet(Above(m)) /\ Cardinality(Above(m)) \in Nat /\ Cardinality(Above(n)) \in Nat
      BY <1>1, <1>3
    <3> HIDE DEF Above
    <3>3. Cardinality(Above(n)) =< Cardinality(Above(m)) /\ Cardinality(Above(n)) # Cardinality(Above(m))
      BY <3>1, <3>2, FS_Subset
    <3> QED BY <3>2, <3>3
  <2>3. Cardinality(Above(m)) =< Cardinality(Above(n))
    BY <1>2, <1>3
  <2> HIDE DEF Above
  <2> QED BY <1>1, <1>3, <2>2, <2>3
<1> QED BY <1>4

-----------------------------------------------------------------------------
(* g[k] is what the steps F[1] to F[k] make of base, one after the other.  *)
Iterates(n, V, base, F, g) ==
    /\ g \in [0 .. n -> V]
    /\ g[0] = base
    /\ \A k \in 1 .. n : g[k] = F[k][g[k - 1]]

LEMMA IteratesExist ==
    ASSUME NEW n \in Nat, NEW V, NEW base \in V, NEW F \in [1 .. n -> [V -> V]]
    PROVE  \E g : Iterates(n, V, base, F, g)
<1> DEFINE Upto(m) == \E g : Iterates(m, V, base, F, g)
           Failing == {m \in 0 .. n : ~Upto(m)}
<1> SUFFICES ASSUME ~Upto(n) PROVE FALSE
  OBVIOUS
<1> HIDE DEF Upto
<1>1. PICK m \in Failing : \A l \in Failing : m =< l
  <2>1. n \in Failing /\ Failing \subseteq Nat
    OBVIOUS
  <2> HIDE DEF Failing
  <2> QED BY <2>1, LeastNat
<1>2. CASE m = 0
  <2> DEFINE g == [k \in 0 .. 0 |-> base]
  <2>1. Iterates(0, V, base, F, g)
    BY DEF Iterates
  <2> HIDE DEF g
  <2> QED BY <1>1, <1>2, <2>1 DEF Upto
<1>3. CASE m # 0
  <2>1. m \in 1 .. n /\ m - 1 \in 0 .. n
    BY <1>1, <1>3
  <2>2. m - 1 \notin Failing
    <3> HIDE DEF Failing
    <3> QED BY <1>1, <2>1
  <2>3. PICK h : Iterates(m - 1, V, base, F, h)
    BY <2>1, <2>2 DEF Upto
  <2> DEFINE g == [k \in 0 .. m |-> IF k = m THEN F[m][h[m - 1]] ELSE h[k]]
  <2>4. g \in [0 .. m -> V]
    BY <2>1, <2>3 DEF Iterates
  <2>5. g[0] = base
    BY <2>1, <2>3 DEF Iterates
  <2>6. ASSUME NEW k \in 1 .. m PROVE g[k] = F[k][g[k - 1]]
    <3>1. CASE k = m
      BY <2>1, <3>1
    <3>2. CASE k # m
      <4>1. g[k] = h[k] /\ g[k - 1] = h[k - 1] /\ k \in 1 .. m - 1
        BY <2>1, <3>2
      <4> QED BY <2>3, <4>1 DEF Iterates
    <3> QED BY <3>1, <3>2
  <2> HIDE DEF g
  <2>7. Iterates(m, V, base, F, g)
    BY <2>4, <2>5, <2>6 DEF Iterates
  <2> QED BY <1>1, <2>7 DEF Upto
<1> QED BY <1>2, <1>3

Agree(n, g, h) == \A k \in 0 .. n : g[k] = h[k]

LEMMA IteratesAgree ==
    ASSUME NEW n \in Nat, NEW g, NEW h, g[0] = h[0],
           \A k \in 1 .. n : g[k - 1] = h[k - 1] => g[k] = h[k]
    PROVE  Agree(n, g, h)
<1> DEFINE Different == {k \in 0 .. n : g[k] # h[k]}
<1> SUFFICES ASSUME Different # {} PROVE FALSE
  BY DEF Agree
<1>1. PICK m \in Different : \A l \in Different : m =< l
  <2>1. Different \subseteq Nat
    OBVIOUS
  <2> HIDE DEF Different
  <2> QED BY <2>1, LeastNat
<1>2. m \in 1 .. n /\ m - 1 \notin Different
  BY <1>1
<1> QED BY <1>1, <1>2

LEMMA UpwardsTo ==
    ASSUME NEW n \in Nat, NEW T, 0 \in T, \A k \in 1 .. n : k - 1 \in T => k \in T
    PROVE  \A k \in 0 .. n : k \in T
<1> DEFINE Missed == {k \in 0 .. n : k \notin T}
<1> SUFFICES ASSUME Missed # {} PROVE FALSE
  OBVIOUS
<1>1. PICK m \in Missed : \A l \in Missed : m =< l
  <2>1. Missed \subseteq Nat
    OBVIOUS
  <2> HIDE DEF Missed
  <2> QED BY <2>1, LeastNat
<1>2. m \in 1 .. n /\ m - 1 \notin Missed
  BY <1>1
<1> QED BY <1>1, <1>2
-----------------------------------------------------------------------------
(* Sequences put one after the other. *)
Joins(a, b, c) == (a \o b) \o c = a \o (b \o c)

LEMMA Joined ==
    ASSUME NEW S, NEW a \in Seq(S), NEW b \in Seq(S), NEW c \in Seq(S)
    PROVE  Joins(a, b, c)
BY ConcatAssociative DEF Joins

LEMMA FlattenBuilt ==
    ASSUME NEW V, NEW s \in Seq(Seq(V))
    PROVE  \E flat \in [0 .. Len(s) -> Seq(V)] :
              /\ flat[0] = <<>> /\ \A k \in 1 .. Len(s) : flat[k] = flat[k - 1] \o s[k]
              /\ FlattenSeq(s) = flat[Len(s)]
<1> DEFINE n == Len(s)
           W == Seq(V)
           F == [k \in 1 .. n |-> [w \in W |-> w \o s[k]]]
           Equation(u) == u = [i \in 1 .. n |-> IF i = 1 THEN s[i] ELSE u[i - 1] \o s[i]]
           flatten == CHOOSE u : Equation(u)
<1>1. n \in Nat /\ <<>> \in W /\ \A k \in 1 .. n : s[k] \in W
  OBVIOUS
<1>2. F \in [1 .. n -> [W -> W]]
  <2>1. \A k \in 1 .. n : \A w \in W : w \o s[k] \in W
    BY <1>1, ConcatProperties
  <2> HIDE DEF n, W
  <2> QED BY <2>1
<1>3. PICK g : Iterates(n, W, <<>>, F, g)
  <2> HIDE DEF n, F, W
  <2> QED BY <1>1, <1>2, IteratesExist
<1>4. g \in [0 .. n -> W] /\ g[0] = <<>> /\ \A k \in 1 .. n : g[k] = g[k - 1] \o s[k]
  <2>1. \A k \in 1 .. n : k - 1 \in 0 .. n
    BY <1>1
  <2> HIDE DEF n, W
  <2> QED BY <1>3, <2>1 DEF Iterates
<1>5. \A k \in 1 .. n : k = 1 => g[k] = s[k]
  <2>1. \A k \in 1 .. n : k = 1 => k - 1 = 0
    OBVIOUS
  <2>2. \A k \in 1 .. n : <<>> \o s[k] = s[k]
    BY <1>1, ConcatEmptySeq
  <2> HIDE DEF n, W
  <2> QED BY <1>4, <2>1, <2>2
<1>6. \E u : Equation(u)
  <2> DEFINE h == [k \in 1 .. n |-> g[k]]
  <2>1. \A i \in 1 .. n : i # 1 => i - 1 \in 1 .. n
    BY <1>1
  <2>2. \A i \in 1 .. n : h[i] = IF i = 1 THEN s[i] ELSE h[i - 1] \o s[i]
    <3> HIDE DEF n, W
    <3> QED BY <1>4, <1>5, <2>1
  <2>3. Equation(h)
    <3> HIDE DEF n
    <3> QED BY <2>2
  <2> QED BY <2>3
<1>7. Equation(flatten)
  <2> HIDE DEF Equation
  <2> QED BY <1>6
<1>8. FlattenSeq(s) = IF n = 0 THEN s ELSE flatten[n]
  BY DEF FlattenSeq
<1> HIDE DEF flatten
<1>9. \A i \in 1 .. n : flatten[i] = IF i = 1 THEN s[i] ELSE flatten[i - 1] \o s[i]
  <2> HIDE DEF n
  <2> QED BY <1>7, Zenon
<1> HIDE DEF Equation
<1>10. CASE n = 0
  <2>1. s = <<>>
    BY <1>10
  <2> HIDE DEF n, W
  <2>2. FlattenSeq(s) = g[n]
    BY <1>4, <1>8, <1>10, <2>1
  <2>3. g \in [0 .. Len(s) -> Seq(V)] /\ \A k \in 1 .. Len(s) : g[k] = g[k - 1] \o s[k]
    BY <1>4 DEF n, W
  <2> QED BY <1>4, <2>2, <2>3 DEF n
<1>11. CASE n # 0
  <2> DEFINE h == [k \in 0 .. n |-> IF k = 0 THEN <<>> ELSE flatten[k]]
  <2>1. \A k \in 1 .. n : k \in 0 .. n /\ k # 0 /\ k - 1 \in 0 .. n
    BY <1>1
  <2>2. h[0] = g[0]
    BY <1>1, <1>4
  <2>3. ASSUME NEW k \in 1 .. n, h[k - 1] = g[k - 1] PROVE h[k] = g[k]
    <3>1. CASE k = 1
      BY <1>5, <1>9, <2>1, <3>1
    <3>2. CASE k # 1
      <4>1. k - 1 # 0
        BY <3>2
      <4>2. h[k - 1] = flatten[k - 1] /\ h[k] = flatten[k]
        BY <2>1, <4>1
      <4> QED BY <1>4, <1>9, <2>3, <3>2, <4>2
    <3> QED BY <3>1, <3>2
  <2> HIDE DEF h
  <2>4. Agree(n, h, g)
    BY <1>1, <2>2, <2>3, IteratesAgree
  <2>5. n \in 0 .. n /\ h[n] = flatten[n]
    BY <1>1, <1>11 DEF h
  <2>6. FlattenSeq(s) = g[n]
    BY <1>8, <1>11, <2>4, <2>5 DEF Agree
  <2> QED BY <1>4, <2>6
<1> QED BY <1>10, <1>11
=============================================================================
