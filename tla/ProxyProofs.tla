----------------------------- MODULE ProxyProofs -----------------------------
(***************************************************************************)
(* Proofs about the listener, its workers, the target pool, the ping       *)
(* monitor, the registry of relays and the dashboard, for any number of    *)
(* connections, targets, ports and rows.                                   *)
(***************************************************************************)
EXTENDS Proxy, FiniteSetTheorems, SequenceTheorems, WellFoundedInduction, TLAPS

(***************************************************************************)
(* Numbers and sums.                                                       *)
(***************************************************************************)
LEMMA SmallestNat ==
  ASSUME NEW T \in SUBSET Nat, T # {}
  PROVE  \E m \in T : \A n \in T : m <= n
<1> DEFINE R == OpToRel(<, Nat)
<1>1. IsWellFoundedOn(R, Nat)
  BY NatLessThanWellFounded
<1>2. PICK x \in T : \A y \in T : ~(<<y, x>> \in R)
  <2> HIDE DEF R
  <2> QED BY <1>1, WFMin
<1>3. \A y \in T : ~(y < x)
  BY <1>2 DEF OpToRel
<1> QED BY <1>3

LEMMA UpTo ==
  ASSUME NEW n \in Nat
  PROVE  IsFiniteSet(1..n) /\ Cardinality(1..n) = n
<1>1. IsFiniteSet(1..n)
  BY FS_Interval
<1>2. Cardinality(1..n) = IF 1 > n THEN 0 ELSE n - 1 + 1
  BY FS_Interval
<1> QED BY <1>1, <1>2

LEMMA PartOfUpTo ==
  ASSUME NEW n \in Nat, NEW P \in SUBSET (1..n)
  PROVE  IsFiniteSet(P) /\ Cardinality(P) \in Nat /\ Cardinality(P) <= n
<1>1. IsFiniteSet(1..n) /\ Cardinality(1..n) = n
  BY UpTo
<1>2. IsFiniteSet(P) /\ Cardinality(P) <= Cardinality(1..n)
  BY <1>1, FS_Subset
<1>3. Cardinality(P) \in Nat
  BY <1>2, FS_CardinalityType
<1> QED BY <1>1, <1>2, <1>3

\* SumFunctionOnSet adds the values up in the order of CHOOSE.
Pick(s) == CHOOSE x \in s : TRUE
SumRule(f, g, SS) == g = [s \in SS |-> IF s = {} THEN 0 ELSE f[Pick(s)] + g[s \ {Pick(s)}]]
Sums(f, S) == CHOOSE g : SumRule(f, g, SUBSET S)

LEMMA SumIsSums ==
  ASSUME NEW f, NEW S
  PROVE  SumFunctionOnSet(f, S) = Sums(f, S)[S]
BY Zenon DEF SumFunctionOnSet, FoldFunctionOnSet, MapThenFoldSet, Sums, SumRule, Pick

LEMMA Picks ==
  ASSUME NEW s, s # {}
  PROVE  Pick(s) \in s
BY DEF Pick

\* The rule has a solution: by the least size of a set for which it has none.
LEMMA SumExists ==
  ASSUME NEW f, NEW S, IsFiniteSet(S)
  PROVE  SumRule(f, Sums(f, S), SUBSET S)
<1> DEFINE Small(n) == {s \in SUBSET S : Cardinality(s) <= n}
           Bad == {n \in Nat : ~\E g : SumRule(f, g, Small(n))}
<1>1. \A s \in SUBSET S : IsFiniteSet(s) /\ Cardinality(s) \in Nat /\ Cardinality(s) <= Cardinality(S)
  BY FS_Subset, FS_CardinalityType
<1>2. Bad = {}
  <2> SUFFICES ASSUME Bad # {} PROVE FALSE
    OBVIOUS
  <2>1. PICK n \in Bad : \A m \in Bad : n <= m
    <3>1. Bad \in SUBSET Nat
      OBVIOUS
    <3> HIDE DEF Bad
    <3> QED BY <3>1, SmallestNat
  <2>2. n \in Nat /\ ~\E g : SumRule(f, g, Small(n))
    BY <2>1
  <2>3. CASE n = 0
    <3> DEFINE g == [s \in Small(n) |-> 0]
    <3>1. \A s \in Small(n) : s = {}
      BY <1>1, <2>3, FS_EmptySet
    <3>2. SumRule(f, g, Small(n))
      BY <3>1 DEF SumRule
    <3> QED BY <2>2, <3>2
  <2>4. CASE n # 0
    <3>1. n - 1 \in Nat /\ ~(n - 1 \in Bad)
      <4>1. n - 1 \in Nat /\ ~(n <= n - 1)
        BY <2>2, <2>4
      <4> HIDE DEF Bad
      <4> QED BY <2>1, <4>1
    <3>2. PICK g : SumRule(f, g, Small(n - 1))
      BY <3>1
    <3> DEFINE h == [s \in Small(n) |-> IF s = {} THEN 0 ELSE f[Pick(s)] + g[s \ {Pick(s)}]]
    <3>3. ASSUME NEW s \in Small(n), s # {} PROVE s \ {Pick(s)} \in Small(n - 1)
      <4>1. Pick(s) \in s
        BY <3>3, Picks
      <4>2. Cardinality(s \ {Pick(s)}) = Cardinality(s) - 1
        BY <1>1, <4>1, FS_RemoveElement
      <4>3. Cardinality(s) \in Nat /\ Cardinality(s) <= n
        BY <1>1
      <4> QED BY <2>2, <4>2, <4>3
    <3>4. ASSUME NEW t \in Small(n - 1) PROVE h[t] = g[t] /\ t \in Small(n)
      <4>1. t \in Small(n)
        BY <1>1, <2>2
      <4>2. g[t] = IF t = {} THEN 0 ELSE f[Pick(t)] + g[t \ {Pick(t)}]
        BY <3>2 DEF SumRule
      <4>3. h[t] = IF t = {} THEN 0 ELSE f[Pick(t)] + g[t \ {Pick(t)}]
        BY <4>1
      <4> QED BY <4>1, <4>2, <4>3
    <3> DEFINE Value(k, s) == IF s = {} THEN 0 ELSE f[Pick(s)] + k[s \ {Pick(s)}]
    <3>5. ASSUME NEW s \in Small(n) PROVE Value(g, s) = Value(h, s)
      BY <3>3, <3>4
    <3>6. h = [s \in Small(n) |-> Value(h, s)]
      <4>1. h = [s \in Small(n) |-> Value(g, s)]
        OBVIOUS
      <4> HIDE DEF h, Value, Small
      <4> QED BY <3>5, <4>1
    <3>7. SumRule(f, h, Small(n))
      BY <3>6 DEF SumRule
    <3> QED BY <2>2, <3>7
  <2> QED BY <2>3, <2>4
<1>3. Cardinality(S) \in Nat /\ Small(Cardinality(S)) = SUBSET S
  BY <1>1, FS_CardinalityType
<1>4. \E g : SumRule(f, g, SUBSET S)
  BY <1>2, <1>3
<1> QED BY <1>4 DEF Sums

LEMMA SumsAt ==
  ASSUME NEW f, NEW S, IsFiniteSet(S), NEW s \in SUBSET S
  PROVE  Sums(f, S)[s] = IF s = {} THEN 0 ELSE f[Pick(s)] + Sums(f, S)[s \ {Pick(s)}]
<1>1. SumRule(f, Sums(f, S), SUBSET S)
  BY SumExists
<1> QED BY <1>1 DEF SumRule

LEMMA SumsAtTop ==
  ASSUME NEW f, NEW S, IsFiniteSet(S)
  PROVE  Sums(f, S)[S] = IF S = {} THEN 0 ELSE f[Pick(S)] + Sums(f, S)[S \ {Pick(S)}]
<1>1. S \in SUBSET S
  OBVIOUS
<1> QED BY <1>1, SumsAt

\* A part of a set has its own sum: by the least part that has not.
LEMMA SumsOfPart ==
  ASSUME NEW f, NEW U, IsFiniteSet(U), NEW u \in SUBSET U
  PROVE  Sums(f, U)[u] = SumFunctionOnSet(f, u)
<1> DEFINE Bad == {n \in Nat : \E S : /\ IsFiniteSet(S)
                                      /\ \E s \in SUBSET S : /\ Cardinality(s) = n
                                                             /\ Sums(f, S)[s] # Sums(f, s)[s]}
<1>1. ASSUME NEW S, IsFiniteSet(S), NEW s \in SUBSET S
      PROVE  IsFiniteSet(s) /\ Cardinality(s) \in Nat
  BY <1>1, FS_Subset, FS_CardinalityType
<1>2. Bad = {}
  <2> SUFFICES ASSUME Bad # {} PROVE FALSE
    OBVIOUS
  <2>1. PICK n \in Bad : \A m \in Bad : n <= m
    <3>1. Bad \in SUBSET Nat
      OBVIOUS
    <3> HIDE DEF Bad
    <3> QED BY <3>1, SmallestNat
  <2>2. PICK S : /\ IsFiniteSet(S)
                 /\ \E s \in SUBSET S : Cardinality(s) = n /\ Sums(f, S)[s] # Sums(f, s)[s]
    BY <2>1
  <2>3. PICK s \in SUBSET S : Cardinality(s) = n /\ Sums(f, S)[s] # Sums(f, s)[s]
    BY <2>2
  <2>4. n \in Nat /\ IsFiniteSet(s) /\ s \in SUBSET s
    BY <1>1, <2>1, <2>2
  <2>5. Sums(f, S)[s] = IF s = {} THEN 0 ELSE f[Pick(s)] + Sums(f, S)[s \ {Pick(s)}]
    BY <2>2, SumsAt
  <2>6. Sums(f, s)[s] = IF s = {} THEN 0 ELSE f[Pick(s)] + Sums(f, s)[s \ {Pick(s)}]
    BY <2>4, SumsAtTop
  <2> DEFINE t == s \ {Pick(s)}
  <2>7. s # {} /\ Sums(f, S)[t] # Sums(f, s)[t]
    BY <2>3, <2>5, <2>6
  <2>8. Pick(s) \in s
    BY <2>7, Picks
  <2>9. Cardinality(t) = n - 1 /\ t \in SUBSET s /\ t \in SUBSET S
    BY <2>3, <2>4, <2>8, FS_RemoveElement
  <2>10. n - 1 \in Nat /\ ~(n <= n - 1)
    BY <1>1, <2>4, <2>9
  <2>11. ~(n - 1 \in Bad)
    <3> HIDE DEF Bad
    <3> QED BY <2>1, <2>10
  <2> HIDE DEF t
  <2>12. Sums(f, S)[t] = Sums(f, t)[t] /\ Sums(f, s)[t] = Sums(f, t)[t]
    BY <2>2, <2>4, <2>9, <2>10, <2>11
  <2> QED BY <2>7, <2>12
<1>3. Cardinality(u) \in Nat
  BY <1>1
<1>4. Sums(f, U)[u] = Sums(f, u)[u]
  BY <1>2, <1>3
<1> QED BY <1>4, SumIsSums

LEMMA SumOfNone ==
  ASSUME NEW f
  PROVE  SumFunctionOnSet(f, {}) = 0
<1>1. IsFiniteSet({}) /\ {} \in SUBSET {}
  BY FS_EmptySet
<1> QED BY <1>1, SumIsSums, SumsAt

LEMMA SumPicks ==
  ASSUME NEW f, NEW S, IsFiniteSet(S), S # {}
  PROVE  /\ Pick(S) \in S /\ IsFiniteSet(S \ {Pick(S)})
         /\ Cardinality(S \ {Pick(S)}) = Cardinality(S) - 1
         /\ SumFunctionOnSet(f, S) = f[Pick(S)] + SumFunctionOnSet(f, S \ {Pick(S)})
<1>1. Pick(S) \in S
  BY Picks
<1>2. IsFiniteSet(S \ {Pick(S)}) /\ Cardinality(S \ {Pick(S)}) = Cardinality(S) - 1
  BY <1>1, FS_RemoveElement
<1>3. Sums(f, S)[S] = f[Pick(S)] + Sums(f, S)[S \ {Pick(S)}]
  BY SumsAt
<1>4. Sums(f, S)[S \ {Pick(S)}] = SumFunctionOnSet(f, S \ {Pick(S)})
  BY SumsOfPart
<1> QED BY <1>1, <1>2, <1>3, <1>4, SumIsSums

\* The same sums, whatever the rest of the two functions is; one at least the other.
LEMMA SumsCompare ==
  ASSUME NEW f, NEW g, NEW U, IsFiniteSet(U),
         \A x \in U : f[x] \in Nat /\ g[x] \in Nat /\ f[x] <= g[x]
  PROVE  /\ SumFunctionOnSet(f, U) \in Nat /\ SumFunctionOnSet(g, U) \in Nat
         /\ SumFunctionOnSet(f, U) <= SumFunctionOnSet(g, U)
<1> DEFINE Good(S) == /\ SumFunctionOnSet(f, S) \in Nat /\ SumFunctionOnSet(g, S) \in Nat
                      /\ SumFunctionOnSet(f, S) <= SumFunctionOnSet(g, S)
           Bad == {n \in Nat : \E S \in SUBSET U : Cardinality(S) = n /\ ~Good(S)}
<1>1. \A S \in SUBSET U : IsFiniteSet(S) /\ Cardinality(S) \in Nat
  BY FS_Subset, FS_CardinalityType
<1>2. Bad = {}
  <2> SUFFICES ASSUME Bad # {} PROVE FALSE
    OBVIOUS
  <2>1. PICK n \in Bad : \A m \in Bad : n <= m
    <3>1. Bad \in SUBSET Nat
      OBVIOUS
    <3> HIDE DEF Bad
    <3> QED BY <3>1, SmallestNat
  <2>2. PICK S \in SUBSET U : Cardinality(S) = n /\ ~Good(S)
    BY <2>1
  <2>3. n \in Nat /\ IsFiniteSet(S)
    BY <1>1, <2>1
  <2>4. S # {}
    BY <2>2, SumOfNone
  <2> DEFINE t == S \ {Pick(S)}
  <2>5. Pick(S) \in S /\ Cardinality(t) = n - 1 /\ t \in SUBSET U
    BY <2>2, <2>3, <2>4, SumPicks
  <2>6. /\ SumFunctionOnSet(f, S) = f[Pick(S)] + SumFunctionOnSet(f, t)
        /\ SumFunctionOnSet(g, S) = g[Pick(S)] + SumFunctionOnSet(g, t)
    BY <2>3, <2>4, SumPicks
  <2>7. n - 1 \in Nat /\ ~(n <= n - 1)
    BY <1>1, <2>3, <2>5
  <2>8. ~(n - 1 \in Bad)
    <3> HIDE DEF Bad
    <3> QED BY <2>1, <2>7
  <2> HIDE DEF t
  <2>9. Good(t)
    BY <2>5, <2>7, <2>8
  <2>10. f[Pick(S)] \in Nat /\ g[Pick(S)] \in Nat /\ f[Pick(S)] <= g[Pick(S)]
    BY <2>5
  <2> QED BY <2>2, <2>6, <2>9, <2>10
<1> QED BY <1>1, <1>2

LEMMA SumsEqual ==
  ASSUME NEW f, NEW g, NEW U, IsFiniteSet(U),
         \A x \in U : f[x] \in Nat /\ g[x] = f[x]
  PROVE  SumFunctionOnSet(f, U) \in Nat /\ SumFunctionOnSet(f, U) = SumFunctionOnSet(g, U)
<1>1. \A x \in U : f[x] <= g[x] /\ g[x] <= f[x] /\ g[x] \in Nat
  OBVIOUS
<1> QED BY <1>1, SumsCompare

\* Any element can be added last.
LEMMA SumSplits ==
  ASSUME NEW f, NEW U, IsFiniteSet(U), \A x \in U : f[x] \in Nat, NEW z \in U
  PROVE  SumFunctionOnSet(f, U) = f[z] + SumFunctionOnSet(f, U \ {z})
<1> DEFINE F(S) == SumFunctionOnSet(f, S)
           Good(S) == \A x \in S : F(S) = f[x] + F(S \ {x})
           Bad == {n \in Nat : \E S \in SUBSET U : Cardinality(S) = n /\ ~Good(S)}
<1>1. \A S \in SUBSET U : IsFiniteSet(S) /\ Cardinality(S) \in Nat
  BY FS_Subset, FS_CardinalityType
<1>2. \A S \in SUBSET U : F(S) \in Nat
  BY <1>1, SumsEqual
<1>3. ASSUME NEW S \in SUBSET U, NEW x \in S
      PROVE  S \ {x} \in SUBSET U /\ Cardinality(S \ {x}) = Cardinality(S) - 1
  BY <1>1, FS_RemoveElement
<1>4. ASSUME NEW S \in SUBSET U, S # {}
      PROVE  Pick(S) \in S /\ F(S) = f[Pick(S)] + F(S \ {Pick(S)})
  BY <1>1, <1>4, SumPicks
<1> HIDE DEF F
<1>5. Bad = {}
  <2> SUFFICES ASSUME Bad # {} PROVE FALSE
    OBVIOUS
  <2>1. PICK n \in Bad : \A m \in Bad : n <= m
    <3>1. Bad \in SUBSET Nat
      OBVIOUS
    <3> HIDE DEF Bad
    <3> QED BY <3>1, SmallestNat
  <2>2. PICK S \in SUBSET U : Cardinality(S) = n /\ ~Good(S)
    BY <2>1
  <2>3. PICK x \in S : F(S) # f[x] + F(S \ {x})
    BY <2>2
  <2>4. n \in Nat
    BY <2>1
  <2> DEFINE p == Pick(S)
  <2>5. p \in S /\ F(S) = f[p] + F(S \ {p}) /\ p # x
    BY <1>4, <2>3
  <2> HIDE DEF p
  <2>6. /\ S \ {x} \in SUBSET U /\ Cardinality(S \ {x}) = n - 1
        /\ S \ {p} \in SUBSET U /\ Cardinality(S \ {p}) = n - 1
    BY <1>3, <2>2, <2>3, <2>5
  <2>7. n - 1 \in Nat /\ ~(n <= n - 1)
    BY <1>1, <2>4, <2>6
  <2>8. ~(n - 1 \in Bad)
    <3> HIDE DEF Bad
    <3> QED BY <2>1, <2>7
  <2>9. Good(S \ {x}) /\ Good(S \ {p})
    <3> HIDE DEF Good
    <3> QED BY <2>6, <2>7, <2>8
  <2> DEFINE R == (S \ {p}) \ {x}
  <2>10. (S \ {x}) \ {p} = R /\ p \in S \ {x} /\ x \in S \ {p} /\ R \in SUBSET U
    BY <2>3, <2>5
  <2> HIDE DEF R
  <2>11. F(S \ {x}) = f[p] + F(R)
    BY <2>9, <2>10
  <2>12. F(S \ {p}) = f[x] + F(R)
    BY <2>9, <2>10 DEF R
  <2>13. f[p] \in Nat /\ f[x] \in Nat /\ F(R) \in Nat
    BY <1>2, <2>3, <2>5, <2>10
  <2> QED BY <2>3, <2>5, <2>11, <2>12, <2>13
<1>6. Cardinality(U) \in Nat /\ U \in SUBSET U
  BY <1>1
<1>7. Good(U)
  <2> HIDE DEF Good
  <2> QED BY <1>5, <1>6
<1> QED BY <1>7 DEF F

\* The same values under other names.
LEMMA SumRenames ==
  ASSUME NEW f, NEW g, NEW U, IsFiniteSet(U), NEW b,
         \A x \in U : f[x] \in Nat /\ g[b[x]] = f[x],
         \A x, y \in U : b[x] = b[y] => x = y
  PROVE  SumFunctionOnSet(f, U) = SumFunctionOnSet(g, {b[x] : x \in U})
<1> DEFINE Image(S) == {b[x] : x \in S}
           F(S) == SumFunctionOnSet(f, S)
           G(S) == SumFunctionOnSet(g, S)
           Good(S) == F(S) = G(Image(S))
           Bad == {n \in Nat : \E S \in SUBSET U : Cardinality(S) = n /\ ~Good(S)}
<1>1. \A S \in SUBSET U : IsFiniteSet(S) /\ Cardinality(S) \in Nat
  BY FS_Subset, FS_CardinalityType
<1>2. ASSUME NEW S \in SUBSET U PROVE IsFiniteSet(Image(S))
  <2> DEFINE h == [x \in S |-> b[x]]
  <2>1. h \in Surjection(S, Image(S))
    BY DEF Surjection
  <2> QED BY <1>1, <2>1, FS_Surjection
<1>3. ASSUME NEW S \in SUBSET U, S # {}
      PROVE  Pick(S) \in S /\ F(S) = f[Pick(S)] + F(S \ {Pick(S)}) /\ Cardinality(S \ {Pick(S)}) = Cardinality(S) - 1
  BY <1>1, <1>3, SumPicks
<1>4. ASSUME NEW S \in SUBSET U, NEW x \in S
      PROVE  G(Image(S)) = g[b[x]] + G(Image(S \ {x}))
  <2>1. \A y \in Image(S) : g[y] \in Nat
    OBVIOUS
  <2>2. b[x] \in Image(S) /\ Image(S) \ {b[x]} = Image(S \ {x})
    OBVIOUS
  <2> QED BY <1>2, <2>1, <2>2, SumSplits
<1>5. G(Image({})) = 0 /\ F({}) = 0
  <2>1. Image({}) = {}
    OBVIOUS
  <2> QED BY <2>1, SumOfNone
<1> HIDE DEF F, G, Image
<1>6. Bad = {}
  <2> SUFFICES ASSUME Bad # {} PROVE FALSE
    OBVIOUS
  <2>1. PICK n \in Bad : \A m \in Bad : n <= m
    <3>1. Bad \in SUBSET Nat
      OBVIOUS
    <3> HIDE DEF Bad
    <3> QED BY <3>1, SmallestNat
  <2>2. PICK S \in SUBSET U : Cardinality(S) = n /\ ~Good(S)
    BY <2>1
  <2>3. n \in Nat /\ S # {}
    BY <1>5, <2>1, <2>2
  <2> DEFINE p == Pick(S)
             t == S \ {p}
  <2>4. p \in S /\ F(S) = f[p] + F(t) /\ Cardinality(t) = n - 1 /\ t \in SUBSET U
    BY <1>3, <2>2, <2>3
  <2> HIDE DEF p
  <2>5. n - 1 \in Nat /\ ~(n <= n - 1)
    BY <1>1, <2>3, <2>4
  <2>6. ~(n - 1 \in Bad)
    <3> HIDE DEF Bad
    <3> QED BY <2>1, <2>5
  <2>7. G(Image(S)) = g[b[p]] + G(Image(t)) /\ g[b[p]] = f[p]
    BY <1>4, <2>4
  <2>8. Good(t)
    <3> HIDE DEF Good, t
    <3> QED BY <2>4, <2>5, <2>6
  <2> QED BY <2>2, <2>4, <2>7, <2>8
<1>7. Cardinality(U) \in Nat /\ U \in SUBSET U
  BY <1>1
<1>8. Good(U)
  <2> HIDE DEF Good
  <2> QED BY <1>6, <1>7
<1> QED BY <1>8 DEF F, G, Image

LEMMA SumOfZeros ==
  ASSUME NEW f, NEW U, IsFiniteSet(U), \A x \in U : f[x] = 0
  PROVE  SumFunctionOnSet(f, U) = 0
<1> DEFINE Bad == {n \in Nat : \E S \in SUBSET U : Cardinality(S) = n /\ SumFunctionOnSet(f, S) # 0}
<1>1. \A S \in SUBSET U : IsFiniteSet(S) /\ Cardinality(S) \in Nat
  BY FS_Subset, FS_CardinalityType
<1>2. Bad = {}
  <2> SUFFICES ASSUME Bad # {} PROVE FALSE
    OBVIOUS
  <2>1. PICK n \in Bad : \A m \in Bad : n <= m
    <3>1. Bad \in SUBSET Nat
      OBVIOUS
    <3> HIDE DEF Bad
    <3> QED BY <3>1, SmallestNat
  <2>2. PICK S \in SUBSET U : Cardinality(S) = n /\ SumFunctionOnSet(f, S) # 0
    BY <2>1
  <2>3. n \in Nat /\ S # {} /\ IsFiniteSet(S)
    BY <1>1, <2>1, <2>2, SumOfNone
  <2> DEFINE t == S \ {Pick(S)}
  <2>4. /\ Pick(S) \in S /\ SumFunctionOnSet(f, S) = f[Pick(S)] + SumFunctionOnSet(f, t)
        /\ Cardinality(t) = n - 1 /\ t \in SUBSET U
    BY <2>2, <2>3, SumPicks
  <2>5. n - 1 \in Nat /\ ~(n <= n - 1)
    BY <1>1, <2>3, <2>4
  <2>6. ~(n - 1 \in Bad)
    <3> HIDE DEF Bad
    <3> QED BY <2>1, <2>5
  <2>7. SumFunctionOnSet(f, t) = 0
    BY <2>4, <2>5, <2>6
  <2> QED BY <2>2, <2>4, <2>7
<1> QED BY <1>1, <1>2

(***************************************************************************)
(* The pool.                                                               *)
(***************************************************************************)
IsOrder(P, f) == /\ f \in [1..Cardinality(P) -> P]
                 /\ \A i, j \in 1..Cardinality(P) : i < j => f[i] < f[j]

\* By the least size for which there is none.
LEMMA HasOrder ==
  ASSUME NEW P \in SUBSET Nat, IsFiniteSet(P)
  PROVE  \E f : IsOrder(P, f)
<1> DEFINE Bad == {n \in Nat : \E Q \in SUBSET Nat : /\ IsFiniteSet(Q) /\ Cardinality(Q) = n
                                                    /\ ~\E f : IsOrder(Q, f)}
<1>1. Bad = {}
  <2> SUFFICES ASSUME Bad # {} PROVE FALSE
    OBVIOUS
  <2>1. PICK n \in Bad : \A m \in Bad : n <= m
    <3>1. Bad \in SUBSET Nat
      OBVIOUS
    <3> HIDE DEF Bad
    <3> QED BY <3>1, SmallestNat
  <2>2. PICK Q \in SUBSET Nat : IsFiniteSet(Q) /\ Cardinality(Q) = n /\ ~\E f : IsOrder(Q, f)
    BY <2>1
  <2>3. n \in Nat
    BY <2>1
  <2>4. CASE Q = {}
    <3>1. Cardinality(Q) = 0
      BY <2>4, FS_EmptySet
    <3>2. IsOrder(Q, [i \in 1..0 |-> 0])
      BY <3>1 DEF IsOrder
    <3> QED BY <2>2, <3>2
  <2>5. CASE Q # {}
    <3>1. PICK m \in Q : \A k \in Q : m <= k
      BY <2>5, SmallestNat
    <3> DEFINE S == Q \ {m}
    <3>2. IsFiniteSet(S) /\ Cardinality(S) = n - 1 /\ S \in SUBSET Nat
      BY <2>2, <3>1, FS_RemoveElement
    <3>3. Cardinality(S) \in Nat
      BY <3>2, FS_CardinalityType
    <3>4. n - 1 \in Nat /\ ~(n - 1 \in Bad)
      BY <2>1, <2>3, <3>2, <3>3
    <3>5. PICK g : IsOrder(S, g)
      BY <3>2, <3>4
    <3> DEFINE f == [i \in 1..n |-> IF i = 1 THEN m ELSE g[i - 1]]
    <3>6. /\ g \in [1..n - 1 -> S]
          /\ \A i, j \in 1..n - 1 : i < j => g[i] < g[j]
      BY <3>2, <3>5 DEF IsOrder
    <3>7. \A s \in S : m < s /\ s \in Q /\ s \in Nat
      BY <3>1
    <3> HIDE DEF S
    <3>8. \A i \in 1..n : i # 1 => i - 1 \in 1..n - 1 /\ g[i - 1] \in S
      BY <2>3, <3>6
    <3>9. f \in [1..n -> Q]
      BY <3>1, <3>7, <3>8
    <3>10. ASSUME NEW i \in 1..n, NEW j \in 1..n, i < j PROVE f[i] < f[j]
      <4>1. j # 1 /\ f[j] = g[j - 1] /\ g[j - 1] \in S
        BY <2>3, <3>8, <3>10
      <4>2. CASE i = 1
        BY <3>7, <4>1, <4>2
      <4>3. CASE i # 1
        <5>1. f[i] = g[i - 1] /\ i - 1 \in 1..n - 1 /\ j - 1 \in 1..n - 1 /\ i - 1 < j - 1
          BY <2>3, <3>8, <3>10, <4>1, <4>3
        <5> QED BY <3>6, <4>1, <5>1
      <4> QED BY <4>2, <4>3
    <3> HIDE DEF f
    <3>11. IsOrder(Q, f)
      BY <2>2, <3>9, <3>10 DEF IsOrder
    <3> QED BY <2>2, <3>11
  <2> QED BY <2>4, <2>5
<1>2. Cardinality(P) \in Nat
  BY FS_CardinalityType
<1> QED BY <1>1, <1>2

\* What is picked is all that is at the positions, each once.
Selects(t, s, P, n, f) ==
  /\ n \in Nat /\ f \in [1..n -> P] /\ DOMAIN t = 1..n
  /\ \A i, j \in 1..n : i < j => f[i] < f[j]
  /\ \A p \in P : \E i \in 1..n : f[i] = p
  /\ t = [i \in 1..n |-> s[f[i]]]

LEMMA PickedAre ==
  ASSUME NEW s, NEW m \in Nat, NEW P \in SUBSET (1..m)
  PROVE  \E n, f : Selects(Picked(s, P), s, P, n, f)
<1> DEFINE n == Cardinality(P)
           f == InOrder(P)
<1>1. IsFiniteSet(P) /\ n \in Nat /\ P \in SUBSET Nat
  BY PartOfUpTo
<1>2. IsOrder(P, f)
  <2>1. PICK g : IsOrder(P, g)
    BY <1>1, HasOrder
  <2> QED BY <2>1 DEF InOrder, IsOrder
<1>3. f \in [1..n -> P] /\ \A i, j \in 1..n : i < j => f[i] < f[j]
  BY <1>2 DEF IsOrder
<1>4. Picked(s, P) = [i \in 1..n |-> s[f[i]]]
  BY DEF Picked
<1> HIDE DEF f, n
<1>5. ASSUME NEW i \in 1..n, NEW j \in 1..n, f[i] = f[j] PROVE i = j
  <2>1. f[i] \in P /\ f[i] \in Nat /\ i \in Nat /\ j \in Nat
    <3>1. f[i] \in P
      BY <1>3
    <3>2. f[i] \in Nat
      BY <1>1, <3>1
    <3> QED BY <1>1, <3>1, <3>2
  <2>2. ~(i < j) /\ ~(j < i)
    BY <1>3, <1>5, <2>1
  <2> QED BY <2>1, <2>2
<1>6. f \in Injection(1..n, P)
  BY <1>3, <1>5 DEF Injection, IsInjective
<1>7. Cardinality(1..n) = n
  BY <1>1, UpTo
<1>8. f \in Surjection(1..n, P)
  BY <1>1, <1>6, <1>7, FS_Injection DEF n
<1>9. \A p \in P : \E i \in 1..n : f[i] = p
  BY <1>8 DEF Surjection
<1>10. Selects(Picked(s, P), s, P, n, f)
  BY <1>1, <1>3, <1>4, <1>9 DEF Selects
<1> QED BY <1>10

\* unique_targets: some are left, with one key each.
LEMMA UniqueAre ==
  ASSUME NEW cs \in Seq(Candidates), cs # <<>>
  PROVE  LET t == UniqueTargets(cs, Len(cs)) IN
         /\ t \in Seq(Candidates) /\ Len(t) \in Nat \ {0} /\ DOMAIN t = 1..Len(t)
         /\ \A i, j \in 1..Len(t) : t[i].key = t[j].key => i = j
<1> DEFINE first == {i \in DOMAIN cs : \A j \in 1..(i - 1) : cs[j].key # cs[i].key}
           P == {i \in first : Cardinality(first \cap 1..i) <= Len(cs)}
           t == Picked(cs, P)
<1>1. UniqueTargets(cs, Len(cs)) = t
  BY DEF UniqueTargets
<1>2. Len(cs) \in Nat \ {0} /\ DOMAIN cs = 1..Len(cs) /\ \A i \in 1..Len(cs) : cs[i] \in Candidates
  OBVIOUS
<1>3. first \in SUBSET (1..Len(cs)) /\ P \in SUBSET (1..Len(cs)) /\ P \in SUBSET first
  BY <1>2
<1>4. 1 \in P
  <2>1. 1 \in first
    BY <1>2
  <2>2. first \cap 1..1 = {1}
    BY <1>3, <2>1
  <2>3. Cardinality(first \cap 1..1) = 1
    BY <2>2, FS_Singleton
  <2> QED BY <1>2, <2>1, <2>3
<1>5. PICK n, f : Selects(t, cs, P, n, f)
  <2>1. Len(cs) \in Nat
    OBVIOUS
  <2> HIDE DEF P
  <2> QED BY <1>3, <2>1, PickedAre
<1>6. \A p \in P : p \in 1..Len(cs) /\ \A j \in 1..(p - 1) : cs[j].key # cs[p].key
  BY <1>2
<1> HIDE DEF P, t
<1>5a. /\ n \in Nat /\ f \in [1..n -> P] /\ DOMAIN t = 1..n
       /\ \A i, j \in 1..n : i < j => f[i] < f[j]
       /\ \A p \in P : \E i \in 1..n : f[i] = p
       /\ t = [i \in 1..n |-> cs[f[i]]]
  BY <1>5 DEF Selects
<1>7. t \in [1..n -> Candidates]
  <2>1. ASSUME NEW i \in 1..n PROVE cs[f[i]] \in Candidates
    <3>1. f[i] \in 1..Len(cs)
      BY <1>5a, <1>6
    <3> QED BY <1>2, <3>1
  <2> QED BY <1>5a, <2>1
<1>8. t \in Seq(Candidates) /\ Len(t) = n
  BY <1>5a, <1>7, IsASeq, LenProperties
<1>9. n # 0
  BY <1>4, <1>5a
<1>10. ASSUME NEW i \in 1..n, NEW j \in 1..n, i < j PROVE t[i].key # t[j].key
  <2>1. f[i] \in P /\ f[j] \in P /\ f[i] < f[j]
    BY <1>5a, <1>10
  <2>2. f[i] \in 1..(f[j] - 1)
    BY <1>6, <2>1
  <2>3. cs[f[i]].key # cs[f[j]].key
    BY <1>6, <2>1, <2>2
  <2> QED BY <1>5a, <2>3
<1>11. \A i, j \in 1..n : t[i].key = t[j].key => i = j
  BY <1>10
<1> QED BY <1>1, <1>5a, <1>8, <1>9, <1>11

Counts == [load : Nat, c2s : Nat, s2c : Nat]
Entries == [key : Targets, ping : Nat \cup {NoPing}, source : {"Scan", "Live"}, counter : Nat]

\* A counter has the index of its target in the history, where each target has one
\* place; the list is part of the history.
IsRecord(r, fields) == DOMAIN r = fields /\ r = [x \in fields |-> r[x]]
PoolFields == {"strategy", "members", "history", "cursor", "generation"}
Kept(p, cs) ==
  /\ IsRecord(p, PoolFields)
  /\ p.strategy \in Strategies /\ p.history \in Seq(Entries) /\ p.generation \in Nat
  /\ cs \in Seq(Counts) /\ Len(cs) = Len(p.history)
  /\ \A i \in 1..Len(p.history) : p.history[i].counter = i
  /\ \A i, j \in 1..Len(p.history) : p.history[i].key = p.history[j].key => i = j
Listed(p) ==
  /\ p.members \in Seq(Entries) /\ Len(p.members) # 0
  /\ p.cursor \in Nat /\ p.cursor < Len(p.members)
  /\ \A i \in 1..Len(p.members) :
       /\ p.members[i].counter \in 1..Len(p.history)
       /\ p.history[p.members[i].counter] = p.members[i]

LEMMA IndexOf ==
  ASSUME NEW s, NEW key, key \in KeysOf(s)
  PROVE  HistoryIndex(s, key) \in DOMAIN s /\ s[HistoryIndex(s, key)].key = key
BY DEF HistoryIndex, KeysOf

LEMMA IndexIs ==
  ASSUME NEW s, NEW k \in DOMAIN s, \A l \in DOMAIN s : s[l].key = s[k].key => l = k
  PROVE  HistoryIndex(s, s[k].key) = k /\ s[k].key \in KeysOf(s)
BY DEF HistoryIndex, KeysOf

LEMMA IsSeq ==
  ASSUME NEW n \in Nat, NEW S, NEW s \in [1..n -> S]
  PROVE  s \in Seq(S) /\ Len(s) = n
BY IsASeq, LenProperties

IsJoin(h, S, s, t, m, n) ==
  /\ h \in Seq(S) /\ Len(h) = m + n
  /\ \A i \in 1..m : h[i] = s[i]
  /\ \A k \in 1..n : h[m + k] = t[k]

LEMMA Joined ==
  ASSUME NEW S, NEW s \in Seq(S), NEW t \in Seq(S), NEW m \in Nat, NEW n \in Nat,
         Len(s) = m, Len(t) = n
  PROVE  IsJoin(s \o t, S, s, t, m, n)
<1>1. s \o t \in Seq(S) /\ Len(s \o t) = m + n
  BY ConcatProperties
<1>2. \A i \in 1..(m + n) : (s \o t)[i] = IF i <= m THEN s[i] ELSE t[i - m]
  BY ConcatProperties
<1>3. ASSUME NEW i \in 1..m PROVE (s \o t)[i] = s[i]
  <2>1. i \in 1..(m + n) /\ i <= m
    OBVIOUS
  <2> QED BY <1>2, <2>1
<1>4. ASSUME NEW k \in 1..n PROVE (s \o t)[m + k] = t[k]
  <2>1. m + k \in 1..(m + n) /\ ~(m + k <= m) /\ (m + k) - m = k
    OBVIOUS
  <2> QED BY <1>2, <2>1
<1> QED BY <1>1, <1>3, <1>4 DEF IsJoin

\* TargetPool::replace keeps the counters of the targets it has seen, and gives a new
\* one to each of the others.
LEMMA ReplacedIs ==
  ASSUME NEW p, NEW cs, Kept(p, cs), NEW ts \in Seq(Candidates), ts # <<>>
  PROVE  LET r == Replaced(p, cs, ts) IN
         /\ Kept(r.pool, r.counters) /\ Listed(r.pool)
         /\ r.pool.generation = p.generation + 1
         /\ Len(cs) <= Len(r.counters)
         /\ \A i \in 1..Len(cs) : r.counters[i] = cs[i] /\ r.pool.history[i].key = p.history[i].key
         /\ \A i \in (Len(cs) + 1)..Len(r.counters) : r.counters[i] = NewCounter
<1> DEFINE H == p.history
           m == Len(H)
           t == UniqueTargets(ts, Len(ts))
           N == {i \in DOMAIN t : t[i].key \notin KeysOf(H)}
           fresh == Picked(t, N)
           CounterOf(key) ==
             IF key \in KeysOf(H) THEN H[HistoryIndex(H, key)].counter
             ELSE Len(cs) + HistoryIndex(fresh, key)
           Member(c) == [key |-> c.key, ping |-> c.latency, source |-> "Scan",
                         counter |-> CounterOf(c.key)]
           Updated(e) == IF e.key \in KeysOf(t) THEN Member(t[HistoryIndex(t, e.key)]) ELSE e
           members == [i \in DOMAIN t |-> Member(t[i])]
           h1 == [i \in DOMAIN H |-> Updated(H[i])]
           h2 == [i \in DOMAIN fresh |-> Member(fresh[i])]
           new == [i \in DOMAIN fresh |-> NewCounter]
           q == [p EXCEPT !.members = members, !.history = h1 \o h2, !.cursor = 0, !.generation = @ + 1]
<1>1. /\ IsRecord(p, PoolFields)
      /\ p.strategy \in Strategies /\ H \in Seq(Entries) /\ p.generation \in Nat
      /\ cs \in Seq(Counts) /\ Len(cs) = m /\ m \in Nat /\ DOMAIN H = 1..m
      /\ \A i \in 1..m : H[i].counter = i /\ H[i] \in Entries
      /\ \A i, j \in 1..m : H[i].key = H[j].key => i = j
  BY DEF Kept
<1>2. Replaced(p, cs, ts) = [pool |-> q, counters |-> cs \o new]
  BY DEF Replaced
<1>3. /\ t \in Seq(Candidates) /\ Len(t) \in Nat \ {0} /\ DOMAIN t = 1..Len(t)
      /\ \A i, j \in 1..Len(t) : t[i].key = t[j].key => i = j
      /\ \A i \in 1..Len(t) : t[i] \in Candidates
  BY UniqueAre
<1>4. PICK n, f : Selects(fresh, t, N, n, f)
  <2>1. Len(t) \in Nat /\ N \in SUBSET (1..Len(t))
    BY <1>3
  <2> HIDE DEF t, N
  <2> QED BY <2>1, PickedAre
<1> HIDE DEF t, fresh
<1>5. /\ n \in Nat /\ DOMAIN fresh = 1..n /\ f \in [1..n -> N]
      /\ \A k \in 1..n : f[k] \in 1..Len(t) /\ fresh[k] = t[f[k]] /\ t[f[k]].key \notin KeysOf(H)
      /\ \A i \in N : \E k \in 1..n : f[k] = i
  <2>1. n \in Nat /\ DOMAIN fresh = 1..n /\ f \in [1..n -> N] /\ \A i \in N : \E k \in 1..n : f[k] = i
    BY <1>4 DEF Selects
  <2>2. ASSUME NEW k \in 1..n PROVE f[k] \in 1..Len(t) /\ fresh[k] = t[f[k]] /\ t[f[k]].key \notin KeysOf(H)
    <3>1. f[k] \in N
      BY <2>1
    <3>2. fresh[k] = t[f[k]]
      BY <1>4 DEF Selects
    <3> QED BY <1>3, <3>1, <3>2
  <2> QED BY <2>1, <2>2
<1>6. ASSUME NEW k \in 1..n, NEW l \in 1..n, fresh[k].key = fresh[l].key PROVE k = l
  <2>1. f[k] = f[l]
    BY <1>3, <1>5, <1>6
  <2>2. f[k] \in Nat /\ k \in Nat /\ l \in Nat
    BY <1>5
  <2>3. ~(k < l) /\ ~(l < k)
    <3>1. \A i, j \in 1..n : i < j => f[i] < f[j]
      BY <1>4 DEF Selects
    <3> QED BY <2>1, <2>2, <3>1
  <2> QED BY <2>2, <2>3
\* The counter of a known target, and of a new one.
<1>7. ASSUME NEW i \in 1..m PROVE H[i].key \in KeysOf(H) /\ CounterOf(H[i].key) = i
  <2>1. H[i].key \in KeysOf(H)
    BY <1>1 DEF KeysOf
  <2>2. HistoryIndex(H, H[i].key) = i
    BY <1>1, <2>1, IndexOf
  <2> QED BY <1>1, <2>1, <2>2
<1>8. ASSUME NEW k \in 1..n PROVE fresh[k].key \notin KeysOf(H) /\ CounterOf(fresh[k].key) = m + k
  <2>1. fresh[k].key \in KeysOf(fresh)
    BY <1>5 DEF KeysOf
  <2>2. HistoryIndex(fresh, fresh[k].key) = k
    <3>1. k \in DOMAIN fresh /\ \A l \in DOMAIN fresh : fresh[l].key = fresh[k].key => l = k
      BY <1>5, <1>6
    <3> QED BY <3>1, IndexIs
  <2>3. fresh[k].key \notin KeysOf(H)
    BY <1>5
  <2> QED BY <1>1, <2>2, <2>3
<1>9. ASSUME NEW i \in 1..Len(t) PROVE \/ \E j \in 1..m : H[j].key = t[i].key
                                       \/ \E k \in 1..n : f[k] = i
  <2>1. CASE t[i].key \in KeysOf(H)
    BY <1>1, <2>1 DEF KeysOf
  <2>2. CASE t[i].key \notin KeysOf(H)
    <3>1. i \in N
      BY <1>3, <2>2
    <3> QED BY <1>5, <3>1
  <2> QED BY <2>1, <2>2
<1>10. ASSUME NEW i \in 1..Len(t) PROVE HistoryIndex(t, t[i].key) = i /\ t[i].key \in KeysOf(t)
  <2>1. t[i].key \in KeysOf(t)
    BY <1>3 DEF KeysOf
  <2> QED BY <1>3, <2>1, IndexOf
<1>11. ASSUME NEW i \in 1..Len(t) PROVE Member(t[i]) \in Entries /\ Member(t[i]).counter \in 1..(m + n)
  <2>1. CounterOf(t[i].key) \in 1..(m + n)
    <3>1. CASE \E j \in 1..m : H[j].key = t[i].key
      <4>1. PICK j \in 1..m : H[j].key = t[i].key
        BY <3>1
      <4>2. CounterOf(t[i].key) = j
        <5> HIDE DEF CounterOf
        <5> QED BY <1>7, <4>1
      <4> HIDE DEF CounterOf
      <4> QED BY <1>1, <1>5, <4>2
    <3>2. CASE \E k \in 1..n : f[k] = i
      <4>1. PICK k \in 1..n : f[k] = i
        BY <3>2
      <4>2. CounterOf(t[i].key) = m + k
        <5> HIDE DEF CounterOf
        <5> QED BY <1>5, <1>8, <4>1
      <4> HIDE DEF CounterOf
      <4> QED BY SMTT(30), <1>1, <1>5, <4>2
    <3> QED BY <1>9, <3>1, <3>2
  <2>2. t[i].key \in Targets /\ t[i].latency \in Nat \cup {NoPing}
    BY <1>3 DEF Candidates
  <2>3. CounterOf(t[i].key) \in Nat
    <3> HIDE DEF CounterOf
    <3> QED BY <1>1, <1>5, <2>1
  <2> HIDE DEF CounterOf
  <2> QED BY <2>1, <2>2, <2>3 DEF Entries
\* The two parts of the new history.
<1>12. ASSUME NEW i \in 1..m
       PROVE  /\ h1[i] \in Entries /\ h1[i].key = H[i].key /\ h1[i].counter = i
              /\ \A k \in 1..Len(t) : t[k].key = H[i].key => h1[i] = Member(t[k])
  <2>1. h1[i] = Updated(H[i])
    BY <1>1
  <2>2. CASE H[i].key \in KeysOf(t)
    <3> DEFINE k == HistoryIndex(t, H[i].key)
    <3>1. k \in 1..Len(t) /\ t[k].key = H[i].key
      BY <1>3, <2>2, IndexOf
    <3>2. h1[i] = Member(t[k])
      BY <2>1, <2>2
    <3>3. Member(t[k]).key = t[k].key /\ Member(t[k]).counter = CounterOf(t[k].key)
      OBVIOUS
    <3>4. CounterOf(t[k].key) = i
      <4> HIDE DEF CounterOf, k
      <4> QED BY <1>7, <3>1
    <3>5. \A l \in 1..Len(t) : t[l].key = H[i].key => l = k
      BY <1>3, <3>1
    <3> HIDE DEF k, Member, h1
    <3> QED BY <1>11, <3>1, <3>2, <3>3, <3>4, <3>5
  <2>3. CASE H[i].key \notin KeysOf(t)
    <3>1. h1[i] = H[i]
      BY <2>1, <2>3
    <3>2. \A k \in 1..Len(t) : t[k].key # H[i].key
      BY <1>3, <2>3 DEF KeysOf
    <3> HIDE DEF h1, Member
    <3> QED BY <1>1, <3>1, <3>2
  <2> QED BY <2>2, <2>3
<1>13. ASSUME NEW k \in 1..n
       PROVE  /\ h2[k] \in Entries /\ h2[k].key = t[f[k]].key /\ h2[k].counter = m + k
              /\ h2[k] = Member(t[f[k]])
  <2>1. h2[k] = Member(t[f[k]]) /\ f[k] \in 1..Len(t)
    BY <1>5
  <2>2. Member(t[f[k]]).key = t[f[k]].key /\ Member(t[f[k]]).counter = CounterOf(t[f[k]].key)
    OBVIOUS
  <2>3. CounterOf(t[f[k]].key) = m + k
    <3> HIDE DEF CounterOf
    <3> QED BY <1>5, <1>8
  <2> HIDE DEF Member, h2, CounterOf
  <2> QED BY <1>11, <2>1, <2>2, <2>3
<1>14. h1 \in Seq(Entries) /\ Len(h1) = m /\ h2 \in Seq(Entries) /\ Len(h2) = n
  <2>1. DOMAIN h1 = 1..m /\ DOMAIN h2 = 1..n
    BY <1>1, <1>5
  <2>2. h1 = [i \in 1..m |-> h1[i]] /\ h2 = [i \in 1..n |-> h2[i]]
    BY <2>1
  <2> HIDE DEF h1, h2
  <2>3. h1 \in [1..m -> Entries] /\ h2 \in [1..n -> Entries]
    BY <1>12, <1>13, <2>2
  <2> HIDE DEF m
  <2> QED BY <1>1, <1>5, <2>3, IsSeq
<1>15. new \in Seq(Counts) /\ Len(new) = n /\ \A i \in 1..n : new[i] = NewCounter
  <2>1. new \in [1..n -> Counts] /\ \A i \in 1..n : new[i] = NewCounter
    BY <1>5 DEF Counts, NewCounter
  <2> HIDE DEF new
  <2> QED BY <1>5, <2>1, IsSeq
<1> HIDE DEF h1, h2, new, Member
<1> DEFINE h == h1 \o h2
           all == cs \o new
<1> HIDE DEF m
<1>16. /\ h \in Seq(Entries) /\ Len(h) = m + n
       /\ \A i \in 1..m : h[i] = h1[i]
       /\ \A k \in 1..n : h[m + k] = h2[k]
  <2>1. IsJoin(h, Entries, h1, h2, m, n)
    BY <1>1, <1>5, <1>14, Joined
  <2> HIDE DEF h
  <2> QED BY <2>1 DEF IsJoin
<1>17. /\ all \in Seq(Counts) /\ Len(all) = m + n
       /\ \A i \in 1..m : all[i] = cs[i]
       /\ \A i \in (m + 1)..(m + n) : all[i] = NewCounter
  <2>1. /\ all \in Seq(Counts) /\ Len(all) = m + n
        /\ \A i \in 1..m : all[i] = cs[i]
        /\ \A k \in 1..n : all[m + k] = new[k]
    <3>1. IsJoin(all, Counts, cs, new, m, n)
      BY <1>1, <1>5, <1>15, Joined
    <3> HIDE DEF all
    <3> QED BY <3>1 DEF IsJoin
  <2>2. ASSUME NEW i \in (m + 1)..(m + n) PROVE all[i] = NewCounter
    <3>1. i - m \in 1..n /\ m + (i - m) = i
      BY <1>1, <1>5
    <3>2. all[m + (i - m)] = NewCounter
      BY <1>15, <2>1, <3>1
    <3> QED BY <3>1, <3>2
  <2> QED BY <2>1, <2>2
<1> HIDE DEF h, all
<1>18. \A i \in 1..(m + n) : i \in 1..m \/ \E k \in 1..n : i = m + k
  <2>1. ASSUME NEW i \in 1..(m + n), i \notin 1..m PROVE i - m \in 1..n /\ i = m + (i - m)
    BY <1>1, <1>5, <2>1
  <2> QED BY <2>1
<1>19. ASSUME NEW i \in 1..(m + n) PROVE h[i].counter = i
  <2>1. CASE i \in 1..m
    BY <1>12, <1>16, <2>1
  <2>2. CASE \E k \in 1..n : i = m + k
    BY <1>13, <1>16, <2>2
  <2> QED BY <1>18, <2>1, <2>2
<1>20. ASSUME NEW i \in 1..(m + n), NEW j \in 1..(m + n), h[i].key = h[j].key PROVE i = j
  <2>1. ASSUME NEW a \in 1..m, NEW k \in 1..n PROVE h[a].key # h[m + k].key
    <3>1. h[a].key = H[a].key /\ H[a].key \in KeysOf(H)
      BY <1>7, <1>12, <1>16
    <3>2. h[m + k].key = t[f[k]].key /\ t[f[k]].key \notin KeysOf(H)
      BY <1>5, <1>13, <1>16
    <3> QED BY <3>1, <3>2
  <2>2. CASE i \in 1..m /\ j \in 1..m
    BY <1>1, <1>12, <1>16, <1>20, <2>2
  <2>3. CASE i \in 1..m /\ \E k \in 1..n : j = m + k
    BY <1>20, <2>1, <2>3
  <2>4. CASE j \in 1..m /\ \E k \in 1..n : i = m + k
    BY <1>20, <2>1, <2>4
  <2>5. CASE (\E k \in 1..n : i = m + k) /\ \E k \in 1..n : j = m + k
    <3>1. PICK k \in 1..n : i = m + k
      BY <2>5
    <3>2. PICK l \in 1..n : j = m + l
      BY <2>5
    <3>3. h[i].key = fresh[k].key /\ h[j].key = fresh[l].key
      BY <1>5, <1>13, <1>16, <3>1, <3>2
    <3> QED BY <1>6, <1>20, <3>1, <3>2, <3>3
  <2> QED BY <1>18, <2>2, <2>3, <2>4, <2>5
<1>21. /\ members \in Seq(Entries) /\ Len(members) = Len(t)
       /\ \A i \in 1..Len(t) : members[i] = Member(t[i])
  <2>1. \A i \in 1..Len(t) : members[i] = Member(t[i])
    BY <1>3
  <2>2. members \in [1..Len(t) -> Entries]
    BY <1>3, <1>11
  <2> HIDE DEF members
  <2> QED BY <1>3, <2>1, <2>2, IsSeq
<1>22. ASSUME NEW i \in 1..Len(t) PROVE h[Member(t[i]).counter] = Member(t[i])
  <2>1. CASE \E j \in 1..m : H[j].key = t[i].key
    <3>1. PICK j \in 1..m : H[j].key = t[i].key
      BY <2>1
    <3>2. h[j] = Member(t[i]) /\ h[j].counter = j
      BY <1>12, <1>16, <3>1
    <3> QED BY <3>2
  <2>2. CASE \E k \in 1..n : f[k] = i
    <3>1. PICK k \in 1..n : f[k] = i
      BY <2>2
    <3>2. h[m + k] = Member(t[i]) /\ h[m + k].counter = m + k
      BY <1>13, <1>16, <3>1
    <3> QED BY <3>2
  <2> QED BY <1>9, <2>1, <2>2
<1> HIDE DEF members
<1>23. /\ q.strategy = p.strategy /\ q.members = members /\ q.history = h
       /\ q.cursor = 0 /\ q.generation = p.generation + 1
       /\ IsRecord(q, PoolFields)
  BY <1>1 DEF h, IsRecord, PoolFields
<1> HIDE DEF q
<1>24. Kept(q, all)
  BY <1>1, <1>16, <1>17, <1>19, <1>20, <1>23 DEF Kept
<1>25. Listed(q)
  <2>1. \A i \in 1..Len(members) : /\ members[i].counter \in 1..Len(h)
                                   /\ h[members[i].counter] = members[i]
    BY <1>11, <1>16, <1>21, <1>22
  <2> QED BY <1>3, <1>21, <1>23, <2>1 DEF Listed
<1>26. \A i \in 1..m : all[i] = cs[i] /\ q.history[i].key = p.history[i].key
  BY <1>12, <1>16, <1>17, <1>23
<1>27. Replaced(p, cs, ts).pool = q /\ Replaced(p, cs, ts).counters = all
  BY <1>2 DEF all
<1>28. m <= m + n
  BY <1>1, <1>5
<1> HIDE DEF all
<1> QED BY <1>1, <1>17, <1>23, <1>24, <1>25, <1>26, <1>27, <1>28

LEMMA LeastIs ==
  ASSUME NEW S, NEW key, NEW place, S # {},
         \A i \in S : key[i] \in Nat /\ place[i] \in Nat
  PROVE  Least(S, key, place) \in S
<1> DEFINE K == {key[i] : i \in S}
<1>1. PICK k \in K : \A l \in K : k <= l
  <2>1. K \in SUBSET Nat /\ K # {}
    OBVIOUS
  <2> HIDE DEF K
  <2> QED BY <2>1, SmallestNat
<1> DEFINE T == {i \in S : key[i] = k}
           Q == {place[i] : i \in T}
<1>2. PICK q \in Q : \A l \in Q : q <= l
  <2>1. Q \in SUBSET Nat /\ Q # {}
    BY <1>1
  <2> HIDE DEF Q
  <2> QED BY <2>1, SmallestNat
<1>3. PICK i \in T : place[i] = q
  BY <1>2
<1>4. \A j \in S : key[i] < key[j] \/ (key[i] = key[j] /\ place[i] <= place[j])
  <2> SUFFICES ASSUME NEW j \in S
               PROVE  key[i] < key[j] \/ (key[i] = key[j] /\ place[i] <= place[j])
    OBVIOUS
  <2>1. key[i] = k /\ k \in Nat /\ key[j] \in Nat /\ k <= key[j]
    BY <1>1, <1>3
  <2>2. CASE key[j] = k
    BY <1>2, <1>3, <2>1, <2>2
  <2>3. CASE key[j] # k
    BY <2>1, <2>3
  <2> QED BY <2>2, <2>3
<1>5. i \in S
  BY <1>3
<1> HIDE DEF T
<1> QED BY <1>4, <1>5 DEF Least

LEMMA Remainder ==
  ASSUME NEW n \in Nat \ {0}, NEW a \in Nat
  PROVE  a % n \in 0..(n - 1)
OBVIOUS

LEMMA SelectableAre ==
  ASSUME Kept(pool, counters), Listed(pool), NEW i \in Selectable
  PROVE  /\ i \in 1..Len(pool.members)
         /\ pool.members[i].counter \in 1..Len(counters)
         /\ pool.members[i].key \in Targets /\ pool.members[i].counter \in Nat
         /\ pool.history[pool.members[i].counter].key = pool.members[i].key
<1> DEFINE count == Len(pool.members)
           robin == pool.cursor % count
           offset == [k \in 1..count |-> (k - 1 + count - robin) % count]
           load == [k \in 1..count |-> counters[pool.members[k].counter].load]
           ping == [k \in 1..count |-> pool.members[k].ping]
           measured == {k \in 1..count : ping[k] # NoPing}
           rank == [k \in 1..count |-> k]
<1>1. /\ count \in Nat \ {0} /\ pool.cursor \in Nat /\ pool.strategy \in Strategies
      /\ \A k \in 1..count : /\ pool.members[k] \in Entries
                             /\ pool.members[k].counter \in 1..Len(pool.history)
                             /\ pool.history[pool.members[k].counter] = pool.members[k]
      /\ Len(counters) = Len(pool.history) /\ counters \in Seq(Counts)
  BY DEF Kept, Listed
<1>2. robin \in 0..(count - 1)
  <2> HIDE DEF count
  <2> QED BY <1>1, Remainder
<1>3. ASSUME NEW k \in 1..count
      PROVE  offset[k] \in Nat /\ load[k] \in Nat /\ rank[k] \in Nat /\ (ping[k] # NoPing => ping[k] \in Nat)
  <2>1. offset[k] \in Nat
    <3> HIDE DEF count, robin
    <3>1. k - 1 + count - robin \in Nat
      BY <1>1, <1>2
    <3>2. (k - 1 + count - robin) % count \in 0..(count - 1)
      BY <1>1, <3>1, Remainder
    <3>3. offset[k] = (k - 1 + count - robin) % count
      OBVIOUS
    <3> QED BY <3>2, <3>3
  <2>2. load[k] \in Nat
    <3>1. counters[pool.members[k].counter] \in Counts
      BY <1>1
    <3> QED BY <3>1 DEF Counts
  <2>3. ping[k] \in Nat \cup {NoPing}
    BY <1>1 DEF Entries
  <2> QED BY <2>1, <2>2, <2>3
<1>4. robin + 1 \in 1..count
  <2> HIDE DEF count, robin
  <2> QED BY <1>1, <1>2
<1>5. i \in 1..count
  <2>1. CASE pool.strategy = "RoundRobin"
    BY <1>4, <2>1 DEF Selectable
  <2>2. CASE pool.strategy = "Random"
    BY <2>2 DEF Selectable
  <2>3. CASE pool.strategy = "LeastPing"
    <3>1. i \in IF measured = {} THEN {robin + 1} ELSE {Least(measured, ping, rank)}
      BY <2>3 DEF Selectable
    <3>2. measured # {} => Least(measured, ping, rank) \in measured
      <4>1. \A k \in measured : ping[k] \in Nat /\ rank[k] \in Nat
        BY <1>3
      <4> HIDE DEF measured, ping, rank
      <4> QED BY <4>1, LeastIs
    <3> QED BY <1>4, <3>1, <3>2
  <2>4. CASE pool.strategy = "LeastLoad"
    <3>1. i \in {Least(1..count, load, offset)}
      BY <2>4 DEF Selectable
    <3>2. Least(1..count, load, offset) \in 1..count
      <4>1. 1 \in 1..count
        <5> HIDE DEF count
        <5> QED BY <1>1
      <4>2. \A k \in 1..count : load[k] \in Nat /\ offset[k] \in Nat
        <5> HIDE DEF count, load, offset
        <5> QED BY <1>3
      <4> HIDE DEF count, load, offset
      <4> QED BY <4>1, <4>2, LeastIs
    <3> QED BY <3>1, <3>2
  <2> QED BY <1>1, <2>1, <2>2, <2>3, <2>4 DEF Strategies
<1> QED BY <1>1, <1>5 DEF Entries

(***************************************************************************)
(* The inductive invariant.                                                *)
(***************************************************************************)

Copies == [n : Nat, held : BOOLEAN, done : BOOLEAN]
Reasons == {"Completed", "MaxLifetime", "NetworkError"}
Kinds == {"ConnectionAccepted", "BypassComplete", "BypassFailed", "ConnectionError"}
Events == [type : Kinds, conn : Conns, port : Nat] \cup
          [type : {"RelayFinished"}, conn : Conns, port : Nat, reason : Reasons,
           c2s : Nat, s2c : Nat]
RowFields == {"port", "status", "ended", "c2s", "s2c", "conn"}
RowValues == Nat \cup ConnStatuses \cup BOOLEAN
Rows == {w \in [RowFields -> RowValues] :
           /\ w.port \in Nat /\ w.status \in ConnStatuses /\ w.ended \in BOOLEAN
           /\ w.c2s \in Nat /\ w.s2c \in Nat /\ w.conn \in Conns
           /\ ~IsActive(w) => w.ended}
BoardFields == {"records", "total", "active", "peak_active", "bypasses_ok", "bypasses_failed",
                "total_c2s", "total_s2c"}
BoardOK(b) == /\ IsRecord(b, BoardFields) /\ b.records \in Seq(Rows)
              /\ b.active \in Nat /\ b.total_c2s \in Nat /\ b.total_s2c \in Nat

IsOver(w) == w.pc \in {"ending", "gone"}
\* What a worker has done is told by where it is.
WorkerFields == {"pc", "lease", "port", "generation", "c2s", "s2c", "reason", "aborted", "told"}
WorkerOK(w) ==
  /\ DOMAIN w = WorkerFields
  /\ w.pc \in Pcs /\ w.port \in Nat /\ w.generation \in Nat /\ w.c2s \in Copies /\ w.s2c \in Copies
  /\ w.reason \in Reasons \cup {"none"} /\ w.told \subseteq Kinds \cup {"RelayFinished"}
  /\ w.pc \in {"idle", "spawned"} => w.port = 0 /\ w.told = {}
  /\ w.pc \in {"idle", "spawned", "connecting", "preparing", "starting"} =>
       w.c2s = NewCopy /\ w.s2c = NewCopy /\ w.reason = "none" /\ w.generation = 0
  /\ w.pc \in {"connecting", "preparing"} => w.told = {"ConnectionAccepted"}
  /\ w.pc \in {"starting", "relaying", "finished"} =>
       w.told = {"ConnectionAccepted", "BypassComplete"}
  /\ w.pc = "relaying" => w.reason = "none"
  /\ w.pc = "finished" => w.reason # "none"
  /\ w.told = {} <=> w.port = 0
  /\ w.told # {} => "ConnectionAccepted" \in w.told
  /\ w.told \cap {"BypassFailed", "ConnectionError"} # {} => w.c2s.n = 0 /\ w.s2c.n = 0
  /\ w.told \cap Terminal # {} => w.pc \in {"ending", "gone"}
  /\ (w.c2s.done => ~w.c2s.held) /\ (w.s2c.done => ~w.s2c.held)
  /\ w.reason = "Completed" => w.c2s.done /\ w.s2c.done
SettingOK == /\ {"mode", "events", "ports", "found", "available", "lifetime"} \subseteq DOMAIN setting
             /\ setting.events \in BOOLEAN /\ setting.available \subseteq Nat \ {0}
             /\ setting.found \subseteq Seq(Candidates)
WorkerInv ==
  /\ SettingOK /\ DOMAIN conn = Conns /\ listener \in {"up", "down"}
  /\ \A c \in Conns : WorkerOK(conn[c])

\* The pool is in order, and a lease names a target of the history.
PoolInv ==
  /\ Kept(pool, counters) /\ Listed(pool)
  /\ \A c \in Conns : conn[c].pc # "idle" =>
       /\ conn[c].lease.counter \in 1..Len(pool.history)
       /\ pool.history[conn[c].lease.counter].key = conn[c].lease.key

\* What changed since the monitor looked has a newer number.
MonitorInv ==
  /\ IsRecord(monitor, {"pc", "generation", "revision", "todo", "running", "stale"})
  /\ monitor.pc \in {"off", "snapshot", "mark", "round"}
  /\ monitor.generation \in Nat /\ monitor.revision \in Nat /\ binding \in Nat
  /\ monitor.stale \subseteq {"list", "binding"}
  /\ monitor.generation <= pool.generation /\ monitor.revision <= binding
  /\ monitor.pc \in {"mark", "round"} /\ "list" \in monitor.stale =>
       monitor.generation < pool.generation
  /\ monitor.pc = "round" /\ "binding" \in monitor.stale => monitor.revision < binding

\* An entry is that of a running relay, and a running relay has one or a successor.
RegistryInv ==
  /\ IsRecord(registry, {"generation", "relays"})
  /\ registry.generation \in Nat /\ DOMAIN registry.relays \subseteq Nat
  /\ ~setting.events => registry.generation = 0 /\ DOMAIN registry.relays = {}
  /\ \A c \in Conns : conn[c].generation <= registry.generation
  /\ \A c, d \in Conns : c # d /\ conn[c].generation = conn[d].generation => conn[c].generation = 0
  /\ \A p \in DOMAIN registry.relays :
       LET c == registry.relays[p].conn IN
       /\ c \in Conns /\ conn[c].pc = "relaying" /\ conn[c].port = p
       /\ registry.relays[p].generation = conn[c].generation
  /\ setting.events => \A c \in Conns : conn[c].pc = "relaying" =>
       /\ conn[c].generation # 0
       /\ \/ conn[c].port \in DOMAIN registry.relays /\ registry.relays[conn[c].port].conn = c
          \/ \E d \in Conns : conn[d].port = conn[c].port /\ conn[d].generation > conn[c].generation

\* In the queue q there is an event of connection c of one of these kinds.
Waits(q, c, kinds) == \E i \in 1..Len(q) : q[i].conn = c /\ q[i].type \in kinds
AllKinds == Kinds \cup {"RelayFinished"}
Accepted == {"ConnectionAccepted"}
HasEnded(w) == w.told \cap Terminal # {}
\* The events of a connection come in order: its announcement first, its end last.
Ordered(q) ==
  \A i, j \in 1..Len(q) : i < j /\ q[i].conn = q[j].conn =>
    q[i].type \notin Terminal /\ q[j].type \notin Accepted
\* An event says what its connection has told.
Truthful(e, w) ==
  /\ e.type \in w.told /\ e.port = w.port
  /\ e.type = "RelayFinished" => e.c2s = w.c2s.n /\ e.s2c = w.s2c.n
\* The dashboard has been told of the connection, and not of its end.
IsShown(q, c, w) == /\ "ConnectionAccepted" \in w.told /\ ~Waits(q, c, Accepted)
                    /\ HasEnded(w) => Waits(q, c, Terminal)
Shown == {c \in Conns : IsShown(queue, c, conn[c])}

EventInv ==
  /\ queue \in Seq(Events) /\ receiver \in {"idle", "empty"} /\ BoardOK(board)
  /\ ~setting.events => queue = <<>> /\ board.records = <<>>
  /\ \A i \in 1..Len(queue) : Truthful(queue[i], conn[queue[i].conn])
  /\ Ordered(queue)
  /\ \A c \in Conns : HasEnded(conn[c]) /\ Waits(queue, c, AllKinds) => Waits(queue, c, Terminal)
  /\ setting.events => board.active = Cardinality(Shown)

\* A row is that of a connection whose announcement was read.
RowInv ==
  /\ \A r \in 1..Len(board.records) :
       LET c == board.records[r].conn IN
       /\ board.records[r].port = conn[c].port
       /\ "ConnectionAccepted" \in conn[c].told /\ ~Waits(queue, c, Accepted)
  /\ \A r, s \in 1..Len(board.records) :
       board.records[r].conn = board.records[s].conn => r = s

\* With ports of their own, a row never shows more than its connection has copied.
ShareInv ==
  PortsDiffer => \A r \in 1..Len(board.records), d \in Directions :
                   board.records[r][d] <= conn[board.records[r].conn][d].n

\* Port p is announced in q at i.  The row of c is the one that an event at position k
\* of q would find.
Announces(q, i, p) == q[i].type \in Accepted /\ q[i].port = p
Heads(rows, c, p) == \E r \in 1..Len(rows) : /\ rows[r].conn = c
                                             /\ \A s \in 1..(r - 1) : rows[s].port # p
Finds(q, rows, c, p, k) ==
  \/ \E j \in 1..(k - 1) : /\ q[j].conn = c /\ q[j].type \in Accepted
                           /\ \A i \in (j + 1)..(k - 1) : ~Announces(q, i, p)
  \/ Heads(rows, c, p) /\ \A i \in 1..(k - 1) : ~Announces(q, i, p)

\* A row is shown as active until the end of its connection has been read.
Follows(q, row, w) ==
  IF IsActive(row) THEN HasEnded(w) => Waits(q, row.conn, Terminal)
  ELSE HasEnded(w) /\ ~Waits(q, row.conn, Terminal)

\* Where ports are not used again before their end is reported, an event finds the row
\* of its connection.
OwnInv ==
  setting.ports = "unique" /\ setting.events =>
    /\ \A c, d \in Conns : c # d /\ conn[c].port = conn[d].port /\ conn[c].port # 0
         => IsOver(conn[c]) \/ IsOver(conn[d])
    /\ \A k \in 1..Len(queue) : queue[k].type \notin Accepted =>
         Finds(queue, board.records, queue[k].conn, conn[queue[k].conn].port, k)
    /\ \A c \in Conns : conn[c].told # {} /\ ~IsOver(conn[c]) =>
         Finds(queue, board.records, c, conn[c].port, Len(queue) + 1)
    /\ \A r \in 1..Len(board.records) :
         Follows(queue, board.records[r], conn[board.records[r].conn])


(***************************************************************************)
(* What each step does to the worker that takes it.                        *)
(***************************************************************************)
SameSettings == /\ setting'.mode = setting.mode /\ setting'.events = setting.events
                /\ setting'.ports = setting.ports /\ setting'.found = setting.found
                /\ setting'.available = setting.available /\ DOMAIN setting' = DOMAIN setting

LEMMA Spends ==
  ASSUME SettingOK,
         NEW what \in {"connections", "chunks", "faults", "cancels", "rescans", "rebinds", "rounds"},
         Spend(what)
  PROVE  SameSettings
BY DEF SettingOK, SameSettings, Spend

OthersStay(c) == DOMAIN conn' = Conns /\ \A d \in Conns : d # c => conn'[d] = conn[d]

LEMMA AcceptMoves ==
  ASSUME WorkerInv, NEW c \in Conns, NEW i, conn[c].pc = "idle",
         conn' = [conn EXCEPT ![c].pc = "spawned", ![c].lease = Acquired(i)]
  PROVE  /\ OthersStay(c) /\ WorkerOK(conn'[c])
         /\ conn'[c].pc = "spawned" /\ conn'[c].lease = Acquired(i) /\ conn'[c].port = conn[c].port
         /\ conn'[c].generation = conn[c].generation /\ conn'[c].told = conn[c].told
         /\ conn'[c].c2s = conn[c].c2s /\ conn'[c].s2c = conn[c].s2c
<1>1. DOMAIN conn = Conns /\ WorkerOK(conn[c])
  BY DEF WorkerInv
<1>2. DOMAIN conn[c] = WorkerFields
  BY <1>1 DEF WorkerOK
<1>3. OthersStay(c) /\ DOMAIN conn'[c] = WorkerFields
  BY <1>1, <1>2 DEF OthersStay
<1>4. /\ conn'[c].pc = "spawned" /\ conn'[c].lease = Acquired(i) /\ conn'[c].port = conn[c].port
      /\ conn'[c].generation = conn[c].generation /\ conn'[c].told = conn[c].told
      /\ conn'[c].c2s = conn[c].c2s /\ conn'[c].s2c = conn[c].s2c /\ conn'[c].reason = conn[c].reason
  BY <1>1, <1>2 DEF WorkerFields
<1>5. WorkerOK(conn'[c])
  BY <1>1, <1>3, <1>4 DEF WorkerOK, Terminal, Pcs
<1> QED BY <1>3, <1>4, <1>5

LEMMA BeginMoves ==
  ASSUME WorkerInv, NEW c \in Conns, Begin(c)
  PROVE  /\ OthersStay(c) /\ WorkerOK(conn'[c])
         /\ conn[c].pc = "spawned" /\ conn'[c].pc = "connecting" /\ conn'[c].port # 0
         /\ PortFree(conn'[c].port)
         /\ conn'[c].lease = conn[c].lease /\ conn'[c].generation = conn[c].generation
         /\ conn'[c].told = {"ConnectionAccepted"}
         /\ conn'[c].c2s = conn[c].c2s /\ conn'[c].s2c = conn[c].s2c
         /\ queue' = IF setting.events
                     THEN Append(queue, Event("ConnectionAccepted", c, conn'[c].port)) ELSE queue
<1>1. DOMAIN conn = Conns /\ WorkerOK(conn[c]) /\ SettingOK
  BY DEF WorkerInv
<1>2. PICK p \in setting.available :
        /\ PortFree(p)
        /\ conn' = [conn EXCEPT ![c].pc = "connecting", ![c].port = p,
                                ![c].told = {"ConnectionAccepted"}]
        /\ IF setting.events THEN Send(Event("ConnectionAccepted", c, p))
           ELSE UNCHANGED queue
  BY DEF Begin
<1>3. p \in Nat /\ p # 0
  BY <1>1 DEF SettingOK
<1>4. OthersStay(c) /\ DOMAIN conn'[c] = WorkerFields /\ DOMAIN conn[c] = WorkerFields
  BY <1>1, <1>2 DEF OthersStay, WorkerOK
<1>5. /\ conn'[c].pc = "connecting" /\ conn'[c].lease = conn[c].lease /\ conn'[c].port = p
      /\ conn'[c].generation = conn[c].generation /\ conn'[c].told = {"ConnectionAccepted"}
      /\ conn'[c].c2s = conn[c].c2s /\ conn'[c].s2c = conn[c].s2c /\ conn'[c].reason = conn[c].reason
  BY <1>1, <1>2, <1>4 DEF WorkerFields
<1>6. conn[c].pc = "spawned"
  BY DEF Begin, At
<1>7. WorkerOK(conn'[c])
  BY <1>1, <1>3, <1>4, <1>5, <1>6 DEF WorkerOK, Terminal, Pcs, Kinds
<1>8. queue' = IF setting.events
               THEN Append(queue, Event("ConnectionAccepted", c, conn'[c].port)) ELSE queue
  BY <1>2, <1>5 DEF Send
<1> QED BY <1>2, <1>3, <1>4, <1>5, <1>6, <1>7, <1>8

\* A step of c that keeps all but where it is, and one that tells something.
SameWork(c) == /\ conn'[c].lease = conn[c].lease /\ conn'[c].port = conn[c].port
               /\ conn'[c].generation = conn[c].generation
               /\ conn'[c].c2s = conn[c].c2s /\ conn'[c].s2c = conn[c].s2c

LEMMA StepMoves ==
  ASSUME WorkerInv, NEW c \in Conns, NEW pc \in {"preparing", "ending", "gone"}, Step(c, pc),
         pc = "preparing" => conn[c].pc = "connecting",
         pc = "ending" => conn[c].pc \in {"spawned", "connecting", "preparing"},
         conn[c].pc # "idle"
  PROVE  /\ OthersStay(c) /\ WorkerOK(conn'[c]) /\ SameWork(c) /\ conn'[c].pc = pc
         /\ conn'[c].told = conn[c].told /\ conn'[c].reason = conn[c].reason
<1>1. DOMAIN conn = Conns /\ WorkerOK(conn[c])
  BY DEF WorkerInv
<1>2. DOMAIN conn[c] = WorkerFields
  BY <1>1 DEF WorkerOK
<1>3. OthersStay(c) /\ DOMAIN conn'[c] = WorkerFields
  BY <1>1, <1>2 DEF OthersStay, Step
<1>4. /\ SameWork(c) /\ conn'[c].pc = pc
      /\ conn'[c].told = conn[c].told /\ conn'[c].reason = conn[c].reason
  BY <1>1, <1>2 DEF WorkerFields, SameWork, Step
<1>5. WorkerOK(conn'[c])
  BY <1>1, <1>3, <1>4 DEF WorkerOK, Terminal, Pcs, SameWork
<1> QED BY <1>3, <1>4, <1>5

\* Which event a worker may send from where, and where it is then.
MayTell(from, type, to) ==
  \/ from \in {"connecting", "preparing"} /\ type = "BypassComplete" /\ to = "starting"
  \/ from \in {"connecting", "preparing"} /\ type \in {"BypassFailed", "ConnectionError"} /\ to = "ending"
  \/ from = "finished" /\ type = "RelayFinished" /\ to = "ending"

LEMMA TellMoves ==
  ASSUME WorkerInv, NEW c \in Conns, NEW pc, NEW event, StepTelling(c, pc, event),
         MayTell(conn[c].pc, event.type, pc)
  PROVE  /\ OthersStay(c) /\ WorkerOK(conn'[c]) /\ SameWork(c) /\ conn'[c].pc = pc
         /\ conn'[c].told = conn[c].told \cup {event.type} /\ conn'[c].reason = conn[c].reason
         /\ queue' = IF setting.events THEN Append(queue, event) ELSE queue
<1>1. DOMAIN conn = Conns /\ WorkerOK(conn[c])
  BY DEF WorkerInv
<1>2. DOMAIN conn[c] = WorkerFields
  BY <1>1 DEF WorkerOK
<1>3. OthersStay(c) /\ DOMAIN conn'[c] = WorkerFields
  BY <1>1, <1>2 DEF OthersStay, StepTelling
<1>4. /\ SameWork(c) /\ conn'[c].pc = pc
      /\ conn'[c].told = conn[c].told \cup {event.type} /\ conn'[c].reason = conn[c].reason
  BY <1>1, <1>2 DEF WorkerFields, SameWork, StepTelling
<1>5. queue' = IF setting.events THEN Append(queue, event) ELSE queue
  BY DEF StepTelling, Send
<1>6. WorkerOK(conn'[c])
  <2>1. CASE conn[c].pc \in {"connecting", "preparing"} /\ event.type = "BypassComplete" /\ pc = "starting"
    BY <1>1, <1>3, <1>4, <2>1 DEF WorkerOK, Terminal, Pcs, SameWork, Kinds
  <2>2. CASE conn[c].pc \in {"connecting", "preparing"} /\ event.type \in {"BypassFailed", "ConnectionError"} /\ pc = "ending"
    BY <1>1, <1>3, <1>4, <2>2 DEF WorkerOK, Terminal, Pcs, SameWork, Kinds, NewCopy
  <2>3. CASE conn[c].pc = "finished" /\ event.type = "RelayFinished" /\ pc = "ending"
    BY <1>1, <1>3, <1>4, <2>3 DEF WorkerOK, Terminal, Pcs, SameWork, Kinds
  <2> QED BY <2>1, <2>2, <2>3 DEF MayTell
<1> QED BY <1>3, <1>4, <1>5, <1>6

LEMMA RelayStartMoves ==
  ASSUME WorkerInv, NEW c \in Conns, conn[c].pc = "starting", NEW g \in Nat,
         conn' = [conn EXCEPT ![c].pc = "relaying", ![c].generation = g]
  PROVE  /\ OthersStay(c) /\ WorkerOK(conn'[c]) /\ conn'[c].pc = "relaying"
         /\ conn'[c].generation = g /\ conn'[c].lease = conn[c].lease /\ conn'[c].port = conn[c].port
         /\ conn'[c].c2s = conn[c].c2s /\ conn'[c].s2c = conn[c].s2c
         /\ conn'[c].told = conn[c].told /\ conn'[c].reason = conn[c].reason
<1>1. DOMAIN conn = Conns /\ WorkerOK(conn[c])
  BY DEF WorkerInv
<1>2. DOMAIN conn[c] = WorkerFields
  BY <1>1 DEF WorkerOK
<1>3. OthersStay(c) /\ DOMAIN conn'[c] = WorkerFields
  BY <1>1, <1>2 DEF OthersStay
<1>4. /\ conn'[c].pc = "relaying"
      /\ conn'[c].generation = g /\ conn'[c].lease = conn[c].lease /\ conn'[c].port = conn[c].port
      /\ conn'[c].c2s = conn[c].c2s /\ conn'[c].s2c = conn[c].s2c
      /\ conn'[c].told = conn[c].told /\ conn'[c].reason = conn[c].reason
  BY <1>1, <1>2 DEF WorkerFields
<1>5. WorkerOK(conn'[c])
  BY <1>1, <1>3, <1>4 DEF WorkerOK, Terminal, Pcs, NewCopy
<1> QED BY <1>3, <1>4, <1>5

\* A relay that copies, and one that returns.
Copying(c, d, copy) ==
  /\ OthersStay(c) /\ conn[c].pc = "relaying" /\ conn'[c][d] = copy
  /\ \A e \in Directions : e # d => conn'[c][e] = conn[c][e]
  /\ conn'[c].lease = conn[c].lease /\ conn'[c].port = conn[c].port
  /\ conn'[c].generation = conn[c].generation /\ conn'[c].told = conn[c].told

LEMMA CopyMoves ==
  ASSUME WorkerInv, NEW c \in Conns, NEW d \in Directions, NEW copy \in Copies, conn[c].pc = "relaying",
         DOMAIN conn' = Conns, \A e \in Conns : e # c => conn'[e] = conn[e],
         DOMAIN conn'[c] = WorkerFields, conn'[c][d] = copy,
         \A x \in WorkerFields \ {d, "pc", "reason"} : conn'[c][x] = conn[c][x],
         \/ conn'[c].pc = "relaying" /\ conn'[c].reason = "none"
         \/ conn'[c].pc = "finished" /\ conn'[c].reason \in Reasons,
         copy.done => ~copy.held,
         conn'[c].reason = "Completed" => conn'[c].c2s.done /\ conn'[c].s2c.done
  PROVE  Copying(c, d, copy) /\ WorkerOK(conn'[c])
<1>1. WorkerOK(conn[c])
  BY DEF WorkerInv
<1>2. /\ conn'[c].lease = conn[c].lease /\ conn'[c].port = conn[c].port
      /\ conn'[c].generation = conn[c].generation /\ conn'[c].told = conn[c].told
      /\ \A e \in Directions : e # d => conn'[c][e] = conn[c][e]
  BY DEF Directions, WorkerFields
<1>3. Copying(c, d, copy)
  BY <1>2 DEF Copying, OthersStay
<1>4. CASE d = "c2s"
  <2>1. conn'[c].c2s = copy /\ conn'[c].s2c = conn[c].s2c
    BY <1>2, <1>4 DEF Directions
  <2>2. WorkerOK(conn'[c])
    BY <1>1, <1>2, <2>1 DEF WorkerOK, Terminal, Pcs, Reasons
  <2> QED BY <1>3, <2>2
<1>5. CASE d = "s2c"
  <2>1. conn'[c].s2c = copy /\ conn'[c].c2s = conn[c].c2s
    BY <1>2, <1>5 DEF Directions
  <2>2. WorkerOK(conn'[c])
    BY <1>1, <1>2, <2>1 DEF WorkerOK, Terminal, Pcs, Reasons
  <2> QED BY <1>3, <2>2
<1> QED BY <1>4, <1>5 DEF Directions

LEMMA ReadMoves ==
  ASSUME WorkerInv, NEW c \in Conns, NEW d \in Directions, ReadChunk(c, d)
  PROVE  \E copy \in Copies : /\ Copying(c, d, copy) /\ WorkerOK(conn'[c]) /\ conn'[c].pc = "relaying"
                              /\ copy.n = conn[c][d].n
<1>1. DOMAIN conn = Conns /\ DOMAIN conn[c] = WorkerFields /\ conn[c].pc = "relaying"
  BY DEF WorkerInv, WorkerOK, ReadChunk, At
<1>2. conn[c][d] \in Copies /\ ~conn[c][d].done /\ d \in WorkerFields /\ conn[c].reason = "none"
  BY <1>1 DEF WorkerInv, WorkerOK, ReadChunk, Directions, WorkerFields
<1> DEFINE copy == [conn[c][d] EXCEPT !.held = TRUE]
<1>3. copy \in Copies /\ copy.n = conn[c][d].n /\ ~copy.done
  BY <1>2 DEF Copies
<1>4. /\ DOMAIN conn' = Conns /\ DOMAIN conn'[c] = WorkerFields
      /\ \A e \in Conns : e # c => conn'[e] = conn[e]
      /\ conn'[c][d] = copy /\ \A x \in WorkerFields : x # d => conn'[c][x] = conn[c][x]
  BY <1>1, <1>2 DEF ReadChunk
<1> HIDE DEF copy
<1>5. \A x \in {"pc", "reason"} : x \in WorkerFields /\ x # d
  BY DEF WorkerFields, Directions
<1>6. conn'[c].pc = "relaying" /\ conn'[c].reason = "none"
  BY <1>1, <1>2, <1>4, <1>5
<1>7. Copying(c, d, copy) /\ WorkerOK(conn'[c])
  BY <1>1, <1>3, <1>4, <1>6, CopyMoves
<1> QED BY <1>3, <1>6, <1>7

LEMMA CopyDrops ==
  ASSUME NEW w \in Copies
  PROVE  /\ [w EXCEPT !.held = FALSE] \in Copies /\ [w EXCEPT !.held = FALSE].n = w.n
         /\ ~[w EXCEPT !.held = FALSE].held
BY DEF Copies

LEMMA CopyGrows ==
  ASSUME NEW w \in Copies
  PROVE  /\ [w EXCEPT !.n = @ + 1] \in Copies /\ [w EXCEPT !.n = @ + 1].n = w.n + 1
         /\ [w EXCEPT !.n = @ + 1].held = w.held
BY DEF Copies

LEMMA WriteMoves ==
  ASSUME WorkerInv, NEW c \in Conns, NEW d \in Directions, WriteChunk(c, d)
  PROVE  \E copy \in Copies : /\ Copying(c, d, copy) /\ WorkerOK(conn'[c]) /\ conn'[c].pc = "relaying"
                              /\ copy.n = conn[c][d].n + 1
<1>1. DOMAIN conn = Conns /\ DOMAIN conn[c] = WorkerFields /\ conn[c].pc = "relaying"
  BY DEF WorkerInv, WorkerOK, WriteChunk, At
<1>2. conn[c][d] \in Copies /\ d \in WorkerFields /\ conn[c].reason = "none"
  BY <1>1 DEF WorkerInv, WorkerOK, Directions, WorkerFields
<1> DEFINE copy == conn'[c][d]
<1>3a. copy = [[conn[c][d] EXCEPT !.held = FALSE] EXCEPT !.n = @ + 1]
  BY <1>1, <1>2 DEF WriteChunk
<1>3. copy \in Copies /\ copy.n = conn[c][d].n + 1 /\ ~copy.held
  <2>1. /\ [conn[c][d] EXCEPT !.held = FALSE] \in Copies
        /\ [conn[c][d] EXCEPT !.held = FALSE].n = conn[c][d].n
        /\ ~[conn[c][d] EXCEPT !.held = FALSE].held
    BY <1>2, CopyDrops, Zenon
  <2> DEFINE w == [conn[c][d] EXCEPT !.held = FALSE]
  <2> HIDE DEF w
  <2>2. w \in Copies /\ w.n = conn[c][d].n /\ ~w.held /\ copy = [w EXCEPT !.n = @ + 1]
    BY <2>1, <1>3a DEF w
  <2>3. copy \in Copies /\ copy.n = w.n + 1 /\ copy.held = w.held
    BY <2>2, CopyGrows
  <2> QED BY <2>2, <2>3
<1>4. /\ DOMAIN conn' = Conns /\ DOMAIN conn'[c] = WorkerFields
      /\ \A e \in Conns : e # c => conn'[e] = conn[e]
      /\ conn'[c][d] = copy /\ \A x \in WorkerFields : x # d => conn'[c][x] = conn[c][x]
  BY <1>1, <1>2 DEF WriteChunk
<1> HIDE DEF copy
<1>5. \A x \in {"pc", "reason"} : x \in WorkerFields /\ x # d
  BY DEF WorkerFields, Directions
<1>6. conn'[c].pc = "relaying" /\ conn'[c].reason = "none"
  BY <1>1, <1>2, <1>4, <1>5
<1>7. Copying(c, d, copy) /\ WorkerOK(conn'[c])
  BY <1>1, <1>3, <1>4, <1>6, CopyMoves
<1> QED BY <1>3, <1>6, <1>7

LEMMA EofMoves ==
  ASSUME WorkerInv, NEW c \in Conns, NEW d \in Directions, Eof(c, d)
  PROVE  \E copy \in Copies : /\ Copying(c, d, copy) /\ WorkerOK(conn'[c]) /\ copy.n = conn[c][d].n
                              /\ \/ /\ conn'[c].pc = "relaying"
                                    /\ UNCHANGED <<poolVars, boardVars, setting, listener, binding, monitor>>
                                 \/ /\ conn'[c].pc = "finished"
                                    /\ UnregisterRelay(conn[c].port, conn[c].generation)
                                    /\ UNCHANGED <<poolVars, queue, receiver, board, setting, listener,
                                                   binding, monitor>>
<1>1. DOMAIN conn = Conns /\ DOMAIN conn[c] = WorkerFields /\ conn[c].pc = "relaying"
  BY DEF WorkerInv, WorkerOK, Eof, At
<1>2. /\ conn[c][d] \in Copies /\ d \in WorkerFields /\ conn[c].reason = "none" /\ ~conn[c][d].held
      /\ "c2s" \in WorkerFields /\ "s2c" \in WorkerFields
  BY <1>1 DEF WorkerInv, WorkerOK, Eof, Directions, WorkerFields
<1> DEFINE copy == [conn[c][d] EXCEPT !.done = TRUE]
           copies == [conn[c] EXCEPT ![d].done = TRUE]
<1>3. copy \in Copies /\ copy.n = conn[c][d].n /\ ~copy.held
  BY <1>2 DEF Copies
<1>4. /\ DOMAIN copies = WorkerFields /\ copies[d] = copy
      /\ \A x \in WorkerFields : x # d => copies[x] = conn[c][x]
  BY <1>1, <1>2
<1>5. \A x \in {"pc", "reason"} : x \in WorkerFields /\ x # d
  BY DEF WorkerFields, Directions
<1>6. CASE copies.c2s.done /\ copies.s2c.done
  <2>1. RelayReturns(c, "Completed", copies) /\ UNCHANGED setting
    BY <1>6 DEF Eof
  <2> HIDE DEF copies, copy
  <2>2. conn' = [conn EXCEPT ![c] = [copies EXCEPT !.pc = "finished", !.reason = "Completed"]]
    BY <2>1 DEF RelayReturns
  <2>3. /\ DOMAIN conn' = Conns /\ \A e \in Conns : e # c => conn'[e] = conn[e]
        /\ conn'[c] = [copies EXCEPT !.pc = "finished", !.reason = "Completed"]
    BY <1>1, <2>2
  <2>4. /\ DOMAIN conn'[c] = WorkerFields /\ conn'[c].pc = "finished" /\ conn'[c].reason = "Completed"
        /\ \A x \in WorkerFields : x # "pc" /\ x # "reason" => conn'[c][x] = copies[x]
    BY <1>4, <1>5, <2>3
  <2>5. conn'[c][d] = copy /\ \A x \in WorkerFields \ {d, "pc", "reason"} : conn'[c][x] = conn[c][x]
    BY <1>2, <1>4, <1>5, <2>4
  <2>6. conn'[c].c2s.done /\ conn'[c].s2c.done
    BY <1>2, <1>6, <2>4
  <2>7. "Completed" \in Reasons
    BY DEF Reasons
  <2>8. Copying(c, d, copy) /\ WorkerOK(conn'[c])
    BY <1>1, <1>3, <2>3, <2>4, <2>5, <2>6, <2>7, CopyMoves
  <2>9. /\ UnregisterRelay(conn[c].port, conn[c].generation)
        /\ UNCHANGED <<poolVars, queue, receiver, board, setting, listener, binding, monitor>>
    BY <2>1 DEF RelayReturns
  <2> QED BY <1>3, <2>4, <2>8, <2>9
<1>7. CASE ~(copies.c2s.done /\ copies.s2c.done)
  <2>1. /\ conn' = [conn EXCEPT ![c] = copies]
        /\ UNCHANGED <<poolVars, boardVars, setting, listener, binding, monitor>>
    BY <1>7 DEF Eof
  <2> HIDE DEF copies, copy
  <2>2. /\ DOMAIN conn' = Conns /\ \A e \in Conns : e # c => conn'[e] = conn[e] /\ conn'[c] = copies
    BY <1>1, <2>1
  <2>2a. conn'[c] = copies
    BY <1>1, <2>1
  <2>3. conn'[c].pc = "relaying" /\ conn'[c].reason = "none"
    BY <1>1, <1>2, <1>4, <1>5, <2>2a
  <2>4. Copying(c, d, copy) /\ WorkerOK(conn'[c])
    BY <1>1, <1>3, <1>4, <2>2, <2>2a, <2>3, CopyMoves
  <2> QED BY <1>3, <2>1, <2>3, <2>4
<1> QED BY <1>6, <1>7

LEMMA ReturnMoves ==
  ASSUME WorkerInv, NEW c \in Conns, conn[c].pc = "relaying", NEW reason \in {"NetworkError", "MaxLifetime"},
         RelayReturns(c, reason, conn[c])
  PROVE  /\ Copying(c, "c2s", conn[c].c2s) /\ WorkerOK(conn'[c]) /\ conn'[c].pc = "finished"
<1>1. DOMAIN conn = Conns /\ DOMAIN conn[c] = WorkerFields
  BY DEF WorkerInv, WorkerOK
<1>2. /\ conn[c].c2s \in Copies /\ (conn[c].c2s.done => ~conn[c].c2s.held)
      /\ "c2s" \in WorkerFields /\ "c2s" \in Directions
      /\ "pc" \in WorkerFields /\ "reason" \in WorkerFields
  BY DEF WorkerInv, WorkerOK, WorkerFields, Directions
<1>3. conn' = [conn EXCEPT ![c] = [conn[c] EXCEPT !.pc = "finished", !.reason = reason]]
  BY DEF RelayReturns
<1>4. /\ DOMAIN conn' = Conns /\ \A e \in Conns : e # c => conn'[e] = conn[e]
      /\ conn'[c] = [conn[c] EXCEPT !.pc = "finished", !.reason = reason]
  BY <1>1, <1>3
<1>5. /\ DOMAIN conn'[c] = WorkerFields /\ conn'[c].pc = "finished" /\ conn'[c].reason = reason
      /\ \A x \in WorkerFields : x # "pc" /\ x # "reason" => conn'[c][x] = conn[c][x]
  BY <1>1, <1>2, <1>4
<1>6. conn'[c]["c2s"] = conn[c].c2s
  BY <1>2, <1>5
<1>7. reason \in Reasons /\ reason # "Completed"
  BY DEF Reasons
<1>8. \A x \in WorkerFields \ {"c2s", "pc", "reason"} : conn'[c][x] = conn[c][x]
  BY <1>5
<1> HIDE DEF WorkerFields
<1>9. Copying(c, "c2s", conn[c].c2s) /\ WorkerOK(conn'[c])
  BY <1>2, <1>4, <1>5, <1>6, <1>7, <1>8, CopyMoves
<1> QED BY <1>5, <1>9

(***************************************************************************)
(* The kinds of steps, as the invariants tell them apart.                  *)
(***************************************************************************)
SameMarks(v, w) == /\ w.lease = v.lease /\ w.port = v.port /\ w.generation = v.generation
                   /\ w.told = v.told /\ w.c2s.n = v.c2s.n /\ w.s2c.n = v.s2c.n
SameStage(v, w) == /\ w.pc = "idle" <=> v.pc = "idle"
                   /\ w.pc = "gone" <=> v.pc = "gone"
                   /\ w.pc = "relaying" <=> v.pc = "relaying"
                   /\ IsOver(v) => IsOver(w)

\* Nothing that counts.
Quietly == /\ UNCHANGED <<poolVars, boardVars>>
           /\ \A c \in Conns : SameMarks(conn[c], conn'[c]) /\ SameStage(conn[c], conn'[c])
Accepts(c) ==
  /\ UNCHANGED boardVars /\ OthersStay(c) /\ conn[c].pc = "idle" /\ conn'[c].pc = "spawned"
  /\ \E i \in Selectable : AcquireMember(i) /\ conn'[c].lease = Acquired(i)
  /\ conn'[c].port = conn[c].port /\ conn'[c].generation = conn[c].generation
  /\ conn'[c].told = conn[c].told /\ conn'[c].c2s = conn[c].c2s /\ conn'[c].s2c = conn[c].s2c
PassesOver ==
  /\ UNCHANGED <<counters, conn, boardVars>>
  /\ \E i \in Selectable : pool' = [pool EXCEPT !.cursor = i % Len(pool.members)]
Begins(c) ==
  /\ UNCHANGED <<poolVars, registry, receiver, board>> /\ OthersStay(c)
  /\ conn[c].pc = "spawned" /\ conn'[c].pc = "connecting" /\ conn'[c].port # 0
  /\ PortFree(conn'[c].port) /\ conn'[c].told = {"ConnectionAccepted"}
  /\ conn'[c].lease = conn[c].lease /\ conn'[c].generation = conn[c].generation
  /\ conn'[c].c2s = conn[c].c2s /\ conn'[c].s2c = conn[c].s2c
  /\ queue' = IF setting.events
              THEN Append(queue, Event("ConnectionAccepted", c, conn'[c].port)) ELSE queue
Tells(c, e) ==
  /\ UNCHANGED <<poolVars, registry, receiver, board>> /\ OthersStay(c) /\ SameWork(c)
  /\ MayTell(conn[c].pc, e.type, conn'[c].pc)
  /\ e \in Events /\ e.conn = c /\ e.port = conn[c].port
  /\ e.type = "RelayFinished" => e.c2s = conn[c].c2s.n /\ e.s2c = conn[c].s2c.n
  /\ conn'[c].told = conn[c].told \cup {e.type}
  /\ queue' = IF setting.events THEN Append(queue, e) ELSE queue
Starts(c) ==
  /\ UNCHANGED <<poolVars, queue, receiver, board>> /\ OthersStay(c)
  /\ conn[c].pc = "starting" /\ conn'[c].pc = "relaying"
  /\ IF setting.events THEN RegisterRelay(c, conn[c].port) ELSE UNCHANGED registry
  /\ conn'[c].generation = registry'.generation
  /\ conn'[c].lease = conn[c].lease /\ conn'[c].port = conn[c].port /\ conn'[c].told = conn[c].told
  /\ conn'[c].c2s = conn[c].c2s /\ conn'[c].s2c = conn[c].s2c
Writes(c, d) ==
  /\ UNCHANGED <<pool, boardVars>> /\ CountTraffic(conn[c].lease, d, 1)
  /\ conn'[c].pc = "relaying" /\ conn'[c][d].n = conn[c][d].n + 1
  /\ \E copy \in Copies : Copying(c, d, copy)
Returns(c) ==
  /\ UNCHANGED <<poolVars, queue, receiver, board>> /\ OthersStay(c)
  /\ UnregisterRelay(conn[c].port, conn[c].generation)
  /\ conn[c].pc = "relaying" /\ conn'[c].pc = "finished" /\ SameMarks(conn[c], conn'[c])
Ends(c) ==
  /\ UNCHANGED <<pool, queue, receiver, board>> /\ OthersStay(c) /\ DropLease(conn[c].lease)
  /\ IF conn[c].pc = "relaying" THEN UnregisterRelay(conn[c].port, conn[c].generation)
     ELSE UNCHANGED registry
  /\ conn[c].pc \notin {"idle", "gone"} /\ conn'[c].pc = "gone" /\ SameMarks(conn[c], conn'[c])
ShowsMore ==
  /\ UNCHANGED <<poolVars, conn>>
  /\ Receive \/ (setting.events /\ FindEmpty) \/ Sample([c \in Conns |-> Bytes(c)])
ReplacesList ==
  /\ UNCHANGED <<boardVars, conn>>
  /\ \E candidates \in setting.found : Replace(candidates)
Measures ==
  /\ UNCHANGED <<boardVars, conn>>
  /\ \E g, key : \E ping \in Nat \cup {NoPing} : UpdatePing(g, key, ping)

OneKind ==
  \/ Quietly \/ PassesOver \/ ShowsMore \/ ReplacesList \/ Measures
  \/ \E c \in Conns : \/ Accepts(c) \/ Begins(c) \/ Starts(c) \/ Returns(c) \/ Ends(c)
                      \/ \E e \in Events : Tells(c, e)
                      \/ \E d \in Directions : Writes(c, d)
\* The workers are in order behind the step.
InOrderNow == SameSettings /\ WorkerInv'

LEMMA OthersOK ==
  ASSUME WorkerInv, NEW c \in Conns, OthersStay(c), WorkerOK(conn'[c]), SameSettings,
         listener' \in {"up", "down"}
  PROVE  InOrderNow
<1>1. \A d \in Conns : WorkerOK(conn[d])
  BY DEF WorkerInv
<1>2. DOMAIN conn' = Conns /\ \A d \in Conns : conn'[d] = conn[d] \/ d = c
  BY DEF OthersStay
<1>3. \A d \in Conns : WorkerOK(conn'[d])
  <2> SUFFICES ASSUME NEW d \in Conns PROVE WorkerOK(conn'[d])
    OBVIOUS
  <2>1. CASE d = c
    BY <2>1
  <2>2. CASE d # c
    <3>1. conn'[d] = conn[d]
      BY <1>2, <2>2
    <3> QED BY <1>1, <3>1
  <2> QED BY <2>1, <2>2
<1>4. SettingOK'
  BY DEF WorkerInv, SettingOK, SameSettings
<1> QED BY <1>2, <1>3, <1>4 DEF InOrderNow, WorkerInv

LEMMA SameConns ==
  ASSUME WorkerInv, UNCHANGED conn, SameSettings, listener' \in {"up", "down"}
  PROVE  InOrderNow
<1>1. SettingOK'
  BY DEF WorkerInv, SettingOK, SameSettings
<1> QED BY <1>1 DEF InOrderNow, WorkerInv

LEMMA QuietSteps ==
  ASSUME WorkerInv, NEW c \in Conns, OthersStay(c), SameMarks(conn[c], conn'[c]),
         SameStage(conn[c], conn'[c]), UNCHANGED <<poolVars, boardVars>>
  PROVE  OneKind
<1>1. \A d \in Conns : SameMarks(conn[d], conn'[d]) /\ SameStage(conn[d], conn'[d])
  <2> SUFFICES ASSUME NEW d \in Conns, d # c
               PROVE  SameMarks(conn[d], conn'[d]) /\ SameStage(conn[d], conn'[d])
    OBVIOUS
  <2>1. conn'[d] = conn[d]
    BY DEF OthersStay
  <2> QED BY <2>1 DEF SameMarks, SameStage
<1> QED BY <1>1 DEF OneKind, Quietly

LEMMA QuietAll ==
  ASSUME WorkerInv, UNCHANGED <<poolVars, boardVars, conn>>
  PROVE  OneKind
BY DEF OneKind, Quietly, SameMarks, SameStage

SettingSpent == {"connections", "chunks", "faults", "cancels", "rescans", "rebinds", "rounds"}
LEMMA SettingStays ==
  ASSUME SettingOK, UNCHANGED setting \/ \E what \in SettingSpent : Spend(what)
  PROVE  SameSettings
<1>1. CASE UNCHANGED setting
  BY <1>1 DEF SameSettings
<1>2. CASE \E what \in SettingSpent : Spend(what)
  BY <1>2, Spends DEF SettingSpent
<1> QED BY <1>1, <1>2

LEMMA AcceptKind ==
  ASSUME WorkerInv, NEW c \in Conns, Accept(c)
  PROVE  InOrderNow /\ OneKind
<1>1. SameSettings /\ listener' \in {"up", "down"}
  BY SettingStays DEF Accept, WorkerInv, SettingSpent
<1>2. PICK i \in Selectable :
        IF Acquired(i).key \in V6 /\ Mode # "relay"
        THEN /\ pool' = [pool EXCEPT !.cursor = i % Len(pool.members)]
             /\ UNCHANGED <<counters, conn>>
        ELSE /\ AcquireMember(i)
             /\ conn' = [conn EXCEPT ![c].pc = "spawned", ![c].lease = Acquired(i)]
  BY DEF Accept
<1>3. UNCHANGED boardVars /\ conn[c].pc = "idle"
  BY DEF Accept, At
<1>4. CASE Acquired(i).key \in V6 /\ Mode # "relay"
  BY <1>1, <1>2, <1>3, <1>4, SameConns DEF OneKind, PassesOver
<1>5. CASE ~(Acquired(i).key \in V6 /\ Mode # "relay")
  <2>1. AcquireMember(i) /\ conn' = [conn EXCEPT ![c].pc = "spawned", ![c].lease = Acquired(i)]
    BY <1>2, <1>5
  <2>2. /\ OthersStay(c) /\ WorkerOK(conn'[c])
        /\ conn'[c].pc = "spawned" /\ conn'[c].lease = Acquired(i) /\ conn'[c].port = conn[c].port
        /\ conn'[c].generation = conn[c].generation /\ conn'[c].told = conn[c].told
        /\ conn'[c].c2s = conn[c].c2s /\ conn'[c].s2c = conn[c].s2c
    BY <1>3, <2>1, AcceptMoves
  <2>3. Accepts(c)
    BY <1>3, <2>1, <2>2 DEF Accepts
  <2> QED BY <1>1, <2>2, <2>3, OthersOK DEF OneKind
<1> QED BY <1>4, <1>5

LEMMA BeginKind ==
  ASSUME WorkerInv, NEW c \in Conns, Begin(c)
  PROVE  InOrderNow /\ OneKind
<1>1. SameSettings /\ listener' \in {"up", "down"} /\ UNCHANGED <<poolVars, registry, receiver, board>>
  BY SettingStays DEF Begin, WorkerInv
<1>2. OthersStay(c) /\ WorkerOK(conn'[c])
  BY BeginMoves
<1>3. Begins(c)
  BY <1>1, BeginMoves DEF Begins
<1> QED BY <1>1, <1>2, <1>3, OthersOK DEF OneKind

LEMMA QuietKind ==
  ASSUME WorkerInv, NEW c \in Conns, NEW pc \in {"preparing", "ending"}, Step(c, pc),
         pc = "preparing" => conn[c].pc = "connecting",
         pc = "ending" => conn[c].pc \in {"spawned", "connecting", "preparing"},
         UNCHANGED setting \/ \E what \in SettingSpent : Spend(what),
         UNCHANGED <<poolVars, boardVars, listener>>
  PROVE  InOrderNow /\ OneKind
<1>1. SameSettings /\ listener' \in {"up", "down"}
  BY SettingStays DEF WorkerInv
<1>2. /\ OthersStay(c) /\ WorkerOK(conn'[c]) /\ SameWork(c) /\ conn'[c].pc = pc
      /\ conn'[c].told = conn[c].told
  BY StepMoves
<1>3. SameMarks(conn[c], conn'[c]) /\ SameStage(conn[c], conn'[c])
  BY <1>2 DEF SameMarks, SameStage, IsOver, SameWork
<1> QED BY <1>1, <1>2, <1>3, OthersOK, QuietSteps

LEMMA TellKind ==
  ASSUME WorkerInv, NEW c \in Conns, NEW pc, NEW e \in Events, StepTelling(c, pc, e),
         MayTell(conn[c].pc, e.type, pc), e.conn = c, e.port = conn[c].port,
         e.type = "RelayFinished" => e.c2s = conn[c].c2s.n /\ e.s2c = conn[c].s2c.n,
         UNCHANGED setting \/ \E what \in SettingSpent : Spend(what),
         UNCHANGED <<poolVars, registry, receiver, board, listener>>
  PROVE  InOrderNow /\ OneKind
<1>1. SameSettings /\ listener' \in {"up", "down"}
  BY SettingStays DEF WorkerInv
<1>2. /\ OthersStay(c) /\ WorkerOK(conn'[c]) /\ SameWork(c) /\ conn'[c].pc = pc
      /\ conn'[c].told = conn[c].told \cup {e.type}
      /\ queue' = IF setting.events THEN Append(queue, e) ELSE queue
  BY TellMoves
<1>3. Tells(c, e)
  BY <1>2 DEF Tells
<1> QED BY <1>1, <1>2, <1>3, OthersOK DEF OneKind

LEMMA IsEvent ==
  ASSUME WorkerInv, NEW c \in Conns, NEW type \in Kinds
  PROVE  LET e == Event(type, c, conn[c].port) IN
         /\ e \in Events /\ e.type = type /\ e.conn = c /\ e.port = conn[c].port
         /\ e.type # "RelayFinished"
<1>1. conn[c].port \in Nat
  BY DEF WorkerInv, WorkerOK
<1> QED BY <1>1 DEF Event, Events, Kinds

LEMMA ConnectKinds ==
  ASSUME WorkerInv, NEW c \in Conns,
         BindFails(c) \/ RegisterFails(c) \/ Connected(c) \/ ConnectFails(c)
  PROVE  InOrderNow /\ OneKind
<1>0. \A type \in {"BypassComplete", "ConnectionError"} : type \in Kinds
  BY DEF Kinds
<1>a. \E what \in SettingSpent : what = "faults"
  BY DEF SettingSpent
<1>1. CASE BindFails(c)
  BY <1>1, <1>a, QuietKind DEF BindFails, At
<1>2. CASE RegisterFails(c)
  BY <1>2, <1>a, QuietKind DEF RegisterFails, At
<1>3. CASE Connected(c) /\ Mode = "relay"
  <2>1. /\ conn[c].pc = "connecting"
        /\ StepTelling(c, "starting", Event("BypassComplete", c, conn[c].port))
        /\ UNCHANGED <<poolVars, registry, receiver, board, listener, setting>>
    BY <1>3 DEF Connected, At
  <2>2. MayTell(conn[c].pc, Event("BypassComplete", c, conn[c].port).type, "starting")
    BY <2>1, <1>0, IsEvent DEF MayTell
  <2> QED BY <1>0, <2>1, <2>2, IsEvent, TellKind
<1>4. CASE Connected(c) /\ Mode # "relay"
  <2>1. /\ conn[c].pc = "connecting" /\ Step(c, "preparing")
        /\ UNCHANGED <<poolVars, boardVars, listener, setting>>
    BY <1>4 DEF Connected, At, boardVars
  <2> QED BY <2>1, QuietKind
<1>5. CASE ConnectFails(c)
  <2>1. /\ conn[c].pc = "connecting"
        /\ StepTelling(c, "ending", Event("ConnectionError", c, conn[c].port))
        /\ UNCHANGED <<poolVars, registry, receiver, board, listener>> /\ Spend("faults")
    BY <1>5 DEF ConnectFails, At
  <2>2. MayTell(conn[c].pc, Event("ConnectionError", c, conn[c].port).type, "ending")
    BY <2>1, <1>0, IsEvent DEF MayTell
  <2> QED BY <1>0, <1>a, <2>1, <2>2, IsEvent, TellKind
<1> QED BY <1>1, <1>2, <1>3, <1>4, <1>5

LEMMA PrepareKinds ==
  ASSUME WorkerInv, NEW c \in Conns, Prepared(c) \/ PrepareFails(c)
  PROVE  InOrderNow /\ OneKind
<1>0. \A type \in {"BypassComplete", "BypassFailed"} : type \in Kinds
  BY DEF Kinds
<1>a. \E what \in SettingSpent : what = "faults"
  BY DEF SettingSpent
<1>1. CASE Prepared(c)
  <2>1. /\ conn[c].pc = "preparing"
        /\ StepTelling(c, "starting", Event("BypassComplete", c, conn[c].port))
        /\ UNCHANGED <<poolVars, registry, receiver, board, listener, setting>>
    BY <1>1 DEF Prepared, At
  <2>2. MayTell(conn[c].pc, Event("BypassComplete", c, conn[c].port).type, "starting")
    BY <2>1, <1>0, IsEvent DEF MayTell
  <2> QED BY <1>0, <2>1, <2>2, IsEvent, TellKind
<1>2. CASE PrepareFails(c) /\ Mode = "intercept"
  <2>1. /\ conn[c].pc = "preparing"
        /\ StepTelling(c, "ending", Event("BypassFailed", c, conn[c].port))
        /\ UNCHANGED <<poolVars, registry, receiver, board, listener>> /\ Spend("faults")
    BY <1>2 DEF PrepareFails, At
  <2>2. MayTell(conn[c].pc, Event("BypassFailed", c, conn[c].port).type, "ending")
    BY <2>1, <1>0, IsEvent DEF MayTell
  <2> QED BY <1>0, <1>a, <2>1, <2>2, IsEvent, TellKind
<1>3. CASE PrepareFails(c) /\ Mode # "intercept"
  <2>1. /\ conn[c].pc = "preparing" /\ Step(c, "ending")
        /\ UNCHANGED <<poolVars, boardVars, listener>> /\ Spend("faults")
    BY <1>3 DEF PrepareFails, At, boardVars
  <2> QED BY <2>1, <1>a, QuietKind
<1> QED BY <1>1, <1>2, <1>3

LEMMA StartKind ==
  ASSUME WorkerInv, NEW c \in Conns, RelayStarts(c), registry.generation \in Nat
  PROVE  InOrderNow /\ OneKind
<1>1. SameSettings /\ listener' \in {"up", "down"} /\ UNCHANGED <<poolVars, queue, receiver, board>>
  BY SettingStays DEF RelayStarts, WorkerInv
<1>2. /\ conn[c].pc = "starting"
      /\ IF setting.events THEN RegisterRelay(c, conn[c].port) ELSE UNCHANGED registry
      /\ conn' = [conn EXCEPT ![c].pc = "relaying", ![c].generation = registry'.generation]
  BY DEF RelayStarts, At
<1>3. registry'.generation \in Nat
  <2>1. CASE setting.events
    <3>1. registry'.generation = registry.generation + 1
      BY <1>2, <2>1 DEF RegisterRelay
    <3> QED BY <3>1
  <2> QED BY <1>2, <2>1
<1>4. /\ OthersStay(c) /\ WorkerOK(conn'[c]) /\ conn'[c].pc = "relaying"
      /\ conn'[c].generation = registry'.generation /\ conn'[c].lease = conn[c].lease
      /\ conn'[c].port = conn[c].port
      /\ conn'[c].c2s = conn[c].c2s /\ conn'[c].s2c = conn[c].s2c
      /\ conn'[c].told = conn[c].told
  BY <1>2, <1>3, RelayStartMoves
<1>5. Starts(c)
  BY <1>1, <1>2, <1>4 DEF Starts
<1> QED BY <1>1, <1>4, <1>5, OthersOK DEF OneKind

LEMMA CopyKind ==
  ASSUME WorkerInv, NEW c \in Conns, NEW d \in Directions, NEW copy \in Copies,
         Copying(c, d, copy), copy.n = conn[c][d].n
  PROVE  OthersStay(c) /\ conn[c].pc = "relaying" /\ SameMarks(conn[c], conn'[c])
<1>1. CASE d = "c2s"
  BY <1>1 DEF Copying, SameMarks, Directions
<1>2. CASE d = "s2c"
  BY <1>2 DEF Copying, SameMarks, Directions
<1> QED BY <1>1, <1>2 DEF Copying, Directions

LEMMA ReadKind ==
  ASSUME WorkerInv, NEW c \in Conns, NEW d \in Directions, ReadChunk(c, d)
  PROVE  InOrderNow /\ OneKind
<1>1. SameSettings /\ listener' \in {"up", "down"} /\ UNCHANGED <<poolVars, boardVars>>
  BY SettingStays DEF ReadChunk, WorkerInv, SettingSpent
<1>2. PICK copy \in Copies : /\ Copying(c, d, copy) /\ WorkerOK(conn'[c]) /\ conn'[c].pc = "relaying"
                             /\ copy.n = conn[c][d].n
  BY ReadMoves
<1>3. OthersStay(c) /\ SameMarks(conn[c], conn'[c]) /\ conn[c].pc = "relaying"
  BY <1>2, CopyKind
<1>4. SameStage(conn[c], conn'[c])
  BY <1>2, <1>3 DEF SameStage, IsOver
<1> QED BY <1>1, <1>2, <1>3, <1>4, OthersOK, QuietSteps

LEMMA WriteKind ==
  ASSUME WorkerInv, NEW c \in Conns, NEW d \in Directions, WriteChunk(c, d)
  PROVE  InOrderNow /\ OneKind
<1>1. SameSettings /\ listener' \in {"up", "down"} /\ UNCHANGED <<pool, boardVars>>
  BY SettingStays DEF WriteChunk, WorkerInv, SettingSpent
<1>2. PICK copy \in Copies : /\ Copying(c, d, copy) /\ WorkerOK(conn'[c]) /\ conn'[c].pc = "relaying"
                             /\ copy.n = conn[c][d].n + 1
  BY WriteMoves
<1>3. OthersStay(c) /\ conn'[c][d].n = conn[c][d].n + 1
  BY <1>2 DEF Copying
<1>4. Writes(c, d)
  BY <1>1, <1>2, <1>3 DEF Writes, WriteChunk
<1> QED BY <1>1, <1>2, <1>3, <1>4, OthersOK DEF OneKind

LEMMA EofKind ==
  ASSUME WorkerInv, NEW c \in Conns, NEW d \in Directions, Eof(c, d)
  PROVE  InOrderNow /\ OneKind
<1>1. PICK copy \in Copies :
        /\ Copying(c, d, copy) /\ WorkerOK(conn'[c]) /\ copy.n = conn[c][d].n
        /\ \/ /\ conn'[c].pc = "relaying"
              /\ UNCHANGED <<poolVars, boardVars, setting, listener, binding, monitor>>
           \/ /\ conn'[c].pc = "finished"
              /\ UnregisterRelay(conn[c].port, conn[c].generation)
              /\ UNCHANGED <<poolVars, queue, receiver, board, setting, listener, binding, monitor>>
  BY EofMoves
<1>2. SameSettings /\ listener' \in {"up", "down"}
  BY <1>1, SettingStays DEF WorkerInv
<1>3. OthersStay(c) /\ SameMarks(conn[c], conn'[c]) /\ conn[c].pc = "relaying"
  BY <1>1, CopyKind
<1>4. CASE conn'[c].pc = "relaying"
  <2>1. SameStage(conn[c], conn'[c]) /\ UNCHANGED <<poolVars, boardVars>>
    BY <1>1, <1>3, <1>4 DEF SameStage, IsOver
  <2> QED BY <1>1, <1>2, <1>3, <2>1, OthersOK, QuietSteps
<1>5. CASE conn'[c].pc = "finished"
  <2>1. Returns(c)
    BY <1>1, <1>3, <1>5 DEF Returns
  <2> QED BY <1>1, <1>2, <1>3, <2>1, OthersOK DEF OneKind
<1> QED BY <1>1, <1>4, <1>5

LEMMA ReturnKinds ==
  ASSUME WorkerInv, NEW c \in Conns, Deadline(c) \/ \E d \in Directions : RelayFails(c, d)
  PROVE  InOrderNow /\ OneKind
<1>1. PICK reason \in {"NetworkError", "MaxLifetime"} : RelayReturns(c, reason, conn[c])
  BY DEF Deadline, RelayFails
<1>2. conn[c].pc = "relaying"
  BY DEF Deadline, RelayFails, At
<1>3. SameSettings /\ listener' \in {"up", "down"} /\ UNCHANGED <<poolVars, queue, receiver, board>>
  BY <1>1, SettingStays DEF Deadline, RelayFails, WorkerInv, RelayReturns, SettingSpent
<1>4. Copying(c, "c2s", conn[c].c2s) /\ WorkerOK(conn'[c]) /\ conn'[c].pc = "finished"
  BY <1>1, <1>2, ReturnMoves
<1>5. "c2s" \in Directions /\ conn[c].c2s \in Copies
  BY DEF Directions, WorkerInv, WorkerOK
<1>6. OthersStay(c) /\ SameMarks(conn[c], conn'[c])
  BY <1>4, <1>5, CopyKind
<1>7. Returns(c)
  BY <1>1, <1>2, <1>3, <1>4, <1>6 DEF Returns, RelayReturns
<1> QED BY <1>3, <1>4, <1>6, <1>7, OthersOK DEF OneKind

LEMMA FinishKind ==
  ASSUME WorkerInv, NEW c \in Conns, ReportFinished(c)
  PROVE  InOrderNow /\ OneKind
<1> DEFINE e == FinishedEvent(c, conn[c].port, conn[c].reason, conn[c].c2s.n, conn[c].s2c.n)
<1>1. /\ conn[c].pc = "finished" /\ StepTelling(c, "ending", e)
      /\ UNCHANGED <<poolVars, registry, receiver, board, setting, listener>>
  BY DEF ReportFinished, At
<1>2. /\ conn[c].port \in Nat /\ conn[c].reason \in Reasons
      /\ conn[c].c2s.n \in Nat /\ conn[c].s2c.n \in Nat
  BY <1>1 DEF WorkerInv, WorkerOK, Copies
<1>3. /\ e \in Events /\ e.type = "RelayFinished" /\ e.conn = c /\ e.port = conn[c].port
      /\ e.c2s = conn[c].c2s.n /\ e.s2c = conn[c].s2c.n
  BY <1>2 DEF Events, FinishedEvent
<1> HIDE DEF e
<1>4. MayTell(conn[c].pc, e.type, "ending")
  BY <1>1, <1>3 DEF MayTell
<1> QED BY <1>1, <1>3, <1>4, TellKind

LEMMA EndKinds ==
  ASSUME WorkerInv, NEW c \in Conns, EndTask(c) \/ DropTask(c)
  PROVE  InOrderNow /\ OneKind
<1>1. /\ conn[c].pc \notin {"idle", "gone"} /\ Step(c, "gone") /\ DropLease(conn[c].lease)
      /\ IF conn[c].pc = "relaying" THEN UnregisterRelay(conn[c].port, conn[c].generation)
         ELSE UNCHANGED registry
      /\ UNCHANGED <<pool, queue, receiver, board, setting, listener>>
  BY DEF EndTask, DropTask, At, AtAwait, boardVars
<1>2. SameSettings /\ listener' \in {"up", "down"}
  BY <1>1, SettingStays DEF WorkerInv
<1>3. /\ OthersStay(c) /\ WorkerOK(conn'[c]) /\ SameWork(c) /\ conn'[c].pc = "gone"
      /\ conn'[c].told = conn[c].told
  BY <1>1, StepMoves
<1>4. SameMarks(conn[c], conn'[c])
  BY <1>3 DEF SameMarks, SameWork
<1>5. Ends(c)
  BY <1>1, <1>3, <1>4 DEF Ends
<1> QED BY <1>2, <1>3, <1>5, OthersOK DEF OneKind

LEMMA CancelKind ==
  ASSUME WorkerInv, CancelListener
  PROVE  InOrderNow /\ OneKind
<1>1. /\ SameSettings /\ listener' \in {"up", "down"} /\ UNCHANGED <<poolVars, boardVars>>
  BY SettingStays DEF CancelListener, WorkerInv, SettingSpent
<1>2. conn' = [c \in Conns |-> [conn[c] EXCEPT !.aborted = Leased(c)]]
  BY DEF CancelListener
<1>3. ASSUME NEW c \in Conns
      PROVE  WorkerOK(conn'[c]) /\ SameMarks(conn[c], conn'[c]) /\ SameStage(conn[c], conn'[c])
  <2>1. DOMAIN conn[c] = WorkerFields /\ WorkerOK(conn[c])
    BY DEF WorkerInv, WorkerOK
  <2>2. /\ DOMAIN conn'[c] = WorkerFields /\ conn'[c].pc = conn[c].pc /\ conn'[c].lease = conn[c].lease
        /\ conn'[c].port = conn[c].port /\ conn'[c].generation = conn[c].generation
        /\ conn'[c].c2s = conn[c].c2s /\ conn'[c].s2c = conn[c].s2c
        /\ conn'[c].reason = conn[c].reason /\ conn'[c].told = conn[c].told
    BY <1>2, <2>1 DEF WorkerFields
  <2>3. WorkerOK(conn'[c])
    BY <2>1, <2>2 DEF WorkerOK
  <2>4. SameMarks(conn[c], conn'[c]) /\ SameStage(conn[c], conn'[c])
    BY <2>2 DEF SameMarks, SameStage, IsOver
  <2> QED BY <2>3, <2>4
<1>4. SettingOK'
  BY <1>1 DEF WorkerInv, SettingOK, SameSettings
<1>5. InOrderNow
  BY <1>1, <1>2, <1>3, <1>4 DEF InOrderNow, WorkerInv
<1>6. Quietly
  BY <1>1, <1>3 DEF Quietly
<1> QED BY <1>5, <1>6 DEF OneKind

LEMMA OtherKinds ==
  ASSUME WorkerInv, \/ ReceiveEvent \/ FindNoEvent \/ SampleProgress \/ Rescan \/ Rebind
                    \/ MonitorSnapshot \/ MonitorMark \/ MonitorJoin \/ MonitorSleep
                    \/ UNCHANGED vars
  PROVE  InOrderNow /\ OneKind
<1>1. UNCHANGED conn /\ SameSettings /\ listener' \in {"up", "down"}
  <2>1. UNCHANGED <<conn, listener>> /\ (UNCHANGED setting \/ \E what \in SettingSpent : Spend(what))
    BY DEF ReceiveEvent, FindNoEvent, SampleProgress, Rescan, Rebind, MonitorSnapshot, MonitorMark,
           MonitorJoin, MonitorSleep, vars, proxyVars, SettingSpent
  <2> QED BY <2>1, SettingStays DEF WorkerInv
<1>2. InOrderNow
  BY <1>1, SameConns
<1>3. CASE ReceiveEvent \/ FindNoEvent \/ SampleProgress
  <2>1. ShowsMore
    BY <1>1, <1>3 DEF ShowsMore, ReceiveEvent, FindNoEvent, SampleProgress
  <2> QED BY <1>2, <2>1 DEF OneKind
<1>4. CASE Rescan
  <2>1. ReplacesList
    BY <1>1, <1>4 DEF ReplacesList, Rescan
  <2> QED BY <1>2, <2>1 DEF OneKind
<1>5. CASE Rebind \/ MonitorSnapshot \/ MonitorMark \/ MonitorSleep \/ UNCHANGED vars
  <2>1. UNCHANGED <<poolVars, boardVars, conn>>
    BY <1>1, <1>5 DEF Rebind, MonitorSnapshot, MonitorMark, MonitorSleep, vars
  <2> QED BY <1>2, <2>1, QuietAll
<1>6. CASE MonitorJoin
  <2>1. PICK key \in monitor.running, ping \in Pings \cup {NoPing} :
          IF monitor.revision = binding THEN UpdatePing(monitor.generation, key, ping)
          ELSE UNCHANGED poolVars
    BY <1>6 DEF MonitorJoin
  <2>2. UNCHANGED boardVars /\ ping \in Nat \cup {NoPing}
    BY <1>6, ProxyAssumption DEF MonitorJoin
  <2>3. CASE monitor.revision = binding
    <3>1. Measures
      BY <1>1, <2>1, <2>2, <2>3 DEF Measures
    <3> QED BY <1>2, <3>1 DEF OneKind
  <2>4. CASE monitor.revision # binding
    <3>1. UNCHANGED <<poolVars, boardVars, conn>>
      BY <1>1, <2>1, <2>2, <2>4
    <3> QED BY <1>2, <3>1, QuietAll
  <2> QED BY <2>3, <2>4
<1> QED BY <1>2, <1>3, <1>4, <1>5, <1>6

LEMMA NextIs ==
  ASSUME WorkerInv, registry.generation \in Nat, [Next]_vars
  PROVE  InOrderNow /\ OneKind
<1>1. ASSUME NEW c \in Conns, Worker(c)
      PROVE  InOrderNow /\ OneKind
  BY <1>1, BeginKind, ConnectKinds, PrepareKinds, StartKind, ReadKind, WriteKind, EofKind, ReturnKinds,
     FinishKind, EndKinds DEF Worker
<1> QED BY <1>1, AcceptKind, CancelKind, OtherKinds DEF Next

(***************************************************************************)
(* The pool: load and traffic.                                             *)
(***************************************************************************)
CountFields == {"load", "c2s", "s2c"}
\* Only field x of counter k has changed, to n.
OneCount(cs, t, k, x, n) ==
  /\ t \in Seq(Counts) /\ Len(t) = Len(cs) /\ t[k][x] = n
  /\ \A y \in CountFields : y # x => t[k][y] = cs[k][y]
  /\ \A i \in 1..Len(cs) : i # k => t[i] = cs[i]

LEMMA CountSet ==
  ASSUME NEW cs \in Seq(Counts), NEW k \in 1..Len(cs), NEW x \in CountFields, NEW n \in Nat
  PROVE  OneCount(cs, [cs EXCEPT ![k][x] = n], k, x, n)
<1> DEFINE t == [cs EXCEPT ![k][x] = n]
           w == [cs[k] EXCEPT ![x] = n]
<1>1. cs[k] \in Counts /\ cs \in [1..Len(cs) -> Counts] /\ Len(cs) \in Nat
  OBVIOUS
<1>2. w \in Counts /\ w[x] = n /\ \A y \in CountFields : y # x => w[y] = cs[k][y]
  <2>1. CASE x = "load"
    BY <1>1, <2>1 DEF Counts, CountFields
  <2>2. CASE x = "c2s"
    BY <1>1, <2>2 DEF Counts, CountFields
  <2>3. CASE x = "s2c"
    BY <1>1, <2>3 DEF Counts, CountFields
  <2> QED BY <2>1, <2>2, <2>3 DEF CountFields
<1>3. t = [cs EXCEPT ![k] = w]
  BY <1>1
<1> HIDE DEF w, t
<1>4. t \in [1..Len(cs) -> Counts] /\ t[k] = w /\ \A i \in 1..Len(cs) : i # k => t[i] = cs[i]
  BY <1>1, <1>2, <1>3
<1>5. t \in Seq(Counts) /\ Len(t) = Len(cs)
  BY <1>1, <1>4, IsSeq
<1>6. OneCount(cs, t, k, x, n)
  BY <1>2, <1>4, <1>5 DEF OneCount
<1> QED BY <1>6 DEF t

LEMMA ConnsFinite == IsFiniteSet(Conns)
BY UpTo, ProxyAssumption DEF Conns

LEMMA SomeConns ==
  ASSUME NEW S \in SUBSET Conns
  PROVE  IsFiniteSet(S) /\ Cardinality(S) \in Nat
BY ConnsFinite, FS_Subset, FS_CardinalityType

\* The workers with a lease on the target at i, and what the relays to it have copied.
Holders(i) == {c \in Conns : conn[c].pc \notin {"idle", "gone"} /\ conn[c].lease.key = pool.history[i].key}
Copied(i, d) == [c \in Conns |-> IF conn[c].lease.key = pool.history[i].key THEN conn[c][d].n ELSE 0]
CopiedAll(i, d) == SumFunctionOnSet(Copied(i, d), Conns)
\* The same, with the counter of a target at its place in the history.
Tallied ==
  \A i \in 1..Len(pool.history) :
    /\ counters[i].load = Cardinality(Holders(i))
    /\ \A d \in Directions : counters[i][d] = CopiedAll(i, d)

LEMMA TalliedIs ==
  ASSUME Kept(pool, counters)
  PROVE  LoadIsLeases /\ TrafficIsRelayed <=> Tallied
<1>1. DOMAIN pool.history = 1..Len(pool.history)
  BY DEF Kept
<1>2. \A i \in 1..Len(pool.history) : pool.history[i].counter = i
  BY DEF Kept
<1>3. ASSUME NEW i
      PROVE  Holders(i) = {c \in Conns : Leased(c) /\ conn[c].lease.key = pool.history[i].key}
  BY DEF Holders, Leased
<1>4. ASSUME NEW i, NEW d
      PROVE  SumFunction([c \in Conns |->
               IF conn[c].lease.key = pool.history[i].key THEN conn[c][d].n ELSE 0]) = CopiedAll(i, d)
  BY DEF CopiedAll, SumFunction, Copied
<1>5. LoadIsLeases <=> \A i \in 1..Len(pool.history) : counters[i].load = Cardinality(Holders(i))
  BY ZenonT(30), <1>1, <1>2, <1>3 DEF LoadIsLeases
<1>6. TrafficIsRelayed <=> \A i \in 1..Len(pool.history), d \in Directions : counters[i][d] = CopiedAll(i, d)
  <2> DEFINE R(i, d) == SumFunction([c \in Conns |->
               IF conn[c].lease.key = pool.history[i].key THEN conn[c][d].n ELSE 0])
  <2>1. TrafficIsRelayed <=> \A i \in DOMAIN pool.history, d \in Directions :
                               counters[pool.history[i].counter][d] = R(i, d)
    BY DEF TrafficIsRelayed
  <2>2. \A i, d : R(i, d) = CopiedAll(i, d)
    BY <1>4
  <2> HIDE DEF R
  <2> QED BY <1>1, <1>2, <2>1, <2>2, Zenon
<1> QED BY <1>5, <1>6, Zenon DEF Tallied

LEMMA HistoryIs ==
  ASSUME PoolInv
  PROVE  HistoryAgrees
<1>1. /\ DOMAIN pool.members = 1..Len(pool.members) /\ DOMAIN pool.history = 1..Len(pool.history)
      /\ \A i \in 1..Len(pool.members) :
           /\ pool.members[i].counter \in 1..Len(pool.history)
           /\ pool.history[pool.members[i].counter] = pool.members[i]
      /\ \A i, j \in 1..Len(pool.history) : pool.history[i].key = pool.history[j].key => i = j
  BY DEF PoolInv, Kept, Listed
<1> SUFFICES ASSUME NEW i \in 1..Len(pool.members)
             PROVE  pool.members[i] = pool.history[HistoryIndex(pool.history, pool.members[i].key)]
  BY <1>1 DEF HistoryAgrees
<1> DEFINE k == pool.members[i].counter
<1>2. k \in DOMAIN pool.history /\ pool.history[k] = pool.members[i]
  BY <1>1
<1> HIDE DEF k
<1>3. \A l \in DOMAIN pool.history : pool.history[l].key = pool.history[k].key => l = k
  BY <1>1, <1>2
<1>4. HistoryIndex(pool.history, pool.history[k].key) = k
  BY <1>2, <1>3, IndexIs
<1> QED BY <1>2, <1>4

\* A worker, and the pool, as far as the tally goes.
SameLease(v, w) == /\ w.lease = v.lease /\ w.c2s.n = v.c2s.n /\ w.s2c.n = v.s2c.n
                   /\ w.pc = "idle" <=> v.pc = "idle"
                   /\ w.pc = "gone" <=> v.pc = "gone"
SameHistory == /\ Kept(pool', counters') /\ Listed(pool')
               /\ Len(pool'.history) = Len(pool.history)
               /\ \A i \in 1..Len(pool.history) : pool'.history[i].key = pool.history[i].key

LEMMA TallyStays ==
  ASSUME PoolInv, Tallied, SameHistory, counters' = counters,
         \A c \in Conns : SameLease(conn[c], conn'[c])
  PROVE  PoolInv' /\ Tallied'
<1>1. \A c \in Conns : /\ conn'[c].lease = conn[c].lease
                       /\ \A d \in Directions : conn'[c][d].n = conn[c][d].n
                       /\ conn'[c].pc = "idle" <=> conn[c].pc = "idle"
                       /\ conn'[c].pc = "gone" <=> conn[c].pc = "gone"
  BY DEF SameLease, Directions
<1>2. \A i \in 1..Len(pool.history) : pool'.history[i].key = pool.history[i].key
  BY DEF SameHistory
<1>3. ASSUME NEW i \in 1..Len(pool.history) PROVE Holders(i)' = Holders(i)
  BY <1>1, <1>2 DEF Holders
<1>4. ASSUME NEW i \in 1..Len(pool.history), NEW d \in Directions PROVE CopiedAll(i, d)' = CopiedAll(i, d)
  <2>1. Copied(i, d)' = Copied(i, d)
    BY <1>1, <1>2 DEF Copied
  <2> QED BY <2>1 DEF CopiedAll
<1>5. Tallied'
  BY <1>3, <1>4 DEF Tallied, SameHistory
<1>6. PoolInv'
  BY SMTT(30), <1>1, <1>2 DEF PoolInv, SameHistory
<1> QED BY <1>5, <1>6

LEMMA CountType ==
  ASSUME NEW w \in Counts, NEW x \in CountFields
  PROVE  w[x] \in Nat
BY DEF Counts, CountFields

LEMMA AreFields ==
  /\ "load" \in CountFields /\ "load" \notin Directions
  /\ \A d \in Directions : d \in CountFields
BY DEF CountFields, Directions

\* A lease names the place of its target in the history.
LEMMA LeaseIs ==
  ASSUME PoolInv, NEW c \in Conns, conn[c].pc # "idle", NEW i \in 1..Len(pool.history)
  PROVE  conn[c].lease.key = pool.history[i].key <=> i = conn[c].lease.counter
<1>1. /\ conn[c].lease.counter \in 1..Len(pool.history)
      /\ pool.history[conn[c].lease.counter].key = conn[c].lease.key
  BY DEF PoolInv
<1>2. \A j, k \in 1..Len(pool.history) : pool.history[j].key = pool.history[k].key => j = k
  BY DEF PoolInv, Kept
<1> QED BY <1>1, <1>2

\* The list is the same, but for the cursor.
LEMMA CursorMoves ==
  ASSUME PoolInv, NEW i \in Selectable, pool' = [pool EXCEPT !.cursor = i % Len(pool.members)]
  PROVE  /\ \A cs : Kept(pool, cs) => Kept(pool', cs)
         /\ Listed(pool') /\ pool'.history = pool.history /\ pool'.generation = pool.generation
<1>1. IsRecord(pool, PoolFields)
  BY DEF PoolInv, Kept
<1>2. /\ pool'.strategy = pool.strategy /\ pool'.members = pool.members /\ pool'.history = pool.history
      /\ pool'.generation = pool.generation /\ pool'.cursor = i % Len(pool.members)
      /\ IsRecord(pool', PoolFields)
  BY <1>1 DEF IsRecord, PoolFields
<1>3. i \in 1..Len(pool.members) /\ Len(pool.members) \in Nat \ {0}
  BY SelectableAre DEF PoolInv, Listed
<1>4. i % Len(pool.members) \in 0..(Len(pool.members) - 1)
  BY <1>3, Remainder
<1>5. Listed(pool')
  BY <1>2, <1>3, <1>4 DEF PoolInv, Listed
<1> QED BY <1>2, <1>5 DEF Kept

LEMMA AcceptTallies ==
  ASSUME WorkerInv, PoolInv, Tallied, NEW c \in Conns, Accepts(c)
  PROVE  PoolInv' /\ Tallied'
<1>1. PICK i \in Selectable : AcquireMember(i) /\ conn'[c].lease = Acquired(i)
  BY DEF Accepts
<1>1a. PICK k : k = pool.members[i].counter
  OBVIOUS
<1>2. /\ k \in 1..Len(counters) /\ k \in 1..Len(pool.history)
      /\ pool.history[k].key = pool.members[i].key
  BY <1>1a, SelectableAre DEF PoolInv, Kept
<1>3. /\ \A cs : Kept(pool, cs) => Kept(pool', cs)
      /\ Listed(pool') /\ pool'.history = pool.history
  BY <1>1, CursorMoves DEF AcquireMember
<1>4. counters \in Seq(Counts) /\ Len(counters) = Len(pool.history) /\ counters[k].load \in Nat
  BY <1>2, CountType DEF PoolInv, Kept, CountFields
<1>5. conn'[c].lease.key = pool.history[k].key /\ conn'[c].lease.counter = k
  BY <1>1, <1>1a, <1>2 DEF Acquired
<1>6. counters' = [counters EXCEPT ![k]["load"] = counters[k].load + 1]
  BY <1>1, <1>1a DEF AcquireMember
<1>7. OneCount(counters, counters', k, "load", counters[k].load + 1)
  <2>1. counters[k].load + 1 \in Nat
    BY <1>4
  <2> QED BY <1>2, <1>4, <1>6, <2>1, CountSet, AreFields, Zenon
<1>8. Kept(pool', counters')
  <2>1. Kept(pool, counters')
    BY <1>4, <1>7 DEF PoolInv, Kept, OneCount
  <2> QED BY <1>3, <2>1
<1>9. /\ DOMAIN conn' = Conns /\ \A e \in Conns : e # c => conn'[e] = conn[e]
      /\ conn[c].pc = "idle" /\ conn'[c].pc = "spawned"
      /\ \A d \in Directions : conn[c][d].n = 0 /\ conn'[c][d].n = 0
  BY DEF Accepts, OthersStay, WorkerInv, WorkerOK, NewCopy, Directions
<1>10. PoolInv'
  BY <1>2, <1>3, <1>5, <1>8, <1>9 DEF PoolInv
<1>11. ASSUME NEW j \in 1..Len(pool.history), j # k PROVE Holders(j)' = Holders(j)
  <2>1. pool.history[j].key # pool.history[k].key
    BY <1>2, <1>11 DEF PoolInv, Kept
  <2> QED BY <1>3, <1>5, <1>9, <2>1 DEF Holders
<1>12. Holders(k)' = Holders(k) \cup {c} /\ c \notin Holders(k)
  BY <1>3, <1>5, <1>9 DEF Holders
<1>13. Cardinality(Holders(k)') = Cardinality(Holders(k)) + 1
  <2>1. IsFiniteSet(Holders(k))
    BY SomeConns DEF Holders
  <2> QED BY <1>12, <2>1, FS_AddElement
<1>14. ASSUME NEW j, NEW d \in Directions PROVE CopiedAll(j, d)' = CopiedAll(j, d)
  <2>1. Copied(j, d)' = Copied(j, d)
    BY <1>3, <1>9 DEF Copied
  <2> QED BY <2>1 DEF CopiedAll
<1>15. Tallied'
  <2> SUFFICES ASSUME NEW j \in 1..Len(pool.history)
               PROVE  /\ counters'[j].load = Cardinality(Holders(j)')
                      /\ \A d \in Directions : counters'[j][d] = CopiedAll(j, d)'
    BY <1>3 DEF Tallied
  <2>1. CASE j = k
    BY <1>2, <1>7, <1>13, <1>14, <2>1, AreFields DEF Tallied, OneCount
  <2>2. CASE j # k
    BY <1>4, <1>7, <1>11, <1>14, <2>2 DEF Tallied, OneCount
  <2> QED BY <2>1, <2>2
<1> QED BY <1>10, <1>15

LEMMA EndTallies ==
  ASSUME WorkerInv, PoolInv, Tallied, NEW c \in Conns, Ends(c)
  PROVE  PoolInv' /\ Tallied'
<1>0. PICK k : k = conn[c].lease.counter
  OBVIOUS
<1>1. /\ UNCHANGED pool /\ \A e \in Conns : e # c => conn'[e] = conn[e]
      /\ conn[c].pc \notin {"idle", "gone"} /\ conn'[c].pc = "gone"
      /\ conn'[c].lease = conn[c].lease
      /\ \A d \in Directions : conn'[c][d].n = conn[c][d].n
      /\ counters' = [counters EXCEPT ![k]["load"] = counters[k].load - 1]
  BY <1>0 DEF Ends, OthersStay, SameMarks, Directions, DropLease
<1>2. k \in 1..Len(pool.history) /\ pool.history[k].key = conn[c].lease.key
  BY <1>0, <1>1 DEF PoolInv
<1>3. counters \in Seq(Counts) /\ Len(counters) = Len(pool.history) /\ counters[k].load \in Nat
  BY <1>2, CountType DEF PoolInv, Kept, CountFields
<1>4. ASSUME NEW i \in 1..Len(pool.history) PROVE conn[c].lease.key = pool.history[i].key <=> i = k
  BY <1>0, <1>1, LeaseIs
<1>5. ASSUME NEW j \in 1..Len(pool.history), j # k PROVE Holders(j)' = Holders(j)
  BY <1>1, <1>4, <1>5 DEF Holders
<1>6. Holders(k)' = Holders(k) \ {c} /\ c \in Holders(k)
  BY <1>1, <1>2 DEF Holders
<1>7. Cardinality(Holders(k)') = Cardinality(Holders(k)) - 1 /\ Cardinality(Holders(k)) \in Nat \ {0}
  <2>1. IsFiniteSet(Holders(k)) /\ Cardinality(Holders(k)) \in Nat
    BY SomeConns DEF Holders
  <2> QED BY <1>6, <2>1, FS_RemoveElement, FS_EmptySet
<1>8. counters[k].load - 1 \in Nat
  BY <1>2, <1>7 DEF Tallied
<1>9. OneCount(counters, counters', k, "load", counters[k].load - 1)
  BY <1>1, <1>2, <1>3, <1>8, CountSet, AreFields
<1>10. Kept(pool', counters')
  BY <1>1, <1>3, <1>9 DEF PoolInv, Kept, OneCount
<1>11. PoolInv'
  BY <1>1, <1>10 DEF PoolInv
<1>12. ASSUME NEW j, NEW d \in Directions PROVE CopiedAll(j, d)' = CopiedAll(j, d)
  <2>1. Copied(j, d)' = Copied(j, d)
    BY <1>1 DEF Copied
  <2> QED BY <2>1 DEF CopiedAll
<1>13. Tallied'
  <2> SUFFICES ASSUME NEW j \in 1..Len(pool.history)
               PROVE  /\ counters'[j].load = Cardinality(Holders(j)')
                      /\ \A d \in Directions : counters'[j][d] = CopiedAll(j, d)'
    BY <1>1 DEF Tallied
  <2>1. CASE j = k
    BY <1>2, <1>7, <1>9, <1>12, <2>1, AreFields DEF Tallied, OneCount
  <2>2. CASE j # k
    BY <1>3, <1>5, <1>9, <1>12, <2>2 DEF Tallied, OneCount
  <2> QED BY <2>1, <2>2
<1> QED BY <1>11, <1>13

LEMMA WriteTallies ==
  ASSUME WorkerInv, PoolInv, Tallied, NEW c \in Conns, NEW d \in Directions, Writes(c, d)
  PROVE  PoolInv' /\ Tallied'
<1>0. PICK k : k = conn[c].lease.counter
  OBVIOUS
<1>1. /\ UNCHANGED pool /\ \A e \in Conns : e # c => conn'[e] = conn[e]
      /\ conn[c].pc = "relaying" /\ conn'[c].pc = "relaying" /\ conn'[c].lease = conn[c].lease
      /\ conn'[c][d].n = conn[c][d].n + 1
      /\ \A e \in Directions : e # d => conn'[c][e].n = conn[c][e].n
  BY DEF Writes, OthersStay, Copying
<1>1a. counters' = [counters EXCEPT ![k][d] = counters[k][d] + 1]
  BY <1>0 DEF Writes, CountTraffic
<1>2. k \in 1..Len(pool.history) /\ pool.history[k].key = conn[c].lease.key
  BY <1>0, <1>1 DEF PoolInv
<1>3. counters \in Seq(Counts) /\ Len(counters) = Len(pool.history) /\ counters[k][d] \in Nat
  BY <1>2, CountType DEF PoolInv, Kept, CountFields, Directions
<1>4. ASSUME NEW i \in 1..Len(pool.history) PROVE conn[c].lease.key = pool.history[i].key <=> i = k
  BY <1>0, <1>1, LeaseIs
<1>5. \A e \in Conns, x \in Directions : conn[e][x].n \in Nat
  BY DEF WorkerInv, WorkerOK, Copies, Directions
<1>6. OneCount(counters, counters', k, d, counters[k][d] + 1)
  <2>1. counters[k][d] + 1 \in Nat
    BY <1>3
  <2>2. k \in 1..Len(counters)
    BY <1>2, <1>3
  <2> QED BY <1>1a, <1>3, <2>1, <2>2, CountSet, AreFields, Zenon
<1>7. Kept(pool', counters')
  BY <1>1, <1>3, <1>6 DEF PoolInv, Kept, OneCount
<1>8. PoolInv'
  BY <1>1, <1>7 DEF PoolInv
<1>9. ASSUME NEW j PROVE Holders(j)' = Holders(j)
  BY <1>1 DEF Holders
<1>10. ASSUME NEW j \in 1..Len(pool.history), NEW e \in Directions, j # k \/ e # d
       PROVE  CopiedAll(j, e)' = CopiedAll(j, e)
  <2>1. Copied(j, e)' = Copied(j, e)
    BY <1>1, <1>4, <1>10 DEF Copied
  <2> QED BY <2>1 DEF CopiedAll
<1>11. CopiedAll(k, d)' = CopiedAll(k, d) + 1
  <2> DEFINE f == Copied(k, d)
             g == Copied(k, d)'
             R == Conns \ {c}
  <2>1. \A e \in Conns : f[e] \in Nat
    BY <1>5 DEF Copied
  <2>2. g[c] = f[c] + 1
    BY <1>1, <1>2 DEF Copied
  <2>3. \A e \in R : g[e] = f[e]
    BY <1>1 DEF Copied
  <2>4. \A e \in Conns : g[e] \in Nat
    BY <2>1, <2>2, <2>3
  <2>5. CopiedAll(k, d)' = SumFunctionOnSet(g, Conns) /\ CopiedAll(k, d) = SumFunctionOnSet(f, Conns)
    BY DEF CopiedAll
  <2> HIDE DEF f, g
  <2>6. SumFunctionOnSet(g, Conns) = g[c] + SumFunctionOnSet(g, R)
    BY <2>4, ConnsFinite, SumSplits
  <2>7. SumFunctionOnSet(f, Conns) = f[c] + SumFunctionOnSet(f, R)
    BY <2>1, ConnsFinite, SumSplits
  <2>8. IsFiniteSet(R)
    BY SomeConns
  <2>9. SumFunctionOnSet(f, R) \in Nat /\ SumFunctionOnSet(f, R) = SumFunctionOnSet(g, R)
    BY <2>1, <2>3, <2>8, SumsEqual
  <2> QED BY <2>1, <2>2, <2>5, <2>6, <2>7, <2>9
<1>12. Tallied'
  <2> SUFFICES ASSUME NEW j \in 1..Len(pool.history)
               PROVE  /\ counters'[j].load = Cardinality(Holders(j)')
                      /\ \A e \in Directions : counters'[j][e] = CopiedAll(j, e)'
    BY <1>1 DEF Tallied
  <2>1. CASE j = k
    <3>1. counters'[k].load = Cardinality(Holders(k)')
      BY <1>2, <1>6, <1>9, AreFields DEF Tallied, OneCount
    <3>2. ASSUME NEW e \in Directions PROVE counters'[k][e] = CopiedAll(k, e)'
      <4>1. CASE e = d
        BY <1>2, <1>6, <1>11, <4>1 DEF Tallied, OneCount
      <4>2. CASE e # d
        BY <1>2, <1>6, <1>10, <4>2, AreFields DEF Tallied, OneCount
      <4> QED BY <4>1, <4>2
    <3> QED BY <2>1, <3>1, <3>2
  <2>2. CASE j # k
    BY <1>3, <1>6, <1>9, <1>10, <2>2 DEF Tallied, OneCount
  <2> QED BY <2>1, <2>2
<1> QED BY <1>8, <1>12

LEMMA ReplaceTallies ==
  ASSUME WorkerInv, PoolInv, Tallied, ReplacesList
  PROVE  PoolInv' /\ Tallied'
<1>1. PICK ts \in setting.found : Replace(ts)
  BY DEF ReplacesList
<1>2. UNCHANGED conn /\ ts \in Seq(Candidates)
  BY DEF ReplacesList, WorkerInv, SettingOK
<1>3. CASE ts = <<>>
  <2>1. UNCHANGED <<pool, counters>>
    BY <1>1, <1>3 DEF Replace, Replaced
  <2>2. SameHistory /\ \A c \in Conns : SameLease(conn[c], conn'[c])
    BY <1>2, <2>1 DEF SameHistory, SameLease, PoolInv
  <2> QED BY <2>1, <2>2, TallyStays
<1>4. CASE ts # <<>>
  <2>1. Kept(pool, counters)
    BY DEF PoolInv
  <2>2. pool' = Replaced(pool, counters, ts).pool /\ counters' = Replaced(pool, counters, ts).counters
    BY <1>1 DEF Replace
  <2>3. /\ Kept(pool', counters') /\ Listed(pool')
        /\ Len(counters) <= Len(counters')
        /\ \A i \in 1..Len(counters) : counters'[i] = counters[i] /\ pool'.history[i].key = pool.history[i].key
        /\ \A i \in (Len(counters) + 1)..Len(counters') : counters'[i] = NewCounter
    BY <1>2, <1>4, <2>1, <2>2, ReplacedIs
  <2>4. /\ Len(counters) = Len(pool.history) /\ Len(counters') = Len(pool'.history)
        /\ Len(counters) \in Nat /\ Len(counters') \in Nat
    BY <2>1, <2>3 DEF Kept
  <2>5. PoolInv'
    BY <1>2, <2>3, <2>4 DEF PoolInv
  <2>6. ASSUME NEW i \in 1..Len(pool.history)
        PROVE  Holders(i)' = Holders(i) /\ \A d \in Directions : CopiedAll(i, d)' = CopiedAll(i, d)
    <3>1. pool'.history[i].key = pool.history[i].key
      BY <2>3, <2>4
    <3>2. Holders(i)' = Holders(i) /\ \A d \in Directions : Copied(i, d)' = Copied(i, d)
      BY <1>2, <3>1 DEF Holders, Copied
    <3> QED BY <3>2 DEF CopiedAll
  <2>7. ASSUME NEW i \in (Len(counters) + 1)..Len(counters'), NEW c \in Conns, conn[c].pc # "idle"
        PROVE  conn[c].lease.key # pool'.history[i].key
    <3>1. PICK k \in 1..Len(pool.history) : pool.history[k].key = conn[c].lease.key
      BY <2>7 DEF PoolInv
    <3>2. pool'.history[k].key = conn[c].lease.key /\ k \in 1..Len(pool'.history)
          /\ i \in 1..Len(pool'.history) /\ i # k
      BY <2>3, <2>4, <3>1
    <3> QED BY <2>3, <3>2 DEF Kept
  <2>8. ASSUME NEW i \in (Len(counters) + 1)..Len(counters')
        PROVE  Cardinality(Holders(i)') = 0 /\ \A d \in Directions : CopiedAll(i, d)' = 0
    <3>1. Holders(i)' = {}
      BY <1>2, <2>7 DEF Holders
    <3>2. \A c \in Conns, d \in Directions : conn[c].pc = "idle" => conn[c][d].n = 0
      BY DEF WorkerInv, WorkerOK, NewCopy, Directions
    <3>3. \A d \in Directions, c \in Conns : (Copied(i, d)')[c] = 0
      BY <1>2, <2>7, <3>2 DEF Copied
    <3>4. ASSUME NEW d \in Directions PROVE CopiedAll(i, d)' = 0
      <4> DEFINE g == Copied(i, d)'
      <4>1. \A c \in Conns : g[c] = 0
        BY <3>3
      <4>2. CopiedAll(i, d)' = SumFunctionOnSet(g, Conns)
        BY DEF CopiedAll
      <4> HIDE DEF g
      <4> QED BY <4>1, <4>2, ConnsFinite, SumOfZeros
    <3> QED BY <3>1, <3>4, FS_EmptySet
  <2>9. Tallied'
    <3> SUFFICES ASSUME NEW i \in 1..Len(pool'.history)
                 PROVE  /\ counters'[i].load = Cardinality(Holders(i)')
                        /\ \A d \in Directions : counters'[i][d] = CopiedAll(i, d)'
      BY DEF Tallied
    <3>1. CASE i \in 1..Len(pool.history)
      BY <2>3, <2>4, <2>6, <3>1 DEF Tallied
    <3>2. CASE i \in (Len(counters) + 1)..Len(counters')
      BY <2>3, <2>8, <3>2 DEF NewCounter, Directions
    <3> QED BY <2>4, <3>1, <3>2
  <2> QED BY <2>5, <2>9
<1> QED BY <1>3, <1>4

LEMMA PingSet ==
  ASSUME NEW m \in Entries, NEW ping \in Nat \cup {NoPing}
  PROVE  LET w == [m EXCEPT !.ping = ping] IN
         w \in Entries /\ w.key = m.key /\ w.counter = m.counter
BY DEF Entries

LEMMA SourceSet ==
  ASSUME NEW m \in Entries
  PROVE  LET w == [m EXCEPT !.source = "Live"] IN
         w \in Entries /\ w.key = m.key /\ w.counter = m.counter
BY DEF Entries

MeasuredAs(m, key, ping) ==
  IF m.key = key THEN [m EXCEPT !.ping = ping, !.source = "Live"] ELSE m
LEMMA MeasuredIs ==
  ASSUME NEW m \in Entries, NEW key, NEW ping \in Nat \cup {NoPing}
  PROVE  LET w == MeasuredAs(m, key, ping) IN
         w \in Entries /\ w.key = m.key /\ w.counter = m.counter
<1>1. [m EXCEPT !.ping = ping, !.source = "Live"] = [[m EXCEPT !.ping = ping] EXCEPT !.source = "Live"]
  OBVIOUS
<1> DEFINE v == [m EXCEPT !.ping = ping]
           u == [v EXCEPT !.source = "Live"]
<1>2. v \in Entries /\ v.key = m.key /\ v.counter = m.counter
  BY PingSet
<1> HIDE DEF v
<1>3. u \in Entries /\ u.key = v.key /\ u.counter = v.counter
  BY <1>2, SourceSet
<1>4. MeasuredAs(m, key, ping) = IF m.key = key THEN u ELSE m
  BY <1>1 DEF MeasuredAs, v
<1> HIDE DEF u
<1> QED BY <1>2, <1>3, <1>4

LEMMA MeasuringKeeps ==
  ASSUME PoolInv, NEW g, NEW key, NEW ping \in Nat \cup {NoPing}, UpdatePing(g, key, ping)
  PROVE  SameHistory /\ counters' = counters /\ pool'.generation = pool.generation
<1>1. counters' = counters
  BY DEF UpdatePing
<1>2. CASE ~(pool.generation = g /\ key \in KeysOf(pool.members))
  <2>1. pool' = pool
    BY <1>2 DEF UpdatePing
  <2> QED BY <1>1, <2>1 DEF SameHistory, PoolInv
<1>3. CASE pool.generation = g /\ key \in KeysOf(pool.members)
  <2> DEFINE M(m) == MeasuredAs(m, key, ping)
             ms == [i \in DOMAIN pool.members |-> M(pool.members[i])]
             hs == [i \in DOMAIN pool.history |-> M(pool.history[i])]
  <2>1. pool' = [pool EXCEPT !.members = ms, !.history = hs]
    BY <1>3 DEF UpdatePing, MeasuredAs
  <2>2. /\ pool.members \in Seq(Entries) /\ pool.history \in Seq(Entries)
        /\ IsRecord(pool, PoolFields) /\ Len(pool.members) \in Nat /\ Len(pool.history) \in Nat
    BY DEF PoolInv, Kept, Listed
  <2>3. \A m \in Entries : M(m) \in Entries /\ M(m).key = m.key /\ M(m).counter = m.counter
    BY MeasuredIs
  <2>4. ms \in [1..Len(pool.members) -> Entries] /\ hs \in [1..Len(pool.history) -> Entries]
    <3>1. \A i \in DOMAIN pool.members : M(pool.members[i]) \in Entries
      BY <2>2, <2>3
    <3>2. \A i \in DOMAIN pool.history : M(pool.history[i]) \in Entries
      BY <2>2, <2>3
    <3> HIDE DEF M
    <3> QED BY <2>2, <3>1, <3>2
  <2>5. /\ ms \in Seq(Entries) /\ Len(ms) = Len(pool.members)
        /\ hs \in Seq(Entries) /\ Len(hs) = Len(pool.history)
    BY <2>2, <2>4, IsSeq
  <2>6. /\ \A i \in 1..Len(pool.members) : ms[i] = M(pool.members[i]) /\ pool.members[i] \in Entries
        /\ \A i \in 1..Len(pool.history) : hs[i] = M(pool.history[i]) /\ pool.history[i] \in Entries
    BY <2>2
  <2> HIDE DEF M, ms, hs
  <2>7. /\ pool'.strategy = pool.strategy /\ pool'.members = ms /\ pool'.history = hs
        /\ pool'.generation = pool.generation /\ pool'.cursor = pool.cursor
        /\ IsRecord(pool', PoolFields)
    BY <2>1, <2>2 DEF IsRecord, PoolFields
  <2>8. \A i \in 1..Len(pool.history) : hs[i].key = pool.history[i].key /\ hs[i].counter = pool.history[i].counter
    BY <2>3, <2>6
  <2>9. Kept(pool', counters')
    BY <1>1, <2>5, <2>7, <2>8 DEF PoolInv, Kept
  <2>10. ASSUME NEW i \in 1..Len(pool.members)
         PROVE  ms[i].counter \in 1..Len(pool.history) /\ hs[ms[i].counter] = ms[i]
    <3>1. /\ pool.members[i].counter \in 1..Len(pool.history)
          /\ pool.history[pool.members[i].counter] = pool.members[i]
      BY DEF PoolInv, Listed
    <3>2. ms[i].counter = pool.members[i].counter
      BY <2>3, <2>6
    <3>3. hs[pool.members[i].counter] = M(pool.history[pool.members[i].counter])
      BY <2>6, <3>1
    <3> QED BY <2>6, <3>1, <3>2, <3>3
  <2>11. Listed(pool')
    BY <2>5, <2>7, <2>10 DEF PoolInv, Listed
  <2> QED BY <1>1, <2>5, <2>7, <2>8, <2>9, <2>11 DEF SameHistory
<1> QED BY <1>2, <1>3

LEMMA PoolKeeps ==
  ASSUME WorkerInv, PoolInv, Tallied, OneKind
  PROVE  PoolInv' /\ Tallied'
<1>1. ASSUME UNCHANGED <<poolVars>>, \A c \in Conns : SameLease(conn[c], conn'[c])
      PROVE  PoolInv' /\ Tallied'
  <2>1. SameHistory /\ counters' = counters
    BY <1>1 DEF SameHistory, PoolInv, poolVars
  <2> QED BY <1>1, <2>1, TallyStays
<1>2. ASSUME UNCHANGED <<poolVars>>, NEW c \in Conns, OthersStay(c), SameLease(conn[c], conn'[c])
      PROVE  PoolInv' /\ Tallied'
  <2>1. ASSUME NEW e \in Conns, e # c PROVE SameLease(conn[e], conn'[e])
    BY <1>2, <2>1 DEF OthersStay, SameLease
  <2> QED BY <1>1, <1>2, <2>1
<1>3. CASE Quietly
  BY <1>1, <1>3 DEF Quietly, SameLease, SameMarks, SameStage
<1>4. CASE PassesOver
  <2>1. SameHistory /\ counters' = counters
    BY <1>4, CursorMoves DEF PassesOver, SameHistory, PoolInv
  <2>2. \A c \in Conns : SameLease(conn[c], conn'[c])
    BY <1>4 DEF PassesOver, SameLease
  <2> QED BY <2>1, <2>2, TallyStays
<1>5. CASE ShowsMore
  BY <1>1, <1>5 DEF ShowsMore, SameLease
<1>6. CASE Measures
  <2>1. SameHistory /\ counters' = counters
    BY <1>6, MeasuringKeeps DEF Measures
  <2>2. \A c \in Conns : SameLease(conn[c], conn'[c])
    BY <1>6 DEF Measures, SameLease
  <2> QED BY <2>1, <2>2, TallyStays
<1>7. ASSUME NEW c \in Conns, Begins(c) PROVE PoolInv' /\ Tallied'
  BY <1>2, <1>7 DEF Begins, SameLease
<1>8. ASSUME NEW c \in Conns, Starts(c) PROVE PoolInv' /\ Tallied'
  BY <1>2, <1>8 DEF Starts, SameLease
<1>9. ASSUME NEW c \in Conns, Returns(c) PROVE PoolInv' /\ Tallied'
  BY <1>2, <1>9 DEF Returns, SameLease, SameMarks
<1>10. ASSUME NEW c \in Conns, NEW e \in Events, Tells(c, e) PROVE PoolInv' /\ Tallied'
  BY <1>2, <1>10 DEF Tells, SameLease, SameWork, MayTell
<1> QED BY <1>3, <1>4, <1>5, <1>6, <1>7, <1>8, <1>9, <1>10, ReplaceTallies, AcceptTallies, EndTallies,
           WriteTallies DEF OneKind

(***************************************************************************)
(* The monitor.                                                            *)
(***************************************************************************)
MonitorFields == {"pc", "generation", "revision", "todo", "running", "stale"}
\* What MonitorInv says of a monitor, a generation of the pool and a revision.
MonitorOK(m, generation, revision) ==
  /\ IsRecord(m, MonitorFields)
  /\ m.pc \in {"off", "snapshot", "mark", "round"}
  /\ m.generation \in Nat /\ m.revision \in Nat /\ revision \in Nat
  /\ m.stale \subseteq {"list", "binding"}
  /\ m.generation <= generation /\ m.revision <= revision
  /\ m.pc \in {"mark", "round"} /\ "list" \in m.stale => m.generation < generation
  /\ m.pc = "round" /\ "binding" \in m.stale => m.revision < revision

LEMMA MonitorIs == MonitorInv <=> MonitorOK(monitor, pool.generation, binding)
BY DEF MonitorInv, MonitorOK, MonitorFields

LEMMA FilledIs ==
  ASSUME NEW m, IsRecord(m, MonitorFields)
  PROVE  /\ IsRecord(Filled(m), MonitorFields) /\ Filled(m).pc = m.pc /\ Filled(m).generation = m.generation
         /\ Filled(m).revision = m.revision /\ Filled(m).stale = m.stale
<1> DEFINE limit == IF PingLimit = 0 THEN 1 ELSE PingLimit
           room == limit - Cardinality(m.running)
           more == IF Len(m.todo) < room THEN Len(m.todo) ELSE room
           R == m.running \cup {m.todo[i] : i \in 1..more}
           T == SubSeq(m.todo, more + 1, Len(m.todo))
<1>1. Filled(m) = [m EXCEPT !.running = R, !.todo = T]
  BY DEF Filled
<1> HIDE DEF R, T
<1> QED BY <1>1 DEF IsRecord, MonitorFields

LEMMA SameGeneration ==
  ASSUME PoolInv, NEW c \in Conns, Accept(c)
  PROVE  pool'.generation = pool.generation
<1>1. PICK i \in Selectable : pool' = [pool EXCEPT !.cursor = i % Len(pool.members)]
  BY DEF Accept, AcquireMember
<1> QED BY <1>1, CursorMoves

LEMMA MonitorKeeps ==
  ASSUME SettingOK, PoolInv, MonitorInv, [Next]_vars
  PROVE  MonitorInv'
<1>0. /\ MonitorOK(monitor, pool.generation, binding) /\ pool.generation \in Nat
      /\ IsRecord(monitor, MonitorFields)
  BY MonitorIs DEF MonitorOK, PoolInv, Kept
<1> SUFFICES MonitorOK(monitor', pool'.generation, binding')
  BY DEF MonitorInv, MonitorOK, MonitorFields
<1>1. ASSUME UNCHANGED <<monitor, binding>>, pool'.generation = pool.generation
      PROVE  MonitorOK(monitor', pool'.generation, binding')
  BY <1>0, <1>1
<1>2. ASSUME NEW c \in Conns, Accept(c)
      PROVE  MonitorOK(monitor', pool'.generation, binding')
  BY <1>1, <1>2, SameGeneration DEF Accept
<1>3. ASSUME NEW c \in Conns, Worker(c)
      PROVE  MonitorOK(monitor', pool'.generation, binding')
  <2>1. UNCHANGED <<monitor, binding, pool>>
    BY <1>3 DEF Worker, Begin, BindFails, RegisterFails, Connected, ConnectFails, Prepared, PrepareFails,
                RelayStarts, ReadChunk, WriteChunk, Eof, RelayReturns, RelayFails, Deadline, ReportFinished,
                EndTask, DropTask, poolVars
  <2> QED BY <1>1, <2>1
<1>4. CASE CancelListener
  <2>1. monitor' = MonitorOff /\ UNCHANGED <<pool, binding>>
    BY <1>4 DEF CancelListener, poolVars
  <2>2. IsRecord(MonitorOff, MonitorFields)
    BY DEF MonitorOff, IsRecord, MonitorFields
  <2> QED BY <1>0, <2>1, <2>2 DEF MonitorOff, MonitorOK
<1>5. CASE ReceiveEvent \/ FindNoEvent \/ SampleProgress \/ UNCHANGED vars
  BY <1>1, <1>5 DEF ReceiveEvent, FindNoEvent, SampleProgress, vars, poolVars, proxyVars
<1>6. CASE Rescan
  <2>1. PICK ts \in setting.found : Replace(ts) /\ IF ts = <<>> THEN UNCHANGED monitor ELSE Outdated("list")
    BY <1>6 DEF Rescan
  <2>2. UNCHANGED binding
    BY <1>6 DEF Rescan
  <2>3. CASE ts = <<>>
    BY <1>1, <2>1, <2>2, <2>3 DEF Replace, Replaced
  <2>4. CASE ts # <<>>
    <3>1. pool'.generation = pool.generation + 1
      <4>1. ts \in Seq(Candidates)
        BY DEF SettingOK
      <4> QED BY <2>1, <2>4, <4>1, ReplacedIs DEF Replace, PoolInv
    <3>2. /\ monitor'.pc = monitor.pc /\ monitor'.generation = monitor.generation
          /\ monitor'.revision = monitor.revision /\ monitor'.stale = monitor.stale \cup {"list"}
          /\ IsRecord(monitor', MonitorFields)
      BY <1>0, <2>1, <2>4 DEF Outdated, IsRecord, MonitorFields
    <3> QED BY <1>0, <2>2, <3>1, <3>2 DEF MonitorOK
  <2> QED BY <2>3, <2>4
<1>7. CASE Rebind
  <2>1. /\ monitor'.pc = monitor.pc /\ monitor'.generation = monitor.generation
        /\ monitor'.revision = monitor.revision /\ monitor'.stale = monitor.stale \cup {"binding"}
        /\ IsRecord(monitor', MonitorFields)
    BY <1>0, <1>7 DEF Rebind, Outdated, IsRecord, MonitorFields
  <2>2. binding' = binding + 1 /\ UNCHANGED pool
    BY <1>7 DEF Rebind, poolVars
  <2> QED BY <1>0, <2>1, <2>2 DEF MonitorOK
<1>8. CASE MonitorSnapshot
  <2>1. /\ monitor'.pc = "mark" /\ monitor'.generation = pool.generation
        /\ monitor'.revision = monitor.revision /\ monitor'.stale = {}
        /\ IsRecord(monitor', MonitorFields)
    BY <1>0, <1>8 DEF MonitorSnapshot, IsRecord, MonitorFields, ProbeSnapshot
  <2>2. UNCHANGED <<pool, binding>>
    BY <1>8 DEF MonitorSnapshot, poolVars
  <2> QED BY <1>0, <2>1, <2>2 DEF MonitorOK
<1>9. CASE MonitorMark
  <2> DEFINE m == [monitor EXCEPT !.pc = "round", !.revision = binding, !.stale = @ \ {"binding"}]
  <2>1. /\ m.pc = "round" /\ m.generation = monitor.generation
        /\ m.revision = binding /\ m.stale = monitor.stale \ {"binding"} /\ IsRecord(m, MonitorFields)
    BY <1>0 DEF IsRecord, MonitorFields
  <2>2. monitor' = Filled(m) /\ UNCHANGED <<pool, binding>> /\ monitor.pc = "mark"
    BY <1>9 DEF MonitorMark, poolVars
  <2> HIDE DEF m
  <2>3. /\ monitor'.pc = "round" /\ monitor'.generation = monitor.generation
        /\ monitor'.revision = binding /\ monitor'.stale = monitor.stale \ {"binding"}
        /\ IsRecord(monitor', MonitorFields)
    BY <2>1, <2>2, FilledIs
  <2> QED BY <1>0, <2>2, <2>3 DEF MonitorOK
<1>10. CASE MonitorJoin
  <2>1. PICK key \in monitor.running, ping \in Pings \cup {NoPing} :
          /\ monitor' = Filled([monitor EXCEPT !.running = @ \ {key}])
          /\ IF monitor.revision = binding THEN UpdatePing(monitor.generation, key, ping)
             ELSE UNCHANGED poolVars
    BY <1>10 DEF MonitorJoin
  <2> DEFINE m == [monitor EXCEPT !.running = @ \ {key}]
  <2>2. /\ m.pc = monitor.pc /\ m.generation = monitor.generation
        /\ m.revision = monitor.revision /\ m.stale = monitor.stale /\ IsRecord(m, MonitorFields)
    BY <1>0 DEF IsRecord, MonitorFields
  <2>3. monitor' = Filled(m)
    BY <2>1
  <2> HIDE DEF m
  <2>4. /\ monitor'.pc = monitor.pc /\ monitor'.generation = monitor.generation
        /\ monitor'.revision = monitor.revision /\ monitor'.stale = monitor.stale
        /\ IsRecord(monitor', MonitorFields)
    BY <2>2, <2>3, FilledIs
  <2>5. pool'.generation = pool.generation
    <3>1. ping \in Nat \cup {NoPing}
      BY ProxyAssumption
    <3> QED BY <2>1, <3>1, MeasuringKeeps DEF poolVars
  <2>6. UNCHANGED binding
    BY <1>10 DEF MonitorJoin
  <2> QED BY <1>0, <2>4, <2>5, <2>6 DEF MonitorOK
<1>11. CASE MonitorSleep
  <2>1. /\ monitor'.pc = "snapshot" /\ monitor'.generation = 0
        /\ monitor'.revision = 0 /\ monitor'.stale = {}
        /\ IsRecord(monitor', MonitorFields)
    BY <1>11 DEF MonitorSleep, MonitorOff, IsRecord, MonitorFields
  <2>2. UNCHANGED <<pool, binding>>
    BY <1>11 DEF MonitorSleep, poolVars
  <2> QED BY <1>0, <2>1, <2>2 DEF MonitorOK
<1> QED BY <1>2, <1>3, <1>4, <1>5, <1>6, <1>7, <1>8, <1>9, <1>10, <1>11 DEF Next

\* A probe of a round that has been overtaken changes nothing.
LEMMA StaleProbe ==
  ASSUME PoolInv, MonitorInv, MonitorJoin, monitor.stale # {}
  PROVE  UNCHANGED poolVars
<1>1. /\ MonitorOK(monitor, pool.generation, binding) /\ pool.generation \in Nat
      /\ monitor.pc = "round"
  BY MonitorIs DEF PoolInv, Kept, MonitorJoin
<1>2. PICK key \in monitor.running, ping \in Pings \cup {NoPing} :
        IF monitor.revision = binding THEN UpdatePing(monitor.generation, key, ping)
        ELSE UNCHANGED poolVars
  BY DEF MonitorJoin
<1>3. CASE "binding" \in monitor.stale
  BY <1>1, <1>2, <1>3 DEF MonitorOK
<1>4. CASE "list" \in monitor.stale
  <2>1. monitor.generation # pool.generation
    BY <1>1, <1>4 DEF MonitorOK
  <2> QED BY <1>2, <2>1 DEF UpdatePing, poolVars
<1> QED BY <1>1, <1>3, <1>4 DEF MonitorOK

(***************************************************************************)
(* The registry.                                                           *)
(***************************************************************************)
\* RegistryInv, with the entries spelled out.
EntryOf(p, c) == /\ c \in Conns /\ registry.relays[p].conn = c
                 /\ conn[c].pc = "relaying" /\ conn[c].port = p
                 /\ registry.relays[p].generation = conn[c].generation
LEMMA EntryIs ==
  ASSUME RegistryInv, NEW p \in DOMAIN registry.relays
  PROVE  \E c \in Conns : EntryOf(p, c)
BY DEF RegistryInv, EntryOf

SameRelays(v, w) == /\ w.generation = v.generation /\ (w.pc = "relaying" <=> v.pc = "relaying")
                    /\ v.generation # 0 \/ v.pc = "relaying" => w.port = v.port
LEMMA RegistryStays ==
  ASSUME WorkerInv, RegistryInv, UNCHANGED registry, SameSettings,
         \A c \in Conns : SameRelays(conn[c], conn'[c])
  PROVE  RegistryInv'
<1>1. \A c \in Conns : /\ conn'[c].generation = conn[c].generation
                       /\ conn'[c].pc = "relaying" <=> conn[c].pc = "relaying"
                       /\ conn[c].generation # 0 \/ conn[c].pc = "relaying" => conn'[c].port = conn[c].port
  BY DEF SameRelays
<1>2. setting'.events = setting.events
  BY DEF SameSettings
<1>3. \A c \in Conns : conn[c].generation \in Nat
  BY DEF WorkerInv, WorkerOK
<1>4. ASSUME NEW p \in DOMAIN registry.relays
      PROVE  LET c == registry.relays[p].conn IN
             /\ c \in Conns /\ conn'[c].pc = "relaying" /\ conn'[c].port = p
             /\ registry.relays[p].generation = conn'[c].generation
  BY <1>1, EntryIs DEF EntryOf
<1>5. ASSUME setting.events, NEW c \in Conns, conn[c].pc = "relaying"
      PROVE  /\ conn'[c].generation # 0
             /\ \/ conn'[c].port \in DOMAIN registry.relays /\ registry.relays[conn'[c].port].conn = c
                \/ \E d \in Conns : conn'[d].port = conn'[c].port /\ conn'[d].generation > conn'[c].generation
  <2>1. /\ conn[c].generation # 0
        /\ \/ conn[c].port \in DOMAIN registry.relays /\ registry.relays[conn[c].port].conn = c
           \/ \E d \in Conns : conn[d].port = conn[c].port /\ conn[d].generation > conn[c].generation
    BY <1>5 DEF RegistryInv
  <2>2. ASSUME NEW d \in Conns, conn[d].generation > conn[c].generation
        PROVE  conn[d].generation # 0
    BY <1>3, <2>2
  <2> QED BY <1>1, <1>5, <2>1, <2>2
<1> QED BY <1>1, <1>2, <1>4, <1>5 DEF RegistryInv

LEMMA StartRegisters ==
  ASSUME WorkerInv, RegistryInv, SameSettings, NEW c \in Conns, Starts(c)
  PROVE  RegistryInv'
<1>1. /\ \A d \in Conns : d # c => conn'[d] = conn[d]
      /\ conn[c].pc = "starting" /\ conn'[c].pc = "relaying" /\ conn'[c].generation = registry'.generation
      /\ conn'[c].port = conn[c].port /\ conn[c].generation = 0
  BY DEF Starts, OthersStay, WorkerInv, WorkerOK
<1>2. setting'.events = setting.events /\ setting.events \in BOOLEAN
  BY DEF SameSettings, WorkerInv, SettingOK
<1>3. /\ \A d \in Conns : conn[d].generation \in Nat /\ conn[d].generation <= registry.generation
      /\ registry.generation \in Nat /\ conn[c].port \in Nat /\ DOMAIN registry.relays \subseteq Nat
      /\ \A d, e \in Conns : d # e /\ conn[d].generation = conn[e].generation => conn[d].generation = 0
  BY DEF WorkerInv, WorkerOK, RegistryInv
<1>4. CASE ~setting.events
  <2>1. UNCHANGED registry /\ registry.generation = 0 /\ DOMAIN registry.relays = {}
    BY <1>4 DEF Starts, RegistryInv
  <2> QED BY <1>1, <1>2, <1>3, <1>4, <2>1 DEF RegistryInv
<1>5. CASE setting.events
  <2> DEFINE g == registry.generation + 1
             p == conn[c].port
             D == DOMAIN registry.relays \cup {p}
  <2>1. registry' = [generation |-> g,
                     relays |-> [q \in D |-> IF q = p THEN [generation |-> g, conn |-> c]
                                             ELSE registry.relays[q]]]
    BY <1>5 DEF Starts, RegisterRelay
  <2>2. /\ registry'.generation = g /\ DOMAIN registry'.relays = D
        /\ registry'.relays[p] = [generation |-> g, conn |-> c]
        /\ \A q \in D : q # p => registry'.relays[q] = registry.relays[q]
        /\ IsRecord(registry', {"generation", "relays"})
    BY <2>1 DEF IsRecord
  <2>3. g \in Nat /\ D \subseteq Nat /\ g > registry.generation /\ g # 0 /\ p \in D
    BY <1>3
  <2>4. \A q \in D : q # p => q \in DOMAIN registry.relays
    OBVIOUS
  <2>5. conn'[c].generation = g /\ conn'[c].port = p
    BY <1>1, <2>2
  <2> HIDE DEF g, D, p
  <2>6. \A d \in Conns : conn'[d].generation <= g
    BY <1>1, <1>3, <2>3, <2>5
  <2>7. ASSUME NEW d \in Conns, NEW e \in Conns, d # e, conn'[d].generation = conn'[e].generation
        PROVE  conn'[d].generation = 0
    BY <1>1, <1>3, <2>3, <2>5, <2>7
  <2>8. ASSUME NEW q \in D
        PROVE  LET e == registry'.relays[q].conn IN
               /\ e \in Conns /\ conn'[e].pc = "relaying" /\ conn'[e].port = q
               /\ registry'.relays[q].generation = conn'[e].generation
    <3>1. CASE q = p
      <4>1. registry'.relays[q].conn = c /\ registry'.relays[q].generation = g
        BY <2>2, <3>1
      <4> QED BY <1>1, <2>5, <3>1, <4>1
    <3>2. CASE q # p
      <4>1. PICK e \in Conns : EntryOf(q, e)
        BY <2>4, <3>2, EntryIs
      <4>2. registry'.relays[q] = registry.relays[q] /\ e # c
        BY <1>1, <2>2, <3>2, <4>1 DEF EntryOf
      <4> QED BY <1>1, <4>1, <4>2 DEF EntryOf
    <3> QED BY <3>1, <3>2
  <2>9. ASSUME NEW d \in Conns, conn'[d].pc = "relaying"
        PROVE  /\ conn'[d].generation # 0
               /\ \/ conn'[d].port \in D /\ registry'.relays[conn'[d].port].conn = d
                  \/ \E e \in Conns : conn'[e].port = conn'[d].port /\ conn'[e].generation > conn'[d].generation
    <3>1. CASE d = c
      BY <2>2, <2>3, <2>5, <3>1
    <3>2. CASE d # c
      <4>1. /\ conn'[d] = conn[d] /\ conn[d].generation # 0
            /\ \/ conn[d].port \in DOMAIN registry.relays /\ registry.relays[conn[d].port].conn = d
               \/ \E e \in Conns : conn[e].port = conn[d].port /\ conn[e].generation > conn[d].generation
        BY <1>1, <1>5, <2>9, <3>2 DEF RegistryInv
      <4>2. CASE conn[d].port = p
        <5>1. conn'[c].port = conn'[d].port /\ conn'[c].generation > conn'[d].generation
          BY <1>3, <2>3, <2>5, <4>1, <4>2
        <5> QED BY <4>1, <5>1
      <4>3. CASE conn[d].port # p
        <5>1. CASE conn[d].port \in DOMAIN registry.relays /\ registry.relays[conn[d].port].conn = d
          <6>1. conn[d].port \in D
            BY <5>1 DEF D
          <6> QED BY <2>2, <4>1, <4>3, <5>1, <6>1
        <5>2. CASE \E e \in Conns : conn[e].port = conn[d].port /\ conn[e].generation > conn[d].generation
          <6>1. PICK e \in Conns : conn[e].port = conn[d].port /\ conn[e].generation > conn[d].generation
            BY <5>2
          <6>2. e # c
            BY <4>3, <6>1 DEF p
          <6> QED BY <1>1, <4>1, <6>1, <6>2
        <5> QED BY <4>1, <5>1, <5>2
      <4> QED BY <4>2, <4>3
    <3> QED BY <3>1, <3>2
  <2>10. \A q \in DOMAIN registry'.relays :
           LET e == registry'.relays[q].conn IN
           /\ e \in Conns /\ conn'[e].pc = "relaying" /\ conn'[e].port = q
           /\ registry'.relays[q].generation = conn'[e].generation
    BY <2>2, <2>8
  <2>11. \A d \in Conns : conn'[d].pc = "relaying" =>
           /\ conn'[d].generation # 0
           /\ \/ conn'[d].port \in DOMAIN registry'.relays /\ registry'.relays[conn'[d].port].conn = d
              \/ \E e \in Conns : conn'[e].port = conn'[d].port /\ conn'[e].generation > conn'[d].generation
    BY <2>2, <2>9
  <2>12. /\ registry'.generation \in Nat /\ DOMAIN registry'.relays \subseteq Nat
         /\ \A d \in Conns : conn'[d].generation <= registry'.generation
    BY <2>2, <2>3, <2>6
  <2> HIDE DEF p
  <2> QED BY <1>2, <1>5, <2>2, <2>7, <2>10, <2>11, <2>12 DEF RegistryInv
<1> QED BY <1>2, <1>4, <1>5

LEMMA EndUnregisters ==
  ASSUME WorkerInv, RegistryInv, SameSettings, NEW c \in Conns, OthersStay(c), conn[c].pc = "relaying",
         conn'[c].pc # "relaying", conn'[c].generation = conn[c].generation, conn'[c].port = conn[c].port,
         UnregisterRelay(conn[c].port, conn[c].generation)
  PROVE  RegistryInv'
<1>1. \A d \in Conns : d # c => conn'[d] = conn[d]
  BY DEF OthersStay
<1>2. setting'.events = setting.events /\ setting.events \in BOOLEAN
  BY DEF SameSettings, WorkerInv, SettingOK
<1>3. /\ \A d \in Conns : conn[d].generation \in Nat /\ conn[d].generation <= registry.generation
      /\ registry.generation \in Nat /\ DOMAIN registry.relays \subseteq Nat
      /\ \A d, e \in Conns : d # e /\ conn[d].generation = conn[e].generation => conn[d].generation = 0
  BY DEF WorkerInv, WorkerOK, RegistryInv
<1>4. /\ registry'.generation = registry.generation /\ IsRecord(registry', {"generation", "relays"})
      /\ DOMAIN registry'.relays \subseteq DOMAIN registry.relays
      /\ \A q \in DOMAIN registry'.relays : registry'.relays[q] = registry.relays[q]
      /\ \A q \in DOMAIN registry.relays : q \in DOMAIN registry'.relays \/ registry.relays[q].conn = c
      /\ \A q \in DOMAIN registry'.relays : registry.relays[q].conn # c
  <2> DEFINE p == conn[c].port
             D == DOMAIN registry.relays \ {p}
  <2>1. IsRecord(registry, {"generation", "relays"})
    BY DEF RegistryInv
  <2>2. CASE OwnsEntry(conn[c].port, conn[c].generation)
    <3>1. registry' = [registry EXCEPT !.relays = [q \in D |-> registry.relays[q]]]
      BY <2>2 DEF UnregisterRelay
    <3>2. /\ registry'.generation = registry.generation /\ IsRecord(registry', {"generation", "relays"})
          /\ DOMAIN registry'.relays = D /\ \A q \in D : registry'.relays[q] = registry.relays[q]
      BY <2>1, <3>1 DEF IsRecord
    <3>3. p \in DOMAIN registry.relays /\ registry.relays[p].generation = conn[c].generation
      BY <2>2 DEF OwnsEntry
    <3>4. setting.events
      BY <1>2, <3>3 DEF RegistryInv
    <3>5. conn[c].generation # 0
      BY <3>4 DEF RegistryInv
    <3>6. PICK e \in Conns : EntryOf(p, e)
      BY <3>3, EntryIs
    <3>7. registry.relays[p].conn = c
      BY <1>3, <3>3, <3>5, <3>6 DEF EntryOf
    <3>8. \A q \in D : registry.relays[q].conn # c
      <4> SUFFICES ASSUME NEW q \in D PROVE registry.relays[q].conn # c
        OBVIOUS
      <4>1. PICK d \in Conns : EntryOf(q, d)
        BY EntryIs
      <4> QED BY <4>1 DEF EntryOf
    <3> QED BY <3>2, <3>7, <3>8
  <2>3. CASE ~OwnsEntry(conn[c].port, conn[c].generation)
    <3>1. registry' = registry
      BY <2>3 DEF UnregisterRelay
    <3>2. ASSUME NEW q \in DOMAIN registry.relays PROVE registry.relays[q].conn # c
      <4>1. PICK d \in Conns : EntryOf(q, d)
        BY EntryIs
      <4> QED BY <2>3, <4>1 DEF EntryOf, OwnsEntry
    <3> QED BY <2>1, <3>1, <3>2
  <2> QED BY <2>2, <2>3
<1>5. \A d \in Conns : conn'[d].generation = conn[d].generation /\ conn'[d].port = conn[d].port
  BY <1>1
<1>6. ASSUME NEW q \in DOMAIN registry'.relays
      PROVE  LET e == registry'.relays[q].conn IN
             /\ e \in Conns /\ conn'[e].pc = "relaying" /\ conn'[e].port = q
             /\ registry'.relays[q].generation = conn'[e].generation
  <2>1. PICK e \in Conns : EntryOf(q, e)
    BY <1>4, EntryIs
  <2>2. registry'.relays[q] = registry.relays[q] /\ e # c
    BY <1>4, <2>1 DEF EntryOf
  <2> QED BY <1>1, <2>1, <2>2 DEF EntryOf
<1>7. ASSUME setting.events, NEW d \in Conns, conn'[d].pc = "relaying"
      PROVE  /\ conn'[d].generation # 0
             /\ \/ conn'[d].port \in DOMAIN registry'.relays /\ registry'.relays[conn'[d].port].conn = d
                \/ \E e \in Conns : conn'[e].port = conn'[d].port /\ conn'[e].generation > conn'[d].generation
  <2>1. d # c /\ conn'[d] = conn[d]
    BY <1>1, <1>7
  <2>2. /\ conn[d].generation # 0
        /\ \/ conn[d].port \in DOMAIN registry.relays /\ registry.relays[conn[d].port].conn = d
           \/ \E e \in Conns : conn[e].port = conn[d].port /\ conn[e].generation > conn[d].generation
    BY <1>7, <2>1 DEF RegistryInv
  <2>3. CASE conn[d].port \in DOMAIN registry.relays /\ registry.relays[conn[d].port].conn = d
    BY <1>4, <2>1, <2>2, <2>3
  <2>4. CASE \E e \in Conns : conn[e].port = conn[d].port /\ conn[e].generation > conn[d].generation
    BY <1>5, <2>2, <2>4
  <2> QED BY <2>2, <2>3, <2>4
<1>8. ~setting.events => registry'.generation = 0 /\ DOMAIN registry'.relays = {}
  BY <1>4 DEF RegistryInv
<1> QED BY SMTT(30), <1>2, <1>3, <1>4, <1>5, <1>6, <1>7, <1>8 DEF RegistryInv

LEMMA RegistryKeeps ==
  ASSUME WorkerInv, RegistryInv, SameSettings, OneKind
  PROVE  RegistryInv'
<1>1. ASSUME UNCHANGED registry, NEW c \in Conns, OthersStay(c), SameRelays(conn[c], conn'[c])
      PROVE  RegistryInv'
  <2>1. ASSUME NEW e \in Conns, e # c PROVE SameRelays(conn[e], conn'[e])
    BY <1>1, <2>1 DEF OthersStay, SameRelays
  <2> QED BY <1>1, <2>1, RegistryStays
<1>2. ASSUME UNCHANGED <<registry, conn>> PROVE RegistryInv'
  BY <1>2, RegistryStays DEF SameRelays
<1>3. CASE Quietly
  BY <1>3, RegistryStays DEF Quietly, SameRelays, SameMarks, SameStage, boardVars
<1>4. CASE PassesOver \/ ReplacesList \/ Measures
  BY <1>2, <1>4 DEF PassesOver, ReplacesList, Measures, boardVars
<1>5. CASE ShowsMore
  BY <1>2, <1>5 DEF ShowsMore, Receive, FindEmpty, Sample
<1>6. ASSUME NEW c \in Conns, Accepts(c) PROVE RegistryInv'
  BY <1>1, <1>6 DEF Accepts, SameRelays, boardVars
<1>7. ASSUME NEW c \in Conns, Begins(c) PROVE RegistryInv'
  <2>1. conn[c].generation = 0
    BY <1>7 DEF Begins, WorkerInv, WorkerOK
  <2> QED BY <1>1, <1>7, <2>1 DEF Begins, SameRelays
<1>8. ASSUME NEW c \in Conns, Returns(c) PROVE RegistryInv'
  BY <1>8, EndUnregisters DEF Returns, SameMarks
<1>9. ASSUME NEW c \in Conns, Ends(c) PROVE RegistryInv'
  <2>1. CASE conn[c].pc = "relaying"
    BY <1>9, <2>1, EndUnregisters DEF Ends, SameMarks
  <2>2. CASE conn[c].pc # "relaying"
    BY <1>1, <1>9, <2>2 DEF Ends, SameMarks, SameRelays
  <2> QED BY <2>1, <2>2
<1>10. ASSUME NEW c \in Conns, NEW e \in Events, Tells(c, e) PROVE RegistryInv'
  BY <1>1, <1>10 DEF Tells, SameRelays, SameWork, MayTell
<1>11. ASSUME NEW c \in Conns, NEW d \in Directions, Writes(c, d) PROVE RegistryInv'
  BY <1>1, <1>11 DEF Writes, SameRelays, Copying, boardVars
<1> QED BY <1>3, <1>4, <1>5, <1>6, <1>7, <1>8, <1>9, <1>10, <1>11, StartRegisters DEF OneKind

LEMMA RegistryLive ==
  ASSUME WorkerInv, RegistryInv
  PROVE  RegistryIsLive
<1>1. \A c \in Conns : conn[c].generation \in Nat
  BY DEF WorkerInv, WorkerOK
<1> QED BY <1>1 DEF RegistryInv, RegistryIsLive, At

(***************************************************************************)
(* The queue, when an event is sent and when one is read.                  *)
(***************************************************************************)
LEMMA AppendIs ==
  ASSUME NEW S, NEW q \in Seq(S), NEW e \in S
  PROVE  /\ Append(q, e) \in Seq(S) /\ Len(Append(q, e)) = Len(q) + 1 /\ Len(q) \in Nat
         /\ \A i \in 1..Len(q) : Append(q, e)[i] = q[i]
         /\ Append(q, e)[Len(q) + 1] = e
BY AppendProperties

LEMMA WaitsMore ==
  ASSUME NEW S, NEW q \in Seq(S), NEW e \in S, NEW c, NEW kinds
  PROVE  Waits(Append(q, e), c, kinds) <=> Waits(q, c, kinds) \/ (e.conn = c /\ e.type \in kinds)
<1> DEFINE t == Append(q, e)
<1>1. /\ Len(t) = Len(q) + 1 /\ Len(q) \in Nat /\ t[Len(q) + 1] = e
      /\ \A i \in 1..Len(q) : t[i] = q[i]
  BY AppendIs
<1> HIDE DEF t
<1>2. \A i \in 1..Len(t) : i \in 1..Len(q) \/ i = Len(q) + 1
  BY <1>1
<1>3. \A i \in 1..Len(q) : i \in 1..Len(t)
  BY <1>1
<1>4. Len(q) + 1 \in 1..Len(t)
  BY <1>1
<1>5. ASSUME Waits(t, c, kinds) PROVE Waits(q, c, kinds) \/ (e.conn = c /\ e.type \in kinds)
  <2>1. PICK i \in 1..Len(t) : t[i].conn = c /\ t[i].type \in kinds
    BY <1>5 DEF Waits
  <2>2. CASE i \in 1..Len(q)
    BY <1>1, <2>1, <2>2 DEF Waits
  <2>3. CASE i = Len(q) + 1
    BY <1>1, <2>1, <2>3
  <2> QED BY <1>2, <2>2, <2>3
<1>6. ASSUME Waits(q, c, kinds) PROVE Waits(t, c, kinds)
  <2>1. PICK i \in 1..Len(q) : q[i].conn = c /\ q[i].type \in kinds
    BY <1>6 DEF Waits
  <2>2. t[i].conn = c /\ t[i].type \in kinds /\ i \in 1..Len(t)
    BY <1>1, <1>3, <2>1
  <2> QED BY <2>2 DEF Waits
<1>7. ASSUME e.conn = c, e.type \in kinds PROVE Waits(t, c, kinds)
  BY <1>1, <1>4, <1>7 DEF Waits
<1> QED BY <1>5, <1>6, <1>7 DEF t

LEMMA TailIs ==
  ASSUME NEW S, NEW q \in Seq(S), q # <<>>
  PROVE  /\ Tail(q) \in Seq(S) /\ Len(q) \in Nat \ {0} /\ Len(Tail(q)) = Len(q) - 1
         /\ \A i \in 1..Len(Tail(q)) : Tail(q)[i] = q[i + 1] /\ i + 1 \in 1..Len(q)
         /\ Head(q) = q[1] /\ Head(q) \in S /\ 1 \in 1..Len(q)
         /\ \A i \in 1..Len(q) : i # 1 => i - 1 \in 1..Len(Tail(q)) /\ Tail(q)[i - 1] = q[i]
<1>1. /\ Tail(q) \in Seq(S) /\ Len(Tail(q)) = Len(q) - 1 /\ Head(q) \in S /\ Head(q) = q[1]
      /\ \A i \in 1..Len(Tail(q)) : Tail(q)[i] = q[i + 1]
  BY HeadTailProperties
<1>2. Len(q) \in Nat \ {0}
  BY EmptySeq
<1> DEFINE t == Tail(q)
<1> HIDE DEF t
<1>3. /\ t \in Seq(S) /\ Len(t) = Len(q) - 1 /\ \A i \in 1..Len(t) : t[i] = q[i + 1]
  BY <1>1 DEF t
<1>4. \A i \in 1..Len(q) : i # 1 => i - 1 \in 1..Len(t)
  BY <1>2, <1>3
<1>5. \A i \in 1..Len(q) : i # 1 => t[i - 1] = q[i]
  BY <1>2, <1>3, <1>4
<1>6. \A i \in 1..Len(t) : i + 1 \in 1..Len(q)
  BY <1>2, <1>3
<1> QED BY <1>1, <1>2, <1>3, <1>4, <1>5, <1>6 DEF t

LEMMA WaitsLess ==
  ASSUME NEW S, NEW q \in Seq(S), q # <<>>, NEW c, NEW kinds
  PROVE  Waits(q, c, kinds) <=> Waits(Tail(q), c, kinds) \/ (Head(q).conn = c /\ Head(q).type \in kinds)
<1> DEFINE t == Tail(q)
<1>1. /\ \A i \in 1..Len(t) : t[i] = q[i + 1] /\ i + 1 \in 1..Len(q)
      /\ Head(q) = q[1] /\ 1 \in 1..Len(q)
      /\ \A i \in 1..Len(q) : i # 1 => i - 1 \in 1..Len(t) /\ t[i - 1] = q[i]
  BY TailIs
<1> HIDE DEF t
<1>2. ASSUME Waits(q, c, kinds) PROVE Waits(t, c, kinds) \/ (Head(q).conn = c /\ Head(q).type \in kinds)
  <2>1. PICK i \in 1..Len(q) : q[i].conn = c /\ q[i].type \in kinds
    BY <1>2 DEF Waits
  <2>2. CASE i = 1
    BY <1>1, <2>1, <2>2
  <2>3. CASE i # 1
    BY <1>1, <2>1, <2>3 DEF Waits
  <2> QED BY <2>2, <2>3
<1>3. ASSUME Waits(t, c, kinds) PROVE Waits(q, c, kinds)
  <2>1. PICK i \in 1..Len(t) : t[i].conn = c /\ t[i].type \in kinds
    BY <1>3 DEF Waits
  <2>2. q[i + 1].conn = c /\ q[i + 1].type \in kinds /\ i + 1 \in 1..Len(q)
    BY <1>1, <2>1
  <2> QED BY <2>2 DEF Waits
<1>4. ASSUME Head(q).conn = c, Head(q).type \in kinds PROVE Waits(q, c, kinds)
  BY <1>1, <1>4 DEF Waits
<1> QED BY <1>2, <1>3, <1>4 DEF t

LEMMA OrderedMore ==
  ASSUME NEW S, NEW q \in Seq(S), NEW e \in S, Ordered(q),
         ~Waits(q, e.conn, Terminal),
         e.type \in Accepted => ~Waits(q, e.conn, AllKinds),
         \A i \in 1..Len(q) : q[i].type \in AllKinds
  PROVE  Ordered(Append(q, e))
<1> DEFINE t == Append(q, e)
<1>1. /\ Len(t) = Len(q) + 1 /\ Len(q) \in Nat /\ t[Len(q) + 1] = e
      /\ \A i \in 1..Len(q) : t[i] = q[i]
  BY AppendIs
<1> HIDE DEF t
<1> SUFFICES ASSUME NEW i \in 1..Len(t), NEW j \in 1..Len(t), i < j, t[i].conn = t[j].conn
             PROVE  t[i].type \notin Terminal /\ t[j].type \notin Accepted
  BY DEF Ordered, t
<1>2. i \in 1..Len(q) /\ t[i] = q[i]
  BY <1>1
<1>3. CASE j \in 1..Len(q)
  <2>1. t[j] = q[j]
    BY <1>1, <1>3
  <2> QED BY <1>2, <1>3, <2>1 DEF Ordered
<1>4. CASE j = Len(q) + 1
  <2>1. t[j] = e /\ q[i].conn = e.conn
    BY <1>1, <1>2, <1>4
  <2>2. q[i].type \notin Terminal
    BY <1>2, <2>1 DEF Waits
  <2>3. Waits(q, e.conn, AllKinds)
    BY <1>2, <2>1 DEF Waits
  <2> QED BY <1>2, <2>1, <2>2, <2>3
<1> QED BY SMTT(30), <1>1, <1>3, <1>4

LEMMA OrderedLess ==
  ASSUME NEW S, NEW q \in Seq(S), q # <<>>, Ordered(q)
  PROVE  /\ Ordered(Tail(q))
         /\ ~Waits(Tail(q), Head(q).conn, Accepted)
         /\ Head(q).type \in Terminal => \A kinds : ~Waits(Tail(q), Head(q).conn, kinds)
<1> DEFINE t == Tail(q)
<1>1. /\ \A i \in 1..Len(t) : t[i] = q[i + 1] /\ i + 1 \in 1..Len(q)
      /\ Head(q) = q[1] /\ 1 \in 1..Len(q) /\ Len(t) \in Nat
  BY TailIs
<1> HIDE DEF t
<1>2. ASSUME NEW i \in 1..Len(t), NEW j \in 1..Len(t), i < j, t[i].conn = t[j].conn
      PROVE  t[i].type \notin Terminal /\ t[j].type \notin Accepted
  <2>1. i + 1 < j + 1
    BY <1>2
  <2> QED BY <1>1, <1>2, <2>1 DEF Ordered
<1>3. ASSUME NEW i \in 1..Len(t), t[i].conn = Head(q).conn
      PROVE  t[i].type \notin Accepted /\ Head(q).type \notin Terminal
  <2>1. 1 < i + 1
    BY <1>1
  <2> QED BY <1>1, <1>3, <2>1 DEF Ordered
<1>4. Ordered(t)
  BY <1>2 DEF Ordered
<1>5. ~Waits(t, Head(q).conn, Accepted)
  BY <1>3 DEF Waits
<1>6. Head(q).type \in Terminal => \A kinds : ~Waits(t, Head(q).conn, kinds)
  BY <1>3 DEF Waits
<1> QED BY <1>4, <1>5, <1>6 DEF t

(***************************************************************************)
(* The rows, when an event is applied.                                     *)
(***************************************************************************)
\* t is s without some rows that are not active; f tells where each row was.
Thinned(s, t, f) ==
  /\ t \in Seq(Rows) /\ Len(t) \in Nat /\ f \in [1..Len(t) -> 1..Len(s)]
  /\ \A i, j \in 1..Len(t) : i < j => f[i] < f[j]
  /\ \A i \in 1..Len(t) : t[i] = s[f[i]]
  /\ \A j \in 1..Len(s) : IsActive(s[j]) => \E i \in 1..Len(t) : f[i] = j

LEMMA PruneIs ==
  ASSUME NEW s \in Seq(Rows)
  PROVE  \E f : Thinned(s, PruneOnce(s), f)
<1> DEFINE n == Len(s)
           finished == {i \in DOMAIN s : ~IsActive(s[i])}
<1>1. n \in Nat /\ DOMAIN s = 1..n /\ \A i \in 1..n : s[i] \in Rows
  OBVIOUS
<1>2. CASE Len(s) <= MaxRecords \/ finished = {}
  <2>1. PruneOnce(s) = s
    BY <1>2 DEF PruneOnce
  <2> DEFINE f == [i \in 1..n |-> i]
  <2>2. Thinned(s, s, f)
    BY <1>1 DEF Thinned
  <2> QED BY <2>1, <2>2
<1>3. CASE ~(Len(s) <= MaxRecords \/ finished = {})
  <2> DEFINE k == CHOOSE i \in finished : \A j \in finished : j <= i
             a == SubSeq(s, 1, k - 1)
             b == SubSeq(s, k + 1, n)
             t == a \o b
  <2>1. k \in finished
    <3> DEFINE T == {n - i : i \in finished}
    <3>1. T \in SUBSET Nat /\ T # {}
      BY <1>1, <1>3
    <3>2. PICK m \in T : \A x \in T : m <= x
      BY <3>1, SmallestNat
    <3>3. PICK i \in finished : m = n - i
      BY <3>2
    <3>4. \A j \in finished : j <= i
      <4> SUFFICES ASSUME NEW j \in finished PROVE j <= i
        OBVIOUS
      <4>1. n - i <= n - j
        BY <3>2, <3>3
      <4>2. i \in Nat /\ j \in Nat
        BY <1>1
      <4> QED BY <1>1, <4>1, <4>2
    <3> QED BY <3>4
  <2>2. PruneOnce(s) = t
    BY <1>3 DEF PruneOnce, RemoveAt
  <2>3. k \in 1..n /\ ~IsActive(s[k])
    BY <1>1, <2>1
  <2> HIDE DEF k
  <2>4. /\ a \in Seq(Rows) /\ Len(a) = k - 1 /\ \A i \in 1..(k - 1) : a[i] = s[i]
    <3>1. \A i \in 1..(k - 1) : s[i] \in Rows
      BY <1>1, <2>3
    <3>2. /\ a \in Seq(Rows) /\ Len(a) = IF 1 <= k - 1 THEN k - 1 - 1 + 1 ELSE 0
          /\ \A i \in 1..(k - 1 - 1 + 1) : a[i] = s[1 + i - 1]
      BY <2>3, <3>1, SubSeqProperties
    <3> HIDE DEF a
    <3> QED BY <2>3, <3>2
  <2>5. /\ b \in Seq(Rows) /\ Len(b) = n - k /\ \A i \in 1..(n - k) : b[i] = s[k + i]
    <3>1. \A i \in (k + 1)..n : s[i] \in Rows
      BY <1>1, <2>3
    <3>2. /\ b \in Seq(Rows) /\ Len(b) = IF k + 1 <= n THEN n - (k + 1) + 1 ELSE 0
          /\ \A i \in 1..(n - (k + 1) + 1) : b[i] = s[k + 1 + i - 1]
      BY <1>1, <2>3, <3>1, SubSeqProperties
    <3> HIDE DEF b, n
    <3>3. k \in Nat /\ n \in Nat /\ k <= n
      BY <1>1, <2>3
    <3>4. n - (k + 1) + 1 = n - k /\ \A i \in 1..(n - k) : k + 1 + i - 1 = k + i
      BY <3>3
    <3>5. Len(b) = n - k
      BY <3>2, <3>3
    <3>6. \A i \in 1..(n - k) : b[i] = s[k + i]
      BY <3>2, <3>4
    <3> QED BY <3>2, <3>5, <3>6
  <2> HIDE DEF a, b
  <2>6. IsJoin(t, Rows, a, b, k - 1, n - k)
    BY <1>1, <2>3, <2>4, <2>5, Joined
  <2> HIDE DEF t, n
  <2>7. /\ t \in Seq(Rows) /\ Len(t) = n - 1 /\ \A i \in 1..(k - 1) : t[i] = s[i]
        /\ \A i \in 1..(n - k) : t[k - 1 + i] = s[k + i]
    <3>1. k \in Nat /\ n \in Nat /\ k <= n /\ k >= 1
      BY <1>1, <2>3
    <3>2. /\ t \in Seq(Rows) /\ Len(t) = k - 1 + (n - k) /\ \A i \in 1..(k - 1) : t[i] = a[i]
          /\ \A i \in 1..(n - k) : t[k - 1 + i] = b[i]
      BY <2>6 DEF IsJoin
    <3>3. Len(t) = n - 1
      BY <3>1, <3>2
    <3>4. \A i \in 1..(k - 1) : t[i] = s[i]
      BY <2>4, <3>2
    <3>5. \A i \in 1..(n - k) : t[k - 1 + i] = s[k + i]
      <4> SUFFICES ASSUME NEW i \in 1..(n - k) PROVE t[k - 1 + i] = s[k + i]
        OBVIOUS
      <4>1. t[k - 1 + i] = b[i] /\ b[i] = s[k + i]
        BY <2>5, <3>2
      <4> QED BY <4>1
    <3> QED BY <3>2, <3>3, <3>4, <3>5
  <2> DEFINE f == [i \in 1..(n - 1) |-> IF i < k THEN i ELSE i + 1]
  <2>8. f \in [1..(n - 1) -> 1..n] /\ \A i, j \in 1..(n - 1) : i < j => f[i] < f[j]
    BY <1>1, <2>3
  <2>9. \A j \in 1..n : j # k => \E i \in 1..(n - 1) : f[i] = j
    <3> SUFFICES ASSUME NEW j \in 1..n, j # k PROVE \E i \in 1..(n - 1) : f[i] = j
      OBVIOUS
    <3>1. CASE j < k
      <4>1. j \in 1..(n - 1) /\ f[j] = j
        BY <1>1, <2>3, <3>1
      <4> QED BY <4>1
    <3>2. CASE j > k
      <4>1. j - 1 \in 1..(n - 1) /\ f[j - 1] = j
        BY <1>1, <2>3, <3>2
      <4> QED BY <4>1
    <3> QED BY <1>1, <2>3, <3>1, <3>2
  <2>10. \A i \in 1..(n - 1) : t[i] = s[f[i]]
    <3> SUFFICES ASSUME NEW i \in 1..(n - 1) PROVE t[i] = s[f[i]]
      OBVIOUS
    <3>1. CASE i < k
      <4>1. i \in 1..(k - 1) /\ f[i] = i
        BY <1>1, <2>3, <3>1
      <4> QED BY <2>7, <4>1
    <3>2. CASE ~(i < k)
      <4>1. i - k + 1 \in 1..(n - k) /\ f[i] = i + 1 /\ k - 1 + (i - k + 1) = i /\ k + (i - k + 1) = i + 1
        BY <1>1, <2>3, <3>2
      <4>2. t[k - 1 + (i - k + 1)] = s[k + (i - k + 1)]
        BY <2>7, <4>1
      <4> QED BY <4>1, <4>2
    <3> QED BY <3>1, <3>2
  <2> HIDE DEF f
  <2>11. Thinned(s, t, f)
    BY <1>1, <2>3, <2>7, <2>8, <2>9, <2>10 DEF Thinned, n
  <2> QED BY <2>2, <2>11
<1> QED BY <1>2, <1>3

\* What an event makes of the row that it finds.
RowEffect(v, w, e) ==
  /\ w \in Rows /\ w.port = v.port /\ w.conn = v.conn
  /\ e.type = "BypassComplete" => IsActive(w) /\ w.ended = v.ended /\ w.c2s = v.c2s /\ w.s2c = v.s2c
  /\ e.type \in {"BypassFailed", "ConnectionError"} =>
       ~IsActive(w) /\ w.ended /\ w.c2s = v.c2s /\ w.s2c = v.s2c
  /\ e.type = "RelayFinished" => ~IsActive(w) /\ w.ended /\ w.c2s = e.c2s /\ w.s2c = e.s2c
SetList(s, t, e) ==
  /\ t \in Seq(Rows) /\ Len(t) = Len(s)
  /\ \A i \in 1..Len(s) : IF i \in FindRecord(s, e.port) THEN RowEffect(s[i], t[i], e) ELSE t[i] = s[i]

Overlaid(w, fields) == [x \in DOMAIN w |-> IF x \in DOMAIN fields THEN fields[x] ELSE w[x]]
LEMMA OverlaidIs ==
  ASSUME NEW w \in Rows, NEW fields, DOMAIN fields \subseteq RowFields \ {"port", "conn"},
         "status" \in DOMAIN fields, fields.status \in ConnStatuses,
         "ended" \in DOMAIN fields => fields.ended = TRUE,
         "ended" \notin DOMAIN fields => fields.status = "Relaying",
         "c2s" \in DOMAIN fields => fields.c2s \in Nat, "s2c" \in DOMAIN fields => fields.s2c \in Nat
  PROVE  LET v == Overlaid(w, fields) IN
         /\ v \in Rows /\ v.port = w.port /\ v.conn = w.conn /\ v.status = fields.status
         /\ v.ended = IF "ended" \in DOMAIN fields THEN TRUE ELSE w.ended
         /\ v.c2s = IF "c2s" \in DOMAIN fields THEN fields.c2s ELSE w.c2s
         /\ v.s2c = IF "s2c" \in DOMAIN fields THEN fields.s2c ELSE w.s2c
<1> DEFINE v == Overlaid(w, fields)
<1>1. /\ w \in [RowFields -> RowValues] /\ DOMAIN w = RowFields
      /\ w.port \in Nat /\ w.status \in ConnStatuses /\ w.ended \in BOOLEAN
      /\ w.c2s \in Nat /\ w.s2c \in Nat /\ w.conn \in Conns
  BY DEF Rows
<1>2. /\ "port" \in RowFields /\ "conn" \in RowFields /\ "status" \in RowFields /\ "ended" \in RowFields
      /\ "c2s" \in RowFields /\ "s2c" \in RowFields
  BY DEF RowFields
<1>3. \A x \in RowFields : v[x] = IF x \in DOMAIN fields THEN fields[x] ELSE w[x]
  BY <1>1 DEF Overlaid
<1>4. DOMAIN v = RowFields /\ v = [x \in RowFields |-> v[x]]
  BY <1>1 DEF Overlaid
<1> HIDE DEF v
<1>5. /\ v.port = w.port /\ v.conn = w.conn /\ v.status = fields.status
      /\ v.ended = IF "ended" \in DOMAIN fields THEN TRUE ELSE w.ended
      /\ v.c2s = IF "c2s" \in DOMAIN fields THEN fields.c2s ELSE w.c2s
      /\ v.s2c = IF "s2c" \in DOMAIN fields THEN fields.s2c ELSE w.s2c
  BY <1>2, <1>3
<1>6. /\ v.port \in Nat /\ v.status \in ConnStatuses /\ v.ended \in BOOLEAN
      /\ v.c2s \in Nat /\ v.s2c \in Nat /\ v.conn \in Conns
  BY <1>1, <1>5
<1>7. \A x \in RowFields : v[x] \in RowValues
  <2>1. v.conn \in Nat
    BY <1>6 DEF Conns
  <2> QED BY <1>6, <2>1 DEF RowFields, RowValues
<1>8. v \in [RowFields -> RowValues]
  BY <1>4, <1>7
<1>9. ~IsActive(v) => v.ended
  BY <1>5 DEF IsActive
<1>10. v \in Rows
  BY <1>6, <1>8, <1>9 DEF Rows
<1> QED BY <1>5, <1>10 DEF v

LEMMA SetFieldsIs ==
  ASSUME NEW s \in Seq(Rows), NEW e \in Events, NEW fields,
         \A w \in Rows : RowEffect(w, Overlaid(w, fields), e)
  PROVE  SetList(s, SetFields(s, e.port, fields), e)
<1> DEFINE t == SetFields(s, e.port, fields)
           n == Len(s)
<1>1. n \in Nat /\ DOMAIN s = 1..n /\ \A i \in 1..n : s[i] \in Rows
  OBVIOUS
<1>2. /\ DOMAIN t = 1..n
      /\ t = [i \in 1..n |-> IF i \in FindRecord(s, e.port) THEN Overlaid(s[i], fields) ELSE s[i]]
  BY <1>1 DEF SetFields, Overlaid
<1> HIDE DEF t
<1>3. \A i \in 1..n : /\ i \in FindRecord(s, e.port) => t[i] = Overlaid(s[i], fields)
                      /\ i \notin FindRecord(s, e.port) => t[i] = s[i]
  BY <1>2
<1>4. \A i \in 1..n : t[i] \in Rows
  BY <1>1, <1>3 DEF RowEffect
<1>5. t \in [1..n -> Rows]
  <2>1. t = [i \in 1..n |-> t[i]]
    BY <1>2
  <2> QED BY <1>4, <2>1
<1>6. t \in Seq(Rows) /\ Len(t) = n
  BY <1>1, <1>5, IsSeq
<1>7. SetList(s, t, e)
  BY <1>1, <1>3, <1>6 DEF SetList
<1> QED BY <1>7 DEF t

\* The row of a new connection is put in front.
IsNew(w, e) == /\ w \in Rows /\ w.port = e.port /\ w.conn = e.conn /\ IsActive(w)
               /\ ~w.ended /\ w.c2s = 0 /\ w.s2c = 0
AddList(s, t, e) ==
  /\ t \in Seq(Rows) /\ Len(t) = Len(s) + 1 /\ IsNew(t[1], e)
  /\ \A i \in 1..Len(s) : t[i + 1] = s[i]

LEMMA NewRow ==
  ASSUME NEW e \in Events
  PROVE  IsNew(NewRecord(e), e)
<1> DEFINE w == NewRecord(e)
<1>1. e.port \in Nat /\ e.conn \in Conns /\ e.conn \in Nat
  BY DEF Events, Conns
<1>2. /\ w.port = e.port /\ w.status = "Connecting" /\ w.ended = FALSE /\ w.c2s = 0 /\ w.s2c = 0
      /\ w.conn = e.conn
  BY DEF NewRecord
<1>3. IsRecord(w, RowFields)
  BY DEF NewRecord, IsRecord, RowFields
<1> HIDE DEF w
<1>4. "Connecting" \in ConnStatuses /\ IsActive(w)
  BY <1>2 DEF ConnStatuses, IsActive
<1>4a. /\ w.port \in Nat /\ w.status \in ConnStatuses /\ w.ended \in BOOLEAN
       /\ w.c2s \in Nat /\ w.s2c \in Nat /\ w.conn \in Conns /\ w.conn \in Nat
  <2>1. w.ended \in BOOLEAN
    BY <1>2, Zenon
  <2>2. w.port \in Nat /\ w.conn \in Conns /\ w.conn \in Nat /\ w.c2s \in Nat /\ w.s2c \in Nat
    BY <1>1, <1>2
  <2>3. w.status \in ConnStatuses
    BY <1>2, <1>4, Zenon
  <2> QED BY <2>1, <2>2, <2>3, Zenon
<1>5. \A x \in RowFields : w[x] \in RowValues
  BY <1>4a DEF RowFields, RowValues
<1>6. w \in [RowFields -> RowValues]
  BY <1>3, <1>5 DEF IsRecord
<1>7. w \in Rows
  BY <1>4, <1>4a, <1>6 DEF Rows
<1> QED BY <1>2, <1>4, <1>7 DEF IsNew, w

LEMMA AddIs ==
  ASSUME NEW s \in Seq(Rows), NEW e \in Events
  PROVE  AddList(s, <<NewRecord(e)>> \o s, e)
<1> DEFINE w == NewRecord(e)
<1>1. IsNew(w, e)
  BY NewRow
<1> HIDE DEF w
<1>2. w \in Rows
  BY <1>1 DEF IsNew
<1>3. <<w>> \in Seq(Rows) /\ Len(<<w>>) = 1 /\ <<w>>[1] = w /\ Len(s) \in Nat
  BY <1>2
<1>4. IsJoin(<<w>> \o s, Rows, <<w>>, s, 1, Len(s))
  BY <1>3, Joined
<1> DEFINE t == <<w>> \o s
<1> HIDE DEF t
<1>5. /\ t \in Seq(Rows) /\ Len(t) = 1 + Len(s) /\ t[1] = w /\ \A k \in 1..Len(s) : t[1 + k] = s[k]
  BY <1>3, <1>4 DEF IsJoin, t
<1>6. \A k \in 1..Len(s) : t[k + 1] = s[k]
  <2> SUFFICES ASSUME NEW k \in 1..Len(s) PROVE t[k + 1] = s[k]
    OBVIOUS
  <2>1. k + 1 = 1 + k
    BY <1>3
  <2> QED BY <1>5, <2>1
<1>7. AddList(s, t, e)
  BY <1>1, <1>3, <1>5, <1>6 DEF AddList
<1> QED BY <1>7 DEF t, w

LEMMA CompleteSets ==
  ASSUME NEW s \in Seq(Rows), NEW e \in Events, e.type = "BypassComplete"
  PROVE  SetList(s, SetFields(s, e.port, [status |-> "Relaying"]), e)
<1> DEFINE fields == [status |-> "Relaying"]
<1>1. /\ DOMAIN fields = {"status"} /\ fields.status = "Relaying"
      /\ "Relaying" \in ConnStatuses /\ DOMAIN fields \subseteq RowFields \ {"port", "conn"}
  BY DEF RowFields, ConnStatuses
<1> HIDE DEF fields
<1>2. ASSUME NEW w \in Rows PROVE RowEffect(w, Overlaid(w, fields), e)
  <2>1. LET v == Overlaid(w, fields) IN
        /\ v \in Rows /\ v.port = w.port /\ v.conn = w.conn /\ v.status = "Relaying"
        /\ v.ended = w.ended /\ v.c2s = w.c2s /\ v.s2c = w.s2c
    BY <1>1, OverlaidIs
  <2> QED BY <2>1 DEF RowEffect, IsActive
<1> QED BY <1>2, SetFieldsIs DEF fields

LEMMA FailureSets ==
  ASSUME NEW s \in Seq(Rows), NEW e \in Events, e.type \in {"BypassFailed", "ConnectionError"}
  PROVE  SetList(s, SetFields(s, e.port, [status |-> "Failed", ended |-> TRUE]), e)
<1> DEFINE fields == [status |-> "Failed", ended |-> TRUE]
<1>1. /\ DOMAIN fields = {"status", "ended"} /\ fields.status = "Failed" /\ fields.ended = TRUE
      /\ "Failed" \in ConnStatuses /\ DOMAIN fields \subseteq RowFields \ {"port", "conn"}
  BY DEF RowFields, ConnStatuses
<1> HIDE DEF fields
<1>2. ASSUME NEW w \in Rows PROVE RowEffect(w, Overlaid(w, fields), e)
  <2>1. LET v == Overlaid(w, fields) IN
        /\ v \in Rows /\ v.port = w.port /\ v.conn = w.conn /\ v.status = "Failed"
        /\ v.ended = TRUE /\ v.c2s = w.c2s /\ v.s2c = w.s2c
    BY <1>1, OverlaidIs
  <2> QED BY <2>1 DEF RowEffect, IsActive
<1> QED BY <1>2, SetFieldsIs DEF fields

LEMMA FinishSets ==
  ASSUME NEW s \in Seq(Rows), NEW e \in Events, e.type = "RelayFinished"
  PROVE  SetList(s, SetFields(s, e.port, [status |-> StatusAfter(e.reason), ended |-> TRUE,
                                          c2s |-> e.c2s, s2c |-> e.s2c]), e)
<1> DEFINE fields == [status |-> StatusAfter(e.reason), ended |-> TRUE, c2s |-> e.c2s, s2c |-> e.s2c]
<1>1. e.reason \in Reasons /\ e.c2s \in Nat /\ e.s2c \in Nat
  BY DEF Events, Kinds
<1>2. StatusAfter(e.reason) \in {"Done", "Rotated", "Failed"}
  BY <1>1 DEF StatusAfter, Reasons
<1>3. /\ DOMAIN fields = {"status", "ended", "c2s", "s2c"} /\ fields.ended = TRUE
      /\ fields.status \in {"Done", "Rotated", "Failed"} /\ fields.c2s = e.c2s /\ fields.s2c = e.s2c
      /\ fields.status \in ConnStatuses /\ DOMAIN fields \subseteq RowFields \ {"port", "conn"}
  BY <1>2 DEF RowFields, ConnStatuses
<1> HIDE DEF fields
<1>4. ASSUME NEW w \in Rows PROVE RowEffect(w, Overlaid(w, fields), e)
  <2>1. LET v == Overlaid(w, fields) IN
        /\ v \in Rows /\ v.port = w.port /\ v.conn = w.conn /\ v.status = fields.status
        /\ v.ended = TRUE /\ v.c2s = fields.c2s /\ v.s2c = fields.s2c
    BY <1>1, <1>3, OverlaidIs
  <2> QED BY <1>3, <2>1 DEF RowEffect, IsActive
<1> QED BY <1>4, SetFieldsIs DEF fields

\* What apply_event makes of the dashboard b: s is the log before it is pruned.
Applies(b, t, e, s, f) ==
  /\ BoardOK(t) /\ s \in Seq(Rows) /\ Thinned(s, t.records, f)
  /\ e.type \in Accepted => AddList(b.records, s, e) /\ t.active = b.active + 1
  /\ e.type \notin Accepted => SetList(b.records, s, e)
  /\ e.type = "BypassComplete" => t.active = b.active
  /\ e.type \in Terminal => t.active = SaturatingDec(b.active)
  /\ e.type = "RelayFinished" => t.total_c2s = b.total_c2s + e.c2s /\ t.total_s2c = b.total_s2c + e.s2c
  /\ e.type # "RelayFinished" => t.total_c2s = b.total_c2s /\ t.total_s2c = b.total_s2c

LEMMA PruneApplies ==
  ASSUME NEW a, IsRecord(a, BoardFields), a.records \in Seq(Rows), a.active \in Nat,
         a.total_c2s \in Nat, a.total_s2c \in Nat
  PROVE  LET t == [a EXCEPT !.records = PruneOnce(@)] IN
         /\ BoardOK(t) /\ \E f : Thinned(a.records, t.records, f)
         /\ t.active = a.active /\ t.total_c2s = a.total_c2s /\ t.total_s2c = a.total_s2c
<1> DEFINE t == [a EXCEPT !.records = PruneOnce(@)]
<1>1. /\ IsRecord(t, BoardFields) /\ t.records = PruneOnce(a.records)
      /\ t.active = a.active /\ t.total_c2s = a.total_c2s /\ t.total_s2c = a.total_s2c
  BY DEF IsRecord, BoardFields
<1> HIDE DEF t
<1>2. PICK f : Thinned(a.records, t.records, f)
  BY <1>1, PruneIs
<1>3. BoardOK(t)
  BY <1>1, <1>2 DEF BoardOK, Thinned
<1> QED BY <1>1, <1>2, <1>3 DEF t

LEMMA ApplyIs ==
  ASSUME NEW b, BoardOK(b), NEW e \in Events
  PROVE  \E s, f : Applies(b, ApplyEvent(b, e), e, s, f)
<1>1. /\ IsRecord(b, BoardFields) /\ b.records \in Seq(Rows) /\ b.active \in Nat
      /\ b.total_c2s \in Nat /\ b.total_s2c \in Nat
  BY DEF BoardOK
<1>1a. DOMAIN b = BoardFields
  BY <1>1 DEF IsRecord
<1>2. CASE e.type = "ConnectionAccepted"
  <2> DEFINE a == ApplyAccepted(b, e)
             l == <<NewRecord(e)>> \o b.records
             pk == IF b.active + 1 > b.peak_active THEN b.active + 1 ELSE b.peak_active
  <2>1. a = [b EXCEPT !.total = b.total + 1, !.active = b.active + 1, !.peak_active = pk, !.records = l]
    BY DEF ApplyAccepted
  <2>2. AddList(b.records, l, e)
    BY <1>1, AddIs
  <2>3. ApplyEvent(b, e) = [a EXCEPT !.records = PruneOnce(@)]
    BY <1>2 DEF ApplyEvent
  <2> HIDE DEF a, l, pk
  <2>4. /\ IsRecord(a, BoardFields) /\ a.records = l /\ a.active = b.active + 1
        /\ a.total_c2s = b.total_c2s /\ a.total_s2c = b.total_s2c
    BY <1>1a, <2>1 DEF IsRecord, BoardFields
  <2>5. l \in Seq(Rows) /\ b.active + 1 \in Nat
    BY <1>1, <2>2 DEF AddList
  <2> DEFINE t == [a EXCEPT !.records = PruneOnce(@)]
  <2>6. /\ BoardOK(t) /\ \E f : Thinned(l, t.records, f)
        /\ t.active = b.active + 1 /\ t.total_c2s = b.total_c2s /\ t.total_s2c = b.total_s2c
    BY <1>1, <2>4, <2>5, PruneApplies
  <2> HIDE DEF t
  <2>7. PICK f : Thinned(l, t.records, f)
    BY <2>6
  <2>8. Applies(b, t, e, l, f)
    BY <1>2, <2>2, <2>5, <2>6, <2>7 DEF Applies, Accepted, Terminal
  <2> QED BY <2>3, <2>8 DEF t
<1>3. CASE e.type = "BypassComplete"
  <2> DEFINE a == ApplyComplete(b, e)
             l == SetFields(b.records, e.port, [status |-> "Relaying"])
  <2>1. a = [b EXCEPT !.bypasses_ok = b.bypasses_ok + 1, !.records = l]
    BY DEF ApplyComplete
  <2>2. SetList(b.records, l, e)
    BY <1>1, <1>3, CompleteSets
  <2>3. ApplyEvent(b, e) = [a EXCEPT !.records = PruneOnce(@)]
    BY <1>3 DEF ApplyEvent
  <2> HIDE DEF a, l
  <2>4. /\ IsRecord(a, BoardFields) /\ a.records = l /\ a.active = b.active
        /\ a.total_c2s = b.total_c2s /\ a.total_s2c = b.total_s2c
    BY <1>1a, <2>1 DEF IsRecord, BoardFields
  <2>5. l \in Seq(Rows)
    BY <2>2 DEF SetList
  <2> DEFINE t == [a EXCEPT !.records = PruneOnce(@)]
  <2>6. /\ BoardOK(t) /\ \E f : Thinned(l, t.records, f)
        /\ t.active = b.active /\ t.total_c2s = b.total_c2s /\ t.total_s2c = b.total_s2c
    BY <1>1, <2>4, <2>5, PruneApplies
  <2> HIDE DEF t
  <2>7. PICK f : Thinned(l, t.records, f)
    BY <2>6
  <2>8. Applies(b, t, e, l, f)
    BY <1>3, <2>2, <2>5, <2>6, <2>7 DEF Applies, Accepted, Terminal
  <2> QED BY <2>3, <2>8 DEF t
<1>4. CASE e.type \in {"BypassFailed", "ConnectionError"}
  <2> DEFINE a == ApplyFailure(b, e)
             l == SetFields(b.records, e.port, [status |-> "Failed", ended |-> TRUE])
             n == SaturatingDec(b.active)
  <2>1. a = [b EXCEPT !.bypasses_failed = b.bypasses_failed + 1, !.active = n, !.records = l]
    BY DEF ApplyFailure
  <2>2. SetList(b.records, l, e) /\ n \in Nat
    BY <1>1, <1>4, FailureSets DEF SaturatingDec
  <2>3. ApplyEvent(b, e) = [a EXCEPT !.records = PruneOnce(@)]
    BY <1>4 DEF ApplyEvent
  <2> HIDE DEF a, l, n
  <2>4. /\ IsRecord(a, BoardFields) /\ a.records = l /\ a.active = n
        /\ a.total_c2s = b.total_c2s /\ a.total_s2c = b.total_s2c
    BY <1>1a, <2>1 DEF IsRecord, BoardFields
  <2>5. l \in Seq(Rows)
    BY <2>2 DEF SetList
  <2> DEFINE t == [a EXCEPT !.records = PruneOnce(@)]
  <2>6. /\ BoardOK(t) /\ \E f : Thinned(l, t.records, f)
        /\ t.active = n /\ t.total_c2s = b.total_c2s /\ t.total_s2c = b.total_s2c
    BY <1>1, <2>2, <2>4, <2>5, PruneApplies
  <2> HIDE DEF t
  <2>7. PICK f : Thinned(l, t.records, f)
    BY <2>6
  <2>8. Applies(b, t, e, l, f)
    BY <1>4, <2>2, <2>5, <2>6, <2>7 DEF Applies, Accepted, Terminal, n
  <2> QED BY <2>3, <2>8 DEF t
<1>5. CASE e.type = "RelayFinished"
  <2> DEFINE a == ApplyFinished(b, e)
             l == SetFields(b.records, e.port, [status |-> StatusAfter(e.reason), ended |-> TRUE,
                                                c2s |-> e.c2s, s2c |-> e.s2c])
             n == SaturatingDec(b.active)
             x == b.total_c2s + e.c2s
             y == b.total_s2c + e.s2c
  <2>1. a = [b EXCEPT !.active = n, !.total_c2s = x, !.total_s2c = y, !.records = l]
    BY DEF ApplyFinished
  <2>2. SetList(b.records, l, e) /\ n \in Nat
    BY <1>1, <1>5, FinishSets DEF SaturatingDec
  <2>2a. e.c2s \in Nat /\ e.s2c \in Nat
    BY <1>5 DEF Events, Kinds
  <2>2b. x \in Nat /\ y \in Nat
    BY <1>1, <2>2a
  <2>3. ApplyEvent(b, e) = [a EXCEPT !.records = PruneOnce(@)]
    BY <1>5 DEF ApplyEvent
  <2> HIDE DEF a, l, n, x, y
  <2>4. /\ IsRecord(a, BoardFields) /\ a.records = l /\ a.active = n
        /\ a.total_c2s = x /\ a.total_s2c = y
    BY <1>1a, <2>1 DEF IsRecord, BoardFields
  <2>5. l \in Seq(Rows)
    BY <2>2 DEF SetList
  <2> DEFINE t == [a EXCEPT !.records = PruneOnce(@)]
  <2>6. /\ BoardOK(t) /\ \E f : Thinned(l, t.records, f)
        /\ t.active = n /\ t.total_c2s = x /\ t.total_s2c = y
    BY <1>1, <2>2, <2>2b, <2>4, <2>5, PruneApplies
  <2> HIDE DEF t
  <2>7. PICK f : Thinned(l, t.records, f)
    BY <2>6
  <2>8. Applies(b, t, e, l, f)
    BY <1>5, <2>2, <2>5, <2>6, <2>7 DEF Applies, Accepted, Terminal, n, x, y
  <2> QED BY <2>3, <2>8 DEF t
<1> QED BY <1>2, <1>3, <1>4, <1>5 DEF Events, Kinds

\* A batch of progress changes the bytes of some rows.
BatchRow(v, w, relays, bytes) ==
  /\ w \in Rows /\ w.port = v.port /\ w.conn = v.conn /\ w.status = v.status /\ w.ended = v.ended
  /\ \/ w.c2s = v.c2s /\ w.s2c = v.s2c
     \/ /\ v.port \in DOMAIN relays
        /\ w.c2s = bytes[relays[v.port].conn].c2s /\ w.s2c = bytes[relays[v.port].conn].s2c
BatchList(s, t, relays, bytes) ==
  /\ t \in Seq(Rows) /\ Len(t) = Len(s)
  /\ \A i \in 1..Len(s) : BatchRow(s[i], t[i], relays, bytes)

SameBut(w, v, x, y) ==
  /\ v \in Rows /\ v.port = w.port /\ v.conn = w.conn /\ v.status = w.status
  /\ v.ended = w.ended /\ v.c2s = x /\ v.s2c = y
WithBytes(w, x, y) == [w EXCEPT !.c2s = x, !.s2c = y]
LEMMA BytesSet ==
  ASSUME NEW w \in Rows, NEW x \in Nat, NEW y \in Nat
  PROVE  SameBut(w, WithBytes(w, x, y), x, y)
<1> DEFINE v == [w EXCEPT !.c2s = x, !.s2c = y]
<1>1. /\ w \in [RowFields -> RowValues] /\ DOMAIN w = RowFields
      /\ w.port \in Nat /\ w.status \in ConnStatuses /\ w.ended \in BOOLEAN
      /\ w.c2s \in Nat /\ w.s2c \in Nat /\ w.conn \in Conns
      /\ ~IsActive(w) => w.ended
  BY DEF Rows
<1>2. /\ IsRecord(v, RowFields) /\ v.c2s = x /\ v.s2c = y
      /\ \A z \in RowFields : z # "c2s" /\ z # "s2c" => v[z] = w[z]
  BY <1>1 DEF RowFields, IsRecord
<1> HIDE DEF v
<1>3. v.port = w.port /\ v.conn = w.conn /\ v.status = w.status /\ v.ended = w.ended
  BY <1>2 DEF RowFields
<1>4. \A z \in RowFields : v[z] \in RowValues
  <2>1. v.c2s \in RowValues /\ v.s2c \in RowValues
    BY <1>2 DEF RowValues
  <2> QED BY <1>1, <1>2, <2>1
<1>5. v \in [RowFields -> RowValues]
  BY <1>2, <1>4 DEF IsRecord
<1>6. ~IsActive(v) => v.ended
  BY <1>1, <1>3 DEF IsActive
<1>7. v \in Rows
  BY <1>1, <1>2, <1>3, <1>5, <1>6 DEF Rows
<1> QED BY <1>2, <1>3, <1>7 DEF v, WithBytes, SameBut

LEMMA BatchIs ==
  ASSUME NEW b, BoardOK(b), NEW relays, NEW bytes,
         \A p \in DOMAIN relays : bytes[relays[p].conn].c2s \in Nat /\ bytes[relays[p].conn].s2c \in Nat
  PROVE  LET t == ApplyBatch(b, relays, bytes) IN
         /\ BoardOK(t) /\ BatchList(b.records, t.records, relays, bytes)
         /\ t.active = b.active /\ t.total_c2s = b.total_c2s /\ t.total_s2c = b.total_s2c
<1>1. /\ IsRecord(b, BoardFields) /\ b.records \in Seq(Rows) /\ b.active \in Nat
      /\ b.total_c2s \in Nat /\ b.total_s2c \in Nat /\ DOMAIN b = BoardFields
  BY DEF BoardOK, IsRecord
<1> DEFINE n == Len(b.records)
           relaying(i) == b.records[i].status = "Relaying"
           taken(i) == /\ relaying(i)
                       /\ b.records[i].port \in DOMAIN relays
                       /\ \A j \in 1..(i - 1) : ~(relaying(j) /\ b.records[j].port = b.records[i].port)
           x(i) == bytes[relays[b.records[i].port].conn].c2s
           y(i) == bytes[relays[b.records[i].port].conn].s2c
           M(i) == IF taken(i) THEN [b.records[i] EXCEPT !.c2s = x(i), !.s2c = y(i)] ELSE b.records[i]
           l == [i \in DOMAIN b.records |-> M(i)]
           t == ApplyBatch(b, relays, bytes)
<1>2. t = [b EXCEPT !.records = l]
  BY DEF ApplyBatch
<1>3. n \in Nat /\ DOMAIN b.records = 1..n /\ \A i \in 1..n : b.records[i] \in Rows
  BY <1>1
<1>4. ASSUME NEW i \in 1..n PROVE BatchRow(b.records[i], M(i), relays, bytes)
  <2>1. CASE taken(i)
    <3>1. b.records[i].port \in DOMAIN relays /\ b.records[i] \in Rows
      BY <1>3, <2>1
    <3>2. x(i) \in Nat /\ y(i) \in Nat /\ M(i) = WithBytes(b.records[i], x(i), y(i))
      BY <2>1, <3>1 DEF WithBytes
    <3> HIDE DEF M, x, y, taken
    <3>3. SameBut(b.records[i], M(i), x(i), y(i))
      BY <3>1, <3>2, BytesSet
    <3> QED BY <3>1, <3>3 DEF BatchRow, SameBut, x, y
  <2>2. CASE ~taken(i)
    <3>1. M(i) = b.records[i] /\ b.records[i] \in Rows
      BY <1>3, <2>2
    <3> HIDE DEF M
    <3> QED BY <3>1 DEF BatchRow
  <2> QED BY <2>1, <2>2
<1> HIDE DEF M
<1>5. \A i \in 1..n : M(i) \in Rows
  BY <1>4 DEF BatchRow
<1>6. l \in [1..n -> Rows] /\ \A i \in 1..n : l[i] = M(i)
  BY <1>3, <1>5
<1> HIDE DEF l, t
<1>7. l \in Seq(Rows) /\ Len(l) = n
  BY <1>3, <1>6, IsSeq
<1>8. BatchList(b.records, l, relays, bytes)
  BY <1>4, <1>6, <1>7 DEF BatchList
<1>9. /\ IsRecord(t, BoardFields) /\ t.records = l /\ t.active = b.active
      /\ t.total_c2s = b.total_c2s /\ t.total_s2c = b.total_s2c
  BY <1>1, <1>2 DEF IsRecord, BoardFields
<1> QED BY <1>1, <1>7, <1>8, <1>9 DEF BoardOK, t

(***************************************************************************)
(* The kinds of steps, as the dashboard tells them apart.                  *)
(***************************************************************************)
QuietRow(v, w) ==
  /\ w.told = v.told /\ w.port = v.port /\ v.c2s.n <= w.c2s.n /\ v.s2c.n <= w.s2c.n
  /\ HasEnded(v) => w.c2s.n = v.c2s.n /\ w.s2c.n = v.s2c.n
  /\ IsOver(v) => IsOver(w)
BoardQuiet ==
  /\ UNCHANGED <<queue, board>> /\ receiver' \in {"idle", "empty"}
  /\ \A c \in Conns : QuietRow(conn[c], conn'[c])
Sends(c, e) ==
  /\ setting.events /\ queue' = Append(queue, e) /\ UNCHANGED <<board, receiver>> /\ OthersStay(c)
  /\ e \in Events /\ e.conn = c /\ Truthful(e, conn'[c]) /\ conn'[c].told = conn[c].told \cup {e.type}
  /\ ~HasEnded(conn[c]) /\ ~IsOver(conn[c])
  /\ conn'[c].c2s = conn[c].c2s /\ conn'[c].s2c = conn[c].s2c
  /\ e.type \in Accepted => conn[c].told = {} /\ conn[c].port = 0 /\ PortFree(e.port)
  /\ e.type \notin Accepted => "ConnectionAccepted" \in conn[c].told /\ conn'[c].port = conn[c].port
\* Nobody listens.
Deaf == ~setting.events /\ UNCHANGED <<queue, board, receiver>>
ShowKinds ==
  \/ BoardQuiet \/ Deaf \/ (\E c \in Conns, e \in Events : Sends(c, e))
  \/ UNCHANGED conn /\ Receive
  \/ UNCHANGED conn /\ Sample([c \in Conns |-> Bytes(c)])

LEMMA CopiesNat ==
  ASSUME WorkerInv, NEW c \in Conns
  PROVE  conn[c].c2s.n \in Nat /\ conn[c].s2c.n \in Nat /\ \A d \in Directions : conn[c][d].n \in Nat
BY DEF WorkerInv, WorkerOK, Copies, Directions

LEMMA BeginSends ==
  ASSUME WorkerInv, InOrderNow, NEW c \in Conns, Begins(c)
  PROVE  ShowKinds
<1>1. CASE ~setting.events
  <2>1. Deaf
    BY <1>1 DEF Begins, Deaf
  <2> QED BY <2>1 DEF ShowKinds
<1>2. CASE setting.events
  <2> DEFINE e == Event("ConnectionAccepted", c, conn'[c].port)
  <2>1. conn'[c].port \in Nat
    BY DEF InOrderNow, WorkerInv, WorkerOK
  <2>2. e \in Events /\ e.type = "ConnectionAccepted" /\ e.conn = c /\ e.port = conn'[c].port
    BY <2>1 DEF Events, Event, Kinds
  <2>3. /\ queue' = Append(queue, e) /\ UNCHANGED <<board, receiver>> /\ OthersStay(c)
        /\ conn'[c].told = {"ConnectionAccepted"} /\ conn[c].pc = "spawned" /\ PortFree(conn'[c].port)
        /\ conn'[c].c2s = conn[c].c2s /\ conn'[c].s2c = conn[c].s2c
    BY <1>2 DEF Begins
  <2>4. conn[c].told = {} /\ conn[c].port = 0
    BY <2>3 DEF WorkerInv, WorkerOK
  <2> HIDE DEF e
  <2>5. Truthful(e, conn'[c]) /\ conn'[c].told = conn[c].told \cup {e.type}
    BY <2>2, <2>3, <2>4 DEF Truthful
  <2>6. ~HasEnded(conn[c]) /\ ~IsOver(conn[c])
    BY <2>3, <2>4 DEF HasEnded, IsOver
  <2>7. Sends(c, e)
    BY <1>2, <2>2, <2>3, <2>4, <2>5, <2>6 DEF Sends, Accepted
  <2> QED BY <2>2, <2>7 DEF ShowKinds
<1> QED BY <1>1, <1>2

LEMMA TellSends ==
  ASSUME WorkerInv, NEW c \in Conns, NEW e \in Events, Tells(c, e)
  PROVE  ShowKinds
<1>1. CASE ~setting.events
  <2>1. Deaf
    BY <1>1 DEF Tells, Deaf
  <2> QED BY <2>1 DEF ShowKinds
<1>2. CASE setting.events
  <2>1. /\ queue' = Append(queue, e) /\ UNCHANGED <<board, receiver>> /\ OthersStay(c)
        /\ conn'[c].told = conn[c].told \cup {e.type} /\ MayTell(conn[c].pc, e.type, conn'[c].pc)
        /\ e.conn = c /\ e.port = conn[c].port /\ conn'[c].port = conn[c].port
        /\ conn'[c].c2s = conn[c].c2s /\ conn'[c].s2c = conn[c].s2c
        /\ e.type = "RelayFinished" => e.c2s = conn[c].c2s.n /\ e.s2c = conn[c].s2c.n
    BY <1>2 DEF Tells, SameWork
  <2>2. /\ conn[c].pc \in {"connecting", "preparing", "finished"}
        /\ e.type \notin Accepted
    BY <2>1 DEF MayTell, Accepted
  <2>3. "ConnectionAccepted" \in conn[c].told /\ ~HasEnded(conn[c]) /\ ~IsOver(conn[c])
    BY <2>2 DEF WorkerInv, WorkerOK, HasEnded, IsOver, Terminal
  <2>4. Truthful(e, conn'[c])
    BY <2>1 DEF Truthful
  <2>5. Sends(c, e)
    BY <1>2, <2>1, <2>2, <2>3, <2>4 DEF Sends
  <2> QED BY <2>5 DEF ShowKinds
<1> QED BY <1>1, <1>2

LEMMA ShowIs ==
  ASSUME WorkerInv, InOrderNow, EventInv, OneKind
  PROVE  ShowKinds
<1>1. ASSUME UNCHANGED <<queue, board>>, receiver' \in {"idle", "empty"}, NEW c \in Conns, OthersStay(c),
             QuietRow(conn[c], conn'[c])
      PROVE  ShowKinds
  <2>1. ASSUME NEW d \in Conns, d # c PROVE QuietRow(conn[d], conn'[d])
    <3>1. conn'[d] = conn[d]
      BY <1>1, <2>1 DEF OthersStay
    <3> QED BY <3>1, CopiesNat DEF QuietRow
  <2>2. BoardQuiet
    BY <1>1, <2>1 DEF BoardQuiet
  <2> QED BY <2>2 DEF ShowKinds
<1>2. ASSUME UNCHANGED <<queue, board, conn>>, receiver' \in {"idle", "empty"}
      PROVE  ShowKinds
  <2>1. \A d \in Conns : QuietRow(conn[d], conn'[d])
    BY <1>2, CopiesNat DEF QuietRow
  <2>2. BoardQuiet
    BY <1>2, <2>1 DEF BoardQuiet
  <2> QED BY <2>2 DEF ShowKinds
<1>3. receiver \in {"idle", "empty"}
  BY DEF EventInv
<1>4. CASE Quietly
  <2>1. \A d \in Conns : QuietRow(conn[d], conn'[d])
    BY <1>4, CopiesNat DEF QuietRow, Quietly, SameMarks, SameStage
  <2>2. BoardQuiet
    BY <1>3, <1>4, <2>1 DEF BoardQuiet, Quietly, boardVars
  <2> QED BY <2>2 DEF ShowKinds
<1>5. CASE PassesOver \/ ReplacesList \/ Measures
  BY <1>2, <1>3, <1>5 DEF PassesOver, ReplacesList, Measures, boardVars
<1>6. CASE ShowsMore
  <2>1. CASE FindEmpty
    BY <1>2, <1>6, <2>1 DEF ShowsMore, FindEmpty
  <2> QED BY <1>6, <2>1 DEF ShowsMore, ShowKinds
<1>7. ASSUME NEW c \in Conns, Accepts(c) PROVE ShowKinds
  BY <1>1, <1>3, <1>7, CopiesNat DEF Accepts, QuietRow, IsOver, boardVars
<1>8. ASSUME NEW c \in Conns, Starts(c) PROVE ShowKinds
  BY <1>1, <1>3, <1>8, CopiesNat DEF Starts, QuietRow, IsOver
<1>9. ASSUME NEW c \in Conns, Returns(c) PROVE ShowKinds
  BY <1>1, <1>3, <1>9, CopiesNat DEF Returns, SameMarks, QuietRow, IsOver
<1>10. ASSUME NEW c \in Conns, Ends(c) PROVE ShowKinds
  BY <1>1, <1>3, <1>10, CopiesNat DEF Ends, SameMarks, QuietRow, IsOver
<1>11. ASSUME NEW c \in Conns, NEW d \in Directions, Writes(c, d) PROVE ShowKinds
  <2>1. /\ conn[c].pc = "relaying" /\ conn'[c].told = conn[c].told /\ conn'[c].port = conn[c].port
        /\ conn'[c][d].n = conn[c][d].n + 1 /\ \A e \in Directions : e # d => conn'[c][e] = conn[c][e]
        /\ OthersStay(c) /\ UNCHANGED <<queue, board, receiver>>
    BY <1>11 DEF Writes, Copying, boardVars
  <2>2. ~HasEnded(conn[c]) /\ ~IsOver(conn[c])
    BY <2>1 DEF WorkerInv, WorkerOK, HasEnded, IsOver
  <2>3. \A e \in Directions : conn[c][e].n <= conn'[c][e].n
    <3> SUFFICES ASSUME NEW e \in Directions PROVE conn[c][e].n <= conn'[c][e].n
      OBVIOUS
    <3>1. conn[c][e].n \in Nat
      BY CopiesNat
    <3>2. CASE e = d
      BY <2>1, <3>1, <3>2
    <3>3. CASE e # d
      <4>1. conn'[c][e] = conn[c][e]
        BY <2>1, <3>3
      <4> QED BY <3>1, <4>1
    <3> QED BY <3>2, <3>3
  <2>4. QuietRow(conn[c], conn'[c])
    BY <2>1, <2>2, <2>3 DEF QuietRow, Directions
  <2> QED BY <1>1, <1>3, <2>1, <2>4
<1> QED BY <1>4, <1>5, <1>6, <1>7, <1>8, <1>9, <1>10, <1>11, BeginSends, TellSends DEF OneKind

(***************************************************************************)
(* Steps that the dashboard does not see.                                  *)
(***************************************************************************)
BoardInv == EventInv /\ RowInv /\ ShareInv /\ OwnInv

LEMMA EventsAre ==
  ASSUME EventInv, NEW i \in 1..Len(queue)
  PROVE  /\ queue[i] \in Events /\ queue[i].conn \in Conns /\ queue[i].type \in AllKinds
         /\ Truthful(queue[i], conn[queue[i].conn])
<1>1. queue \in Seq(Events) /\ Truthful(queue[i], conn[queue[i].conn])
  BY DEF EventInv
<1>2. queue[i] \in Events
  BY <1>1
<1> QED BY <1>1, <1>2 DEF Events, AllKinds, Kinds

LEMMA RowsAre ==
  ASSUME EventInv, NEW r \in 1..Len(board.records)
  PROVE  /\ board.records[r] \in Rows /\ board.records[r].conn \in Conns /\ Len(board.records) \in Nat
         /\ board.records[r].port \in Nat /\ board.records[r].c2s \in Nat /\ board.records[r].s2c \in Nat
         /\ board.records[r].ended \in BOOLEAN
         /\ ~IsActive(board.records[r]) => board.records[r].ended
<1>1. board.records \in Seq(Rows)
  BY DEF EventInv, BoardOK
<1>2. board.records[r] \in Rows
  BY <1>1
<1> QED BY <1>1, <1>2 DEF Rows

LEMMA ShownIs ==
  ASSUME NEW c \in Conns
  PROVE  c \in Shown <=> IsShown(queue, c, conn[c])
BY DEF Shown

LEMMA BoardDeaf ==
  ASSUME InOrderNow, EventInv, Deaf
  PROVE  BoardInv'
<1>1. ~setting.events /\ UNCHANGED <<queue, board, receiver>> /\ setting'.events = setting.events
  BY DEF InOrderNow, SameSettings, Deaf
<1>2. queue = <<>> /\ board.records = <<>> /\ BoardOK(board) /\ receiver \in {"idle", "empty"}
  BY <1>1 DEF EventInv
<1>3. queue' = <<>> /\ board'.records = <<>> /\ Len(queue') = 0 /\ Len(board'.records) = 0
  BY <1>1, <1>2
<1>4. /\ queue' \in Seq(Events) /\ Ordered(queue') /\ BoardOK(board')
      /\ \A c, kinds : ~Waits(queue', c, kinds)
  BY <1>1, <1>2, <1>3 DEF Ordered, Waits
<1>5. EventInv'
  BY <1>1, <1>2, <1>3, <1>4 DEF EventInv
<1>6. RowInv' /\ ShareInv'
  BY <1>3 DEF RowInv, ShareInv
<1>7. OwnInv'
  BY <1>1 DEF OwnInv
<1> QED BY <1>5, <1>6, <1>7 DEF BoardInv

LEMMA BoardStays ==
  ASSUME WorkerInv, InOrderNow, BoardInv, BoardQuiet
  PROVE  BoardInv'
<1>1. /\ queue' = queue /\ board' = board /\ receiver' \in {"idle", "empty"}
      /\ setting'.events = setting.events /\ setting'.ports = setting.ports
      /\ \A c \in Conns : QuietRow(conn[c], conn'[c])
  BY DEF BoardQuiet, InOrderNow, SameSettings
<1>2. EventInv /\ RowInv /\ ShareInv /\ OwnInv
  BY DEF BoardInv
<1>3. \A c \in Conns : /\ conn'[c].told = conn[c].told /\ conn'[c].port = conn[c].port
                       /\ HasEnded(conn'[c]) <=> HasEnded(conn[c])
                       /\ IsOver(conn[c]) => IsOver(conn'[c])
  BY <1>1 DEF QuietRow, HasEnded
<1>4. Shown' = Shown
  <2>1. Shown' = {c \in Conns : IsShown(queue', c, conn'[c])}
    BY DEF Shown
  <2>2. \A c \in Conns : IsShown(queue', c, conn'[c]) <=> IsShown(queue, c, conn[c])
    BY <1>1, <1>3 DEF IsShown
  <2> QED BY <2>1, <2>2 DEF Shown
<1>5. EventInv'
  <2>1. ASSUME NEW i \in 1..Len(queue) PROVE Truthful(queue'[i], conn'[queue'[i].conn])
    <3>1. queue[i].conn \in Conns /\ Truthful(queue[i], conn[queue[i].conn])
      BY <1>2, EventsAre
    <3>2. PICK c \in Conns : c = queue[i].conn
      BY <3>1
    <3>3. Truthful(queue[i], conn[c]) /\ QuietRow(conn[c], conn'[c])
      BY <1>1, <3>1, <3>2
    <3>4. queue[i].type = "RelayFinished" => HasEnded(conn[c])
      BY <3>3 DEF Truthful, HasEnded, Terminal
    <3>5. Truthful(queue[i], conn'[c])
      BY <3>3, <3>4 DEF Truthful, QuietRow
    <3> QED BY <1>1, <3>2, <3>5
  <2>2. \A c \in Conns : HasEnded(conn'[c]) /\ Waits(queue', c, AllKinds) => Waits(queue', c, Terminal)
    BY <1>1, <1>2, <1>3 DEF EventInv
  <2>3. queue' \in Seq(Events) /\ BoardOK(board') /\ Ordered(queue')
        /\ (~setting'.events => queue' = <<>> /\ board'.records = <<>>)
        /\ (setting'.events => board'.active = Cardinality(Shown'))
    BY <1>1, <1>2, <1>4 DEF EventInv
  <2> QED BY <1>1, <2>1, <2>2, <2>3 DEF EventInv
<1>6. \A r \in 1..Len(board.records) : board.records[r].conn \in Conns
  BY <1>2, RowsAre
<1>7. RowInv'
  BY <1>1, <1>2, <1>3, <1>6 DEF RowInv
<1>8. ShareInv'
  <2>1. PortsDiffer' => PortsDiffer
    BY <1>3 DEF PortsDiffer
  <2> SUFFICES ASSUME PortsDiffer, NEW r \in 1..Len(board.records), NEW d \in Directions
               PROVE  board'.records[r][d] <= conn'[board'.records[r].conn][d].n
    BY <1>1, <2>1 DEF ShareInv
  <2>2. PICK c \in Conns : c = board.records[r].conn
    BY <1>6
  <2>3. board.records[r][d] <= conn[c][d].n
    BY <1>2, <2>2 DEF ShareInv
  <2>4. conn[c][d].n <= conn'[c][d].n
    BY <1>1 DEF QuietRow, Directions
  <2>5. conn[c][d].n \in Nat /\ board.records[r][d] \in Nat
    BY <1>2, CopiesNat, RowsAre DEF Directions
  <2>6. conn'[c][d].n \in Nat
    BY DEF InOrderNow, WorkerInv, WorkerOK, Copies, Directions
  <2>7. board.records[r][d] <= conn'[c][d].n
    BY <2>3, <2>4, <2>5, <2>6
  <2> QED BY <1>1, <2>2, <2>7
<1>9. OwnInv'
  <2> SUFFICES ASSUME setting.ports = "unique", setting.events PROVE OwnInv'
    BY <1>1 DEF OwnInv
  <2>1. \A c, d \in Conns : c # d /\ conn'[c].port = conn'[d].port /\ conn'[c].port # 0
          => IsOver(conn'[c]) \/ IsOver(conn'[d])
    BY <1>2, <1>3 DEF OwnInv
  <2>2. ASSUME NEW k \in 1..Len(queue), queue[k].type \notin Accepted
        PROVE Finds(queue', board'.records, queue'[k].conn, conn'[queue'[k].conn].port, k)
    <3>1. queue[k].conn \in Conns
      BY <1>2, EventsAre
    <3>2. Finds(queue, board.records, queue[k].conn, conn[queue[k].conn].port, k)
      BY <1>2, <2>2 DEF OwnInv
    <3> QED BY <1>1, <1>3, <3>1, <3>2
  <2>3. \A c \in Conns : conn'[c].told # {} /\ ~IsOver(conn'[c]) =>
          Finds(queue', board'.records, c, conn'[c].port, Len(queue') + 1)
    BY <1>1, <1>2, <1>3 DEF OwnInv
  <2>4. \A r \in 1..Len(board'.records) :
          Follows(queue', board'.records[r], conn'[board'.records[r].conn])
    BY <1>1, <1>2, <1>3, <1>6 DEF OwnInv, Follows
  <2> QED BY <1>1, <2>1, <2>2, <2>3, <2>4 DEF OwnInv
<1> QED BY <1>5, <1>7, <1>8, <1>9 DEF BoardInv

(***************************************************************************)
(* A worker sends an event.                                                *)
(***************************************************************************)
LEMMA FindsKeeps ==
  ASSUME NEW S, NEW q \in Seq(S), NEW e \in S, NEW rows, NEW c, NEW p, NEW k \in 1..(Len(q) + 1),
         Finds(q, rows, c, p, k)
  PROVE  Finds(Append(q, e), rows, c, p, k)
<1> DEFINE t == Append(q, e)
<1>1. Len(q) \in Nat /\ \A i \in 1..Len(q) : t[i] = q[i]
  BY AppendIs
<1> HIDE DEF t
<1>2. \A i \in 1..(k - 1) : i \in 1..Len(q)
  BY <1>1
<1>3. \A i \in 1..(k - 1) : t[i] = q[i] /\ (Announces(t, i, p) <=> Announces(q, i, p))
  BY <1>1, <1>2 DEF Announces
<1>4. \A j \in 1..(k - 1) : \A i \in (j + 1)..(k - 1) : i \in 1..(k - 1)
  BY <1>1
<1> QED BY <1>3, <1>4 DEF Finds, t

LEMMA FindsNext ==
  ASSUME NEW S, NEW q \in Seq(S), NEW e \in S, NEW rows, NEW c, NEW p,
         Finds(q, rows, c, p, Len(q) + 1), ~(e.type \in Accepted /\ e.port = p)
  PROVE  Finds(Append(q, e), rows, c, p, Len(Append(q, e)) + 1)
<1> DEFINE t == Append(q, e)
           k == Len(q) + 1
<1>1. Len(q) \in Nat /\ t[Len(q) + 1] = e /\ Len(t) = Len(q) + 1
  BY AppendIs
<1>2. Finds(t, rows, c, p, k)
  BY <1>1, FindsKeeps
<1> HIDE DEF t
<1>3. ~Announces(t, k, p) /\ Len(t) = k /\ k \in Nat \ {0}
  BY <1>1 DEF Announces
<1> HIDE DEF k
<1>4. CASE \E j \in 1..(k - 1) : /\ t[j].conn = c /\ t[j].type \in Accepted
                                 /\ \A i \in (j + 1)..(k - 1) : ~Announces(t, i, p)
  <2>1. PICK j \in 1..(k - 1) : /\ t[j].conn = c /\ t[j].type \in Accepted
                                /\ \A i \in (j + 1)..(k - 1) : ~Announces(t, i, p)
    BY <1>4
  <2>2. \A i \in (j + 1)..k : i \in (j + 1)..(k - 1) \/ i = k
    BY <1>3
  <2>3. \A i \in (j + 1)..k : ~Announces(t, i, p)
    BY <1>3, <2>1, <2>2
  <2>4. j \in 1..(k + 1 - 1) /\ k + 1 - 1 = k
    BY <1>3
  <2> QED BY <1>3, <2>1, <2>3, <2>4 DEF Finds, t
<1>5. CASE Heads(rows, c, p) /\ \A i \in 1..(k - 1) : ~Announces(t, i, p)
  <2>1. \A i \in 1..k : i \in 1..(k - 1) \/ i = k
    BY <1>3
  <2>2. \A i \in 1..(k + 1 - 1) : ~Announces(t, i, p)
    BY <1>3, <1>5, <2>1
  <2> QED BY <1>3, <1>5, <2>2 DEF Finds, t
<1> QED BY <1>2, <1>4, <1>5 DEF Finds

LEMMA FindsNew ==
  ASSUME NEW S, NEW q \in Seq(S), NEW e \in S, NEW rows, NEW c, NEW p,
         e.conn = c, e.type \in Accepted
  PROVE  Finds(Append(q, e), rows, c, p, Len(Append(q, e)) + 1)
<1> DEFINE t == Append(q, e)
<1>1. Len(q) \in Nat /\ t[Len(q) + 1] = e /\ Len(t) = Len(q) + 1
  BY AppendIs
<1> HIDE DEF t
<1>2. t[Len(t)] = e /\ Len(t) \in 1..(Len(t) + 1 - 1)
  BY <1>1
<1>3. \A i \in (Len(t) + 1)..(Len(t) + 1 - 1) : FALSE
  BY <1>1
<1> QED BY <1>2, <1>3 DEF Finds, t

\* Where the queue ends with the event of c.
SentNow(c, e) ==
  /\ \A d \in Conns : \A kinds : Waits(queue', d, kinds) <=> Waits(queue, d, kinds) \/ (d = c /\ e.type \in kinds)
  /\ \A d \in Conns : d # c => conn'[d] = conn[d]
  /\ ~Waits(queue, c, Terminal)
  /\ e.type \in Accepted => ~Waits(queue, c, AllKinds)
  /\ ~HasEnded(conn[c]) /\ (HasEnded(conn'[c]) => e.type \in Terminal)
  /\ conn[c].told \subseteq conn'[c].told
  /\ e.type \notin Accepted => conn'[c].port = conn[c].port

LEMMA Sent ==
  ASSUME EventInv, NEW c \in Conns, NEW e \in Events, Sends(c, e)
  PROVE  SentNow(c, e)
<1>1. queue \in Seq(Events) /\ queue' = Append(queue, e) /\ e.conn = c /\ ~HasEnded(conn[c])
  BY DEF EventInv, Sends
<1>2. \A d \in Conns : \A kinds : Waits(queue', d, kinds) <=> Waits(queue, d, kinds) \/ (d = c /\ e.type \in kinds)
  BY <1>1, WaitsMore
<1>3. ASSUME NEW i \in 1..Len(queue), queue[i].conn = c PROVE queue[i].type \in conn[c].told
  BY <1>3, EventsAre DEF Truthful
<1>4. ~Waits(queue, c, Terminal)
  BY <1>1, <1>3 DEF Waits, HasEnded
<1>5. e.type \in Accepted => ~Waits(queue, c, AllKinds)
  BY <1>3 DEF Sends, Waits
<1>6. conn'[c].told = conn[c].told \cup {e.type}
  BY DEF Sends
<1>7. HasEnded(conn'[c]) => e.type \in Terminal
  BY <1>1, <1>6 DEF HasEnded
<1> QED BY <1>1, <1>2, <1>4, <1>5, <1>6, <1>7 DEF Sends, OthersStay, SentNow

LEMMA SendEvents ==
  ASSUME InOrderNow, EventInv, NEW c \in Conns, NEW e \in Events, Sends(c, e)
  PROVE  EventInv' /\ Shown' = Shown
<1>1. /\ queue \in Seq(Events) /\ queue' = Append(queue, e) /\ e.conn = c /\ setting.events
      /\ setting'.events = setting.events /\ board' = board /\ receiver' = receiver
      /\ Truthful(e, conn'[c]) /\ conn'[c].told = conn[c].told \cup {e.type}
      /\ conn'[c].c2s = conn[c].c2s /\ conn'[c].s2c = conn[c].s2c
  BY DEF EventInv, Sends, InOrderNow, SameSettings
<1>2. SentNow(c, e)
  BY Sent
<1>3. /\ queue' \in Seq(Events) /\ Len(queue') = Len(queue) + 1 /\ Len(queue) \in Nat
      /\ \A i \in 1..Len(queue) : queue'[i] = queue[i]
      /\ queue'[Len(queue) + 1] = e
  BY <1>1, AppendIs
<1>4. Ordered(queue')
  <2>1. Ordered(queue) /\ \A i \in 1..Len(queue) : queue[i].type \in AllKinds
    BY EventsAre DEF EventInv
  <2> QED BY <1>1, <1>2, <2>1, OrderedMore DEF SentNow
<1>5. ASSUME NEW i \in 1..Len(queue') PROVE Truthful(queue'[i], conn'[queue'[i].conn])
  <2>1. CASE i = Len(queue) + 1
    BY <1>1, <1>3, <2>1
  <2>2. CASE i # Len(queue) + 1
    <3>1. i \in 1..Len(queue) /\ queue'[i] = queue[i]
      BY <1>3, <2>2
    <3>2. queue[i].conn \in Conns /\ Truthful(queue[i], conn[queue[i].conn]) /\ queue[i].type \in AllKinds
      BY <3>1, EventsAre
    <3>3. CASE queue[i].conn # c
      BY <1>2, <3>1, <3>2, <3>3 DEF SentNow
    <3>4. CASE queue[i].conn = c
      <4>1. Waits(queue, c, AllKinds)
        BY <3>1, <3>2, <3>4 DEF Waits
      <4>2. conn'[c].port = conn[c].port
        BY <1>2, <4>1 DEF SentNow
      <4>3. Truthful(queue[i], conn'[c])
        BY <1>1, <3>2, <3>4, <4>2 DEF Truthful
      <4> QED BY <3>1, <3>4, <4>3
    <3> QED BY <3>3, <3>4
  <2> QED BY <2>1, <2>2
<1>6. ASSUME NEW d \in Conns, HasEnded(conn'[d]), Waits(queue', d, AllKinds)
      PROVE  Waits(queue', d, Terminal)
  <2>1. CASE d = c
    BY <1>2, <1>6, <2>1 DEF SentNow
  <2>2. CASE d # c
    BY <1>2, <1>6, <2>2 DEF SentNow, EventInv
  <2> QED BY <2>1, <2>2
<1>7. Shown' = Shown
  <2>1. Shown' = {d \in Conns : IsShown(queue', d, conn'[d])}
    BY DEF Shown
  <2>2. ASSUME NEW d \in Conns PROVE IsShown(queue', d, conn'[d]) <=> IsShown(queue, d, conn[d])
    <3>1. CASE d # c
      BY <1>2, <3>1 DEF SentNow, IsShown
    <3>2. CASE d = c /\ e.type \in Accepted
      <4>1. ~IsShown(queue', c, conn'[c])
        BY <1>2, <3>2 DEF SentNow, IsShown
      <4>2. ~IsShown(queue, c, conn[c])
        BY <3>2 DEF Sends, IsShown
      <4> QED BY <3>2, <4>1, <4>2
    <3>3. CASE d = c /\ e.type \notin Accepted
      <4>1. "ConnectionAccepted" \in conn[c].told
        BY <3>3 DEF Sends
      <4> QED BY <1>2, <3>3, <4>1 DEF SentNow, IsShown
    <3> QED BY <3>1, <3>2, <3>3
  <2> QED BY <2>1, <2>2 DEF Shown
<1>8. EventInv'
  <2>1. board'.active = Cardinality(Shown') /\ BoardOK(board') /\ receiver' \in {"idle", "empty"}
    BY <1>1, <1>7 DEF EventInv
  <2> QED BY <1>1, <1>3, <1>4, <1>5, <1>6, <2>1 DEF EventInv
<1> QED BY <1>7, <1>8

LEMMA SendRows ==
  ASSUME WorkerInv, InOrderNow, BoardInv, NEW c \in Conns, NEW e \in Events, Sends(c, e)
  PROVE  RowInv' /\ ShareInv'
<1>1. EventInv /\ RowInv /\ ShareInv /\ board' = board
  BY DEF BoardInv, Sends
<1>2. SentNow(c, e)
  BY <1>1, Sent
<1>3. ASSUME NEW r \in 1..Len(board.records)
      PROVE  LET d == board.records[r].conn IN
             /\ d \in Conns /\ board.records[r].port = conn'[d].port
             /\ "ConnectionAccepted" \in conn'[d].told /\ ~Waits(queue', d, Accepted)
             /\ conn'[d].c2s = conn[d].c2s /\ conn'[d].s2c = conn[d].s2c
  <2>1. PICK d \in Conns : d = board.records[r].conn
    BY <1>1, RowsAre
  <2>2. /\ board.records[r].port = conn[d].port
        /\ "ConnectionAccepted" \in conn[d].told /\ ~Waits(queue, d, Accepted)
    BY <1>1, <2>1 DEF RowInv
  <2>3. CASE d # c
    <3>1. conn'[d] = conn[d] /\ ~Waits(queue', d, Accepted)
      BY <1>2, <2>2, <2>3 DEF SentNow
    <3> QED BY <2>1, <2>2, <3>1
  <2>4. CASE d = c
    <3>1. e.type \notin Accepted
      BY <2>2, <2>4 DEF Sends
    <3>2. /\ board.records[r].port = conn'[d].port
          /\ "ConnectionAccepted" \in conn'[d].told /\ ~Waits(queue', d, Accepted)
      BY <1>2, <2>2, <2>4, <3>1 DEF SentNow
    <3>3. conn'[d].c2s = conn[d].c2s /\ conn'[d].s2c = conn[d].s2c
      BY <2>4 DEF Sends
    <3> QED BY <2>1, <3>2, <3>3
  <2> QED BY <2>3, <2>4
<1>4. RowInv'
  BY <1>1, <1>3 DEF RowInv
<1>5. ShareInv'
  <2>1. PortsDiffer' => PortsDiffer
    <3> SUFFICES ASSUME PortsDiffer', NEW a \in Conns, NEW b \in Conns, a # b,
                        conn[a].port = conn[b].port, conn[a].port # 0
                 PROVE  FALSE
      BY DEF PortsDiffer
    <3>1. ASSUME NEW d \in Conns, conn[d].port # 0 PROVE conn'[d].port = conn[d].port
      <4>1. CASE d # c
        BY <1>2, <4>1 DEF SentNow
      <4>2. CASE d = c
        BY <1>2, <3>1, <4>2 DEF SentNow, Sends
      <4> QED BY <4>1, <4>2
    <3>2. conn'[a].port = conn[a].port /\ conn'[b].port = conn[b].port
      BY <3>1
    <3> QED BY <3>2 DEF PortsDiffer
  <2> SUFFICES ASSUME PortsDiffer, NEW r \in 1..Len(board.records), NEW d \in Directions
               PROVE  board'.records[r][d] <= conn'[board'.records[r].conn][d].n
    BY <1>1, <2>1 DEF ShareInv
  <2>2. board.records[r][d] <= conn[board.records[r].conn][d].n
    BY <1>1 DEF ShareInv
  <2>3. conn'[board.records[r].conn][d] = conn[board.records[r].conn][d]
    BY <1>3 DEF Directions
  <2> QED BY <1>1, <2>2, <2>3
<1> QED BY <1>4, <1>5

LEMMA SendOwn ==
  ASSUME WorkerInv, InOrderNow, BoardInv, NEW c \in Conns, NEW e \in Events, Sends(c, e)
  PROVE  OwnInv'
<1>1. /\ EventInv /\ RowInv /\ OwnInv /\ board' = board /\ setting'.ports = setting.ports
      /\ queue' = Append(queue, e) /\ queue \in Seq(Events) /\ setting.events
      /\ ~IsOver(conn[c]) /\ e.conn = c /\ e.port = conn'[c].port
  BY DEF BoardInv, EventInv, Sends, InOrderNow, SameSettings, Truthful
<1>2. SentNow(c, e)
  BY <1>1, Sent
<1> SUFFICES ASSUME setting.ports = "unique" PROVE OwnInv'
  BY <1>1 DEF OwnInv
<1>3. /\ \A a, b \in Conns : a # b /\ conn[a].port = conn[b].port /\ conn[a].port # 0
           => IsOver(conn[a]) \/ IsOver(conn[b])
      /\ \A k \in 1..Len(queue) : queue[k].type \notin Accepted =>
           Finds(queue, board.records, queue[k].conn, conn[queue[k].conn].port, k)
      /\ \A d \in Conns : conn[d].told # {} /\ ~IsOver(conn[d]) =>
           Finds(queue, board.records, d, conn[d].port, Len(queue) + 1)
      /\ \A r \in 1..Len(board.records) :
           Follows(queue, board.records[r], conn[board.records[r].conn])
  BY <1>1 DEF OwnInv
<1>4. /\ Len(queue') = Len(queue) + 1 /\ Len(queue) \in Nat
      /\ \A i \in 1..Len(queue) : queue'[i] = queue[i]
      /\ queue'[Len(queue) + 1] = e
  BY <1>1, AppendIs
\* A port that is announced now is that of no other connection that goes on.
<1>5. ASSUME NEW d \in Conns, d # c, e.type \in Accepted, conn[d].port = e.port
      PROVE  IsOver(conn[d])
  <2>1. PortFree(e.port)
    BY <1>5 DEF Sends
  <2> QED BY <1>5, <2>1 DEF PortFree, IsOver
<1>6. ASSUME NEW d \in Conns, d # c, conn'[d].port = conn'[c].port, conn'[c].port # 0
      PROVE  IsOver(conn'[d])
  <2>1. conn'[d] = conn[d]
    BY <1>2, <1>6 DEF SentNow
  <2>2. CASE e.type \in Accepted
    BY <1>1, <1>5, <1>6, <2>1, <2>2
  <2>3. CASE e.type \notin Accepted
    <3>1. conn'[c].port = conn[c].port
      BY <1>2, <2>3 DEF SentNow
    <3> QED BY <1>1, <1>3, <1>6, <2>1, <3>1
  <2> QED BY <2>2, <2>3
<1>7. ASSUME NEW a \in Conns, NEW b \in Conns, a # b, conn'[a].port = conn'[b].port, conn'[a].port # 0
      PROVE  IsOver(conn'[a]) \/ IsOver(conn'[b])
  <2>1. CASE a = c
    BY <1>6, <1>7, <2>1
  <2>2. CASE b = c
    BY <1>6, <1>7, <2>2
  <2>3. CASE a # c /\ b # c
    <3>1. conn'[a] = conn[a] /\ conn'[b] = conn[b]
      BY <1>2, <2>3 DEF SentNow
    <3> QED BY <1>3, <1>7, <3>1
  <2> QED BY <2>1, <2>2, <2>3
<1>8. ASSUME e.type \notin Accepted
      PROVE  Finds(queue, board.records, c, conn'[c].port, Len(queue) + 1)
  <2>1. conn'[c].port = conn[c].port /\ "ConnectionAccepted" \in conn[c].told
    BY <1>2, <1>8 DEF SentNow, Sends
  <2> QED BY <1>1, <1>3, <2>1
<1>9. ASSUME NEW k \in 1..Len(queue'), queue'[k].type \notin Accepted
      PROVE  Finds(queue', board.records, queue'[k].conn, conn'[queue'[k].conn].port, k)
  <2>1. CASE k = Len(queue) + 1
    <3>1. Finds(queue, board.records, c, conn'[c].port, k) /\ queue'[k] = e
      BY <1>4, <1>8, <1>9, <2>1
    <3>2. k \in 1..(Len(queue) + 1)
      BY <1>4, <2>1
    <3>3. Finds(queue', board.records, c, conn'[c].port, k)
      BY <1>1, <3>1, <3>2, FindsKeeps
    <3> QED BY <1>1, <3>1, <3>3
  <2>2. CASE k # Len(queue) + 1
    <3>1. k \in 1..Len(queue) /\ queue'[k] = queue[k] /\ k \in 1..(Len(queue) + 1)
      BY <1>4, <2>2
    <3>2. PICK d \in Conns : d = queue[k].conn /\ queue[k].type \in AllKinds
      BY <1>1, <3>1, EventsAre
    <3>3. conn'[d].port = conn[d].port
      <4>1. Waits(queue, d, AllKinds)
        BY <3>1, <3>2 DEF Waits
      <4>2. CASE d = c
        BY <1>2, <4>1, <4>2 DEF SentNow
      <4>3. CASE d # c
        BY <1>2, <4>3 DEF SentNow
      <4> QED BY <4>2, <4>3
    <3>4. Finds(queue, board.records, d, conn[d].port, k)
      BY <1>3, <1>9, <3>1, <3>2
    <3>5. Finds(queue', board.records, d, conn[d].port, k)
      BY <1>1, <3>1, <3>4, FindsKeeps
    <3> QED BY <3>1, <3>2, <3>3, <3>5
  <2> QED BY <2>1, <2>2
<1>10. ASSUME NEW d \in Conns, conn'[d].told # {}, ~IsOver(conn'[d])
       PROVE  Finds(queue', board.records, d, conn'[d].port, Len(queue') + 1)
  <2>1. CASE d = c /\ e.type \in Accepted
    BY <1>1, <2>1, FindsNew
  <2>2. CASE d = c /\ e.type \notin Accepted
    BY <1>1, <1>8, <2>2, FindsNext
  <2>3. CASE d # c
    <3>1. conn'[d] = conn[d]
      BY <1>2, <2>3 DEF SentNow
    <3>2. ~(e.type \in Accepted /\ e.port = conn[d].port)
      BY <1>5, <1>10, <2>3, <3>1
    <3>3. Finds(queue, board.records, d, conn[d].port, Len(queue) + 1)
      BY <1>3, <1>10, <3>1
    <3> QED BY <1>1, <3>1, <3>2, <3>3, FindsNext
  <2> QED BY <2>1, <2>2, <2>3
<1>11. ASSUME NEW r \in 1..Len(board.records)
       PROVE  Follows(queue', board.records[r], conn'[board.records[r].conn])
  <2>1. PICK d \in Conns : d = board.records[r].conn
    BY <1>1, RowsAre
  <2>2. Follows(queue, board.records[r], conn[d]) /\ "ConnectionAccepted" \in conn[d].told
    BY <1>1, <1>3, <2>1 DEF RowInv
  <2>3. CASE d # c
    <3>1. conn'[d] = conn[d] /\ (Waits(queue', d, Terminal) <=> Waits(queue, d, Terminal))
      BY <1>2, <2>3 DEF SentNow
    <3> QED BY <2>1, <2>2, <3>1 DEF Follows
  <2>4. CASE d = c
    <3>1. IsActive(board.records[r])
      BY <1>2, <2>1, <2>2, <2>4 DEF SentNow, Follows
    <3>2. HasEnded(conn'[c]) => Waits(queue', c, Terminal)
      BY <1>2 DEF SentNow
    <3> QED BY <2>1, <2>4, <3>1, <3>2 DEF Follows
  <2> QED BY <2>3, <2>4
<1> QED BY <1>1, <1>7, <1>9, <1>10, <1>11 DEF OwnInv

(***************************************************************************)
(* The dashboard reads an event.                                           *)
(***************************************************************************)
\* e, an event of c, is read; s is the log before it is pruned.
ReadNow(c, e, s, f) ==
  /\ setting.events /\ queue # <<>> /\ e = Head(queue) /\ e.conn = c /\ queue' = Tail(queue)
  /\ UNCHANGED <<conn, receiver>> /\ Truthful(e, conn[c]) /\ e.type \in AllKinds
  /\ Applies(board, board', e, s, f)
  /\ \A d \in Conns : \A kinds : Waits(queue, d, kinds) <=> Waits(queue', d, kinds) \/ (d = c /\ e.type \in kinds)
  /\ ~Waits(queue', c, Accepted)
  /\ e.type \in Terminal => \A kinds : ~Waits(queue', c, kinds)
  /\ HasEnded(conn[c]) /\ e.type \notin Terminal => Waits(queue', c, Terminal)
  /\ "ConnectionAccepted" \in conn[c].told

LEMMA ReadIs ==
  ASSUME WorkerInv, EventInv, UNCHANGED conn, Receive
  PROVE  \E c \in Conns, e \in Events : \E s, f : ReadNow(c, e, s, f)
<1> DEFINE e == Head(queue)
           c == e.conn
<1>1. /\ queue # <<>> /\ queue' = Tail(queue) /\ board' = ApplyEvent(board, e) /\ UNCHANGED <<conn, receiver>>
      /\ queue \in Seq(Events) /\ BoardOK(board) /\ setting.events \in BOOLEAN
  BY DEF Receive, EventInv, WorkerInv, SettingOK
<1>2. setting.events
  BY <1>1 DEF EventInv
<1>3. e = queue[1] /\ e \in Events /\ 1 \in 1..Len(queue)
  BY <1>1, TailIs
<1>4. c \in Conns /\ Truthful(e, conn[c]) /\ e.type \in AllKinds
  BY <1>3, EventsAre
<1>5. PICK s, f : Applies(board, board', e, s, f)
  BY <1>1, <1>3, ApplyIs
<1>6. \A d \in Conns : \A kinds : Waits(queue, d, kinds) <=> Waits(queue', d, kinds) \/ (d = c /\ e.type \in kinds)
  BY <1>1, WaitsLess
<1>7. /\ ~Waits(queue', c, Accepted)
      /\ e.type \in Terminal => \A kinds : ~Waits(queue', c, kinds)
  BY <1>1, OrderedLess DEF EventInv
<1>8. HasEnded(conn[c]) /\ e.type \notin Terminal => Waits(queue', c, Terminal)
  <2>1. Waits(queue, c, AllKinds)
    BY <1>4, <1>6
  <2>2. HasEnded(conn[c]) => Waits(queue, c, Terminal)
    BY <1>4, <2>1 DEF EventInv
  <2> QED BY <1>4, <1>6, <2>2
<1>9. "ConnectionAccepted" \in conn[c].told
  BY <1>4 DEF Truthful, WorkerInv, WorkerOK
<1>10. ReadNow(c, e, s, f)
  BY <1>1, <1>2, <1>4, <1>5, <1>6, <1>7, <1>8, <1>9 DEF ReadNow
<1> QED BY <1>3, <1>4, <1>10

LEMMA ReadShown ==
  ASSUME WorkerInv, EventInv, NEW c \in Conns, NEW e \in Events, NEW s, NEW f, ReadNow(c, e, s, f)
  PROVE  board'.active = Cardinality(Shown')
<1>1. Shown' = {d \in Conns : IsShown(queue', d, conn[d])}
  BY DEF Shown, ReadNow
<1>2. /\ setting.events /\ board.active = Cardinality(Shown) /\ board.active \in Nat
      /\ Applies(board, board', e, s, f) /\ e.type \in AllKinds /\ Truthful(e, conn[c])
  BY DEF ReadNow, EventInv, BoardOK
<1>3. \A d \in Conns : d # c => (d \in Shown' <=> d \in Shown)
  BY <1>1 DEF ReadNow, Shown, IsShown
<1>4. IsFiniteSet(Shown) /\ Shown \subseteq Conns /\ Shown' \subseteq Conns
  BY <1>1, ConnsFinite, FS_Subset DEF Shown
<1>5. CASE e.type \in Accepted
  <2>1. c \notin Shown
    BY <1>5 DEF Shown, IsShown, ReadNow
  <2>2. c \in Shown'
    BY <1>1, <1>5 DEF IsShown, ReadNow, Accepted, Terminal
  <2>3. Shown' = Shown \cup {c}
    BY <1>3, <1>4, <2>2
  <2>4. Cardinality(Shown') = Cardinality(Shown) + 1
    BY <1>4, <2>1, <2>3, FS_AddElement
  <2>5. board'.active = board.active + 1
    BY <1>2, <1>5 DEF Applies
  <2> QED BY <1>2, <2>4, <2>5
<1>6. CASE e.type \in Terminal
  <2>1. e.type \notin Accepted /\ HasEnded(conn[c])
    BY <1>2, <1>6 DEF Truthful, HasEnded, Terminal, Accepted
  <2>2. c \in Shown
    BY <1>6, <2>1 DEF ReadNow, Shown, IsShown
  <2>3. c \notin Shown'
    BY <1>1, <1>6, <2>1 DEF ReadNow, IsShown
  <2>4. Shown' = Shown \ {c}
    BY <1>3, <1>4, <2>3
  <2>5. Cardinality(Shown') = Cardinality(Shown) - 1
    BY <1>4, <2>2, <2>4, FS_RemoveElement
  <2>6. Cardinality(Shown) # 0
    BY <1>4, <2>2, FS_EmptySet
  <2>7. board'.active = board.active - 1
    BY <1>2, <1>6, <2>6 DEF Applies, SaturatingDec
  <2> QED BY <1>2, <2>5, <2>7
<1>7. CASE e.type = "BypassComplete"
  <2>1. e.type \notin Terminal /\ e.type \notin Accepted
    BY <1>7 DEF Terminal, Accepted
  <2>2. c \in Shown' <=> c \in Shown
    BY <1>1, <2>1 DEF ReadNow, Shown, IsShown
  <2>3. Shown' = Shown
    BY <1>3, <1>4, <2>2
  <2>4. board'.active = board.active
    BY <1>2, <1>7 DEF Applies
  <2> QED BY <1>2, <2>3, <2>4
<1> QED BY <1>2, <1>5, <1>6, <1>7 DEF AllKinds, Kinds, Accepted, Terminal

LEMMA ReadEvents ==
  ASSUME WorkerInv, InOrderNow, EventInv, NEW c \in Conns, NEW e \in Events, NEW s, NEW f,
         ReadNow(c, e, s, f)
  PROVE  EventInv'
<1>1. /\ queue \in Seq(Events) /\ queue # <<>> /\ queue' = Tail(queue) /\ Ordered(queue)
      /\ BoardOK(board') /\ receiver' = receiver /\ receiver \in {"idle", "empty"} /\ conn' = conn
      /\ setting.events /\ setting'.events = setting.events
  BY DEF ReadNow, EventInv, Applies, InOrderNow, SameSettings
<1>2. /\ queue' \in Seq(Events)
      /\ \A i \in 1..Len(queue') : queue'[i] = queue[i + 1] /\ i + 1 \in 1..Len(queue)
  BY <1>1, TailIs
<1>3. \A i \in 1..Len(queue') : Truthful(queue'[i], conn'[queue'[i].conn])
  BY <1>1, <1>2, EventsAre
<1>4. Ordered(queue')
  BY <1>1, OrderedLess
<1>5. ASSUME NEW d \in Conns, HasEnded(conn'[d]), Waits(queue', d, AllKinds)
      PROVE  Waits(queue', d, Terminal)
  <2>1. Waits(queue, d, AllKinds)
    BY <1>5 DEF ReadNow
  <2>2. Waits(queue, d, Terminal)
    BY <1>1, <1>5, <2>1 DEF EventInv
  <2>3. ~(d = c /\ e.type \in Terminal)
    BY <1>5 DEF ReadNow
  <2> QED BY <2>2, <2>3 DEF ReadNow
<1>6. board'.active = Cardinality(Shown')
  BY ReadShown
<1> QED BY <1>1, <1>2, <1>3, <1>4, <1>5, <1>6 DEF EventInv

\* Where a row of the log comes from.
LEMMA RowsFrom ==
  ASSUME EventInv, NEW c \in Conns, NEW e \in Events, NEW s, NEW f, ReadNow(c, e, s, f),
         NEW j \in 1..Len(s)
  PROVE  \/ e.type \in Accepted /\ j = 1 /\ IsNew(s[j], e)
         \/ e.type \in Accepted /\ j - 1 \in 1..Len(board.records) /\ s[j] = board.records[j - 1]
         \/ /\ e.type \notin Accepted /\ j \in 1..Len(board.records) /\ s[j] = board.records[j]
            /\ j \notin FindRecord(board.records, e.port)
         \/ /\ e.type \notin Accepted /\ j \in 1..Len(board.records)
            /\ j \in FindRecord(board.records, e.port) /\ RowEffect(board.records[j], s[j], e)
<1>1. Applies(board, board', e, s, f) /\ board.records \in Seq(Rows) /\ Len(board.records) \in Nat
  BY DEF ReadNow, EventInv, BoardOK
<1>2. CASE e.type \in Accepted
  <2>1. /\ Len(s) = Len(board.records) + 1 /\ IsNew(s[1], e)
        /\ \A i \in 1..Len(board.records) : s[i + 1] = board.records[i]
    BY <1>1, <1>2 DEF Applies, AddList
  <2>2. CASE j = 1
    BY <1>2, <2>1, <2>2
  <2>3. CASE j # 1
    <3>1. j - 1 \in 1..Len(board.records) /\ (j - 1) + 1 = j
      BY <1>1, <2>1, <2>3
    <3>2. s[(j - 1) + 1] = board.records[j - 1]
      BY <2>1, <3>1
    <3> QED BY <1>2, <3>1, <3>2
  <2> QED BY <2>2, <2>3
<1>3. CASE e.type \notin Accepted
  <2>1. SetList(board.records, s, e)
    BY <1>1, <1>3 DEF Applies
  <2>2. j \in 1..Len(board.records)
    BY <2>1 DEF SetList
  <2>3. IF j \in FindRecord(board.records, e.port) THEN RowEffect(board.records[j], s[j], e)
        ELSE s[j] = board.records[j]
    BY <2>1, <2>2 DEF SetList
  <2> QED BY <1>3, <2>2, <2>3
<1> QED BY <1>2, <1>3

RowOK(w, q) == /\ w.conn \in Conns /\ w.port = conn[w.conn].port
               /\ "ConnectionAccepted" \in conn[w.conn].told /\ ~Waits(q, w.conn, Accepted)

LEMMA ReadRow ==
  ASSUME EventInv, RowInv, NEW c \in Conns, NEW e \in Events, NEW s, NEW f, ReadNow(c, e, s, f),
         NEW j \in 1..Len(s)
  PROVE  RowOK(s[j], queue')
<1>1. ASSUME NEW r \in 1..Len(board.records), s[j].port = board.records[r].port,
             s[j].conn = board.records[r].conn
      PROVE  RowOK(s[j], queue')
  <2>1. PICK d \in Conns : d = board.records[r].conn
    BY RowsAre
  <2>2. /\ board.records[r].port = conn[d].port
        /\ "ConnectionAccepted" \in conn[d].told /\ ~Waits(queue, d, Accepted)
    BY <2>1 DEF RowInv
  <2>3. ~Waits(queue', d, Accepted)
    BY <2>2 DEF ReadNow
  <2> QED BY <1>1, <2>1, <2>2, <2>3 DEF RowOK
<1>2. ASSUME IsNew(s[j], e) PROVE RowOK(s[j], queue')
  BY <1>2 DEF IsNew, RowOK, ReadNow, Truthful
<1>3. ASSUME NEW r, RowEffect(board.records[r], s[j], e)
      PROVE  s[j].port = board.records[r].port /\ s[j].conn = board.records[r].conn
  BY <1>3 DEF RowEffect
<1> QED BY <1>1, <1>2, <1>3, RowsFrom

LEMMA ReadOnce ==
  ASSUME EventInv, RowInv, NEW c \in Conns, NEW e \in Events, NEW s, NEW f, ReadNow(c, e, s, f),
         NEW i \in 1..Len(s), NEW j \in 1..Len(s), s[i].conn = s[j].conn
  PROVE  i = j
<1>1. CASE e.type \in Accepted
  <2>1. ASSUME NEW r \in 1..Len(board.records) PROVE board.records[r].conn # c
    <3>1. Waits(queue, c, Accepted)
      BY <1>1 DEF ReadNow
    <3> QED BY <3>1 DEF RowInv
  <2>2. \A k \in 1..Len(s) : \/ k = 1 /\ s[k].conn = c
                             \/ k - 1 \in 1..Len(board.records) /\ s[k] = board.records[k - 1]
    BY <1>1, RowsFrom DEF IsNew, ReadNow
  <2>3. CASE (i = 1 /\ s[i].conn = c) \/ (j = 1 /\ s[j].conn = c)
    BY <2>1, <2>2, <2>3
  <2>4. CASE /\ i - 1 \in 1..Len(board.records) /\ s[i] = board.records[i - 1]
             /\ j - 1 \in 1..Len(board.records) /\ s[j] = board.records[j - 1]
    <3>1. i - 1 = j - 1
      BY <2>4 DEF RowInv
    <3> QED BY <3>1
  <2> QED BY <2>2, <2>3, <2>4
<1>2. CASE e.type \notin Accepted
  <2>1. \A k \in 1..Len(s) : k \in 1..Len(board.records) /\ s[k].conn = board.records[k].conn
    BY <1>2, RowsFrom DEF RowEffect
  <2> QED BY <2>1 DEF RowInv
<1> QED BY <1>1, <1>2

\* What holds of the rows before they are pruned holds of the rows that are left.
LEMMA ReadPruned ==
  ASSUME NEW c, NEW e, NEW s, NEW f, ReadNow(c, e, s, f)
  PROVE  /\ f \in [1..Len(board'.records) -> 1..Len(s)] /\ Len(board'.records) \in Nat
         /\ \A i \in 1..Len(board'.records) : f[i] \in 1..Len(s) /\ board'.records[i] = s[f[i]]
         /\ \A i, j \in 1..Len(board'.records) : i < j => f[i] < f[j]
         /\ \A i, j \in 1..Len(board'.records) : f[i] = f[j] => i = j
         /\ \A j \in 1..Len(s) : IsActive(s[j]) => \E i \in 1..Len(board'.records) : f[i] = j
         /\ s \in Seq(Rows) /\ Len(s) \in Nat
<1>1. Thinned(s, board'.records, f) /\ s \in Seq(Rows)
  BY DEF ReadNow, Applies
<1>2. f \in [1..Len(board'.records) -> 1..Len(s)] /\ Len(board'.records) \in Nat
  BY <1>1 DEF Thinned
<1>3. \A i \in 1..Len(board'.records) : f[i] \in 1..Len(s)
  BY <1>2
<1>4. \A i, j \in 1..Len(board'.records) : i < j => f[i] < f[j]
  BY <1>1 DEF Thinned
<1>5. ASSUME NEW i \in 1..Len(board'.records), NEW j \in 1..Len(board'.records), f[i] = f[j]
      PROVE  i = j
  <2>1. ~(i < j) /\ ~(j < i)
    BY <1>3, <1>4, <1>5
  <2> QED BY <2>1
<1>6. Len(s) \in Nat
  BY <1>1
<1>7. \A i \in 1..Len(board'.records) : board'.records[i] = s[f[i]]
  BY <1>1 DEF Thinned
<1>8. \A j \in 1..Len(s) : IsActive(s[j]) => \E i \in 1..Len(board'.records) : f[i] = j
  BY <1>1 DEF Thinned
<1> QED BY <1>1, <1>2, <1>3, <1>4, <1>5, <1>6, <1>7, <1>8

LEMMA ReadRows ==
  ASSUME EventInv, RowInv, NEW c \in Conns, NEW e \in Events, NEW s, NEW f, ReadNow(c, e, s, f)
  PROVE  RowInv'
<1>1. /\ \A i \in 1..Len(board'.records) : f[i] \in 1..Len(s) /\ board'.records[i] = s[f[i]]
      /\ \A i, j \in 1..Len(board'.records) : f[i] = f[j] => i = j
  BY ReadPruned
<1>2. conn' = conn
  BY DEF ReadNow
<1>3. ASSUME NEW r \in 1..Len(board'.records)
      PROVE  LET d == board'.records[r].conn IN
             /\ board'.records[r].port = conn'[d].port
             /\ "ConnectionAccepted" \in conn'[d].told /\ ~Waits(queue', d, Accepted)
  <2>1. RowOK(s[f[r]], queue')
    BY <1>1, ReadRow
  <2> QED BY <1>1, <1>2, <2>1 DEF RowOK
<1>4. ASSUME NEW i \in 1..Len(board'.records), NEW j \in 1..Len(board'.records),
             board'.records[i].conn = board'.records[j].conn
      PROVE  i = j
  <2>1. PICK a \in 1..Len(s) : a = f[i]
    BY <1>1
  <2>2. PICK b \in 1..Len(s) : b = f[j]
    BY <1>1
  <2>3. s[a].conn = s[b].conn
    BY <1>1, <1>4, <2>1, <2>2
  <2>4. a = b
    BY <2>3, ReadOnce
  <2> QED BY <1>1, <2>1, <2>2, <2>4
<1> QED BY <1>3, <1>4 DEF RowInv

LEMMA ReadShare ==
  ASSUME WorkerInv, EventInv, RowInv, ShareInv, NEW c \in Conns, NEW e \in Events, NEW s, NEW f,
         ReadNow(c, e, s, f)
  PROVE  ShareInv'
<1>1. \A i \in 1..Len(board'.records) : f[i] \in 1..Len(s) /\ board'.records[i] = s[f[i]]
  BY ReadPruned
<1>2. conn' = conn /\ Truthful(e, conn[c])
  BY DEF ReadNow
<1>3. ASSUME PortsDiffer, NEW j \in 1..Len(s), NEW d \in Directions
      PROVE  s[j][d] <= conn[s[j].conn][d].n
  <2>1. ASSUME NEW r \in 1..Len(board.records) PROVE board.records[r][d] <= conn[board.records[r].conn][d].n
    BY <1>3 DEF ShareInv
  <2>2. CASE IsNew(s[j], e)
    <3>1. s[j][d] = 0 /\ s[j].conn = c
      BY <2>2 DEF IsNew, Directions, ReadNow
    <3> QED BY <3>1, CopiesNat
  <2>3. ASSUME NEW r \in 1..Len(board.records), RowEffect(board.records[r], s[j], e),
               r \in FindRecord(board.records, e.port), e.type \notin Accepted
        PROVE  s[j][d] <= conn[s[j].conn][d].n
    <3>1. s[j].conn = board.records[r].conn /\ board.records[r].port = e.port
      BY <2>3 DEF RowEffect, FindRecord
    <3>2. CASE e.type = "RelayFinished"
      <4>1. s[j][d] = conn[c][d].n
        BY <1>2, <2>3, <3>2 DEF RowEffect, Truthful, Directions
      <4>2. PICK a \in Conns : a = board.records[r].conn
        BY RowsAre
      <4>3. conn[a].port = conn[c].port
        BY <1>2, <3>1, <4>2 DEF Truthful, RowInv
      <4>4. conn[c].port # 0
        BY DEF ReadNow, WorkerInv, WorkerOK
      <4>5. a = c
        BY <1>3, <4>3, <4>4 DEF PortsDiffer
      <4> QED BY <3>1, <4>1, <4>2, <4>5, CopiesNat
    <3>3. CASE e.type # "RelayFinished"
      <4>1. e.type \in {"BypassComplete", "BypassFailed", "ConnectionError"}
        BY <2>3, <3>3 DEF ReadNow, AllKinds, Kinds, Accepted
      <4>2. s[j].c2s = board.records[r].c2s /\ s[j].s2c = board.records[r].s2c
        BY <2>3, <4>1 DEF RowEffect
      <4> QED BY <2>1, <3>1, <4>2 DEF Directions
    <3> QED BY <3>2, <3>3
  <2> QED BY <2>1, <2>2, <2>3, RowsFrom
<1>4. PortsDiffer' <=> PortsDiffer
  BY <1>2 DEF PortsDiffer
<1> QED BY <1>1, <1>2, <1>3, <1>4 DEF ShareInv

LEMMA HeadsThin ==
  ASSUME NEW s, NEW t, NEW f, Thinned(s, t, f), NEW c, NEW p, NEW r \in 1..Len(s), IsActive(s[r]),
         s[r].conn = c, \A i \in 1..(r - 1) : s[i].port # p, Len(s) \in Nat
  PROVE  Heads(t, c, p)
<1>1. PICK i \in 1..Len(t) : f[i] = r
  BY DEF Thinned
<1>2. t[i].conn = c /\ Len(t) \in Nat
  BY <1>1 DEF Thinned
<1>3. ASSUME NEW j \in 1..(i - 1) PROVE t[j].port # p
  <2>1. j \in 1..Len(t) /\ j < i
    BY <1>2
  <2>2. f[j] < r /\ f[j] \in 1..Len(s) /\ t[j] = s[f[j]]
    BY <1>1, <2>1 DEF Thinned
  <2>3. f[j] \in 1..(r - 1)
    BY <2>2
  <2> QED BY <2>2, <2>3
<1> QED BY <1>2, <1>3 DEF Heads

LEMMA ReadHeads ==
  ASSUME EventInv, NEW c \in Conns, NEW e \in Events, NEW s, NEW f, ReadNow(c, e, s, f),
         NEW d, NEW p, Heads(board.records, d, p), ~(e.type \in Accepted /\ e.port = p),
         \A j \in 1..Len(s) : s[j].conn = d => IsActive(s[j])
  PROVE  Heads(board'.records, d, p)
<1>1. Thinned(s, board'.records, f) /\ Len(s) \in Nat /\ Len(board.records) \in Nat
  BY ReadPruned DEF ReadNow, Applies, EventInv, BoardOK
<1>2. PICK r \in 1..Len(board.records) : /\ board.records[r].conn = d
                                         /\ \A i \in 1..(r - 1) : board.records[i].port # p
  BY DEF Heads
<1>3. CASE e.type \in Accepted
  <2>1. /\ Len(s) = Len(board.records) + 1 /\ s[1].port = e.port
        /\ \A i \in 1..Len(board.records) : s[i + 1] = board.records[i]
    BY <1>3 DEF ReadNow, Applies, AddList, IsNew
  <2>2. r + 1 \in 1..Len(s) /\ s[r + 1].conn = d
    BY <1>1, <1>2, <2>1
  <2>3. ASSUME NEW i \in 1..(r + 1 - 1) PROVE s[i].port # p
    <3>1. CASE i = 1
      BY <1>3, <2>1, <3>1
    <3>2. CASE i # 1
      <4>1. i - 1 \in 1..(r - 1) /\ i - 1 \in 1..Len(board.records) /\ (i - 1) + 1 = i
        BY <1>1, <3>2
      <4>2. s[(i - 1) + 1] = board.records[i - 1] /\ board.records[i - 1].port # p
        BY <1>2, <2>1, <4>1
      <4> QED BY <4>1, <4>2
    <3> QED BY <3>1, <3>2
  <2>4. PICK m \in 1..Len(s) : m = r + 1
    BY <2>2
  <2>5. IsActive(s[m]) /\ s[m].conn = d /\ \A i \in 1..(m - 1) : s[i].port # p
    BY <2>2, <2>3, <2>4
  <2> QED BY <1>1, <2>5, HeadsThin
<1>4. CASE e.type \notin Accepted
  <2>1. Len(s) = Len(board.records)
    BY <1>4 DEF ReadNow, Applies, SetList
  <2>2. \A i \in 1..Len(s) : s[i].conn = board.records[i].conn /\ s[i].port = board.records[i].port
    BY <1>4, RowsFrom DEF RowEffect
  <2>3. r \in 1..Len(s) /\ s[r].conn = d
    BY <1>2, <2>1, <2>2
  <2>4. ASSUME NEW i \in 1..(r - 1) PROVE s[i].port # p
    <3>1. i \in 1..Len(s)
      BY <1>1, <2>1
    <3> QED BY <1>2, <2>2, <3>1
  <2> QED BY <1>1, <2>3, <2>4, HeadsThin
<1> QED BY <1>3, <1>4

LEMMA ReadFinds ==
  ASSUME EventInv, NEW c \in Conns, NEW e \in Events, NEW s, NEW f, ReadNow(c, e, s, f),
         NEW d, NEW p, NEW k \in 1..Len(queue), Finds(queue, board.records, d, p, k + 1),
         \A j \in 1..Len(s) : s[j].conn = d => IsActive(s[j])
  PROVE  Finds(queue', board'.records, d, p, k)
<1>1. queue \in Seq(Events) /\ queue # <<>> /\ queue' = Tail(queue) /\ e = Head(queue)
  BY DEF EventInv, ReadNow
<1>2. /\ e = queue[1] /\ Len(queue) \in Nat /\ Len(queue') = Len(queue) - 1
      /\ \A i \in 1..Len(queue') : queue'[i] = queue[i + 1]
  BY <1>1, TailIs
<1>3. \A i \in 1..(k - 1) : queue'[i] = queue[i + 1] /\ (Announces(queue', i, p) <=> Announces(queue, i + 1, p))
  <2>1. \A i \in 1..(k - 1) : i \in 1..Len(queue')
    BY <1>2
  <2> QED BY <1>2, <2>1 DEF Announces
<1>4. k \in Nat \ {0} /\ k + 1 - 1 = k
  BY <1>2
<1>5. CASE Heads(board.records, d, p) /\ \A i \in 1..k : ~Announces(queue, i, p)
  <2>1. ~Announces(queue, 1, p) /\ \A i \in 1..(k - 1) : ~Announces(queue, i + 1, p)
    BY <1>4, <1>5
  <2>2. ~(e.type \in Accepted /\ e.port = p)
    BY <1>2, <2>1 DEF Announces
  <2>3. Heads(board'.records, d, p)
    BY <1>5, <2>2, ReadHeads
  <2> QED BY <1>3, <2>1, <2>3 DEF Finds
<1>6. ASSUME NEW j \in 1..k, queue[j].conn = d, queue[j].type \in Accepted,
             \A i \in (j + 1)..k : ~Announces(queue, i, p)
      PROVE  Finds(queue', board'.records, d, p, k)
  <2>1. CASE j = 1
    <3>0. \A i \in 1..(k - 1) : i + 1 \in (1 + 1)..k
      BY <1>4
    <3>1. \A i \in 1..(k - 1) : ~Announces(queue, i + 1, p)
      BY <1>6, <2>1, <3>0
    <3>2. Len(s) \in Nat /\ 1 \in 1..Len(s) /\ IsNew(s[1], e)
      <4>1. AddList(board.records, s, e) /\ Len(board.records) \in Nat
        BY <1>2, <1>6, <2>1 DEF ReadNow, Applies, EventInv, BoardOK
      <4> QED BY <4>1 DEF AddList
    <3>3. s[1].conn = d /\ IsActive(s[1])
      BY <1>2, <1>6, <2>1, <3>2 DEF IsNew
    <3>4. Thinned(s, board'.records, f)
      BY DEF ReadNow, Applies
    <3>5. \A i \in 1..(1 - 1) : s[i].port # p
      OBVIOUS
    <3>6. Heads(board'.records, d, p)
      BY <3>2, <3>3, <3>4, <3>5, HeadsThin
    <3> QED BY <1>3, <3>1, <3>6 DEF Finds
  <2>2. CASE j # 1
    <3>1. j - 1 \in 1..(k - 1) /\ (j - 1) + 1 = j
      BY <1>4, <2>2
    <3>2. queue'[j - 1] = queue[j]
      <4>1. queue'[j - 1] = queue[(j - 1) + 1]
        BY <1>3, <3>1
      <4> QED BY <3>1, <4>1
    <3>3. ASSUME NEW i \in ((j - 1) + 1)..(k - 1) PROVE ~Announces(queue', i, p)
      <4>1. i \in 1..(k - 1) /\ i + 1 \in (j + 1)..k
        BY <1>4, <3>1
      <4> QED BY <1>3, <1>6, <4>1
    <3> QED BY <1>6, <3>1, <3>2, <3>3 DEF Finds
  <2> QED BY <2>1, <2>2
<1> QED BY <1>4, <1>5, <1>6 DEF Finds

LEMMA ReadFound ==
  ASSUME EventInv, RowInv, OwnInv, NEW c \in Conns, NEW e \in Events, NEW s, NEW f, ReadNow(c, e, s, f),
         setting.ports = "unique", e.type \notin Accepted, NEW i \in 1..Len(board.records)
  PROVE  i \in FindRecord(board.records, e.port) <=> board.records[i].conn = c
<1>1. /\ setting.events /\ e = queue[1] /\ 1 \in 1..Len(queue) /\ e.conn = c /\ e.port = conn[c].port
  BY TailIs DEF ReadNow, EventInv, Truthful
<1>2. Finds(queue, board.records, c, e.port, 1)
  BY <1>1 DEF OwnInv
<1>3. Heads(board.records, c, e.port)
  BY <1>2 DEF Finds
<1>4. PICK r \in 1..Len(board.records) : /\ board.records[r].conn = c
                                         /\ \A j \in 1..(r - 1) : board.records[j].port # e.port
  BY <1>3 DEF Heads
<1>5. board.records[r].port = e.port /\ board.records \in Seq(Rows)
  BY <1>1, <1>4 DEF RowInv, EventInv, BoardOK
<1>6. DOMAIN board.records = 1..Len(board.records)
  BY <1>5
<1>7. ASSUME NEW j \in 1..Len(board.records), board.records[j].port = e.port PROVE r <= j
  BY <1>4, <1>7
<1>8. r \in FindRecord(board.records, e.port)
  BY <1>4, <1>5, <1>6, <1>7 DEF FindRecord
<1>9. i \in FindRecord(board.records, e.port) => i = r
  <2> HAVE i \in FindRecord(board.records, e.port)
  <2>1. board.records[i].port = e.port /\ i <= r
    BY <1>5, <1>6 DEF FindRecord
  <2> QED BY <1>7, <2>1
<1>10. board.records[i].conn = c => i = r
  BY <1>4 DEF RowInv
<1> QED BY <1>4, <1>8, <1>9, <1>10

LEMMA ReadFollows ==
  ASSUME EventInv, RowInv, OwnInv, NEW c \in Conns, NEW e \in Events, NEW s, NEW f, ReadNow(c, e, s, f),
         setting.ports = "unique", NEW j \in 1..Len(s)
  PROVE  Follows(queue', s[j], conn[s[j].conn])
<1>1. HasEnded(conn[c]) /\ e.type \notin Terminal => Waits(queue', c, Terminal)
  BY DEF ReadNow
<1>2. e.type \in Terminal => HasEnded(conn[c]) /\ ~Waits(queue', c, Terminal)
  BY DEF ReadNow, Truthful, HasEnded
<1>3. ASSUME NEW r \in 1..Len(board.records), s[j] = board.records[r], board.records[r].conn # c
      PROVE  Follows(queue', s[j], conn[s[j].conn])
  <2>1. PICK d \in Conns : d = board.records[r].conn
    BY RowsAre
  <2>2. Follows(queue, board.records[r], conn[d])
    BY <2>1 DEF OwnInv, ReadNow
  <2>3. Waits(queue', d, Terminal) <=> Waits(queue, d, Terminal)
    BY <1>3, <2>1 DEF ReadNow
  <2> QED BY <1>3, <2>1, <2>2, <2>3 DEF Follows
<1>4. CASE IsNew(s[j], e) /\ e.type \in Accepted
  <2>1. IsActive(s[j]) /\ s[j].conn = c /\ e.type \notin Terminal
    BY <1>4 DEF IsNew, ReadNow, Accepted, Terminal
  <2> QED BY <1>1, <2>1 DEF Follows
<1>5. ASSUME NEW r \in 1..Len(board.records), s[j] = board.records[r], e.type \in Accepted
      PROVE  Follows(queue', s[j], conn[s[j].conn])
  <2>1. board.records[r].conn # c
    BY <1>5 DEF RowInv, ReadNow
  <2> QED BY <1>3, <1>5, <2>1
<1>6. ASSUME NEW r \in 1..Len(board.records), s[j] = board.records[r], e.type \notin Accepted,
             r \notin FindRecord(board.records, e.port)
      PROVE  Follows(queue', s[j], conn[s[j].conn])
  <2>1. board.records[r].conn # c
    BY <1>6, ReadFound
  <2> QED BY <1>3, <1>6, <2>1
<1>7. ASSUME NEW r \in 1..Len(board.records), RowEffect(board.records[r], s[j], e), e.type \notin Accepted,
             r \in FindRecord(board.records, e.port)
      PROVE  Follows(queue', s[j], conn[s[j].conn])
  <2>1. s[j].conn = c
    BY <1>7, ReadFound DEF RowEffect
  <2>2. CASE e.type = "BypassComplete"
    <3>1. IsActive(s[j]) /\ e.type \notin Terminal
      BY <1>7, <2>2 DEF RowEffect, Terminal
    <3> QED BY <1>1, <2>1, <3>1 DEF Follows
  <2>3. CASE e.type \in Terminal
    <3>1. ~IsActive(s[j])
      BY <1>7, <2>3 DEF RowEffect, Terminal
    <3> QED BY <1>2, <2>1, <2>3, <3>1 DEF Follows
  <2> QED BY <1>7, <2>2, <2>3 DEF ReadNow, AllKinds, Kinds, Accepted, Terminal
<1> QED BY <1>4, <1>5, <1>6, <1>7, RowsFrom

LEMMA ReadOwn ==
  ASSUME WorkerInv, InOrderNow, EventInv, EventInv', RowInv, OwnInv, NEW c \in Conns, NEW e \in Events,
         NEW s, NEW f, ReadNow(c, e, s, f)
  PROVE  OwnInv'
<1>1. /\ setting.events /\ setting'.events = setting.events /\ setting'.ports = setting.ports
      /\ conn' = conn /\ queue # <<>> /\ queue' = Tail(queue) /\ queue \in Seq(Events)
  BY DEF ReadNow, InOrderNow, SameSettings, EventInv
<1> SUFFICES ASSUME setting.ports = "unique" PROVE OwnInv'
  BY <1>1 DEF OwnInv
<1>2. /\ \A a, b \in Conns : a # b /\ conn[a].port = conn[b].port /\ conn[a].port # 0
           => IsOver(conn[a]) \/ IsOver(conn[b])
      /\ \A k \in 1..Len(queue) : queue[k].type \notin Accepted =>
           Finds(queue, board.records, queue[k].conn, conn[queue[k].conn].port, k)
      /\ \A d \in Conns : conn[d].told # {} /\ ~IsOver(conn[d]) =>
           Finds(queue, board.records, d, conn[d].port, Len(queue) + 1)
  BY <1>1 DEF OwnInv
<1>3. /\ Len(queue) \in Nat \ {0} /\ Len(queue') = Len(queue) - 1
      /\ \A i \in 1..Len(queue') : queue'[i] = queue[i + 1] /\ i + 1 \in 1..Len(queue)
  BY <1>1, TailIs
<1>4. \A j \in 1..Len(s) : Follows(queue', s[j], conn[s[j].conn])
  BY ReadFollows
<1>5. ASSUME NEW d \in Conns, HasEnded(conn[d]) => Waits(queue', d, Terminal), NEW j \in 1..Len(s), s[j].conn = d
      PROVE  IsActive(s[j])
  BY <1>4, <1>5 DEF Follows
<1>6. ASSUME NEW k \in 1..Len(queue'), queue'[k].type \notin Accepted
      PROVE  Finds(queue', board'.records, queue'[k].conn, conn'[queue'[k].conn].port, k)
  <2>1. queue'[k] = queue[k + 1] /\ k + 1 \in 1..Len(queue) /\ k \in 1..Len(queue)
    BY <1>3
  <2>2. PICK d \in Conns : d = queue[k + 1].conn /\ queue[k + 1].type \in AllKinds
    BY <2>1, EventsAre
  <2>3. Finds(queue, board.records, d, conn[d].port, k + 1)
    BY <1>2, <1>6, <2>1, <2>2
  <2>4. Waits(queue', d, AllKinds)
    BY <2>1, <2>2 DEF Waits
  <2>5. HasEnded(conn[d]) => Waits(queue', d, Terminal)
    BY <1>1, <2>4 DEF EventInv
  <2>6. \A j \in 1..Len(s) : s[j].conn = d => IsActive(s[j])
    BY <1>5, <2>5
  <2>7. Finds(queue', board'.records, d, conn[d].port, k)
    BY <2>1, <2>3, <2>6, ReadFinds
  <2> QED BY <1>1, <2>1, <2>2, <2>7
<1>7. ASSUME NEW d \in Conns, conn'[d].told # {}, ~IsOver(conn'[d])
      PROVE  Finds(queue', board'.records, d, conn'[d].port, Len(queue') + 1)
  <2>1. Finds(queue, board.records, d, conn[d].port, Len(queue) + 1)
    BY <1>1, <1>2, <1>7
  <2>2. ~HasEnded(conn[d])
    BY <1>1, <1>7 DEF WorkerInv, WorkerOK, HasEnded, IsOver
  <2>3. \A j \in 1..Len(s) : s[j].conn = d => IsActive(s[j])
    BY <1>5, <2>2
  <2>4. Len(queue) \in 1..Len(queue) /\ Len(queue') + 1 = Len(queue)
    BY <1>3
  <2>5. Finds(queue', board'.records, d, conn[d].port, Len(queue))
    BY <2>1, <2>3, <2>4, ReadFinds
  <2> QED BY <1>1, <2>4, <2>5
<1>8. \A r \in 1..Len(board'.records) :
        Follows(queue', board'.records[r], conn'[board'.records[r].conn])
  <2>1. \A r \in 1..Len(board'.records) : f[r] \in 1..Len(s) /\ board'.records[r] = s[f[r]]
    BY ReadPruned
  <2> QED BY <1>1, <1>4, <2>1
<1> QED BY <1>1, <1>2, <1>6, <1>7, <1>8 DEF OwnInv

LEMMA BoardReads ==
  ASSUME WorkerInv, InOrderNow, BoardInv, UNCHANGED conn, Receive
  PROVE  BoardInv'
<1>1. EventInv /\ RowInv /\ ShareInv /\ OwnInv
  BY DEF BoardInv
<1>2. PICK c \in Conns, e \in Events : \E s, f : ReadNow(c, e, s, f)
  BY <1>1, ReadIs
<1>3. PICK s, f : ReadNow(c, e, s, f)
  BY <1>2
<1>4. EventInv'
  BY <1>1, <1>3, ReadEvents
<1> QED BY <1>1, <1>3, <1>4, ReadRows, ReadShare, ReadOwn DEF BoardInv

(***************************************************************************)
(* The dashboard samples the relays.                                       *)
(***************************************************************************)
SampledNow(bytes) ==
  /\ UNCHANGED <<queue, conn>> /\ receiver' \in {"idle", "empty"} /\ BoardOK(board')
  /\ BatchList(board.records, board'.records, registry.relays, bytes)
  /\ board'.active = board.active
  /\ board'.total_c2s = board.total_c2s /\ board'.total_s2c = board.total_s2c
  /\ \A p \in DOMAIN registry.relays : LET c == registry.relays[p].conn IN
       /\ c \in Conns /\ conn[c].port = p
       /\ bytes[c].c2s = conn[c].c2s.n /\ bytes[c].s2c = conn[c].s2c.n

LEMMA SampleIs ==
  ASSUME WorkerInv, RegistryInv, EventInv, UNCHANGED conn, Sample([c \in Conns |-> Bytes(c)])
  PROVE  \E bytes : SampledNow(bytes)
<1>1. PICK bytes : bytes = [c \in Conns |-> Bytes(c)]
  OBVIOUS
<1>2. \A c \in Conns : bytes[c].c2s = conn[c].c2s.n /\ bytes[c].s2c = conn[c].s2c.n
  BY <1>1 DEF Bytes
<1>3. \A p \in DOMAIN registry.relays : LET c == registry.relays[p].conn IN
        /\ c \in Conns /\ conn[c].port = p
        /\ bytes[c].c2s = conn[c].c2s.n /\ bytes[c].s2c = conn[c].s2c.n
  BY <1>2 DEF RegistryInv
<1>4. \A p \in DOMAIN registry.relays :
        bytes[registry.relays[p].conn].c2s \in Nat /\ bytes[registry.relays[p].conn].s2c \in Nat
  BY <1>3, CopiesNat
<1>5. board' = ApplyBatch(board, registry.relays, bytes) /\ queue' = queue /\ receiver' = "idle"
  BY <1>1 DEF Sample
<1>6. BoardOK(board)
  BY DEF EventInv
<1>7. /\ BoardOK(board') /\ BatchList(board.records, board'.records, registry.relays, bytes)
      /\ board'.active = board.active
      /\ board'.total_c2s = board.total_c2s /\ board'.total_s2c = board.total_s2c
  <2>1. PICK relays : relays = registry.relays
    OBVIOUS
  <2>2. PICK b : b = board
    OBVIOUS
  <2>3. LET t == ApplyBatch(b, relays, bytes) IN
        /\ BoardOK(t) /\ BatchList(b.records, t.records, relays, bytes)
        /\ t.active = b.active /\ t.total_c2s = b.total_c2s /\ t.total_s2c = b.total_s2c
    BY <1>4, <1>6, <2>1, <2>2, BatchIs
  <2> QED BY <1>5, <2>1, <2>2, <2>3
<1> QED BY <1>3, <1>5, <1>7 DEF SampledNow

LEMMA SampledRow ==
  ASSUME WorkerInv, EventInv, RowInv, NEW bytes, SampledNow(bytes), NEW i \in 1..Len(board.records)
  PROVE  /\ Len(board'.records) = Len(board.records)
         /\ board'.records[i].port = board.records[i].port /\ board'.records[i].conn = board.records[i].conn
         /\ board'.records[i].status = board.records[i].status /\ board'.records[i].ended = board.records[i].ended
         /\ PortsDiffer => \A d \in Directions : \/ board'.records[i][d] = board.records[i][d]
                                                 \/ board'.records[i][d] = conn[board.records[i].conn][d].n
<1>1. /\ Len(board'.records) = Len(board.records)
      /\ BatchRow(board.records[i], board'.records[i], registry.relays, bytes)
  BY DEF SampledNow, BatchList
<1>2. PICK p : p = board.records[i].port
  OBVIOUS
<1>3. PICK c \in Conns : c = board.records[i].conn
  BY RowsAre
<1>4. conn[c].port = p /\ p # 0
  BY <1>2, <1>3 DEF RowInv, WorkerInv, WorkerOK
<1>5. ASSUME PortsDiffer, p \in DOMAIN registry.relays
      PROVE  registry.relays[p].conn = c
  BY <1>4, <1>5 DEF PortsDiffer, SampledNow
<1>6. ASSUME PortsDiffer, NEW d \in Directions
      PROVE  \/ board'.records[i][d] = board.records[i][d]
             \/ board'.records[i][d] = conn[board.records[i].conn][d].n
  <2>1. CASE board'.records[i].c2s = board.records[i].c2s /\ board'.records[i].s2c = board.records[i].s2c
    BY <2>1 DEF Directions
  <2>2. CASE /\ p \in DOMAIN registry.relays
             /\ board'.records[i].c2s = bytes[registry.relays[p].conn].c2s
             /\ board'.records[i].s2c = bytes[registry.relays[p].conn].s2c
    <3>1. registry.relays[p].conn = c
      BY <1>5, <1>6, <2>2
    <3>2. bytes[c].c2s = conn[c].c2s.n /\ bytes[c].s2c = conn[c].s2c.n
      BY <2>2, <3>1 DEF SampledNow
    <3> QED BY <1>3, <2>2, <3>1, <3>2 DEF Directions
  <2> QED BY <1>1, <1>2, <2>1, <2>2 DEF BatchRow
<1> QED BY <1>1, <1>6 DEF BatchRow

LEMMA BoardSamples ==
  ASSUME WorkerInv, InOrderNow, RegistryInv, BoardInv, UNCHANGED conn, Sample([c \in Conns |-> Bytes(c)])
  PROVE  BoardInv'
<1>1. EventInv /\ RowInv /\ ShareInv /\ OwnInv /\ setting'.events = setting.events
      /\ setting'.ports = setting.ports
  BY DEF BoardInv, InOrderNow, SameSettings
<1>2. PICK bytes : SampledNow(bytes)
  BY <1>1, SampleIs
<1>3. /\ queue' = queue /\ conn' = conn /\ receiver' \in {"idle", "empty"} /\ BoardOK(board')
      /\ board'.active = board.active /\ Len(board'.records) = Len(board.records)
      /\ board'.records \in Seq(Rows) /\ board.records \in Seq(Rows) /\ Len(board.records) \in Nat
  BY <1>1, <1>2 DEF SampledNow, BatchList, EventInv, BoardOK
<1>4. \A i \in 1..Len(board.records) :
        /\ board'.records[i].port = board.records[i].port /\ board'.records[i].conn = board.records[i].conn
        /\ IsActive(board'.records[i]) <=> IsActive(board.records[i])
  BY <1>1, <1>2, SampledRow DEF IsActive
<1>5. EventInv'
  <2>1. Shown' = Shown
    BY <1>3 DEF Shown
  <2>2. ~setting.events => board'.records = <<>>
    <3> HAVE ~setting.events
    <3>1. Len(board.records) = 0
      BY <1>1 DEF EventInv
    <3> QED BY <1>3, <3>1, EmptySeq
  <2>3. /\ queue \in Seq(Events) /\ Ordered(queue) /\ (~setting.events => queue = <<>>)
        /\ \A i \in 1..Len(queue) : Truthful(queue[i], conn[queue[i].conn])
        /\ \A c \in Conns : HasEnded(conn[c]) /\ Waits(queue, c, AllKinds) => Waits(queue, c, Terminal)
        /\ setting.events => board.active = Cardinality(Shown)
    BY <1>1 DEF EventInv
  <2> QED BY <1>1, <1>3, <2>1, <2>2, <2>3 DEF EventInv
<1>6. RowInv'
  BY <1>1, <1>3, <1>4 DEF RowInv
<1>7. ShareInv'
  <2>1. PortsDiffer' <=> PortsDiffer
    BY <1>3 DEF PortsDiffer
  <2> SUFFICES ASSUME PortsDiffer, NEW r \in 1..Len(board.records), NEW d \in Directions
               PROVE  board'.records[r][d] <= conn[board.records[r].conn][d].n
    BY <1>3, <1>4, <2>1 DEF ShareInv
  <2>2. board.records[r][d] <= conn[board.records[r].conn][d].n
    BY <1>1 DEF ShareInv
  <2>3. conn[board.records[r].conn][d].n \in Nat
    BY <1>1, RowsAre, CopiesNat
  <2>4. \/ board'.records[r][d] = board.records[r][d]
        \/ board'.records[r][d] = conn[board.records[r].conn][d].n
    BY <1>1, <1>2, SampledRow
  <2> QED BY <2>2, <2>3, <2>4
<1>8. OwnInv'
  <2>1. \A c, p : Heads(board'.records, c, p) <=> Heads(board.records, c, p)
    <3>1. \A r \in 1..Len(board.records) : \A i \in 1..(r - 1) : i \in 1..Len(board.records)
      BY <1>3
    <3>2. \A r \in 1..Len(board.records) : \A i \in 1..(r - 1) : board'.records[i].port = board.records[i].port
      BY <1>4, <3>1
    <3>3. Len(board'.records) = Len(board.records)
      BY <1>3
    <3> QED BY SMTT(30), <1>4, <3>2, <3>3 DEF Heads
  <2>2. \A c, p, k : Finds(queue, board'.records, c, p, k) <=> Finds(queue, board.records, c, p, k)
    BY <2>1 DEF Finds
  <2>3. \A r \in 1..Len(board.records) :
          Follows(queue, board.records[r], conn[board.records[r].conn]) =>
          Follows(queue, board'.records[r], conn[board'.records[r].conn])
    BY <1>4 DEF Follows
  <2> QED BY <1>1, <1>3, <2>2, <2>3 DEF OwnInv
<1> QED BY <1>5, <1>6, <1>7, <1>8 DEF BoardInv

LEMMA BoardKeeps ==
  ASSUME WorkerInv, RegistryInv, BoardInv, InOrderNow, OneKind
  PROVE  BoardInv'
<1>1. EventInv
  BY DEF BoardInv
<1>2. ShowKinds
  BY <1>1, ShowIs
<1>3. ASSUME NEW c \in Conns, NEW e \in Events, Sends(c, e) PROVE BoardInv'
  BY <1>1, <1>3, SendEvents, SendRows, SendOwn DEF BoardInv
<1> QED BY <1>1, <1>2, <1>3, BoardDeaf, BoardStays, BoardReads, BoardSamples DEF ShowKinds

(***************************************************************************)
(* The totals of the header.                                               *)
(***************************************************************************)
Live(rows) == {i \in 1..Len(rows) : ~rows[i].ended}
Column(rows, d) == [i \in 1..Len(rows) |-> rows[i][d]]
LiveSum(rows, d) == SumFunctionOnSet(Column(rows, d), Live(rows))
Ended(b, d) == IF d = "c2s" THEN b.total_c2s ELSE b.total_s2c
TotalOf(b, d) == Ended(b, d) + LiveSum(b.records, d)

LEMMA LiveIs ==
  ASSUME NEW rows \in Seq(Rows), NEW d \in Directions
  PROVE  /\ IsFiniteSet(Live(rows)) /\ Len(rows) \in Nat /\ LiveSum(rows, d) \in Nat
         /\ \A i \in 1..Len(rows) : Column(rows, d)[i] = rows[i][d] /\ rows[i][d] \in Nat
         /\ \A i \in Live(rows) : i \in 1..Len(rows) /\ ~rows[i].ended
<1>1. Len(rows) \in Nat /\ \A i \in 1..Len(rows) : rows[i] \in Rows
  OBVIOUS
<1>2. \A i \in 1..Len(rows) : Column(rows, d)[i] = rows[i][d] /\ rows[i][d] \in Nat
  BY <1>1 DEF Column, Rows, Directions
<1>3. \A i \in Live(rows) : i \in 1..Len(rows) /\ ~rows[i].ended
  BY DEF Live
<1>4. IsFiniteSet(Live(rows))
  <2>1. Live(rows) \in SUBSET (1..Len(rows))
    BY DEF Live
  <2>2. IsFiniteSet(1..Len(rows))
    BY <1>1, FS_Interval
  <2> QED BY <2>1, <2>2, FS_Subset
<1>5. \A i \in Live(rows) : Column(rows, d)[i] \in Nat
  BY <1>2, <1>3
<1>6. LiveSum(rows, d) \in Nat
  BY <1>4, <1>5, SumsEqual DEF LiveSum
<1> QED BY <1>1, <1>2, <1>3, <1>4, <1>6

LEMMA TotalIs ==
  ASSUME NEW d \in Directions, board.records \in Seq(Rows)
  PROVE  LiveTotal(d) = TotalOf(board, d)
<1>1. DOMAIN board.records = 1..Len(board.records)
  OBVIOUS
<1> QED BY <1>1 DEF LiveTotal, TotalOf, Ended, LiveSum, Live, Column

LEMMA TotalIsNow ==
  ASSUME NEW d \in Directions, board'.records \in Seq(Rows)
  PROVE  LiveTotal(d)' = TotalOf(board', d)
<1>1. DOMAIN board'.records = 1..Len(board'.records)
  OBVIOUS
<1> QED BY <1>1 DEF LiveTotal, TotalOf, Ended, LiveSum, Live, Column

\* The rows that are pruned had ended.
LEMMA ThinSums ==
  ASSUME NEW s \in Seq(Rows), NEW t, NEW f, Thinned(s, t, f), NEW d \in Directions
  PROVE  LiveSum(t, d) = LiveSum(s, d)
<1>1. t \in Seq(Rows) /\ f \in [1..Len(t) -> 1..Len(s)] /\ Len(s) \in Nat
  BY DEF Thinned
<1>2. /\ \A i \in Live(t) : i \in 1..Len(t) /\ ~t[i].ended
      /\ \A i \in 1..Len(t) : Column(t, d)[i] = t[i][d] /\ t[i][d] \in Nat
      /\ IsFiniteSet(Live(t))
  BY <1>1, LiveIs
<1>3. /\ \A i \in Live(s) : i \in 1..Len(s) /\ ~s[i].ended
      /\ \A i \in 1..Len(s) : Column(s, d)[i] = s[i][d]
  BY LiveIs
<1>4. \A i \in 1..Len(t) : f[i] \in 1..Len(s) /\ t[i] = s[f[i]]
  BY <1>1 DEF Thinned
<1>5. \A i, j \in Live(t) : f[i] = f[j] => i = j
  <2> SUFFICES ASSUME NEW i \in Live(t), NEW j \in Live(t), f[i] = f[j] PROVE i = j
    OBVIOUS
  <2>1. i \in 1..Len(t) /\ j \in 1..Len(t) /\ f[i] \in 1..Len(s) /\ f[j] \in 1..Len(s)
    BY <1>2, <1>4
  <2>2. (i < j => f[i] < f[j]) /\ (j < i => f[j] < f[i])
    BY <2>1 DEF Thinned
  <2> QED BY <1>1, <2>1, <2>2
<1>6. \A i \in Live(t) : Column(t, d)[i] \in Nat /\ Column(s, d)[f[i]] = Column(t, d)[i]
  BY <1>2, <1>3, <1>4
<1>7. SumFunctionOnSet(Column(t, d), Live(t)) = SumFunctionOnSet(Column(s, d), {f[i] : i \in Live(t)})
  <2> DEFINE A == Column(t, d)
             B == Column(s, d)
             L == Live(t)
  <2>1. /\ IsFiniteSet(L) /\ (\A i \in L : A[i] \in Nat /\ B[f[i]] = A[i])
        /\ \A i, j \in L : f[i] = f[j] => i = j
    BY <1>2, <1>5, <1>6
  <2> HIDE DEF A, B, L
  <2>2. SumFunctionOnSet(A, L) = SumFunctionOnSet(B, {f[i] : i \in L})
    BY <2>1, SumRenames
  <2> QED BY <2>2 DEF A, B, L
<1>8. {f[i] : i \in Live(t)} = Live(s)
  <2>1. \A i \in Live(t) : f[i] \in Live(s)
    BY <1>2, <1>4 DEF Live
  <2>2. ASSUME NEW j \in Live(s) PROVE \E i \in Live(t) : f[i] = j
    <3>1. IsActive(s[j])
      <4>1. s[j] \in Rows /\ ~s[j].ended
        BY <1>3
      <4> QED BY <4>1 DEF Rows
    <3>2. PICK i \in 1..Len(t) : f[i] = j
      BY <1>3, <3>1 DEF Thinned
    <3>3. i \in Live(t)
      BY <1>3, <1>4, <3>2 DEF Live
    <3> QED BY <3>2, <3>3
  <2> QED BY <2>1, <2>2
<1> QED BY <1>7, <1>8 DEF LiveSum

LEMMA AddSums ==
  ASSUME NEW rows \in Seq(Rows), NEW s, NEW e, AddList(rows, s, e), NEW d \in Directions
  PROVE  LiveSum(s, d) = LiveSum(rows, d)
<1>1. /\ s \in Seq(Rows) /\ Len(s) = Len(rows) + 1 /\ ~s[1].ended /\ s[1][d] = 0 /\ Len(rows) \in Nat
      /\ \A i \in 1..Len(rows) : s[i + 1] = rows[i]
  BY DEF AddList, IsNew, Directions
<1>2. /\ \A i \in Live(rows) : i \in 1..Len(rows) /\ ~rows[i].ended
      /\ \A i \in 1..Len(rows) : Column(rows, d)[i] = rows[i][d] /\ rows[i][d] \in Nat
      /\ IsFiniteSet(Live(rows))
  BY LiveIs
<1>3. /\ \A i \in Live(s) : i \in 1..Len(s) /\ ~s[i].ended
      /\ \A i \in 1..Len(s) : Column(s, d)[i] = s[i][d] /\ s[i][d] \in Nat
      /\ IsFiniteSet(Live(s)) /\ LiveSum(s, d) \in Nat
  BY <1>1, LiveIs
<1> DEFINE f == [i \in 1..Len(rows) |-> i + 1]
           I == {f[i] : i \in Live(rows)}
<1>4. \A i \in 1..Len(rows) : f[i] = i + 1 /\ f[i] \in 1..Len(s) /\ f[i] # 1 /\ s[f[i]] = rows[i]
  BY <1>1
<1>5. \A i, j \in Live(rows) : f[i] = f[j] => i = j
  BY <1>1, <1>2
<1> HIDE DEF f
<1>6. \A i \in Live(rows) : Column(rows, d)[i] \in Nat /\ Column(s, d)[f[i]] = Column(rows, d)[i]
  BY <1>2, <1>3, <1>4
<1>7. SumFunctionOnSet(Column(rows, d), Live(rows)) = SumFunctionOnSet(Column(s, d), I)
  <2> DEFINE A == Column(rows, d)
             B == Column(s, d)
             L == Live(rows)
  <2>1. /\ IsFiniteSet(L) /\ (\A i \in L : A[i] \in Nat /\ B[f[i]] = A[i])
        /\ \A i, j \in L : f[i] = f[j] => i = j
    BY <1>2, <1>5, <1>6
  <2> HIDE DEF A, B, L
  <2>2. SumFunctionOnSet(A, L) = SumFunctionOnSet(B, {f[i] : i \in L})
    BY <2>1, SumRenames
  <2> QED BY <2>2 DEF A, B, L
<1>8. 1 \in Live(s) /\ Column(s, d)[1] = 0
  <2>1. 1 \in 1..Len(s)
    BY <1>1
  <2> QED BY <1>1, <1>3, <2>1 DEF Live
<1>9. Live(s) \ {1} = I
  <2>1. \A i \in Live(rows) : f[i] \in Live(s) \ {1}
    BY <1>2, <1>4 DEF Live
  <2>2. ASSUME NEW j \in Live(s) \ {1} PROVE j \in I
    <3>1. j - 1 \in 1..Len(rows) /\ (j - 1) + 1 = j
      BY <1>1, <1>3
    <3>2. f[j - 1] = j /\ s[j] = rows[j - 1]
      BY <1>4, <3>1
    <3>3. j - 1 \in Live(rows)
      BY <1>3, <3>1, <3>2 DEF Live
    <3> QED BY <3>2, <3>3
  <2> QED BY <2>1, <2>2
<1> HIDE DEF I
<1>10. SumFunctionOnSet(Column(s, d), Live(s)) = Column(s, d)[1] + SumFunctionOnSet(Column(s, d), Live(s) \ {1})
  BY SMTT(30), <1>3, <1>8, SumSplits
<1>11. LiveSum(s, d) = 0 + LiveSum(rows, d)
  BY <1>7, <1>8, <1>9, <1>10 DEF LiveSum
<1>12. LiveSum(rows, d) \in Nat
  BY LiveIs
<1> QED BY <1>11, <1>12

\* One row is set: when it ends, what it showed is at most x.
LEMMA SetSums ==
  ASSUME NEW rows \in Seq(Rows), NEW s \in Seq(Rows), Len(s) = Len(rows), NEW d \in Directions, NEW x \in Nat,
         NEW r, \A i \in 1..Len(rows) : i # r => s[i] = rows[i],
         r \in 1..Len(rows) /\ s[r].ended /\ ~rows[r].ended => rows[r][d] <= x,
         r \in 1..Len(rows) /\ ~s[r].ended => ~rows[r].ended /\ s[r][d] = rows[r][d]
  PROVE  LiveSum(rows, d) <= LiveSum(s, d) + x
<1>1. /\ \A i \in Live(rows) : i \in 1..Len(rows) /\ ~rows[i].ended
      /\ \A i \in 1..Len(rows) : Column(rows, d)[i] = rows[i][d] /\ rows[i][d] \in Nat
      /\ IsFiniteSet(Live(rows)) /\ LiveSum(rows, d) \in Nat
  BY LiveIs
<1>2. /\ \A i \in Live(s) : i \in 1..Len(s) /\ ~s[i].ended
      /\ \A i \in 1..Len(s) : Column(s, d)[i] = s[i][d] /\ s[i][d] \in Nat
      /\ IsFiniteSet(Live(s)) /\ LiveSum(s, d) \in Nat
  BY LiveIs
<1>3. \A i \in Live(s) : s[i][d] = rows[i][d] /\ i \in Live(rows)
  <2> SUFFICES ASSUME NEW i \in Live(s) PROVE s[i][d] = rows[i][d] /\ i \in Live(rows)
    OBVIOUS
  <2>1. i \in 1..Len(rows) /\ ~s[i].ended
    BY <1>2
  <2>2. CASE i = r
    BY <2>1, <2>2 DEF Live
  <2>3. CASE i # r
    <3>1. s[i] = rows[i]
      BY <2>1, <2>3
    <3> QED BY <2>1, <3>1 DEF Live
  <2> QED BY <2>2, <2>3
<1>4. \A i \in Live(rows) : i # r => i \in Live(s)
  BY <1>1 DEF Live
<1>5. \A i \in Live(s) : Column(s, d)[i] \in Nat /\ Column(rows, d)[i] = Column(s, d)[i]
  BY <1>1, <1>2, <1>3
<1>6. SumFunctionOnSet(Column(s, d), Live(s)) = SumFunctionOnSet(Column(rows, d), Live(s))
  BY <1>2, <1>5, SumsEqual
<1>7. CASE r \notin Live(rows) \/ r \in Live(s)
  <2>1. Live(rows) = Live(s)
    BY <1>3, <1>4, <1>7
  <2>2. LiveSum(rows, d) = LiveSum(s, d)
    BY <1>6, <2>1 DEF LiveSum
  <2> QED BY <1>1, <1>2, <2>2
<1>8. CASE r \in Live(rows) /\ r \notin Live(s)
  <2>1. Live(rows) \ {r} = Live(s)
    BY <1>3, <1>4, <1>8
  <2>2. \A i \in Live(rows) : Column(rows, d)[i] \in Nat
    BY <1>1
  <2>3. SumFunctionOnSet(Column(rows, d), Live(rows))
        = Column(rows, d)[r] + SumFunctionOnSet(Column(rows, d), Live(rows) \ {r})
    <3> DEFINE A == Column(rows, d)
               L == Live(rows)
    <3>1. IsFiniteSet(L) /\ r \in L /\ \A i \in L : A[i] \in Nat
      BY <1>1, <1>8, <2>2
    <3> HIDE DEF A, L
    <3>2. SumFunctionOnSet(A, L) = A[r] + SumFunctionOnSet(A, L \ {r})
      BY <3>1, SumSplits
    <3> QED BY <3>2 DEF A, L
  <2>4. LiveSum(rows, d) = rows[r][d] + LiveSum(s, d)
    BY <1>1, <1>6, <1>8, <2>1, <2>3 DEF LiveSum
  <2>5. r \in 1..Len(rows) /\ s[r].ended /\ ~rows[r].ended
    BY <1>1, <1>8 DEF Live
  <2>6. rows[r][d] <= x /\ rows[r][d] \in Nat
    BY <1>1, <2>5
  <2> QED BY <1>2, <2>4, <2>6
<1> QED BY <1>7, <1>8

LEMMA ReadTotals ==
  ASSUME WorkerInv, EventInv, RowInv, ShareInv, PortsDiffer, NEW d \in Directions,
         NEW c \in Conns, NEW e \in Events, NEW s, NEW f, ReadNow(c, e, s, f)
  PROVE  TotalOf(board, d) <= TotalOf(board', d)
<1> DEFINE rows == board.records
<1>1. /\ Applies(board, board', e, s, f) /\ Thinned(s, board'.records, f) /\ s \in Seq(Rows)
      /\ rows \in Seq(Rows) /\ Truthful(e, conn[c]) /\ e.type \in AllKinds
      /\ board.total_c2s \in Nat /\ board.total_s2c \in Nat
  BY DEF ReadNow, Applies, EventInv, BoardOK
<1>2. LiveSum(board'.records, d) = LiveSum(s, d)
  BY <1>1, ThinSums
<1>3. LiveSum(rows, d) \in Nat /\ LiveSum(s, d) \in Nat /\ Ended(board, d) \in Nat
  BY <1>1, LiveIs DEF Ended
<1>4. SUFFICES ASSUME NEW x \in Nat, Ended(board', d) = Ended(board, d) + x,
                      LiveSum(rows, d) <= LiveSum(s, d) + x
               PROVE  TotalOf(board, d) <= TotalOf(board', d)
  <2>1. CASE e.type \in Accepted
    <3>1. AddList(rows, s, e) /\ Ended(board', d) = Ended(board, d)
      BY <1>1, <2>1 DEF Applies, Accepted, Ended
    <3>2. LiveSum(s, d) = LiveSum(rows, d)
      BY <1>1, <3>1, AddSums
    <3>3. 0 \in Nat /\ Ended(board', d) = Ended(board, d) + 0 /\ LiveSum(rows, d) <= LiveSum(s, d) + 0
      BY <1>3, <3>1, <3>2
    <3> QED BY <1>4, <3>3
  <2>2. CASE e.type \notin Accepted
    <3> DEFINE x == IF e.type = "RelayFinished" THEN conn[c][d].n ELSE 0
    <3>1. x \in Nat /\ Ended(board', d) = Ended(board, d) + x
      <4>1. CASE e.type = "RelayFinished"
        <5>1. board'.total_c2s = board.total_c2s + conn[c].c2s.n /\ board'.total_s2c = board.total_s2c + conn[c].s2c.n
          BY <1>1, <4>1 DEF Applies, Truthful
        <5> QED BY <4>1, <5>1, CopiesNat DEF Ended, Directions
      <4>2. CASE e.type # "RelayFinished"
        BY <1>1, <1>3, <4>2 DEF Applies, Ended
      <4> QED BY <4>1, <4>2
    <3>2. SetList(rows, s, e) /\ Len(s) = Len(rows)
      BY <1>1, <2>2 DEF Applies, SetList
    <3>3. PICK r : IF FindRecord(rows, e.port) = {} THEN r = 0 ELSE r \in FindRecord(rows, e.port)
      OBVIOUS
    <3>4. Len(rows) \in Nat /\ DOMAIN rows = 1..Len(rows)
      BY <1>1
    <3>5. ASSUME NEW i \in 1..Len(rows), i # r PROVE s[i] = rows[i]
      <4>1. i \notin FindRecord(rows, e.port)
        <5> SUFFICES ASSUME i \in FindRecord(rows, e.port) PROVE FALSE
          OBVIOUS
        <5>1. r \in FindRecord(rows, e.port)
          BY <3>3
        <5>2. i <= r /\ r <= i /\ r \in 1..Len(rows)
          BY <3>4, <5>1 DEF FindRecord
        <5> QED BY <3>5, <5>2
      <4> QED BY <3>2, <4>1 DEF SetList
    <3>6. ASSUME r \in 1..Len(rows)
          PROVE  /\ s[r].ended /\ ~rows[r].ended => rows[r][d] <= x
                 /\ ~s[r].ended => ~rows[r].ended /\ s[r][d] = rows[r][d]
      <4>1. r \in FindRecord(rows, e.port)
        BY <3>3, <3>6
      <4>2. RowEffect(rows[r], s[r], e) /\ rows[r].port = e.port
        BY <3>2, <3>6, <4>1 DEF SetList, FindRecord
      <4>3. PICK a \in Conns : a = rows[r].conn
        BY <3>6, RowsAre
      <4>4. conn[a].port = conn[c].port /\ conn[c].port # 0
        BY <1>1, <3>6, <4>2, <4>3 DEF Truthful, RowInv, ReadNow, WorkerInv, WorkerOK
      <4>5. a = c
        BY <4>4 DEF PortsDiffer
      <4>6. rows[r][d] <= conn[c][d].n
        BY <3>6, <4>3, <4>5 DEF ShareInv
      <4>7. CASE e.type = "RelayFinished"
        BY <4>2, <4>6, <4>7 DEF RowEffect
      <4>8. CASE e.type \in {"BypassFailed", "ConnectionError"}
        <5>1. conn[c].c2s.n = 0 /\ conn[c].s2c.n = 0
          BY <1>1, <4>8 DEF Truthful, WorkerInv, WorkerOK
        <5> QED BY <4>2, <4>6, <4>8, <5>1 DEF RowEffect, Directions
      <4>9. CASE e.type = "BypassComplete"
        <5>1. s[r].ended = rows[r].ended /\ s[r][d] = rows[r][d]
          BY <4>2, <4>9 DEF RowEffect, Directions
        <5> QED BY <5>1
      <4> QED BY <1>1, <2>2, <4>7, <4>8, <4>9 DEF AllKinds, Kinds, Accepted
    <3> HIDE DEF x
    <3>7. LiveSum(rows, d) <= LiveSum(s, d) + x
      BY <1>1, <3>1, <3>2, <3>5, <3>6, SetSums
    <3> QED BY <1>4, <3>1, <3>7
  <2> QED BY <2>1, <2>2
<1>5. TotalOf(board, d) = Ended(board, d) + LiveSum(rows, d)
  BY DEF TotalOf
<1>6. TotalOf(board', d) = Ended(board, d) + x + LiveSum(s, d)
  BY <1>2, <1>4 DEF TotalOf
<1> HIDE DEF rows
<1> QED BY <1>3, <1>4, <1>5, <1>6

LEMMA SampleTotals ==
  ASSUME WorkerInv, EventInv, RowInv, ShareInv, PortsDiffer, NEW d \in Directions,
         NEW bytes, SampledNow(bytes)
  PROVE  TotalOf(board, d) <= TotalOf(board', d)
<1> DEFINE A == Column(board.records, d)
           B == Column(board'.records, d)
           L == Live(board.records)
<1>1. /\ board.records \in Seq(Rows) /\ board'.records \in Seq(Rows)
      /\ Len(board'.records) = Len(board.records) /\ Ended(board', d) = Ended(board, d)
      /\ Ended(board, d) \in Nat
  BY DEF EventInv, BoardOK, SampledNow, BatchList, Ended
<1>2. /\ IsFiniteSet(L) /\ \A i \in L : i \in 1..Len(board.records)
      /\ \A i \in 1..Len(board.records) : A[i] = board.records[i][d] /\ A[i] \in Nat
  BY <1>1, LiveIs
<1>3. \A i \in 1..Len(board.records) : B[i] = board'.records[i][d] /\ B[i] \in Nat
  BY <1>1, LiveIs
<1>4. Live(board'.records) = L
  BY <1>1, SampledRow DEF Live
<1>5. ASSUME NEW i \in 1..Len(board.records) PROVE A[i] <= B[i]
  <2>1. board.records[i][d] <= conn[board.records[i].conn][d].n
    BY DEF ShareInv
  <2>2. \/ board'.records[i][d] = board.records[i][d]
        \/ board'.records[i][d] = conn[board.records[i].conn][d].n
    BY SampledRow
  <2> HIDE DEF A, B
  <2> QED BY <1>2, <1>3, <2>1, <2>2
<1> HIDE DEF A, B, L
<1>6. \A i \in L : A[i] \in Nat /\ B[i] \in Nat /\ A[i] <= B[i]
  BY <1>2, <1>3, <1>5
<1>7. /\ SumFunctionOnSet(A, L) \in Nat /\ SumFunctionOnSet(B, L) \in Nat
      /\ SumFunctionOnSet(A, L) <= SumFunctionOnSet(B, L)
  BY <1>2, <1>6, SumsCompare
<1>8. /\ TotalOf(board, d) = Ended(board, d) + SumFunctionOnSet(A, L)
      /\ TotalOf(board', d) = Ended(board, d) + SumFunctionOnSet(B, L)
  BY <1>1, <1>4 DEF TotalOf, LiveSum, A, B, L
<1> QED BY <1>1, <1>7, <1>8

LEMMA TotalsGrow ==
  ASSUME WorkerInv, RegistryInv, BoardInv, BoardInv', InOrderNow, OneKind, PortsDiffer', NEW d \in Directions
  PROVE  LiveTotal(d)' >= LiveTotal(d)
<1>1. EventInv /\ RowInv /\ ShareInv /\ EventInv'
  BY DEF BoardInv
<1>2. /\ board.records \in Seq(Rows) /\ board'.records \in Seq(Rows)
      /\ board.total_c2s \in Nat /\ board.total_s2c \in Nat
      /\ board'.total_c2s \in Nat /\ board'.total_s2c \in Nat
  BY <1>1 DEF EventInv, BoardOK
<1>3. LiveTotal(d) = TotalOf(board, d) /\ LiveTotal(d)' = TotalOf(board', d)
  BY <1>2, TotalIs, TotalIsNow
<1>4. TotalOf(board, d) \in Nat /\ TotalOf(board', d) \in Nat
  <2>1. LiveSum(board.records, d) \in Nat /\ LiveSum(board'.records, d) \in Nat
    BY <1>2, LiveIs
  <2>2. Ended(board, d) \in Nat /\ Ended(board', d) \in Nat
    BY <1>2 DEF Ended
  <2> QED BY <2>1, <2>2 DEF TotalOf
<1>5. SUFFICES TotalOf(board, d) <= TotalOf(board', d)
  BY <1>3, <1>4
<1>6. ShowKinds
  BY <1>1, ShowIs
<1>7. ASSUME board' = board PROVE TotalOf(board, d) <= TotalOf(board', d)
  BY <1>4, <1>7
<1>8. ASSUME UNCHANGED conn PROVE PortsDiffer
  BY <1>8 DEF PortsDiffer
<1>9. ASSUME UNCHANGED conn, Receive PROVE TotalOf(board, d) <= TotalOf(board', d)
  <2>1. PICK c \in Conns, e \in Events : \E s, f : ReadNow(c, e, s, f)
    BY <1>1, <1>9, ReadIs
  <2>2. PICK s, f : ReadNow(c, e, s, f)
    BY <2>1
  <2> QED BY <1>1, <1>8, <1>9, <2>2, ReadTotals
<1>10. ASSUME UNCHANGED conn, Sample([c \in Conns |-> Bytes(c)])
       PROVE  TotalOf(board, d) <= TotalOf(board', d)
  <2>1. PICK bytes : SampledNow(bytes)
    BY <1>1, <1>10, SampleIs
  <2> QED BY <1>1, <1>8, <1>10, <2>1, SampleTotals
<1>11. BoardQuiet \/ Deaf \/ (\E c \in Conns, e \in Events : Sends(c, e)) => board' = board
  BY DEF BoardQuiet, Deaf, Sends
<1> QED BY <1>6, <1>7, <1>9, <1>10, <1>11 DEF ShowKinds

(***************************************************************************)
(* What the dashboard counts as active.                                    *)
(***************************************************************************)
Waiting(kinds) == {c \in Conns : Waits(queue, c, kinds)}
Announced == {c \in Conns : "ConnectionAccepted" \in conn[c].told /\ conn[c].told \cap Terminal = {}}

LEMMA QueuedIs ==
  ASSUME EventInv, NEW kinds \in {Accepted, Terminal}
  PROVE  Queued(kinds) = Cardinality(Waiting(kinds))
<1> DEFINE P == {i \in DOMAIN queue : queue[i].type \in kinds}
           f == [i \in P |-> queue[i].conn]
<1>1. queue \in Seq(Events) /\ Ordered(queue) /\ Len(queue) \in Nat /\ DOMAIN queue = 1..Len(queue)
  BY DEF EventInv
<1>2. \A i \in P : i \in 1..Len(queue) /\ queue[i].type \in kinds /\ queue[i].conn \in Conns /\ f[i] = queue[i].conn
  BY <1>1, EventsAre
<1>3. IsFiniteSet(P)
  <2>1. P \in SUBSET (1..Len(queue)) /\ IsFiniteSet(1..Len(queue))
    BY <1>1, FS_Interval
  <2> QED BY <2>1, FS_Subset
<1>4. f \in [P -> Waiting(kinds)]
  BY <1>2 DEF Waiting, Waits
<1>5. ASSUME NEW i \in P, NEW j \in P, f[i] = f[j] PROVE i = j
  <2>1. ASSUME NEW a \in P, NEW b \in P, f[a] = f[b] PROVE ~(a < b)
    <3>1. a < b => queue[a].type \notin Terminal /\ queue[b].type \notin Accepted
      BY <1>1, <1>2, <2>1 DEF Ordered
    <3> QED BY <1>2, <3>1
  <2>2. ~(i < j) /\ ~(j < i)
    BY <1>5, <2>1
  <2>3. i \in Nat /\ j \in Nat
    BY <1>1, <1>2
  <2> QED BY <2>2, <2>3
<1>6. \A c \in Waiting(kinds) : \E i \in P : f[i] = c
  BY <1>1, <1>2 DEF Waiting, Waits
<1>7. Queued(kinds) = Cardinality(P)
  BY DEF Queued
<1> HIDE DEF P, f
<1>8. f \in Bijection(P, Waiting(kinds))
  BY <1>4, <1>5, <1>6 DEF Bijection, Injection, IsInjective, Surjection
<1>9. ExistsBijection(P, Waiting(kinds))
  BY <1>8 DEF ExistsBijection
<1> QED BY <1>3, <1>7, <1>9, FS_Bijection

LEMMA DisjointSum ==
  ASSUME NEW S \in SUBSET Conns, NEW T \in SUBSET Conns, S \cap T = {}
  PROVE  Cardinality(S \cup T) = Cardinality(S) + Cardinality(T)
<1>1. IsFiniteSet(S) /\ IsFiniteSet(T) /\ Cardinality(S) \in Nat /\ Cardinality(T) \in Nat
  BY SomeConns
<1>2. Cardinality(S \cup T) = Cardinality(S) + Cardinality(T) - Cardinality(S \cap T)
  BY <1>1, FS_Union
<1>3. Cardinality(S \cap T) = 0
  BY FS_EmptySet
<1> QED BY <1>1, <1>2, <1>3

LEMMA ActiveIs ==
  ASSUME WorkerInv, EventInv
  PROVE  ActiveAccounted
<1> SUFFICES ASSUME setting.events
             PROVE  board.active + Queued(Accepted) = Cardinality(Announced) + Queued(Terminal)
  BY DEF ActiveAccounted, Announced, Accepted
<1>1. board.active = Cardinality(Shown)
  BY DEF EventInv
<1>2. ASSUME NEW c \in Conns, NEW kinds, Waits(queue, c, kinds)
      PROVE  /\ conn[c].told \cap kinds # {} /\ "ConnectionAccepted" \in conn[c].told
             /\ HasEnded(conn[c]) => Waits(queue, c, Terminal)
  <2>1. PICK i \in 1..Len(queue) : queue[i].conn = c /\ queue[i].type \in kinds
    BY <1>2 DEF Waits
  <2>2. queue[i].type \in conn[c].told /\ queue[i].type \in AllKinds
    BY <2>1, EventsAre DEF Truthful
  <2>3. Waits(queue, c, AllKinds)
    BY <2>1, <2>2 DEF Waits
  <2>4. "ConnectionAccepted" \in conn[c].told
    BY <2>2 DEF WorkerInv, WorkerOK
  <2> QED BY <2>1, <2>2, <2>3, <2>4 DEF EventInv
<1>3. ASSUME NEW c \in Conns
      PROVE  /\ c \in Shown \cup Waiting(Accepted) <=> c \in Announced \cup Waiting(Terminal)
             /\ ~(c \in Shown /\ c \in Waiting(Accepted))
             /\ ~(c \in Announced /\ c \in Waiting(Terminal))
  <2>1. Waits(queue, c, Accepted) => /\ "ConnectionAccepted" \in conn[c].told
                                     /\ HasEnded(conn[c]) => Waits(queue, c, Terminal)
    BY <1>2
  <2>2. Waits(queue, c, Terminal) => "ConnectionAccepted" \in conn[c].told /\ HasEnded(conn[c])
    BY <1>2 DEF HasEnded
  <2>3. /\ c \in Shown <=> IsShown(queue, c, conn[c])
        /\ c \in Announced <=> "ConnectionAccepted" \in conn[c].told /\ ~HasEnded(conn[c])
        /\ \A kinds : c \in Waiting(kinds) <=> Waits(queue, c, kinds)
    BY DEF Shown, Announced, Waiting, HasEnded
  <2> QED BY <2>1, <2>2, <2>3 DEF IsShown
<1>4. /\ Shown \in SUBSET Conns /\ Announced \in SUBSET Conns
      /\ Waiting(Accepted) \in SUBSET Conns /\ Waiting(Terminal) \in SUBSET Conns
  BY DEF Shown, Announced, Waiting
<1>5. /\ Shown \cup Waiting(Accepted) = Announced \cup Waiting(Terminal)
      /\ Shown \cap Waiting(Accepted) = {} /\ Announced \cap Waiting(Terminal) = {}
  BY <1>3, <1>4
<1>6. /\ Cardinality(Shown \cup Waiting(Accepted)) = Cardinality(Shown) + Cardinality(Waiting(Accepted))
      /\ Cardinality(Announced \cup Waiting(Terminal)) = Cardinality(Announced) + Cardinality(Waiting(Terminal))
  BY <1>4, <1>5, DisjointSum
<1>7. Queued(Accepted) = Cardinality(Waiting(Accepted)) /\ Queued(Terminal) = Cardinality(Waiting(Terminal))
  BY QueuedIs
<1> QED BY <1>1, <1>5, <1>6, <1>7

(***************************************************************************)
(* The theorems.                                                           *)
(***************************************************************************)
\* The inductive invariant.
ProxyIndInv == /\ WorkerInv /\ PoolInv /\ Tallied /\ MonitorInv /\ RegistryInv /\ BoardInv

LEMMA ProxyTypes ==
  ASSUME ProxyIndInv
  PROVE  ProxyTypeOK /\ CompletedIsWhole
<1>1. WorkerInv /\ PoolInv /\ EventInv
  BY DEF ProxyIndInv, BoardInv
<1>2. /\ pool.members \in Seq(Entries) /\ Len(pool.members) # 0 /\ pool.cursor < Len(pool.members)
      /\ counters \in Seq(Counts) /\ Len(counters) = Len(pool.history)
  BY <1>1 DEF PoolInv, Kept, Listed
<1>3. /\ DOMAIN counters = 1..Len(pool.history) /\ pool.members # <<>>
      /\ \A i \in DOMAIN counters : counters[i].load \in Nat
  <2>1. \A i \in DOMAIN counters : counters[i] \in Counts
    BY <1>2
  <2>2. DOMAIN counters = 1..Len(pool.history)
    BY <1>2
  <2>3. pool.members # <<>>
    BY <1>2
  <2> QED BY <2>1, <2>2, <2>3 DEF Counts
<1>4. \A i \in DOMAIN pool.members :
        pool.members[i].key \in Targets /\ pool.members[i].ping \in Nat \cup {NoPing}
  <2>1. \A i \in DOMAIN pool.members : pool.members[i] \in Entries
    BY <1>2
  <2> QED BY <2>1 DEF Entries
<1>5. ASSUME NEW c \in Conns
      PROVE  conn[c].pc \in Pcs /\ (Leased(c) => conn[c].lease.counter \in DOMAIN counters)
  BY <1>1, <1>3 DEF WorkerInv, WorkerOK, PoolInv, Leased
<1>6. \A i \in DOMAIN board.records : board.records[i].status \in ConnStatuses
  <2>1. board.records \in Seq(Rows)
    BY <1>1 DEF EventInv, BoardOK
  <2>2. \A i \in DOMAIN board.records : board.records[i] \in Rows
    BY <2>1
  <2> QED BY <2>2 DEF Rows
<1>7. listener \in {"up", "down"} /\ receiver \in {"idle", "empty"}
  BY <1>1 DEF WorkerInv, EventInv
<1>8. ProxyTypeOK
  BY <1>2, <1>3, <1>4, <1>5, <1>6, <1>7 DEF ProxyTypeOK
<1>9. CompletedIsWhole
  BY <1>1 DEF CompletedIsWhole, Directions, WorkerInv, WorkerOK
<1> QED BY <1>8, <1>9

LEMMA InvHolds ==
  ASSUME ProxyIndInv
  PROVE  ProxyInv
<1>1. /\ WorkerInv /\ PoolInv /\ Tallied /\ RegistryInv /\ EventInv /\ Kept(pool, counters)
  BY DEF ProxyIndInv, BoardInv, PoolInv
<1>2. LoadIsLeases /\ TrafficIsRelayed
  BY <1>1, TalliedIs
<1>3. HistoryAgrees /\ RegistryIsLive /\ ActiveAccounted
  BY <1>1, HistoryIs, RegistryLive, ActiveIs
<1> QED BY <1>2, <1>3, ProxyTypes DEF ProxyInv

LEMMA RowsHold ==
  ASSUME ProxyIndInv
  PROVE  RowsFollow
<1>1. EventInv /\ OwnInv
  BY DEF ProxyIndInv, BoardInv
<1>2. /\ DOMAIN board.records = 1..Len(board.records) /\ DOMAIN queue = 1..Len(queue)
  BY <1>1 DEF EventInv, BoardOK
<1>3. CASE ~setting.events
  BY <1>1, <1>3 DEF EventInv, RowsFollow, PortIdentifies
<1>4. CASE setting.events
  <2> SUFFICES ASSUME setting.ports = "unique" PROVE PortIdentifies
    BY DEF RowsFollow
  <2>1. \A r \in 1..Len(board.records) :
          Follows(queue, board.records[r], conn[board.records[r].conn])
    BY <1>1, <1>4 DEF OwnInv
  <2> QED BY <1>2, <2>1 DEF PortIdentifies, Follows, HasEnded, Waits
<1> QED BY <1>3, <1>4

LEMMA InitSetting ==
  ASSUME NEW s \in Scenarios
  PROVE  /\ s \in Settings /\ s.strategy \in Strategies /\ s.targets \in Seq(Candidates) /\ s.targets # <<>>
         /\ {"mode", "events", "ports", "found", "available", "lifetime"} \subseteq DOMAIN s
         /\ s.events \in BOOLEAN /\ s.available \subseteq Nat \ {0} /\ s.found \subseteq Seq(Candidates)
BY ProxyAssumption DEF Settings

LEMMA InitWorker == WorkerOK(NewConn)
<1>1. NewCopy \in Copies /\ NewCopy.n = 0 /\ ~NewCopy.held /\ ~NewCopy.done
  BY DEF NewCopy, Copies
<1>2. /\ DOMAIN NewConn = WorkerFields /\ NewConn.pc = "idle" /\ NewConn.port = 0
      /\ NewConn.generation = 0 /\ NewConn.c2s = NewCopy /\ NewConn.s2c = NewCopy
      /\ NewConn.reason = "none" /\ NewConn.told = {}
  BY DEF NewConn, WorkerFields
<1> QED BY <1>1, <1>2 DEF WorkerOK, Pcs

LEMMA InitPool ==
  ASSUME NEW strategy \in Strategies, NEW ts \in Seq(Candidates), PoolInit(strategy, ts)
  PROVE  /\ Kept(pool, counters) /\ Listed(pool)
         /\ \A i \in 1..Len(counters) : counters[i] = NewCounter
<1> DEFINE p == EmptyPool(strategy)
<1>1. Kept(p, <<>>) /\ Len(<<>>) = 0
  BY DEF EmptyPool, Kept, IsRecord, PoolFields
<1>2. ts # <<>>
  BY DEF PoolInit
<1>3. LET r == Replaced(p, <<>>, ts) IN
      /\ Kept(r.pool, r.counters) /\ Listed(r.pool)
      /\ \A i \in (Len(<<>>) + 1)..Len(r.counters) : r.counters[i] = NewCounter
  BY <1>1, <1>2, ReplacedIs
<1>4. pool = Replaced(p, <<>>, ts).pool /\ counters = Replaced(p, <<>>, ts).counters
  BY DEF PoolInit
<1> HIDE DEF p
<1>5. \A i \in (0 + 1)..Len(counters) : counters[i] = NewCounter
  BY <1>1, <1>3, <1>4
<1> QED BY <1>3, <1>4, <1>5

LEMMA InitTally ==
  ASSUME Kept(pool, counters), \A i \in 1..Len(counters) : counters[i] = NewCounter,
         conn = [c \in Conns |-> NewConn]
  PROVE  Tallied
<1>1. \A c \in Conns : conn[c].pc = "idle" /\ conn[c].c2s.n = 0 /\ conn[c].s2c.n = 0
  BY DEF NewConn, NewCopy
<1>2. Len(counters) = Len(pool.history)
  BY DEF Kept
<1>3. ASSUME NEW i \in 1..Len(pool.history)
      PROVE  /\ counters[i].load = Cardinality(Holders(i))
             /\ \A d \in Directions : counters[i][d] = CopiedAll(i, d)
  <2>1. counters[i].load = 0 /\ \A d \in Directions : counters[i][d] = 0
    BY <1>2 DEF NewCounter, Directions
  <2>2. Holders(i) = {}
    BY <1>1 DEF Holders
  <2>3. Cardinality(Holders(i)) = 0
    BY <2>2, FS_EmptySet
  <2>4. ASSUME NEW d \in Directions PROVE CopiedAll(i, d) = 0
    <3>1. \A c \in Conns : Copied(i, d)[c] = 0
      BY <1>1 DEF Copied, Directions
    <3> QED BY <3>1, ConnsFinite, SumOfZeros DEF CopiedAll
  <2> QED BY <2>1, <2>3, <2>4
<1> QED BY <1>3 DEF Tallied

LEMMA InitBoard ==
  ASSUME BoardInit, conn = [c \in Conns |-> NewConn]
  PROVE  BoardInv
<1>1. /\ queue = <<>> /\ receiver = "idle" /\ board.records = <<>> /\ board.active = 0
      /\ board.total_c2s = 0 /\ board.total_s2c = 0 /\ IsRecord(board, BoardFields)
  BY DEF BoardInit, BoardFields, IsRecord
<1>2. \A c \in Conns : conn[c].told = {} /\ conn[c].port = 0
  BY DEF NewConn
<1>3. Len(queue) = 0 /\ Len(board.records) = 0
  BY <1>1
<1>4. BoardOK(board) /\ queue \in Seq(Events)
  BY <1>1 DEF BoardOK
<1>5. Ordered(queue) /\ \A c, kinds : ~Waits(queue, c, kinds)
  BY <1>3 DEF Ordered, Waits
<1>6. Shown = {}
  BY <1>2 DEF Shown, IsShown
<1>7. Cardinality(Shown) = 0
  BY <1>6, FS_EmptySet
<1>8. EventInv
  BY <1>1, <1>3, <1>4, <1>5, <1>7 DEF EventInv
<1>9. RowInv /\ ShareInv
  BY <1>3 DEF RowInv, ShareInv
<1>10. OwnInv
  BY <1>2, <1>3 DEF OwnInv
<1> QED BY <1>8, <1>9, <1>10 DEF BoardInv

LEMMA InitOK ==
  ASSUME Init
  PROVE  ProxyIndInv
<1>1. PICK s \in Scenarios :
        /\ setting = s /\ PoolInit(s.strategy, s.targets) /\ BoardInit /\ listener = "up"
        /\ conn = [c \in Conns |-> NewConn] /\ binding = 0
        /\ monitor = [MonitorOff EXCEPT !.pc = IF s.strategy = "LeastPing" THEN "snapshot" ELSE "off"]
  BY DEF Init
<1>2. \A c \in Conns : conn[c] = NewConn
  BY <1>1
<1>3. WorkerInv
  BY <1>1, <1>2, InitSetting, InitWorker DEF WorkerInv, SettingOK
<1>4. /\ Kept(pool, counters) /\ Listed(pool)
      /\ \A i \in 1..Len(counters) : counters[i] = NewCounter
  BY <1>1, InitSetting, InitPool
<1>5. PoolInv
  BY <1>2, <1>4 DEF PoolInv, NewConn
<1>6. Tallied
  BY <1>1, <1>4, InitTally
<1>7. MonitorInv
  <2>1. pool.generation \in Nat
    BY <1>4 DEF Kept
  <2>2. /\ DOMAIN monitor = MonitorFields /\ monitor.pc \in {"off", "snapshot"} /\ monitor.generation = 0
        /\ monitor.revision = 0 /\ monitor.stale = {} /\ binding = 0
        /\ monitor = [x \in MonitorFields |-> monitor[x]]
    BY <1>1 DEF MonitorOff, MonitorFields
  <2> QED BY <2>1, <2>2 DEF MonitorInv, MonitorFields, IsRecord
<1>8. RegistryInv
  <2>1. /\ IsRecord(registry, {"generation", "relays"}) /\ registry.generation = 0
        /\ DOMAIN registry.relays = {}
    BY <1>1 DEF BoardInit, IsRecord
  <2>2. \A c \in Conns : conn[c].generation = 0 /\ conn[c].pc = "idle"
    BY <1>2 DEF NewConn
  <2> QED BY <2>1, <2>2 DEF RegistryInv
<1>9. BoardInv
  BY <1>1, InitBoard
<1> QED BY <1>3, <1>5, <1>6, <1>7, <1>8, <1>9 DEF ProxyIndInv

LEMMA StepOK ==
  ASSUME ProxyIndInv, [Next]_vars
  PROVE  ProxyIndInv' /\ InOrderNow /\ OneKind
<1>1. WorkerInv /\ PoolInv /\ Tallied /\ MonitorInv /\ RegistryInv /\ BoardInv
  BY DEF ProxyIndInv
<1>2. InOrderNow /\ OneKind
  BY <1>1, NextIs DEF RegistryInv
<1>3. WorkerInv' /\ SameSettings
  BY <1>2 DEF InOrderNow
<1>4. PoolInv' /\ Tallied'
  BY <1>1, <1>2, PoolKeeps
<1>5. MonitorInv'
  BY <1>1, MonitorKeeps DEF WorkerInv
<1>6. RegistryInv'
  BY <1>1, <1>2, <1>3, RegistryKeeps
<1>7. BoardInv'
  BY <1>1, <1>2, BoardKeeps
<1> QED BY <1>2, <1>3, <1>4, <1>5, <1>6, <1>7 DEF ProxyIndInv

\* Nothing that is shown goes back.
LEMMA StepMovesOn ==
  ASSUME ProxyIndInv, ProxyIndInv', [Next]_vars
  PROVE  [/\ MonitorJoin /\ monitor.stale # {} => UNCHANGED poolVars
          /\ PortsDiffer' => \A d \in Directions : LiveTotal(d)' >= LiveTotal(d)]_vars
<1>1. WorkerInv /\ PoolInv /\ MonitorInv /\ RegistryInv /\ BoardInv /\ BoardInv'
  BY DEF ProxyIndInv
<1>2. InOrderNow /\ OneKind
  BY StepOK
<1>3. MonitorJoin /\ monitor.stale # {} => UNCHANGED poolVars
  BY <1>1, StaleProbe
<1>4. PortsDiffer' => \A d \in Directions : LiveTotal(d)' >= LiveTotal(d)
  BY <1>1, <1>2, TotalsGrow
<1> QED BY <1>3, <1>4

\* The inductive invariant holds from the first accepted connection to the last.
THEOREM ProxyInductive == Spec => []ProxyIndInv
<1>1. Init => ProxyIndInv
  BY InitOK
<1>2. ProxyIndInv /\ [Next]_vars => ProxyIndInv'
  BY StepOK
<1> QED BY <1>1, <1>2, PTL DEF Spec

\* The listener's bookkeeping is right over all its workers, however they end and however
\* the list is replaced meanwhile: the load of a target is the number of leases on it, its
\* traffic what its relays have copied, the registry lists the relays that run, the
\* dashboard counts each connection's end once, and a completed relay has lost no chunk
\* (TargetPool, TargetLease::drop, RelayRegistration::drop, apply_event).
THEOREM ProxyIsConsistent == Spec => []ProxyInv
<1>1. ProxyIndInv => ProxyInv
  BY InvHolds
<1> QED BY <1>1, ProxyInductive, PTL

\* Where a port is not used again before the end on it is reported, a row is shown as
\* active until the end of its own connection was read, and no longer (find_record,
\* prune_connection_records).
THEOREM RowsFollowTheirConnections == Spec => []RowsFollow
<1>1. ProxyIndInv => RowsFollow
  BY RowsHold
<1> QED BY <1>1, ProxyInductive, PTL

\* A probe of a round that was overtaken changes nothing, and the totals of the header
\* only grow (update_ping, InterfaceBindingWatch::unchanged, live_transfer_totals).
THEOREM WhatIsShownMovesOn == Spec => ShownMovesOn
<1>1. ProxyIndInv /\ ProxyIndInv' /\ [Next]_vars =>
        [/\ MonitorJoin /\ monitor.stale # {} => UNCHANGED poolVars
         /\ PortsDiffer' => \A d \in Directions : LiveTotal(d)' >= LiveTotal(d)]_vars
  BY StepMovesOn
<1> QED BY <1>1, ProxyInductive, PTL DEF Spec, ShownMovesOn
=============================================================================
