------------------------------ MODULE ScanProofs ------------------------------
(***************************************************************************)
(* Proofs about the scans and the tests that follow them, for any lists,   *)
(* answers, limits, panics, methods and numbers of samples.                *)
(***************************************************************************)
EXTENDS MethodScan, FiniteSetTheorems, SequenceTheorems, TLAPS

(***************************************************************************)
(* Sets and sequences.                                                     *)
(***************************************************************************)
LEMMA UpTo ==
  ASSUME NEW n \in Nat
  PROVE  IsFiniteSet(1..n) /\ Cardinality(1..n) = n
<1>1. IsFiniteSet(1..n)
  BY FS_Interval
<1>2. Cardinality(1..n) = IF 1 > n THEN 0 ELSE n - 1 + 1
  BY FS_Interval
<1> QED BY <1>1, <1>2

LEMMA PartOfUpTo ==
  ASSUME NEW n \in Nat, NEW P \in SUBSET (1..n)
  PROVE  IsFiniteSet(P) /\ Cardinality(P) \in Nat /\ Cardinality(P) <= n
<1>1. IsFiniteSet(1..n) /\ Cardinality(1..n) = n
  BY UpTo
<1>2. IsFiniteSet(P) /\ Cardinality(P) <= Cardinality(1..n)
  BY <1>1, FS_Subset
<1>3. Cardinality(P) \in Nat
  BY <1>2, FS_CardinalityType
<1> QED BY <1>1, <1>2, <1>3

LEMMA OneMore ==
  ASSUME NEW S, IsFiniteSet(S), NEW x, x \notin S
  PROVE  /\ IsFiniteSet(S \cup {x}) /\ Cardinality(S \cup {x}) = Cardinality(S) + 1
         /\ Cardinality(S) \in Nat
BY FS_AddElement, FS_CardinalityType

LEMMA OneLess ==
  ASSUME NEW S, IsFiniteSet(S), NEW x \in S
  PROVE  /\ IsFiniteSet(S \ {x}) /\ Cardinality(S \ {x}) = Cardinality(S) - 1
         /\ Cardinality(S) \in Nat /\ Cardinality(S) >= 1
<1>1. IsFiniteSet(S \ {x}) /\ Cardinality(S \ {x}) = Cardinality(S) - 1 /\ Cardinality(S) \in Nat
  BY FS_RemoveElement, FS_CardinalityType
<1>2. Cardinality(S \ {x}) \in Nat
  BY <1>1, FS_CardinalityType
<1> QED BY <1>1, <1>2

LEMMA Appended ==
  ASSUME NEW S, NEW s \in Seq(S), NEW e \in S
  PROVE  /\ Append(s, e) \in Seq(S) /\ DOMAIN s = 1..Len(s) /\ Len(s) \in Nat
         /\ DOMAIN Append(s, e) = 1..(Len(s) + 1) /\ Len(Append(s, e)) = Len(s) + 1
         /\ \A i \in 1..Len(s) : Append(s, e)[i] = s[i]
         /\ Append(s, e)[Len(s) + 1] = e
         /\ ToSet(Append(s, e)) = ToSet(s) \cup {e}
<1>1. /\ Append(s, e) \in Seq(S) /\ DOMAIN s = 1..Len(s) /\ Len(s) \in Nat
      /\ DOMAIN Append(s, e) = 1..(Len(s) + 1) /\ Len(Append(s, e)) = Len(s) + 1
      /\ \A i \in 1..Len(s) : Append(s, e)[i] = s[i]
      /\ Append(s, e)[Len(s) + 1] = e
  OBVIOUS
<1> DEFINE t == Append(s, e)
<1> HIDE DEF t
<1>2. ToSet(t) = ToSet(s) \cup {e}
  <2>1. ASSUME NEW i \in 1..(Len(s) + 1) PROVE t[i] \in ToSet(s) \cup {e}
    <3>1. i \in 1..Len(s) \/ i = Len(s) + 1
      BY <1>1
    <3> QED BY <1>1, <3>1 DEF ToSet, t
  <2>2. ASSUME NEW i \in 1..Len(s) PROVE s[i] \in ToSet(t)
    <3>1. i \in 1..(Len(s) + 1) /\ t[i] = s[i]
      BY <1>1 DEF t
    <3> QED BY <1>1, <3>1 DEF ToSet, t
  <2>3. e \in ToSet(t)
    <3>1. Len(s) + 1 \in 1..(Len(s) + 1)
      BY <1>1
    <3> QED BY <1>1, <3>1 DEF ToSet, t
  <2> QED BY <1>1, <2>1, <2>2, <2>3 DEF ToSet, t
<1> QED BY <1>1, <1>2 DEF t

LEMMA Headed ==
  ASSUME NEW S, NEW s \in Seq(S), s # <<>>
  PROVE  /\ Head(s) \in S /\ Head(s) = s[1] /\ Tail(s) \in Seq(S) /\ Len(s) \in Nat
         /\ 1 \in 1..Len(s) /\ DOMAIN s = 1..Len(s)
         /\ Len(Tail(s)) = Len(s) - 1 /\ DOMAIN Tail(s) = 1..(Len(s) - 1)
         /\ \A i \in 1..(Len(s) - 1) : Tail(s)[i] = s[i + 1]
         /\ ToSet(s) = {Head(s)} \cup ToSet(Tail(s))
<1>1. /\ Head(s) \in S /\ Head(s) = s[1] /\ Tail(s) \in Seq(S) /\ Len(s) \in Nat
      /\ 1 \in 1..Len(s) /\ DOMAIN s = 1..Len(s)
      /\ Len(Tail(s)) = Len(s) - 1 /\ DOMAIN Tail(s) = 1..(Len(s) - 1)
      /\ \A i \in 1..(Len(s) - 1) : Tail(s)[i] = s[i + 1]
  OBVIOUS
<1> DEFINE t == Tail(s)
           h == Head(s)
<1> HIDE DEF t, h
<1>2. ASSUME NEW i \in 1..Len(s) PROVE s[i] \in {h} \cup ToSet(t)
  <2>1. CASE i = 1
    BY <1>1, <2>1 DEF h
  <2>2. CASE i # 1
    <3>1. i - 1 \in 1..(Len(s) - 1) /\ t[i - 1] = s[i]
      BY <1>1, <2>2 DEF t
    <3> QED BY <1>1, <3>1 DEF ToSet, t
  <2> QED BY <2>1, <2>2
<1>3. ASSUME NEW i \in 1..(Len(s) - 1) PROVE t[i] \in ToSet(s)
  <2>1. i + 1 \in 1..Len(s) /\ t[i] = s[i + 1]
    BY <1>1 DEF t
  <2> QED BY <1>1, <2>1 DEF ToSet
<1>4. h \in ToSet(s)
  BY <1>1 DEF ToSet, h
<1>5. ToSet(s) = {h} \cup ToSet(t)
  BY <1>1, <1>2, <1>3, <1>4 DEF ToSet, t
<1> QED BY <1>1, <1>5 DEF t, h

LEMMA ElementsIn ==
  ASSUME NEW S, NEW s \in Seq(S)
  PROVE  ToSet(s) \subseteq S /\ DOMAIN s = 1..Len(s) /\ Len(s) \in Nat
BY DEF ToSet

\* A sequence without repetitions is as long as the set of what is in it.
LEMMA FiniteElements ==
  ASSUME NEW S, NEW s \in Seq(S)
  PROVE  /\ IsFiniteSet(ToSet(s)) /\ Cardinality(ToSet(s)) \in Nat
         /\ IsInjective(s) => Cardinality(ToSet(s)) = Len(s)
<1>1. s \in [1..Len(s) -> S] /\ Len(s) \in Nat /\ DOMAIN s = 1..Len(s)
  OBVIOUS
<1>2. s \in Surjection(1..Len(s), ToSet(s))
  BY <1>1 DEF Surjection, ToSet
<1>3. IsFiniteSet(1..Len(s)) /\ Cardinality(1..Len(s)) = Len(s)
  BY <1>1, UpTo
<1>4. /\ IsFiniteSet(ToSet(s))
      /\ Cardinality(ToSet(s)) = Cardinality(1..Len(s)) <=> s \in Injection(1..Len(s), ToSet(s))
  BY <1>2, <1>3, FS_Surjection
<1>5. Cardinality(ToSet(s)) \in Nat
  BY <1>4, FS_CardinalityType
<1>6. ASSUME IsInjective(s) PROVE s \in Injection(1..Len(s), ToSet(s))
  BY <1>1, <1>6 DEF Injection, ToSet
<1> QED BY <1>3, <1>4, <1>5, <1>6

LEMMA LeftOfHead ==
  ASSUME NEW S, NEW s \in Seq(S), s # <<>>, IsInjective(s)
  PROVE  IsInjective(Tail(s)) /\ Head(s) \notin ToSet(Tail(s))
<1>1. /\ Head(s) = s[1] /\ Len(s) \in Nat /\ 1 \in 1..Len(s) /\ DOMAIN s = 1..Len(s)
      /\ DOMAIN Tail(s) = 1..(Len(s) - 1)
      /\ \A i \in 1..(Len(s) - 1) : Tail(s)[i] = s[i + 1]
  BY Headed
<1>2. \A i \in 1..(Len(s) - 1) : i + 1 \in 1..Len(s) /\ i + 1 # 1
  BY <1>1
<1>3. \A i, j \in 1..Len(s) : s[i] = s[j] => i = j
  BY <1>1 DEF IsInjective
<1>4. Head(s) \notin ToSet(Tail(s))
  BY <1>1, <1>2, <1>3 DEF ToSet
<1>5. \A i, j \in 1..(Len(s) - 1) : Tail(s)[i] = Tail(s)[j] => i = j
  <2> TAKE i, j \in 1..(Len(s) - 1)
  <2> HAVE Tail(s)[i] = Tail(s)[j]
  <2>1. i + 1 = j + 1
    BY <1>1, <1>2, <1>3
  <2> QED BY <1>1, <2>1
<1> QED BY <1>1, <1>4, <1>5 DEF IsInjective

LEMMA NewAtTheEnd ==
  ASSUME NEW S, NEW s \in Seq(S), NEW e \in S, IsInjective(s), e \notin ToSet(s)
  PROVE  IsInjective(Append(s, e))
<1>1. /\ DOMAIN s = 1..Len(s) /\ Len(s) \in Nat
      /\ DOMAIN Append(s, e) = 1..(Len(s) + 1)
      /\ \A i \in 1..Len(s) : Append(s, e)[i] = s[i]
      /\ Append(s, e)[Len(s) + 1] = e
  BY Appended
<1>2. \A i \in 1..Len(s) : s[i] # e
  BY <1>1 DEF ToSet
<1>3. \A i, j \in 1..Len(s) : s[i] = s[j] => i = j
  BY <1>1 DEF IsInjective
<1>4. \A i \in 1..(Len(s) + 1) : i \in 1..Len(s) \/ i = Len(s) + 1
  BY <1>1
<1>5. \A i, j \in 1..(Len(s) + 1) : Append(s, e)[i] = Append(s, e)[j] => i = j
  <2> TAKE i, j \in 1..(Len(s) + 1)
  <2> HAVE Append(s, e)[i] = Append(s, e)[j]
  <2> QED BY <1>1, <1>2, <1>3, <1>4
<1> QED BY <1>1, <1>5 DEF IsInjective

(***************************************************************************)
(* Sorting.  InOrder lists the positions of a set, each once, when ahead   *)
(* is a strict order of all of them.                                       *)
(***************************************************************************)
IsOrder(P, ahead) ==
  /\ \A i \in P : <<i, i>> \notin ahead
  /\ \A i, j \in P : i # j => <<i, j>> \in ahead \/ <<j, i>> \in ahead
  /\ \A i, j, k \in P : <<i, j>> \in ahead /\ <<j, k>> \in ahead => <<i, k>> \in ahead

Lists(f, P, ahead, m) ==
  /\ m \in Nat /\ f \in [1..m -> P]
  /\ \A k, l \in 1..m : k < l => <<f[k], f[l]>> \in ahead
  /\ \A i \in P : \E k \in 1..m : f[k] = i

LEMMA InOrderLists ==
  ASSUME NEW n \in Nat, NEW P \in SUBSET (1..n), NEW ahead, IsOrder(P, ahead)
  PROVE  Lists(InOrder(P, ahead), P, ahead, Cardinality(P))
<1> DEFINE m == Cardinality(P)
           Pred(i) == {j \in P : <<j, i>> \in ahead}
           rank == [i \in P |-> Cardinality(Pred(i)) + 1]
<1>1. IsFiniteSet(P) /\ m \in Nat
  BY PartOfUpTo
<1>2. ASSUME NEW i \in P
      PROVE  IsFiniteSet(Pred(i)) /\ Cardinality(Pred(i)) \in Nat /\ Cardinality(Pred(i)) + 1 <= m
  <2>1. Pred(i) \in SUBSET (P \ {i})
    BY DEF IsOrder
  <2> HIDE DEF Pred
  <2>2. IsFiniteSet(P \ {i}) /\ Cardinality(P \ {i}) = m - 1
    BY <1>1, OneLess
  <2>3. IsFiniteSet(Pred(i)) /\ Cardinality(Pred(i)) <= m - 1
    BY <2>1, <2>2, FS_Subset
  <2>4. Cardinality(Pred(i)) \in Nat
    BY <2>3, FS_CardinalityType
  <2> QED BY <1>1, <2>3, <2>4
<1>3. ASSUME NEW i \in P, NEW j \in P, <<i, j>> \in ahead
      PROVE  Cardinality(Pred(i)) < Cardinality(Pred(j))
  <2>1. Pred(i) \cup {i} \in SUBSET Pred(j) /\ i \notin Pred(i)
    BY <1>3 DEF IsOrder
  <2>2. /\ IsFiniteSet(Pred(i)) /\ Cardinality(Pred(i)) \in Nat
        /\ IsFiniteSet(Pred(j)) /\ Cardinality(Pred(j)) \in Nat
    BY <1>2
  <2> HIDE DEF Pred
  <2>3. Cardinality(Pred(i) \cup {i}) = Cardinality(Pred(i)) + 1
    BY <2>1, <2>2, OneMore
  <2>4. Cardinality(Pred(i) \cup {i}) <= Cardinality(Pred(j))
    BY <2>1, <2>2, FS_Subset
  <2> QED BY <2>2, <2>3, <2>4
<1>4. ASSUME NEW i \in P, NEW j \in P, i # j
      PROVE  Cardinality(Pred(i)) # Cardinality(Pred(j))
  <2>1. <<i, j>> \in ahead \/ <<j, i>> \in ahead
    BY <1>4 DEF IsOrder
  <2>2. Cardinality(Pred(i)) \in Nat /\ Cardinality(Pred(j)) \in Nat
    BY <1>2
  <2> HIDE DEF Pred
  <2> QED BY <1>3, <2>1, <2>2
<1>5. rank \in Injection(P, 1..m)
  <2>1. \A i \in P : Cardinality(Pred(i)) + 1 \in 1..m
    BY <1>1, <1>2
  <2>2. \A i, j \in P : Cardinality(Pred(i)) + 1 = Cardinality(Pred(j)) + 1 => i = j
    <3> TAKE i, j \in P
    <3> HAVE Cardinality(Pred(i)) + 1 = Cardinality(Pred(j)) + 1
    <3>1. Cardinality(Pred(i)) \in Nat /\ Cardinality(Pred(j)) \in Nat
      BY <1>2
    <3>2. Cardinality(Pred(i)) = Cardinality(Pred(j))
      <4> HIDE DEF Pred
      <4> QED BY <3>1
    <3> HIDE DEF Pred
    <3> QED BY <1>4, <3>2
  <2> HIDE DEF Pred
  <2> QED BY <2>1, <2>2 DEF Injection, IsInjective
<1>6. rank \in Surjection(P, 1..m)
  <2>1. IsFiniteSet(1..m) /\ Cardinality(1..m) = m
    BY <1>1, UpTo
  <2> HIDE DEF rank
  <2> QED BY <1>5, <2>1, FS_Injection
<1> DEFINE f == InOrder(P, ahead)
<1>7. ASSUME NEW k \in 1..m
      PROVE  f[k] \in P /\ Cardinality(Pred(f[k])) = k - 1
  <2>1. PICK i \in P : rank[i] = k
    BY <1>6 DEF Surjection
  <2>2. Cardinality(Pred(i)) = k - 1
    <3>1. rank[i] = Cardinality(Pred(i)) + 1 /\ Cardinality(Pred(i)) \in Nat
      BY <1>2
    <3> HIDE DEF Pred, rank
    <3> QED BY <2>1, <3>1
  <2>3. f[k] = CHOOSE x \in P : Cardinality(Pred(x)) = k - 1
    BY DEF InOrder
  <2> HIDE DEF Pred, f
  <2> QED BY <2>2, <2>3
<1>8. f \in [1..m -> P]
  <2> DEFINE Val(k) == CHOOSE i \in P : Cardinality(Pred(i)) = k - 1
  <2>1. f = [k \in 1..m |-> Val(k)]
    BY DEF InOrder
  <2>2. \A k \in 1..m : f[k] = Val(k)
    BY <2>1
  <2> HIDE DEF f, m, Val
  <2> QED BY <1>7, <2>1, <2>2
<1>9. ASSUME NEW k \in 1..m, NEW l \in 1..m, k < l
      PROVE  <<f[k], f[l]>> \in ahead
  <2>1. f[k] \in P /\ f[l] \in P /\ Cardinality(Pred(f[k])) = k - 1 /\ Cardinality(Pred(f[l])) = l - 1
    BY <1>7
  <2> HIDE DEF f, Pred
  <2>2. ~(<<f[l], f[k]>> \in ahead) /\ f[k] # f[l]
    <3>1. k \in Int /\ l \in Int
      BY <1>1
    <3>2. ASSUME <<f[l], f[k]>> \in ahead PROVE FALSE
      <4>1. Cardinality(Pred(f[l])) < Cardinality(Pred(f[k]))
        BY <1>3, <2>1, <3>2
      <4> QED BY <1>9, <2>1, <3>1, <4>1
    <3>3. ASSUME f[k] = f[l] PROVE FALSE
      <4>1. k - 1 = l - 1
        BY <2>1, <3>3
      <4> QED BY <1>9, <3>1, <4>1
    <3> QED BY <3>2, <3>3
  <2> QED BY <2>1, <2>2 DEF IsOrder
<1>10. ASSUME NEW i \in P PROVE \E k \in 1..m : f[k] = i
  <2> DEFINE k == Cardinality(Pred(i)) + 1
  <2>1. k \in 1..m /\ Cardinality(Pred(i)) = k - 1
    BY <1>1, <1>2
  <2>2. f[k] \in P /\ Cardinality(Pred(f[k])) = k - 1
    BY <1>7, <2>1
  <2> HIDE DEF Pred, f, k
  <2>3. f[k] = i
    BY <1>4, <2>1, <2>2
  <2> QED BY <2>1, <2>3
<1> QED BY <1>1, <1>8, <1>9, <1>10 DEF Lists

\* What Arranged makes of a sequence has the same elements, each once.
LEMMA ArrangedIs ==
  ASSUME NEW S, NEW s \in Seq(S), NEW P \in SUBSET (DOMAIN s), NEW ahead, IsOrder(P, ahead)
  PROVE  \E f, m : /\ Lists(f, P, ahead, m) /\ m <= Len(s) /\ m = Cardinality(P)
                   /\ Arranged(s, P, ahead) = [k \in 1..m |-> s[f[k]]]
                   /\ Arranged(s, P, ahead) \in Seq(S) /\ Len(Arranged(s, P, ahead)) = m
<1>1. Len(s) \in Nat /\ DOMAIN s = 1..Len(s)
  OBVIOUS
<1> DEFINE f == InOrder(P, ahead)
           m == Cardinality(P)
<1>2. Lists(f, P, ahead, m)
  BY <1>1, InOrderLists
<1>3. m \in Nat /\ m <= Len(s)
  BY <1>1, PartOfUpTo
<1>4. Arranged(s, P, ahead) = [k \in 1..m |-> s[f[k]]]
  BY DEF Arranged
<1> HIDE DEF f, m
<1>5. \A k \in 1..m : f[k] \in 1..Len(s)
  BY <1>1, <1>2 DEF Lists
<1>6. \A k \in 1..m : s[f[k]] \in S
  BY <1>5
<1>7. [k \in 1..m |-> s[f[k]]] \in Seq(S) /\ Len([k \in 1..m |-> s[f[k]]]) = m
  BY <1>3, <1>6
<1> QED BY <1>2, <1>3, <1>4, <1>7 DEF m

LEMMA ArrangedAll ==
  ASSUME NEW S, NEW s \in Seq(S), NEW ahead, IsOrder(DOMAIN s, ahead)
  PROVE  \E f : /\ Lists(f, 1..Len(s), ahead, Len(s))
                /\ Arranged(s, DOMAIN s, ahead) = [k \in 1..Len(s) |-> s[f[k]]]
                /\ Arranged(s, DOMAIN s, ahead) \in Seq(S)
                /\ ToSet(Arranged(s, DOMAIN s, ahead)) = ToSet(s)
                /\ Len(Arranged(s, DOMAIN s, ahead)) = Len(s)
<1> DEFINE t == Arranged(s, DOMAIN s, ahead)
<1>1. Len(s) \in Nat /\ DOMAIN s = 1..Len(s) /\ Cardinality(1..Len(s)) = Len(s)
  BY UpTo
<1>2. PICK f, m : /\ Lists(f, DOMAIN s, ahead, m) /\ m = Cardinality(DOMAIN s)
                  /\ t = [k \in 1..m |-> s[f[k]]]
                  /\ t \in Seq(S) /\ Len(t) = m
  <2>1. DOMAIN s \in SUBSET (DOMAIN s)
    OBVIOUS
  <2> QED BY SMTT(40), <2>1, ArrangedIs
<1> HIDE DEF t
<1>3. m = Len(s) /\ DOMAIN t = 1..Len(s)
  BY <1>1, <1>2
<1>4. \A k \in 1..Len(s) : f[k] \in 1..Len(s) /\ t[k] = s[f[k]]
  BY <1>1, <1>2, <1>3 DEF Lists
<1>5. \A i \in 1..Len(s) : \E k \in 1..Len(s) : f[k] = i
  BY <1>1, <1>2, <1>3 DEF Lists
<1>6. ToSet(t) = ToSet(s)
  <2>1. \A k \in DOMAIN t : t[k] \in ToSet(s)
    BY <1>1, <1>3, <1>4 DEF ToSet
  <2>2. \A i \in DOMAIN s : s[i] \in ToSet(t)
    <3> TAKE i \in DOMAIN s
    <3>1. PICK k \in 1..Len(s) : f[k] = i
      BY <1>1, <1>5
    <3> QED BY <1>3, <1>4, <3>1 DEF ToSet
  <2> QED BY <2>1, <2>2 DEF ToSet
<1> QED BY <1>1, <1>2, <1>3, <1>6 DEF t
(***************************************************************************)
(* The inductive invariant.                                                *)
(***************************************************************************)
HostIds == ToSet(Hosts) \X {a.ip : a \in Addresses}
Entries == [id : Positions \cup HostIds, v4 : BOOLEAN, tcp : 0..NoLatency, score : Nat]
Events == [kind : {"tcp"}, tested : Nat] \cup [kind : {"probe"}, entry : Entries]
HostPcs == {"off", "dns", "loop", "full", "back"}
HostRecs == [pc : HostPcs, asked : Nat, left : Seq(Addresses), running : SUBSET Addresses,
             ended : SUBSET Entries, out : Seq(Entries)]

\* The scanner has not been told to stop.  Its list has not been taken.
Live == task \in {"run", "left", "finished"}
Done == task \in {"left", "finished"}
Watched == pc \in {"watch", "decide"}

TypeInv ==
  /\ job \in Jobs /\ task \in {"none", "run", "left", "finished", "abort", "gone"}
  /\ pc \in {"load", "watch", "decide", "scanned", "test", "judge", "view", "leaving", "exit", "error"}
  /\ left \subseteq Positions /\ p1 \subseteq Positions /\ p2 \subseteq Positions
  /\ pending \in Seq(Positions) /\ tested \in Nat
  /\ queue \in Seq(ToSet(Hosts)) /\ permits \in Nat /\ host \in [ToSet(Hosts) -> HostRecs]
  /\ \A h \in ToSet(Hosts) : IsFiniteSet(host[h].running) /\ IsFiniteSet(host[h].ended)
  /\ all \in Seq(Entries) /\ arrived \in Seq(Entries) /\ result \in Seq(Entries)
  /\ chan \in Seq(Events) /\ progress \in Nat /\ panics \in Nat /\ panics <= job.panics

\* Where the two threads are tells what is left to do.
Fresh ==
  /\ all = <<>> /\ chan = <<>> /\ arrived = <<>> /\ progress = 0 /\ tested = 0
  /\ left = {} /\ queue = <<>> /\ permits = 0
IpIdle == left = {} /\ p1 = {} /\ p2 = {} /\ pending = <<>>
PhaseInv ==
  /\ pc = "load" => task = "none"
  /\ task = "none" => pc \in {"load", "error"} /\ Fresh /\ IpIdle /\ Started = {}
  /\ Watched => Live
  /\ task = "run" => Watched
  /\ pc = "decide" => job.ui = "tui"
  /\ pc = "decide" /\ ~aborted => Done /\ chan = <<>>
  /\ Done => IpIdle /\ Started = {}
  /\ job.list # "ip" => IpIdle
  /\ job.list # "sni" => Started = {}
  /\ failed => job.list = "bad"
  /\ job.list = "bad" /\ Watched => all = <<>> /\ (task # "run" => failed)

\* The entries of the addresses that accepted a connection.
Measures(s) == {e \in ToSet(s) : e.tcp # NoLatency}
IsRanked(s) ==
  \A i, j \in DOMAIN s : i < j => ~Before(s[j], s[i])
RankInv ==
  /\ Done /\ (Watched \/ pc = "scanned") => IsRanked(all)
  /\ pc = "scanned" => IsRanked(result)
  /\ pc = "scanned" /\ Done => result = all
  /\ pc = "scanned" /\ ~aborted => Measures(all) \subseteq ToSet(result)

\* The limits: a running probe has a permit, and what a TCP probe may add to the backlog
\* is counted with it.
LimitSni ==
  /\ IsFiniteSet(Probing)
  /\ permits + Cardinality(Probing) = IF task = "none" \/ job.list = "ip" THEN 0 ELSE SniLimit
  /\ Cardinality(Started) <= SniLimit
LimitIp ==
  /\ Cardinality(p1) <= P1Limit /\ Cardinality(p2) <= P2Limit
  /\ Len(pending) + Cardinality(p1) < P1Limit + P2Limit
  /\ tested + Cardinality(p1) + Cardinality(left) <= Len(Ips)

\* An address of a hostname is in one place: to be probed, being probed, probed or joined.
SameId(s) == \A i, j \in DOMAIN s : s[i].id = s[j].id => i = j
HostOK(h, r) ==
  /\ r.pc = "off" => r = Idle
  /\ r.pc \in {"off", "dns", "back"} => r.left = <<>> /\ r.running = {} /\ r.ended = {}
  /\ r.pc = "dns" => r.out = <<>>
  /\ \A i, j \in DOMAIN r.left : r.left[i].ip = r.left[j].ip => i = j
  /\ \A a \in r.running : \A i \in DOMAIN r.left : a.ip # r.left[i].ip
  /\ \A a, b \in r.running : a.ip = b.ip => a = b
  /\ \A e \in r.ended \cup ToSet(r.out) :
       /\ e.id \in HostIds /\ e.id[1] = h
       /\ \A a \in r.running \cup ToSet(r.left) : e.id[2] # a.ip
  /\ \A e, f \in r.ended : e.id = f.id => e = f
  /\ \A e \in r.ended : e.id \notin Ids(r.out)
  /\ SameId(r.out)
HostInv == \A h \in ToSet(Hosts) : HostOK(h, host[h]) /\ (panics = 0 => \A e \in host[h].ended : e.v4)

\* A position is in one place, and in none only if its probe panicked.
IpPlaces ==
  /\ left \cap p1 = {} /\ left \cap p2 = {} /\ p1 \cap p2 = {}
  /\ \A i \in ToSet(pending) : i \notin left \cup p1 \cup p2
  /\ Ids(all) \subseteq Positions
  /\ \A i \in Ids(all) : i \notin left \cup p1 \cup p2 \cup ToSet(pending)
  /\ IsInjective(pending) /\ SameId(all)
IpWhole ==
  panics = 0 => /\ Positions = left \cup p1 \cup p2 \cup ToSet(pending) \cup Ids(all)
                /\ tested = Len(all) + Len(pending) + Cardinality(p2)
IpReports ==
  /\ job.ui = "tui" => Reported = Measures(all)
  /\ job.ui = "events" => progress + Len(chan) = tested + Cardinality(Measures(all))
IpInv == job.list = "ip" /\ Watched => IpPlaces /\ IpWhole /\ IpReports

\* A hostname is in one place, and so is what was found for it.
Found == ToSet(all) \cup UNION {host[h].ended \cup ToSet(host[h].out) : h \in ToSet(Hosts)}
SniPlaces ==
  /\ IsFiniteSet(Found) /\ IsInjective(queue) /\ \A h \in ToSet(queue) : host[h].pc = "off"
  /\ \A e \in ToSet(all) : /\ e.id \in HostIds /\ e.id[1] \notin ToSet(queue)
                           /\ host[e.id[1]].pc = "off"
  /\ SameId(all)
SniReports ==
  /\ panics = 0 /\ job.ui = "tui" => Reported = Found
  /\ panics = 0 /\ job.ui = "events" => progress + Len(chan) = Cardinality(Found)
  /\ job.ui = "tui" => \A e \in Found : e.tcp # NoLatency => e \in Reported
SniInv == job.list = "sni" /\ Watched => SniPlaces /\ SniReports

UnitRecs == [name : Nat, socket : BOOLEAN, known : BOOLEAN, score : Nat]
TestEntries == [unit : Nat, name : Nat, ok : Nat, ttfb : Nat]
TestTypeInv ==
  /\ units \in Seq(UnitRecs) /\ unit \in 0..Len(units)
  /\ step \in {"idle", "open", "bind", "sample", "down", "gap"}
  /\ worker \in {"none", "run", "left", "finished"}
  /\ samples \in Seq({1, NoLatency}) /\ quit \in BOOLEAN
  /\ entries \in Seq(TestEntries) /\ news \in Seq(TestEntries) /\ seen \in Seq(TestEntries)
  /\ report \in Seq(TestEntries)

\* The worker, its engine and its listener.
WorkerInv ==
  /\ pc \in {"load", "watch", "decide", "scanned"} => worker = "none"
  /\ pc \in {"test", "judge"} => worker # "none"
  /\ worker = "none" => unit = 0 /\ step = "idle"
  /\ step # "idle" => unit # 0 /\ worker = "run"
  /\ worker \in {"left", "finished"} => unit = Len(units) /\ helper \in {"none", "down"}
  /\ engines \ late \subseteq (IF step \in {"idle", "open", "gap"} THEN {} ELSE {unit})
  /\ closing => step \in {"down", "gap"}
  /\ port \notin {Free, Foreign} => port = unit /\ (step = "sample" \/ closing)
  /\ via \subseteq {unit, Foreign}
  /\ pc = "exit" => worker \in {"none", "finished"}

\* Each unit has one entry; what was announced is part of it, in the same order.
Told == seen \o news
NewsInv ==
  /\ Len(entries) = IF step \in {"idle", "gap"} THEN unit ELSE unit - 1
  /\ \A i \in DOMAIN entries : entries[i].unit = i
  /\ \A i \in DOMAIN Told : Told[i] \in ToSet(entries)
  /\ \A i, j \in DOMAIN Told : Told[i].unit = Told[j].unit => i = j
  /\ \A e \in ToSet(entries) : e.ttfb # NoLatency \/ job.then = "proxy" => e \in ToSet(Told)

ReportInv ==
  /\ pc \in {"judge", "view", "leaving"} /\ worker # "none" /\ ~quit => worker \in {"left", "finished"}
  /\ pc = "judge" => job.ui = "tui" /\ (~quit => news = <<>>)
  /\ ReportWhole

\* The scan's half and the tests' half.
FoundInv ==
  /\ TypeInv /\ PhaseInv /\ RankInv /\ LimitSni /\ LimitIp /\ HostInv /\ IpInv /\ SniInv
  /\ CompletedLast
TestInv == TestTypeInv /\ WorkerInv /\ NewsInv /\ ReportInv
ScanIndInv == FoundInv /\ TestInv

(***************************************************************************)
(* Entries.                                                                *)
(***************************************************************************)
LEMMA Limits ==
  ASSUME TypeInv
  PROVE  /\ P1Limit \in Nat \ {0} /\ P2Limit \in Nat \ {0} /\ SniLimit \in Nat \ {0}
         /\ job.panics \in Nat
<1>1. job \in [list : {"ip", "sni", "bad"}, ui : {"tui", "events", "silent"},
               then : {"report", "methods", "proxy"}, panics : Nat,
               limits : [p1 : Nat, p2 : Nat, sni : Nat],
               helper : BOOLEAN, socket : BOOLEAN, foreign : BOOLEAN]
  BY ScanAssumption DEF TypeInv
<1>2. job.limits \in [p1 : Nat, p2 : Nat, sni : Nat] /\ job.panics \in Nat
  BY <1>1
<1> QED BY <1>2 DEF P1Limit, P2Limit, SniLimit, AtLeastOne

LEMMA JobIs ==
  ASSUME TypeInv
  PROVE  /\ job.list \in {"ip", "sni", "bad"} /\ job.ui \in {"tui", "events", "silent"}
         /\ job.then \in {"report", "methods", "proxy"} /\ job.socket \in BOOLEAN
BY ScanAssumption DEF TypeInv

LEMMA PositionsAre ==
  /\ Positions \subseteq 1..Len(Ips) /\ Len(Ips) \in Nat
  /\ IsFiniteSet(Positions) /\ Cardinality(Positions) \in Nat /\ Cardinality(Positions) <= Len(Ips)
  /\ \A i \in Positions : Ips[i].v4 \in BOOLEAN /\ Ips[i].latency \in Latencies
<1>1. Ips \in Seq([v4 : BOOLEAN, allowed : BOOLEAN, latency : Latencies])
  BY ScanAssumption
<1>2. Positions \subseteq 1..Len(Ips) /\ Len(Ips) \in Nat
  BY <1>1 DEF Positions
<1>3. \A i \in 1..Len(Ips) : Ips[i] \in [v4 : BOOLEAN, allowed : BOOLEAN, latency : Latencies]
  <2> DEFINE T == [v4 : BOOLEAN, allowed : BOOLEAN, latency : Latencies]
  <2>1. Ips \in Seq(T)
    BY <1>1
  <2> HIDE DEF T
  <2>2. \A i \in 1..Len(Ips) : Ips[i] \in T
    BY <2>1
  <2> QED BY <2>2 DEF T
<1>4. IsFiniteSet(Positions) /\ Cardinality(Positions) \in Nat /\ Cardinality(Positions) <= Len(Ips)
  BY <1>2, PartOfUpTo
<1> QED BY <1>2, <1>3, <1>4

LEMMA FinitePart ==
  ASSUME NEW S \in SUBSET Positions
  PROVE  IsFiniteSet(S) /\ Cardinality(S) \in Nat /\ Cardinality(S) <= Len(Ips)
<1>1. S \in SUBSET (1..Len(Ips)) /\ Len(Ips) \in Nat
  BY PositionsAre
<1> QED BY <1>1, PartOfUpTo

LEMMA AddressesAre ==
  /\ \A a \in Addresses : a.allowed \in BOOLEAN /\ a.latency \in Latencies
  /\ \A h \in ToSet(Hosts) : \A addrs \in Answers[h] :
       /\ addrs \in Seq(Addresses)
       /\ \A i, j \in DOMAIN addrs : addrs[i].ip = addrs[j].ip => i = j
BY ScanAssumption

LEMMA LatenciesAre == \A l \in Latencies : l \in 0..NoLatency /\ l # NoLatency /\ l \in Nat
BY DEF Latencies, NoLatency

LEMMA ScoreIsNat ==
  ASSUME NEW l \in Latencies, NEW q \in Measured
  PROVE  ComputeScore(l, q) \in Nat
<1>1. l \in Nat
  BY LatenciesAre
<1>2. \A b : \A n \in Nat : Points(b, n) \in Nat
  BY DEF Points
<1>3. Min({l, LatencyCap}) \in Nat /\ Min({l, LatencyCap}) <= 4
  <2>1. \E x \in {l, 4} : \A y \in {l, 4} : x <= y
    <3>1. CASE l <= 4
      BY <1>1, <3>1
    <3>2. CASE ~(l <= 4)
      BY <1>1, <3>2
    <3> QED BY <3>1, <3>2
  <2>2. LatencyCap = 4
    BY DEF LatencyCap
  <2>3. Min({l, LatencyCap}) \in {l, 4} /\ \A y \in {l, 4} : Min({l, LatencyCap}) <= y
    BY <2>1, <2>2 DEF Min
  <2> QED BY <1>1, <2>3
<1>4. TcpPoints(l) \in Nat
  <2> DEFINE m == Min({l, LatencyCap})
  <2>1. TcpPoints(l) = (50 * (4 - m)) \div 4
    BY DEF TcpPoints, LatencyCap
  <2>2. m \in Nat /\ m <= 4
    BY <1>3
  <2> HIDE DEF m
  <2>3. 50 * (4 - m) \in Nat
    BY <2>2
  <2> QED BY <2>1, <2>3
<1> DEFINE full == l # NoLatency /\ q.tls /\ q.ttfb /\ q.download /\ q.upload
           total == TcpPoints(l) + Points(q.tls, 20 + 30 + 10) + Points(q.ttfb, 40)
                      + Points(q.download, 15) + Points(q.upload, 15) + Points(full, 20) + 1
<1>5. ComputeScore(l, q) = total \div 2
  BY DEF ComputeScore
<1>6. total \in Nat
  <2>1. /\ Points(q.tls, 20 + 30 + 10) \in Nat /\ Points(q.ttfb, 40) \in Nat
        /\ Points(q.download, 15) \in Nat /\ Points(q.upload, 15) \in Nat /\ Points(full, 20) \in Nat
    BY <1>2
  <2> HIDE DEF full
  <2> QED BY <1>4, <2>1
<1> HIDE DEF total
<1> QED BY <1>5, <1>6

LEMMA IpEntriesAre ==
  ASSUME NEW i \in Positions, NEW e \in IpEntries(i) \cup {TcpOnlyEntry(i)}
  PROVE  /\ e \in Entries /\ e.id = i
         /\ e \in IpEntries(i) => e.tcp # NoLatency
         /\ e = TcpOnlyEntry(i) => e.tcp = NoLatency
<1>1. Ips[i].v4 \in BOOLEAN /\ Ips[i].latency \in Latencies
  BY PositionsAre
<1>2. Ips[i].latency \in 0..NoLatency /\ Ips[i].latency # NoLatency /\ NoLatency \in 0..NoLatency
  BY <1>1, LatenciesAre DEF NoLatency
<1>3. \A q \in Measured : ComputeScore(Ips[i].latency, q) \in Nat
  BY <1>1, ScoreIsNat
<1>4. ASSUME e \in IpEntries(i) PROVE e \in Entries /\ e.id = i /\ e.tcp # NoLatency
  BY <1>1, <1>2, <1>3, <1>4 DEF IpEntries, Entry, Entries
<1>5. ASSUME e = TcpOnlyEntry(i) PROVE e \in Entries /\ e.id = i /\ e.tcp = NoLatency
  BY <1>1, <1>2, <1>5 DEF TcpOnlyEntry, Entry, Entries
<1> QED BY <1>4, <1>5

LEMMA SniEntriesAre ==
  ASSUME NEW h \in ToSet(Hosts), NEW a \in Addresses, NEW e \in SniEntries(h, a) \cup {Panicked(h, a)}
  PROVE  /\ e \in Entries /\ e.id = <<h, a.ip>>
         /\ e \in SniEntries(h, a) => e.v4
<1>1. a.latency \in Latencies
  BY AddressesAre
<1>2. a.latency \in 0..NoLatency /\ NoLatency \in 0..NoLatency
  BY <1>1, LatenciesAre DEF NoLatency
<1>3. \A q \in Measured : ComputeScore(a.latency, q) \in Nat
  BY <1>1, ScoreIsNat
<1>4. <<h, a.ip>> \in Positions \cup HostIds
  BY DEF HostIds
<1>5. ASSUME e \in SniEntries(h, a) PROVE e \in Entries /\ e.id = <<h, a.ip>> /\ e.v4
  <2>1. CASE e = Entry(<<h, a.ip>>, TRUE, NoLatency, 0)
    BY <1>2, <1>4, <2>1 DEF Entry, Entries
  <2>2. CASE e \in {Entry(<<h, a.ip>>, TRUE, a.latency, ComputeScore(a.latency, q)) : q \in Measured}
    <3>1. PICK q \in Measured : e = Entry(<<h, a.ip>>, TRUE, a.latency, ComputeScore(a.latency, q))
      BY <2>2
    <3> QED BY <1>2, <1>3, <1>4, <3>1 DEF Entry, Entries
  <2> QED BY <1>5, <2>1, <2>2 DEF SniEntries
<1>6. ASSUME e = Panicked(h, a) PROVE e \in Entries /\ e.id = <<h, a.ip>>
  BY <1>2, <1>4, <1>6 DEF Panicked, Entry, Entries
<1> QED BY <1>5, <1>6

LEMMA AppendedIds ==
  ASSUME NEW s \in Seq(Entries), NEW e \in Entries
  PROVE  /\ Ids(Append(s, e)) = Ids(s) \cup {e.id}
         /\ SameId(s) /\ e.id \notin Ids(s) => SameId(Append(s, e))
         /\ e.id \notin Ids(s) => e \notin ToSet(s)
<1> DEFINE t == Append(s, e)
           n == Len(s)
<1>1. /\ DOMAIN s = 1..n /\ n \in Nat /\ DOMAIN t = 1..(n + 1)
      /\ \A i \in 1..n : t[i] = s[i]
      /\ t[n + 1] = e
  BY Appended
<1> HIDE DEF t, n
<1>2. \A i \in 1..(n + 1) : i \in 1..n \/ i = n + 1
  BY <1>1
<1>3. n + 1 \in 1..(n + 1) /\ \A i \in 1..n : i \in 1..(n + 1)
  BY <1>1
<1>4. Ids(t) = Ids(s) \cup {e.id}
  <2>1. \A x \in Ids(t) : x \in Ids(s) \cup {e.id}
    BY <1>1, <1>2 DEF Ids
  <2>2. \A x \in Ids(s) : x \in Ids(t)
    BY <1>1, <1>3 DEF Ids
  <2>3. e.id \in Ids(t)
    BY <1>1, <1>3 DEF Ids
  <2> QED BY <2>1, <2>2, <2>3
<1>5. ASSUME SameId(s), e.id \notin Ids(s) PROVE SameId(t)
  <2>1. \A i \in 1..n : s[i].id # e.id
    BY <1>1, <1>5 DEF Ids
  <2>2. \A i, j \in 1..n : s[i].id = s[j].id => i = j
    BY <1>1, <1>5 DEF SameId
  <2> QED BY <1>1, <1>2, <2>1, <2>2 DEF SameId
<1>6. ASSUME e \in ToSet(s) PROVE e.id \in Ids(s)
  BY <1>1, <1>6 DEF ToSet, Ids
<1> QED BY <1>4, <1>5, <1>6 DEF t

LEMMA IdsOf ==
  ASSUME NEW s \in Seq(Entries)
  PROVE  /\ \A e \in ToSet(s) : e.id \in Ids(s)
         /\ \A x \in Ids(s) : \E e \in ToSet(s) : e.id = x
BY DEF ToSet, Ids

\* Entries of different names are different entries, and counted alike.
LEMMA NamesCount ==
  ASSUME NEW s \in Seq(Entries), SameId(s)
  PROVE  Cardinality(ToSet(s)) = Len(s) /\ Cardinality(Ids(s)) = Len(s)
<1> DEFINE n == Len(s)
           t == [i \in 1..n |-> s[i].id]
<1>1. n \in Nat /\ DOMAIN s = 1..n
  OBVIOUS
<1>2. IsInjective(s)
  BY <1>1 DEF SameId, IsInjective
<1>3. Cardinality(ToSet(s)) = Len(s)
  BY <1>2, FiniteElements
<1>4. t \in Seq(Ids(s)) /\ Len(t) = n /\ DOMAIN t = 1..n
  <2>1. \A i \in 1..n : s[i].id \in Ids(s)
    BY <1>1 DEF Ids
  <2> HIDE DEF n
  <2> QED BY <1>1, <2>1
<1>5. ToSet(t) = Ids(s)
  BY <1>1 DEF ToSet, Ids
<1>6. IsInjective(t)
  <2>1. \A i, j \in 1..n : s[i].id = s[j].id => i = j
    BY <1>1 DEF SameId
  <2> HIDE DEF n
  <2> QED BY <2>1 DEF IsInjective
<1> HIDE DEF t
<1>7. Cardinality(ToSet(t)) = Len(t)
  BY <1>4, <1>6, FiniteElements
<1> QED BY <1>3, <1>4, <1>5, <1>7

(***************************************************************************)
(* The sorts.                                                              *)
(***************************************************************************)
LEMMA PairIs ==
  ASSUME NEW S, NEW i \in S, NEW j \in S
  PROVE  <<i, j>> \in S \X S /\ <<i, j>>[1] = i /\ <<i, j>>[2] = j
OBVIOUS

LEMMA BeforeIs ==
  ASSUME NEW a \in Entries, NEW b \in Entries, NEW c \in Entries
  PROVE  /\ ~Before(a, a)
         /\ Before(a, b) => ~Before(b, a)
         /\ Before(a, b) /\ ~Before(c, b) => Before(a, c)
         /\ ~Before(b, a) /\ Before(b, c) => Before(a, c)
         /\ ~Before(b, a) /\ ~Before(c, b) => ~Before(c, a)
<1>1. /\ a.score \in Nat /\ b.score \in Nat /\ c.score \in Nat
      /\ a.tcp \in Int /\ b.tcp \in Int /\ c.tcp \in Int
  BY DEF Entries, NoLatency
<1> QED BY <1>1 DEF Before

LEMMA EntryOrderIs ==
  ASSUME NEW s \in Seq(Entries)
  PROVE  IsOrder(DOMAIN s, EntryOrder(s))
<1>1. DOMAIN s = 1..Len(s) /\ \A i \in DOMAIN s : s[i] \in Entries /\ i \in Int
  OBVIOUS
<1>2. ASSUME NEW i \in DOMAIN s, NEW j \in DOMAIN s
      PROVE  <<i, j>> \in EntryOrder(s)
               <=> Before(s[i], s[j]) \/ (~Before(s[j], s[i]) /\ i < j)
  <2> DEFINE p == <<i, j>>
             D == DOMAIN s
  <2>0. i \in D /\ j \in D
    OBVIOUS
  <2> HIDE DEF p, D
  <2>1. p \in D \X D /\ p[1] = i /\ p[2] = j
    BY <2>0, PairIs DEF p
  <2>2. p \in EntryOrder(s) <=> Before(s[p[1]], s[p[2]]) \/ (~Before(s[p[2]], s[p[1]]) /\ p[1] < p[2])
    BY <2>1 DEF EntryOrder, D
  <2> QED BY <2>1, <2>2 DEF p
<1>3. \A i \in DOMAIN s : <<i, i>> \notin EntryOrder(s)
  BY <1>1, <1>2, BeforeIs
<1>4. \A i, j \in DOMAIN s : i # j => <<i, j>> \in EntryOrder(s) \/ <<j, i>> \in EntryOrder(s)
  BY <1>1, <1>2, BeforeIs
<1>5. ASSUME NEW i \in DOMAIN s, NEW j \in DOMAIN s, NEW k \in DOMAIN s,
             <<i, j>> \in EntryOrder(s), <<j, k>> \in EntryOrder(s)
      PROVE  <<i, k>> \in EntryOrder(s)
  <2>1. s[i] \in Entries /\ s[j] \in Entries /\ s[k] \in Entries /\ i \in Int /\ j \in Int /\ k \in Int
    BY <1>1
  <2> DEFINE a == s[i]
             b == s[j]
             c == s[k]
  <2>2. Before(a, b) \/ (~Before(b, a) /\ i < j)
    BY <1>2, <1>5
  <2>3. Before(b, c) \/ (~Before(c, b) /\ j < k)
    BY <1>2, <1>5
  <2>4. a \in Entries /\ b \in Entries /\ c \in Entries
    BY <2>1
  <2>5. Before(a, c) \/ (~Before(c, a) /\ i < k)
    <3> HIDE DEF a, b, c
    <3>1. Before(a, b) => ~Before(b, a)
      BY <2>4, BeforeIs
    <3>2. Before(b, c) => ~Before(c, b)
      BY <2>4, BeforeIs
    <3>3. Before(a, b) /\ ~Before(c, b) => Before(a, c)
      BY <2>4, BeforeIs
    <3>4. ~Before(b, a) /\ Before(b, c) => Before(a, c)
      BY <2>4, BeforeIs
    <3>5. ~Before(b, a) /\ ~Before(c, b) => ~Before(c, a)
      BY <2>4, BeforeIs
    <3>6. i < j /\ j < k => i < k
      BY <2>1
    <3> QED BY <2>2, <2>3, <3>1, <3>2, <3>3, <3>4, <3>5, <3>6
  <2> QED BY <1>2, <2>5
<1> QED BY <1>3, <1>4, <1>5 DEF IsOrder

LEMMA RankedIs ==
  ASSUME NEW s \in Seq(Entries)
  PROVE  /\ Ranked(s) \in Seq(Entries) /\ Len(Ranked(s)) = Len(s) /\ ToSet(Ranked(s)) = ToSet(s)
         /\ IsRanked(Ranked(s)) /\ Ids(Ranked(s)) = Ids(s)
         /\ SameId(s) => SameId(Ranked(s))
<1> DEFINE t == Ranked(s)
           n == Len(s)
<1>1. t = Arranged(s, DOMAIN s, EntryOrder(s))
  BY DEF Ranked
<1>2. PICK f : /\ Lists(f, 1..n, EntryOrder(s), n)
               /\ t = [k \in 1..n |-> s[f[k]]]
               /\ t \in Seq(Entries) /\ ToSet(t) = ToSet(s) /\ Len(t) = n
  BY <1>1, EntryOrderIs, ArrangedAll
<1> HIDE DEF t
<1>3. n \in Nat /\ DOMAIN s = 1..n /\ DOMAIN t = 1..n
  BY <1>2
<1>4. \A k \in 1..n : f[k] \in 1..n /\ t[k] = s[f[k]] /\ s[k] \in Entries
  BY <1>2, <1>3 DEF Lists
<1>5. \A k, l \in 1..n : k < l => <<f[k], f[l]>> \in EntryOrder(s)
  BY <1>2 DEF Lists
<1>6. IsRanked(t)
  <2> SUFFICES ASSUME NEW i \in 1..n, NEW j \in 1..n, i < j PROVE ~Before(t[j], t[i])
    BY <1>3 DEF IsRanked
  <2>1. Before(s[f[i]], s[f[j]]) \/ ~Before(s[f[j]], s[f[i]])
    BY <1>5 DEF EntryOrder
  <2>2. s[f[i]] \in Entries /\ s[f[j]] \in Entries
    BY <1>4
  <2>3. ~Before(s[f[j]], s[f[i]])
    BY <2>1, <2>2, BeforeIs
  <2> QED BY <1>4, <2>3
<1>7. Ids(t) = Ids(s)
  <2>1. ASSUME NEW x \in Ids(t) PROVE x \in Ids(s)
    <3>1. PICK e \in ToSet(t) : e.id = x
      BY <1>2, IdsOf
    <3> QED BY <1>2, <3>1, IdsOf
  <2>2. ASSUME NEW x \in Ids(s) PROVE x \in Ids(t)
    <3>1. PICK e \in ToSet(s) : e.id = x
      BY IdsOf
    <3> QED BY <1>2, <3>1, IdsOf
  <2> QED BY <2>1, <2>2
<1>8. ASSUME SameId(s) PROVE SameId(t)
  <2> SUFFICES ASSUME NEW i \in 1..n, NEW j \in 1..n, t[i].id = t[j].id, i # j PROVE FALSE
    BY <1>3 DEF SameId
  <2>1. f[i] = f[j]
    BY <1>3, <1>4, <1>8 DEF SameId
  <2>2. <<f[i], f[j]>> \in EntryOrder(s) \/ <<f[j], f[i]>> \in EntryOrder(s)
    BY <1>5
  <2>3. <<f[i], f[i]>> \in EntryOrder(s)
    BY <2>1, <2>2
  <2>4. \A k \in DOMAIN s : <<k, k>> \notin EntryOrder(s)
    BY EntryOrderIs DEF IsOrder
  <2> QED BY <1>3, <1>4, <2>3, <2>4
<1> QED BY <1>2, <1>6, <1>7, <1>8 DEF t

LEMMA TestBeforeIs ==
  ASSUME NEW a \in TestEntries, NEW b \in TestEntries, NEW c \in TestEntries
  PROVE  /\ ~TestBefore(a, a)
         /\ TestBefore(a, b) => ~TestBefore(b, a)
         /\ TestBefore(a, b) /\ ~TestBefore(c, b) => TestBefore(a, c)
         /\ ~TestBefore(b, a) /\ TestBefore(b, c) => TestBefore(a, c)
         /\ ~TestBefore(b, a) /\ ~TestBefore(c, b) => ~TestBefore(c, a)
<1>1. /\ a.ok \in Nat /\ b.ok \in Nat /\ c.ok \in Nat
      /\ a.ttfb \in Nat /\ b.ttfb \in Nat /\ c.ttfb \in Nat
      /\ a.name \in Nat /\ b.name \in Nat /\ c.name \in Nat
  BY DEF TestEntries
<1>2. CASE job.then = "methods"
  BY <1>1, <1>2 DEF TestBefore
<1>3. CASE ~(job.then = "methods")
  BY <1>1, <1>3 DEF TestBefore
<1> QED BY <1>2, <1>3

LEMMA TestOrderIs ==
  ASSUME NEW s \in Seq(TestEntries)
  PROVE  IsOrder(DOMAIN s, TestOrder(s))
<1>1. DOMAIN s = 1..Len(s) /\ \A i \in DOMAIN s : s[i] \in TestEntries /\ i \in Int
  OBVIOUS
<1>2. ASSUME NEW i \in DOMAIN s, NEW j \in DOMAIN s
      PROVE  <<i, j>> \in TestOrder(s)
               <=> TestBefore(s[i], s[j]) \/ (~TestBefore(s[j], s[i]) /\ i < j)
  <2> DEFINE p == <<i, j>>
             D == DOMAIN s
  <2>0. i \in D /\ j \in D
    OBVIOUS
  <2> HIDE DEF p, D
  <2>1. p \in D \X D /\ p[1] = i /\ p[2] = j
    BY <2>0, PairIs DEF p
  <2>2. p \in TestOrder(s) <=> TestBefore(s[p[1]], s[p[2]]) \/ (~TestBefore(s[p[2]], s[p[1]]) /\ p[1] < p[2])
    BY <2>1 DEF TestOrder, D
  <2> QED BY <2>1, <2>2 DEF p
<1>3. \A i \in DOMAIN s : <<i, i>> \notin TestOrder(s)
  BY <1>1, <1>2, TestBeforeIs
<1>4. \A i, j \in DOMAIN s : i # j => <<i, j>> \in TestOrder(s) \/ <<j, i>> \in TestOrder(s)
  BY <1>1, <1>2, TestBeforeIs
<1>5. ASSUME NEW i \in DOMAIN s, NEW j \in DOMAIN s, NEW k \in DOMAIN s,
             <<i, j>> \in TestOrder(s), <<j, k>> \in TestOrder(s)
      PROVE  <<i, k>> \in TestOrder(s)
  <2>1. /\ s[i] \in TestEntries /\ s[j] \in TestEntries /\ s[k] \in TestEntries
        /\ i \in Int /\ j \in Int /\ k \in Int
    BY <1>1
  <2> DEFINE a == s[i]
             b == s[j]
             c == s[k]
  <2>2. TestBefore(a, b) \/ (~TestBefore(b, a) /\ i < j)
    BY <1>2, <1>5
  <2>3. TestBefore(b, c) \/ (~TestBefore(c, b) /\ j < k)
    BY <1>2, <1>5
  <2>4. a \in TestEntries /\ b \in TestEntries /\ c \in TestEntries
    BY <2>1
  <2>5. TestBefore(a, c) \/ (~TestBefore(c, a) /\ i < k)
    <3> HIDE DEF a, b, c
    <3>1. TestBefore(a, b) => ~TestBefore(b, a)
      BY <2>4, TestBeforeIs
    <3>2. TestBefore(b, c) => ~TestBefore(c, b)
      BY <2>4, TestBeforeIs
    <3>3. TestBefore(a, b) /\ ~TestBefore(c, b) => TestBefore(a, c)
      BY <2>4, TestBeforeIs
    <3>4. ~TestBefore(b, a) /\ TestBefore(b, c) => TestBefore(a, c)
      BY <2>4, TestBeforeIs
    <3>5. ~TestBefore(b, a) /\ ~TestBefore(c, b) => ~TestBefore(c, a)
      BY <2>4, TestBeforeIs
    <3>6. i < j /\ j < k => i < k
      BY <2>1
    <3> QED BY <2>2, <2>3, <3>1, <3>2, <3>3, <3>4, <3>5, <3>6
  <2> QED BY <1>2, <2>5
<1> QED BY <1>3, <1>4, <1>5 DEF IsOrder

OncePerUnit(s) == \A i, j \in DOMAIN s : s[i].unit = s[j].unit => i = j

LEMMA RankedTestsIs ==
  ASSUME NEW s \in Seq(TestEntries), OncePerUnit(s)
  PROVE  /\ RankedTests(s) \in Seq(TestEntries) /\ ToSet(RankedTests(s)) = ToSet(s)
         /\ \A i, j \in DOMAIN RankedTests(s) : i < j => ~TestBefore(RankedTests(s)[j], RankedTests(s)[i])
         /\ OncePerUnit(RankedTests(s))
<1> DEFINE t == RankedTests(s)
           n == Len(s)
<1>1. t = Arranged(s, DOMAIN s, TestOrder(s))
  BY DEF RankedTests
<1>2. PICK f : /\ Lists(f, 1..n, TestOrder(s), n)
               /\ t = [k \in 1..n |-> s[f[k]]]
               /\ t \in Seq(TestEntries) /\ ToSet(t) = ToSet(s) /\ Len(t) = n
  BY <1>1, TestOrderIs, ArrangedAll
<1> HIDE DEF t
<1>3. n \in Nat /\ DOMAIN s = 1..n /\ DOMAIN t = 1..n
  BY <1>2
<1>4. \A k \in 1..n : f[k] \in 1..n /\ t[k] = s[f[k]] /\ s[k] \in TestEntries
  BY <1>2, <1>3 DEF Lists
<1>5. \A k, l \in 1..n : k < l => <<f[k], f[l]>> \in TestOrder(s)
  BY <1>2 DEF Lists
<1>6. ASSUME NEW i \in 1..n, NEW j \in 1..n, i < j PROVE ~TestBefore(t[j], t[i])
  <2>1. TestBefore(s[f[i]], s[f[j]]) \/ ~TestBefore(s[f[j]], s[f[i]])
    BY <1>5, <1>6 DEF TestOrder
  <2>2. s[f[i]] \in TestEntries /\ s[f[j]] \in TestEntries
    BY <1>4
  <2>3. ~TestBefore(s[f[j]], s[f[i]])
    BY <2>1, <2>2, TestBeforeIs
  <2> QED BY <1>4, <2>3
<1>7. OncePerUnit(t)
  <2> SUFFICES ASSUME NEW i \in 1..n, NEW j \in 1..n, t[i].unit = t[j].unit, i # j PROVE FALSE
    BY <1>3 DEF OncePerUnit
  <2>1. f[i] = f[j]
    BY <1>3, <1>4 DEF OncePerUnit
  <2>2. <<f[i], f[j]>> \in TestOrder(s) \/ <<f[j], f[i]>> \in TestOrder(s)
    BY <1>5
  <2>3. <<f[i], f[i]>> \in TestOrder(s)
    BY <2>1, <2>2
  <2>4. \A k \in DOMAIN s : <<k, k>> \notin TestOrder(s)
    BY TestOrderIs DEF IsOrder
  <2> QED BY <1>3, <1>4, <2>3, <2>4
<1> QED BY <1>2, <1>3, <1>6, <1>7 DEF t

LEMMA UnitsNamed ==
  ASSUME NEW s \in Seq(TestEntries), OncePerUnit(s)
  PROVE  Cardinality({s[i].unit : i \in DOMAIN s}) = Len(s)
<1> DEFINE n == Len(s)
           U == {s[i].unit : i \in DOMAIN s}
           t == [i \in 1..n |-> s[i].unit]
<1>1. n \in Nat /\ DOMAIN s = 1..n
  OBVIOUS
<1>2. t \in Seq(U) /\ Len(t) = n /\ DOMAIN t = 1..n
  <2>1. \A i \in 1..n : s[i].unit \in U
    BY <1>1
  <2> HIDE DEF n, U
  <2> QED BY <1>1, <2>1
<1>3. ToSet(t) = U
  BY <1>1 DEF ToSet
<1>4. IsInjective(t)
  <2>1. \A i, j \in 1..n : s[i].unit = s[j].unit => i = j
    BY <1>1 DEF OncePerUnit
  <2> HIDE DEF n
  <2> QED BY <2>1 DEF IsInjective
<1> HIDE DEF t, U
<1>5. Cardinality(ToSet(t)) = Len(t)
  BY <1>2, <1>4, FiniteElements
<1> QED BY <1>2, <1>3, <1>5 DEF U

(***************************************************************************)
(* The tests: what is tested and what a test yields.                       *)
(***************************************************************************)
LEMMA CandidatesAre ==
  ASSUME result \in Seq(Entries)
  PROVE  Candidates \in Seq(Entries)
<1> DEFINE P == {i \in DOMAIN result : result[i].score >= MinScore}
           ahead == {p \in P \X P : p[1] < p[2]}
           good == Arranged(result, P, ahead)
<1>1. P \in SUBSET (DOMAIN result) /\ \A i \in P : i \in Int
  OBVIOUS
<1>2. IsOrder(P, ahead)
  <2> HIDE DEF P
  <2>1. \A i, j \in P : <<i, j>> \in ahead <=> i < j
    OBVIOUS
  <2> HIDE DEF ahead
  <2> QED BY <1>1, <2>1 DEF IsOrder
<1>3. good \in Seq(Entries)
  <2> HIDE DEF P, ahead
  <2> QED BY <1>1, <1>2, ArrangedIs
<1>4. Candidates = IF TopN > 0 /\ Len(good) > TopN THEN SubSeq(good, 1, TopN) ELSE good
  BY DEF Candidates
<1> HIDE DEF good
<1> QED BY <1>3, <1>4, MethodScanAssumption

LEMMA UnitsAre ==
  ASSUME TypeInv
  PROVE  Units \in Seq(UnitRecs)
<1>1. CASE job.then = "methods" /\ Testable
  <2> DEFINE U == [i \in DOMAIN Methods |->
                     NewUnit(Methods[i].name, Methods[i].socket, Methods[i].known, 0)]
             M == [name : Nat, socket : BOOLEAN, known : BOOLEAN]
  <2>1. Units = U
    BY <1>1 DEF Units
  <2>2. Methods \in Seq(M)
    BY MethodScanAssumption
  <2>3. DOMAIN Methods = 1..Len(Methods) /\ Len(Methods) \in Nat
        /\ \A i \in 1..Len(Methods) : Methods[i] \in M
    <3> HIDE DEF M
    <3> QED BY <2>2
  <2>4. \A i \in 1..Len(Methods) :
          NewUnit(Methods[i].name, Methods[i].socket, Methods[i].known, 0) \in UnitRecs
    BY <2>3 DEF NewUnit, UnitRecs
  <2> HIDE DEF U
  <2>5. U \in [1..Len(Methods) -> UnitRecs]
    BY <2>3, <2>4 DEF U
  <2> QED BY <2>1, <2>3, <2>5
<1>2. CASE job.then = "proxy"
  <2> DEFINE C == Candidates
             U == [i \in DOMAIN C |-> NewUnit(i, job.socket, TRUE, C[i].score)]
  <2>1. Units = U
    BY <1>2 DEF Units
  <2>2. C \in Seq(Entries)
    BY CandidatesAre DEF TypeInv
  <2> HIDE DEF C
  <2>3. DOMAIN C = 1..Len(C) /\ Len(C) \in Nat /\ \A i \in 1..Len(C) : C[i] \in Entries
    BY <2>2
  <2>4. job.socket \in BOOLEAN
    BY JobIs
  <2>5. \A i \in 1..Len(C) : NewUnit(i, job.socket, TRUE, C[i].score) \in UnitRecs
    BY <2>3, <2>4 DEF NewUnit, UnitRecs, Entries
  <2>6. U \in [1..Len(C) -> UnitRecs]
    BY <2>3, <2>5
  <2> HIDE DEF U
  <2> QED BY <2>1, <2>3, <2>6
<1>3. CASE ~(job.then = "methods" /\ Testable) /\ job.then # "proxy"
  <2>1. Units = <<>>
    BY <1>3 DEF Units
  <2> QED BY <2>1
<1> QED BY <1>1, <1>2, <1>3

LEMMA CreditIs ==
  ASSUME TypeInv, TestTypeInv, unit # 0, NEW oks \in Nat
  PROVE  Credit(oks) \in Nat
<1>1. unit \in 1..Len(units) /\ units[unit] \in UnitRecs
  BY DEF TestTypeInv
<1>2. units[unit].score \in Nat
  BY <1>1 DEF UnitRecs
<1>3. ProxyScore(oks > 0) \in Nat
  BY DEF ProxyScore
<1>4. BlendScores(units[unit].score, ProxyScore(oks > 0)) \in Nat
  BY <1>2, <1>3 DEF BlendScores
<1> QED BY <1>4 DEF Credit

LEMMA TestEntryIs ==
  ASSUME TestTypeInv, unit # 0, NEW ok \in Nat, NEW ttfb \in Nat
  PROVE  /\ TestEntry(ok, ttfb) \in TestEntries /\ TestEntry(ok, ttfb).unit = unit
         /\ TestEntry(ok, ttfb).ttfb = ttfb
<1>1. unit \in 1..Len(units) /\ units[unit] \in UnitRecs
  BY DEF TestTypeInv
<1>2. units[unit].name \in Nat /\ unit \in Nat
  BY <1>1 DEF UnitRecs
<1> QED BY <1>2 DEF TestEntry, TestEntries

LEMMA OutcomeIs ==
  ASSUME TypeInv, TestTypeInv, unit # 0
  PROVE  Outcome \in TestEntries /\ Outcome.unit = unit
<1>1. samples \in Seq({1, NoLatency}) /\ NoLatency = 99
  BY DEF TestTypeInv, NoLatency
<1> DEFINE answered == {i \in DOMAIN samples : samples[i] # NoLatency}
           t == CHOOSE x \in ToSet(samples) : \A y \in ToSet(samples) : x <= y
<1>2. answered \in SUBSET (1..Len(samples)) /\ Len(samples) \in Nat
  BY <1>1
<1>3. Oks \in Nat /\ (Oks # 0 => answered # {})
  <2>1. Oks = Cardinality(answered)
    BY DEF Oks
  <2> HIDE DEF answered
  <2>2. Cardinality(answered) \in Nat /\ IsFiniteSet(answered)
    BY <1>2, PartOfUpTo
  <2>3. answered = {} => Cardinality(answered) = 0
    BY FS_EmptySet
  <2> QED BY <2>1, <2>2, <2>3
<1>4. ASSUME Oks # 0 PROVE t \in Nat
  <2>1. PICK i \in 1..Len(samples) : samples[i] # NoLatency
    BY <1>2, <1>3, <1>4
  <2>2. ToSet(samples) \subseteq {1, 99} /\ 1 \in ToSet(samples)
    BY <1>1, <2>1 DEF ToSet
  <2>3. t \in ToSet(samples)
    BY <2>2
  <2> HIDE DEF t
  <2> QED BY <2>2, <2>3
<1>5. Credit(Oks) \in Nat
  BY <1>3, CreditIs
<1> DEFINE best == IF Oks = 0 THEN NoLatency ELSE t
<1>6. best \in Nat
  BY <1>1, <1>4
<1>7. Outcome = TestEntry(Credit(Oks), best)
  BY DEF Outcome
<1> HIDE DEF best
<1> QED BY <1>5, <1>6, <1>7, TestEntryIs

(***************************************************************************)
(* The tests' half of the invariant: the worker.                           *)
(***************************************************************************)
LEMMA TestInitially ==
  ASSUME Init
  PROVE  TestInv
<1>1. TestTypeInv
  <2>1. /\ units = <<>> /\ unit = 0 /\ step = "idle" /\ worker = "none" /\ samples = <<>>
        /\ entries = <<>> /\ news = <<>> /\ seen = <<>> /\ report = <<>>
    BY DEF Init, TestInit
  <2>2. quit \in BOOLEAN
    BY DEF Init, TestInit
  <2>3. unit \in 0..Len(units)
    BY <2>1
  <2> QED BY <2>1, <2>2, <2>3 DEF TestTypeInv
<1>2. WorkerInv
  BY DEF Init, TestInit, ScanInit, WorkerInv, Free, Foreign
<1>3. NewsInv
  <2>1. entries = <<>> /\ seen = <<>> /\ news = <<>> /\ unit = 0 /\ step = "idle"
    BY DEF Init, TestInit
  <2>2. Told = <<>> /\ ToSet(entries) = {}
    BY <2>1 DEF Told, ToSet
  <2> QED BY <2>1, <2>2 DEF NewsInv
<1>4. ReportInv
  BY DEF Init, TestInit, ScanInit, ReportInv, ReportWhole
<1> QED BY <1>1, <1>2, <1>3, <1>4 DEF TestInv

\* A step of the scan moves the main thread only before the tests.
LEMMA ScanStepsKeepTests ==
  ASSUME TestInv, job' = job, UNCHANGED testVars,
         pc' = pc \/ (/\ pc \in {"load", "watch", "decide"}
                      /\ pc' \in {"load", "watch", "decide", "scanned", "error"})
  PROVE  TestInv'
<1>1. TestTypeInv' /\ NewsInv'
  BY DEF TestInv, TestTypeInv, NewsInv, testVars, Told
<1>2. WorkerInv'
  BY DEF TestInv, WorkerInv, testVars
<1>3. ReportInv'
  <2>1. CASE pc' = pc
    BY <2>1 DEF TestInv, ReportInv, ReportWhole, testVars, TestBefore
  <2>2. CASE pc' # pc
    BY <2>2 DEF ReportInv, ReportWhole
  <2> QED BY <2>1, <2>2
<1> QED BY <1>1, <1>2, <1>3 DEF TestInv

\* What the worker's steps leave alone.
LEMMA WorkerFrame ==
  ASSUME TestInv, UNCHANGED scanVars, UNCHANGED <<units, seen, quit, report>>
  PROVE  /\ pc' = pc /\ job' = job
         /\ worker' = worker /\ entries' = entries /\ news' = news => ReportInv'
         /\ worker = "run" /\ worker' \in {"run", "left"} /\ entries' = entries /\ news' = news
              => ReportInv'
         /\ worker = "run" /\ worker' = "run" => ReportInv'
<1>1. pc' = pc /\ job' = job
  BY DEF scanVars, mainVars
<1>2. ASSUME worker' = worker, entries' = entries, news' = news PROVE ReportInv'
  BY <1>1, <1>2 DEF TestInv, ReportInv, ReportWhole, TestBefore
<1>3. ASSUME worker = "run", worker' \in {"run", "left"}, entries' = entries, news' = news
      PROVE  ReportInv'
  BY <1>1, <1>3 DEF TestInv, ReportInv, ReportWhole, TestBefore
<1>4. ASSUME worker = "run", worker' = "run" PROVE ReportInv'
  <2>1. pc \in {"judge", "view", "leaving"} => quit
    BY <1>4 DEF TestInv, ReportInv
  <2>2. ReportWhole'
    BY <1>1, <1>4, <2>1 DEF TestInv, ReportInv, ReportWhole, TestBefore
  <2> QED BY <1>1, <1>4, <2>1, <2>2 DEF TestInv, ReportInv
<1> QED BY <1>1, <1>2, <1>3, <1>4

NewsStays == UNCHANGED <<unit, entries, seen, news>> /\ job' = job

LEMMA NewsFrame ==
  ASSUME NewsInv, NewsStays, step' = step \/ (step \in {"idle", "gap"} <=> step' \in {"idle", "gap"})
  PROVE  NewsInv'
BY DEF NewsInv, NewsStays, Told

LEMMA EnginesOpen ==
  ASSUME TestInv, NextUnit \/ SkipEngine \/ OpenEngine \/ OpenHelper \/ Bind
  PROVE  TestInv'
<1>0. TestTypeInv /\ WorkerInv /\ NewsInv /\ ReportInv
  BY DEF TestInv
<1>1. unit \in Nat /\ Len(units) \in Nat /\ unit <= Len(units) /\ unit \in Int
  BY <1>0 DEF TestTypeInv
<1>2. CASE NextUnit
  <2>1. /\ unit' = unit + 1 /\ unit < Len(units) /\ step = "idle" /\ step' = "open"
        /\ worker = "run" /\ worker' = "run" /\ samples' = <<>> /\ via' = {}
        /\ UNCHANGED <<scanVars, units, seen, quit, report, engines, stopping, late, port, closing,
                       entries, news, helper>>
    BY <1>2 DEF NextUnit, NotMain, WorkerAt
  <2>2. pc' = pc /\ job' = job /\ ReportInv'
    BY <2>1, WorkerFrame
  <2>3. TestTypeInv'
    BY <1>0, <1>1, <2>1 DEF TestTypeInv
  <2>4. WorkerInv'
    BY <1>0, <1>1, <2>1, <2>2 DEF WorkerInv
  <2>5. NewsInv'
    BY <1>0, <1>1, <2>1, <2>2 DEF NewsInv, Told
  <2> QED BY <2>2, <2>3, <2>4, <2>5 DEF TestInv
<1>3. CASE SkipEngine \/ OpenEngine \/ OpenHelper
  <2>1. /\ step = "open" /\ step' = "bind" /\ worker = "run" /\ worker' = "run"
        /\ engines' \subseteq engines \cup {unit}
        /\ UNCHANGED <<scanVars, units, seen, quit, report, unit, stopping, late, port, closing,
                       entries, news, samples, via>>
    BY <1>3 DEF SkipEngine, OpenEngine, OpenHelper, NotMain, WorkerAt
  <2>2. pc' = pc /\ job' = job /\ ReportInv'
    BY <2>1, WorkerFrame
  <2>3. TestTypeInv'
    BY <1>0, <2>1 DEF TestTypeInv
  <2>4. WorkerInv'
    BY <1>0, <1>1, <2>1, <2>2 DEF WorkerInv
  <2>5. NewsInv'
    BY <1>0, <2>1, <2>2, NewsFrame DEF NewsStays
  <2> QED BY <2>2, <2>3, <2>4, <2>5 DEF TestInv
<1>4. CASE Bind
  <2>1. /\ step = "bind" /\ step' = "sample" /\ worker = "run" /\ worker' = "run"
        /\ port' = IF port = Free THEN unit ELSE port
        /\ UNCHANGED <<scanVars, units, seen, quit, report, unit, engines, stopping, late, closing,
                       entries, news, samples, via, helper>>
    BY <1>4 DEF Bind, NotMain, WorkerAt
  <2>2. pc' = pc /\ job' = job /\ ReportInv'
    BY <2>1, WorkerFrame
  <2>3. TestTypeInv'
    BY <1>0, <2>1 DEF TestTypeInv
  <2>4. WorkerInv'
    BY <1>0, <1>1, <2>1, <2>2 DEF WorkerInv
  <2>5. NewsInv'
    BY <1>0, <2>1, <2>2, NewsFrame DEF NewsStays
  <2> QED BY <2>2, <2>3, <2>4, <2>5 DEF TestInv
<1> QED BY <1>2, <1>3, <1>4

LEMMA SamplesAreTaken ==
  ASSUME TestInv, Sample \/ TakeDown \/ GapOver \/ DropListener \/ (\E u \in engines : EngineEnds(u))
  PROVE  TestInv'
<1>0. TestTypeInv /\ WorkerInv /\ NewsInv /\ ReportInv
  BY DEF TestInv
<1>1. unit \in Nat /\ Len(units) \in Nat /\ unit <= Len(units) /\ unit \in Int
  BY <1>0 DEF TestTypeInv
<1>2. CASE Sample
  <2>1. PICK t \in {1, NoLatency} :
          /\ t = NoLatency \/ port # Free
          /\ samples' = Append(samples, t)
          /\ via' = IF t = NoLatency THEN via ELSE via \cup {port}
    BY <1>2 DEF Sample
  <2>2. /\ step = "sample" /\ step' = step /\ worker = "run" /\ worker' = "run"
        /\ UNCHANGED <<scanVars, units, seen, quit, report, unit, engines, stopping, late, port,
                       closing, entries, news, helper>>
    BY <1>2 DEF Sample, NotMain, WorkerAt
  <2>3. pc' = pc /\ job' = job /\ ReportInv'
    BY <2>2, WorkerFrame
  <2>4. TestTypeInv'
    <3>1. samples' \in Seq({1, NoLatency})
      BY <1>0, <2>1 DEF TestTypeInv
    <3> QED BY <1>0, <2>2, <3>1 DEF TestTypeInv
  <2>5. via' \subseteq {unit, Foreign}
    BY <1>0, <2>1 DEF WorkerInv
  <2>6. WorkerInv'
    BY <1>0, <2>2, <2>3, <2>5 DEF WorkerInv
  <2>7. NewsInv'
    BY <1>0, <2>2, <2>3, NewsFrame DEF NewsStays
  <2> QED BY <2>3, <2>4, <2>6, <2>7 DEF TestInv
<1>3. CASE TakeDown
  <2>1. /\ step = "sample" /\ step' = "down" /\ worker = "run" /\ worker' = "run" /\ closing' = TRUE
        /\ UNCHANGED <<scanVars, units, seen, quit, report, unit, engines, late, port,
                       entries, news, samples, via, helper>>
    BY <1>3 DEF TakeDown, NotMain, WorkerAt
  <2>2. pc' = pc /\ job' = job /\ ReportInv'
    BY <2>1, WorkerFrame
  <2>3. TestTypeInv'
    BY <1>0, <2>1 DEF TestTypeInv
  <2>4. WorkerInv'
    BY <1>0, <1>1, <2>1, <2>2 DEF WorkerInv
  <2>5. NewsInv'
    BY <1>0, <2>1, <2>2, NewsFrame DEF NewsStays
  <2> QED BY <2>2, <2>3, <2>4, <2>5 DEF TestInv
<1>4. CASE GapOver
  <2>1. /\ step = "gap" /\ step' = "idle" /\ worker = "run" /\ worker' = "run" /\ ~closing
        /\ UNCHANGED <<scanVars, units, seen, quit, report, unit, engines, late, port, closing,
                       entries, news, samples, via, helper>>
    BY <1>4 DEF GapOver, NotMain, WorkerAt
  <2>2. pc' = pc /\ job' = job /\ ReportInv'
    BY <2>1, WorkerFrame
  <2>3. TestTypeInv'
    BY <1>0, <2>1 DEF TestTypeInv
  <2>4. WorkerInv'
    BY <1>0, <1>1, <2>1, <2>2 DEF WorkerInv
  <2>5. NewsInv'
    BY <1>0, <2>1, <2>2, NewsFrame DEF NewsStays
  <2> QED BY <2>2, <2>3, <2>4, <2>5 DEF TestInv
<1>5. CASE DropListener
  <2>1. /\ closing /\ closing' = FALSE /\ port' = IF port = unit THEN Free ELSE port
        /\ UNCHANGED <<scanVars, units, seen, quit, report, unit, engines, late, step, worker,
                       entries, news, samples, via, helper>>
    BY <1>5 DEF DropListener, NotMain
  <2>2. pc' = pc /\ job' = job /\ ReportInv'
    BY <2>1, WorkerFrame
  <2>3. TestTypeInv'
    BY <1>0, <2>1 DEF TestTypeInv
  <2>4. WorkerInv'
    BY <1>0, <1>1, <2>1, <2>2 DEF WorkerInv
  <2>5. NewsInv'
    BY <1>0, <2>1, <2>2, NewsFrame DEF NewsStays
  <2> QED BY <2>2, <2>3, <2>4, <2>5 DEF TestInv
<1>6. CASE \E u \in engines : EngineEnds(u)
  <2>1. /\ engines' \subseteq engines
        /\ UNCHANGED <<scanVars, units, seen, quit, report, unit, late, step, worker, port, closing,
                       entries, news, samples, via, helper>>
    BY <1>6 DEF EngineEnds, NotMain
  <2>2. pc' = pc /\ job' = job /\ ReportInv'
    BY <2>1, WorkerFrame
  <2>3. TestTypeInv'
    BY <1>0, <2>1 DEF TestTypeInv
  <2>4. WorkerInv'
    BY <1>0, <1>1, <2>1, <2>2 DEF WorkerInv
  <2>5. NewsInv'
    BY <1>0, <2>1, <2>2, NewsFrame DEF NewsStays
  <2> QED BY <2>2, <2>3, <2>4, <2>5 DEF TestInv
<1> QED BY <1>2, <1>3, <1>4, <1>5, <1>6

LEMMA OneMoreTold ==
  ASSUME NEW S, NEW s \in Seq(S), NEW t \in Seq(S), NEW e \in S
  PROVE  s \o Append(t, e) = Append(s \o t, e)
OBVIOUS

LEMMA HeadIsTold ==
  ASSUME NEW S, NEW s \in Seq(S), NEW t \in Seq(S), t # <<>>
  PROVE  Append(s, Head(t)) \o Tail(t) = s \o t
OBVIOUS

\* A unit's entry is the next one, and the next that is announced if it is announced.
LEMMA EntryIsAdded ==
  ASSUME TestTypeInv, NewsInv, unit # 0, step \notin {"idle", "gap"}, step' = "gap",
         UNCHANGED <<unit, seen>>, job' = job, NEW e \in TestEntries, e.unit = unit,
         entries' = Append(entries, e),
         \/ news' = Append(news, e)
         \/ news' = news /\ e.ttfb = NoLatency /\ job.then # "proxy"
  PROVE  NewsInv' /\ entries' \in Seq(TestEntries) /\ news' \in Seq(TestEntries)
<1>1. /\ entries \in Seq(TestEntries) /\ news \in Seq(TestEntries) /\ seen \in Seq(TestEntries)
      /\ unit \in Nat
  BY DEF TestTypeInv
<1>2. entries' \in Seq(TestEntries) /\ news' \in Seq(TestEntries)
  <2>1. entries' \in Seq(TestEntries)
    BY <1>1, AppendProperties
  <2>2. Append(news, e) \in Seq(TestEntries)
    BY <1>1, AppendProperties
  <2> QED BY <1>1, <2>1, <2>2
<1> DEFINE n == Len(entries)
<1>3. n = unit - 1 /\ n \in Nat /\ DOMAIN entries = 1..n
  BY <1>1 DEF NewsInv
<1>4. /\ DOMAIN entries' = 1..(n + 1) /\ Len(entries') = n + 1
      /\ \A i \in 1..n : entries'[i] = entries[i]
      /\ entries'[n + 1] = e
      /\ ToSet(entries') = ToSet(entries) \cup {e}
  BY <1>1, Appended
<1>5. \A i \in 1..(n + 1) : i \in 1..n \/ i = n + 1
  BY <1>3
<1> HIDE DEF n
<1>0. \A i \in 1..n : entries[i].unit = i
  BY <1>3 DEF NewsInv
<1>6. \A i \in DOMAIN entries' : entries'[i].unit = i
  <2>1. n + 1 = unit
    BY <1>1, <1>3
  <2> QED BY <1>0, <1>4, <1>5, <2>1
<1>7. Told \in Seq(TestEntries)
  BY <1>1 DEF Told
<1>8. \A i \in DOMAIN Told : Told[i].unit # unit
  <2> TAKE i \in DOMAIN Told
  <2>1. PICK j \in 1..n : Told[i] = entries[j]
    BY <1>3 DEF NewsInv, ToSet
  <2>2. Told[i].unit = j /\ j # unit
    BY <1>0, <1>1, <1>3, <2>1
  <2> QED BY <2>2
<1>9. CASE news' = Append(news, e)
  <2>1. Told' = Append(Told, e)
    BY <1>1, <1>9, OneMoreTold DEF Told
  <2> DEFINE m == Len(Told)
  <2>2. /\ DOMAIN Told = 1..m /\ m \in Nat /\ DOMAIN Told' = 1..(m + 1)
        /\ \A i \in 1..m : Told'[i] = Told[i]
        /\ Told'[m + 1] = e
        /\ ToSet(Told') = ToSet(Told) \cup {e}
    BY <1>7, <2>1, Appended
  <2> HIDE DEF m
  <2>3. \A i \in 1..(m + 1) : i \in 1..m \/ i = m + 1
    BY <2>2
  <2>4. \A i \in DOMAIN Told' : Told'[i] \in ToSet(entries')
    BY <1>4, <2>2, <2>3 DEF NewsInv
  <2>5. \A i, j \in DOMAIN Told' : Told'[i].unit = Told'[j].unit => i = j
    <3>1. \A i, j \in 1..m : Told[i].unit = Told[j].unit => i = j
      BY <2>2 DEF NewsInv
    <3> QED BY <1>8, <2>2, <2>3, <3>1
  <2>6. \A x \in ToSet(entries') : x.ttfb # NoLatency \/ job'.then = "proxy" => x \in ToSet(Told')
    BY <1>4, <2>2 DEF NewsInv
  <2> QED BY <1>1, <1>2, <1>3, <1>4, <1>6, <2>4, <2>5, <2>6 DEF NewsInv
<1>10. CASE news' = news /\ e.ttfb = NoLatency /\ job.then # "proxy"
  <2>1. Told' = Told
    BY <1>10 DEF Told
  <2>2. \A i \in DOMAIN Told' : Told'[i] \in ToSet(entries')
    BY <1>4, <2>1 DEF NewsInv
  <2>3. \A i, j \in DOMAIN Told' : Told'[i].unit = Told'[j].unit => i = j
    BY <2>1 DEF NewsInv
  <2>4. \A x \in ToSet(entries') : x.ttfb # NoLatency \/ job'.then = "proxy" => x \in ToSet(Told')
    BY <1>4, <1>10, <2>1 DEF NewsInv
  <2> QED BY <1>1, <1>2, <1>3, <1>4, <1>6, <2>2, <2>3, <2>4 DEF NewsInv
<1> QED BY <1>9, <1>10

LEMMA UnitsAreDone ==
  ASSUME TypeInv, TestInv, EngineFails \/ EngineDown
  PROVE  TestInv'
<1>0. TestTypeInv /\ WorkerInv /\ NewsInv /\ ReportInv
  BY DEF TestInv
<1>1. CASE EngineFails
  <2> DEFINE e == TestEntry(Credit(0), NoLatency)
  <2>1. /\ step = "open" /\ step' = "gap" /\ worker = "run" /\ worker' = "run"
        /\ entries' = Append(entries, e)
        /\ news' = IF job.then = "proxy" THEN Append(news, e) ELSE news
        /\ UNCHANGED <<scanVars, units, seen, quit, report, unit, engines, late, port, closing,
                       samples, via, helper>>
    BY <1>1 DEF EngineFails, NotMain, WorkerAt
  <2>2. unit # 0
    BY <1>0, <2>1 DEF WorkerInv
  <2>3. e \in TestEntries /\ e.unit = unit /\ e.ttfb = NoLatency
    <3>1. Credit(0) \in Nat /\ NoLatency \in Nat
      BY <1>0, <2>2, CreditIs DEF NoLatency
    <3> QED BY <1>0, <2>2, <3>1, TestEntryIs
  <2> HIDE DEF e
  <2>4. pc' = pc /\ job' = job /\ ReportInv'
    BY <2>1, WorkerFrame
  <2>5. NewsInv' /\ entries' \in Seq(TestEntries) /\ news' \in Seq(TestEntries)
    BY <1>0, <2>1, <2>2, <2>3, <2>4, EntryIsAdded
  <2>6. TestTypeInv'
    BY <1>0, <2>1, <2>5 DEF TestTypeInv
  <2>7. WorkerInv'
    BY <1>0, <2>1, <2>4 DEF WorkerInv
  <2> QED BY <2>4, <2>5, <2>6, <2>7 DEF TestInv
<1>2. CASE EngineDown
  <2>1. /\ step = "down" /\ step' = "gap" /\ worker = "run" /\ worker' = "run"
        /\ entries' = Append(entries, Outcome) /\ news' = Append(news, Outcome)
        /\ (unit \notin engines /\ late' = late) \/ (late' = late \cup {unit})
        /\ UNCHANGED <<scanVars, units, seen, quit, report, unit, engines, port, closing,
                       samples, via>>
    BY <1>2 DEF EngineDown, NotMain, WorkerAt
  <2>2. unit # 0
    BY <1>0, <2>1 DEF WorkerInv
  <2>3. Outcome \in TestEntries /\ Outcome.unit = unit
    BY <1>0, <2>2, OutcomeIs
  <2>4. pc' = pc /\ job' = job /\ ReportInv'
    BY <2>1, WorkerFrame
  <2>5. NewsInv' /\ entries' \in Seq(TestEntries) /\ news' \in Seq(TestEntries)
    BY <1>0, <2>1, <2>2, <2>3, <2>4, EntryIsAdded
  <2>6. TestTypeInv'
    BY <1>0, <2>1, <2>5 DEF TestTypeInv
  <2>7. engines' \ late' \subseteq {}
    BY <1>0, <2>1 DEF WorkerInv
  <2>8. WorkerInv'
    BY <1>0, <2>1, <2>4, <2>7 DEF WorkerInv
  <2> QED BY <2>4, <2>5, <2>6, <2>8 DEF TestInv
<1> QED BY <1>1, <1>2

LEMMA WorkerLeaves ==
  ASSUME TestInv, WorkerEnds \/ WorkerFinishes
  PROVE  TestInv'
<1>0. TestTypeInv /\ WorkerInv /\ NewsInv /\ ReportInv
  BY DEF TestInv
<1>1. CASE WorkerEnds
  <2>1. /\ step = "idle" /\ worker = "run" /\ worker' = "left" /\ unit = Len(units)
        /\ helper' \in {"none", "down"}
        /\ UNCHANGED <<scanVars, units, seen, quit, report, unit, step, engines, late, port, closing,
                       entries, news, samples, via>>
    BY <1>1 DEF WorkerEnds, WorkerAt
  <2>2. pc' = pc /\ job' = job /\ ReportInv'
    BY <2>1, WorkerFrame
  <2>3. TestTypeInv'
    BY <1>0, <2>1 DEF TestTypeInv
  <2>4. pc # "exit" /\ pc \notin {"load", "watch", "decide", "scanned"}
    BY <1>0, <2>1 DEF WorkerInv
  <2>5. WorkerInv'
    BY <1>0, <2>1, <2>2, <2>4 DEF WorkerInv
  <2>6. NewsInv'
    BY <1>0, <2>1, <2>2, NewsFrame DEF NewsStays
  <2> QED BY <2>2, <2>3, <2>5, <2>6 DEF TestInv
<1>2. CASE WorkerFinishes
  <2>1. /\ worker = "left" /\ worker' = "finished"
        /\ UNCHANGED <<scanVars, units, seen, quit, report, unit, step, engines, late, port, closing,
                       entries, news, samples, via, helper>>
    BY <1>2 DEF WorkerFinishes
  <2>2. pc' = pc /\ job' = job
    BY <2>1, WorkerFrame
  <2>3. ReportInv'
    BY <1>0, <2>1, <2>2 DEF ReportInv, ReportWhole, TestBefore
  <2>4. TestTypeInv'
    BY <1>0, <2>1 DEF TestTypeInv
  <2>5. WorkerInv'
    BY <1>0, <2>1, <2>2 DEF WorkerInv
  <2>6. NewsInv'
    BY <1>0, <2>1, <2>2, NewsFrame DEF NewsStays
  <2> QED BY <2>3, <2>4, <2>5, <2>6 DEF TestInv
<1> QED BY <1>1, <1>2

(***************************************************************************)
(* The main thread during the tests.                                       *)
(***************************************************************************)
LEMMA TestsStart ==
  ASSUME TypeInv, TestInv, Report \/ StartTests \/ CannotTest
  PROVE  TestInv'
<1>0. TestTypeInv /\ WorkerInv /\ NewsInv /\ ReportInv
  BY DEF TestInv
<1>1. pc = "scanned" /\ job' = job
  BY DEF Report, StartTests, CannotTest, ScanDropped, ScanStays
<1>2. worker = "none" /\ unit = 0 /\ step = "idle"
  BY <1>0, <1>1 DEF WorkerInv
<1>3. CASE Report \/ CannotTest
  <2>1. pc' \in {"view", "leaving", "error"} /\ UNCHANGED testVars
    BY <1>3 DEF Report, CannotTest
  <2>2. TestTypeInv' /\ NewsInv'
    BY <1>0, <1>1, <2>1 DEF TestTypeInv, NewsInv, testVars, Told
  <2>3. WorkerInv'
    BY <1>0, <2>1 DEF WorkerInv, testVars
  <2>4. ReportInv'
    BY <1>2, <2>1 DEF ReportInv, ReportWhole, testVars
  <2> QED BY <2>2, <2>3, <2>4 DEF TestInv
<1>4. CASE StartTests
  <2>1. /\ pc' = "test" /\ units' = Units /\ worker' = "run"
        /\ UNCHANGED <<unit, step, engines, stopping, late, port, closing, samples, via, entries, news,
                       seen, quit, report, helper>>
    BY <1>4 DEF StartTests
  <2>2. units' \in Seq(UnitRecs) /\ unit' \in 0..Len(units')
    <3>1. units' \in Seq(UnitRecs) /\ unit' = 0
      BY <1>2, <2>1, UnitsAre
    <3> QED BY <3>1
  <2>3. TestTypeInv'
    BY <1>0, <2>1, <2>2 DEF TestTypeInv
  <2>4. NewsInv'
    BY <1>0, <1>1, <2>1 DEF NewsInv, Told
  <2>5. WorkerInv'
    BY <1>0, <1>2, <2>1 DEF WorkerInv
  <2>6. ReportInv'
    BY <2>1 DEF ReportInv, ReportWhole
  <2> QED BY <2>3, <2>4, <2>5, <2>6 DEF TestInv
<1> QED BY <1>3, <1>4

LEMMA NewsIsRead ==
  ASSUME TestInv, ReadNews
  PROVE  TestInv'
<1>0. TestTypeInv /\ WorkerInv /\ NewsInv /\ ReportInv
  BY DEF TestInv
<1>1. /\ pc = "test" /\ pc' = pc /\ job' = job /\ news # <<>> /\ news' = Tail(news)
      /\ seen' = Append(seen, Head(news))
      /\ UNCHANGED <<units, unit, step, worker, engines, late, port, closing, samples, via, entries,
                     helper, quit, report>>
  BY DEF ReadNews, WorkerStays, ScanStays
<1>2. news \in Seq(TestEntries) /\ seen \in Seq(TestEntries)
  BY <1>0 DEF TestTypeInv
<1>3. Told' = Told
  BY <1>1, <1>2, HeadIsTold DEF Told
<1>4. news' \in Seq(TestEntries) /\ seen' \in Seq(TestEntries)
  <2>1. Head(news) \in TestEntries /\ Tail(news) \in Seq(TestEntries)
    BY <1>1, <1>2, Headed
  <2> QED BY <1>1, <1>2, <2>1, AppendProperties
<1>5. TestTypeInv'
  BY <1>0, <1>1, <1>4 DEF TestTypeInv
<1>6. NewsInv'
  BY <1>0, <1>1, <1>3 DEF NewsInv
<1>7. WorkerInv'
  BY <1>0, <1>1 DEF WorkerInv
<1>8. ReportInv'
  BY <1>1 DEF ReportInv, ReportWhole
<1> QED BY <1>5, <1>6, <1>7, <1>8 DEF TestInv

LEMMA MainMovesOn ==
  ASSUME TestInv, NewsEnds \/ UserQuits \/ CloseView \/ Exit
  PROVE  TestInv'
<1>0. TestTypeInv /\ WorkerInv /\ NewsInv /\ ReportInv
  BY DEF TestInv
<1>1. job' = job /\ UNCHANGED <<units, unit, step, worker, engines, late, port, closing, samples, via,
                                entries, news, seen, helper, report>>
  BY DEF NewsEnds, UserQuits, CloseView, Exit, WorkerStays, ScanStays, testVars
<1>2. NewsInv'
  BY <1>0, <1>1 DEF NewsInv, Told
<1>3. CASE NewsEnds
  <2>1. /\ pc = "test" /\ job.ui = "tui" /\ news = <<>> /\ worker \in {"left", "finished"}
        /\ pc' = "judge" /\ quit' = quit
    BY <1>3 DEF NewsEnds
  <2>2. TestTypeInv' /\ WorkerInv'
    BY <1>0, <1>1, <2>1 DEF TestTypeInv, WorkerInv
  <2>3. ReportInv'
    BY <1>1, <2>1 DEF ReportInv, ReportWhole
  <2> QED BY <1>2, <2>2, <2>3 DEF TestInv
<1>4. CASE UserQuits
  <2>1. pc = "test" /\ job.ui = "tui" /\ pc' = "judge"
    BY <1>4 DEF UserQuits
  <2>2. quit' = TRUE
    BY <1>4 DEF UserQuits
  <2>3. quit' \in BOOLEAN /\ quit'
    BY <2>2
  <2>4. TestTypeInv' /\ WorkerInv'
    BY <1>0, <1>1, <2>1, <2>3 DEF TestTypeInv, WorkerInv
  <2>5. ReportInv'
    BY <1>1, <2>1, <2>3 DEF ReportInv, ReportWhole
  <2> QED BY <1>2, <2>4, <2>5 DEF TestInv
<1>5. CASE CloseView
  <2>1. pc = "view" /\ pc' = "leaving" /\ quit' = quit
    BY <1>5 DEF CloseView, testVars
  <2>2. TestTypeInv' /\ WorkerInv'
    BY <1>0, <1>1, <2>1 DEF TestTypeInv, WorkerInv
  <2>3. ReportInv'
    BY <1>0, <1>1, <2>1 DEF ReportInv, ReportWhole, TestBefore
  <2> QED BY <1>2, <2>2, <2>3 DEF TestInv
<1>6. CASE Exit
  <2>1. pc = "leaving" /\ worker \in {"none", "finished"} /\ pc' = "exit" /\ quit' = quit
    BY <1>6 DEF Exit, testVars
  <2>2. TestTypeInv' /\ WorkerInv'
    BY <1>0, <1>1, <2>1 DEF TestTypeInv, WorkerInv
  <2>3. ReportInv'
    BY <2>1 DEF ReportInv, ReportWhole
  <2> QED BY <1>2, <2>2, <2>3 DEF TestInv
<1> QED BY <1>3, <1>4, <1>5, <1>6

\* The final list, from the worker's entries or from the announced ones.
LEMMA ReportIsWhole ==
  ASSUME TestTypeInv, WorkerInv, NewsInv, NEW s \in Seq(TestEntries), OncePerUnit(s),
         report' = RankedTests(s), UNCHANGED <<entries, units, quit, job>>,
         ~quit => \A e \in ToSet(entries) : e.ttfb # NoLatency => e \in ToSet(s),
         job.ui # "tui" \/ (~quit /\ job.then = "proxy") =>
           ToSet(s) = ToSet(entries) /\ unit = Len(units) /\ step = "idle"
  PROVE  ReportWhole' /\ report' \in Seq(TestEntries)
<1>0. PICK r : r = RankedTests(s)
  OBVIOUS
<1> DEFINE N == {r[i].unit : i \in DOMAIN r}
<1>1. /\ r \in Seq(TestEntries) /\ ToSet(r) = ToSet(s) /\ OncePerUnit(r)
      /\ \A i, j \in DOMAIN r : i < j => ~TestBefore(r[j], r[i])
  BY <1>0, RankedTestsIs
<1>2. Cardinality(N) = Len(r)
  BY <1>1, UnitsNamed
<1>3. \A e \in ToSet(s) : e.unit \in N
  BY <1>1 DEF ToSet
<1>4. \A u \in N : \E e \in ToSet(s) : e.unit = u
  <2> TAKE u \in N
  <2>1. PICK i \in DOMAIN r : r[i].unit = u
    OBVIOUS
  <2>2. r[i] \in ToSet(s)
    BY <1>1 DEF ToSet
  <2> QED BY <2>1, <2>2
<1> HIDE DEF N
<1>5. ~quit' => {e.unit : e \in {x \in ToSet(entries') : x.ttfb # NoLatency}} \subseteq N
  BY <1>3
<1>6. ASSUME job'.ui # "tui" \/ (~quit' /\ job'.then = "proxy") PROVE N = DOMAIN units'
  <2>1. ToSet(s) = ToSet(entries) /\ unit = Len(units) /\ step = "idle"
    BY <1>6
  <2>2. /\ DOMAIN units = 1..Len(units) /\ DOMAIN entries = 1..Len(units)
        /\ \A i \in DOMAIN entries : entries[i].unit = i
    BY <2>1 DEF NewsInv, TestTypeInv
  <2>3. \A i \in DOMAIN units : i \in N
    BY <1>3, <2>1, <2>2 DEF ToSet
  <2>4. \A u \in N : u \in DOMAIN units
    <3> TAKE u \in N
    <3>1. PICK e \in ToSet(entries) : e.unit = u
      BY <1>4, <2>1
    <3>2. PICK i \in DOMAIN entries : e = entries[i]
      BY <3>1 DEF ToSet
    <3> QED BY <2>2, <3>1, <3>2
  <2> QED BY <2>3, <2>4
<1>7. report' = r
  BY <1>0
<1>8. \A i, j \in DOMAIN r : i < j => ~TestBefore(r[j], r[i])'
  BY <1>1 DEF TestBefore
<1> QED BY <1>1, <1>2, <1>5, <1>6, <1>7, <1>8 DEF ReportWhole, N, TestBefore

LEMMA TestsAreJudged ==
  ASSUME TestInv, Judge \/ HeadlessTestsEnd
  PROVE  TestInv'
<1>0. TestTypeInv /\ WorkerInv /\ NewsInv /\ ReportInv
  BY DEF TestInv
<1>1. job' = job /\ UNCHANGED <<units, unit, step, worker, engines, late, port, closing, samples, via,
                                entries, news, seen, helper, quit>>
  BY DEF Judge, HeadlessTestsEnd, WorkerStays, ScanStays
<1>2. NewsInv'
  BY <1>0, <1>1 DEF NewsInv, Told
<1>3. /\ entries \in Seq(TestEntries) /\ seen \in Seq(TestEntries) /\ news \in Seq(TestEntries)
      /\ OncePerUnit(entries)
  BY <1>0 DEF TestTypeInv, NewsInv, OncePerUnit
<1>4. worker # "run" => step = "idle"
  BY <1>0 DEF WorkerInv
<1>5. pc' \in {"view", "leaving"} /\ worker # "none" /\ pc \in {"test", "judge"}
  BY <1>0 DEF Judge, HeadlessTestsEnd, WorkerInv
<1>6. WorkerInv'
  BY <1>0, <1>1, <1>5 DEF WorkerInv
<1>7. CASE Judge
  <2>1. pc = "judge" /\ report' = RankedTests(IF worker = "finished" THEN entries ELSE seen)
    BY <1>7 DEF Judge
  <2>2. /\ job.ui = "tui" /\ (~quit => news = <<>>)
        /\ ~quit => worker \in {"left", "finished"} /\ unit = Len(units)
    BY <1>0, <1>5, <2>1 DEF ReportInv, WorkerInv
  <2>3. ReportWhole' /\ report' \in Seq(TestEntries)
    <3>1. CASE worker = "finished"
      <4>1. report' = RankedTests(entries) /\ unit = Len(units)
        BY <1>0, <2>1, <3>1 DEF WorkerInv
      <4>2. PICK s : s = entries
        OBVIOUS
      <4> QED BY <1>0, <1>1, <1>3, <1>4, <3>1, <4>1, <4>2, ReportIsWhole
    <3>2. CASE worker # "finished"
      <4>1. PICK s : s = seen
        OBVIOUS
      <4>2. report' = RankedTests(s) /\ s \in Seq(TestEntries)
        BY <1>3, <2>1, <3>2, <4>1
      <4>3. OncePerUnit(s)
        <5>1. /\ DOMAIN seen = 1..Len(seen) /\ DOMAIN Told = 1..(Len(seen) + Len(news))
              /\ Len(seen) \in Nat /\ Len(news) \in Nat
              /\ \A i \in 1..Len(seen) : Told[i] = seen[i]
          BY <1>3 DEF Told
        <5>2. \A i \in 1..Len(seen) : i \in DOMAIN Told
          BY <5>1
        <5> QED BY <1>0, <4>1, <5>1, <5>2 DEF NewsInv, OncePerUnit
      <4>4. ASSUME ~quit PROVE Told = s
        BY <1>3, <2>2, <4>1, <4>4 DEF Told
      <4>5. ASSUME ~quit PROVE \A e \in ToSet(entries) : e.ttfb # NoLatency => e \in ToSet(s)
        BY <1>0, <4>4, <4>5 DEF NewsInv
      <4>6. ASSUME ~quit, job.then = "proxy" PROVE ToSet(s) = ToSet(entries)
        <5>1. \A e \in ToSet(entries) : e \in ToSet(s)
          BY <1>0, <4>4, <4>6 DEF NewsInv
        <5>2. \A e \in ToSet(s) : e \in ToSet(entries)
          BY <1>0, <4>4, <4>6 DEF NewsInv, ToSet
        <5> QED BY <5>1, <5>2
      <4>7. ~quit => step = "idle" /\ unit = Len(units)
        BY <1>4, <2>2
      <4> QED BY <1>0, <1>1, <2>2, <4>2, <4>3, <4>5, <4>6, <4>7, ReportIsWhole
    <3> QED BY <3>1, <3>2
  <2>4. TestTypeInv'
    BY <1>0, <1>1, <2>3 DEF TestTypeInv
  <2>5. pc' = "view"
    BY <1>7 DEF Judge
  <2>6. ReportInv'
    BY <1>1, <2>2, <2>3, <2>5 DEF ReportInv
  <2> QED BY <1>2, <1>6, <2>4, <2>6 DEF TestInv
<1>8. CASE HeadlessTestsEnd
  <2>1. pc' = "leaving" /\ worker = "finished" /\ report' = RankedTests(entries)
    BY <1>8 DEF HeadlessTestsEnd
  <2>2. unit = Len(units) /\ step = "idle"
    BY <1>0, <1>4, <2>1 DEF WorkerInv
  <2>3. ReportWhole' /\ report' \in Seq(TestEntries)
    <3>1. PICK s : s = entries
      OBVIOUS
    <3> QED BY <1>0, <1>1, <1>3, <2>1, <2>2, <3>1, ReportIsWhole
  <2>4. TestTypeInv'
    BY <1>0, <1>1, <2>3 DEF TestTypeInv
  <2>5. ReportInv'
    BY <1>1, <2>1, <2>3 DEF ReportInv
  <2> QED BY <1>2, <1>6, <2>4, <2>5 DEF TestInv
<1> QED BY <1>7, <1>8

(***************************************************************************)
(* The scan's half of the invariant: the start, and what is past the scan. *)
(***************************************************************************)
LEMMA IdleIs ==
  /\ Idle \in HostRecs /\ IsFiniteSet(Idle.running) /\ IsFiniteSet(Idle.ended)
  /\ Idle.pc = "off" /\ Idle.running = {} /\ Idle.ended = {} /\ Idle.left = <<>> /\ Idle.out = <<>>
  /\ \A h : HostOK(h, Idle)
<1>1. /\ Idle.pc = "off" /\ Idle.running = {} /\ Idle.ended = {} /\ Idle.left = <<>> /\ Idle.out = <<>>
      /\ Idle.asked = 0
  BY DEF Idle
<1>2. Idle \in HostRecs
  BY DEF Idle, HostRecs, HostPcs
<1>3. IsFiniteSet(Idle.running) /\ IsFiniteSet(Idle.ended)
  BY <1>1, FS_EmptySet
<1>4. ToSet(<<>>) = {} /\ Ids(<<>>) = {} /\ SameId(<<>>)
  BY DEF ToSet, Ids, SameId
<1>5. \A h : HostOK(h, Idle)
  BY <1>1, <1>4 DEF HostOK
<1> QED BY <1>1, <1>2, <1>3, <1>5

LEMMA FoundInitially ==
  ASSUME ScanInit
  PROVE  FoundInv
<1>1. /\ job \in Jobs /\ pc = "load" /\ task = "none" /\ left = {} /\ p1 = {} /\ pending = <<>>
      /\ p2 = {} /\ tested = 0 /\ queue = <<>> /\ permits = 0 /\ all = <<>> /\ chan = <<>>
      /\ arrived = <<>> /\ result = <<>> /\ progress = 0 /\ panics = 0
      /\ host = [h \in ToSet(Hosts) |-> Idle]
  BY DEF ScanInit
<1>2. ~failed
  BY DEF ScanInit
<1>3. \A h \in ToSet(Hosts) : host[h] = Idle
  BY <1>1
<1>4. TypeInv
  <2>1. job.panics \in Nat
    BY <1>1, ScanAssumption
  <2>2. host \in [ToSet(Hosts) -> HostRecs]
    BY <1>1, IdleIs
  <2>3. \A h \in ToSet(Hosts) : IsFiniteSet(host[h].running) /\ IsFiniteSet(host[h].ended)
    BY <1>3, IdleIs
  <2>4. /\ pending \in Seq(Positions) /\ queue \in Seq(ToSet(Hosts)) /\ all \in Seq(Entries)
        /\ arrived \in Seq(Entries) /\ result \in Seq(Entries) /\ chan \in Seq(Events)
    BY <1>1
  <2> QED BY <1>1, <2>1, <2>2, <2>3, <2>4 DEF TypeInv
<1>5. Started = {} /\ Probing = {}
  BY <1>1, <1>3, IdleIs DEF Started, Probing
<1>6. PhaseInv
  BY <1>1, <1>2, <1>5 DEF PhaseInv, Fresh, IpIdle, Watched, Live, Done
<1>7. RankInv
  BY <1>1 DEF RankInv, Done
<1>8. P1Limit \in Nat \ {0} /\ P2Limit \in Nat \ {0} /\ SniLimit \in Nat \ {0}
  BY <1>4, Limits
<1>9. IsFiniteSet({}) /\ Cardinality({}) = 0
  BY FS_EmptySet
<1>10. LimitSni
  BY <1>1, <1>5, <1>8, <1>9 DEF LimitSni
<1>11. LimitIp
  <2>1. Len(pending) = 0 /\ Len(Ips) \in Nat
    BY <1>1, PositionsAre
  <2> QED BY <1>1, <1>8, <1>9, <2>1 DEF LimitIp
<1>12. HostInv
  BY <1>3, IdleIs DEF HostInv
<1>13. IpInv /\ SniInv /\ CompletedLast
  BY <1>1 DEF IpInv, SniInv, CompletedLast, Watched
<1> QED BY <1>4, <1>6, <1>7, <1>10, <1>11, <1>12, <1>13 DEF FoundInv

LEMMA IpFrame ==
  ASSUME LimitIp, UNCHANGED <<job, ipVars>>
  PROVE  LimitIp' /\ (IpIdle' <=> IpIdle)
BY DEF LimitIp, ipVars, P1Limit, P2Limit, IpIdle

LEMMA SniFrame ==
  ASSUME LimitSni, UNCHANGED <<job, host, permits>>, task' = "none" <=> task = "none"
  PROVE  LimitSni' /\ Started' = Started /\ Probing' = Probing /\ SniLimit' = SniLimit
BY DEF LimitSni, SniLimit, Started, Probing

LEMMA HostFrame ==
  ASSUME HostInv, host' = host, panics' = panics \/ panics' # 0
  PROVE  HostInv'
BY DEF HostInv

\* The conditions of a scan nobody watches any more.
LEMMA PastTheScan ==
  ASSUME FoundInv, pc \in {"scanned", "test", "judge", "view", "leaving"},
         pc' \in {"test", "judge", "view", "leaving", "exit", "error"},
         UNCHANGED <<job, task, failed, ipVars, sniVars, chan, panics, arrived, aborted, progress,
                     completed>>,
         all' \in Seq(Entries), result' \in Seq(Entries)
  PROVE  FoundInv'
<1>0. TypeInv /\ PhaseInv /\ RankInv /\ LimitSni /\ LimitIp /\ HostInv
  BY DEF FoundInv
<1>1. TypeInv'
  BY <1>0 DEF TypeInv, ipVars, sniVars
<1>2. LimitSni' /\ Started' = Started
  BY <1>0, SniFrame DEF sniVars
<1>3. LimitIp' /\ (IpIdle' <=> IpIdle)
  BY <1>0, IpFrame
<1>4. HostInv'
  BY <1>0, HostFrame DEF sniVars
<1>5. ~Watched /\ ~Watched' /\ (Done' <=> Done)
  BY DEF Watched, Done
<1>6. PhaseInv'
  BY <1>0, <1>2, <1>3, <1>5 DEF PhaseInv, Fresh, Watched, ipVars, sniVars
<1>7. RankInv' /\ IpInv' /\ SniInv' /\ CompletedLast'
  BY <1>5 DEF RankInv, IpInv, SniInv, CompletedLast
<1> QED BY <1>1, <1>2, <1>3, <1>4, <1>6, <1>7 DEF FoundInv

LEMMA NothingMoves ==
  ASSUME FoundInv, UNCHANGED scanVars
  PROVE  FoundInv'
<1>0. /\ TypeInv /\ PhaseInv /\ RankInv /\ LimitSni /\ LimitIp /\ HostInv /\ IpInv /\ SniInv
      /\ CompletedLast
  BY DEF FoundInv
<1>1. UNCHANGED <<job, task, failed, left, p1, pending, p2, tested, queue, host, permits, all, chan, pc,
                  arrived, aborted, result, progress, completed, panics>>
  BY DEF scanVars, ipVars, sniVars, mainVars
<1>2. TypeInv' /\ RankInv' /\ CompletedLast'
  BY <1>0, <1>1 DEF TypeInv, RankInv, CompletedLast, Watched, Done, IsRanked
<1>3. LimitSni' /\ Started' = Started
  BY <1>0, <1>1, SniFrame
<1>4. LimitIp' /\ (IpIdle' <=> IpIdle)
  BY <1>0, <1>1, IpFrame DEF ipVars
<1>5. HostInv'
  BY <1>0, <1>1, HostFrame
<1>6. PhaseInv'
  BY <1>0, <1>1, <1>3, <1>4 DEF PhaseInv, Fresh, Watched, Live, Done
<1>7. Reported' = Reported /\ Found' = Found
  BY <1>1 DEF Reported, Found
<1>8. IpInv' /\ SniInv'
  BY <1>0, <1>1, <1>7 DEF IpInv, IpPlaces, IpWhole, IpReports, SniInv, SniPlaces, SniReports, Watched
<1> QED BY <1>2, <1>3, <1>4, <1>5, <1>6, <1>8 DEF FoundInv

LEMMA TestsKeepTheScan ==
  ASSUME FoundInv, TestInv,
         \/ WorkerStep \/ DropListener \/ MainStep \/ UserQuits \/ CloseView
         \/ \E u \in engines : EngineEnds(u)
         \/ Stopped
  PROVE  FoundInv'
<1>1. CASE WorkerStep \/ DropListener \/ (\E u \in engines : EngineEnds(u)) \/ Stopped
  <2>1. UNCHANGED scanVars
    BY <1>1 DEF WorkerStep, NextUnit, SkipEngine, OpenEngine, OpenHelper, EngineFails, Bind, Sample,
                TakeDown, EngineDown, GapOver, WorkerEnds, WorkerFinishes, DropListener, EngineEnds,
                Stopped, NotMain, vars
  <2> QED BY <2>1, NothingMoves
<1>2. CASE MainStep \/ UserQuits \/ CloseView
  <2>1. /\ pc \in {"scanned", "test", "judge", "view", "leaving"}
        /\ pc' \in {"test", "judge", "view", "leaving", "exit", "error"}
        /\ UNCHANGED <<job, task, failed, ipVars, sniVars, chan, panics, arrived, aborted, progress,
                       completed>>
        /\ all' \in {all, <<>>} /\ result' \in {result, <<>>}
    BY <1>2 DEF MainStep, Report, StartTests, CannotTest, ReadNews, NewsEnds, Judge, HeadlessTestsEnd,
                Exit, UserQuits, CloseView, ScanDropped, ScanStays, MainStays
  <2>2. all' \in Seq(Entries) /\ result' \in Seq(Entries)
    <3>1. all \in Seq(Entries) /\ result \in Seq(Entries) /\ <<>> \in Seq(Entries)
      BY DEF FoundInv, TypeInv
    <3> QED BY <2>1, <3>1
  <2> QED BY <2>1, <2>2, PastTheScan
<1> QED BY <1>1, <1>2

(***************************************************************************)
(* scan_ip_list.                                                           *)
(***************************************************************************)
LEMMA IpTypes ==
  ASSUME TypeInv
  PROVE  /\ left \subseteq Positions /\ p1 \subseteq Positions /\ p2 \subseteq Positions
         /\ pending \in Seq(Positions) /\ tested \in Nat /\ all \in Seq(Entries)
         /\ chan \in Seq(Events) /\ arrived \in Seq(Entries) /\ progress \in Nat
         /\ IsFiniteSet(left) /\ IsFiniteSet(p1) /\ IsFiniteSet(p2)
         /\ Cardinality(left) \in Nat /\ Cardinality(p1) \in Nat /\ Cardinality(p2) \in Nat
         /\ Len(pending) \in Nat /\ Len(all) \in Nat /\ Len(chan) \in Nat
         /\ P1Limit \in Nat \ {0} /\ P2Limit \in Nat \ {0} /\ Len(Ips) \in Nat
         /\ ToSet(pending) \subseteq Positions /\ ToSet(all) \subseteq Entries
<1>1. /\ left \subseteq Positions /\ p1 \subseteq Positions /\ p2 \subseteq Positions
      /\ pending \in Seq(Positions) /\ tested \in Nat /\ all \in Seq(Entries)
      /\ chan \in Seq(Events) /\ arrived \in Seq(Entries) /\ progress \in Nat
  BY DEF TypeInv
<1>2. /\ IsFiniteSet(left) /\ IsFiniteSet(p1) /\ IsFiniteSet(p2)
      /\ Cardinality(left) \in Nat /\ Cardinality(p1) \in Nat /\ Cardinality(p2) \in Nat
  BY <1>1, FinitePart
<1>3. Len(pending) \in Nat /\ Len(all) \in Nat /\ Len(chan) \in Nat
  BY <1>1
<1>4. ToSet(pending) \subseteq Positions /\ ToSet(all) \subseteq Entries
  BY <1>1, ElementsIn
<1> QED BY <1>1, <1>2, <1>3, <1>4, Limits, PositionsAre

LEMMA MeasuresAre ==
  ASSUME NEW s \in Seq(Entries)
  PROVE  /\ IsFiniteSet(Measures(s)) /\ Cardinality(Measures(s)) \in Nat
         /\ \A e \in Entries :
              Measures(Append(s, e)) = IF e.tcp # NoLatency THEN Measures(s) \cup {e} ELSE Measures(s)
<1>1. IsFiniteSet(ToSet(s))
  BY FiniteElements
<1>2. Measures(s) \in SUBSET ToSet(s)
  BY DEF Measures
<1>3. IsFiniteSet(Measures(s)) /\ Cardinality(Measures(s)) \in Nat
  BY <1>1, <1>2, FS_Subset, FS_CardinalityType
<1>4. ASSUME NEW e \in Entries
      PROVE  Measures(Append(s, e)) = IF e.tcp # NoLatency THEN Measures(s) \cup {e} ELSE Measures(s)
  <2>1. ToSet(Append(s, e)) = ToSet(s) \cup {e}
    BY Appended
  <2> QED BY <2>1 DEF Measures
<1> QED BY <1>3, <1>4

LEMMA ProbesAre ==
  ASSUME NEW s \in Seq(Events)
  PROVE  /\ \A e \in Events :
              Probes(Append(s, e)) = IF e.kind = "probe" THEN Probes(s) \cup {e.entry} ELSE Probes(s)
         /\ s # <<>> =>
              Probes(s) = IF Head(s).kind = "probe" THEN {Head(s).entry} \cup Probes(Tail(s))
                          ELSE Probes(Tail(s))
<1>0. \A t \in Seq(Events) : Probes(t) = {e.entry : e \in {x \in ToSet(t) : x.kind = "probe"}}
  BY DEF Probes, ToSet
<1>1. ASSUME NEW e \in Events
      PROVE  Probes(Append(s, e)) = IF e.kind = "probe" THEN Probes(s) \cup {e.entry} ELSE Probes(s)
  <2>1. ToSet(Append(s, e)) = ToSet(s) \cup {e} /\ Append(s, e) \in Seq(Events)
    BY Appended
  <2>2. /\ Probes(s) = {x.entry : x \in {y \in ToSet(s) : y.kind = "probe"}}
        /\ Probes(Append(s, e)) = {x.entry : x \in {y \in ToSet(s) \cup {e} : y.kind = "probe"}}
    BY <1>0, <2>1
  <2> QED BY <2>2
<1>2. ASSUME s # <<>>
      PROVE  Probes(s) = IF Head(s).kind = "probe" THEN {Head(s).entry} \cup Probes(Tail(s))
                         ELSE Probes(Tail(s))
  <2>1. ToSet(s) = {Head(s)} \cup ToSet(Tail(s)) /\ Tail(s) \in Seq(Events)
    BY <1>2, Headed
  <2>2. /\ Probes(Tail(s)) = {x.entry : x \in {y \in ToSet(Tail(s)) : y.kind = "probe"}}
        /\ Probes(s) = {x.entry : x \in {y \in {Head(s)} \cup ToSet(Tail(s)) : y.kind = "probe"}}
    BY <1>0, <2>1
  <2> QED BY <2>2
<1> QED BY <1>1, <1>2

LEMMA IpStep ==
  ASSUME FoundInv, Scanning("ip"), UNCHANGED <<job, task, failed, sniVars, mainVars>>,
         panics' = panics \/ panics' # 0
  PROVE  /\ PhaseInv' /\ RankInv' /\ LimitSni' /\ HostInv' /\ SniInv' /\ CompletedLast'
         /\ Watched /\ Watched' /\ job.list = "ip" /\ IpPlaces /\ IpWhole /\ IpReports
         /\ P1Limit' = P1Limit /\ P2Limit' = P2Limit
<1>0. TypeInv /\ PhaseInv /\ LimitSni /\ HostInv /\ IpInv
  BY DEF FoundInv
<1>1. /\ task = "run" /\ task' = "run" /\ job.list = "ip" /\ job' = job /\ pc' = pc
      /\ failed' = failed
  BY DEF Scanning, mainVars
<1>2. Watched /\ Watched' /\ ~Done'
  BY <1>0, <1>1 DEF PhaseInv, Watched, Done
<1>3. LimitSni' /\ Started' = Started
  BY <1>0, <1>1, SniFrame DEF sniVars
<1>4. HostInv'
  BY <1>0, HostFrame DEF sniVars
<1>5. PhaseInv'
  BY <1>0, <1>1, <1>2, <1>3 DEF PhaseInv, Watched, Live, Done, mainVars
<1>6. RankInv' /\ CompletedLast' /\ SniInv'
  BY <1>1, <1>2 DEF RankInv, CompletedLast, SniInv, Watched
<1>7. IpPlaces /\ IpWhole /\ IpReports
  BY <1>0, <1>1, <1>2 DEF IpInv
<1> QED BY <1>1, <1>2, <1>3, <1>4, <1>5, <1>6, <1>7 DEF P1Limit, P2Limit

LEMMA P2Starts ==
  ASSUME FoundInv, StartP2
  PROVE  FoundInv'
<1>0. TypeInv /\ LimitIp
  BY DEF FoundInv
<1>1. /\ Scanning("ip") /\ pending # <<>> /\ Cardinality(p2) < P2Limit
      /\ p2' = p2 \cup {Head(pending)} /\ pending' = Tail(pending)
      /\ UNCHANGED <<job, task, failed, left, p1, tested, sniVars, all, chan, mainVars, panics>>
  BY DEF StartP2, MayStartP2
<1>2. /\ PhaseInv' /\ RankInv' /\ LimitSni' /\ HostInv' /\ SniInv' /\ CompletedLast'
      /\ IpPlaces /\ IpWhole /\ IpReports /\ P1Limit' = P1Limit /\ P2Limit' = P2Limit
  BY <1>1, IpStep
<1>3. /\ p2 \subseteq Positions /\ pending \in Seq(Positions) /\ IsFiniteSet(p2) /\ IsFiniteSet(p1)
      /\ Cardinality(p2) \in Nat /\ Cardinality(p1) \in Nat /\ Len(pending) \in Nat /\ Len(all) \in Nat
      /\ P1Limit \in Nat \ {0} /\ P2Limit \in Nat \ {0}
  BY <1>0, IpTypes
<1> DEFINE i == Head(pending)
<1>4. /\ i \in Positions /\ pending' \in Seq(Positions) /\ Len(pending') = Len(pending) - 1
      /\ ToSet(pending) = {i} \cup ToSet(pending')
  BY <1>1, <1>3, Headed
<1>5. IsInjective(pending') /\ i \notin ToSet(pending')
  BY <1>1, <1>2, <1>3, LeftOfHead DEF IpPlaces
<1> HIDE DEF i
<1>6. p2' = p2 \cup {i}
  BY <1>1 DEF i
<1>7. i \notin left \cup p1 \cup p2 /\ i \notin Ids(all)
  BY <1>2, <1>4 DEF IpPlaces
<1>8. Cardinality(p2') = Cardinality(p2) + 1
  BY <1>3, <1>6, <1>7, OneMore
<1>9. TypeInv'
  BY <1>0, <1>1, <1>3, <1>4, <1>6 DEF TypeInv, sniVars, mainVars
<1>10. LimitIp'
  BY <1>0, <1>1, <1>2, <1>3, <1>4, <1>8 DEF LimitIp
<1>11. IpPlaces'
  BY <1>1, <1>2, <1>4, <1>5, <1>6, <1>7 DEF IpPlaces
<1>12. IpWhole'
  <2>1. tested' = tested /\ Len(all') = Len(all) /\ panics' = panics
    BY <1>1
  <2>2. panics = 0 => tested' = Len(all') + Len(pending') + Cardinality(p2')
    BY <1>2, <1>3, <1>4, <1>8, <2>1 DEF IpWhole
  <2>3. panics = 0 => Positions = left' \cup p1' \cup p2' \cup ToSet(pending') \cup Ids(all')
    BY <1>1, <1>2, <1>4, <1>6 DEF IpWhole
  <2> QED BY <2>1, <2>2, <2>3 DEF IpWhole
<1>13. IpReports'
  BY <1>1, <1>2 DEF IpReports, mainVars, Reported
<1> QED BY <1>2, <1>9, <1>10, <1>11, <1>12, <1>13 DEF FoundInv, IpInv

LEMMA P1Starts ==
  ASSUME FoundInv, StartP1
  PROVE  FoundInv'
<1>0. TypeInv /\ LimitIp
  BY DEF FoundInv
<1>1. /\ Scanning("ip") /\ Cardinality(p1) < P1Limit /\ Len(pending) < P2Limit
      /\ UNCHANGED <<job, task, failed, pending, p2, tested, sniVars, all, chan, mainVars, panics>>
  BY DEF StartP1, MayStartP1
<1>2. PICK i \in left : p1' = p1 \cup {i} /\ left' = left \ {i}
  BY DEF StartP1
<1>3. /\ PhaseInv' /\ RankInv' /\ LimitSni' /\ HostInv' /\ SniInv' /\ CompletedLast'
      /\ IpPlaces /\ IpWhole /\ IpReports /\ P1Limit' = P1Limit /\ P2Limit' = P2Limit
  BY <1>1, IpStep
<1>4. /\ left \subseteq Positions /\ IsFiniteSet(left) /\ IsFiniteSet(p1) /\ tested \in Nat
      /\ Cardinality(left) \in Nat /\ Cardinality(p1) \in Nat /\ Len(pending) \in Nat
      /\ P1Limit \in Nat \ {0} /\ P2Limit \in Nat \ {0} /\ Len(Ips) \in Nat
  BY <1>0, IpTypes
<1>5. i \notin p1 \cup p2 \cup ToSet(pending) /\ i \notin Ids(all)
  BY <1>3 DEF IpPlaces
<1>6. Cardinality(p1') = Cardinality(p1) + 1
  BY <1>2, <1>4, <1>5, OneMore
<1>7. Cardinality(left') = Cardinality(left) - 1
  BY <1>2, <1>4, OneLess
<1>8. TypeInv'
  BY <1>0, <1>1, <1>2, <1>4 DEF TypeInv, sniVars, mainVars
<1>9. LimitIp'
  BY SMTT(30), <1>0, <1>1, <1>3, <1>4, <1>6, <1>7 DEF LimitIp
<1>10. IpPlaces'
  BY <1>1, <1>2, <1>3, <1>5 DEF IpPlaces
<1>11. IpWhole'
  BY <1>1, <1>2, <1>3 DEF IpWhole
<1>12. IpReports'
  BY <1>1, <1>3 DEF IpReports, mainVars, Reported
<1> QED BY <1>3, <1>8, <1>9, <1>10, <1>11, <1>12 DEF FoundInv, IpInv

LEMMA ProbeIsLost ==
  ASSUME FoundInv, NEW i \in p1 \cup p2, LoseProbe(i)
  PROVE  FoundInv'
<1>0. TypeInv /\ LimitIp
  BY DEF FoundInv
<1>1. /\ Scanning("ip") /\ p1' = p1 \ {i} /\ p2' = p2 \ {i} /\ panics' = panics + 1
      /\ panics < job.panics
      /\ UNCHANGED <<job, task, failed, left, pending, tested, sniVars, all, chan, mainVars>>
  BY DEF LoseProbe, IpWaits
<1>2. panics \in Nat /\ job.panics \in Nat /\ panics' # 0 /\ panics' \in Nat /\ panics' <= job.panics
  BY <1>0, <1>1, Limits DEF TypeInv
<1>3. /\ PhaseInv' /\ RankInv' /\ LimitSni' /\ HostInv' /\ SniInv' /\ CompletedLast'
      /\ IpPlaces /\ IpReports /\ P1Limit' = P1Limit /\ P2Limit' = P2Limit
  BY <1>1, <1>2, IpStep
<1>4. /\ IsFiniteSet(p1) /\ IsFiniteSet(p2) /\ tested \in Nat /\ Cardinality(left) \in Nat
      /\ Cardinality(p1) \in Nat /\ Cardinality(p2) \in Nat /\ Len(pending) \in Nat
      /\ P1Limit \in Nat \ {0} /\ P2Limit \in Nat \ {0} /\ Len(Ips) \in Nat
  BY <1>0, IpTypes
<1>5. /\ Cardinality(p1') \in Nat /\ Cardinality(p1') <= Cardinality(p1)
      /\ Cardinality(p2') \in Nat /\ Cardinality(p2') <= Cardinality(p2)
  <2>1. p1' \in SUBSET p1 /\ p2' \in SUBSET p2
    BY <1>1
  <2> QED BY <1>4, <2>1, FS_Subset, FS_CardinalityType
<1>6. TypeInv'
  BY <1>0, <1>1, <1>2 DEF TypeInv, sniVars, mainVars
<1>7. LimitIp'
  BY SMTT(30), <1>0, <1>1, <1>3, <1>4, <1>5 DEF LimitIp
<1>8. IpPlaces'
  BY <1>1, <1>3 DEF IpPlaces
<1>9. IpWhole'
  BY <1>2 DEF IpWhole
<1>10. IpReports'
  BY <1>1, <1>3 DEF IpReports, mainVars, Reported
<1> QED BY <1>3, <1>6, <1>7, <1>8, <1>9, <1>10 DEF FoundInv, IpInv

\* Whoever watches gets what the scanner sends.
LEMMA WhatIsSent ==
  ASSUME TypeInv, Watched, NEW ev \in Events, Sent(ev)
  PROVE  /\ chan' \in Seq(Events)
         /\ job.ui \in {"tui", "events"} =>
              /\ Len(chan') = Len(chan) + 1
              /\ Probes(chan') = IF ev.kind = "probe" THEN Probes(chan) \cup {ev.entry} ELSE Probes(chan)
<1>1. chan \in Seq(Events)
  BY DEF TypeInv
<1>2. chan' = IF job.ui = "silent" THEN chan ELSE Append(chan, ev)
  BY DEF Sent, Watched
<1>3. Append(chan, ev) \in Seq(Events) /\ Len(Append(chan, ev)) = Len(chan) + 1
  BY <1>1, AppendProperties
<1> QED BY <1>1, <1>2, <1>3, ProbesAre

LEMMA P1Joins ==
  ASSUME FoundInv, NEW i \in p1, JoinP1(i)
  PROVE  FoundInv'
<1>0. TypeInv /\ LimitIp
  BY DEF FoundInv
<1> DEFINE ev == [kind |-> "tcp", tested |-> tested + 1]
           e == TcpOnlyEntry(i)
<1>1. /\ Scanning("ip") /\ p1' = p1 \ {i} /\ tested' = tested + 1 /\ Sent(ev)
      /\ UNCHANGED <<job, task, failed, left, p2, sniVars, mainVars, panics>>
  BY DEF JoinP1, IpWaits
<1>2. \/ pending' = Append(pending, i) /\ all' = all
      \/ all' = Append(all, e) /\ pending' = pending
  BY DEF JoinP1
<1>3. /\ PhaseInv' /\ RankInv' /\ LimitSni' /\ HostInv' /\ SniInv' /\ CompletedLast' /\ Watched
      /\ IpPlaces /\ IpWhole /\ IpReports /\ P1Limit' = P1Limit /\ P2Limit' = P2Limit
  BY <1>1, IpStep
<1>4. /\ p1 \subseteq Positions /\ IsFiniteSet(p1) /\ tested \in Nat /\ pending \in Seq(Positions)
      /\ Cardinality(left) \in Nat /\ Cardinality(p1) \in Nat /\ Len(pending) \in Nat
      /\ Cardinality(p2) \in Nat /\ all \in Seq(Entries) /\ Len(all) \in Nat
      /\ P1Limit \in Nat \ {0} /\ P2Limit \in Nat \ {0} /\ Len(Ips) \in Nat /\ Len(chan) \in Nat
      /\ progress \in Nat
  BY <1>0, IpTypes
<1>5. ev \in Events /\ ev.kind = "tcp"
  BY <1>4 DEF Events
<1>6. i \in Positions /\ e \in Entries /\ e.id = i /\ e.tcp = NoLatency
  BY <1>4, IpEntriesAre
<1> HIDE DEF ev, e
<1>7. /\ chan' \in Seq(Events)
      /\ job.ui \in {"tui", "events"} => Len(chan') = Len(chan) + 1 /\ Probes(chan') = Probes(chan)
  BY <1>0, <1>1, <1>3, <1>5, WhatIsSent
<1>8. Cardinality(p1') = Cardinality(p1) - 1
  BY <1>1, <1>4, OneLess
<1>9. i \notin left \cup p2 \cup ToSet(pending) /\ i \notin Ids(all)
  BY <1>3 DEF IpPlaces
<1>10. /\ ToSet(pending') \cup Ids(all') = ToSet(pending) \cup Ids(all) \cup {i}
       /\ ToSet(pending') \cap Ids(all') = {}
       /\ Len(pending') + Len(all') = Len(pending) + Len(all) + 1
       /\ Len(pending') \in Nat /\ Len(all') \in Nat /\ Len(pending') <= Len(pending) + 1
       /\ pending' \in Seq(Positions) /\ all' \in Seq(Entries)
       /\ IsInjective(pending') /\ SameId(all')
       /\ Measures(all') = Measures(all)
  <2>1. CASE pending' = Append(pending, i) /\ all' = all
    <3>1. /\ pending' \in Seq(Positions) /\ Len(pending') = Len(pending) + 1
          /\ ToSet(pending') = ToSet(pending) \cup {i}
      BY <1>4, <1>6, <2>1, Appended
    <3>2. IsInjective(pending') /\ SameId(all)
      BY <1>3, <1>4, <1>6, <1>9, <2>1, NewAtTheEnd DEF IpPlaces
    <3> QED BY <1>3, <1>4, <1>9, <2>1, <3>1, <3>2 DEF IpPlaces
  <2>2. CASE all' = Append(all, e) /\ pending' = pending
    <3>1. all' \in Seq(Entries) /\ Len(all') = Len(all) + 1
      BY <1>4, <1>6, <2>2, AppendProperties
    <3>2. Ids(all') = Ids(all) \cup {i} /\ SameId(all')
      BY <1>3, <1>4, <1>6, <1>9, <2>2, AppendedIds DEF IpPlaces
    <3>3. Measures(all') = Measures(all)
      BY <1>4, <1>6, <2>2, MeasuresAre
    <3> QED BY <1>3, <1>4, <1>9, <2>2, <3>1, <3>2, <3>3 DEF IpPlaces
  <2> QED BY <1>2, <2>1, <2>2
<1>11. TypeInv'
  <2>1. tested' \in Nat /\ p1' \subseteq Positions
    BY <1>1, <1>4
  <2>2. pending' \in Seq(Positions) /\ all' \in Seq(Entries) /\ chan' \in Seq(Events)
    BY <1>7, <1>10
  <2> QED BY <1>0, <1>1, <2>1, <2>2 DEF TypeInv, sniVars, mainVars
<1>12. LimitIp'
  <2>1. Len(pending') + Cardinality(p1') <= Len(pending) + Cardinality(p1)
    BY <1>4, <1>8, <1>10
  <2>2. Len(pending') \in Nat
    BY <1>10
  <2>3. tested' + Cardinality(p1') + Cardinality(left') = tested + Cardinality(p1) + Cardinality(left)
    BY <1>1, <1>4, <1>8
  <2>4. Cardinality(p1') \in Int /\ Cardinality(p1') <= Cardinality(p1) /\ p2' = p2
    BY <1>1, <1>4, <1>8
  <2>5. Cardinality(p1') <= P1Limit' /\ Cardinality(p2') <= P2Limit'
    BY <1>0, <1>3, <1>4, <2>4 DEF LimitIp
  <2>6. Len(pending') + Cardinality(p1') < P1Limit' + P2Limit'
    BY <1>0, <1>3, <1>4, <2>1, <2>2, <2>4 DEF LimitIp
  <2>7. tested' + Cardinality(p1') + Cardinality(left') <= Len(Ips)
    BY <1>0, <2>3 DEF LimitIp
  <2> QED BY <2>5, <2>6, <2>7 DEF LimitIp
<1>13. IpPlaces'
  <2>1. \A x \in ToSet(pending') \cup Ids(all') : x \in Positions /\ x \notin left' \cup p1' \cup p2'
    <3>1. \A x \in ToSet(pending) \cup Ids(all) :
            x \in Positions /\ x \notin left \cup p1 \cup p2
      BY <1>3, <1>4, ElementsIn DEF IpPlaces
    <3> QED BY <1>1, <1>6, <1>9, <1>10, <3>1
  <2>2. /\ left' \cap p1' = {} /\ left' \cap p2' = {} /\ p1' \cap p2' = {}
    BY <1>1, <1>3 DEF IpPlaces
  <2>3. \A x \in Ids(all') : x \notin ToSet(pending')
    BY <1>10
  <2>4. IsInjective(pending') /\ SameId(all')
    BY <1>10
  <2> QED BY <2>1, <2>2, <2>3, <2>4 DEF IpPlaces
<1>14. IpWhole'
  <2>1. panics' = panics /\ tested' = tested + 1 /\ Cardinality(p2') = Cardinality(p2)
    BY <1>1
  <2>2. panics = 0 => tested' = Len(all') + Len(pending') + Cardinality(p2')
    BY SMTT(30), <1>3, <1>4, <1>10, <2>1 DEF IpWhole
  <2>3. panics = 0 => Positions = left' \cup p1' \cup p2' \cup ToSet(pending') \cup Ids(all')
    BY <1>1, <1>3, <1>6, <1>10 DEF IpWhole
  <2> QED BY <2>1, <2>2, <2>3 DEF IpWhole
<1>15. IpReports'
  <2>1. job' = job /\ progress' = progress /\ arrived' = arrived /\ tested' = tested + 1
    BY <1>1 DEF mainVars
  <2>2. Cardinality(Measures(all)) \in Nat
    BY <1>4, MeasuresAre
  <2>3. job.ui = "tui" => Reported' = Measures(all')
    BY <1>3, <1>7, <1>10, <2>1 DEF IpReports, Reported
  <2>4. job.ui = "events" => progress' + Len(chan') = tested' + Cardinality(Measures(all'))
    <3>1. Measures(all') = Measures(all)
      BY <1>10
    <3>2. PICK c : c = Cardinality(Measures(all))
      OBVIOUS
    <3>3. job.ui = "events" => progress + Len(chan) = tested + c
      BY <1>3, <3>2 DEF IpReports
    <3>4. Cardinality(Measures(all')) = c /\ c \in Nat
      BY <2>2, <3>1, <3>2
    <3> QED BY <1>4, <1>7, <2>1, <3>3, <3>4
  <2> QED BY <2>1, <2>3, <2>4 DEF IpReports
<1> QED BY <1>3, <1>11, <1>12, <1>13, <1>14, <1>15 DEF FoundInv, IpInv

LEMMA P2Joins ==
  ASSUME FoundInv, NEW i \in p2, JoinP2(i)
  PROVE  FoundInv'
<1>0. TypeInv /\ LimitIp
  BY DEF FoundInv
<1>1. /\ Scanning("ip") /\ p2' = p2 \ {i}
      /\ UNCHANGED <<job, task, failed, left, p1, pending, tested, sniVars, mainVars, panics>>
  BY DEF JoinP2, IpWaits
<1>2. PICK e \in IpEntries(i) : all' = Append(all, e) /\ Sent([kind |-> "probe", entry |-> e])
  BY DEF JoinP2
<1> DEFINE ev == [kind |-> "probe", entry |-> e]
<1>3. /\ PhaseInv' /\ RankInv' /\ LimitSni' /\ HostInv' /\ SniInv' /\ CompletedLast' /\ Watched
      /\ IpPlaces /\ IpWhole /\ IpReports /\ P1Limit' = P1Limit /\ P2Limit' = P2Limit
  BY <1>1, IpStep
<1>4. /\ p2 \subseteq Positions /\ IsFiniteSet(p2) /\ tested \in Nat /\ Cardinality(p2) \in Nat
      /\ Len(pending) \in Nat /\ all \in Seq(Entries) /\ Len(all) \in Nat
      /\ P2Limit \in Nat \ {0} /\ Len(chan) \in Nat /\ progress \in Nat
  BY <1>0, IpTypes
<1>5. i \in Positions /\ e \in Entries /\ e.id = i /\ e.tcp # NoLatency
  BY <1>4, IpEntriesAre
<1>6. ev \in Events /\ ev.kind = "probe" /\ ev.entry = e
  BY <1>5 DEF Events
<1>7. Sent(ev)
  BY <1>2
<1> HIDE DEF ev
<1>8. /\ chan' \in Seq(Events)
      /\ job.ui \in {"tui", "events"} => Len(chan') = Len(chan) + 1 /\ Probes(chan') = Probes(chan) \cup {e}
  BY <1>0, <1>3, <1>6, <1>7, WhatIsSent
<1>9. Cardinality(p2') = Cardinality(p2) - 1
  BY <1>1, <1>4, OneLess
<1>10. i \notin left \cup p1 \cup ToSet(pending) /\ i \notin Ids(all)
  BY <1>3 DEF IpPlaces
<1>11. all' \in Seq(Entries) /\ Len(all') = Len(all) + 1
  BY <1>2, <1>4, <1>5, AppendProperties
<1>12. Ids(all') = Ids(all) \cup {i} /\ SameId(all') /\ e \notin ToSet(all)
  BY <1>2, <1>3, <1>4, <1>5, <1>10, AppendedIds DEF IpPlaces
<1>13. Measures(all') = Measures(all) \cup {e} /\ e \notin Measures(all)
  BY <1>2, <1>4, <1>5, <1>12, MeasuresAre DEF Measures
<1>14. TypeInv'
  BY <1>0, <1>1, <1>8, <1>11 DEF TypeInv, sniVars, mainVars
<1>15. LimitIp'
  BY <1>0, <1>1, <1>3, <1>4, <1>9 DEF LimitIp
<1>16. IpPlaces'
  BY <1>1, <1>3, <1>5, <1>10, <1>12 DEF IpPlaces
<1>17. IpWhole'
  <2>1. panics' = panics /\ tested' = tested /\ Len(pending') = Len(pending)
    BY <1>1
  <2>2. panics = 0 => tested' = Len(all') + Len(pending') + Cardinality(p2')
    BY <1>3, <1>4, <1>9, <1>11, <2>1 DEF IpWhole
  <2>3. panics = 0 => Positions = left' \cup p1' \cup p2' \cup ToSet(pending') \cup Ids(all')
    BY <1>1, <1>3, <1>5, <1>12 DEF IpWhole
  <2> QED BY <2>1, <2>2, <2>3 DEF IpWhole
<1>18. IpReports'
  <2>1. job' = job /\ progress' = progress /\ arrived' = arrived /\ tested' = tested
    BY <1>1 DEF mainVars
  <2>2. IsFiniteSet(Measures(all)) /\ Cardinality(Measures(all)) \in Nat
    BY <1>4, MeasuresAre
  <2>3. Cardinality(Measures(all')) = Cardinality(Measures(all)) + 1
    BY <1>13, <2>2, OneMore
  <2>4. job.ui = "tui" => Reported' = Measures(all')
    BY <1>3, <1>8, <1>13, <2>1 DEF IpReports, Reported
  <2>5. job.ui = "events" => progress' + Len(chan') = tested' + Cardinality(Measures(all'))
    <3>1. PICK c : c = Cardinality(Measures(all))
      OBVIOUS
    <3>2. job.ui = "events" => progress + Len(chan) = tested + c
      BY <1>3, <3>1 DEF IpReports
    <3>3. Cardinality(Measures(all')) = c + 1 /\ c \in Nat
      BY <2>2, <2>3, <3>1
    <3> QED BY <1>4, <1>8, <2>1, <3>2, <3>3
  <2> QED BY <2>1, <2>4, <2>5 DEF IpReports
<1> QED BY <1>3, <1>14, <1>15, <1>16, <1>17, <1>18 DEF FoundInv, IpInv

LEMMA IpScanIsDone ==
  ASSUME FoundInv, IpScanEnds
  PROVE  FoundInv'
<1>0. TypeInv /\ PhaseInv /\ LimitSni /\ LimitIp /\ HostInv /\ IpInv
  BY DEF FoundInv
<1>1. /\ task = "run" /\ job.list = "ip" /\ task' = "left" /\ all' = Ranked(all)
      /\ p1 = {} /\ p2 = {} /\ pending = <<>> /\ left = {}
      /\ UNCHANGED <<job, failed, ipVars, sniVars, chan, mainVars, panics>>
  BY DEF IpScanEnds, IpWaits, Scanning
<1>2. Watched /\ Watched' /\ pc' = pc /\ pc # "scanned" /\ job' = job
  BY <1>0, <1>1 DEF PhaseInv, Watched, mainVars
<1>3. LimitSni' /\ Started' = Started
  BY <1>0, <1>1, SniFrame DEF sniVars
<1>4. LimitIp' /\ (IpIdle' <=> IpIdle)
  BY <1>0, <1>1, IpFrame
<1>5. HostInv'
  BY <1>0, <1>1, HostFrame DEF sniVars
<1>6. all \in Seq(Entries) /\ IpPlaces /\ IpWhole /\ IpReports
  BY <1>0, <1>1, <1>2 DEF TypeInv, IpInv
<1>7. /\ all' \in Seq(Entries) /\ Len(all') = Len(all) /\ ToSet(all') = ToSet(all)
      /\ IsRanked(all') /\ Ids(all') = Ids(all) /\ SameId(all')
  BY <1>1, <1>6, RankedIs DEF IpPlaces
<1>8. TypeInv'
  BY <1>0, <1>1, <1>7 DEF TypeInv, ipVars, sniVars, mainVars
<1>9. PhaseInv'
  BY <1>0, <1>1, <1>2, <1>3, <1>4 DEF PhaseInv, Watched, Live, Done, IpIdle, mainVars
<1>10. RankInv' /\ CompletedLast' /\ SniInv'
  BY <1>1, <1>2, <1>7 DEF RankInv, CompletedLast, SniInv
<1>11. IpPlaces'
  BY <1>1, <1>6, <1>7 DEF IpPlaces, ipVars
<1>12. IpWhole'
  BY <1>1, <1>6, <1>7 DEF IpWhole, ipVars
<1>13. Measures(all') = Measures(all)
  BY <1>7 DEF Measures
<1>14. IpReports'
  <2>1. UNCHANGED <<arrived, chan, progress, tested, job>>
    BY <1>1 DEF mainVars, ipVars
  <2> QED BY <1>6, <1>13, <2>1 DEF IpReports, Reported
<1> QED BY <1>3, <1>4, <1>5, <1>8, <1>9, <1>10, <1>11, <1>12, <1>14 DEF FoundInv, IpInv

(***************************************************************************)
(* The start and the end.                                                  *)
(***************************************************************************)
LEMMA BeforeTheScan ==
  ASSUME FoundInv, task = "none"
  PROVE  /\ Fresh /\ IpIdle /\ Started = {} /\ Probing = {} /\ Found = {} /\ Reported = {}
         /\ \A h \in ToSet(Hosts) : host[h] = Idle
         /\ ~(failed /\ job.list # "bad")
         /\ Ids(<<>>) = {} /\ ToSet(<<>>) = {} /\ Measures(<<>>) = {} /\ SameId(<<>>)
         /\ IsInjective(<<>>) /\ Len(<<>>) = 0
<1>0. TypeInv /\ PhaseInv /\ HostInv
  BY DEF FoundInv
<1>1. Fresh /\ IpIdle /\ Started = {} /\ ~(failed /\ job.list # "bad")
  BY <1>0 DEF PhaseInv
<1>2. \A h \in ToSet(Hosts) : host[h].pc = "off"
  BY <1>0, <1>1 DEF TypeInv, Started
<1>3. \A h \in ToSet(Hosts) : host[h] = Idle
  BY <1>0, <1>2 DEF HostInv, HostOK
<1>4. Probing = {}
  BY <1>0, <1>3, IdleIs DEF Probing, TypeInv
<1>5. ToSet(<<>>) = {} /\ Ids(<<>>) = {} /\ SameId(<<>>) /\ IsInjective(<<>>) /\ Len(<<>>) = 0
  BY DEF ToSet, Ids, SameId, IsInjective
<1>6. Measures(<<>>) = {}
  BY <1>5 DEF Measures
<1>7. Found = {}
  <2>1. \A h \in ToSet(Hosts) : host[h].ended \cup ToSet(host[h].out) = {}
    BY <1>3, <1>5, IdleIs
  <2> QED BY <1>1, <1>5, <2>1 DEF Found, Fresh
<1>8. Reported = {}
  <2>1. Probes(<<>>) = {}
    BY DEF Probes
  <2> QED BY <1>1, <1>5, <2>1 DEF Reported, Fresh
<1> QED BY <1>1, <1>3, <1>4, <1>5, <1>6, <1>7, <1>8

LEMMA ScanDoesNotStart ==
  ASSUME FoundInv, CannotStart
  PROVE  FoundInv'
<1>0. TypeInv /\ PhaseInv /\ LimitSni /\ LimitIp /\ HostInv
  BY DEF FoundInv
<1>1. /\ pc = "load" /\ pc' = "error"
      /\ UNCHANGED <<job, task, failed, ipVars, sniVars, all, chan, arrived, aborted, result, progress,
                     completed, panics>>
  BY DEF CannotStart
<1>2. TypeInv'
  BY <1>0, <1>1 DEF TypeInv, ipVars, sniVars
<1>3. LimitSni' /\ Started' = Started
  BY <1>0, <1>1, SniFrame DEF sniVars
<1>4. LimitIp' /\ (IpIdle' <=> IpIdle)
  BY <1>0, <1>1, IpFrame
<1>5. HostInv'
  BY <1>0, <1>1, HostFrame DEF sniVars
<1>6. PhaseInv'
  BY <1>0, <1>1, <1>3, <1>4 DEF PhaseInv, Fresh, Watched, Live, Done, ipVars, sniVars
<1>7. RankInv' /\ IpInv' /\ SniInv' /\ CompletedLast'
  BY <1>1 DEF RankInv, IpInv, SniInv, CompletedLast, Watched
<1> QED BY <1>2, <1>3, <1>4, <1>5, <1>6, <1>7 DEF FoundInv

LEMMA IpScanStarts ==
  ASSUME FoundInv, StartIpScan
  PROVE  FoundInv'
<1>0. TypeInv /\ PhaseInv /\ LimitSni /\ LimitIp /\ HostInv
  BY DEF FoundInv
<1>1. /\ pc = "load" /\ job.list = "ip" /\ pc' = "watch" /\ task' = "run" /\ left' = Positions
      /\ UNCHANGED <<job, failed, p1, pending, p2, tested, sniVars, all, chan, arrived, aborted, result,
                     progress, completed, panics>>
  BY DEF StartIpScan
<1>2. task = "none"
  BY <1>0, <1>1 DEF PhaseInv
<1>3. /\ p1 = {} /\ p2 = {} /\ pending = <<>> /\ all = <<>> /\ tested = 0 /\ chan = <<>> /\ progress = 0
      /\ Started = {} /\ Reported = {} /\ ~failed
      /\ Ids(<<>>) = {} /\ ToSet(<<>>) = {} /\ Measures(<<>>) = {} /\ SameId(<<>>)
      /\ IsInjective(<<>>) /\ Len(<<>>) = 0
  BY <1>1, <1>2, BeforeTheScan DEF Fresh, IpIdle
<1>4. TypeInv'
  BY <1>0, <1>1 DEF TypeInv, sniVars
<1>5. LimitSni' /\ Started' = Started
  BY <1>0, <1>1, <1>2 DEF LimitSni, Probing, Started, SniLimit, sniVars
<1>6. Cardinality({}) = 0
  BY FS_EmptySet
<1>7. LimitIp'
  <2>1. Cardinality(Positions) \in Nat /\ Cardinality(Positions) <= Len(Ips)
    BY PositionsAre
  <2>2. P1Limit' \in Nat \ {0} /\ P2Limit' \in Nat \ {0}
    BY <1>0, <1>1, Limits DEF P1Limit, P2Limit
  <2> QED BY <1>1, <1>3, <1>6, <2>1, <2>2 DEF LimitIp
<1>8. HostInv'
  BY <1>0, <1>1, HostFrame DEF sniVars
<1>9. PhaseInv'
  BY <1>0, <1>1, <1>3, <1>5 DEF PhaseInv, Watched, Live, Done
<1>10. RankInv' /\ SniInv' /\ CompletedLast'
  BY <1>1 DEF RankInv, SniInv, CompletedLast, Done
<1>11. IpPlaces'
  BY <1>1, <1>3 DEF IpPlaces
<1>12. IpWhole'
  BY <1>1, <1>3, <1>6 DEF IpWhole
<1>13. Reported' = Reported
  BY <1>1 DEF Reported
<1>14. IpReports'
  BY <1>1, <1>3, <1>6, <1>13 DEF IpReports
<1> QED BY <1>4, <1>5, <1>7, <1>8, <1>9, <1>10, <1>11, <1>12, <1>14 DEF FoundInv, IpInv

LEMMA SniScanStarts ==
  ASSUME FoundInv, StartSniScan
  PROVE  FoundInv'
<1>0. TypeInv /\ PhaseInv /\ LimitSni /\ LimitIp /\ HostInv
  BY DEF FoundInv
<1>1. /\ pc = "load" /\ job.list \in {"sni", "bad"} /\ pc' = "watch" /\ task' = "run" /\ queue' = Hosts
      /\ permits' = SniLimit
      /\ UNCHANGED <<job, failed, ipVars, host, all, chan, arrived, aborted, result, progress, completed,
                     panics>>
  BY DEF StartSniScan
<1>2. task = "none"
  BY <1>0, <1>1 DEF PhaseInv
<1>3. /\ all = <<>> /\ chan = <<>> /\ progress = 0 /\ Started = {} /\ Probing = {} /\ Reported = {}
      /\ Found = {} /\ IpIdle
      /\ Ids(<<>>) = {} /\ ToSet(<<>>) = {} /\ SameId(<<>>) /\ Len(<<>>) = 0
      /\ \A h \in ToSet(Hosts) : host[h] = Idle
  BY <1>1, <1>2, BeforeTheScan DEF Fresh
<1>4. Hosts \in Seq(ToSet(Hosts)) /\ IsInjective(Hosts)
  BY ScanAssumption
<1>5. SniLimit \in Nat \ {0}
  BY <1>0, Limits
<1>6. TypeInv'
  BY <1>0, <1>1, <1>4, <1>5 DEF TypeInv, ipVars
<1>7. IsFiniteSet({}) /\ Cardinality({}) = 0
  BY FS_EmptySet
<1>8. Started' = Started /\ Probing' = Probing /\ Reported' = Reported /\ Found' = Found
  BY <1>1 DEF Started, Probing, Reported, Found
<1>9. LimitSni'
  <2>1. SniLimit' = SniLimit
    BY <1>1 DEF SniLimit
  <2> QED BY <1>1, <1>3, <1>5, <1>7, <1>8, <2>1 DEF LimitSni
<1>10. LimitIp' /\ (IpIdle' <=> IpIdle)
  BY <1>0, <1>1, IpFrame
<1>11. HostInv'
  BY <1>0, <1>1, HostFrame
<1>12. PhaseInv'
  BY <1>0, <1>1, <1>3, <1>8, <1>10 DEF PhaseInv, Watched, Live, Done
<1>13. RankInv' /\ IpInv' /\ CompletedLast'
  BY <1>1 DEF RankInv, IpInv, CompletedLast, Done
<1>14. SniPlaces'
  BY <1>1, <1>3, <1>4, <1>7, <1>8, IdleIs DEF SniPlaces
<1>15. SniReports'
  BY <1>1, <1>3, <1>7, <1>8 DEF SniReports
<1> QED BY <1>6, <1>9, <1>10, <1>11, <1>12, <1>13, <1>14, <1>15 DEF FoundInv, SniInv

LEMMA SniScanHasFailed ==
  ASSUME FoundInv, SniScanFails
  PROVE  FoundInv'
<1>0. TypeInv /\ PhaseInv /\ LimitSni /\ LimitIp /\ HostInv
  BY DEF FoundInv
<1>1. /\ task = "run" /\ job.list = "bad" /\ task' = "left" /\ failed'
      /\ UNCHANGED <<job, ipVars, sniVars, all, chan, mainVars, panics>>
  BY DEF SniScanFails, Scanning
<1>2. Watched /\ Watched' /\ pc' = pc /\ pc # "scanned" /\ all = <<>>
  BY <1>0, <1>1 DEF PhaseInv, Watched, mainVars
<1>3. LimitSni' /\ Started' = Started
  BY <1>0, <1>1, SniFrame DEF sniVars
<1>4. LimitIp' /\ (IpIdle' <=> IpIdle)
  BY <1>0, <1>1, IpFrame
<1>5. HostInv'
  BY <1>0, <1>1, HostFrame DEF sniVars
<1>6. TypeInv'
  BY <1>0, <1>1 DEF TypeInv, ipVars, sniVars, mainVars
<1>7. PhaseInv'
  BY <1>0, <1>1, <1>2, <1>3, <1>4 DEF PhaseInv, Watched, Live, Done, mainVars
<1>8. RankInv' /\ IpInv' /\ SniInv' /\ CompletedLast'
  BY <1>1, <1>2 DEF RankInv, IpInv, SniInv, CompletedLast, IsRanked
<1> QED BY <1>3, <1>4, <1>5, <1>6, <1>7, <1>8 DEF FoundInv

LEMMA TaskIsFinished ==
  ASSUME FoundInv, TaskFinishes
  PROVE  FoundInv'
<1>0. TypeInv /\ PhaseInv /\ RankInv /\ LimitSni /\ LimitIp /\ HostInv /\ IpInv /\ SniInv /\ CompletedLast
  BY DEF FoundInv
<1>1. /\ task = "left" /\ task' = "finished"
      /\ UNCHANGED <<job, failed, left, p1, pending, p2, tested, queue, host, permits, all, chan, pc,
                     arrived, aborted, result, progress, completed, panics>>
  BY DEF TaskFinishes, ipVars, sniVars, mainVars
<1>2. LimitSni' /\ Started' = Started
  BY <1>0, <1>1, SniFrame
<1>3. LimitIp' /\ (IpIdle' <=> IpIdle)
  BY <1>0, <1>1, IpFrame DEF ipVars
<1>4. HostInv'
  BY <1>0, <1>1, HostFrame
<1>5. TypeInv'
  BY <1>0, <1>1 DEF TypeInv
<1>6. PhaseInv'
  BY <1>0, <1>1, <1>2, <1>3 DEF PhaseInv, Watched, Live, Done
<1>7. RankInv' /\ CompletedLast'
  BY <1>0, <1>1 DEF RankInv, CompletedLast, Watched, Done, IsRanked
<1>8. Reported' = Reported /\ Found' = Found
  BY <1>1 DEF Reported, Found
<1>9. IpInv' /\ SniInv'
  BY <1>0, <1>1, <1>8 DEF IpInv, IpPlaces, IpWhole, IpReports, SniInv, SniPlaces, SniReports, Watched
<1> QED BY <1>2, <1>3, <1>4, <1>5, <1>6, <1>7, <1>9 DEF FoundInv

LEMMA ThreeSmaller ==
  ASSUME NEW a \in Nat, NEW b \in Nat, NEW c \in Nat, NEW n \in Nat, a + b + c <= n,
         NEW x \in Nat, NEW y \in Nat, NEW z \in Nat, x <= a, y <= b, z <= c
  PROVE  x + y + z <= n
OBVIOUS

LEMMA ScanIsDropped ==
  ASSUME FoundInv, TaskCancelled \/ (\E i \in p1 \cup p2 : ReapProbe(i))
  PROVE  FoundInv'
<1>0. TypeInv /\ PhaseInv /\ RankInv /\ LimitSni /\ LimitIp /\ HostInv /\ CompletedLast
  BY DEF FoundInv
<1>1. /\ task \in {"abort", "gone"} /\ task' = "gone"
      /\ UNCHANGED <<job, failed, host, permits, chan, pc, arrived, aborted, result, progress, completed,
                     panics>>
      /\ left' \in {left, {}} /\ pending' \in {pending, <<>>} /\ queue' \in {queue, <<>>}
      /\ all' \in {all, <<>>} /\ tested' \in {tested, 0}
      /\ p1' \in SUBSET p1 /\ p2' \in SUBSET p2
  BY DEF TaskCancelled, ReapProbe, sniVars, mainVars
<1>2. ~Watched /\ ~Watched' /\ ~Done /\ ~Done'
  BY <1>0, <1>1 DEF PhaseInv, Watched, Live, Done
<1>3. LimitSni' /\ Started' = Started
  BY <1>0, <1>1, SniFrame
<1>4. HostInv'
  BY <1>0, <1>1, HostFrame
<1>5. TypeInv'
  <2>1. <<>> \in Seq(Positions) /\ <<>> \in Seq(ToSet(Hosts)) /\ <<>> \in Seq(Entries)
    OBVIOUS
  <2>2. /\ pending' \in Seq(Positions) /\ queue' \in Seq(ToSet(Hosts)) /\ all' \in Seq(Entries)
        /\ left' \subseteq Positions /\ p1' \subseteq Positions /\ p2' \subseteq Positions /\ tested' \in Nat
    <3>1. /\ pending \in Seq(Positions) /\ queue \in Seq(ToSet(Hosts)) /\ all \in Seq(Entries)
          /\ left \subseteq Positions /\ p1 \subseteq Positions /\ p2 \subseteq Positions
          /\ tested \in Nat
      BY <1>0 DEF TypeInv
    <3>2. pending' \in Seq(Positions)
      BY <1>1, <2>1, <3>1
    <3>3. queue' \in Seq(ToSet(Hosts))
      BY <1>1, <2>1, <3>1
    <3>4. all' \in Seq(Entries)
      BY <1>1, <2>1, <3>1
    <3>5. left' \subseteq Positions /\ p1' \subseteq Positions /\ p2' \subseteq Positions
      BY <1>1, <3>1
    <3>6. tested' \in Nat
      BY <1>1, <3>1
    <3> QED BY <3>2, <3>3, <3>4, <3>5, <3>6
  <2> QED BY <1>0, <1>1, <2>2 DEF TypeInv
<1>6. LimitIp'
  <2>1. /\ IsFiniteSet(left) /\ IsFiniteSet(p1) /\ IsFiniteSet(p2) /\ tested \in Nat
        /\ Cardinality(left) \in Nat /\ Cardinality(p1) \in Nat /\ Cardinality(p2) \in Nat
        /\ Len(pending) \in Nat /\ P1Limit \in Nat /\ P2Limit \in Nat /\ Len(Ips) \in Nat
    BY <1>0, IpTypes
  <2>2. /\ Cardinality(p1') \in Nat /\ Cardinality(p1') <= Cardinality(p1)
        /\ Cardinality(p2') \in Nat /\ Cardinality(p2') <= Cardinality(p2)
    BY <1>1, <2>1, FS_Subset, FS_CardinalityType
  <2>3. Cardinality(left') \in Nat /\ Cardinality(left') <= Cardinality(left)
    <3>1. Cardinality({}) = 0
      BY FS_EmptySet
    <3>2. CASE left' = {}
      BY <2>1, <3>1, <3>2
    <3>3. CASE left' = left
      BY <2>1, <3>3
    <3> QED BY <1>1, <3>2, <3>3
  <2>4. Len(pending') \in Nat /\ Len(pending') <= Len(pending) /\ tested' \in Nat /\ tested' <= tested
    <3>1. Len(<<>>) = 0
      OBVIOUS
    <3> QED BY <1>1, <2>1, <3>1
  <2>5. P1Limit' = P1Limit /\ P2Limit' = P2Limit
    BY <1>1 DEF P1Limit, P2Limit
  <2>6. /\ Cardinality(p1) <= P1Limit /\ Cardinality(p2) <= P2Limit
        /\ Len(pending) + Cardinality(p1) < P1Limit + P2Limit
        /\ tested + Cardinality(p1) + Cardinality(left) <= Len(Ips)
    BY <1>0 DEF LimitIp
  <2>7. /\ Cardinality(p1') <= P1Limit /\ Cardinality(p2') <= P2Limit
        /\ Len(pending') + Cardinality(p1') < P1Limit + P2Limit
        /\ tested' + Cardinality(p1') + Cardinality(left') <= Len(Ips)
    <3>1. Cardinality(p1') <= P1Limit /\ Cardinality(p2') <= P2Limit
      BY <2>1, <2>2, <2>6
    <3>2. Len(pending') + Cardinality(p1') < P1Limit + P2Limit
      BY <2>1, <2>2, <2>4, <2>6
    <3>3. tested' + Cardinality(p1') + Cardinality(left') <= Len(Ips)
      BY SMTT(30), <2>1, <2>2, <2>3, <2>4, <2>6, ThreeSmaller
    <3> QED BY <3>1, <3>2, <3>3
  <2> QED BY <2>5, <2>7 DEF LimitIp
<1>7. PhaseInv'
  BY <1>0, <1>1, <1>2, <1>3 DEF PhaseInv, IpIdle, Watched
<1>8. RankInv'
  <2>1. Measures(all') \subseteq Measures(all)
    <3>1. Measures(<<>>) = {}
      BY DEF Measures, ToSet
    <3> QED BY <1>1, <3>1
  <2> QED BY <1>0, <1>1, <1>2, <2>1 DEF RankInv, IsRanked
<1>9. CompletedLast' /\ IpInv' /\ SniInv'
  BY <1>0, <1>1, <1>2 DEF CompletedLast, IpInv, SniInv
<1> QED BY <1>3, <1>4, <1>5, <1>6, <1>7, <1>8, <1>9 DEF FoundInv

(***************************************************************************)
(* The main thread during the scan.                                        *)
(***************************************************************************)
LEMMA ProgressIsRead ==
  ASSUME FoundInv, ReadProgress
  PROVE  FoundInv'
<1>0. TypeInv /\ PhaseInv /\ RankInv /\ LimitSni /\ LimitIp /\ HostInv /\ IpInv /\ SniInv /\ CompletedLast
  BY DEF FoundInv
<1>1. /\ pc = "watch" /\ pc' = pc /\ chan # <<>> /\ job.ui # "silent" /\ chan' = Tail(chan)
      /\ UNCHANGED <<job, task, failed, left, p1, pending, p2, tested, queue, host, permits, all, result,
                     panics>>
      /\ arrived' = IF job.ui = "tui" /\ Head(chan).kind = "probe"
                    THEN Append(arrived, Head(chan).entry) ELSE arrived
      /\ progress' = IF job.ui = "events" THEN progress + 1 ELSE progress
  BY DEF ReadProgress, ipVars, sniVars
<1>2. chan \in Seq(Events) /\ arrived \in Seq(Entries) /\ progress \in Nat
  BY <1>0 DEF TypeInv
<1>3. /\ Head(chan) \in Events /\ chan' \in Seq(Events) /\ Len(chan') = Len(chan) - 1 /\ Len(chan) \in Nat
  BY <1>1, <1>2, Headed
<1>4. Probes(chan) = IF Head(chan).kind = "probe" THEN {Head(chan).entry} \cup Probes(chan')
                     ELSE Probes(chan')
  BY <1>1, <1>2, ProbesAre
<1>5. Head(chan).kind = "probe" => Head(chan).entry \in Entries
  BY <1>3 DEF Events
<1>6. /\ arrived' \in Seq(Entries)
      /\ job.ui = "tui" => Reported' = Reported
  <2>1. CASE job.ui = "tui" /\ Head(chan).kind = "probe"
    <3>1. /\ arrived' = Append(arrived, Head(chan).entry) /\ arrived' \in Seq(Entries)
          /\ ToSet(arrived') = ToSet(arrived) \cup {Head(chan).entry}
      BY <1>1, <1>2, <1>5, <2>1, Appended
    <3> QED BY <1>4, <2>1, <3>1 DEF Reported
  <2>2. CASE ~(job.ui = "tui" /\ Head(chan).kind = "probe")
    BY <1>1, <1>2, <1>4, <2>2 DEF Reported
  <2> QED BY <2>1, <2>2
<1>7. progress' \in Nat /\ (job.ui = "events" => progress' + Len(chan') = progress + Len(chan))
  BY <1>1, <1>2, <1>3
<1>8. TypeInv'
  BY <1>0, <1>1, <1>3, <1>6, <1>7 DEF TypeInv
<1>9. LimitSni' /\ Started' = Started
  BY <1>0, <1>1, SniFrame
<1>10. LimitIp' /\ (IpIdle' <=> IpIdle)
  BY <1>0, <1>1, IpFrame DEF ipVars
<1>11. HostInv'
  BY <1>0, <1>1, HostFrame
<1>12. task # "none"
  BY <1>0, <1>1 DEF PhaseInv
<1>13. PhaseInv'
  BY <1>0, <1>1, <1>9, <1>10, <1>12 DEF PhaseInv, Watched, Live, Done
<1>14. RankInv' /\ CompletedLast'
  BY <1>0, <1>1 DEF RankInv, CompletedLast, Watched, Done, IsRanked
<1>15. Found' = Found
  BY <1>1 DEF Found
<1>16. IpInv'
  <2>1. SUFFICES ASSUME job.list = "ip" PROVE IpPlaces' /\ IpWhole' /\ IpReports'
    BY <1>1 DEF IpInv
  <2>2. IpPlaces /\ IpWhole /\ IpReports
    BY <1>0, <1>1, <2>1 DEF IpInv, Watched
  <2>3. IpPlaces' /\ IpWhole'
    BY <1>1, <2>2 DEF IpPlaces, IpWhole
  <2>4. IpReports'
    BY <1>1, <1>6, <1>7, <2>2 DEF IpReports
  <2> QED BY <2>3, <2>4
<1>17. SniInv'
  <2>1. SUFFICES ASSUME job.list = "sni" PROVE SniPlaces' /\ SniReports'
    BY <1>1 DEF SniInv
  <2>2. SniPlaces /\ SniReports
    BY <1>0, <1>1, <2>1 DEF SniInv, Watched
  <2>3. SniPlaces'
    BY <1>1, <1>15, <2>2 DEF SniPlaces
  <2>4. SniReports'
    BY <1>1, <1>6, <1>7, <1>15, <2>2 DEF SniReports
  <2> QED BY <2>3, <2>4
<1> QED BY <1>8, <1>9, <1>10, <1>11, <1>13, <1>14, <1>16, <1>17 DEF FoundInv

LEMMA WatchingEnds ==
  ASSUME FoundInv, ProgressEnds \/ UserAborts
  PROVE  FoundInv'
<1>0. TypeInv /\ PhaseInv /\ RankInv /\ LimitSni /\ LimitIp /\ HostInv /\ IpInv /\ SniInv /\ CompletedLast
  BY DEF FoundInv
<1>1. /\ pc = "watch" /\ pc' = "decide" /\ job.ui = "tui"
      /\ UNCHANGED <<job, task, failed, left, p1, pending, p2, tested, queue, host, permits, all, chan,
                     arrived, result, progress, completed, panics>>
  BY DEF ProgressEnds, UserAborts, ipVars, sniVars
<1>2. LimitSni' /\ Started' = Started
  BY <1>0, <1>1, SniFrame
<1>3. LimitIp' /\ (IpIdle' <=> IpIdle)
  BY <1>0, <1>1, IpFrame DEF ipVars
<1>4. HostInv'
  BY <1>0, <1>1, HostFrame
<1>5. TypeInv'
  BY <1>0, <1>1 DEF TypeInv
<1>6. PhaseInv'
  <2>1. ~aborted' => Done /\ chan = <<>>
    <3>1. Live
      BY <1>0, <1>1 DEF PhaseInv, Watched
    <3>2. CASE ProgressEnds
      BY <3>1, <3>2 DEF ProgressEnds, SenderGone, Live, Done
    <3>3. CASE UserAborts
      BY <3>3 DEF UserAborts
    <3> QED BY <3>2, <3>3
  <2>2. Done' <=> Done
    BY <1>1 DEF Done
  <2>3. pc' = "decide" /\ ~aborted' => Done' /\ chan' = <<>>
    BY <1>1, <2>1, <2>2
  <2> QED BY <1>0, <1>1, <1>2, <1>3, <2>2, <2>3 DEF PhaseInv, Watched, Live
<1>7. RankInv' /\ CompletedLast'
  BY <1>0, <1>1 DEF RankInv, CompletedLast, Watched, Done, IsRanked
<1>8. Reported' = Reported /\ Found' = Found
  BY <1>1 DEF Reported, Found
<1>9. IpInv' /\ SniInv'
  BY <1>0, <1>1, <1>8 DEF IpInv, IpPlaces, IpWhole, IpReports, SniInv, SniPlaces, SniReports, Watched
<1> QED BY <1>2, <1>3, <1>4, <1>5, <1>6, <1>7, <1>9 DEF FoundInv

LEMMA ListIsTaken ==
  ASSUME FoundInv, TakeFinished \/ TakeArrived \/ HeadlessFails
  PROVE  FoundInv'
<1>0. TypeInv /\ PhaseInv /\ RankInv /\ LimitSni /\ LimitIp /\ HostInv /\ IpInv /\ SniInv
  BY DEF FoundInv
<1>1. /\ pc \in {"watch", "decide"} /\ pc' \in {"scanned", "error"}
      /\ UNCHANGED <<job, failed, left, p1, pending, p2, tested, queue, host, permits, all,
                     progress, completed, panics>>
      /\ chan' \in {chan, <<>>} /\ arrived' \in {arrived, <<>>}
  BY DEF TakeFinished, TakeArrived, HeadlessFails, ipVars, sniVars
<1>2. all \in Seq(Entries) /\ arrived \in Seq(Entries) /\ result \in Seq(Entries) /\ chan \in Seq(Events)
      /\ <<>> \in Seq(Entries) /\ <<>> \in Seq(Events)
  BY <1>0 DEF TypeInv
<1>3. Live /\ ~Watched'
  BY <1>0, <1>1 DEF PhaseInv, Watched
<1>4. /\ task' \in {"left", "finished", "abort", "gone"}
      /\ result' \in Seq(Entries)
      /\ pc' = "scanned" => IsRanked(result') /\ job.ui = "tui"
      /\ pc' = "scanned" /\ Done' => result' = all /\ IsRanked(all) /\ Done
      /\ Done' => Done
  <2>1. CASE TakeFinished
    <3>1. /\ pc = "decide" /\ task = "finished" /\ task' = task
          /\ result' = IF failed THEN result ELSE all
          /\ pc' = IF failed THEN "error" ELSE "scanned"
      BY <2>1 DEF TakeFinished
    <3>2. IsRanked(all) /\ job.ui = "tui"
      BY <1>0, <3>1 DEF RankInv, Done, Watched, PhaseInv
    <3> QED BY <1>2, <3>1, <3>2 DEF Done
  <2>2. CASE TakeArrived
    <3>1. /\ pc = "decide" /\ result' = Ranked(arrived)
          /\ task' = IF task = "run" THEN "abort" ELSE "gone"
      BY <2>2 DEF TakeArrived
    <3>2. job.ui = "tui"
      BY <1>0, <3>1 DEF PhaseInv
    <3>3. result' \in Seq(Entries) /\ IsRanked(result')
      BY <1>2, <3>1, RankedIs
    <3> QED BY <3>1, <3>2, <3>3 DEF Done
  <2>3. CASE HeadlessFails
    BY <1>2, <1>3, <2>3 DEF HeadlessFails, SenderGone, Done, Live
  <2> QED BY <2>1, <2>2, <2>3
<1>5. LimitSni' /\ Started' = Started
  <2>1. task # "none" /\ task' # "none"
    BY <1>3, <1>4 DEF Live
  <2> QED BY <1>0, <1>1, <2>1, SniFrame
<1>6. LimitIp' /\ (IpIdle' <=> IpIdle)
  BY <1>0, <1>1, IpFrame DEF ipVars
<1>7. HostInv'
  BY <1>0, <1>1, HostFrame
<1>8. TypeInv'
  <2>1. chan' \in Seq(Events) /\ arrived' \in Seq(Entries)
    BY <1>1, <1>2
  <2> QED BY <1>0, <1>1, <1>4, <2>1 DEF TypeInv
<1>9. PhaseInv'
  BY <1>0, <1>1, <1>3, <1>4, <1>5, <1>6 DEF PhaseInv, Watched, Live, Done
<1>10. RankInv'
  <2>1. ASSUME pc' = "scanned", ~aborted' PROVE Measures(all') \subseteq ToSet(result')
    <3>1. CASE result' = all
      BY <1>1, <3>1 DEF Measures
    <3>2. CASE TakeArrived
      <4>1. pc = "decide" /\ result' = Ranked(arrived) /\ ~aborted
        BY <2>1, <3>2 DEF TakeArrived
      <4>2. Watched /\ Done /\ chan = <<>> /\ job.ui = "tui"
        BY <1>0, <4>1 DEF PhaseInv, Watched
      <4>3. ToSet(result') = ToSet(arrived)
        BY <1>2, <4>1, RankedIs
      <4>4. Probes(<<>>) = {}
        BY DEF Probes
      <4>5. Reported = ToSet(arrived)
        BY <4>2, <4>4 DEF Reported
      <4>6. job.list = "ip" => Measures(all) = Reported
        BY <1>0, <4>2 DEF IpInv, IpReports
      <4>7. job.list = "sni" => Measures(all) \subseteq Reported
        BY <1>0, <4>2 DEF SniInv, SniReports, Found, Measures
      <4>8. job.list = "bad" => Measures(all) = {}
        BY <1>0, <4>2 DEF PhaseInv, Measures, ToSet
      <4> QED BY <1>0, <1>1, <4>3, <4>5, <4>6, <4>7, <4>8, JobIs
    <3>3. TakeArrived \/ result' = all
      BY <2>1 DEF TakeFinished, HeadlessFails
    <3> QED BY <3>1, <3>2, <3>3
  <2> QED BY <1>1, <1>3, <1>4, <2>1 DEF RankInv, IsRanked
<1>11. CompletedLast'
  BY <1>1, <1>4 DEF CompletedLast
<1>12. IpInv' /\ SniInv'
  BY <1>3 DEF IpInv, SniInv
<1> QED BY <1>5, <1>6, <1>7, <1>8, <1>9, <1>10, <1>11, <1>12 DEF FoundInv

\* A scan that is done: nothing is under way, and every entry is in the list.
LEMMA DoneIsWhole ==
  ASSUME FoundInv, Done, Watched
  PROVE  /\ job.list \in {"ip", "sni"} => Cardinality(Ids(all)) = Len(all) /\ Cardinality(ToSet(all)) = Len(all)
         /\ job.list = "ip" /\ panics = 0 => Ids(all) = Positions /\ tested = Len(all)
         /\ job.list = "sni" => Found = ToSet(all)
         /\ job.list = "bad" => failed
<1>0. TypeInv /\ PhaseInv /\ HostInv /\ IpInv /\ SniInv
  BY DEF FoundInv
<1>1. IpIdle /\ Started = {} /\ (job.list = "bad" => failed)
  BY <1>0 DEF PhaseInv, Done
<1>2. all \in Seq(Entries) /\ Len(all) \in Nat
  BY <1>0, IpTypes
<1>3. ToSet(<<>>) = {} /\ Len(<<>>) = 0 /\ Cardinality({}) = 0
  BY FS_EmptySet DEF ToSet
<1>4. ASSUME job.list = "ip" PROVE SameId(all) /\ (panics = 0 => Ids(all) = Positions /\ tested = Len(all))
  <2>1. IpPlaces /\ IpWhole
    BY <1>0, <1>4 DEF IpInv
  <2>2. left = {} /\ p1 = {} /\ p2 = {} /\ pending = <<>>
    BY <1>1 DEF IpIdle
  <2>3. ASSUME panics = 0 PROVE Ids(all) = Positions
    BY <1>3, <2>1, <2>2, <2>3 DEF IpWhole
  <2>4. ASSUME panics = 0 PROVE tested = Len(all)
    <3>1. tested = Len(all) + Len(pending) + Cardinality(p2)
      BY <2>1, <2>4 DEF IpWhole
    <3>2. Len(pending) = 0 /\ Cardinality(p2) = 0
      BY <1>3, <2>2
    <3> QED BY <1>2, <3>1, <3>2
  <2> QED BY <2>1, <2>3, <2>4 DEF IpPlaces
<1>5. ASSUME job.list = "sni" PROVE SameId(all) /\ Found = ToSet(all)
  <2>1. SniPlaces
    BY <1>0, <1>5 DEF SniInv
  <2>2. \A h \in ToSet(Hosts) : host[h].pc = "off"
    BY <1>0, <1>1 DEF TypeInv, Started
  <2>3. \A h \in ToSet(Hosts) : host[h] = Idle
    BY <1>0, <2>2 DEF HostInv, HostOK
  <2>4. \A h \in ToSet(Hosts) : host[h].ended \cup ToSet(host[h].out) = {}
    BY <1>3, <2>3, IdleIs
  <2> QED BY <2>1, <2>4 DEF SniPlaces, Found
<1>6. job.list \in {"ip", "sni"} => SameId(all)
  BY <1>4, <1>5
<1> QED BY <1>1, <1>2, <1>4, <1>5, <1>6, NamesCount

LEMMA HeadlessScanEnds ==
  ASSUME FoundInv, HeadlessEnds
  PROVE  FoundInv'
<1>0. TypeInv /\ PhaseInv /\ RankInv /\ LimitSni /\ LimitIp /\ HostInv /\ IpInv /\ SniInv
  BY DEF FoundInv
<1>1. /\ pc = "watch" /\ pc' = "scanned" /\ SenderGone /\ chan = <<>> /\ result' = all /\ ~failed
      /\ UNCHANGED <<job, task, failed, left, p1, pending, p2, tested, queue, host, permits, all, chan,
                     arrived, progress, panics>>
  BY DEF HeadlessEnds, ipVars, sniVars
<1>2. Watched /\ Live /\ Done /\ ~Watched'
  BY <1>0, <1>1 DEF PhaseInv, Watched, Live, Done, SenderGone
<1>3. all \in Seq(Entries) /\ IsRanked(all)
  BY <1>0, <1>2 DEF TypeInv, RankInv
<1>4. TypeInv'
  BY <1>0, <1>1, <1>3 DEF TypeInv
<1>5. LimitSni' /\ Started' = Started
  BY <1>0, <1>1, SniFrame
<1>6. LimitIp' /\ (IpIdle' <=> IpIdle)
  BY <1>0, <1>1, IpFrame DEF ipVars
<1>7. HostInv'
  BY <1>0, <1>1, HostFrame
<1>8. PhaseInv'
  BY <1>0, <1>1, <1>2, <1>5, <1>6 DEF PhaseInv, Watched, Live, Done
<1>9. RankInv'
  BY <1>1, <1>3 DEF RankInv, IsRanked, Measures
<1>10. IpInv' /\ SniInv'
  BY <1>2 DEF IpInv, SniInv
<1>11. CompletedLast'
  <2>1. SUFFICES ASSUME job.ui = "events", panics = 0
                 PROVE  /\ job.list = "sni" => progress = Len(all)
                        /\ job.list = "ip" => progress = Len(all) + Cardinality(Measures(all))
    BY <1>1 DEF CompletedLast, Measures
  <2>2. Len(chan) = 0 /\ progress \in Nat
    BY <1>0, <1>1 DEF TypeInv
  <2>3. ASSUME job.list = "sni" PROVE progress = Len(all)
    <3>1. progress + Len(chan) = Cardinality(Found)
      BY <1>0, <1>2, <2>1, <2>3 DEF SniInv, SniReports
    <3>2. Cardinality(Found) = Len(all)
      BY <1>2, <2>3, DoneIsWhole
    <3> QED BY <2>2, <3>1, <3>2
  <2>4. ASSUME job.list = "ip" PROVE progress = Len(all) + Cardinality(Measures(all))
    <3>1. progress + Len(chan) = tested + Cardinality(Measures(all))
      BY <1>0, <1>2, <2>1, <2>4 DEF IpInv, IpReports
    <3>2. tested = Len(all)
      BY <1>2, <2>1, <2>4, DoneIsWhole
    <3> QED BY <2>2, <3>1, <3>2
  <2> QED BY <2>3, <2>4
<1> QED BY <1>4, <1>5, <1>6, <1>7, <1>8, <1>9, <1>10, <1>11 DEF FoundInv

(***************************************************************************)
(* scan_sni_list: a step of one hostname's task.                           *)
(***************************************************************************)
\* The record of h becomes r.
Becomes(h, r) ==
  /\ h \in ToSet(Hosts) /\ r \in HostRecs /\ IsFiniteSet(r.running) /\ IsFiniteSet(r.ended)
  /\ HostOK(h, r) /\ host' = [host EXCEPT ![h] = r]

LEMMA HostIsUpdated ==
  ASSUME TypeInv, HostInv, NEW h, NEW r, Becomes(h, r),
         panics' = 0 => panics = 0 /\ \A e \in r.ended : e.v4
  PROVE  /\ host' \in [ToSet(Hosts) -> HostRecs] /\ HostInv'
         /\ \A g \in ToSet(Hosts) : IsFiniteSet(host'[g].running) /\ IsFiniteSet(host'[g].ended)
         /\ host'[h] = r /\ \A g \in ToSet(Hosts) \ {h} : host'[g] = host[g]
<1>1. /\ host \in [ToSet(Hosts) -> HostRecs]
      /\ \A g \in ToSet(Hosts) : IsFiniteSet(host[g].running) /\ IsFiniteSet(host[g].ended)
  BY DEF TypeInv
<1>2. /\ h \in ToSet(Hosts) /\ r \in HostRecs /\ IsFiniteSet(r.running) /\ IsFiniteSet(r.ended)
      /\ HostOK(h, r) /\ host' = [host EXCEPT ![h] = r]
  BY DEF Becomes
<1>3. /\ host' \in [ToSet(Hosts) -> HostRecs] /\ host'[h] = r
      /\ \A g \in ToSet(Hosts) \ {h} : host'[g] = host[g]
  BY <1>1, <1>2
<1>4. \A g \in ToSet(Hosts) : IsFiniteSet(host'[g].running) /\ IsFiniteSet(host'[g].ended)
  BY <1>1, <1>2, <1>3
<1>5. HostInv'
  <2> SUFFICES ASSUME NEW g \in ToSet(Hosts)
               PROVE  HostOK(g, host'[g]) /\ (panics' = 0 => \A e \in host'[g].ended : e.v4)
    BY DEF HostInv
  <2>1. CASE g = h
    BY <1>2, <1>3, <2>1
  <2>2. CASE g # h
    BY <1>3, <2>2 DEF HostInv
  <2> QED BY <2>1, <2>2
<1> QED BY <1>3, <1>4, <1>5

\* A hostname whose task runs: the list is one of hostnames and the scan not done.
LEMMA HostIsBusy ==
  ASSUME FoundInv, NEW h \in ToSet(Hosts), host[h].pc # "off"
  PROVE  job.list = "sni" /\ task \in {"run", "abort", "gone"}
<1>1. h \in Started
  BY DEF FoundInv, TypeInv, Started
<1> QED BY <1>1 DEF FoundInv, PhaseInv, TypeInv, Done

LEMMA HostStepFrame ==
  ASSUME FoundInv, job.list = "sni", task \in {"run", "abort", "gone"},
         UNCHANGED <<job, task, failed, ipVars, mainVars>>,
         panics' = panics \/ panics' # 0, ~Watched => chan' = chan /\ all' = all
  PROVE  /\ PhaseInv' /\ RankInv' /\ LimitIp' /\ IpInv' /\ CompletedLast'
         /\ (Watched' <=> Watched) /\ SniLimit' = SniLimit
         /\ Watched => SniPlaces /\ SniReports
<1>0. TypeInv /\ PhaseInv /\ RankInv /\ LimitIp /\ SniInv /\ CompletedLast
  BY DEF FoundInv
<1>1. UNCHANGED <<pc, arrived, aborted, result, progress, completed>> /\ job' = job /\ task' = task
      /\ failed' = failed
  BY DEF mainVars
<1>2. (Watched' <=> Watched) /\ ~Done /\ ~Done' /\ SniLimit' = SniLimit
  BY <1>1 DEF Watched, Done, SniLimit
<1>3. LimitIp' /\ (IpIdle' <=> IpIdle)
  BY <1>0, IpFrame
<1>4. PhaseInv'
  BY <1>0, <1>1, <1>2, <1>3 DEF PhaseInv, Live, Watched
<1>5. RankInv'
  <2>1. pc = "scanned" => all' = all
    BY DEF Watched
  <2> QED BY <1>0, <1>1, <1>2, <2>1 DEF RankInv, IsRanked
<1>6. IpInv'
  BY <1>1 DEF IpInv
<1>7. CompletedLast'
  BY <1>0, <1>1 DEF CompletedLast, Watched
<1>8. Watched => SniPlaces /\ SniReports
  BY <1>0 DEF SniInv
<1> QED BY <1>2, <1>3, <1>4, <1>5, <1>6, <1>7, <1>8

Of(h, R) == {<<h, a>> : a \in R}

LEMMA ProbingIs ==
  ASSUME TypeInv, NEW h, NEW r, Becomes(h, r)
  PROVE  /\ Probing' = (Probing \ Of(h, host[h].running)) \cup Of(h, r.running)
         /\ Of(h, host[h].running) \subseteq Probing
<1>1. /\ host \in [ToSet(Hosts) -> HostRecs] /\ h \in ToSet(Hosts)
      /\ host' = [host EXCEPT ![h] = r]
  BY DEF TypeInv, Becomes
<1>2. /\ DOMAIN host = ToSet(Hosts) /\ DOMAIN host' = ToSet(Hosts) /\ host'[h] = r
      /\ \A g \in ToSet(Hosts) : g # h => host'[g] = host[g]
  BY <1>1
<1>3. \A x : x \in Probing <=> \E g \in ToSet(Hosts) : x \in Of(g, host[g].running)
  BY <1>2 DEF Probing, Of
<1>4. \A x : x \in Probing' <=> \E g \in ToSet(Hosts) : x \in Of(g, host'[g].running)
  BY <1>2 DEF Probing, Of
<1>5. \A g, R, S : g # h => Of(g, R) \cap Of(h, S) = {}
  BY DEF Of
<1>6. Of(h, host[h].running) \subseteq Probing
  BY <1>1, <1>3
<1>7. ASSUME NEW x \in Probing'
      PROVE  x \in (Probing \ Of(h, host[h].running)) \cup Of(h, r.running)
  <2>1. PICK g \in ToSet(Hosts) : x \in Of(g, host'[g].running)
    BY <1>4
  <2>2. CASE g = h
    BY <1>2, <2>1, <2>2
  <2>3. CASE g # h
    BY <1>2, <1>3, <1>5, <2>1, <2>3
  <2> QED BY <2>2, <2>3
<1>8. ASSUME NEW x \in Probing, x \notin Of(h, host[h].running) PROVE x \in Probing'
  <2>1. PICK g \in ToSet(Hosts) : x \in Of(g, host[g].running)
    BY <1>3
  <2>2. g # h
    BY <1>8, <2>1
  <2> QED BY <1>2, <1>4, <2>1, <2>2
<1>9. ASSUME NEW x \in Of(h, r.running) PROVE x \in Probing'
  BY <1>1, <1>2, <1>4
<1> QED BY <1>6, <1>7, <1>8, <1>9

LEMMA StartedIs ==
  ASSUME TypeInv, NEW h, NEW r, Becomes(h, r)
  PROVE  /\ Started' \subseteq Started \cup {h}
         /\ r.pc = "off" => Started' \subseteq Started
         /\ IsFiniteSet(Started) /\ Cardinality(Started) \in Nat
<1>1. /\ host \in [ToSet(Hosts) -> HostRecs] /\ h \in ToSet(Hosts)
      /\ host' = [host EXCEPT ![h] = r]
  BY DEF TypeInv, Becomes
<1>2. /\ DOMAIN host = ToSet(Hosts) /\ DOMAIN host' = ToSet(Hosts) /\ host'[h] = r
      /\ \A g \in ToSet(Hosts) : g # h => host'[g] = host[g]
  BY <1>1
<1>3. Started' \subseteq Started \cup {h} /\ (r.pc = "off" => Started' \subseteq Started)
  BY <1>2 DEF Started
<1>4. Started \in SUBSET ToSet(Hosts)
  BY <1>2 DEF Started
<1>5. IsFiniteSet(ToSet(Hosts))
  BY ScanAssumption, FiniteElements
<1> QED BY <1>3, <1>4, <1>5, FS_Subset, FS_CardinalityType

OthersFound(h) == ToSet(all) \cup UNION {host[g].ended \cup ToSet(host[g].out) : g \in ToSet(Hosts) \ {h}}

LEMMA FoundIs ==
  ASSUME TypeInv, NEW h, NEW r, Becomes(h, r)
  PROVE  /\ Found = OthersFound(h) \cup host[h].ended \cup ToSet(host[h].out)
         /\ all' = all => Found' = OthersFound(h) \cup r.ended \cup ToSet(r.out)
         /\ \A x : x \in Found' <=> \/ x \in ToSet(all') \/ x \in r.ended \cup ToSet(r.out)
                                    \/ \E g \in ToSet(Hosts) \ {h} : x \in host[g].ended \cup ToSet(host[g].out)
<1>1. /\ host \in [ToSet(Hosts) -> HostRecs] /\ h \in ToSet(Hosts)
      /\ host' = [host EXCEPT ![h] = r]
  BY DEF TypeInv, Becomes
<1>2. host'[h] = r /\ \A g \in ToSet(Hosts) : g # h => host'[g] = host[g]
  BY <1>1
<1> DEFINE D(g) == host[g].ended \cup ToSet(host[g].out)
           E(g) == host'[g].ended \cup ToSet(host'[g].out)
<1>3. Found = ToSet(all) \cup UNION {D(g) : g \in ToSet(Hosts)}
  BY DEF Found
<1>4. Found' = ToSet(all') \cup UNION {E(g) : g \in ToSet(Hosts)}
  BY DEF Found
<1>5. OthersFound(h) = ToSet(all) \cup UNION {D(g) : g \in ToSet(Hosts) \ {h}}
  BY DEF OthersFound
<1>6. E(h) = r.ended \cup ToSet(r.out) /\ \A g \in ToSet(Hosts) \ {h} : E(g) = D(g)
  BY <1>2
<1>7. Found = OthersFound(h) \cup D(h)
  <2> HIDE DEF D
  <2> QED BY <1>1, <1>3, <1>5
<1>8. \A x : x \in Found' <=> \/ x \in ToSet(all') \/ x \in E(h)
                              \/ \E g \in ToSet(Hosts) \ {h} : x \in D(g)
  <2> HIDE DEF D, E
  <2> QED BY <1>1, <1>4, <1>6
<1>9. all' = all => Found' = OthersFound(h) \cup E(h)
  <2> HIDE DEF D, E
  <2> QED BY <1>5, <1>8
<1> QED BY <1>6, <1>7, <1>8, <1>9

LEMMA HostFields ==
  ASSUME FoundInv, NEW h \in ToSet(Hosts)
  PROVE  /\ host[h] \in HostRecs /\ host[h].left \in Seq(Addresses) /\ host[h].running \subseteq Addresses
         /\ host[h].ended \subseteq Entries /\ host[h].out \in Seq(Entries) /\ host[h].asked \in Nat
         /\ host[h].pc \in HostPcs
         /\ IsFiniteSet(host[h].running) /\ IsFiniteSet(host[h].ended)
         /\ HostOK(h, host[h]) /\ (panics = 0 => \A e \in host[h].ended : e.v4)
<1>1. host[h] \in HostRecs /\ IsFiniteSet(host[h].running) /\ IsFiniteSet(host[h].ended)
  BY DEF FoundInv, TypeInv
<1>2. HostOK(h, host[h]) /\ (panics = 0 => \A e \in host[h].ended : e.v4)
  BY DEF FoundInv, HostInv
<1>3. /\ host[h].left \in Seq(Addresses) /\ host[h].running \subseteq Addresses
      /\ host[h].ended \subseteq Entries /\ host[h].out \in Seq(Entries) /\ host[h].asked \in Nat
      /\ host[h].pc \in HostPcs
  BY <1>1 DEF HostRecs
<1> QED BY <1>1, <1>2, <1>3

\* What a step that starts, ends or loses no probe and finds nothing leaves as it was.
LEMMA PlacesStay ==
  ASSUME FoundInv, NEW h, NEW r, Becomes(h, r), host[h].pc # "off", SniPlaces,
         all' = all, queue' = queue, IsFiniteSet(Found')
  PROVE  SniPlaces'
<1>1. host \in [ToSet(Hosts) -> HostRecs] /\ queue \in Seq(ToSet(Hosts)) /\ h \in ToSet(Hosts)
      /\ host' = [host EXCEPT ![h] = r]
  BY DEF FoundInv, TypeInv, Becomes
<1>2. \A g \in ToSet(Hosts) \ {h} : host'[g] = host[g]
  BY <1>1
<1>3. ToSet(queue) \subseteq ToSet(Hosts)
  BY <1>1, ElementsIn
<1>4. \A g \in ToSet(queue) : host'[g].pc = "off"
  BY <1>2, <1>3 DEF SniPlaces
<1>5. ASSUME NEW e \in ToSet(all) PROVE host'[e.id[1]].pc = "off"
  <2>1. e.id \in HostIds /\ host[e.id[1]].pc = "off"
    BY DEF SniPlaces
  <2>2. e.id[1] \in ToSet(Hosts)
    BY <2>1 DEF HostIds
  <2> QED BY <1>2, <2>1, <2>2
<1> QED BY <1>4, <1>5 DEF SniPlaces

LEMMA QuietHostStep ==
  ASSUME FoundInv, NEW h, NEW r, Becomes(h, r), host[h].pc # "off", r.running = host[h].running,
         r.ended \cup ToSet(r.out) \subseteq host[h].ended \cup ToSet(host[h].out),
         panics = 0 => r.ended \cup ToSet(r.out) = host[h].ended \cup ToSet(host[h].out),
         r.ended \subseteq host[h].ended,
         UNCHANGED <<job, task, failed, ipVars, queue, permits, all, chan, mainVars, panics>>
  PROVE  FoundInv'
<1>0. TypeInv /\ LimitSni /\ HostInv /\ h \in ToSet(Hosts)
  BY DEF FoundInv, Becomes
<1>1. job.list = "sni" /\ task \in {"run", "abort", "gone"}
  BY <1>0, HostIsBusy
<1>2. /\ PhaseInv' /\ RankInv' /\ LimitIp' /\ IpInv' /\ CompletedLast'
      /\ (Watched' <=> Watched) /\ SniLimit' = SniLimit
      /\ Watched => SniPlaces /\ SniReports
  BY <1>1, HostStepFrame
<1>3. /\ host' \in [ToSet(Hosts) -> HostRecs] /\ HostInv'
      /\ \A g \in ToSet(Hosts) : IsFiniteSet(host'[g].running) /\ IsFiniteSet(host'[g].ended)
  <2>1. panics = 0 => \A e \in r.ended : e.v4
    BY <1>0, HostFields
  <2> QED BY <1>0, <2>1, HostIsUpdated
<1>4. TypeInv'
  BY <1>0, <1>3 DEF TypeInv, ipVars, mainVars
<1>5. Probing' = Probing
  <2>1. /\ Probing' = (Probing \ Of(h, host[h].running)) \cup Of(h, host[h].running)
        /\ Of(h, host[h].running) \subseteq Probing
    BY <1>0, ProbingIs
  <2> QED BY <2>1
<1>6. Cardinality(Started') <= SniLimit /\ SniLimit \in Nat
  <2>1. h \in Started
    BY <1>0 DEF TypeInv, Started
  <2>2. Started' \in SUBSET Started /\ IsFiniteSet(Started) /\ Cardinality(Started) \in Nat
    BY <1>0, <2>1, StartedIs
  <2>3. Cardinality(Started') \in Nat /\ Cardinality(Started') <= Cardinality(Started)
    BY <2>2, FS_Subset, FS_CardinalityType
  <2> QED BY <1>0, <2>2, <2>3, Limits DEF LimitSni
<1>7. LimitSni'
  BY <1>0, <1>2, <1>5, <1>6 DEF LimitSni
<1>8. Found' \in SUBSET Found /\ (panics = 0 => Found' = Found)
  <2>1. PICK S : S = host[h].ended \cup ToSet(host[h].out)
    OBVIOUS
  <2>2. PICK T : T = r.ended \cup ToSet(r.out)
    OBVIOUS
  <2>3. PICK O : O = OthersFound(h)
    OBVIOUS
  <2>4. Found = O \cup S /\ Found' = O \cup T
    <3>1. /\ Found = OthersFound(h) \cup host[h].ended \cup ToSet(host[h].out)
          /\ Found' = OthersFound(h) \cup r.ended \cup ToSet(r.out)
      BY <1>0, FoundIs
    <3>2. Found = O \cup S
      BY <2>1, <2>3, <3>1
    <3>3. Found' = O \cup T
      BY <2>2, <2>3, <3>1
    <3> QED BY <3>2, <3>3
  <2>5. T \in SUBSET S /\ (panics = 0 => T = S)
    BY <2>1, <2>2
  <2> QED BY <2>4, <2>5
<1>9. ASSUME Watched PROVE SniPlaces' /\ SniReports'
  <2>1. IsFiniteSet(Found')
    BY <1>2, <1>8, <1>9, FS_Subset DEF SniPlaces
  <2>2. SniPlaces'
    BY <1>2, <1>9, <2>1, PlacesStay
  <2>3. UNCHANGED <<arrived, progress, chan, job, panics>>
    BY DEF mainVars
  <2>4. Reported' = Reported
    BY <2>3 DEF Reported
  <2>5. SniReports'
    BY <1>2, <1>8, <1>9, <2>3, <2>4 DEF SniReports
  <2> QED BY <2>2, <2>5
<1>10. SniInv'
  BY <1>2, <1>9 DEF SniInv
<1> QED BY <1>2, <1>3, <1>4, <1>7, <1>10 DEF FoundInv

LEMMA NamesAreResolved ==
  ASSUME FoundInv, NEW h \in ToSet(Hosts), AskServer(h) \/ DnsFails(h)
  PROVE  FoundInv'
<1>1. /\ host[h].pc = "dns"
      /\ UNCHANGED <<job, task, failed, ipVars, queue, permits, all, chan, mainVars, panics>>
  BY DEF AskServer, DnsFails
<1>2. /\ host[h] \in HostRecs /\ host[h].asked \in Nat /\ HostOK(h, host[h])
      /\ IsFiniteSet(host[h].running) /\ IsFiniteSet(host[h].ended)
  BY HostFields
<1>3. host[h].left = <<>> /\ host[h].running = {} /\ host[h].ended = {} /\ host[h].out = <<>>
  BY <1>1, <1>2 DEF HostOK
<1>4. ToSet(<<>>) = {} /\ Ids(<<>>) = {} /\ SameId(<<>>)
  BY DEF ToSet, Ids, SameId
<1>5. PICK r : /\ host' = [host EXCEPT ![h] = r] /\ r \in HostRecs
               /\ r.running = {} /\ r.ended = {} /\ r.out = <<>>
               /\ \/ r.pc \in {"dns", "back"} /\ r.left = <<>>
                  \/ r.pc = "loop" /\ r.left \in Answers[h]
  <2>1. CASE Upd(h, [host[h] EXCEPT !.asked = @ + 1])
    <3>1. PICK r : r = [host[h] EXCEPT !.asked = @ + 1]
      OBVIOUS
    <3>2. r \in HostRecs /\ r.pc = "dns" /\ r.left = <<>> /\ r.running = {} /\ r.ended = {} /\ r.out = <<>>
      BY <1>1, <1>2, <1>3, <3>1 DEF HostRecs
    <3> QED BY <2>1, <3>1, <3>2 DEF Upd
  <2>2. CASE \E addrs \in Answers[h] \ {<<>>} : Upd(h, [host[h] EXCEPT !.pc = "loop", !.left = addrs])
    <3>1. PICK addrs \in Answers[h] : Upd(h, [host[h] EXCEPT !.pc = "loop", !.left = addrs])
      BY <2>2
    <3>2. PICK r : r = [host[h] EXCEPT !.pc = "loop", !.left = addrs]
      OBVIOUS
    <3>3. addrs \in Seq(Addresses)
      BY AddressesAre
    <3>4. r \in HostRecs /\ r.pc = "loop" /\ r.left = addrs /\ r.running = {} /\ r.ended = {} /\ r.out = <<>>
      BY <1>2, <1>3, <3>2, <3>3 DEF HostRecs, HostPcs
    <3> QED BY <3>1, <3>2, <3>4 DEF Upd
  <2>3. CASE Upd(h, [host[h] EXCEPT !.pc = "back"])
    <3>1. PICK r : r = [host[h] EXCEPT !.pc = "back"]
      OBVIOUS
    <3>2. r \in HostRecs /\ r.pc = "back" /\ r.left = <<>> /\ r.running = {} /\ r.ended = {} /\ r.out = <<>>
      BY <1>2, <1>3, <3>1 DEF HostRecs, HostPcs
    <3> QED BY <2>3, <3>1, <3>2 DEF Upd
  <2> QED BY <2>1, <2>2, <2>3 DEF AskServer, DnsFails
<1>6. \A i, j \in DOMAIN r.left : r.left[i].ip = r.left[j].ip => i = j
  BY <1>5, AddressesAre
<1>7. HostOK(h, r)
  BY <1>4, <1>5, <1>6 DEF HostOK
<1>8. Becomes(h, r)
  BY <1>5, <1>7, FS_EmptySet DEF Becomes
<1> QED BY <1>1, <1>3, <1>5, <1>8, QuietHostStep

LEMMA AddressIsSkipped ==
  ASSUME FoundInv, NEW h \in ToSet(Hosts), SkipAddress(h)
  PROVE  FoundInv'
<1>1. /\ host[h].pc = "loop" /\ host[h].left # <<>>
      /\ Upd(h, [host[h] EXCEPT !.left = Tail(@)])
      /\ UNCHANGED <<job, task, failed, ipVars, queue, permits, all, chan, mainVars, panics>>
  BY DEF SkipAddress
<1>2. /\ host[h] \in HostRecs /\ host[h].left \in Seq(Addresses) /\ HostOK(h, host[h])
      /\ IsFiniteSet(host[h].running) /\ IsFiniteSet(host[h].ended)
  BY HostFields
<1>3. PICK q : q = host[h]
  OBVIOUS
<1>4. PICK r : r = [q EXCEPT !.left = Tail(@)]
  OBVIOUS
<1>5. /\ Tail(q.left) \in Seq(Addresses) /\ Len(q.left) \in Nat
      /\ DOMAIN q.left = 1..Len(q.left) /\ DOMAIN Tail(q.left) = 1..(Len(q.left) - 1)
      /\ \A i \in 1..(Len(q.left) - 1) : Tail(q.left)[i] = q.left[i + 1]
      /\ ToSet(q.left) = {Head(q.left)} \cup ToSet(Tail(q.left))
  BY <1>1, <1>2, <1>3, Headed
<1>6. /\ r \in HostRecs /\ r.pc = "loop" /\ r.left = Tail(q.left) /\ r.running = q.running
      /\ r.ended = q.ended /\ r.out = q.out
  BY <1>1, <1>2, <1>3, <1>4, <1>5 DEF HostRecs
<1>7. \A i \in DOMAIN r.left : i + 1 \in DOMAIN q.left /\ r.left[i] = q.left[i + 1] /\ i \in Int
  BY <1>5, <1>6
<1>8. \A i, j \in DOMAIN r.left : r.left[i].ip = r.left[j].ip => i = j
  <2> TAKE i, j \in DOMAIN r.left
  <2> HAVE r.left[i].ip = r.left[j].ip
  <2>1. i + 1 = j + 1
    BY <1>2, <1>3, <1>7 DEF HostOK
  <2> QED BY <1>7, <2>1
<1>9. \A a \in r.running : \A i \in DOMAIN r.left : a.ip # r.left[i].ip
  BY <1>2, <1>3, <1>6, <1>7 DEF HostOK
<1>10. HostOK(h, r)
  BY <1>2, <1>3, <1>5, <1>6, <1>8, <1>9 DEF HostOK
<1>11. Becomes(h, r)
  BY <1>1, <1>2, <1>3, <1>4, <1>6, <1>10 DEF Becomes, Upd
<1> QED BY <1>1, <1>3, <1>6, <1>11, QuietHostStep

LEMMA NoTasksLeft ==
  ASSUME NEW r \in HostRecs, IsFiniteSet(r.running), IsFiniteSet(r.ended), Tasks(r) = 0
  PROVE  r.running = {} /\ r.ended = {}
<1>1. Cardinality(r.running) \in Nat /\ Cardinality(r.ended) \in Nat
  BY FS_CardinalityType
<1>2. Cardinality(r.running) = 0 /\ Cardinality(r.ended) = 0
  BY <1>1 DEF Tasks
<1> QED BY <1>2, FS_EmptySet

LEMMA HostHasEnded ==
  ASSUME FoundInv, NEW h \in ToSet(Hosts), HostEnds(h)
  PROVE  FoundInv'
<1>1. /\ host[h].pc = "loop" /\ host[h].left = <<>> /\ Tasks(host[h]) = 0
      /\ Upd(h, [host[h] EXCEPT !.pc = "back"])
      /\ UNCHANGED <<job, task, failed, ipVars, queue, permits, all, chan, mainVars, panics>>
  BY DEF HostEnds
<1>2. /\ host[h] \in HostRecs /\ HostOK(h, host[h])
      /\ IsFiniteSet(host[h].running) /\ IsFiniteSet(host[h].ended)
  BY HostFields
<1>3. host[h].running = {} /\ host[h].ended = {}
  BY <1>1, <1>2, NoTasksLeft
<1>4. PICK q : q = host[h]
  OBVIOUS
<1>5. PICK r : r = [q EXCEPT !.pc = "back"]
  OBVIOUS
<1>6. /\ r \in HostRecs /\ r.pc = "back" /\ r.left = q.left /\ r.running = q.running
      /\ r.ended = q.ended /\ r.out = q.out
  BY <1>2, <1>4, <1>5 DEF HostRecs, HostPcs
<1>7. HostOK(h, r)
  BY <1>1, <1>2, <1>3, <1>4, <1>6 DEF HostOK
<1>8. Becomes(h, r)
  BY <1>1, <1>2, <1>4, <1>5, <1>6, <1>7 DEF Becomes, Upd
<1> QED BY <1>1, <1>4, <1>6, <1>8, QuietHostStep

LEMMA ProbeIsJoined ==
  ASSUME FoundInv, NEW h \in ToSet(Hosts), JoinProbe(h)
  PROVE  FoundInv'
<1>1. /\ host[h].pc \in {"full", "loop"}
      /\ UNCHANGED <<job, task, failed, ipVars, queue, permits, all, chan, mainVars, panics>>
  BY DEF JoinProbe
<1>2. PICK e \in host[h].ended :
        Upd(h, [host[h] EXCEPT !.pc = "loop", !.ended = @ \ {e},
                               !.out = IF e.v4 THEN Append(@, e) ELSE @])
  BY DEF JoinProbe
<1>3. /\ host[h] \in HostRecs /\ HostOK(h, host[h]) /\ host[h].ended \subseteq Entries
      /\ host[h].out \in Seq(Entries)
      /\ IsFiniteSet(host[h].running) /\ IsFiniteSet(host[h].ended)
      /\ panics = 0 => \A x \in host[h].ended : x.v4
  BY HostFields
<1>4. PICK q : q = host[h]
  OBVIOUS
<1>5. PICK out : out = IF e.v4 THEN Append(q.out, e) ELSE q.out
  OBVIOUS
<1>6. PICK r : r = [q EXCEPT !.pc = "loop", !.ended = q.ended \ {e}, !.out = out]
  OBVIOUS
<1>7. host' = [host EXCEPT ![h] = r]
  BY <1>2, <1>4, <1>5, <1>6 DEF Upd
<1>8. e \in Entries /\ q.out \in Seq(Entries) /\ e.id \notin Ids(q.out) /\ SameId(q.out)
  BY <1>3, <1>4 DEF HostOK
<1>9. /\ out \in Seq(Entries) /\ SameId(out) /\ ToSet(out) \subseteq ToSet(q.out) \cup {e}
      /\ Ids(out) \subseteq Ids(q.out) \cup {e.id} /\ ToSet(q.out) \subseteq ToSet(out)
      /\ e.v4 => e \in ToSet(out)
  <2>1. CASE e.v4
    BY <1>5, <1>8, <2>1, Appended, AppendedIds
  <2>2. CASE ~e.v4
    BY <1>5, <1>8, <2>2
  <2> QED BY <2>1, <2>2
<1>10. /\ r \in HostRecs /\ r.pc = "loop" /\ r.left = q.left /\ r.running = q.running
       /\ r.ended = q.ended \ {e} /\ r.out = out
  BY <1>3, <1>4, <1>6, <1>9 DEF HostRecs, HostPcs
<1>11. HostOK(h, q) /\ e \in q.ended
  BY <1>3, <1>4
<1>12. HostOK(h, r)
  <2>1. \A x \in r.ended \cup ToSet(r.out) : x \in q.ended \cup ToSet(q.out)
    BY <1>9, <1>10, <1>11
  <2>2. \A x \in r.ended \cup ToSet(r.out) :
          /\ x.id \in HostIds /\ x.id[1] = h
          /\ \A a \in r.running \cup ToSet(r.left) : x.id[2] # a.ip
    BY <1>10, <1>11, <2>1 DEF HostOK
  <2>3. \A x \in r.ended : x.id \notin Ids(r.out)
    <3>1. \A x \in r.ended : x \in q.ended /\ x # e
      BY <1>10
    <3>2. \A x \in q.ended : x.id \notin Ids(q.out) /\ (x.id = e.id => x = e)
      BY <1>11 DEF HostOK
    <3> QED BY <1>9, <1>10, <3>1, <3>2
  <2>4. \A x, y \in r.ended : x.id = y.id => x = y
    BY <1>10, <1>11 DEF HostOK
  <2> QED BY <1>9, <1>10, <1>11, <2>2, <2>3, <2>4 DEF HostOK
<1>13. IsFiniteSet(r.ended) /\ IsFiniteSet(r.running)
  BY <1>3, <1>4, <1>10, FS_RemoveElement
<1>14. Becomes(h, r)
  BY <1>7, <1>10, <1>12, <1>13 DEF Becomes
<1>15. /\ r.ended \cup ToSet(r.out) \subseteq q.ended \cup ToSet(q.out)
       /\ panics = 0 => r.ended \cup ToSet(r.out) = q.ended \cup ToSet(q.out)
  <2>1. r.ended \cup ToSet(r.out) \subseteq q.ended \cup ToSet(q.out)
    BY <1>9, <1>10, <1>11
  <2>2. panics = 0 => q.ended \cup ToSet(q.out) \subseteq r.ended \cup ToSet(r.out)
    BY <1>3, <1>4, <1>9, <1>10
  <2> QED BY <2>1, <2>2
<1> QED BY <1>1, <1>4, <1>10, <1>14, <1>15, QuietHostStep

\* A step of a hostname's task or of the scanner on its behalf: what is left to show.
LEMMA HostMoves ==
  ASSUME FoundInv, NEW h, NEW r, Becomes(h, r), job.list = "sni", task \in {"run", "abort", "gone"},
         UNCHANGED <<job, task, failed, ipVars, mainVars>>,
         queue' \in Seq(ToSet(Hosts)), all' \in Seq(Entries), chan' \in Seq(Events),
         ~Watched => chan' = chan /\ all' = all,
         panics' \in Nat, panics' <= job.panics, panics' = panics \/ panics' # 0,
         panics' = 0 => \A e \in r.ended : e.v4,
         permits' \in Nat, IsFiniteSet(Probing'),
         permits' + Cardinality(Probing') = permits + Cardinality(Probing),
         Cardinality(Started') <= SniLimit,
         Watched => SniPlaces' /\ SniReports'
  PROVE  FoundInv'
<1>0. TypeInv /\ LimitSni /\ HostInv
  BY DEF FoundInv
<1>2. /\ PhaseInv' /\ RankInv' /\ LimitIp' /\ IpInv' /\ CompletedLast'
      /\ (Watched' <=> Watched) /\ SniLimit' = SniLimit
  BY HostStepFrame
<1>3. /\ host' \in [ToSet(Hosts) -> HostRecs] /\ HostInv'
      /\ \A g \in ToSet(Hosts) : IsFiniteSet(host'[g].running) /\ IsFiniteSet(host'[g].ended)
  BY <1>0, HostIsUpdated
<1>4. TypeInv'
  BY <1>0, <1>3 DEF TypeInv, ipVars, mainVars
<1>5. LimitSni'
  BY <1>0, <1>2 DEF LimitSni
<1>6. SniInv'
  BY <1>2 DEF SniInv
<1> QED BY <1>2, <1>3, <1>4, <1>5, <1>6 DEF FoundInv

LEMMA StartedStays ==
  ASSUME FoundInv, NEW h, NEW r, Becomes(h, r), host[h].pc # "off" \/ r.pc = "off"
  PROVE  Cardinality(Started') <= SniLimit
<1>0. TypeInv /\ LimitSni /\ h \in ToSet(Hosts)
  BY DEF FoundInv, Becomes
<1>1. Started' \in SUBSET Started /\ IsFiniteSet(Started) /\ Cardinality(Started) \in Nat
  <2>1. host[h].pc # "off" => h \in Started
    BY <1>0 DEF TypeInv, Started
  <2> QED BY <1>0, <2>1, StartedIs
<1>2. Cardinality(Started') \in Nat /\ Cardinality(Started') <= Cardinality(Started)
  BY <1>1, FS_Subset, FS_CardinalityType
<1> QED BY <1>0, <1>1, <1>2, Limits DEF LimitSni

LEMMA ProbingOf ==
  ASSUME TypeInv, NEW h \in ToSet(Hosts), NEW a
  PROVE  <<h, a>> \in Probing <=> a \in host[h].running
<1>1. DOMAIN host = ToSet(Hosts)
  BY DEF TypeInv
<1> QED BY <1>1 DEF Probing

LEMMA ProbeIsSpawned ==
  ASSUME FoundInv, NEW h \in ToSet(Hosts), SpawnProbe(h)
  PROVE  FoundInv'
<1>1. /\ host[h].pc = "loop" /\ host[h].left # <<>> /\ permits > 0 /\ permits' = permits - 1
      /\ UNCHANGED <<job, task, failed, ipVars, queue, all, chan, mainVars, panics>>
  BY DEF SpawnProbe, MayTakePermit
<1>2. /\ host[h] \in HostRecs /\ host[h].left \in Seq(Addresses) /\ host[h].running \subseteq Addresses
      /\ HostOK(h, host[h]) /\ IsFiniteSet(host[h].running) /\ IsFiniteSet(host[h].ended)
      /\ panics = 0 => \A e \in host[h].ended : e.v4
  BY HostFields
<1>3. PICK q : q = host[h]
  OBVIOUS
<1>4. PICK a : a = Head(q.left)
  OBVIOUS
<1>5. PICK c : c \in {"full", "loop"} /\ host' = [host EXCEPT ![h] =
                 [q EXCEPT !.left = Tail(q.left), !.running = q.running \cup {a}, !.pc = c]]
  <2> DEFINE r == [q EXCEPT !.left = Tail(q.left), !.running = q.running \cup {a}]
             c == IF Tasks(r) >= SniLimit THEN "full" ELSE "loop"
  <2>1. host' = [host EXCEPT ![h] = [r EXCEPT !.pc = c]]
    BY <1>3, <1>4 DEF SpawnProbe, Upd
  <2>2. c \in {"full", "loop"}
    OBVIOUS
  <2>3. [r EXCEPT !.pc = c] = [q EXCEPT !.left = Tail(q.left), !.running = q.running \cup {a}, !.pc = c]
    <3> HIDE DEF c
    <3> QED BY <1>2, <1>3 DEF HostRecs
  <2> HIDE DEF c
  <2> QED BY <2>1, <2>2, <2>3
<1>6. PICK r : r = [q EXCEPT !.left = Tail(q.left), !.running = q.running \cup {a}, !.pc = c]
  OBVIOUS
<1>7. /\ a \in Addresses /\ a = q.left[1] /\ 1 \in DOMAIN q.left
      /\ Tail(q.left) \in Seq(Addresses) /\ Len(q.left) \in Nat
      /\ DOMAIN q.left = 1..Len(q.left) /\ DOMAIN Tail(q.left) = 1..(Len(q.left) - 1)
      /\ \A i \in 1..(Len(q.left) - 1) : Tail(q.left)[i] = q.left[i + 1]
      /\ ToSet(q.left) = {a} \cup ToSet(Tail(q.left))
  BY <1>1, <1>2, <1>3, <1>4, Headed
<1>8. /\ r \in HostRecs /\ r.pc \in {"loop", "full"} /\ r.left = Tail(q.left)
      /\ r.running = q.running \cup {a} /\ r.ended = q.ended /\ r.out = q.out
  BY <1>2, <1>3, <1>5, <1>6, <1>7 DEF HostRecs, HostPcs
<1>9. \A i \in DOMAIN r.left : i + 1 \in DOMAIN q.left /\ r.left[i] = q.left[i + 1] /\ i \in Int /\ i + 1 # 1
  BY <1>7, <1>8
<1>10. /\ \A i, j \in DOMAIN q.left : q.left[i].ip = q.left[j].ip => i = j
       /\ \A b \in q.running : \A i \in DOMAIN q.left : b.ip # q.left[i].ip
       /\ \A b, d \in q.running : b.ip = d.ip => b = d
  BY <1>2, <1>3 DEF HostOK
<1>11. HostOK(h, r)
  <2>1. \A i, j \in DOMAIN r.left : r.left[i].ip = r.left[j].ip => i = j
    <3> TAKE i, j \in DOMAIN r.left
    <3> HAVE r.left[i].ip = r.left[j].ip
    <3>1. i + 1 = j + 1
      BY <1>9, <1>10
    <3> QED BY <1>9, <3>1
  <2>2. \A b \in r.running : \A i \in DOMAIN r.left : b.ip # r.left[i].ip
    BY <1>7, <1>8, <1>9, <1>10
  <2>3. \A b, d \in r.running : b.ip = d.ip => b = d
    BY <1>7, <1>8, <1>10
  <2>4. r.running \cup ToSet(r.left) = q.running \cup ToSet(q.left)
    BY <1>7, <1>8
  <2>5. \A e \in r.ended \cup ToSet(r.out) :
          /\ e.id \in HostIds /\ e.id[1] = h
          /\ \A b \in r.running \cup ToSet(r.left) : e.id[2] # b.ip
    BY <1>2, <1>3, <1>8, <2>4 DEF HostOK
  <2>6. /\ \A e, f \in r.ended : e.id = f.id => e = f
        /\ \A e \in r.ended : e.id \notin Ids(r.out)
        /\ SameId(r.out)
    BY <1>2, <1>3, <1>8 DEF HostOK
  <2> QED BY <1>8, <2>1, <2>2, <2>3, <2>5, <2>6 DEF HostOK
<1>12. IsFiniteSet(r.running) /\ IsFiniteSet(r.ended)
  <2>1. IsFiniteSet(q.running \cup {a})
    BY <1>2, <1>3, FS_AddElement
  <2> QED BY <1>2, <1>3, <1>8, <2>1
<1>13. Becomes(h, r)
  BY <1>5, <1>6, <1>8, <1>11, <1>12 DEF Becomes
<1>14. TypeInv /\ LimitSni
  BY DEF FoundInv
<1>15. a \notin q.running
  BY <1>7, <1>10
<1>16. Probing' = Probing \cup {<<h, a>>} /\ <<h, a>> \notin Probing
  <2>1. /\ Probing' = (Probing \ Of(h, q.running)) \cup Of(h, r.running)
        /\ Of(h, q.running) \subseteq Probing
    BY <1>3, <1>13, <1>14, ProbingIs
  <2>2. Of(h, r.running) = Of(h, q.running) \cup {<<h, a>>}
    BY <1>8 DEF Of
  <2>3. <<h, a>> \notin Probing
    BY <1>3, <1>14, <1>15, ProbingOf
  <2> QED BY <2>1, <2>2, <2>3
<1>17. /\ IsFiniteSet(Probing') /\ permits' \in Nat
       /\ permits' + Cardinality(Probing') = permits + Cardinality(Probing)
  <2>1. IsFiniteSet(Probing) /\ permits \in Nat
    BY <1>14 DEF LimitSni, TypeInv
  <2>2. /\ IsFiniteSet(Probing') /\ Cardinality(Probing') = Cardinality(Probing) + 1
        /\ Cardinality(Probing) \in Nat
    BY <1>16, <2>1, OneMore
  <2> QED BY <1>1, <2>1, <2>2
<1>18. job.list = "sni" /\ task \in {"run", "abort", "gone"}
  BY <1>1, HostIsBusy
<1>19. Cardinality(Started') <= SniLimit
  BY <1>1, <1>13, StartedStays
<1>20. Found' = Found
  <2>1. /\ Found = OthersFound(h) \cup q.ended \cup ToSet(q.out)
        /\ Found' = OthersFound(h) \cup r.ended \cup ToSet(r.out)
    BY <1>1, <1>3, <1>13, <1>14, FoundIs
  <2> QED BY <1>8, <2>1
<1>21. ASSUME Watched PROVE SniPlaces' /\ SniReports'
  <2>1. SniPlaces /\ SniReports
    BY <1>18, <1>21 DEF FoundInv, SniInv
  <2>2. SniPlaces'
    BY <1>1, <1>13, <1>20, <2>1, PlacesStay DEF SniPlaces
  <2>3. UNCHANGED <<arrived, progress, chan, job, panics>>
    BY <1>1 DEF mainVars
  <2>4. Reported' = Reported
    BY <2>3 DEF Reported
  <2>5. SniReports'
    BY <1>20, <2>1, <2>3, <2>4 DEF SniReports
  <2> QED BY <2>2, <2>5
<1>22. /\ queue' \in Seq(ToSet(Hosts)) /\ all' \in Seq(Entries) /\ chan' \in Seq(Events)
       /\ panics' \in Nat /\ panics' <= job.panics
  BY <1>1, <1>14 DEF TypeInv
<1>23. panics' = 0 => \A e \in r.ended : e.v4
  BY <1>1, <1>2, <1>3, <1>8
<1> QED BY <1>1, <1>13, <1>17, <1>18, <1>19, <1>21, <1>22, <1>23, HostMoves

\* A probe of a hostname is over, with an answer or in a panic.
LEMMA ProbeIsOver ==
  ASSUME FoundInv, NEW h \in ToSet(Hosts), NEW a \in host[h].running,
         NEW e \in SniEntries(h, a) \cup {Panicked(h, a)},
         Upd(h, [host[h] EXCEPT !.running = @ \ {a}, !.ended = @ \cup {e}]),
         permits' = permits + 1, all' = all, queue' = queue
  PROVE  /\ e \in Entries /\ (e \in SniEntries(h, a) => e.v4) /\ host[h].pc # "off"
         /\ \E r : Becomes(h, r) /\ r.ended = host[h].ended \cup {e}
         /\ IsFiniteSet(Probing') /\ permits' \in Nat
         /\ permits' + Cardinality(Probing') = permits + Cardinality(Probing)
         /\ Cardinality(Started') <= SniLimit
         /\ SniPlaces => SniPlaces' /\ Found' = Found \cup {e} /\ e \notin Found
<1>0. TypeInv /\ LimitSni /\ HostInv
  BY DEF FoundInv
<1>1. PICK q : q = host[h]
  OBVIOUS
<1>2. /\ q \in HostRecs /\ q.running \subseteq Addresses /\ q.ended \subseteq Entries
      /\ q.out \in Seq(Entries) /\ q.pc \in HostPcs
      /\ HostOK(h, q) /\ IsFiniteSet(q.running) /\ IsFiniteSet(q.ended) /\ a \in q.running
  BY <1>1, HostFields
<1>3. a \in Addresses /\ q.pc \in {"loop", "full"}
  BY <1>2 DEF HostOK, HostPcs
<1>4. e \in Entries /\ e.id = <<h, a.ip>> /\ (e \in SniEntries(h, a) => e.v4)
  BY <1>3, SniEntriesAre
<1>5. e.id \in HostIds /\ e.id[1] = h /\ e.id[2] = a.ip
  BY <1>3, <1>4 DEF HostIds
<1>6. PICK r : r = [q EXCEPT !.running = q.running \ {a}, !.ended = q.ended \cup {e}]
  OBVIOUS
<1>7. /\ r \in HostRecs /\ r.pc = q.pc /\ r.left = q.left /\ r.running = q.running \ {a}
      /\ r.ended = q.ended \cup {e} /\ r.out = q.out
  BY <1>2, <1>4, <1>6 DEF HostRecs
<1>8. \A x \in q.ended \cup ToSet(q.out) : x.id # e.id
  <2>1. \A x \in q.ended \cup ToSet(q.out) : x.id[2] # a.ip
    BY <1>2 DEF HostOK
  <2> QED BY <1>5, <2>1
<1>9. HostOK(h, r)
  <2>1. /\ \A i, j \in DOMAIN r.left : r.left[i].ip = r.left[j].ip => i = j
        /\ \A b \in r.running : \A i \in DOMAIN r.left : b.ip # r.left[i].ip
        /\ \A b, d \in r.running : b.ip = d.ip => b = d
        /\ SameId(r.out)
    BY <1>2, <1>7 DEF HostOK
  <2>2. \A b \in r.running \cup ToSet(r.left) : a.ip # b.ip
    <3>1. \A b \in q.running : b.ip = a.ip => b = a
      BY <1>2 DEF HostOK
    <3>2. \A i \in DOMAIN q.left : a.ip # q.left[i].ip
      BY <1>2 DEF HostOK
    <3>3. \A b \in ToSet(q.left) : a.ip # b.ip
      BY <3>2 DEF ToSet
    <3> QED BY <1>7, <3>1, <3>3
  <2>3. \A x \in r.ended \cup ToSet(r.out) :
          /\ x.id \in HostIds /\ x.id[1] = h
          /\ \A b \in r.running \cup ToSet(r.left) : x.id[2] # b.ip
    <3> TAKE x \in r.ended \cup ToSet(r.out)
    <3>1. CASE x = e
      BY <1>5, <2>2, <3>1
    <3>2. CASE x \in q.ended \cup ToSet(q.out)
      <4>1. /\ x.id \in HostIds /\ x.id[1] = h
            /\ \A b \in q.running \cup ToSet(q.left) : x.id[2] # b.ip
        BY <1>2, <3>2 DEF HostOK
      <4> QED BY <1>7, <4>1
    <3> QED BY <1>7, <3>1, <3>2
  <2>4. \A x, y \in r.ended : x.id = y.id => x = y
    <3>1. \A x, y \in q.ended : x.id = y.id => x = y
      BY <1>2 DEF HostOK
    <3> QED BY <1>7, <1>8, <3>1
  <2>5. \A x \in r.ended : x.id \notin Ids(r.out)
    <3>1. \A x \in q.ended : x.id \notin Ids(q.out)
      BY <1>2 DEF HostOK
    <3>2. e.id \notin Ids(q.out)
      BY <1>2, <1>8, IdsOf
    <3> QED BY <1>7, <3>1, <3>2
  <2> QED BY <1>3, <1>7, <2>1, <2>3, <2>4, <2>5 DEF HostOK
<1>10. IsFiniteSet(r.running) /\ IsFiniteSet(r.ended)
  <2>1. IsFiniteSet(r.running)
    BY <1>2, <1>7, OneLess
  <2>2. IsFiniteSet(r.ended)
    <3>1. IsFiniteSet(q.ended \cup {e})
      BY <1>2, FS_AddElement
    <3> QED BY <1>7, <3>1
  <2> QED BY <2>1, <2>2
<1>11. Becomes(h, r)
  BY <1>1, <1>6, <1>7, <1>9, <1>10 DEF Becomes, Upd
<1>12. Probing' = Probing \ {<<h, a>>} /\ <<h, a>> \in Probing
  <2>1. /\ Probing' = (Probing \ Of(h, q.running)) \cup Of(h, r.running)
        /\ Of(h, q.running) \subseteq Probing
    BY <1>0, <1>1, <1>11, ProbingIs
  <2>2. Of(h, r.running) = Of(h, q.running) \ {<<h, a>>}
    BY <1>7 DEF Of
  <2>3. <<h, a>> \in Of(h, q.running)
    BY <1>2 DEF Of
  <2> QED BY <2>1, <2>2, <2>3
<1>13. /\ IsFiniteSet(Probing') /\ permits' \in Nat
       /\ permits' + Cardinality(Probing') = permits + Cardinality(Probing)
  <2>1. IsFiniteSet(Probing) /\ permits \in Nat
    BY <1>0 DEF LimitSni, TypeInv
  <2>2. /\ IsFiniteSet(Probing') /\ Cardinality(Probing') = Cardinality(Probing) - 1
        /\ Cardinality(Probing) \in Nat
    BY <1>12, <2>1, OneLess
  <2> QED BY <2>1, <2>2
<1>14. host[h].pc # "off"
  BY <1>1, <1>3
<1>15. Cardinality(Started') <= SniLimit
  BY <1>11, <1>14, StartedStays
<1>16. Found' = Found \cup {e}
  <2>1. /\ Found = OthersFound(h) \cup q.ended \cup ToSet(q.out)
        /\ Found' = OthersFound(h) \cup r.ended \cup ToSet(r.out)
    BY <1>0, <1>1, <1>11, FoundIs
  <2> QED BY <1>7, <2>1
<1>17. ASSUME SniPlaces PROVE SniPlaces' /\ e \notin Found
  <2>1. IsFiniteSet(Found')
    BY <1>16, <1>17, FS_AddElement DEF SniPlaces
  <2>2. SniPlaces'
    BY <1>11, <1>14, <1>17, <2>1, PlacesStay
  <2>3. e \notin ToSet(all)
    BY <1>5, <1>14, <1>17 DEF SniPlaces
  <2>4. \A g \in ToSet(Hosts) : e \notin host[g].ended \cup ToSet(host[g].out)
    <3> TAKE g \in ToSet(Hosts)
    <3>1. CASE g = h
      BY <1>1, <1>8, <3>1
    <3>2. CASE g # h
      <4>1. \A x \in host[g].ended \cup ToSet(host[g].out) : x.id[1] = g
        BY <1>0 DEF HostInv, HostOK
      <4> QED BY <1>5, <3>2, <4>1
    <3> QED BY <3>1, <3>2
  <2> QED BY <2>2, <2>3, <2>4 DEF Found
<1>18. \E x : Becomes(h, x) /\ x.ended = host[h].ended \cup {e}
  BY <1>1, <1>7, <1>11
<1> QED BY <1>4, <1>13, <1>14, <1>15, <1>16, <1>17, <1>18

LEMMA ProbeHasEnded ==
  ASSUME FoundInv, NEW h \in ToSet(Hosts), NEW a \in host[h].running, ProbeEnds(h, a)
  PROVE  FoundInv'
<1>0. TypeInv
  BY DEF FoundInv
<1>1. PICK e \in SniEntries(h, a) :
        /\ Upd(h, [host[h] EXCEPT !.running = @ \ {a}, !.ended = @ \cup {e}])
        /\ Sent([kind |-> "probe", entry |-> e])
  BY DEF ProbeEnds
<1>2. /\ permits' = permits + 1
      /\ UNCHANGED <<job, task, failed, ipVars, queue, all, mainVars, panics>>
  BY DEF ProbeEnds
<1>3. /\ e \in Entries /\ e.v4 /\ host[h].pc # "off"
      /\ \E r : Becomes(h, r) /\ r.ended = host[h].ended \cup {e}
      /\ IsFiniteSet(Probing') /\ permits' \in Nat
      /\ permits' + Cardinality(Probing') = permits + Cardinality(Probing)
      /\ Cardinality(Started') <= SniLimit
      /\ SniPlaces => SniPlaces' /\ Found' = Found \cup {e} /\ e \notin Found
  BY <1>1, <1>2, ProbeIsOver
<1>4. PICK r : Becomes(h, r) /\ r.ended = host[h].ended \cup {e}
  BY <1>3
<1>5. job.list = "sni" /\ task \in {"run", "abort", "gone"}
  BY <1>3, HostIsBusy
<1>6. panics' = 0 => \A x \in r.ended : x.v4
  <2>1. panics = 0 => \A x \in host[h].ended : x.v4
    BY HostFields
  <2> QED BY <1>2, <1>3, <1>4, <2>1
<1>7. PICK ev : ev = [kind |-> "probe", entry |-> e]
  OBVIOUS
<1>8. ev \in Events /\ ev.kind = "probe" /\ ev.entry = e /\ Sent(ev)
  BY <1>1, <1>3, <1>7 DEF Events
<1>9. ~Watched => chan' = chan
  BY <1>8 DEF Sent, Watched
<1>10. Watched => /\ chan' \in Seq(Events)
                  /\ job.ui \in {"tui", "events"} =>
                       Len(chan') = Len(chan) + 1 /\ Probes(chan') = Probes(chan) \cup {e}
  BY <1>0, <1>8, WhatIsSent
<1>11. chan \in Seq(Events) /\ Len(chan) \in Nat /\ progress \in Nat
  BY <1>0 DEF TypeInv
<1>12. chan' \in Seq(Events)
  BY <1>9, <1>10, <1>11
<1>13. ASSUME Watched PROVE SniPlaces' /\ SniReports'
  <2>1. SniPlaces /\ SniReports
    BY <1>5, <1>13 DEF FoundInv, SniInv
  <2>2. SniPlaces' /\ Found' = Found \cup {e} /\ e \notin Found /\ IsFiniteSet(Found)
    BY <1>3, <2>1 DEF SniPlaces
  <2>3. Cardinality(Found') = Cardinality(Found) + 1 /\ Cardinality(Found) \in Nat
    BY <2>2, OneMore
  <2>4. UNCHANGED <<arrived, progress, job, panics>>
    BY <1>2 DEF mainVars
  <2>5. job.ui = "tui" => Reported' = Reported \cup {e}
    BY <1>10, <1>13, <2>4 DEF Reported
  <2>6. job.ui = "events" => Len(chan') = Len(chan) + 1
    BY <1>10, <1>13
  <2>7. panics = 0 /\ job.ui = "tui" => Reported' = Found'
    BY <2>1, <2>2, <2>5 DEF SniReports
  <2>8. panics = 0 /\ job.ui = "events" => progress + Len(chan') = Cardinality(Found')
    <3> SUFFICES ASSUME panics = 0, job.ui = "events" PROVE progress + Len(chan') = Cardinality(Found')
      OBVIOUS
    <3>1. progress + Len(chan) = Cardinality(Found)
      BY <2>1 DEF SniReports
    <3> QED BY <1>11, <2>3, <2>6, <3>1
  <2>9. job.ui = "tui" => \A x \in Found' : x.tcp # NoLatency => x \in Reported'
    BY <2>1, <2>2, <2>5 DEF SniReports
  <2>10. SniReports'
    BY <2>4, <2>7, <2>8, <2>9 DEF SniReports
  <2> QED BY <2>2, <2>10
<1>14. /\ queue' \in Seq(ToSet(Hosts)) /\ all' \in Seq(Entries) /\ panics' \in Nat /\ panics' <= job.panics
  BY <1>0, <1>2 DEF TypeInv
<1> QED BY <1>2, <1>3, <1>4, <1>5, <1>6, <1>9, <1>12, <1>13, <1>14, HostMoves

LEMMA SniProbeIsLost ==
  ASSUME FoundInv, NEW h \in ToSet(Hosts), NEW a \in host[h].running, LoseSniProbe(h, a)
  PROVE  FoundInv'
<1>0. TypeInv
  BY DEF FoundInv
<1>1. PICK e : e = Panicked(h, a)
  OBVIOUS
<1>2. /\ Upd(h, [host[h] EXCEPT !.running = @ \ {a}, !.ended = @ \cup {e}])
      /\ permits' = permits + 1 /\ panics' = panics + 1 /\ panics < job.panics
      /\ UNCHANGED <<job, task, failed, ipVars, queue, all, chan, mainVars>>
  BY <1>1 DEF LoseSniProbe
<1>3. /\ host[h].pc # "off"
      /\ \E r : Becomes(h, r) /\ r.ended = host[h].ended \cup {e}
      /\ IsFiniteSet(Probing') /\ permits' \in Nat
      /\ permits' + Cardinality(Probing') = permits + Cardinality(Probing)
      /\ Cardinality(Started') <= SniLimit
      /\ SniPlaces => SniPlaces' /\ Found' = Found \cup {e}
  BY <1>1, <1>2, ProbeIsOver
<1>4. PICK r : Becomes(h, r)
  BY <1>3
<1>5. job.list = "sni" /\ task \in {"run", "abort", "gone"}
  BY <1>3, HostIsBusy
<1>6. /\ queue' \in Seq(ToSet(Hosts)) /\ all' \in Seq(Entries) /\ chan' \in Seq(Events)
      /\ panics' \in Nat /\ panics' <= job.panics /\ panics' # 0
  <2>1. panics \in Nat /\ job.panics \in Nat
    BY <1>0, Limits DEF TypeInv
  <2>2. panics' \in Nat /\ panics' <= job.panics /\ panics' # 0
    BY <1>2, <2>1
  <2> QED BY <1>0, <1>2, <2>2 DEF TypeInv
<1>7. ASSUME Watched PROVE SniPlaces' /\ SniReports'
  <2>1. SniPlaces /\ SniReports
    BY <1>5, <1>7 DEF FoundInv, SniInv
  <2>2. e.tcp = NoLatency
    BY <1>1 DEF Panicked, Entry
  <2>3. UNCHANGED <<arrived, chan, job>>
    BY <1>2 DEF mainVars
  <2>4. Reported' = Reported
    BY <2>3 DEF Reported
  <2>5. job.ui = "tui" => \A x \in Found' : x.tcp # NoLatency => x \in Reported'
    BY <1>3, <2>1, <2>2, <2>4 DEF SniReports
  <2> QED BY <1>3, <1>6, <2>1, <2>3, <2>5 DEF SniReports
<1> QED BY <1>2, <1>3, <1>4, <1>5, <1>6, <1>7, HostMoves

(***************************************************************************)
(* scan_sni_list: the scanner's own steps.                                 *)
(***************************************************************************)
LEMMA HostIsStarted ==
  ASSUME FoundInv, StartHost
  PROVE  FoundInv'
<1>0. TypeInv /\ PhaseInv /\ LimitSni /\ HostInv /\ SniInv
  BY DEF FoundInv
<1>1. /\ task = "run" /\ job.list = "sni" /\ queue # <<>> /\ Cardinality(Started) < SniLimit
      /\ Upd(Head(queue), [Idle EXCEPT !.pc = "dns"]) /\ queue' = Tail(queue)
      /\ UNCHANGED <<job, task, failed, ipVars, permits, all, chan, mainVars, panics>>
  BY DEF StartHost, Scanning, MayStartHost
<1>2. Watched /\ SniPlaces /\ SniReports
  BY <1>0, <1>1 DEF PhaseInv, SniInv
<1>3. PICK h : h = Head(queue)
  OBVIOUS
<1>4. queue \in Seq(ToSet(Hosts)) /\ host \in [ToSet(Hosts) -> HostRecs]
  BY <1>0 DEF TypeInv
<1>5. /\ h \in ToSet(Hosts) /\ Tail(queue) \in Seq(ToSet(Hosts))
      /\ ToSet(queue) = {h} \cup ToSet(Tail(queue))
      /\ IsInjective(Tail(queue)) /\ h \notin ToSet(Tail(queue))
  BY <1>1, <1>2, <1>3, <1>4, Headed, LeftOfHead DEF SniPlaces
<1>6. host[h] = Idle
  <2>1. host[h].pc = "off"
    BY <1>2, <1>5 DEF SniPlaces
  <2> QED BY <1>0, <1>5, <2>1 DEF HostInv, HostOK
<1>7. PICK r : r = [Idle EXCEPT !.pc = "dns"]
  OBVIOUS
<1>8. /\ r \in HostRecs /\ r.pc = "dns" /\ r.left = <<>> /\ r.running = {} /\ r.ended = {}
      /\ r.out = <<>>
  <2>1. r = [pc |-> "dns", asked |-> 0, left |-> <<>>, running |-> {}, ended |-> {}, out |-> <<>>]
    BY <1>7 DEF Idle
  <2>2. "dns" \in HostPcs /\ <<>> \in Seq(Addresses) /\ <<>> \in Seq(Entries)
    BY DEF HostPcs
  <2>3. r \in HostRecs
    BY <2>1, <2>2 DEF HostRecs
  <2> QED BY <2>1, <2>3
<1>9. HostOK(h, r)
  <2>1. ToSet(<<>>) = {} /\ Ids(<<>>) = {} /\ SameId(<<>>)
    BY DEF ToSet, Ids, SameId
  <2> QED BY <1>8, <2>1 DEF HostOK
<1>10. Becomes(h, r)
  BY <1>1, <1>3, <1>5, <1>7, <1>8, <1>9, FS_EmptySet DEF Becomes, Upd
<1>11. Probing' = Probing
  <2>1. Of(h, {}) = {}
    BY DEF Of
  <2>2. host[h].running = {}
    BY <1>6, IdleIs
  <2>3. Probing' = (Probing \ Of(h, host[h].running)) \cup Of(h, r.running)
    BY <1>0, <1>10, ProbingIs
  <2> QED BY <1>8, <2>1, <2>2, <2>3
<1>12. /\ IsFiniteSet(Probing') /\ permits' \in Nat
       /\ permits' + Cardinality(Probing') = permits + Cardinality(Probing)
  BY <1>0, <1>1, <1>11 DEF LimitSni, TypeInv
<1>13. Cardinality(Started') <= SniLimit
  <2>1. Started' \in SUBSET (Started \cup {h}) /\ IsFiniteSet(Started) /\ Cardinality(Started) \in Nat
    BY <1>0, <1>10, StartedIs
  <2>2. IsFiniteSet(Started \cup {h}) /\ Cardinality(Started \cup {h}) <= Cardinality(Started) + 1
        /\ Cardinality(Started \cup {h}) \in Nat
    <3>1. CASE h \in Started
      <4>1. Started \cup {h} = Started
        BY <3>1
      <4> QED BY <2>1, <4>1
    <3>2. CASE h \notin Started
      BY <2>1, <3>2, OneMore
    <3> QED BY <3>1, <3>2
  <2>3. Cardinality(Started') <= Cardinality(Started \cup {h}) /\ Cardinality(Started') \in Nat
    BY <2>1, <2>2, FS_Subset, FS_CardinalityType
  <2>4. SniLimit \in Nat
    BY <1>0, Limits
  <2> QED BY <1>1, <2>1, <2>2, <2>3, <2>4
<1>14. Found' = Found
  <2>1. /\ Found = OthersFound(h) \cup host[h].ended \cup ToSet(host[h].out)
        /\ Found' = OthersFound(h) \cup r.ended \cup ToSet(r.out)
    BY <1>0, <1>1, <1>10, FoundIs
  <2>2. host[h].ended = r.ended /\ host[h].out = r.out
    BY <1>6, <1>8, IdleIs
  <2> QED BY <2>1, <2>2
<1>15. \A g \in ToSet(Hosts) \ {h} : host'[g] = host[g]
  BY <1>4, <1>10 DEF Becomes
<1>16. SniPlaces'
  <2>1. \A g \in ToSet(queue') : host'[g].pc = "off"
    <3>1. ToSet(Tail(queue)) \subseteq ToSet(Hosts)
      BY <1>5, ElementsIn
    <3> QED BY <1>1, <1>2, <1>5, <1>15, <3>1 DEF SniPlaces
  <2>2. ASSUME NEW e \in ToSet(all)
        PROVE  e.id \in HostIds /\ e.id[1] \notin ToSet(queue') /\ host'[e.id[1]].pc = "off"
    <3>1. e.id \in HostIds /\ e.id[1] \notin ToSet(queue) /\ host[e.id[1]].pc = "off"
      BY <1>2 DEF SniPlaces
    <3>2. e.id[1] \in ToSet(Hosts)
      BY <3>1 DEF HostIds
    <3> QED BY <1>1, <1>5, <1>15, <3>1, <3>2
  <2> QED BY <1>1, <1>2, <1>5, <1>14, <2>1, <2>2 DEF SniPlaces
<1>17. SniReports'
  <2>1. UNCHANGED <<arrived, progress, chan, job, panics>>
    BY <1>1 DEF mainVars
  <2>2. Reported' = Reported
    BY <2>1 DEF Reported
  <2> QED BY <1>2, <1>14, <2>1, <2>2 DEF SniReports
<1>18. /\ queue' \in Seq(ToSet(Hosts)) /\ all' \in Seq(Entries) /\ chan' \in Seq(Events)
       /\ panics' \in Nat /\ panics' <= job.panics
  BY <1>0, <1>1, <1>5 DEF TypeInv
<1> QED BY <1>1, <1>8, <1>10, <1>12, <1>13, <1>16, <1>17, <1>18, HostMoves

LEMMA Joined ==
  ASSUME NEW s \in Seq(Entries), NEW t \in Seq(Entries)
  PROVE  /\ s \o t \in Seq(Entries) /\ ToSet(s \o t) = ToSet(s) \cup ToSet(t)
         /\ SameId(s) /\ SameId(t) /\ (\A e \in ToSet(s), f \in ToSet(t) : e.id # f.id) => SameId(s \o t)
<1>1. PICK m \in Nat : m = Len(s)
  OBVIOUS
<1>2. PICK n \in Nat : n = Len(t)
  OBVIOUS
<1>3. PICK u : u = s \o t
  OBVIOUS
<1>4. /\ u \in Seq(Entries) /\ DOMAIN s = 1..m /\ DOMAIN t = 1..n /\ DOMAIN u = 1..(m + n)
      /\ \A i \in 1..(m + n) : u[i] = IF i <= m THEN s[i] ELSE t[i - m]
  <2>1. u \in Seq(Entries)
    BY <1>3
  <2>2. Len(u) = m + n /\ \A i \in 1..(m + n) : u[i] = IF i <= m THEN s[i] ELSE t[i - m]
    BY <1>1, <1>2, <1>3
  <2>3. DOMAIN s = 1..m /\ DOMAIN t = 1..n /\ DOMAIN u = 1..Len(u)
    BY <1>1, <1>2, <2>1
  <2> QED BY <2>1, <2>2, <2>3
<1>5. \A i \in 1..(m + n) : \/ i \in 1..m /\ u[i] = s[i]
                            \/ i - m \in 1..n /\ u[i] = t[i - m]
  <2> TAKE i \in 1..(m + n)
  <2>1. CASE i <= m
    <3>1. i \in 1..m
      BY <2>1
    <3> QED BY <1>4, <2>1, <3>1
  <2>2. CASE ~(i <= m)
    <3>1. i - m \in 1..n
      BY <2>2
    <3> QED BY <1>4, <2>2, <3>1
  <2> QED BY <2>1, <2>2
<1>6. ToSet(u) = ToSet(s) \cup ToSet(t)
  <2>1. \A i \in DOMAIN u : u[i] \in ToSet(s) \cup ToSet(t)
    BY <1>4, <1>5 DEF ToSet
  <2>2. \A i \in DOMAIN s : s[i] \in ToSet(u)
    <3> TAKE i \in DOMAIN s
    <3>1. i \in 1..(m + n) /\ u[i] = s[i]
      BY <1>1, <1>2, <1>4
    <3> QED BY <1>4, <3>1 DEF ToSet
  <2>3. \A i \in DOMAIN t : t[i] \in ToSet(u)
    <3> TAKE i \in DOMAIN t
    <3>1. i + m \in 1..(m + n) /\ ~(i + m <= m) /\ (i + m) - m = i
      BY <1>1, <1>2, <1>4
    <3>2. u[i + m] = t[i]
      BY <1>4, <3>1
    <3> QED BY <1>4, <3>1, <3>2 DEF ToSet
  <2> QED BY <2>1, <2>2, <2>3 DEF ToSet
<1>7. ASSUME SameId(s), SameId(t), \A e \in ToSet(s), f \in ToSet(t) : e.id # f.id
      PROVE  SameId(u)
  <2>1. \A i \in 1..m, j \in 1..n : s[i].id # t[j].id
    BY <1>4, <1>7 DEF ToSet
  <2>2. \A i, j \in 1..m : s[i].id = s[j].id => i = j
    BY <1>4, <1>7 DEF SameId
  <2>3. \A i, j \in 1..n : t[i].id = t[j].id => i = j
    BY <1>4, <1>7 DEF SameId
  <2>4. \A i, j \in 1..(m + n) : u[i].id = u[j].id => i = j
    <3> TAKE i, j \in 1..(m + n)
    <3> HAVE u[i].id = u[j].id
    <3>1. CASE i \in 1..m /\ u[i] = s[i]
      BY <1>5, <2>1, <2>2, <3>1
    <3>2. CASE i - m \in 1..n /\ u[i] = t[i - m]
      <4>1. j - m \in 1..n /\ u[j] = t[j - m]
        BY <1>5, <2>1, <3>2
      <4>2. i - m = j - m
        BY <2>3, <3>2, <4>1
      <4> QED BY <1>1, <1>2, <4>2
    <3> QED BY <1>5, <3>1, <3>2
  <2> QED BY <1>4, <2>4 DEF SameId
<1> QED BY <1>3, <1>4, <1>6, <1>7

LEMMA HostIsJoined ==
  ASSUME FoundInv, NEW h \in ToSet(Hosts), JoinHost(h)
  PROVE  FoundInv'
<1>0. TypeInv /\ PhaseInv /\ LimitSni /\ HostInv /\ SniInv
  BY DEF FoundInv
<1>1. /\ task = "run" /\ job.list = "sni" /\ host[h].pc = "back"
      /\ all' = all \o host[h].out /\ Upd(h, Idle)
      /\ UNCHANGED <<job, task, failed, ipVars, queue, permits, chan, mainVars, panics>>
  BY DEF JoinHost, Scanning
<1>2. Watched /\ SniPlaces /\ SniReports
  BY <1>0, <1>1 DEF PhaseInv, SniInv
<1>3. PICK q : q = host[h]
  OBVIOUS
<1>4. HostOK(h, q) /\ q.out \in Seq(Entries) /\ q.running = {} /\ q.ended = {}
  BY <1>1, <1>3, HostFields DEF HostOK
<1>5. PICK r : r = Idle
  OBVIOUS
<1>6. /\ r \in HostRecs /\ r.pc = "off" /\ r.running = {} /\ r.ended = {} /\ r.out = <<>>
      /\ HostOK(h, r) /\ IsFiniteSet(r.running) /\ IsFiniteSet(r.ended)
  BY <1>5, IdleIs
<1>7. Becomes(h, r)
  BY <1>1, <1>5, <1>6 DEF Becomes, Upd
<1>8. Probing' = Probing
  <2>1. Of(h, {}) = {}
    BY DEF Of
  <2>2. Probing' = (Probing \ Of(h, q.running)) \cup Of(h, r.running)
    BY <1>0, <1>3, <1>7, ProbingIs
  <2> QED BY <1>4, <1>6, <2>1, <2>2
<1>9. /\ IsFiniteSet(Probing') /\ permits' \in Nat
      /\ permits' + Cardinality(Probing') = permits + Cardinality(Probing)
  BY <1>0, <1>1, <1>8 DEF LimitSni, TypeInv
<1>10. Cardinality(Started') <= SniLimit
  BY <1>6, <1>7, StartedStays
<1>11. all \in Seq(Entries) /\ queue \in Seq(ToSet(Hosts)) /\ host \in [ToSet(Hosts) -> HostRecs]
  BY <1>0 DEF TypeInv
<1>12. \A e \in ToSet(q.out) : e.id \in HostIds /\ e.id[1] = h
  BY <1>4 DEF HostOK
<1>13. \A e \in ToSet(all) : /\ e.id \in HostIds /\ e.id[1] \notin ToSet(queue)
                             /\ host[e.id[1]].pc = "off"
  BY <1>2 DEF SniPlaces
<1>14. /\ all' \in Seq(Entries) /\ ToSet(all') = ToSet(all) \cup ToSet(q.out) /\ SameId(all')
  <2>1. \A e \in ToSet(all), f \in ToSet(q.out) : e.id # f.id
    BY <1>1, <1>12, <1>13
  <2>2. SameId(all) /\ SameId(q.out)
    BY <1>2, <1>4 DEF SniPlaces, HostOK
  <2> QED BY <1>1, <1>3, <1>4, <1>11, <2>1, <2>2, Joined
<1>15. Found' = Found
  <2>1. PICK O : O = UNION {host[g].ended \cup ToSet(host[g].out) : g \in ToSet(Hosts) \ {h}}
    OBVIOUS
  <2>2. \A x : x \in O <=> \E g \in ToSet(Hosts) \ {h} : x \in host[g].ended \cup ToSet(host[g].out)
    BY <2>1
  <2>3. ToSet(r.out) = {}
    BY <1>6 DEF ToSet
  <2>4. \A x : x \in Found' <=> x \in ToSet(all') \/ x \in O
    BY <1>0, <1>6, <1>7, <2>2, <2>3, FoundIs
  <2>5. Found = OthersFound(h) \cup q.ended \cup ToSet(q.out)
    BY <1>0, <1>3, <1>7, FoundIs
  <2>6. OthersFound(h) = ToSet(all) \cup O
    BY <2>1 DEF OthersFound
  <2>7. Found = ToSet(all) \cup O \cup ToSet(q.out)
    BY <1>4, <2>5, <2>6
  <2> QED BY <1>14, <2>4, <2>7
<1>16. \A g \in ToSet(Hosts) : host'[g].pc = "off" \/ host'[g] = host[g]
  BY <1>6, <1>7, <1>11 DEF Becomes
<1>17. host'[h].pc = "off"
  BY <1>6, <1>7, <1>11 DEF Becomes
<1>18. SniPlaces'
  <2>1. ToSet(queue) \subseteq ToSet(Hosts) /\ \A g \in ToSet(queue) : host[g].pc = "off"
    BY <1>2, <1>11, ElementsIn DEF SniPlaces
  <2>2. \A g \in ToSet(queue) : host'[g].pc = "off"
    BY <1>16, <2>1
  <2>3. ASSUME NEW e \in ToSet(all')
        PROVE  e.id \in HostIds /\ e.id[1] \notin ToSet(queue) /\ host'[e.id[1]].pc = "off"
    <3>1. CASE e \in ToSet(all)
      <4>1. e.id[1] \in ToSet(Hosts)
        BY <1>13, <3>1 DEF HostIds
      <4> QED BY <1>13, <1>16, <3>1, <4>1
    <3>2. CASE e \in ToSet(q.out)
      BY <1>1, <1>12, <1>17, <2>1, <3>2
    <3> QED BY <1>14, <3>1, <3>2
  <2> QED BY <1>1, <1>2, <1>14, <1>15, <2>2, <2>3 DEF SniPlaces
<1>19. SniReports'
  <2>1. UNCHANGED <<arrived, progress, chan, job, panics>>
    BY <1>1 DEF mainVars
  <2>2. Reported' = Reported
    BY <2>1 DEF Reported
  <2> QED BY <1>2, <1>15, <2>1, <2>2 DEF SniReports
<1>20. /\ queue' \in Seq(ToSet(Hosts)) /\ chan' \in Seq(Events)
       /\ panics' \in Nat /\ panics' <= job.panics
  BY <1>0, <1>1 DEF TypeInv
<1> QED BY <1>1, <1>2, <1>6, <1>7, <1>9, <1>10, <1>14, <1>18, <1>19, <1>20, HostMoves

LEMMA SniScanIsDone ==
  ASSUME FoundInv, SniScanEnds
  PROVE  FoundInv'
<1>0. TypeInv /\ PhaseInv /\ LimitSni /\ LimitIp /\ HostInv /\ SniInv
  BY DEF FoundInv
<1>1. /\ task = "run" /\ job.list = "sni" /\ task' = "left" /\ all' = Ranked(all)
      /\ queue = <<>> /\ Started = {}
      /\ UNCHANGED <<job, failed, ipVars, sniVars, chan, mainVars, panics>>
  BY DEF SniScanEnds, Scanning
<1>2. Watched /\ Watched' /\ pc' = pc /\ pc # "scanned" /\ job' = job
  BY <1>0, <1>1 DEF PhaseInv, Watched, mainVars
<1>3. LimitSni' /\ Started' = Started
  BY <1>0, <1>1, SniFrame DEF sniVars
<1>4. LimitIp' /\ (IpIdle' <=> IpIdle)
  BY <1>0, <1>1, IpFrame
<1>5. HostInv'
  BY <1>0, <1>1, HostFrame DEF sniVars
<1>6. all \in Seq(Entries) /\ SniPlaces /\ SniReports
  BY <1>0, <1>1, <1>2 DEF TypeInv, SniInv
<1>7. /\ all' \in Seq(Entries) /\ Len(all') = Len(all) /\ ToSet(all') = ToSet(all)
      /\ IsRanked(all') /\ Ids(all') = Ids(all) /\ SameId(all')
  BY <1>1, <1>6, RankedIs DEF SniPlaces
<1>8. TypeInv'
  BY <1>0, <1>1, <1>7 DEF TypeInv, ipVars, sniVars, mainVars
<1>9. PhaseInv'
  BY <1>0, <1>1, <1>2, <1>3, <1>4 DEF PhaseInv, Watched, Live, Done, mainVars
<1>10. RankInv' /\ CompletedLast' /\ IpInv'
  BY <1>1, <1>2, <1>7 DEF RankInv, CompletedLast, IpInv
<1>11. UNCHANGED <<arrived, chan, progress, job, queue, host, panics>>
  BY <1>1 DEF mainVars, sniVars
<1>12. Found' = Found /\ Reported' = Reported
  BY <1>7, <1>11 DEF Found, Reported
<1>13. SniPlaces'
  BY <1>6, <1>7, <1>11, <1>12 DEF SniPlaces
<1>14. SniReports'
  BY <1>6, <1>11, <1>12 DEF SniReports
<1> QED BY <1>3, <1>4, <1>5, <1>8, <1>9, <1>10, <1>13, <1>14 DEF FoundInv, SniInv

LEMMA HostIsReaped ==
  ASSUME FoundInv, NEW h \in ToSet(Hosts), ReapHost(h)
  PROVE  FoundInv'
<1>0. TypeInv /\ PhaseInv /\ LimitSni /\ HostInv
  BY DEF FoundInv
<1>1. /\ task = "gone" /\ host[h].pc # "off" /\ Upd(h, Idle)
      /\ permits' = permits + Cardinality(host[h].running)
      /\ UNCHANGED <<job, task, failed, ipVars, queue, all, chan, mainVars, panics>>
  BY DEF ReapHost
<1>2. ~Watched /\ job.list = "sni"
  BY <1>0, <1>1, HostIsBusy DEF PhaseInv, Live
<1>3. PICK R : R = host[h].running
  OBVIOUS
<1>4. PICK r : r = Idle
  OBVIOUS
<1>5. /\ r \in HostRecs /\ r.pc = "off" /\ r.running = {} /\ r.ended = {}
      /\ HostOK(h, r) /\ IsFiniteSet(r.running) /\ IsFiniteSet(r.ended)
  BY <1>4, IdleIs
<1>6. Becomes(h, r)
  BY <1>1, <1>4, <1>5 DEF Becomes, Upd
<1>7. Probing' = Probing \ Of(h, R) /\ Of(h, R) \subseteq Probing
  <2>1. Of(h, {}) = {}
    BY DEF Of
  <2> QED BY <1>0, <1>3, <1>5, <1>6, <2>1, ProbingIs
<1>8. IsFiniteSet(R) /\ IsFiniteSet(Probing) /\ permits \in Nat
  BY <1>0, <1>3 DEF TypeInv, LimitSni
<1>9. Cardinality(Of(h, R)) = Cardinality(R) /\ Cardinality(R) \in Nat /\ IsFiniteSet(Of(h, R))
  <2> DEFINE f == [a \in R |-> <<h, a>>]
  <2>1. f \in Surjection(R, Of(h, R))
    BY DEF Surjection, Of
  <2>2. f \in Injection(R, Of(h, R))
    BY DEF Injection, IsInjective, Of
  <2> HIDE DEF f
  <2> QED BY <1>8, <2>1, <2>2, FS_Surjection, FS_CardinalityType
<1>10. /\ IsFiniteSet(Probing') /\ Cardinality(Probing') = Cardinality(Probing) - Cardinality(R)
       /\ Cardinality(Probing) \in Nat
  <2>1. Probing \cap Of(h, R) = Of(h, R)
    BY <1>7
  <2>2. /\ IsFiniteSet(Probing \ Of(h, R))
        /\ Cardinality(Probing \ Of(h, R)) = Cardinality(Probing) - Cardinality(Probing \cap Of(h, R))
    BY <1>8, FS_Difference
  <2> QED BY <1>7, <1>8, <1>9, <2>1, <2>2, FS_CardinalityType
<1>11. permits' \in Nat /\ permits' + Cardinality(Probing') = permits + Cardinality(Probing)
  BY <1>1, <1>3, <1>8, <1>9, <1>10
<1>12. Cardinality(Started') <= SniLimit
  BY <1>5, <1>6, StartedStays
<1>13. /\ queue' \in Seq(ToSet(Hosts)) /\ all' \in Seq(Entries) /\ chan' \in Seq(Events)
       /\ panics' \in Nat /\ panics' <= job.panics
  BY <1>0, <1>1 DEF TypeInv
<1> QED BY <1>1, <1>2, <1>5, <1>6, <1>10, <1>11, <1>12, <1>13, HostMoves

(***************************************************************************)
(* The invariant.                                                          *)
(***************************************************************************)
LEMMA ScanKeepsFound ==
  ASSUME FoundInv, ScanNext
  PROVE  FoundInv'
<1>0. DOMAIN host = ToSet(Hosts)
  BY DEF FoundInv, TypeInv
<1>1. CASE CannotStart \/ StartIpScan \/ StartSniScan
  BY <1>1, ScanDoesNotStart, IpScanStarts, SniScanStarts
<1>2. CASE ScannerStep
  <2>1. CASE StartP2 \/ StartP1 \/ IpScanEnds
    BY <2>1, P2Starts, P1Starts, IpScanIsDone
  <2>2. CASE (\E i \in p1 : JoinP1(i)) \/ (\E i \in p2 : JoinP2(i))
    BY <2>2, P1Joins, P2Joins
  <2>3. CASE SniScanFails \/ StartHost \/ SniScanEnds
    BY <2>3, SniScanHasFailed, HostIsStarted, SniScanIsDone
  <2>4. ASSUME NEW h \in ToSet(Hosts), HostStep(h) \/ JoinHost(h) PROVE FoundInv'
    <3>1. CASE AskServer(h) \/ DnsFails(h) \/ SkipAddress(h) \/ SpawnProbe(h)
      BY <3>1, NamesAreResolved, AddressIsSkipped, ProbeIsSpawned
    <3>2. CASE JoinProbe(h) \/ HostEnds(h) \/ JoinHost(h)
      BY <3>2, ProbeIsJoined, HostHasEnded, HostIsJoined
    <3>3. CASE \E a \in host[h].running : ProbeEnds(h, a)
      BY <3>3, ProbeHasEnded
    <3> QED BY <2>4, <3>1, <3>2, <3>3 DEF HostStep
  <2> QED BY <1>0, <1>2, <2>1, <2>2, <2>3, <2>4 DEF ScannerStep
<1>3. CASE Faults
  BY <1>0, <1>3, ProbeIsLost, SniProbeIsLost DEF Faults
<1>4. CASE RuntimeStep
  BY <1>0, <1>4, TaskIsFinished, ScanIsDropped, HostIsReaped DEF RuntimeStep
<1>5. CASE WatchStep \/ UserAborts
  BY <1>5, ProgressIsRead, WatchingEnds, ListIsTaken, HeadlessScanEnds DEF WatchStep
<1> QED BY <1>1, <1>2, <1>3, <1>4, <1>5 DEF ScanNext

LEMMA ScanMovesMain ==
  ASSUME ScanNext
  PROVE  /\ job' = job
         /\ pc' = pc \/ (/\ pc \in {"load", "watch", "decide"}
                         /\ pc' \in {"load", "watch", "decide", "scanned", "error"})
<1>1. CASE CannotStart \/ StartIpScan \/ StartSniScan \/ WatchStep \/ UserAborts
  BY <1>1 DEF CannotStart, StartIpScan, StartSniScan, WatchStep, ReadProgress, ProgressEnds, TakeFinished,
              TakeArrived, HeadlessEnds, HeadlessFails, UserAborts
<1>2. CASE Faults \/ RuntimeStep
  BY <1>2 DEF Faults, LoseProbe, LoseSniProbe, RuntimeStep, TaskFinishes, TaskCancelled, ReapProbe,
              ReapHost, mainVars
<1>3. CASE ScannerStep
  <2>1. job' = job /\ UNCHANGED mainVars
    BY <1>3 DEF ScannerStep, StartP2, StartP1, IpScanEnds, JoinP1, JoinP2, SniScanFails, StartHost,
                SniScanEnds, HostStep, AskServer, DnsFails, SkipAddress, SpawnProbe, JoinProbe, HostEnds,
                ProbeEnds, JoinHost
  <2> QED BY <2>1 DEF mainVars
<1> QED BY <1>1, <1>2, <1>3 DEF ScanNext

LEMMA ScanStep ==
  ASSUME ScanIndInv, [Next]_vars
  PROVE  ScanIndInv'
<1>0. FoundInv /\ TestInv /\ TypeInv
  BY DEF ScanIndInv, FoundInv
<1>1. CASE ScanNext /\ UNCHANGED testVars
  <2>1. FoundInv'
    BY <1>0, <1>1, ScanKeepsFound
  <2>2. TestInv'
    BY <1>0, <1>1, ScanMovesMain, ScanStepsKeepTests
  <2> QED BY <2>1, <2>2 DEF ScanIndInv
<1>2. CASE UNCHANGED vars
  <2>1. UNCHANGED scanVars /\ UNCHANGED testVars /\ job' = job /\ pc' = pc
    BY <1>2 DEF vars, scanVars, mainVars
  <2>2. FoundInv'
    BY <1>0, <2>1, NothingMoves
  <2>3. TestInv'
    BY <1>0, <2>1, ScanStepsKeepTests
  <2> QED BY <2>2, <2>3 DEF ScanIndInv
<1>3. CASE \/ WorkerStep \/ DropListener \/ MainStep \/ UserQuits \/ CloseView
           \/ \E u \in engines : EngineEnds(u)
  <2>1. FoundInv'
    BY <1>0, <1>3, TestsKeepTheScan
  <2>2. CASE WorkerStep
    BY <1>0, <2>1, <2>2, EnginesOpen, SamplesAreTaken, UnitsAreDone, WorkerLeaves
       DEF WorkerStep, ScanIndInv
  <2>3. CASE DropListener \/ (\E u \in engines : EngineEnds(u))
    BY <1>0, <2>1, <2>3, SamplesAreTaken DEF ScanIndInv
  <2>4. CASE MainStep
    BY <1>0, <2>1, <2>4, TestsStart, NewsIsRead, MainMovesOn, TestsAreJudged DEF MainStep, ScanIndInv
  <2>5. CASE UserQuits \/ CloseView
    BY <1>0, <2>1, <2>5, MainMovesOn DEF ScanIndInv
  <2> QED BY <1>3, <2>2, <2>3, <2>4, <2>5
<1> QED BY <1>1, <1>2, <1>3 DEF Next, Stopped

\* The invariant the other theorems follow from: a position of the list and an address of a
\* hostname are in one place each, permits and running probes add up, what was sent to the
\* watcher is what was measured, and every unit tested has one entry, announced at most once.
THEOREM ScanInductive == Spec => []ScanIndInv
<1>1. Init => ScanIndInv
  BY FoundInitially, TestInitially DEF Init, ScanIndInv
<1>2. ScanIndInv /\ [Next]_vars => ScanIndInv'
  BY ScanStep
<1> QED BY <1>1, <1>2, PTL DEF Spec

LEMMA LimitsHold ==
  ASSUME FoundInv
  PROVE  ScanTypeOK /\ ConcurrencyBounded
<1>0. TypeInv /\ LimitSni /\ LimitIp
  BY DEF FoundInv
<1>1. /\ P1Limit \in Nat \ {0} /\ P2Limit \in Nat \ {0} /\ SniLimit \in Nat \ {0} /\ job.panics \in Nat
  BY <1>0, Limits
<1>2. /\ Cardinality(left) \in Nat /\ Cardinality(p1) \in Nat /\ Len(pending) \in Nat
      /\ Len(Ips) \in Nat /\ tested \in Nat
  BY <1>0, IpTypes
<1>3. permits \in Nat /\ Cardinality(Probing) \in Nat
  BY <1>0, FS_CardinalityType DEF TypeInv, LimitSni
<1>4. permits <= SniLimit /\ Cardinality(Probing) <= SniLimit
  BY <1>0, <1>1, <1>3 DEF LimitSni
<1>5. tested <= Len(Ips) /\ Len(pending) < P2Limit + P1Limit
  BY <1>0, <1>1, <1>2 DEF LimitIp
<1>6. ScanTypeOK
  <2>1. ToSet(pending) \subseteq Positions
    BY <1>0, ElementsIn DEF TypeInv
  <2>2. permits \in 0..SniLimit /\ tested \in 0..Len(Ips) /\ panics \in 0..job.panics
    BY <1>0, <1>1, <1>2, <1>3, <1>4, <1>5 DEF TypeInv
  <2> QED BY <1>0, <2>1, <2>2 DEF ScanTypeOK, TypeInv
<1>7. ConcurrencyBounded
  BY <1>0, <1>4, <1>5 DEF ConcurrencyBounded, LimitIp, LimitSni
<1> QED BY <1>6, <1>7

\* The limits of the scans hold, the list the program goes on with is ranked, ScanCompleted
\* is the last event, one engine is open at a time, a sample counts for its own unit, the
\* report has every unit and the process ends clean.
THEOREM ScansAreSound == Spec => []ScanInv
<1>1. ScanIndInv => ScanInv
  <2> SUFFICES ASSUME ScanIndInv PROVE ScanInv
    OBVIOUS
  <2>0. FoundInv /\ TestInv
    BY DEF ScanIndInv
  <2>1. ScanTypeOK /\ ConcurrencyBounded
    BY <2>0, LimitsHold
  <2>2. ResultRanked
    BY <2>0 DEF FoundInv, RankInv, ResultRanked, IsRanked, Measures
  <2>3. CompletedLast
    BY <2>0 DEF FoundInv
  <2>4. WorkerInv /\ TestTypeInv /\ ReportInv
    BY <2>0 DEF TestInv
  <2>5. OneEngine
    BY <2>4 DEF WorkerInv, OneEngine
  <2>6. SamplesOwnUnit
    BY <2>4 DEF WorkerInv, SamplesOwnUnit
  <2>7. ReportWhole
    BY <2>4 DEF ReportInv
  <2>8. ExitIsClean
    <3> SUFFICES ASSUME pc = "exit", worker # "none"
                 PROVE  unit = Len(units) /\ engines \subseteq late /\ helper \in {"none", "down"}
      BY DEF ExitIsClean
    <3>1. worker = "finished" /\ step = "idle"
      BY <2>4 DEF WorkerInv
    <3>2. engines \ late = {}
      BY <2>4, <3>1 DEF WorkerInv
    <3> QED BY <2>4, <3>1, <3>2 DEF WorkerInv
  <2> QED BY <2>1, <2>2, <2>3, <2>5, <2>6, <2>7, <2>8 DEF ScanInv
<1> QED BY <1>1, ScanInductive, PTL

\* A scan that ran to its end without a panic has one entry for each address of the list, and
\* the watcher was sent exactly the entries of the addresses that accepted a connection.
THEOREM ScansLoseNothing == Spec => []NothingLost
<1>1. ScanIndInv => NothingLost
  <2> SUFFICES ASSUME ScanIndInv, pc \in {"watch", "decide"}, task \in {"left", "finished"}, ~failed,
                      panics = 0
               PROVE  /\ Cardinality(Ids(all)) = Len(all)
                      /\ job.list = "ip" => Ids(all) = Positions
                      /\ job.list = "ip" /\ job.ui = "tui" =>
                           {e \in ToSet(all) : e.tcp # NoLatency} = Reported
                      /\ job.list = "sni" /\ job.ui = "tui" => ToSet(all) = Reported
    BY DEF NothingLost
  <2>0. FoundInv /\ TypeInv /\ IpInv /\ SniInv
    BY DEF ScanIndInv, FoundInv
  <2>1. Done /\ Watched
    BY DEF Done, Watched
  <2>2. job.list \in {"ip", "sni", "bad"}
    BY <2>0, JobIs
  <2>3. /\ job.list \in {"ip", "sni"} => Cardinality(Ids(all)) = Len(all)
        /\ job.list = "ip" => Ids(all) = Positions
        /\ job.list = "sni" => Found = ToSet(all)
        /\ job.list # "bad"
    BY <2>0, <2>1, DoneIsWhole
  <2>4. job.list = "ip" /\ job.ui = "tui" => Measures(all) = Reported
    BY <2>0, <2>1 DEF IpInv, IpReports
  <2>5. job.list = "sni" /\ job.ui = "tui" => Found = Reported
    BY <2>0, <2>1 DEF SniInv, SniReports
  <2> QED BY <2>2, <2>3, <2>4, <2>5 DEF Measures
<1> QED BY <1>1, ScanInductive, PTL

=============================================================================
