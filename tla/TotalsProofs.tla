---------------------------- MODULE TotalsProofs ----------------------------
(***************************************************************************)
(* The arithmetic of Total: what the ledgers of the pool and the escrow    *)
(* need to know of a sum over all depositors or all campaigns.             *)
(***************************************************************************)
EXTENDS Totals, FiniteSetTheorems, TLAPS

\* A unit of f is a key with a position no larger than the key's value.
LEMMA UnitsMember ==
  ASSUME NEW D, NEW f \in [D -> Nat], NEW t
  PROVE  t \in Units(f) <=> \E d \in D : \E k \in 1..f[d] : t = <<d, k>>
  BY DEF Units

\* The units of a function over a finite set are finitely many, so a total
\* is a natural number.
LEMMA TotalType ==
  ASSUME NEW D, IsFiniteSet(D), NEW f \in [D -> Nat]
  PROVE  IsFiniteSet(Units(f)) /\ Total(f) \in Nat
<1> DEFINE column == [d \in D |-> {d} \X (1..f[d])]
           family == {{d} \X (1..f[d]) : d \in D}
<1>1. column \in Surjection(D, family)
  BY DEF Surjection
<1>2. IsFiniteSet(family)
  BY <1>1, FS_Surjection
<1>3. ASSUME NEW T \in family PROVE IsFiniteSet(T)
  <2>1. PICK d \in D : T = {d} \X (1..f[d])
    OBVIOUS
  <2>2. IsFiniteSet({d}) /\ IsFiniteSet(1..f[d])
    <3>1. f[d] \in Int
      OBVIOUS
    <3>2. IsFiniteSet({d})
      BY FS_Singleton
    <3>3. 1 \in Int
      OBVIOUS
    <3>4. IsFiniteSet(1..f[d])
      BY <3>1, <3>3, FS_Interval, Zenon
    <3> QED BY <3>2, <3>4
  <2> QED BY <2>1, <2>2, FS_Product
<1>4. IsFiniteSet(UNION family)
  <2> HIDE DEF family
  <2> QED BY <1>2, <1>3, FS_UNION
<1>5. IsFiniteSet(Units(f))
  BY <1>4 DEF Units
<1> QED BY <1>5, FS_CardinalityType DEF Total

\* Totals add: the total of a pointwise sum is the sum of the totals.  The
\* units of h above those of f are those of g, shifted.
LEMMA TotalSum ==
  ASSUME NEW D, IsFiniteSet(D),
         NEW f \in [D -> Nat], NEW g \in [D -> Nat], NEW h \in [D -> Nat],
         \A d \in D : h[d] = f[d] + g[d]
  PROVE  Total(h) = Total(f) + Total(g)
<1> DEFINE above == {t \in Units(h) : t \notin Units(f)}
           shift == [t \in Units(g) |-> <<t[1], f[t[1]] + t[2]>>]
<1>1. Units(f) \subseteq Units(h)
  <2>1. ASSUME NEW t \in Units(f) PROVE t \in Units(h)
    <3>1a. PICK d \in D : \E k \in 1..f[d] : t = <<d, k>>
      BY UnitsMember
    <3>1. PICK k \in 1..f[d] : t = <<d, k>>
      BY <3>1a
    <3>2. k \in 1..h[d]
      BY <3>1
    <3> QED BY <3>1, <3>2, UnitsMember
  <2> QED BY <2>1
<1>2. \A t \in Units(g) : shift[t] \in above
  <2> SUFFICES ASSUME NEW t \in Units(g) PROVE shift[t] \in above
    OBVIOUS
  <2>1a. PICK d \in D : \E k \in 1..g[d] : t = <<d, k>>
    BY UnitsMember
  <2>1. PICK k \in 1..g[d] : t = <<d, k>>
    BY <2>1a
  <2>2. shift[t] = <<d, f[d] + k>>
    BY <2>1
  <2>3. f[d] + k \in 1..h[d] /\ f[d] + k \notin 1..f[d]
    BY <2>1
  <2>4. shift[t] \in Units(h)
    BY <2>2, <2>3, UnitsMember
  <2>5. shift[t] \notin Units(f)
    <3>1. SUFFICES ASSUME shift[t] \in Units(f) PROVE FALSE
      OBVIOUS
    <3>2a. PICK e \in D : \E j \in 1..f[e] : shift[t] = <<e, j>>
      BY <3>1, UnitsMember
    <3>2. PICK j \in 1..f[e] : shift[t] = <<e, j>>
      BY <3>2a
    <3> QED BY <3>2, <2>2, <2>3
  <2> QED BY <2>4, <2>5
<1>3. \A s, t \in Units(g) : shift[s] = shift[t] => s = t
  <2> SUFFICES ASSUME NEW s \in Units(g), NEW t \in Units(g), shift[s] = shift[t]
               PROVE  s = t
    OBVIOUS
  <2>1a. PICK d \in D : \E k \in 1..g[d] : s = <<d, k>>
    BY UnitsMember
  <2>1. PICK k \in 1..g[d] : s = <<d, k>>
    BY <2>1a
  <2>2a. PICK e \in D : \E j \in 1..g[e] : t = <<e, j>>
    BY UnitsMember
  <2>2. PICK j \in 1..g[e] : t = <<e, j>>
    BY <2>2a
  <2>3. shift[s] = <<d, f[d] + k>> /\ shift[t] = <<e, f[e] + j>>
    BY <2>1, <2>2
  <2>4. d = e /\ f[d] + k = f[e] + j
    BY <2>3
  <2>5. f[d] \in Nat /\ k \in Nat /\ j \in Nat
    BY <2>1, <2>2
  <2> QED BY <2>1, <2>2, <2>4, <2>5
<1>4. \A u \in above : \E t \in Units(g) : shift[t] = u
  <2> SUFFICES ASSUME NEW u \in above PROVE \E t \in Units(g) : shift[t] = u
    OBVIOUS
  <2>1a. PICK d \in D : \E k \in 1..h[d] : u = <<d, k>>
    BY UnitsMember
  <2>1. PICK k \in 1..h[d] : u = <<d, k>>
    BY <2>1a
  <2>2. k > f[d]
    <3>1. SUFFICES ASSUME ~(k > f[d]) PROVE FALSE
      OBVIOUS
    <3>2. k \in 1..f[d]
      BY <3>1, <2>1
    <3> QED BY <3>2, <2>1, UnitsMember
  <2>3. k - f[d] \in 1..g[d] /\ f[d] + (k - f[d]) = k
    BY <2>1, <2>2
  <2>4. <<d, k - f[d]>> \in Units(g)
    BY <2>3, UnitsMember
  <2>5. shift[<<d, k - f[d]>>] = u
    BY <2>1, <2>3, <2>4
  <2> QED BY <2>4, <2>5
<1>5. shift \in Bijection(Units(g), above)
  <2>1. shift \in [Units(g) -> above]
    BY <1>2
  <2> HIDE DEF shift, above
  <2> QED BY <2>1, <1>3, <1>4 DEF Bijection, Injection, Surjection, IsInjective
<1>6. IsFiniteSet(Units(f)) /\ IsFiniteSet(Units(g)) /\ IsFiniteSet(Units(h))
  BY TotalType
<1>7. IsFiniteSet(above) /\ Cardinality(above) = Total(g)
  <2> HIDE DEF shift, above
  <2> QED BY <1>5, <1>6, FS_Bijection DEF ExistsBijection, Total
<1>8. Units(h) = Units(f) \cup above /\ Units(f) \cap above = {}
  BY <1>1
<1>9. Cardinality(Units(f) \cap above) = 0
  BY <1>8, FS_EmptySet
<1>10. Total(f) \in Nat /\ Total(g) \in Nat
  BY TotalType
<1>11. Cardinality(Units(f) \cup above)
         = Cardinality(Units(f)) + Cardinality(above) - Cardinality(Units(f) \cap above)
  <2> HIDE DEF above
  <2> QED BY <1>6, <1>7, FS_Union
<1>12. Total(h) = Total(f) + Cardinality(above) - 0
  <2> HIDE DEF above
  <2> QED BY <1>8, <1>9, <1>11 DEF Total
<1> QED
  <2> HIDE DEF above
  <2> QED BY <1>7, <1>10, <1>12

\* A function that is zero but at one key totals its value there.
LEMMA TotalPoint ==
  ASSUME NEW D, NEW d \in D, NEW f \in [D -> Nat],
         \A e \in D : e # d => f[e] = 0
  PROVE  Total(f) = f[d]
<1> DEFINE count == [k \in 1..f[d] |-> <<d, k>>]
<1>1. \A t : t \in Units(f) <=> \E k \in 1..f[d] : t = <<d, k>>
  <2> TAKE t
  <2>1. ASSUME t \in Units(f) PROVE \E k \in 1..f[d] : t = <<d, k>>
    <3>1a. PICK e \in D : \E k \in 1..f[e] : t = <<e, k>>
      BY <2>1, UnitsMember
    <3>1. PICK k \in 1..f[e] : t = <<e, k>>
      BY <3>1a
    <3>2. e = d
      <4>1. CASE e # d
        BY <4>1, <3>1
      <4> QED BY <4>1
    <3> QED BY <3>1, <3>2
  <2>2. ASSUME NEW k \in 1..f[d], t = <<d, k>> PROVE t \in Units(f)
    BY <2>2, UnitsMember
  <2> QED BY <2>1, <2>2
<1>2. count \in Bijection(1..f[d], Units(f))
  <2>1. count \in [1..f[d] -> Units(f)]
    BY <1>1
  <2>2. \A j, k \in 1..f[d] : count[j] = count[k] => j = k
    OBVIOUS
  <2>3. \A t \in Units(f) : \E k \in 1..f[d] : count[k] = t
    BY <1>1
  <2> HIDE DEF count
  <2> QED BY <2>1, <2>2, <2>3 DEF Bijection, Injection, Surjection, IsInjective
<1>3. f[d] \in Nat
  OBVIOUS
<1>4. IsFiniteSet(1..f[d]) /\ Cardinality(1..f[d]) = f[d]
  BY <1>3, FS_Interval
<1> HIDE DEF count
<1> QED BY <1>2, <1>4, FS_Bijection DEF ExistsBijection, Total

\* Nothing totals to nothing.
LEMMA TotalZero ==
  ASSUME NEW D, NEW f \in [D -> Nat], \A d \in D : f[d] = 0
  PROVE  Total(f) = 0
<1>1. ASSUME NEW t \in Units(f) PROVE FALSE
  <2>1a. PICK d \in D : \E k \in 1..f[d] : t = <<d, k>>
    BY UnitsMember
  <2>1. PICK k \in 1..f[d] : t = <<d, k>>
    BY <2>1a
  <2> QED BY <2>1
<1>2. Units(f) = {}
  BY <1>1
<1> QED BY <1>2, FS_EmptySet DEF Total

\* Replacing one value moves the total by the difference.
LEMMA TotalUpdate ==
  ASSUME NEW D, IsFiniteSet(D), NEW d \in D, NEW f \in [D -> Nat], NEW g \in [D -> Nat],
         \A e \in D : e # d => g[e] = f[e]
  PROVE  Total(g) = Total(f) - f[d] + g[d]
<1> DEFINE rest == [e \in D |-> IF e = d THEN 0 ELSE f[e]]
           was  == [e \in D |-> IF e = d THEN f[d] ELSE 0]
           is   == [e \in D |-> IF e = d THEN g[d] ELSE 0]
<1>1. rest \in [D -> Nat] /\ was \in [D -> Nat] /\ is \in [D -> Nat]
  OBVIOUS
<1>2. Total(was) = f[d] /\ Total(is) = g[d]
  <2>1. was[d] = f[d] /\ is[d] = g[d] /\ \A e \in D : e # d => was[e] = 0 /\ is[e] = 0
    OBVIOUS
  <2> HIDE DEF was, is
  <2> QED BY <1>1, <2>1, TotalPoint
<1>3. \A e \in D : f[e] = rest[e] + was[e] /\ g[e] = rest[e] + is[e]
  OBVIOUS
<1>4. Total(f) = Total(rest) + Total(was) /\ Total(g) = Total(rest) + Total(is)
  <2> HIDE DEF rest, was, is
  <2> QED BY <1>1, <1>3, TotalSum
<1>5. Total(rest) \in Nat /\ f[d] \in Nat /\ g[d] \in Nat
  <2> HIDE DEF rest
  <2> QED BY <1>1, TotalType
<1> HIDE DEF rest, was, is
<1> QED BY <1>2, <1>4, <1>5

\* One value is at most the total.
LEMMA TotalBounds ==
  ASSUME NEW D, IsFiniteSet(D), NEW d \in D, NEW f \in [D -> Nat]
  PROVE  f[d] <= Total(f)
<1> DEFINE rest == [e \in D |-> IF e = d THEN 0 ELSE f[e]]
<1>1. rest \in [D -> Nat] /\ rest[d] = 0 /\ \A e \in D : e # d => rest[e] = f[e]
  OBVIOUS
<1>2. Total(rest) = Total(f) - f[d] + 0
  <2> HIDE DEF rest
  <2> QED BY <1>1, TotalUpdate
<1>3. Total(rest) \in Nat /\ Total(f) \in Nat /\ f[d] \in Nat
  <2> HIDE DEF rest
  <2> QED BY <1>1, TotalType
<1> HIDE DEF rest
<1> QED BY <1>2, <1>3

\* What is nowhere larger totals no more.
LEMMA TotalMonotone ==
  ASSUME NEW D, IsFiniteSet(D), NEW f \in [D -> Nat], NEW g \in [D -> Nat],
         \A d \in D : f[d] <= g[d]
  PROVE  Total(f) <= Total(g)
<1> DEFINE gap == [d \in D |-> g[d] - f[d]]
<1>1. gap \in [D -> Nat] /\ \A d \in D : g[d] = f[d] + gap[d]
  OBVIOUS
<1>2. Total(g) = Total(f) + Total(gap)
  <2> HIDE DEF gap
  <2> QED BY <1>1, TotalSum
<1>3. Total(f) \in Nat /\ Total(gap) \in Nat
  <2> HIDE DEF gap
  <2> QED BY <1>1, TotalType
<1> HIDE DEF gap
<1> QED BY <1>2, <1>3
\* What is nowhere above b totals at most b for every member.
LEMMA TotalAtMost ==
  ASSUME NEW D, IsFiniteSet(D), NEW f \in [D -> Nat], NEW b \in Nat, \A d \in D : f[d] <= b
  PROVE  Total(f) <= Cardinality(D) * b
<1>1. IsFiniteSet(1..b) /\ Cardinality(1..b) = b
  BY FS_Interval
<1>2. IsFiniteSet(D \X (1..b)) /\ Cardinality(D \X (1..b)) = Cardinality(D) * b
  BY <1>1, FS_Product
<1>3. Units(f) \subseteq D \X (1..b)
  <2>1. ASSUME NEW t \in Units(f) PROVE t \in D \X (1..b)
    <3>1. PICK d \in D : \E k \in 1..f[d] : t = <<d, k>>
      BY UnitsMember
    <3>2. PICK k \in 1..f[d] : t = <<d, k>>
      BY <3>1
    <3> QED BY <3>2
  <2> QED BY <2>1
<1> QED BY <1>2, <1>3, FS_Subset DEF Total

\* ... and one member may be above it.
LEMMA TotalOthers ==
  ASSUME NEW D, IsFiniteSet(D), NEW e \in D, NEW f \in [D -> Nat], NEW b \in Nat,
         \A d \in D : d # e => f[d] <= b
  PROVE  Total(f) <= f[e] + (Cardinality(D) - 1) * b
<1> DEFINE rest   == [d \in D |-> IF d = e THEN 0 ELSE f[d]]
           others == [d \in D \ {e} |-> f[d]]
<1>1. /\ rest \in [D -> Nat] /\ rest[e] = 0 /\ \A d \in D : d # e => rest[d] = f[d]
      /\ others \in [D \ {e} -> Nat] /\ \A d \in D \ {e} : others[d] = f[d]
  OBVIOUS
<1> HIDE DEF rest, others
<1>2. Total(rest) = Total(f) - f[e] + 0
  BY <1>1, TotalUpdate
<1>3. Units(rest) = Units(others)
  <2>1. \A t : t \in Units(rest) <=> \E d \in D : \E k \in 1..rest[d] : t = <<d, k>>
    BY <1>1, UnitsMember
  <2>2. \A t : t \in Units(others) <=> \E d \in D \ {e} : \E k \in 1..others[d] : t = <<d, k>>
    BY <1>1, UnitsMember
  <2>3. \A d \in D : \A k \in 1..rest[d] : d # e /\ k \in 1..others[d]
    BY <1>1
  <2>4. \A d \in D \ {e} : \A k \in 1..others[d] : k \in 1..rest[d]
    BY <1>1
  <2> QED BY <2>1, <2>2, <2>3, <2>4
<1>4. IsFiniteSet(D \ {e}) /\ Cardinality(D \ {e}) = Cardinality(D) - 1
  BY FS_RemoveElement
<1>5. Total(others) <= (Cardinality(D) - 1) * b
  BY <1>1, <1>4, TotalAtMost
<1>6. /\ Total(f) \in Nat /\ f[e] \in Nat /\ Total(others) \in Nat
      /\ (Cardinality(D) - 1) * b \in Int
  BY <1>1, <1>4, TotalType, FS_CardinalityType
<1>7. Total(rest) = Total(others)
  BY <1>3 DEF Total
<1> QED BY <1>2, <1>5, <1>6, <1>7
=============================================================================
