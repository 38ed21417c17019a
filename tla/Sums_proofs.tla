---------------------------- MODULE Sums_proofs ----------------------------
(* The facts about SumOf that the proofs of the components cite. *)
EXTENDS Sums, FiniteSetTheorems, WellFoundedInduction, TLAPS

(* The units of all arguments but x. *)
OtherUnits(f, x) == UNION {{y} \X (1..f[y]) : y \in (DOMAIN f) \ {x}}

(* A function with a finite domain and natural values has finitely many units. *)
LEMMA UnitsFinite ==
  ASSUME NEW S, IsFiniteSet(S), NEW f \in [S -> Nat]
  PROVE  IsFiniteSet(Units(f))
<1> DEFINE occ == [x \in S |-> {x} \X (1..f[x])]
           img == {{x} \X (1..f[x]) : x \in S}
<1>1. occ \in Surjection(S, img)
  BY DEF Surjection
<1>2. IsFiniteSet(img)
  BY <1>1, FS_Surjection, Zenon
<1>3. \A x \in S : IsFiniteSet({x} \X (1..f[x]))
  <2> TAKE x \in S
  <2>1. IsFiniteSet({x})
    BY FS_Singleton
  <2>2. IsFiniteSet(1..f[x])
    BY FS_Interval
  <2> QED BY <2>1, <2>2, FS_Product
<1>4. \A T \in img : IsFiniteSet(T)
  BY <1>3
<1>5. IsFiniteSet(UNION img)
  BY <1>2, <1>4, FS_UNION
<1> QED BY <1>5 DEF Units

(* A sum is a natural number. *)
LEMMA SumIsNat ==
  ASSUME NEW S, IsFiniteSet(S), NEW f \in [S -> Nat]
  PROVE  SumOf(f) \in Nat
BY UnitsFinite, FS_CardinalityType DEF SumOf

(* One summand split off. *)
LEMMA SumSplit ==
  ASSUME NEW S, IsFiniteSet(S), NEW f \in [S -> Nat], NEW x \in S
  PROVE  /\ Cardinality(OtherUnits(f, x)) \in Nat
         /\ SumOf(f) = Cardinality(OtherUnits(f, x)) + f[x]
<1> DEFINE own == {x} \X (1..f[x])
           oth == OtherUnits(f, x)
<1>1. Units(f) = oth \cup own
  BY DEF Units, OtherUnits
<1>2. oth \cap own = {}
  BY DEF OtherUnits
<1>3. IsFiniteSet(Units(f))
  BY UnitsFinite
<1>4. IsFiniteSet(oth) /\ IsFiniteSet(own)
  BY <1>1, <1>3, FS_Subset
<1>5. Cardinality(own) = f[x]
  <2>1. IsFiniteSet({x}) /\ Cardinality({x}) = 1
    BY FS_Singleton
  <2>2. IsFiniteSet(1..f[x]) /\ Cardinality(1..f[x]) = f[x]
    BY FS_Interval
  <2>3. Cardinality(own) = Cardinality({x}) * Cardinality(1..f[x])
    BY <2>1, <2>2, FS_Product
  <2> QED BY <2>1, <2>2, <2>3
<1>6. Cardinality({}) = 0
  BY FS_EmptySet
<1>7. Cardinality(oth \cup own) =
        Cardinality(oth) + Cardinality(own) - Cardinality(oth \cap own)
  BY <1>4, FS_Union
<1>8. Cardinality(oth) \in Nat
  BY <1>4, FS_CardinalityType
<1> HIDE DEF own, oth
<1>9. Cardinality(oth \cup own) = Cardinality(oth) + f[x]
  <2>1. Cardinality(oth \cap own) = 0
    BY <1>2, <1>6, Zenon
  <2> QED BY <1>5, <1>7, <1>8, <2>1
<1>10. SumOf(f) = Cardinality(oth) + f[x]
  BY <1>1, <1>9, Zenon DEF SumOf
<1> QED BY <1>8, <1>10 DEF oth

(* Changing one summand changes the sum by as much. *)
LEMMA SumUpdate ==
  ASSUME NEW S, IsFiniteSet(S), NEW f \in [S -> Nat], NEW g \in [S -> Nat],
         NEW x \in S, \A y \in S \ {x} : g[y] = f[y]
  PROVE  SumOf(g) = SumOf(f) - f[x] + g[x]
<1>1. OtherUnits(g, x) = OtherUnits(f, x)
  BY DEF OtherUnits
<1>2. /\ Cardinality(OtherUnits(f, x)) \in Nat
      /\ SumOf(f) = Cardinality(OtherUnits(f, x)) + f[x]
  BY SumSplit
<1>3. SumOf(g) = Cardinality(OtherUnits(g, x)) + g[x]
  BY SumSplit
<1> QED BY <1>1, <1>2, <1>3

(* A sum is monotone in its summands. *)
LEMMA SumMonotone ==
  ASSUME NEW S, IsFiniteSet(S), NEW f \in [S -> Nat], NEW g \in [S -> Nat],
         \A y \in S : f[y] <= g[y]
  PROVE  SumOf(f) <= SumOf(g)
<1>1. Units(f) \in SUBSET Units(g)
  BY DEF Units
<1> QED BY <1>1, UnitsFinite, FS_Subset DEF SumOf

(* Each summand is bounded by the sum. *)
LEMMA SumBoundsTerm ==
  ASSUME NEW S, IsFiniteSet(S), NEW f \in [S -> Nat], NEW x \in S
  PROVE  f[x] <= SumOf(f)
BY SumSplit

(* A sum of zeros is zero. *)
LEMMA SumOfZeros ==
  ASSUME NEW S, NEW f \in [S -> Nat], \A y \in S : f[y] = 0
  PROVE  SumOf(f) = 0
<1>1. Units(f) = {}
  BY DEF Units
<1> QED BY <1>1, FS_EmptySet DEF SumOf

(* A sum with a single summand other than zero is that summand. *)
LEMMA SumOfOne ==
  ASSUME NEW S, IsFiniteSet(S), NEW f \in [S -> Nat], NEW x \in S,
         \A y \in S \ {x} : f[y] = 0
  PROVE  SumOf(f) = f[x]
<1> DEFINE zero == [y \in S |-> 0]
<1>1. zero \in [S -> Nat]
  OBVIOUS
<1>2. SumOf(zero) = 0
  BY <1>1, SumOfZeros
<1>3. SumOf(f) = SumOf(zero) - zero[x] + f[x]
  BY <1>1, SumUpdate
<1> QED BY <1>2, <1>3

(* The units of the arguments in A only. *)
Part(f, S, A) == [y \in S |-> IF y \in A THEN f[y] ELSE 0]

(* Dropping one argument from a part of a sum. *)
LEMMA PartRemove ==
  ASSUME NEW S, IsFiniteSet(S), NEW f \in [S -> Nat], NEW A \in SUBSET S, NEW x \in A
  PROVE  SumOf(Part(f, S, A)) = SumOf(Part(f, S, A \ {x})) + f[x]
<1> DEFINE whole == Part(f, S, A)
           rest == Part(f, S, A \ {x})
<1>1. /\ whole \in [S -> Nat] /\ rest \in [S -> Nat]
      /\ \A y \in S \ {x} : whole[y] = rest[y]
      /\ whole[x] = f[x]
      /\ rest[x] = 0
  BY DEF Part
<1> HIDE DEF whole, rest
<1>2. SumOf(whole) = SumOf(rest) - rest[x] + whole[x]
  BY <1>1, SumUpdate
<1>3. SumOf(rest) \in Nat
  BY <1>1, SumIsNat
<1>4. SumOf(whole) = SumOf(rest) + f[x]
  BY <1>1, <1>2, <1>3
<1> QED BY <1>4 DEF whole, rest

(* An inequality between multiples holds of the sums when it holds of each summand. A set of *)
(* arguments on which it fails, and no smaller one does, would contradict it.                *)
LEMMA SumScale ==
  ASSUME NEW S, IsFiniteSet(S), NEW f \in [S -> Nat], NEW g \in [S -> Nat],
         NEW a \in Nat, NEW b \in Nat, \A y \in S : f[y] * a <= g[y] * b
  PROVE  SumOf(f) * a <= SumOf(g) * b
<1> DEFINE Fails == {A \in SUBSET S : ~(SumOf(Part(f, S, A)) * a <= SumOf(Part(g, S, A)) * b)}
<1>0. \A A : Part(f, S, A) \in [S -> Nat] /\ Part(g, S, A) \in [S -> Nat]
  BY DEF Part
<1>1. Fails \subseteq FiniteSubsetsOf(S)
  BY FS_Subset DEF FiniteSubsetsOf
<1>2. SUFFICES ASSUME Fails # {} PROVE FALSE
  <2>1. Part(f, S, S) = f /\ Part(g, S, S) = g
    BY DEF Part
  <2> QED BY <2>1, Zenon
<1>3. PICK A \in Fails : \A B \in Fails : <<B, A>> \notin StrictSubsetOrdering(S)
  BY <1>1, <1>2, FS_StrictSubsetOrderingWellFounded, WFMin, Zenon
<1>4. CASE A = {}
  <2>1. SumOf(Part(f, S, A)) = 0
    <3>1. \A y \in S : Part(f, S, A)[y] = 0
      BY <1>4 DEF Part
    <3> QED BY <3>1, <1>0, SumOfZeros
  <2>2. SumOf(Part(g, S, A)) = 0
    <3>1. \A y \in S : Part(g, S, A)[y] = 0
      BY <1>4 DEF Part
    <3> QED BY <3>1, <1>0, SumOfZeros
  <2> QED BY <2>1, <2>2
<1>5. CASE A # {}
  <2>1. PICK x \in A : TRUE
    BY <1>5
  <2> DEFINE B == A \ {x}
             p == SumOf(Part(f, S, B))
             q == SumOf(Part(g, S, B))
  <2>2. x \in S /\ B \in SUBSET S
    OBVIOUS
  <2>3. <<B, A>> \in StrictSubsetOrdering(S)
    BY <2>1 DEF StrictSubsetOrdering
  <2>4. p * a <= q * b
    BY <1>3, <2>2, <2>3
  <2>5. p \in Nat /\ q \in Nat
    BY <1>0, SumIsNat
  <2>6. SumOf(Part(f, S, A)) = p + f[x]
    BY <2>2, PartRemove
  <2>7. SumOf(Part(g, S, A)) = q + g[x]
    BY <2>2, PartRemove
  <2>8. f[x] * a <= g[x] * b /\ f[x] \in Nat /\ g[x] \in Nat
    BY <2>2
  <2>9. (p + f[x]) * a <= (q + g[x]) * b
    <3> HIDE DEF p, q, B
    <3>1. (p + f[x]) * a = p * a + f[x] * a /\ (q + g[x]) * b = q * b + g[x] * b
      BY <2>5, <2>8
    <3>2. /\ p * a \in Nat /\ f[x] * a \in Nat
          /\ q * b \in Nat /\ g[x] * b \in Nat
      BY <2>5, <2>8
    <3> QED BY <2>4, <2>8, <3>1, <3>2
  <2> QED BY <2>6, <2>7, <2>9
<1> QED BY <1>4, <1>5

(* A sum grows by the summand of a new argument. *)
LEMMA SumExtend ==
  ASSUME NEW S, IsFiniteSet(S), NEW x, x \notin S,
         NEW f \in [S -> Nat], NEW g \in [S \cup {x} -> Nat], \A y \in S : g[y] = f[y]
  PROVE  SumOf(g) = SumOf(f) + g[x]
<1>1. IsFiniteSet(S \cup {x}) /\ x \in S \cup {x}
  BY FS_AddElement
<1>2. OtherUnits(g, x) = Units(f)
  <2>1. (DOMAIN g) \ {x} = DOMAIN f
    OBVIOUS
  <2> QED BY <2>1 DEF OtherUnits, Units
<1>3. /\ Cardinality(OtherUnits(g, x)) \in Nat
      /\ SumOf(g) = Cardinality(OtherUnits(g, x)) + g[x]
  BY <1>1, SumSplit
<1> QED BY <1>2, <1>3 DEF SumOf

(* Shares of a whole, in proportion to weights that sum to at most T, sum to at most B. *)
LEMMA SharesWithinWhole ==
  ASSUME NEW S, IsFiniteSet(S), NEW f \in [S -> Nat], NEW w \in [S -> Nat],
         NEW B \in Nat, NEW T \in Nat, SumOf(w) <= T,
         \A y \in S : IF T = 0 THEN f[y] = 0 ELSE f[y] * T <= w[y] * B
  PROVE  SumOf(f) <= B
<1>1. SumOf(f) \in Nat /\ SumOf(w) \in Nat
  BY SumIsNat
<1>2. CASE T = 0
  BY <1>2, SumOfZeros
<1>3. CASE T # 0
  <2>1. SumOf(f) * T <= SumOf(w) * B
    BY <1>3, SumScale
  <2> DEFINE p == SumOf(f)
             q == SumOf(w)
  <2> HIDE DEF p, q
  <2>2. p \in Nat /\ q \in Nat /\ p * T <= q * B /\ q <= T /\ T > 0
    BY <1>1, <1>3, <2>1 DEF p, q
  <2>3. q * B <= T * B
    BY <2>2
  <2>4. p * T <= B * T
    BY <2>2, <2>3
  <2>5. SUFFICES ASSUME p >= B + 1 PROVE FALSE
    BY <1>1, <2>2 DEF p
  <2>6. p * T >= (B + 1) * T
    BY <2>2, <2>5
  <2>7. (B + 1) * T = B * T + T
    OBVIOUS
  <2>8. B * T \in Nat /\ p * T \in Nat
    BY <2>2
  <2> QED BY <2>2, <2>4, <2>6, <2>7, <2>8
<1> QED BY <1>2, <1>3

(* Floor division undone by multiplying is no more than what was divided. *)
LEMMA FloorBound ==
  ASSUME NEW m \in Nat, NEW T \in Nat \ {0}
  PROVE  (m \div T) \in Nat /\ (m \div T) * T <= m
OBVIOUS
===========================================================================
