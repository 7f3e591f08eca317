----------------------------- MODULE SumsProofs -----------------------------
(***************************************************************************)
(* Lemmas about sums: a sum of natural amounts is a natural, adds up over  *)
(* disjoint sets, and grows with its set and with its amounts.             *)
(***************************************************************************)
EXTENDS Sums, FiniteSetTheorems, TLAPS

(* Counting up to a number. *)
LEMMA UpTo ==
  ASSUME NEW n \in Nat
  PROVE  IsFiniteSet(1..n) /\ Cardinality(1..n) = n
<1>1. IsFiniteSet(1..n) /\ Cardinality(1..n) = IF 1 > n THEN 0 ELSE n - 1 + 1
  BY FS_Interval
<1> QED BY <1>1

(* One row has as many units as its amount says. *)
LEMMA UnitsOfOne ==
  ASSUME NEW x, NEW n \in Nat
  PROVE  IsFiniteSet({x} \X (1..n)) /\ Cardinality({x} \X (1..n)) = n
<1>1. IsFiniteSet({x}) /\ Cardinality({x}) = 1
  BY FS_Singleton
<1>2. IsFiniteSet(1..n) /\ Cardinality(1..n) = n
  BY UpTo
<1>3. IsFiniteSet({x} \X (1..n)) /\ Cardinality({x} \X (1..n)) = Cardinality({x}) * Cardinality(1..n)
  BY <1>1, <1>2, FS_Product
<1> QED BY <1>1, <1>2, <1>3

(* Finitely many rows have finitely many units. *)
LEMMA UnitsFinite ==
  ASSUME NEW ids, IsFiniteSet(ids), NEW f, \A i \in ids : f[i] \in Nat
  PROVE  IsFiniteSet(Units(f, ids)) /\ Cardinality(Units(f, ids)) \in Nat
<1> DEFINE parts == {{i} \X (1..f[i]) : i \in ids}
           part == [i \in ids |-> {i} \X (1..f[i])]
<1>1. part \in Surjection(ids, parts)
  BY DEF Surjection
<1>2. IsFiniteSet(parts)
  <2> HIDE DEF parts, part
  <2> QED BY <1>1, FS_Surjection
<1>3. \A p \in parts : IsFiniteSet(p)
  <2> SUFFICES ASSUME NEW i \in ids PROVE IsFiniteSet({i} \X (1..f[i]))
    OBVIOUS
  <2> QED BY UnitsOfOne
<1>4. IsFiniteSet(UNION parts)
  BY <1>2, <1>3, FS_UNION
<1> QED BY <1>4, FS_CardinalityType DEF Units

(* A sum of naturals is a natural. *)
LEMMA SumIsNat ==
  ASSUME NEW S, IsFiniteSet(S), NEW f, \A i \in S : f[i] \in Nat
  PROVE  SumOver(f, S) \in Nat
BY UnitsFinite DEF SumOver

(* Only the amounts of the rows count. *)
LEMMA SumSame ==
  ASSUME NEW S, NEW f, NEW g, \A i \in S : f[i] = g[i]
  PROVE  SumOver(f, S) = SumOver(g, S)
<1>1. {{i} \X (1..f[i]) : i \in S} = {{i} \X (1..g[i]) : i \in S}
  OBVIOUS
<1> QED BY <1>1 DEF SumOver, Units

(* Sums over disjoint sets add up. *)
LEMMA SumDisjoint ==
  ASSUME NEW S, NEW T, IsFiniteSet(S), IsFiniteSet(T), S \cap T = {},
         NEW f, \A i \in S \cup T : f[i] \in Nat
  PROVE  SumOver(f, S \cup T) = SumOver(f, S) + SumOver(f, T)
<1> DEFINE A == Units(f, S)
           B == Units(f, T)
<1>1. /\ IsFiniteSet(A) /\ Cardinality(A) \in Nat
      /\ IsFiniteSet(B) /\ Cardinality(B) \in Nat
  BY UnitsFinite
<1>2. Units(f, S \cup T) = A \cup B
  BY DEF Units
<1>3. A \cap B = {}
  BY DEF Units
<1>4. Cardinality(A \cup B) = Cardinality(A) + Cardinality(B) - Cardinality(A \cap B)
  BY <1>1, FS_Union
<1>5. Cardinality(A \cap B) = 0
  BY <1>3, FS_EmptySet
<1>6. Cardinality(A \cup B) = Cardinality(A) + Cardinality(B)
  <2> HIDE DEF A, B
  <2> QED BY <1>1, <1>4, <1>5
<1> QED BY <1>2, <1>6 DEF SumOver

(* The sum over no rows at all, *)
LEMMA SumOfNone ==
  ASSUME NEW f
  PROVE  SumOver(f, {}) = 0
<1>1. Units(f, {}) = {}
  BY DEF Units
<1> QED BY <1>1, FS_EmptySet DEF SumOver

(* over one, *)
LEMMA SumOfOne ==
  ASSUME NEW x, NEW f, f[x] \in Nat
  PROVE  SumOver(f, {x}) = f[x]
<1>1. Units(f, {x}) = {x} \X (1..f[x])
  BY DEF Units
<1> QED BY <1>1, UnitsOfOne DEF SumOver

(* and over one more. *)
LEMMA SumAdded ==
  ASSUME NEW ids, IsFiniteSet(ids), NEW f, NEW g, NEW d, d \notin ids,
         \A i \in ids : f[i] \in Nat /\ g[i] = f[i], g[d] \in Nat
  PROVE  SumOver(g, ids \cup {d}) = SumOver(f, ids) + g[d]
<1>1. IsFiniteSet({d}) /\ ids \cap {d} = {} /\ \A i \in ids \cup {d} : g[i] \in Nat
  BY FS_Singleton
<1>2. SumOver(g, ids \cup {d}) = SumOver(g, ids) + SumOver(g, {d})
  BY <1>1, SumDisjoint
<1> QED BY <1>2, SumSame, SumOfOne

(* A sum over fewer rows with smaller amounts is no larger: here m says of  *)
(* each row of S which row of T covers it.                                  *)
LEMMA SumCovered ==
  ASSUME NEW S, NEW T, IsFiniteSet(T), NEW f, NEW g, NEW m,
         \A i \in S : m[i] \in T /\ f[i] \in Nat /\ f[i] <= g[m[i]],
         \A i, j \in S : m[i] = m[j] => i = j,
         \A i \in T : g[i] \in Nat
  PROVE  SumOver(f, S) <= SumOver(g, T)
<1> DEFINE A == Units(f, S)
           B == Units(g, T)
           h == [u \in A |-> <<m[u[1]], u[2]>>]
<1>1. IsFiniteSet(B)
  BY UnitsFinite
<1>2. ASSUME NEW u \in A
      PROVE  u[1] \in S /\ u[2] \in 1..f[u[1]] /\ u = <<u[1], u[2]>>
  BY <1>2 DEF Units
<1>3. ASSUME NEW u \in A PROVE h[u] \in B
  <2>1. m[u[1]] \in T /\ u[2] \in 1..g[m[u[1]]]
    BY <1>2
  <2> QED BY <2>1 DEF Units
<1>4. ASSUME NEW u \in A, NEW v \in A, h[u] = h[v] PROVE u = v
  <2>1. m[u[1]] = m[v[1]] /\ u[2] = v[2]
    BY <1>4
  <2>2. u[1] = v[1]
    BY <1>2, <2>1
  <2> QED BY <1>2, <2>1, <2>2
<1>5. h \in Injection(A, B)
  BY <1>3, <1>4 DEF Injection, IsInjective
<1> HIDE DEF A, B, h
<1>6. Cardinality(A) <= Cardinality(B)
  BY <1>1, <1>5, FS_Injection
<1> QED BY <1>6 DEF SumOver, A, B
=============================================================================
