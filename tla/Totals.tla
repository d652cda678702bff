------------------------------- MODULE Totals -------------------------------
(***************************************************************************)
(* Sums over finite sets: what SumFunctionOnSet of the community modules   *)
(* returns for the empty set and for a set with one element more.  It adds *)
(* the elements in an order that CHOOSE picks; the theorems say that this  *)
(* order does not matter.                                                  *)
(*                                                                         *)
(* The sum is a recursive function on the subsets of a set.  Induction is  *)
(* by the smallest counterexample: the strict subsets of a finite set are  *)
(* well-founded, so a set of counterexamples that is not empty has a       *)
(* member all of whose strict subsets are none.  That a finite set of      *)
(* naturals has a greatest member is proved in the same way.               *)
(***************************************************************************)
EXTENDS Integers, FiniteSets, Functions, FiniteSetTheorems, WellFoundedInduction, TLAPS

First(s) == CHOOSE x \in s : TRUE

\* The table of the sums of all subsets of S.
IsTable(g, f, S) ==
  g = [s \in SUBSET S |-> IF s = {} THEN 0 ELSE f[First(s)] + g[s \ {First(s)}]]

Table(f, S) == CHOOSE g : IsTable(g, f, S)

LEMMA SumIsTable ==
  ASSUME NEW f, NEW S
  PROVE  SumFunctionOnSet(f, S) = Table(f, S)[S]
BY DEF SumFunctionOnSet, FoldFunctionOnSet, MapThenFoldSet, Table, IsTable, First

LEMMA SmallestCounterexample ==
  ASSUME NEW S, IsFiniteSet(S), NEW Bad, Bad \subseteq SUBSET S, Bad # {}
  PROVE  \E U \in Bad : \A V \in SUBSET U : V # U => V \notin Bad
<1>1. IsWellFoundedOn(StrictSubsetOrdering(S), SUBSET S)
  BY FS_StrictSubsetOrderingWellFounded, FS_FiniteSubsetsOfFinite
<1>2. PICK U \in Bad : \A V \in Bad : <<V, U>> \notin StrictSubsetOrdering(S)
  BY <1>1, WFMin
<1>3. ASSUME NEW V \in SUBSET U, V # U, V \in Bad
      PROVE  FALSE
  <2>1. <<V, U>> \in StrictSubsetOrdering(S)
    BY <1>3 DEF StrictSubsetOrdering
  <2> QED BY <1>2, <1>3, <2>1
<1> QED BY <1>3

(* A finite set of naturals has a greatest member.                         *)
LEMMA FiniteHasMax ==
  ASSUME NEW S, S \subseteq Nat, IsFiniteSet(S), S # {}
  PROVE  \E m \in S : \A x \in S : x <= m
<1> DEFINE Above(t) == {x \in S : t <= x}
           T == {Above(t) : t \in S}
<1>1. PICK U \in T : \A V \in SUBSET U : V # U => V \notin T
  <2>1. T \subseteq SUBSET S /\ T # {}
    OBVIOUS
  <2> HIDE DEF T
  <2> QED BY <2>1, SmallestCounterexample
<1>2. PICK m \in S : U = Above(m)
  OBVIOUS
<1>3. ASSUME NEW x \in S, ~ (x <= m)
      PROVE  FALSE
  <2>1. Above(x) \subseteq Above(m) /\ m \in Above(m) /\ m \notin Above(x)
    <3>1. x \in Nat /\ m \in Nat /\ m < x /\ \A y \in S : y \in Nat
      BY <1>3
    <3>2. \A y \in S : x <= y => m <= y
      BY <3>1
    <3>3. m <= m /\ ~ (x <= m)
      BY <3>1
    <3> QED BY <3>2, <3>3, Zenon
  <2>2. Above(x) \in T /\ Above(x) \in SUBSET U /\ Above(x) # U
    BY <1>2, <2>1
  <2> QED BY <1>1, <2>2
<1> QED BY <1>3

(* A set of naturals has a smallest member.                                *)
LEMMA HasMin ==
  ASSUME NEW S, S \subseteq Nat, S # {}
  PROVE  \E m \in S : \A x \in S : m <= x
<1>1. PICK n \in S : TRUE
  OBVIOUS
<1> DEFINE Distances == {d \in 0 .. n : n - d \in S}
<1>2. Distances \subseteq Nat /\ IsFiniteSet(Distances) /\ Distances # {}
  <2>1. n \in Nat /\ 0 \in Distances
    BY <1>1
  <2>2. IsFiniteSet(0 .. n) /\ 0 .. n \subseteq Nat
    BY <2>1, FS_Interval
  <2>3. Distances \subseteq 0 .. n
    OBVIOUS
  <2> HIDE DEF Distances
  <2> QED BY <2>1, <2>2, <2>3, FS_Subset
<1>3. PICK d \in Distances : \A e \in Distances : e <= d
  <2> HIDE DEF Distances
  <2> QED BY <1>2, FiniteHasMax
<1>4. ASSUME NEW x \in S
      PROVE  n - d <= x
  <2>1. n \in Nat /\ x \in Nat /\ d \in 0 .. n
    BY <1>1
  <2>2. CASE n < x
    BY <2>1, <2>2
  <2>3. CASE x <= n
    <3>1. n - x \in 0 .. n /\ n - (n - x) = x
      BY <2>1, <2>3
    <3>2. n - x <= d
      BY <1>3, <3>1
    <3> QED BY <2>1, <3>2
  <2> QED BY <2>1, <2>2, <2>3
<1> QED BY <1>3, <1>4

(* Tables agree, also tables of different sets.                            *)
LEMMA TablesCoincide ==
  ASSUME NEW f, NEW S, IsFiniteSet(S), NEW A, NEW B, S \subseteq A, S \subseteq B,
         NEW g, IsTable(g, f, A), NEW h, IsTable(h, f, B)
  PROVE  g[S] = h[S]
<1> DEFINE Bad == {s \in SUBSET S : g[s] # h[s]}
<1> SUFFICES ASSUME Bad # {} PROVE FALSE
  OBVIOUS
<1>1. PICK U \in Bad : \A V \in SUBSET U : V # U => V \notin Bad
  <2>1. Bad \subseteq SUBSET S
    OBVIOUS
  <2> HIDE DEF Bad
  <2> QED BY <2>1, SmallestCounterexample
<1>2. U \in SUBSET A /\ U \in SUBSET B /\ U \in SUBSET S
  OBVIOUS
<1>3. /\ g[U] = IF U = {} THEN 0 ELSE f[First(U)] + g[U \ {First(U)}]
      /\ h[U] = IF U = {} THEN 0 ELSE f[First(U)] + h[U \ {First(U)}]
  BY <1>2 DEF IsTable
<1>4. CASE U = {}
  BY <1>1, <1>3, <1>4
<1>5. CASE U # {}
  <2>1. First(U) \in U
    BY <1>5 DEF First
  <2>2. U \ {First(U)} \in SUBSET U /\ U \ {First(U)} # U
    BY <2>1
  <2>3. g[U \ {First(U)}] = h[U \ {First(U)}]
    BY <1>1, <1>2, <2>2
  <2> QED BY <1>1, <1>3, <1>5, <2>3
<1> QED BY <1>4, <1>5

(* Every finite set has a table: put together the sums of its subsets.     *)
LEMMA TableExists ==
  ASSUME NEW f, NEW S, IsFiniteSet(S)
  PROVE  IsTable(Table(f, S), f, S)
<1> DEFINE Bad == {s \in SUBSET S : ~ \E g : IsTable(g, f, s)}
<1>1. SUFFICES ASSUME Bad # {} PROVE FALSE
  <2>1. S \notin Bad => \E g : IsTable(g, f, S)
    OBVIOUS
  <2> QED BY <2>1 DEF Table
<1>2. PICK U \in Bad : \A V \in SUBSET U : V # U => V \notin Bad
  <2>1. Bad \subseteq SUBSET S
    OBVIOUS
  <2> HIDE DEF Bad
  <2> QED BY <1>1, <2>1, SmallestCounterexample
<1>3. ASSUME NEW s \in SUBSET U, s # U
      PROVE  IsTable(Table(f, s), f, s)
  <2>1. \E g : IsTable(g, f, s)
    BY <1>2, <1>3
  <2> QED BY <2>1 DEF Table
<1>4. ASSUME NEW s \in SUBSET U, s # U, s # {}
      PROVE  Table(f, s)[s] = f[First(s)] + Table(f, s \ {First(s)})[s \ {First(s)}]
  <2> DEFINE t == s \ {First(s)}
  <2>1. First(s) \in s
    BY <1>4 DEF First
  <2>2. t \in SUBSET U /\ t # U /\ t \subseteq s /\ s \in SUBSET s
    BY <1>4, <2>1
  <2>3. IsTable(Table(f, s), f, s) /\ IsTable(Table(f, t), f, t)
    BY <1>3, <1>4, <2>2
  <2>4. Table(f, s)[s] = f[First(s)] + Table(f, s)[t]
    BY <1>4, <2>2, <2>3 DEF IsTable
  <2>5. IsFiniteSet(t)
    BY <2>2, FS_Subset
  <2>6. Table(f, s)[t] = Table(f, t)[t]
    <3> HIDE DEF t
    <3> QED BY <2>2, <2>3, <2>5, TablesCoincide
  <2> QED BY <2>4, <2>6
<1> DEFINE last == U \ {First(U)}
           g == [s \in SUBSET U |->
                   IF s = U THEN IF U = {} THEN 0 ELSE f[First(U)] + Table(f, last)[last]
                   ELSE Table(f, s)[s]]
<1>5. ASSUME NEW s \in SUBSET U
      PROVE  g[s] = IF s = {} THEN 0 ELSE f[First(s)] + g[s \ {First(s)}]
  <2>1. CASE s = {} /\ s = U
    BY <2>1
  <2>2. CASE s = {} /\ s # U
    <3>1. Table(f, s)[s] = 0
      BY <1>3, <2>2 DEF IsTable
    <3> QED BY <2>2, <3>1
  <2>3. CASE s # {}
    <3>1. First(s) \in s
      BY <2>3 DEF First
    <3>2. s \ {First(s)} \in SUBSET U /\ s \ {First(s)} # U
      BY <3>1
    <3>3. g[s \ {First(s)}] = Table(f, s \ {First(s)})[s \ {First(s)}]
      BY <3>2
    <3>4. g[s] = f[First(s)] + Table(f, s \ {First(s)})[s \ {First(s)}]
      BY <1>4, <2>3
    <3> QED BY <2>3, <3>3, <3>4
  <2> QED BY <2>1, <2>2, <2>3
<1>6. IsTable(g, f, U)
  <2>1. g = [s \in SUBSET U |-> g[s]]
    OBVIOUS
  <2> HIDE DEF g
  <2> QED BY <1>5, <2>1 DEF IsTable
<1> QED BY <1>2, <1>6

-----------------------------------------------------------------------------
(* The sum of no values is zero.                                           *)
THEOREM SumOfNone ==
  ASSUME NEW f
  PROVE  SumFunctionOnSet(f, {}) = 0
<1>1. IsTable(Table(f, {}), f, {})
  BY FS_EmptySet, TableExists
<1>2. {} \in SUBSET {} /\ Table(f, {})[{}] = 0
  BY <1>1 DEF IsTable
<1> QED BY <1>2, SumIsTable

(* The recursion of the sum.                                               *)
LEMMA SumStep ==
  ASSUME NEW f, NEW S, IsFiniteSet(S), S # {}
  PROVE  SumFunctionOnSet(f, S) = f[First(S)] + SumFunctionOnSet(f, S \ {First(S)})
<1> DEFINE t == S \ {First(S)}
<1>1. IsTable(Table(f, S), f, S) /\ S \in SUBSET S
  BY TableExists
<1>2. Table(f, S)[S] = f[First(S)] + Table(f, S)[t]
  BY <1>1 DEF IsTable
<1>3. IsFiniteSet(t) /\ t \subseteq S /\ t \subseteq t
  BY FS_Subset
<1>4. Table(f, S)[t] = Table(f, t)[t]
  <2>1. IsTable(Table(f, t), f, t)
    BY <1>3, TableExists
  <2> HIDE DEF t
  <2> QED BY <1>1, <1>3, <2>1, TablesCoincide
<1> QED BY <1>2, <1>4, SumIsTable

(* A sum of natural numbers is one.                                        *)
THEOREM SumIsNatural ==
  ASSUME NEW f, NEW S, IsFiniteSet(S), \A x \in S : f[x] \in Nat
  PROVE  SumFunctionOnSet(f, S) \in Nat
<1> DEFINE Bad == {s \in SUBSET S : SumFunctionOnSet(f, s) \notin Nat}
<1>1. SUFFICES ASSUME Bad # {} PROVE FALSE
  OBVIOUS
<1>2. PICK U \in Bad : \A V \in SUBSET U : V # U => V \notin Bad
  <2>1. Bad \subseteq SUBSET S
    OBVIOUS
  <2> HIDE DEF Bad
  <2> QED BY <1>1, <2>1, SmallestCounterexample
<1>3. U \subseteq S /\ IsFiniteSet(U) /\ SumFunctionOnSet(f, U) \notin Nat
  BY FS_Subset
<1>4. U # {}
  BY <1>3, SumOfNone
<1>5. First(U) \in U /\ f[First(U)] \in Nat
  BY <1>3, <1>4 DEF First
<1>6. U \ {First(U)} \in SUBSET U /\ U \ {First(U)} # U
  BY <1>5
<1>7. SumFunctionOnSet(f, U \ {First(U)}) \in Nat
  BY <1>2, <1>3, <1>6
<1>8. SumFunctionOnSet(f, U) = f[First(U)] + SumFunctionOnSet(f, U \ {First(U)})
  BY <1>3, <1>4, SumStep
<1> QED BY <1>3, <1>5, <1>7, <1>8

(* A sum depends on the values of its elements only.                       *)
THEOREM SumDependsOnValues ==
  ASSUME NEW f, NEW g, NEW S, IsFiniteSet(S), \A x \in S : f[x] = g[x]
  PROVE  SumFunctionOnSet(f, S) = SumFunctionOnSet(g, S)
<1> DEFINE Bad == {s \in SUBSET S : SumFunctionOnSet(f, s) # SumFunctionOnSet(g, s)}
<1>1. SUFFICES ASSUME Bad # {} PROVE FALSE
  OBVIOUS
<1>2. PICK U \in Bad : \A V \in SUBSET U : V # U => V \notin Bad
  <2>1. Bad \subseteq SUBSET S
    OBVIOUS
  <2> HIDE DEF Bad
  <2> QED BY <1>1, <2>1, SmallestCounterexample
<1>3. U \subseteq S /\ IsFiniteSet(U) /\ SumFunctionOnSet(f, U) # SumFunctionOnSet(g, U)
  BY FS_Subset
<1>4. U # {}
  BY <1>3, SumOfNone
<1>5. First(U) \in U /\ f[First(U)] = g[First(U)]
  BY <1>3, <1>4 DEF First
<1>6. U \ {First(U)} \in SUBSET U /\ U \ {First(U)} # U
  BY <1>5
<1>7. SumFunctionOnSet(f, U \ {First(U)}) = SumFunctionOnSet(g, U \ {First(U)})
  BY <1>2, <1>3, <1>6
<1>8. /\ SumFunctionOnSet(f, U) = f[First(U)] + SumFunctionOnSet(f, U \ {First(U)})
      /\ SumFunctionOnSet(g, U) = g[First(U)] + SumFunctionOnSet(g, U \ {First(U)})
  BY <1>3, <1>4, SumStep
<1> QED BY <1>3, <1>5, <1>7, <1>8

(* Any element may be added last: the order of the additions is nobody's   *)
(* business.                                                               *)
THEOREM SumWithout ==
  ASSUME NEW f, NEW S, IsFiniteSet(S), \A x \in S : f[x] \in Nat, NEW e \in S
  PROVE  SumFunctionOnSet(f, S) = f[e] + SumFunctionOnSet(f, S \ {e})
<1> DEFINE Splits(s) == \A y \in s : SumFunctionOnSet(f, s) = f[y] + SumFunctionOnSet(f, s \ {y})
           Bad == {s \in SUBSET S : ~ Splits(s)}
<1>1. SUFFICES ASSUME Bad # {} PROVE FALSE
  <2>1. Splits(S)
    BY <1>1
  <2> QED BY <2>1
<1>2. PICK U \in Bad : \A V \in SUBSET U : V # U => V \notin Bad
  <2>1. Bad \subseteq SUBSET S
    OBVIOUS
  <2> HIDE DEF Bad
  <2> QED BY <1>1, <2>1, SmallestCounterexample
<1>3. U \subseteq S /\ IsFiniteSet(U) /\ ~ Splits(U)
  BY FS_Subset
<1>4. PICK y \in U : SumFunctionOnSet(f, U) # f[y] + SumFunctionOnSet(f, U \ {y})
  BY <1>3
<1> DEFINE x == First(U)
<1>5. x \in U
  BY <1>4 DEF First
<1>6. SumFunctionOnSet(f, U) = f[x] + SumFunctionOnSet(f, U \ {x})
  BY <1>3, <1>4, SumStep
<1>7. x # y
  BY <1>4, <1>6
<1>8. ASSUME NEW V \in SUBSET U, V # U, NEW z \in V
      PROVE  SumFunctionOnSet(f, V) = f[z] + SumFunctionOnSet(f, V \ {z})
  <2>1. Splits(V)
    BY <1>2, <1>3, <1>8
  <2> QED BY <2>1
<1> HIDE DEF x
<1>9. SumFunctionOnSet(f, U \ {x}) = f[y] + SumFunctionOnSet(f, (U \ {x}) \ {y})
  <2>1. U \ {x} \in SUBSET U /\ U \ {x} # U /\ y \in U \ {x}
    BY <1>4, <1>5, <1>7
  <2> QED BY <1>8, <2>1
<1>10. SumFunctionOnSet(f, U \ {y}) = f[x] + SumFunctionOnSet(f, (U \ {y}) \ {x})
  <2>1. U \ {y} \in SUBSET U /\ U \ {y} # U /\ x \in U \ {y}
    BY <1>4, <1>5, <1>7
  <2> QED BY <1>8, <2>1
<1>11. (U \ {x}) \ {y} = (U \ {y}) \ {x}
  OBVIOUS
<1> DEFINE r == SumFunctionOnSet(f, (U \ {y}) \ {x})
<1>12. f[x] \in Nat /\ f[y] \in Nat /\ r \in Nat
  <2>1. (U \ {y}) \ {x} \subseteq S /\ IsFiniteSet((U \ {y}) \ {x})
    BY <1>3, FS_Subset
  <2>2. SumFunctionOnSet(f, (U \ {y}) \ {x}) \in Nat
    BY <2>1, SumIsNatural
  <2> QED BY <1>3, <1>4, <1>5, <2>2
<1>13. f[x] + (f[y] + r) = f[y] + (f[x] + r)
  <2> HIDE DEF r
  <2> QED BY <1>12
<1>14. SumFunctionOnSet(f, U \ {x}) = f[y] + r /\ SumFunctionOnSet(f, U \ {y}) = f[x] + r
  BY <1>9, <1>10, <1>11, Zenon
<1> QED BY <1>4, <1>6, <1>13, <1>14, Zenon

(* One element more adds its value.                                        *)
THEOREM SumWith ==
  ASSUME NEW f, NEW S, IsFiniteSet(S), NEW e, e \notin S,
         \A x \in S \cup {e} : f[x] \in Nat
  PROVE  /\ IsFiniteSet(S \cup {e})
         /\ SumFunctionOnSet(f, S \cup {e}) = f[e] + SumFunctionOnSet(f, S)
<1>1. IsFiniteSet(S \cup {e})
  BY FS_AddElement
<1>2. (S \cup {e}) \ {e} = S
  OBVIOUS
<1>3. SumFunctionOnSet(f, S \cup {e}) = f[e] + SumFunctionOnSet(f, (S \cup {e}) \ {e})
  <2> DEFINE T == S \cup {e}
  <2>1. IsFiniteSet(T) /\ e \in T /\ \A x \in T : f[x] \in Nat
    BY <1>1
  <2> HIDE DEF T
  <2>2. SumFunctionOnSet(f, T) = f[e] + SumFunctionOnSet(f, T \ {e})
    BY <2>1, SumWithout
  <2> QED BY <2>2 DEF T
<1> QED BY <1>1, <1>2, <1>3
=============================================================================
