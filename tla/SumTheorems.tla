---------------------------- MODULE SumTheorems ----------------------------
(***************************************************************************)
(* Sums over finite sets, SumFunctionOnSet of the module Functions.  Its   *)
(* fold is a table over the subsets of the set: the table exists, and its  *)
(* entries do not depend on the set it was made for.  Both are inductions  *)
(* over the size of a set, stated for the set of those that are good.      *)
(***************************************************************************)
EXTENDS Integers, Functions, FiniteSetTheorems, WellFoundedInduction, TLAPS

\* The element a fold takes first.
ChosenIn(S) == CHOOSE x \in S : TRUE

\* A non-empty set of naturals has a least element.
LEMMA LeastNatural ==
  ASSUME NEW N \in SUBSET Nat, N # {}
  PROVE  \E n \in N : \A m \in N : n <= m
<1> DEFINE R == OpToRel(<, Nat)
<1>1. IsWellFoundedOn(R, Nat) BY NatLessThanWellFounded
<1>2. PICK n \in N : \A m \in N : ~(<<m, n>> \in R)
  <2> HIDE DEF R
  <2> QED BY <1>1, WFMin
<1>3. ASSUME NEW m \in N, m < n PROVE FALSE
  <2>1. <<m, n>> \in R BY <1>3 DEF OpToRel
  <2> QED BY <2>1, <1>2
<1> QED BY <1>3

\* Induction over the naturals, for the set of those that have the property.
LEMMA NaturalSet ==
  ASSUME NEW Good, 0 \in Good, \A n \in Nat : n \in Good => n + 1 \in Good
  PROVE  Nat \subseteq Good
<1> DEFINE Bad == Nat \ Good
<1>1. SUFFICES ASSUME Bad # {} PROVE FALSE OBVIOUS
<1>2. PICK n \in Bad : \A m \in Bad : n <= m
  <2>1. Bad \in SUBSET Nat /\ Bad # {} BY <1>1
  <2> HIDE DEF Bad
  <2> QED BY <2>1, LeastNatural
<1>3. n \in Nat /\ n # 0 /\ n \notin Good OBVIOUS
<1>4. n - 1 \in Nat /\ (n - 1) + 1 = n BY <1>3
<1>5. n - 1 \in Good BY <1>2, <1>4
<1> QED BY <1>3, <1>4, <1>5

\* Induction over the subsets of a finite set by their size.
LEMMA SubsetsBySize ==
  ASSUME NEW S, IsFiniteSet(S), NEW Good,
         \A T \in SUBSET S :
           (\A U \in SUBSET T : U # T => U \in Good) => T \in Good
  PROVE  SUBSET S \subseteq Good
<1> DEFINE Upto == {n \in Nat : \A T \in SUBSET S : Cardinality(T) <= n => T \in Good}
<1>1. \A T \in SUBSET S : IsFiniteSet(T) /\ Cardinality(T) \in Nat
  BY FS_Subset, FS_CardinalityType
<1>2. ASSUME NEW T \in SUBSET S, NEW U \in SUBSET T, U # T
      PROVE  Cardinality(U) < Cardinality(T)
  <2>1. Cardinality(U) <= Cardinality(T) /\ Cardinality(T) # Cardinality(U)
    BY <1>1, <1>2, FS_Subset
  <2>2. Cardinality(U) \in Nat /\ Cardinality(T) \in Nat BY <1>1
  <2> QED BY <2>1, <2>2
<1>3. 0 \in Upto
  <2>1. ASSUME NEW T \in SUBSET S, Cardinality(T) <= 0 PROVE T \in Good
    <3>1. T = {} BY <1>1, <2>1, FS_EmptySet
    <3>2. {} \in SUBSET S /\ \A U \in SUBSET {} : U = {} OBVIOUS
    <3> QED BY <3>1, <3>2
  <2> QED BY <2>1
<1>4. ASSUME NEW n \in Nat, n \in Upto PROVE n + 1 \in Upto
  <2>1. ASSUME NEW T \in SUBSET S, Cardinality(T) <= n + 1 PROVE T \in Good
    <3>1. ASSUME NEW U \in SUBSET T, U # T PROVE U \in Good
      <4>1. Cardinality(U) < Cardinality(T) BY <1>2, <3>1
      <4>2. Cardinality(U) <= n BY <4>1, <2>1, <1>1
      <4> QED BY <4>2, <1>4
    <3> QED BY <3>1
  <2> QED BY <2>1
<1>5. Nat \subseteq Upto
  <2> HIDE DEF Upto
  <2> QED BY <1>3, <1>4, NaturalSet
<1>6. ASSUME NEW T \in SUBSET S PROVE T \in Good
  <2>1. Cardinality(T) \in Upto BY <1>1, <1>5
  <2> QED BY <2>1, <1>1
<1> QED BY <1>6

\* It is an element.
LEMMA ChosenIsIn ==
  ASSUME NEW S, S # {}
  PROVE  ChosenIn(S) \in S
BY DEF ChosenIn

-----------------------------------------------------------------------------
(* The table behind a sum *)

\* One equation of the table.
TableEntry(g, f, s) == IF s = {} THEN 0 ELSE f[ChosenIn(s)] + g[s \ {ChosenIn(s)}]
IsSumTable(g, f, S) == g = [s \in SUBSET S |-> TableEntry(g, f, s)]

\* A sum is an entry of the table its definition chooses.
LEMMA SumIsTable ==
  ASSUME NEW f, NEW S
  PROVE  SumFunctionOnSet(f, S) = (CHOOSE g : IsSumTable(g, f, S))[S]
BY DEF SumFunctionOnSet, FoldFunctionOnSet, MapThenFoldSet, IsSumTable, ChosenIn, TableEntry

\* A finite set has a table.
LEMMA SumTableExists ==
  ASSUME NEW f, NEW S, IsFiniteSet(S)
  PROVE  \E g : IsSumTable(g, f, S)
<1> DEFINE Upto(n, g) == \A s \in SUBSET S : Cardinality(s) <= n => g[s] = TableEntry(g, f, s)
           Good == {n \in Nat : \E g : Upto(n, g)}
           Next(g) == [s \in SUBSET S |-> TableEntry(g, f, s)]
<1>1. \A T \in SUBSET S : IsFiniteSet(T) /\ Cardinality(T) \in Nat /\ Cardinality(T) <= Cardinality(S)
  BY FS_Subset, FS_CardinalityType
<1>2. ASSUME NEW s \in SUBSET S, s # {}
      PROVE  /\ s \ {ChosenIn(s)} \in SUBSET S
             /\ Cardinality(s \ {ChosenIn(s)}) = Cardinality(s) - 1
  BY <1>1, <1>2, FS_RemoveElement, ChosenIsIn
<1>3. \A s \in SUBSET S : Cardinality(s) = 0 => s = {}
  BY <1>1, FS_EmptySet
<1>4. 0 \in Good
  <2>1. Upto(0, Next([s \in SUBSET S |-> 0]))
    BY <1>1, <1>3 DEF TableEntry
  <2> QED BY <2>1
<1>5. ASSUME NEW n \in Nat, n \in Good PROVE n + 1 \in Good
  <2>1. PICK g : Upto(n, g) BY <1>5
  <2>2. ASSUME NEW s \in SUBSET S, Cardinality(s) <= n + 1
        PROVE  Next(g)[s] = TableEntry(Next(g), f, s)
    <3>1. CASE s = {} BY <3>1 DEF TableEntry
    <3>2. CASE s # {}
      <4> DEFINE r == s \ {ChosenIn(s)}
      <4>1. r \in SUBSET S /\ Cardinality(r) <= n
        BY <1>1, <1>2, <2>2, <3>2
      <4>2. g[r] = TableEntry(g, f, r) BY <2>1, <4>1
      <4>3. Next(g)[r] = g[r] BY <4>1, <4>2
      <4>4. Next(g)[s] = f[ChosenIn(s)] + g[r] BY <3>2 DEF TableEntry
      <4> QED BY <4>3, <4>4, <3>2 DEF TableEntry
    <3> QED BY <3>1, <3>2
  <2>3. Upto(n + 1, Next(g)) BY <2>2
  <2>4. \E k : Upto(n + 1, k)
    <3> HIDE DEF Upto, Next
    <3> QED BY <2>3
  <2> QED BY <2>4
<1>6. Nat \subseteq Good
  <2> HIDE DEF Good
  <2> QED BY <1>4, <1>5, NaturalSet
<1>7. Cardinality(S) \in Nat BY FS_CardinalityType
<1>8. PICK g : Upto(Cardinality(S), g) BY <1>6, <1>7
<1>9. \A s \in SUBSET S : g[s] = TableEntry(g, f, s) BY <1>1, <1>8
<1>10. \A s \in SUBSET S : TableEntry(g, f, s) = TableEntry(Next(g), f, s)
  <2>1. ASSUME NEW s \in SUBSET S, s # {} PROVE Next(g)[s \ {ChosenIn(s)}] = g[s \ {ChosenIn(s)}]
    BY <1>2, <1>9, <2>1
  <2> QED BY <2>1 DEF TableEntry
<1>11. IsSumTable(Next(g), f, S) BY <1>10 DEF IsSumTable
<1> QED BY <1>11

\* Tables of functions that agree have the same entries.
LEMMA SumTablesAgree ==
  ASSUME NEW S, IsFiniteSet(S), NEW f, NEW e, \A x \in S : f[x] = e[x],
         NEW R, NEW T, S \subseteq R, S \subseteq T, NEW g, NEW h,
         IsSumTable(g, f, R), IsSumTable(h, e, T)
  PROVE  g[S] = h[S]
<1> DEFINE Good == {U \in SUBSET S : g[U] = h[U]}
<1>1. \A U \in SUBSET S : g[U] = TableEntry(g, f, U) /\ h[U] = TableEntry(h, e, U)
  BY DEF IsSumTable
<1>2. ASSUME NEW U \in SUBSET S, \A V \in SUBSET U : V # U => V \in Good
      PROVE  U \in Good
  <2>1. CASE U = {} BY <2>1, <1>1 DEF TableEntry
  <2>2. CASE U # {}
    <3>1. ChosenIn(U) \in U /\ U \ {ChosenIn(U)} \in SUBSET U /\ U \ {ChosenIn(U)} # U
      BY <2>2, ChosenIsIn
    <3>2. g[U \ {ChosenIn(U)}] = h[U \ {ChosenIn(U)}] BY <1>2, <3>1
    <3>3. f[ChosenIn(U)] = e[ChosenIn(U)] BY <3>1
    <3> QED BY <3>2, <3>3, <1>1, <2>2 DEF TableEntry
  <2> QED BY <2>1, <2>2
<1>3. SUBSET S \subseteq Good
  <2> HIDE DEF Good
  <2> QED BY <1>2, SubsetsBySize
<1> QED BY <1>3

\* So what the definition chooses is a table.
LEMMA SumTable ==
  ASSUME NEW f, NEW S, IsFiniteSet(S)
  PROVE  IsSumTable(CHOOSE g : IsSumTable(g, f, S), f, S)
BY SumTableExists, Zenon

-----------------------------------------------------------------------------
(* Sums *)

\* Functions that agree on the set have the same sum over it.
THEOREM SumAgree ==
  ASSUME NEW S, IsFiniteSet(S), NEW f, NEW e, \A x \in S : f[x] = e[x]
  PROVE  SumFunctionOnSet(f, S) = SumFunctionOnSet(e, S)
<1> DEFINE g == CHOOSE g : IsSumTable(g, f, S)
           h == CHOOSE h : IsSumTable(h, e, S)
<1>1. IsSumTable(g, f, S) /\ IsSumTable(h, e, S) BY SumTable
<1>2. SumFunctionOnSet(f, S) = g[S] /\ SumFunctionOnSet(e, S) = h[S] BY SumIsTable
<1> HIDE DEF g, h
<1>3. g[S] = h[S] BY <1>1, SumTablesAgree
<1> QED BY <1>2, <1>3

\* Nothing adds up to nothing.
LEMMA SumEmpty ==
  ASSUME NEW f
  PROVE  SumFunctionOnSet(f, {}) = 0
<1> DEFINE g == CHOOSE g : IsSumTable(g, f, {})
<1>1. IsSumTable(g, f, {}) BY SumTable, FS_EmptySet
<1>2. SumFunctionOnSet(f, {}) = g[{}] BY SumIsTable
<1> HIDE DEF g
<1>3. g[{}] = TableEntry(g, f, {}) BY <1>1 DEF IsSumTable
<1> QED BY <1>2, <1>3 DEF TableEntry

\* The sum takes the elements in the order in which they are chosen.
LEMMA SumChosen ==
  ASSUME NEW f, NEW S, IsFiniteSet(S), S # {}
  PROVE  SumFunctionOnSet(f, S) = f[ChosenIn(S)] + SumFunctionOnSet(f, S \ {ChosenIn(S)})
<1> DEFINE T == S \ {ChosenIn(S)}
           g == CHOOSE g : IsSumTable(g, f, S)
           h == CHOOSE h : IsSumTable(h, f, T)
<1>1. T \in SUBSET S /\ IsFiniteSet(T) BY FS_RemoveElement
<1>2. IsSumTable(g, f, S) /\ IsSumTable(h, f, T)
  <2> HIDE DEF T
  <2> QED BY <1>1, SumTable
<1>3. SumFunctionOnSet(f, S) = g[S] /\ SumFunctionOnSet(f, T) = h[T]
  <2> HIDE DEF T
  <2> QED BY SumIsTable
<1> HIDE DEF g, h
<1>4. g[S] = f[ChosenIn(S)] + g[T] BY <1>2 DEF IsSumTable, TableEntry
<1>5. g[T] = h[T]
  <2> HIDE DEF T
  <2>1. T \subseteq S /\ T \subseteq T /\ \A x \in T : f[x] = f[x] BY <1>1
  <2> QED BY <1>1, <1>2, <2>1, SumTablesAgree
<1> QED BY <1>3, <1>4, <1>5

\* Integers add up to an integer.
LEMMA SumInt ==
  ASSUME NEW f, NEW S, IsFiniteSet(S), \A x \in S : f[x] \in Int
  PROVE  SumFunctionOnSet(f, S) \in Int
<1> DEFINE Good == {T \in SUBSET S : SumFunctionOnSet(f, T) \in Int}
<1>1. ASSUME NEW T \in SUBSET S, \A U \in SUBSET T : U # T => U \in Good
      PROVE  T \in Good
  <2>1. CASE T = {} BY <2>1, SumEmpty
  <2>2. CASE T # {}
    <3>1. ChosenIn(T) \in T /\ T \ {ChosenIn(T)} \in SUBSET T /\ T \ {ChosenIn(T)} # T /\ IsFiniteSet(T)
      BY <2>2, ChosenIsIn, FS_Subset
    <3>2. SumFunctionOnSet(f, T \ {ChosenIn(T)}) \in Int BY <3>1, <1>1
    <3>3. f[ChosenIn(T)] \in Int BY <3>1
    <3>4. SumFunctionOnSet(f, T) = f[ChosenIn(T)] + SumFunctionOnSet(f, T \ {ChosenIn(T)})
      BY <3>1, <2>2, SumChosen
    <3> QED BY <3>2, <3>3, <3>4
  <2> QED BY <2>1, <2>2
<1>2. SUBSET S \subseteq Good
  <2> HIDE DEF Good
  <2> QED BY <1>1, SubsetsBySize
<1> QED BY <1>2

\* Any element may be taken out first.
THEOREM SumRemove ==
  ASSUME NEW f, NEW S, IsFiniteSet(S), \A x \in S : f[x] \in Int, NEW x \in S
  PROVE  SumFunctionOnSet(f, S) = f[x] + SumFunctionOnSet(f, S \ {x})
<1> DEFINE Sum(T) == SumFunctionOnSet(f, T)
           Good == {T \in SUBSET S : \A y \in T : Sum(T) = f[y] + Sum(T \ {y})}
<1> HIDE DEF Sum
<1>0. \A T \in SUBSET S : IsFiniteSet(T) /\ Sum(T) \in Int
  BY FS_Subset, SumInt DEF Sum
<1>1. ASSUME NEW T \in SUBSET S, \A U \in SUBSET T : U # T => U \in Good
      PROVE  T \in Good
  <2>1. SUFFICES ASSUME NEW y \in T PROVE Sum(T) = f[y] + Sum(T \ {y})
    OBVIOUS
  <2> DEFINE z == ChosenIn(T)
  <2>2. z \in T BY <2>1, ChosenIsIn
  <2>3. Sum(T) = f[z] + Sum(T \ {z}) BY <1>0, <2>1, SumChosen DEF Sum
  <2> HIDE DEF z
  <2>4. CASE y = z BY <2>3, <2>4
  <2>5. CASE y # z
    <3>1. T \ {z} \in Good /\ y \in T \ {z} BY <1>1, <2>2, <2>5
    <3>2. T \ {y} \in Good /\ z \in T \ {y} BY <1>1, <2>1, <2>2, <2>5
    <3>3. Sum(T \ {z}) = f[y] + Sum((T \ {z}) \ {y}) BY <3>1
    <3>4. Sum(T \ {y}) = f[z] + Sum((T \ {y}) \ {z}) BY <3>2
    <3>5. (T \ {z}) \ {y} = (T \ {y}) \ {z} OBVIOUS
    <3>6. Sum((T \ {z}) \ {y}) \in Int /\ f[y] \in Int /\ f[z] \in Int
      BY <1>0, <2>1, <2>2
    <3>7. Sum(T) = f[z] + (f[y] + Sum((T \ {z}) \ {y})) BY <2>3, <3>3
    <3>8. Sum(T \ {y}) = f[z] + Sum((T \ {z}) \ {y}) BY <3>4, <3>5
    <3> QED BY <3>6, <3>7, <3>8
  <2> QED BY <2>4, <2>5
<1>2. SUBSET S \subseteq Good
  <2> HIDE DEF Good
  <2> QED BY <1>1, SubsetsBySize
<1>3. Sum(S) = f[x] + Sum(S \ {x}) BY <1>2
<1> QED BY <1>3 DEF Sum

\* An element is added.
LEMMA SumAdd ==
  ASSUME NEW f, NEW S, IsFiniteSet(S), NEW x, x \notin S, \A y \in S \cup {x} : f[y] \in Int
  PROVE  SumFunctionOnSet(f, S \cup {x}) = f[x] + SumFunctionOnSet(f, S)
<1>1. IsFiniteSet(S \cup {x}) BY FS_AddElement
<1>2. (S \cup {x}) \ {x} = S OBVIOUS
<1> QED BY <1>1, <1>2, SumRemove

\* One summand changes.
THEOREM SumChange ==
  ASSUME NEW S, IsFiniteSet(S), NEW f, NEW e, NEW x \in S,
         \A y \in S : f[y] \in Int, e[x] \in Int, \A y \in S \ {x} : e[y] = f[y]
  PROVE  SumFunctionOnSet(e, S) = SumFunctionOnSet(f, S) - f[x] + e[x]
<1>1. \A y \in S : e[y] \in Int OBVIOUS
<1>2. IsFiniteSet(S \ {x}) BY FS_RemoveElement
<1>3. SumFunctionOnSet(e, S) = e[x] + SumFunctionOnSet(e, S \ {x}) BY <1>1, SumRemove
<1>4. SumFunctionOnSet(f, S) = f[x] + SumFunctionOnSet(f, S \ {x}) BY SumRemove
<1>5. SumFunctionOnSet(e, S \ {x}) = SumFunctionOnSet(f, S \ {x}) BY <1>2, SumAgree
<1>6. SumFunctionOnSet(f, S \ {x}) \in Int BY <1>2, SumInt
<1> QED BY <1>3, <1>4, <1>5, <1>6

\* Larger summands have the larger sum.
THEOREM SumMonotone ==
  ASSUME NEW S, IsFiniteSet(S), NEW f, NEW e,
         \A x \in S : f[x] \in Int /\ e[x] \in Int /\ f[x] <= e[x]
  PROVE  SumFunctionOnSet(f, S) <= SumFunctionOnSet(e, S)
<1> DEFINE Good == {T \in SUBSET S : SumFunctionOnSet(f, T) <= SumFunctionOnSet(e, T)}
<1>1. ASSUME NEW T \in SUBSET S, \A U \in SUBSET T : U # T => U \in Good
      PROVE  T \in Good
  <2>1. CASE T = {} BY <2>1, SumEmpty
  <2>2. CASE T # {}
    <3> DEFINE x == ChosenIn(T)
               U == T \ {x}
    <3>1. x \in T /\ U \in SUBSET T /\ U # T /\ IsFiniteSet(T) /\ IsFiniteSet(U)
      BY <2>2, ChosenIsIn, FS_Subset
    <3>2. SumFunctionOnSet(f, U) <= SumFunctionOnSet(e, U) BY <3>1, <1>1
    <3>3. SumFunctionOnSet(f, U) \in Int /\ SumFunctionOnSet(e, U) \in Int
      <4>1. \A y \in U : f[y] \in Int /\ e[y] \in Int OBVIOUS
      <4> HIDE DEF U
      <4> QED BY <3>1, <4>1, SumInt
    <3>4. f[x] \in Int /\ e[x] \in Int /\ f[x] <= e[x] BY <3>1
    <3>5. /\ SumFunctionOnSet(f, T) = f[x] + SumFunctionOnSet(f, U)
          /\ SumFunctionOnSet(e, T) = e[x] + SumFunctionOnSet(e, U)
      BY <3>1, <2>2, SumChosen
    <3> HIDE DEF x, U
    <3> QED BY <3>2, <3>3, <3>4, <3>5
  <2> QED BY <2>1, <2>2
<1>2. SUBSET S \subseteq Good
  <2> HIDE DEF Good
  <2> QED BY <1>1, SubsetsBySize
<1> QED BY <1>2

\* Summands that are at most two others have a sum that is at most theirs.
THEOREM SumBelowTwo ==
  ASSUME NEW S, IsFiniteSet(S), NEW f, NEW g, NEW h,
         \A x \in S : f[x] \in Int /\ g[x] \in Int /\ h[x] \in Int /\ f[x] <= g[x] + h[x]
  PROVE  SumFunctionOnSet(f, S) <= SumFunctionOnSet(g, S) + SumFunctionOnSet(h, S)
<1> DEFINE Good == {T \in SUBSET S : SumFunctionOnSet(f, T) <= SumFunctionOnSet(g, T) + SumFunctionOnSet(h, T)}
<1>1. ASSUME NEW T \in SUBSET S, \A U \in SUBSET T : U # T => U \in Good
      PROVE  T \in Good
  <2>1. CASE T = {}
    <3>1. SumFunctionOnSet(f, T) = 0 /\ SumFunctionOnSet(g, T) = 0 /\ SumFunctionOnSet(h, T) = 0
      BY <2>1, SumEmpty
    <3> QED BY <3>1
  <2>2. CASE T # {}
    <3> DEFINE x == ChosenIn(T)
               U == T \ {x}
    <3>1. x \in T /\ U \in SUBSET T /\ U # T /\ IsFiniteSet(T) /\ IsFiniteSet(U)
      BY <2>2, ChosenIsIn, FS_Subset
    <3>2. SumFunctionOnSet(f, U) <= SumFunctionOnSet(g, U) + SumFunctionOnSet(h, U) BY <3>1, <1>1
    <3>3. /\ SumFunctionOnSet(f, U) \in Int
          /\ SumFunctionOnSet(g, U) \in Int
          /\ SumFunctionOnSet(h, U) \in Int
      <4>1. \A y \in U : f[y] \in Int /\ g[y] \in Int /\ h[y] \in Int OBVIOUS
      <4> HIDE DEF U
      <4> QED BY <3>1, <4>1, SumInt
    <3>4. f[x] \in Int /\ g[x] \in Int /\ h[x] \in Int /\ f[x] <= g[x] + h[x] BY <3>1
    <3>5. /\ SumFunctionOnSet(f, T) = f[x] + SumFunctionOnSet(f, U)
          /\ SumFunctionOnSet(g, T) = g[x] + SumFunctionOnSet(g, U)
          /\ SumFunctionOnSet(h, T) = h[x] + SumFunctionOnSet(h, U)
      BY <3>1, <2>2, SumChosen
    <3> HIDE DEF x, U
    <3> QED BY <3>2, <3>3, <3>4, <3>5
  <2> QED BY <2>1, <2>2
<1>2. S \in Good
  <2> HIDE DEF Good
  <2> QED BY <1>1, SubsetsBySize
<1> QED BY <1>2

\* Natural numbers add up to one.
LEMMA SumNat ==
  ASSUME NEW f, NEW S, IsFiniteSet(S), \A x \in S : f[x] \in Nat
  PROVE  SumFunctionOnSet(f, S) \in Nat
<1> DEFINE Good == {T \in SUBSET S : SumFunctionOnSet(f, T) \in Nat}
<1>1. ASSUME NEW T \in SUBSET S, \A U \in SUBSET T : U # T => U \in Good
      PROVE  T \in Good
  <2>1. CASE T = {} BY <2>1, SumEmpty
  <2>2. CASE T # {}
    <3>1. /\ ChosenIn(T) \in T /\ T \ {ChosenIn(T)} \in SUBSET T /\ T \ {ChosenIn(T)} # T
          /\ IsFiniteSet(T)
      BY <2>2, ChosenIsIn, FS_Subset
    <3>2. SumFunctionOnSet(f, T \ {ChosenIn(T)}) \in Nat BY <3>1, <1>1
    <3>3. f[ChosenIn(T)] \in Nat BY <3>1
    <3>4. SumFunctionOnSet(f, T) = f[ChosenIn(T)] + SumFunctionOnSet(f, T \ {ChosenIn(T)})
      BY <3>1, <2>2, SumChosen
    <3> QED BY <3>2, <3>3, <3>4
  <2> QED BY <2>1, <2>2
<1>2. SUBSET S \subseteq Good
  <2> HIDE DEF Good
  <2> QED BY <1>1, SubsetsBySize
<1> QED BY <1>2

\* What is left out counts nothing.
THEOREM SumExtend ==
  ASSUME NEW f, NEW T, IsFiniteSet(T), NEW S \in SUBSET T,
         \A x \in S : f[x] \in Int, \A x \in T \ S : f[x] = 0
  PROVE  SumFunctionOnSet(f, T) = SumFunctionOnSet(f, S)
<1> DEFINE Rest == T \ S
           Good == {U \in SUBSET Rest : SumFunctionOnSet(f, S \cup U) = SumFunctionOnSet(f, S)}
<1>1. ASSUME NEW U \in SUBSET Rest, \A V \in SUBSET U : V # U => V \in Good
      PROVE  U \in Good
  <2>1. CASE U = {} BY <2>1
  <2>2. CASE U # {}
    <3> DEFINE x == ChosenIn(U)
               V == U \ {x}
    <3>1. x \in U /\ V \in SUBSET U /\ V # U BY <2>2, ChosenIsIn
    <3>2. SumFunctionOnSet(f, S \cup V) = SumFunctionOnSet(f, S) BY <3>1, <1>1
    <3>3. /\ IsFiniteSet(S \cup V) /\ x \notin S \cup V /\ S \cup U = (S \cup V) \cup {x}
          /\ \A y \in (S \cup V) \cup {x} : f[y] \in Int
      <4>1. S \cup V \in SUBSET T BY <3>1
      <4>2. IsFiniteSet(S \cup V) BY <4>1, FS_Subset
      <4> QED BY <3>1, <4>2
    <3>4. f[x] = 0 /\ SumFunctionOnSet(f, S) \in Int
      <4>1. IsFiniteSet(S) BY FS_Subset
      <4> QED BY <3>1, <4>1, SumInt
    <3> HIDE DEF x, V
    <3>5. SumFunctionOnSet(f, S \cup U) = f[x] + SumFunctionOnSet(f, S \cup V)
      BY <3>3, SumAdd
    <3> QED BY <3>2, <3>4, <3>5
  <2> QED BY <2>1, <2>2
<1>2. SUBSET Rest \subseteq Good
  <2>1. IsFiniteSet(Rest) BY FS_Subset
  <2> HIDE DEF Good, Rest
  <2> QED BY <1>1, <2>1, SubsetsBySize
<1>3. Rest \in Good
  <2> HIDE DEF Good
  <2> QED BY <1>2
<1>4. \A U \in Good : SumFunctionOnSet(f, S \cup U) = SumFunctionOnSet(f, S) OBVIOUS
<1>5. S \cup Rest = T OBVIOUS
<1> HIDE DEF Good, Rest
<1> QED BY <1>3, <1>4, <1>5
=============================================================================
