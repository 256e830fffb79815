---------------------------- MODULE StrategyProofs -----------------------------
(* Proofs about the evening loop (SessionPlan) and the strategy desk           *)
(* (StrategyDesk) of engine/intelligence.py.  Both rewrite tables by sequences *)
(* of commits; their invariants say what the commits still to be made add up   *)
(* to, so that a crash between any two is covered.                             *)
EXTENDS SessionPlan, StrategyDesk, SumTheorems, FiniteSetTheorems, TLAPS

\* The elements that come before one in an order given as a set of pairs.
Before(S, R, i) == {j \in S : << j, i >> \in R}

\* In a strict total order on a finite set the number of elements before one is its
\* place: places grow with the order and each is taken.
LEMMA PlacesEnumerate ==
  ASSUME NEW S, IsFiniteSet(S), NEW R,
         \A i \in S : << i, i >> \notin R,
         \A i, j \in S : i # j => << i, j >> \in R \/ << j, i >> \in R,
         \A i, j, k \in S : << i, j >> \in R /\ << j, k >> \in R => << i, k >> \in R
  PROVE  /\ Cardinality(S) \in Nat
         /\ \A i \in S : Cardinality(Before(S, R, i)) \in 0..(Cardinality(S) - 1)
         /\ \A i, j \in S : << i, j >> \in R => Cardinality(Before(S, R, i)) < Cardinality(Before(S, R, j))
         /\ \A r \in 0..(Cardinality(S) - 1) : \E i \in S : Cardinality(Before(S, R, i)) = r
<1> DEFINE Place(i) == Cardinality(Before(S, R, i))
           n == Cardinality(S)
           Places == 0..(n - 1)
           f == [i \in S |-> Place(i)]
<1>1. n \in Nat BY FS_CardinalityType
<1>2. \A i \in S : IsFiniteSet(Before(S, R, i)) /\ Place(i) \in Nat
  <2>1. \A i \in S : Before(S, R, i) \in SUBSET S BY DEF Before
  <2> QED BY <2>1, FS_Subset, FS_CardinalityType
<1>3. ASSUME NEW i \in S PROVE Place(i) < n
  <2>1. Before(S, R, i) \in SUBSET S /\ Before(S, R, i) # S BY DEF Before
  <2>2. Place(i) <= n /\ Place(i) # n BY <2>1, FS_Subset
  <2> QED BY <1>1, <1>2, <2>2
<1>4. ASSUME NEW i \in S, NEW j \in S, << i, j >> \in R PROVE Place(i) < Place(j)
  <2>1. Before(S, R, i) \in SUBSET Before(S, R, j) /\ Before(S, R, i) # Before(S, R, j)
    BY <1>4 DEF Before
  <2>2. Place(i) <= Place(j) /\ Place(i) # Place(j) BY <1>2, <2>1, FS_Subset
  <2> QED BY <1>2, <2>2
<1>5. f \in Injection(S, Places)
  <2>1. \A i, j \in S : Place(i) = Place(j) => i = j
    <3> SUFFICES ASSUME NEW i \in S, NEW j \in S, Place(i) = Place(j), i # j PROVE FALSE OBVIOUS
    <3>1. Place(i) < Place(j) \/ Place(j) < Place(i) BY <1>4
    <3> QED BY <1>2, <3>1
  <2>2. \A i \in S : Place(i) \in Places BY <1>1, <1>2, <1>3
  <2> HIDE DEF Place, Places
  <2> QED BY <2>1, <2>2 DEF Injection, IsInjective
<1>6. IsFiniteSet(Places) /\ Cardinality(Places) = n
  <2>1. n - 1 \in Int /\ 0 \in Int BY <1>1
  <2>2. Cardinality(Places) = IF 0 > n - 1 THEN 0 ELSE (n - 1) - 0 + 1 BY <2>1, FS_Interval
  <2> QED BY <1>1, <2>1, <2>2, FS_Interval
<1>7. f \in Surjection(S, Places) 
  <2> HIDE DEF f, Places
  <2> QED BY <1>5, <1>6, FS_Injection
<1>8. \A r \in Places : \E i \in S : Place(i) = r
  <2> HIDE DEF Place, Places
  <2> QED BY <1>7 DEF Surjection
<1> QED BY <1>1, <1>2, <1>3, <1>4, <1>8

\* Numbers of a finite set, ascending: each is met once.
LEMMA AscendingIs ==
  ASSUME NEW S \in SUBSET Int, IsFiniteSet(S)
  PROVE  /\ Cardinality(S) \in Nat
         /\ \A r \in 1..Cardinality(S) : Ascending(S)[r] \in S
         /\ \A i \in S : \E r \in 1..Cardinality(S) : Ascending(S)[r] = i
<1> DEFINE R == {p \in S \X S : p[1] < p[2]}
           n == Cardinality(S)
           Place(i) == Cardinality({j \in S : j < i})
<1>1. \A i \in S : Before(S, R, i) = {j \in S : j < i} BY DEF Before
<1>2. /\ n \in Nat
      /\ \A i \in S : Place(i) \in 0..(n - 1)
      /\ \A i, j \in S : i < j => Place(i) < Place(j)
      /\ \A r \in 0..(n - 1) : \E i \in S : Place(i) = r
  <2>1. /\ \A i \in S : << i, i >> \notin R
        /\ \A i, j \in S : i # j => << i, j >> \in R \/ << j, i >> \in R
        /\ \A i, j, k \in S : << i, j >> \in R /\ << j, k >> \in R => << i, k >> \in R
    OBVIOUS
  <2>2. \A i, j \in S : i < j <=> << i, j >> \in R OBVIOUS
  <2>3. /\ n \in Nat
        /\ \A i \in S : Cardinality(Before(S, R, i)) \in 0..(n - 1)
        /\ \A i, j \in S : << i, j >> \in R => Cardinality(Before(S, R, i)) < Cardinality(Before(S, R, j))
        /\ \A r \in 0..(n - 1) : \E i \in S : Cardinality(Before(S, R, i)) = r
    <3> HIDE DEF R
    <3> QED BY <2>1, PlacesEnumerate
  <2>4. \A i \in S : Place(i) = Cardinality(Before(S, R, i)) BY <1>1
  <2> HIDE DEF R, Place, n
  <2>5. \A i \in S : Place(i) \in 0..(n - 1) BY <2>3, <2>4
  <2>6. ASSUME NEW i \in S, NEW j \in S, i < j PROVE Place(i) < Place(j)
    <3>1. << i, j >> \in R BY <2>2, <2>6
    <3>2. Cardinality(Before(S, R, i)) < Cardinality(Before(S, R, j)) BY <2>3, <3>1
    <3> QED BY <2>4, <3>2
  <2>7. \A r \in 0..(n - 1) : \E i \in S : Place(i) = r BY <2>3, <2>4
  <2> QED BY <2>3, <2>5, <2>6, <2>7
<1>3. \A r \in 1..n : Ascending(S)[r] = CHOOSE i \in S : Place(i) = r - 1 BY DEF Ascending
<1> HIDE DEF Place, R
<1>4. \A r \in 1..n : Ascending(S)[r] \in S /\ Place(Ascending(S)[r]) = r - 1
  <2> SUFFICES ASSUME NEW r \in 1..n PROVE Ascending(S)[r] \in S /\ Place(Ascending(S)[r]) = r - 1
    OBVIOUS
  <2>1. r - 1 \in 0..(n - 1) BY <1>2
  <2>2. \E i \in S : Place(i) = r - 1 BY <1>2, <2>1
  <2> QED BY <1>3, <2>2
<1>5. ASSUME NEW i \in S PROVE \E r \in 1..n : Ascending(S)[r] = i
  <2>1. PICK r \in 1..n : r - 1 = Place(i)
    <3>1. Place(i) \in 0..(n - 1) BY <1>2
    <3>2. Place(i) + 1 \in 1..n /\ (Place(i) + 1) - 1 = Place(i) BY <1>2, <3>1
    <3> QED BY <3>2
  <2>2. PICK j \in S : j = Ascending(S)[r] /\ Place(j) = r - 1 BY <1>4
  <2>3. ~(i < j) /\ ~(j < i) BY <1>2, <2>1, <2>2
  <2> QED BY <2>2, <2>3
<1> QED BY <1>2, <1>4, <1>5

\* What is picked of a list are the elements at the chosen places, and no others.
LEMMA PickedIs ==
  ASSUME NEW A, NEW list \in Seq(A), NEW S \in SUBSET DOMAIN list
  PROVE  /\ Picked(list, S) \in Seq(A)
         /\ DOMAIN Picked(list, S) = 1..Len(Picked(list, S))
         /\ \A r \in DOMAIN Picked(list, S) : \E i \in S : Picked(list, S)[r] = list[i]
         /\ \A i \in S : \E r \in DOMAIN Picked(list, S) : Picked(list, S)[r] = list[i]
<1>1. DOMAIN list = 1..Len(list) /\ Len(list) \in Nat OBVIOUS
<1>2. IsFiniteSet(1..Len(list)) BY <1>1, FS_Interval
<1>3. S \in SUBSET Int /\ IsFiniteSet(S) BY <1>1, <1>2, FS_Subset
<1>4. /\ Cardinality(S) \in Nat
      /\ \A r \in 1..Cardinality(S) : Ascending(S)[r] \in S
      /\ \A i \in S : \E r \in 1..Cardinality(S) : Ascending(S)[r] = i
  BY <1>3, AscendingIs
<1>5. PICK n \in Nat : n = Cardinality(S) BY <1>4
<1>6. PICK up : up = Ascending(S) OBVIOUS
<1>7. Picked(list, S) = [r \in 1..n |-> list[up[r]]] BY <1>5, <1>6 DEF Picked
<1>8. \A r \in 1..n : up[r] \in S BY <1>4, <1>5, <1>6
<1>9. \A i \in S : \E r \in 1..n : up[r] = i BY <1>4, <1>5, <1>6
<1>10. [r \in 1..n |-> list[up[r]]] \in Seq(A)
  <2>1. \A r \in 1..n : list[up[r]] \in A BY <1>8
  <2> QED BY <2>1
<1>11. PICK p : p = Picked(list, S) OBVIOUS
<1>12. p = [r \in 1..n |-> list[up[r]]] /\ p \in Seq(A) BY <1>7, <1>10, <1>11
<1>13. DOMAIN p = 1..n /\ \A r \in 1..n : p[r] = list[up[r]] BY <1>12
<1>14. DOMAIN p = 1..Len(p) BY <1>12
<1>15. \A r \in DOMAIN p : \E i \in S : p[r] = list[i] BY <1>8, <1>13
<1>16. \A i \in S : \E r \in DOMAIN p : p[r] = list[i] BY <1>9, <1>13
<1> QED BY <1>11, <1>12, <1>14, <1>15, <1>16
-------------------------------------------------------------------------------
(* Queues of commits.                                                          *)

Members(s) == {s[k] : k \in DOMAIN s}
IsQueue(s) == s \in Seq(Members(s))

\* A sequence of anything is a queue, numbered from one.
LEMMA QueueOf ==
  ASSUME NEW A, NEW s \in Seq(A)
  PROVE  IsQueue(s) /\ DOMAIN s = 1..Len(s)
<1>1. DOMAIN s = 1..Len(s) /\ Len(s) \in Nat OBVIOUS
<1>2. s = [k \in 1..Len(s) |-> s[k]] OBVIOUS
<1>3. \A k \in 1..Len(s) : s[k] \in Members(s) BY <1>1 DEF Members
<1>4. s \in [1..Len(s) -> Members(s)] BY <1>2, <1>3
<1>5. s \in Seq(Members(s)) BY <1>1, <1>4
<1> QED BY <1>1, <1>5 DEF IsQueue

\* The rest of a queue: every commit moves one place up.
LEMMA QueueTail ==
  ASSUME NEW s, IsQueue(s), s # << >>
  PROVE  /\ IsQueue(Tail(s)) /\ Head(s) = s[1] /\ 1 \in DOMAIN s
         /\ \A k \in DOMAIN Tail(s) : k + 1 \in DOMAIN s /\ Tail(s)[k] = s[k + 1] /\ k \in Nat
         /\ \A k \in DOMAIN s : k # 1 => k - 1 \in DOMAIN Tail(s) /\ Tail(s)[k - 1] = s[k] /\ k \in Nat
<1>1. PICK A : A = Members(s) OBVIOUS
<1>2. s \in Seq(A) BY <1>1 DEF IsQueue
<1>3. Tail(s) \in Seq(A) BY <1>2
<1>4. /\ DOMAIN s = 1..Len(s) /\ Len(s) \in Nat /\ Len(s) # 0
      /\ DOMAIN Tail(s) = 1..(Len(s) - 1)
      /\ \A k \in 1..(Len(s) - 1) : Tail(s)[k] = s[k + 1]
  BY <1>2
<1>5. Head(s) = s[1] BY <1>2
<1>6. IsQueue(Tail(s)) BY <1>3, QueueOf
<1> QED BY <1>4, <1>5, <1>6

\* Two queues after one another: the places of the first stay, those of the
\* second come after.
LEMMA QueueConcat ==
  ASSUME NEW s, IsQueue(s), NEW t, IsQueue(t)
  PROVE  /\ IsQueue(s \o t)
         /\ \A k \in DOMAIN (s \o t) :
              \/ k \in DOMAIN s /\ (s \o t)[k] = s[k]
              \/ \E j \in DOMAIN t : k = Len(s) + j /\ (s \o t)[k] = t[j]
         /\ \A k \in DOMAIN s : k \in DOMAIN (s \o t) /\ (s \o t)[k] = s[k] /\ k <= Len(s) /\ k \in Nat
         /\ \A j \in DOMAIN t : Len(s) + j \in DOMAIN (s \o t) /\ (s \o t)[Len(s) + j] = t[j]
         /\ Len(s) \in Nat /\ DOMAIN t \subseteq Nat \ {0}
<1>1. PICK A : A = Members(s) \cup Members(t) OBVIOUS
<1>2. s \in Seq(A) /\ t \in Seq(A)
  <2>1. \A B : B \subseteq A => Seq(B) \subseteq Seq(A) OBVIOUS
  <2> QED BY <1>1, <2>1 DEF IsQueue
<1>3. s \o t \in Seq(A) BY <1>2
<1>4. /\ DOMAIN s = 1..Len(s) /\ Len(s) \in Nat /\ DOMAIN t = 1..Len(t) /\ Len(t) \in Nat
      /\ DOMAIN (s \o t) = 1..(Len(s) + Len(t))
      /\ \A k \in 1..(Len(s) + Len(t)) : (s \o t)[k] = IF k <= Len(s) THEN s[k] ELSE t[k - Len(s)]
  BY <1>2
<1>5. IsQueue(s \o t) BY <1>3, QueueOf
<1>6. ASSUME NEW k \in DOMAIN (s \o t)
      PROVE  \/ k \in DOMAIN s /\ (s \o t)[k] = s[k]
             \/ \E j \in DOMAIN t : k = Len(s) + j /\ (s \o t)[k] = t[j]
  <2>1. CASE k <= Len(s) BY <1>4, <1>6, <2>1
  <2>2. CASE k > Len(s)
    <3>1. k - Len(s) \in DOMAIN t /\ k = Len(s) + (k - Len(s)) /\ (s \o t)[k] = t[k - Len(s)]
      BY <1>4, <1>6, <2>2
    <3> QED BY <3>1
  <2> QED BY <1>4, <2>1, <2>2
<1>7. \A j \in DOMAIN t : Len(s) + j \in DOMAIN (s \o t) /\ (s \o t)[Len(s) + j] = t[j]
  <2> SUFFICES ASSUME NEW j \in DOMAIN t
      PROVE Len(s) + j \in DOMAIN (s \o t) /\ (s \o t)[Len(s) + j] = t[j]
    OBVIOUS
  <2>1. Len(s) + j \in 1..(Len(s) + Len(t)) /\ ~(Len(s) + j <= Len(s)) /\ (Len(s) + j) - Len(s) = j
    BY <1>4
  <2> QED BY <1>4, <2>1
<1>8. \A k \in DOMAIN s : k \in DOMAIN (s \o t) /\ (s \o t)[k] = s[k] /\ k <= Len(s) /\ k \in Nat
  BY <1>4
<1> QED BY <1>4, <1>5, <1>6, <1>7, <1>8

\* What two queues hold together.
LEMMA QueueMembers ==
  ASSUME NEW s, IsQueue(s), NEW t, IsQueue(t)
  PROVE  \A k \in DOMAIN (s \o t) : (s \o t)[k] \in Members(s) \cup Members(t)
<1>1. PICK A : A = Members(s) \cup Members(t) OBVIOUS
<1>2. s \in Seq(A) /\ t \in Seq(A)
  <2>1. \A B : B \subseteq A => Seq(B) \subseteq Seq(A) OBVIOUS
  <2> QED BY <1>1, <2>1 DEF IsQueue
<1>3. s \o t \in Seq(A) BY <1>2
<1> QED BY <1>1, <1>3

\* A function on the first n places is a queue.
LEMMA QueueBuilt ==
  ASSUME NEW n \in Nat, NEW f, f = [i \in 1..n |-> f[i]]
  PROVE  IsQueue(f) /\ DOMAIN f = 1..n
<1>1. PICK A : A = {f[i] : i \in 1..n} OBVIOUS
<1>2. f \in [1..n -> A] BY <1>1
<1>3. f \in Seq(A) BY <1>2
<1>4. DOMAIN f = 1..n BY <1>2
<1> QED BY <1>3, <1>4, QueueOf

-------------------------------------------------------------------------------
(* Numbers.                                                                    *)

\* A non-empty finite set of integers has a greatest element, which Max chooses.
LEMMA MaxIs ==
  ASSUME NEW S \in SUBSET Int, IsFiniteSet(S), S # {}
  PROVE  Max(S) \in S /\ \A x \in S : x <= Max(S)
<1> DEFINE R == {p \in S \X S : p[1] < p[2]}
           n == Cardinality(S)
<1>1. /\ \A i \in S : << i, i >> \notin R
      /\ \A i, j \in S : i # j => << i, j >> \in R \/ << j, i >> \in R
      /\ \A i, j, k \in S : << i, j >> \in R /\ << j, k >> \in R => << i, k >> \in R
  OBVIOUS
<1>2. \A i, j \in S : << i, j >> \in R => i < j OBVIOUS
<1>3. \A i \in S : Before(S, R, i) \in SUBSET S BY DEF Before
<1> HIDE DEF R
<1>4. /\ n \in Nat
      /\ \A r \in 0..(n - 1) : \E i \in S : Cardinality(Before(S, R, i)) = r
  BY <1>1, PlacesEnumerate
<1>5. n # 0 BY FS_EmptySet
<1>6. PICK m \in S : Cardinality(Before(S, R, m)) = n - 1
  <2>1. n - 1 \in 0..(n - 1) BY <1>4, <1>5
  <2> QED BY <1>4, <2>1
<1>7. ASSUME NEW x \in S PROVE x <= m
  <2>1. S \ {m} = Before(S, R, m)
    <3>1. Before(S, R, m) \in SUBSET (S \ {m}) BY <1>1 DEF Before
    <3>2. IsFiniteSet(S \ {m}) /\ Cardinality(S \ {m}) = n - 1 BY FS_RemoveElement
    <3> QED BY <1>6, <3>1, <3>2, FS_Subset
  <2>2. x = m \/ << x, m >> \in R BY <2>1 DEF Before
  <2> QED BY <1>2, <2>2
<1>8. \E x \in S : \A y \in S : x >= y BY <1>7
<1>9. Max(S) \in S /\ \A y \in S : Max(S) >= y BY <1>8 DEF Max
<1> QED BY <1>9

\* A non-empty set of naturals has a least element, which Min chooses.
LEMMA MinIs ==
  ASSUME NEW S \in SUBSET Nat, S # {}
  PROVE  Min(S) \in S
<1>1. \E x \in S : \A y \in S : x <= y BY LeastNatural
<1> QED BY <1>1 DEF Min
-------------------------------------------------------------------------------
(* The learning loop.                                                          *)

Symptom == Nat \X Int \X Nat
Incident == [id: Nat, symptom: Symptom, status: {"OPEN", "RESOLVED"}]
Register == [torn: BOOLEAN, incidents: Seq(Incident)]
Causes ==
  { Cause("exit/thesis-failure handling", 25), Cause("late entry", 20),
    Cause("market/sector misalignment", 18), Cause("overextension/chasing", 20),
    Cause("weak volume quality", 15), Cause("wrong strategy template", 20),
    Cause("SL/target issue", 15), Cause("stock selection", 15) }
LessonRow == [symbol: Stocks, cause: Causes]

UniqueIn(incidents) ==
  \A i, j \in DOMAIN incidents : i # j =>
    /\ incidents[i].id # incidents[j].id
    /\ ~(/\ incidents[i].symptom = incidents[j].symptom
         /\ incidents[i].status = "OPEN" /\ incidents[j].status = "OPEN")

\* The next number is above every number in the register.
LEMMA NextNumberIs ==
  ASSUME NEW incidents \in Seq(Incident)
  PROVE  /\ NextNumber(incidents) \in Nat
         /\ \A i \in DOMAIN incidents : incidents[i].id < NextNumber(incidents)
<1> DEFINE S == {0} \cup {incidents[i].id : i \in DOMAIN incidents}
<1>1. DOMAIN incidents = 1..Len(incidents) /\ Len(incidents) \in Nat OBVIOUS
<1>2. \A i \in DOMAIN incidents : incidents[i].id \in Nat
  <2>1. \A i \in DOMAIN incidents : incidents[i] \in Incident OBVIOUS
  <2> QED BY <2>1 DEF Incident
<1>3. S \in SUBSET Nat /\ S \in SUBSET Int /\ S # {} BY <1>2
<1>4. IsFiniteSet(S)
  <2> DEFINE f == [i \in 1..Len(incidents) |-> incidents[i].id]
             T == {incidents[i].id : i \in DOMAIN incidents}
  <2>1. f \in Surjection(1..Len(incidents), T) BY <1>1 DEF Surjection
  <2>2. IsFiniteSet(1..Len(incidents)) BY <1>1, FS_Interval
  <2>3. IsFiniteSet(T)
    <3> HIDE DEF f, T
    <3> QED BY <2>1, <2>2, FS_Surjection
  <2>4. S = T \cup {0} OBVIOUS
  <2> HIDE DEF T, S
  <2> QED BY <2>3, <2>4, FS_AddElement
<1>5. NextNumber(incidents) = 1 + Max(S) BY DEF NextNumber
<1>6. \A i \in DOMAIN incidents : incidents[i].id \in S OBVIOUS
<1> HIDE DEF S
<1>7. Max(S) \in S /\ \A x \in S : x <= Max(S) BY <1>3, <1>4, MaxIs
<1>8. Max(S) \in Nat BY <1>3, <1>7
<1> QED BY <1>2, <1>5, <1>6, <1>7, <1>8

\* The symptom entered in the register is new among the open ones.
LEMMA AppendedKeepsRegister ==
  ASSUME NEW file \in Register, UniqueIn(file.incidents), NEW symptom \in Symptom
  PROVE  Appended(file, symptom) \in Register /\ UniqueIn(Appended(file, symptom).incidents)
<1>1. CASE file.torn \/ Known(file.incidents, symptom) BY <1>1 DEF Appended
<1>2. CASE ~(file.torn \/ Known(file.incidents, symptom))
  <2>1. PICK old, row : /\ old = file.incidents
                        /\ row = [id |-> NextNumber(old), symptom |-> symptom, status |-> "OPEN"]
    OBVIOUS
  <2>2. old \in Seq(Incident) BY <2>1 DEF Register
  <2>3. NextNumber(old) \in Nat /\ \A i \in DOMAIN old : old[i].id < NextNumber(old)
    BY <2>2, NextNumberIs
  <2>4. row \in Incident /\ row.id = NextNumber(old) /\ row.symptom = symptom
    BY <2>1, <2>3 DEF Incident
  <2>5. PICK new : new = Append(old, row) OBVIOUS
  <2>6. /\ new \in Seq(Incident) /\ DOMAIN new = 1..(Len(old) + 1) /\ Len(old) \in Nat
        /\ new[Len(old) + 1] = row /\ DOMAIN old = 1..Len(old)
        /\ \A i \in 1..Len(old) : new[i] = old[i]
    BY <2>2, <2>4, <2>5
  <2>7. \A i \in 1..Len(old) : old[i].id \in Nat
    <3>1. \A i \in 1..Len(old) : old[i] \in Incident BY <2>2, <2>6
    <3> QED BY <3>1 DEF Incident
  <2>8. UniqueIn(new)
    <3>1. \A i \in 1..Len(old) :
            new[i].id # row.id /\ ~(new[i].symptom = row.symptom /\ new[i].status = "OPEN")
      BY <1>2, <2>1, <2>3, <2>4, <2>6, <2>7 DEF Known
    <3>2. \A i \in DOMAIN new : i = Len(old) + 1 \/ i \in 1..Len(old) BY <2>6
    <3>3. UniqueIn(old) BY <2>1
    <3> QED BY <2>6, <3>1, <3>2, <3>3 DEF UniqueIn
  <2>9. PICK out : out = Appended(file, symptom) OBVIOUS
  <2>10. out = [file EXCEPT !.incidents = new] 
    BY <1>2, <2>1, <2>5, <2>9 DEF Appended, Entered
  <2>11. out \in Register /\ out.incidents = new BY <2>6, <2>10 DEF Register
  <2> QED BY <2>8, <2>9, <2>11
<1> QED BY <1>1, <1>2

\* A resolved incident keeps its number.
LEMMA ResolvedKeepsRegister ==
  ASSUME NEW file \in Register, UniqueIn(file.incidents), NEW i \in DOMAIN file.incidents,
         NEW out, out = [file EXCEPT !.incidents[i].status = "RESOLVED"]
  PROVE  out \in Register /\ UniqueIn(out.incidents)
<1>1. PICK old, row : old = file.incidents /\ row = [old[i] EXCEPT !.status = "RESOLVED"] OBVIOUS
<1>2. old \in Seq(Incident) /\ i \in DOMAIN old BY <1>1 DEF Register
<1>3. old[i] \in Incident /\ DOMAIN old = 1..Len(old) /\ Len(old) \in Nat BY <1>2
<1>4. row \in Incident /\ row.id = old[i].id /\ row.status = "RESOLVED"
  BY <1>1, <1>3 DEF Incident
<1>5. PICK new : new = [old EXCEPT ![i] = row] OBVIOUS
<1>6. out = [file EXCEPT !.incidents = new] BY <1>1, <1>5 DEF Register
<1>7. /\ new \in Seq(Incident) /\ DOMAIN new = DOMAIN old
      /\ \A j \in DOMAIN new : new[j] = IF j = i THEN row ELSE old[j]
  BY <1>2, <1>4, <1>5
<1>8. out \in Register /\ out.incidents = new BY <1>6, <1>7 DEF Register
<1>9. UniqueIn(old) BY <1>1
<1>10. UniqueIn(new) BY <1>4, <1>7, <1>9 DEF UniqueIn
<1> QED BY <1>8, <1>10

-------------------------------------------------------------------------------
(* Evidence and lessons.                                                       *)

\* The three templates by place.
LEMMA TemplatesAre == DOMAIN Templates = 1..3
BY DEF Templates

Taught(s) == LessonsOf(s) # {}

\* A lesson costs its symbol points.
LEMMA LessonsCost ==
  ASSUME lessons \in Seq(LessonRow), NEW s, NEW live
  PROVE  /\ Adjustment(s, live) \in Int
         /\ Taught(s) /\ ~Overrides(live) => Adjustment(s, live) < 0
<1>1. CASE LessonsOf(s) = {} \/ Overrides(live) BY <1>1 DEF Adjustment, Taught
<1>2. CASE LessonsOf(s) # {} /\ ~Overrides(live)
  <2>1. DOMAIN lessons = 1..Len(lessons) /\ Len(lessons) \in Nat OBVIOUS
  <2>2. LessonsOf(s) \in SUBSET Nat /\ LessonsOf(s) \in SUBSET DOMAIN lessons
    BY <2>1 DEF LessonsOf
  <2>3. Min(LessonsOf(s)) \in DOMAIN lessons BY <1>2, <2>2, MinIs
  <2>4. FirstLesson(s) \in LessonRow BY <2>3 DEF FirstLesson
  <2>5. FirstLesson(s).cause.penalty \in Nat \ {0}
    <3>1. \A category, penalty : Cause(category, penalty).penalty = penalty BY DEF Cause
    <3>2. \A c \in Causes : \E category : \E p \in {25, 20, 18, 15} : c = Cause(category, p)
      BY Zenon DEF Causes
    <3>3. FirstLesson(s).cause \in Causes BY <2>4 DEF LessonRow
    <3> QED BY <3>1, <3>2, <3>3
  <2>6. Adjustment(s, live) = -10 * FirstLesson(s).cause.penalty BY <1>2 DEF Adjustment
  <2> QED BY <2>5, <2>6
<1> QED BY <1>1, <1>2

\* Every loser of a day costs its symbol a lesson.
LEMMA LessonIs ==
  ASSUME NEW t \in Losses
  PROVE  /\ Lesson(t) \in LessonRow /\ Lesson(t).symbol = t.symbol
         /\ t.pnl < 0 => Teaches(t)
<1>1. ClassifyTradeFailure(t) \in Causes BY DEF ClassifyTradeFailure, Causes
<1>2. t.symbol \in Stocks BY SessionPlanAssumption
<1> QED BY <1>1, <1>2 DEF Lesson, LessonRow, Teaches

EvidenceOK == evidence \in [Stocks -> [DOMAIN Templates -> EvidenceRow]]

\* What an evaluation of a symbol for a template holds.
LEMMA EvaluationIs ==
  ASSUME EvidenceOK, lessons \in Seq(LessonRow), NEW s \in Stocks, NEW n \in DOMAIN Templates, NEW live
  PROVE  LET e == Evaluation(s, n, live) IN
         /\ e.template = n /\ e.symbol = s /\ e.live = live
         /\ e.score = FinalScore(evidence[s][n], Adjustment(s, live)) /\ e.score \in Int
         /\ e.win \in Int /\ e.trade \in BOOLEAN
         /\ e.trade <=> IsTrade(s, evidence[s][n], live)
         /\ e.taught <=> s \in taught
<1>1. evidence[s][n] \in EvidenceRow BY DEF EvidenceOK
<1>2. Adjustment(s, live) \in Int BY LessonsCost
<1>3. FinalScore(evidence[s][n], Adjustment(s, live)) \in Int
  <2>1. PICK e, a : e = evidence[s][n] /\ a = Adjustment(s, live) OBVIOUS
  <2>2. e.win \in Nat /\ e.ratio \in Nat /\ e.drawdown \in Nat /\ a \in Int
    BY <1>1, <1>2, <2>1 DEF EvidenceRow
  <2>3. (4 * e.win) \div 10 \in Int /\ (3 * e.ratio) \div 2 \in Int /\ e.drawdown \div 5 \in Int
    BY <2>2
  <2>4. FinalScore(e, a) \in Int BY <2>2, <2>3 DEF FinalScore
  <2> QED BY <2>1, <2>4
<1>4. evidence[s][n].win \in Int BY <1>1 DEF EvidenceRow
<1>5. IsTrade(s, evidence[s][n], live) \in BOOLEAN BY DEF IsTrade
<1> QED BY <1>3, <1>4, <1>5 DEF Evaluation

\* The sort of a symbol's evaluations has a first.
LEMMA LockedIs ==
  ASSUME EvidenceOK, lessons \in Seq(LessonRow), NEW s \in Stocks, NEW live
  PROVE  \E n \in DOMAIN Templates :
           /\ Locked(s, live) = Evaluation(s, n, live)
           /\ \A k \in DOMAIN Templates :
                k # n => Better(Evaluation(s, n, live), Evaluation(s, k, live))
<1> DEFINE E(n) == Evaluation(s, n, live)
           S == {E(n) : n \in DOMAIN Templates}
           R == {p \in S \X S : Better(p[1], p[2])}
<1>1. \A n \in DOMAIN Templates :
        E(n).template = n /\ E(n).score \in Int /\ E(n).win \in Int /\ E(n).trade \in BOOLEAN
  BY EvaluationIs
<1>2. IsFiniteSet(S) /\ E(1) \in S
  <2>1. S = ({E(1)} \cup {E(2)}) \cup {E(3)} BY TemplatesAre
  <2>2. IsFiniteSet({E(1)}) BY FS_Singleton
  <2> HIDE DEF E, S
  <2>3. IsFiniteSet({E(1)} \cup {E(2)}) BY <2>2, FS_AddElement
  <2>4. IsFiniteSet(S) BY <2>1, <2>3, FS_AddElement
  <2> QED BY <2>1, <2>4
<1> DEFINE Rated(a) == a.template \in Int /\ a.score \in Int /\ a.win \in Int /\ a.trade \in BOOLEAN
<1>3. /\ \A a \in S : Rated(a)
      /\ \A a, b \in S : a.template = b.template => a = b
  <2> HIDE DEF E
  <2> QED BY <1>1, TemplatesAre
<1> HIDE DEF E
<1>4. /\ \A a \in S : ~Better(a, a)
      /\ \A a, b \in S : a # b => Better(a, b) \/ Better(b, a)
      /\ \A a, b, c \in S : Better(a, b) /\ Better(b, c) => Better(a, c)
  <2> HIDE DEF S
  <2>1. \A a \in S : ~Better(a, a) BY <1>3 DEF Better
  <2>2. ASSUME NEW a \in S, NEW b \in S, a # b PROVE Better(a, b) \/ Better(b, a)
    <3>1. Rated(a) /\ Rated(b) /\ a.template # b.template BY <1>3, <2>2
    <3> QED BY <3>1 DEF Better
  <2>3. ASSUME NEW a \in S, NEW b \in S, NEW c \in S, Better(a, b), Better(b, c) PROVE Better(a, c)
    <3>1. Rated(a) /\ Rated(b) /\ Rated(c) BY <1>3
    <3> QED BY <2>3, <3>1 DEF Better
  <2> QED BY <2>1, <2>2, <2>3
<1>5. \A a, b \in S : << a, b >> \in R <=> Better(a, b) OBVIOUS
<1>6. PICK m \in S : Cardinality(Before(S, R, m)) = 0
  <2>1. Cardinality(S) \in Nat /\ Cardinality(S) # 0 BY <1>2, FS_EmptySet, FS_CardinalityType
  <2>2. 0 \in 0..(Cardinality(S) - 1) BY <2>1
  <2> HIDE DEF R, S
  <2> QED BY <1>2, <1>4, <1>5, <2>2, PlacesEnumerate
<1>7. \A b \in S \ {m} : Better(m, b)
  <2>1. Before(S, R, m) \in SUBSET S BY DEF Before
  <2>2. IsFiniteSet(Before(S, R, m)) BY <1>2, <2>1, FS_Subset
  <2>3. Before(S, R, m) = {} BY <1>6, <2>2, FS_EmptySet
  <2> HIDE DEF R, S
  <2> QED BY <1>4, <1>5, <2>3 DEF Before
<1>8. Locked(s, live) = CHOOSE a \in S : \A b \in S \ {a} : Better(a, b)
  BY DEF Locked, E
<1>9. Locked(s, live) \in S /\ \A b \in S \ {Locked(s, live)} : Better(Locked(s, live), b)
  <2> HIDE DEF S
  <2> QED BY <1>7, <1>8
<1>10. PICK n \in DOMAIN Templates : Locked(s, live) = E(n) BY <1>9
<1>11. \A k \in DOMAIN Templates : k # n => E(k) \in S \ {E(n)} BY <1>1
<1> QED BY <1>9, <1>10, <1>11 DEF E
-------------------------------------------------------------------------------
(* The invariant of the loop.                                                  *)

Heeded(r) == r.trade /\ r.taught => r.live.adx >= 300 /\ r.live.rvol >= 250

CommitOK(c) ==
  /\ c.do = "lesson" => c.of \in LessonRow
  /\ c.do = "incident" => c.of \in Symptom
  /\ c.do = "plan" => Heeded(c.of)
  /\ c.do = "watch" => c.of \in Stocks

\* A review is remembered as complete once all its lessons are learnt: each is in
\* the table or in a commit that comes before.
LessonsComeFirst ==
  \A k \in DOMAIN agenda : agenda[k].do = "reviewed" =>
    \A s \in agenda[k].of :
      \/ Taught(s)
      \/ \E j \in DOMAIN agenda : j < k /\ agenda[j].do = "lesson" /\ agenda[j].of.symbol = s

Tables ==
  /\ day \in Nat /\ trades \in Seq(Losses)
  /\ lessons \in Seq(LessonRow) /\ EvidenceOK
  /\ watchlist \in Seq(Stocks)
  /\ register \in Register /\ UniqueIn(register.incidents)

PlanInv ==
  /\ Tables
  /\ \A s \in taught : Taught(s)
  /\ \A r \in plan : Heeded(r)
  /\ IsQueue(agenda)
  /\ \A k \in DOMAIN agenda : CommitOK(agenda[k])
  /\ LessonsComeFirst

\* A plan made now heeds what is taught now.
LEMMA LockedIsHeeded ==
  ASSUME Tables, \A s \in taught : Taught(s), NEW s \in Stocks, NEW live
  PROVE  Heeded(Locked(s, live))
<1>1. PICK n \in DOMAIN Templates : Locked(s, live) = Evaluation(s, n, live)
  BY LockedIs DEF Tables
<1>2. PICK r : r = Evaluation(s, n, live) OBVIOUS
<1>3. /\ r.live = live /\ (r.trade <=> IsTrade(s, evidence[s][n], live))
      /\ (r.taught <=> s \in taught)
  BY <1>2, EvaluationIs DEF Tables
<1>4. SUFFICES ASSUME r.trade, r.taught PROVE Overrides(live)
  BY <1>1, <1>2, <1>3 DEF Heeded, Overrides
<1>5. Taught(s) BY <1>3, <1>4
<1>6. Adjustment(s, live) >= 0 \/ Overrides(live) BY <1>3, <1>4 DEF IsTrade
<1>7. Adjustment(s, live) \in Int /\ (~Overrides(live) => Adjustment(s, live) < 0)
  BY <1>5, LessonsCost DEF Tables
<1> QED BY <1>6, <1>7

\* Every row of a shortlist heeds what has been taught.
LEMMA ShortlistIsHeeded ==
  ASSUME Tables, \A s \in taught : Taught(s), NEW symbols \in Seq(Stocks), NEW live
  PROVE  LET rows == Shortlist(symbols, live) IN
         /\ \E n \in Nat : DOMAIN rows = 1..n
         /\ \A i \in DOMAIN rows : Heeded(rows[i])
<1> DEFINE S == {i \in DOMAIN symbols : InFunnel(live[symbols[i]])}
<1>1. PICK passing : passing = Picked(symbols, S) OBVIOUS
<1>2. S \in SUBSET DOMAIN symbols OBVIOUS
<1>3. Shortlist(symbols, live) = [i \in DOMAIN passing |-> Locked(passing[i], live[passing[i]])]
  BY <1>1 DEF Shortlist
<1> HIDE DEF S
<1>4. passing \in Seq(Stocks) BY <1>1, <1>2, PickedIs
<1>5. DOMAIN passing = 1..Len(passing) /\ Len(passing) \in Nat BY <1>4
<1>6. \A i \in DOMAIN passing : passing[i] \in Stocks BY <1>4
<1>7. \A i \in DOMAIN passing : Heeded(Locked(passing[i], live[passing[i]]))
  BY <1>6, LockedIsHeeded
<1> QED BY <1>3, <1>5, <1>7

\* The first evidence of a queue's shape: what is wiped and written before a plan.
Harmless(q) ==
  /\ IsQueue(q)
  /\ \A k \in DOMAIN q :
       q[k].do \notin {"lesson", "incident", "plan", "reviewed"} /\ CommitOK(q[k])

\* The commits of a watchlist.
LEMMA WatchlistIsHarmless == Harmless(WatchlistCommits)
<1>1. DOMAIN Symbols = 1..Len(Symbols) /\ Len(Symbols) \in Nat BY SessionPlanAssumption
<1>2. PICK a, b, c, d :
        /\ a = << Do("wipeMap", 0) >> /\ b = [i \in DOMAIN Symbols |-> Do("map", MapRow(Symbols[i]))]
        /\ c = << Do("wipeWatchlist", 0) >> /\ d = [i \in DOMAIN Symbols |-> Do("watch", Symbols[i])]
  OBVIOUS
<1>3. Harmless(a) /\ Harmless(c)
  <2>1. a \in Seq({Do("wipeMap", 0)}) /\ c \in Seq({Do("wipeWatchlist", 0)}) BY <1>2
  <2>2. IsQueue(a) /\ IsQueue(c) BY <2>1, QueueOf
  <2>3. \A k \in DOMAIN a : a[k] = Do("wipeMap", 0) BY <1>2
  <2>4. \A k \in DOMAIN c : c[k] = Do("wipeWatchlist", 0) BY <1>2
  <2> QED BY <2>2, <2>3, <2>4 DEF Harmless, Do, CommitOK
<1>4. Harmless(b) /\ Harmless(d)
  <2>1. b = [i \in 1..Len(Symbols) |-> b[i]] /\ d = [i \in 1..Len(Symbols) |-> d[i]]
    BY <1>1, <1>2
  <2>2. IsQueue(b) /\ IsQueue(d) /\ DOMAIN b = DOMAIN Symbols /\ DOMAIN d = DOMAIN Symbols
    BY <1>1, <2>1, QueueBuilt
  <2>3. \A k \in DOMAIN b : b[k].do = "map" BY <1>2, <2>2 DEF Do
  <2>4. \A k \in DOMAIN d : d[k].do = "watch" /\ d[k].of \in Stocks
    BY <1>2, <2>2, SessionPlanAssumption DEF Do
  <2> QED BY <2>2, <2>3, <2>4 DEF Harmless, CommitOK
<1>5. \A p, q : Harmless(p) /\ Harmless(q) => Harmless(p \o q)
  <2> SUFFICES ASSUME NEW p, NEW q, Harmless(p), Harmless(q) PROVE Harmless(p \o q) OBVIOUS
  <2>1. IsQueue(p \o q) BY QueueConcat DEF Harmless
  <2>2. ASSUME NEW k \in DOMAIN (p \o q)
        PROVE  (p \o q)[k].do \notin {"lesson", "incident", "plan", "reviewed"} /\ CommitOK((p \o q)[k])
    <3>1. IsQueue(p) /\ IsQueue(q) BY DEF Harmless
    <3>2. (p \o q)[k] \in Members(p) \cup Members(q) BY <2>2, <3>1, QueueMembers
    <3>3. \A x \in Members(p) \cup Members(q) : 
            x.do \notin {"lesson", "incident", "plan", "reviewed"} /\ CommitOK(x)
      BY DEF Members, Harmless
    <3> QED BY <3>2, <3>3
  <2> QED BY <2>1, <2>2 DEF Harmless
<1>6. WatchlistCommits = ((a \o b) \o c) \o d BY <1>2 DEF WatchlistCommits
<1>7. Harmless(a \o b) BY <1>3, <1>4, <1>5
<1>8. Harmless((a \o b) \o c) BY <1>3, <1>5, <1>7
<1> QED BY <1>4, <1>5, <1>6, <1>8

\* A queue that plans: after what it wipes and writes come rows that heed.
LEMMA PlanningQueue ==
  ASSUME NEW q, Harmless(q), NEW rows, NEW n \in Nat, DOMAIN rows = 1..n,
         \A i \in DOMAIN rows : Heeded(rows[i])
  PROVE  \A w \in {SavePlanCommits(rows), q \o SavePlanCommits(rows)} :
           /\ IsQueue(w)
           /\ \A k \in DOMAIN w : CommitOK(w[k]) /\ w[k].do # "reviewed"
<1>1. PICK a, b : a = << Do("wipePlan", 0) >> /\ b = [i \in DOMAIN rows |-> Do("plan", rows[i])]
  OBVIOUS
<1>2. IsQueue(a) /\ \A k \in DOMAIN a : CommitOK(a[k]) /\ a[k].do # "reviewed"
  <2>1. a \in Seq({Do("wipePlan", 0)}) BY <1>1
  <2>2. \A k \in DOMAIN a : a[k] = Do("wipePlan", 0) BY <1>1
  <2> QED BY <2>1, <2>2, QueueOf DEF CommitOK, Do
<1>3. IsQueue(b) /\ \A k \in DOMAIN b : CommitOK(b[k]) /\ b[k].do # "reviewed"
  <2>1. b = [i \in 1..n |-> b[i]] BY <1>1
  <2>2. IsQueue(b) /\ DOMAIN b = 1..n BY <2>1, QueueBuilt
  <2>3. \A k \in DOMAIN b : b[k].do = "plan" /\ b[k].of = rows[k] BY <1>1, <2>2 DEF Do
  <2> QED BY <2>2, <2>3 DEF CommitOK
<1> DEFINE Fine(p) == IsQueue(p) /\ \A k \in DOMAIN p : CommitOK(p[k]) /\ p[k].do # "reviewed"
<1>4. ASSUME NEW p, NEW r, Fine(p), Fine(r) PROVE Fine(p \o r)
  <2>1. IsQueue(p \o r) BY <1>4, QueueConcat
  <2>2. ASSUME NEW k \in DOMAIN (p \o r) PROVE CommitOK((p \o r)[k]) /\ (p \o r)[k].do # "reviewed"
    <3>1. (p \o r)[k] \in Members(p) \cup Members(r) BY <1>4, <2>2, QueueMembers
    <3>2. \A x \in Members(p) \cup Members(r) : CommitOK(x) /\ x.do # "reviewed"
      BY <1>4 DEF Members
    <3> QED BY <3>1, <3>2
  <2> QED BY <2>1, <2>2
<1>5. Fine(q) BY DEF Harmless, CommitOK
<1>6. SavePlanCommits(rows) = a \o b BY <1>1 DEF SavePlanCommits
<1>7. Fine(a) /\ Fine(b) BY <1>2, <1>3
<1> HIDE DEF Fine
<1>8. Fine(a \o b) BY <1>4, <1>7
<1>9. Fine(q \o SavePlanCommits(rows)) BY <1>4, <1>5, <1>6, <1>8
<1> QED BY <1>6, <1>8, <1>9 DEF Fine
-------------------------------------------------------------------------------
(* The steps.                                                                  *)

\* The invariant of the loop holds at the start.
LEMMA InitPlan == PlanInit => PlanInv
<1> SUFFICES ASSUME PlanInit PROVE PlanInv OBVIOUS
<1>1. NoEvidence \in EvidenceRow BY DEF NoEvidence, EvidenceRow
<1>2. EvidenceOK BY <1>1 DEF PlanInit, EmptyEvidence, EvidenceOK
<1>3. PICK file : file = register OBVIOUS
<1>4. file = [torn |-> FALSE, incidents |-> << >>] BY <1>3 DEF PlanInit
<1>5. file \in Register /\ DOMAIN file.incidents = {} BY <1>4 DEF Register
<1>6. register \in Register /\ UniqueIn(register.incidents) BY <1>3, <1>5 DEF UniqueIn
<1>7. IsQueue(agenda) /\ DOMAIN agenda = {} BY DEF PlanInit, IsQueue
<1> QED BY <1>2, <1>6, <1>7 DEF PlanInv, PlanInit, Tables, LessonsComeFirst

\* A lesson learnt is never forgotten.
LEMMA LessonsStay ==
  ASSUME lessons \in Seq(LessonRow), NEW l \in LessonRow, lessons' = Append(lessons, l)
  PROVE  /\ lessons' \in Seq(LessonRow) /\ Taught(l.symbol)'
         /\ \A s : Taught(s) => Taught(s)'
<1>1. PICK old, new : old = lessons /\ new = lessons' OBVIOUS
<1>2. old \in Seq(LessonRow) /\ new = Append(old, l) BY <1>1
<1>3. /\ new \in Seq(LessonRow) /\ DOMAIN new = 1..(Len(old) + 1) /\ Len(old) \in Nat
      /\ new[Len(old) + 1] = l /\ DOMAIN old = 1..Len(old)
      /\ \A i \in DOMAIN old : i \in DOMAIN new /\ new[i] = old[i]
  BY <1>2
<1>4. Len(old) + 1 \in DOMAIN new BY <1>3
<1>5. Taught(l.symbol)' BY <1>1, <1>3, <1>4 DEF Taught, LessonsOf
<1>6. ASSUME NEW s, Taught(s) PROVE Taught(s)'
  <2>1. PICK i \in DOMAIN old : old[i].symbol = s BY <1>1, <1>6 DEF Taught, LessonsOf
  <2>2. i \in DOMAIN new /\ new[i].symbol = s BY <1>3, <2>1
  <2> QED BY <1>1, <2>2 DEF Taught, LessonsOf
<1> QED BY <1>1, <1>3, <1>5, <1>6

\* What an operation starts with keeps the invariant when its own commits do.
LEMMA StartKeeps ==
  ASSUME PlanInv, NEW q, Start(q), IsQueue(q), \A k \in DOMAIN q : CommitOK(q[k]),
         \A k \in DOMAIN q : q[k].do = "reviewed" =>
           \A s \in q[k].of :
             \E j \in DOMAIN q : j < k /\ q[j].do = "lesson" /\ q[j].of.symbol = s
  PROVE  PlanInv'
<1>1. agenda' = q /\ UNCHANGED << day, trades, lessons, register, evidence, watchlist, plan, taught >>
  BY DEF Start
<1>2. Tables' BY <1>1 DEF PlanInv, Tables, EvidenceOK
<1>3. \A s : Taught(s) => Taught(s)' BY <1>1 DEF Taught, LessonsOf
<1>4. \A s \in taught' : Taught(s)' BY <1>1, <1>3 DEF PlanInv
<1>5. \A r \in plan' : Heeded(r) BY <1>1 DEF PlanInv
<1>6. IsQueue(agenda)' /\ \A k \in DOMAIN agenda' : CommitOK(agenda'[k]) BY <1>1 DEF IsQueue, Members
<1>7. LessonsComeFirst' BY <1>1 DEF LessonsComeFirst
<1> QED BY <1>2, <1>4, <1>5, <1>6, <1>7 DEF PlanInv

\* A step that writes none of the loop's tables but the day's.
LEMMA QuietKeeps ==
  ASSUME PlanInv, Tables',
         UNCHANGED << lessons, taught >>, plan' \subseteq plan, agenda' \in {agenda, << >>}
  PROVE  PlanInv'
<1>1. \A s : Taught(s) => Taught(s)' BY DEF Taught, LessonsOf
<1>2. \A s \in taught' : Taught(s)' BY <1>1 DEF PlanInv
<1>3. \A r \in plan' : Heeded(r) BY DEF PlanInv
<1>4. IsQueue(agenda)' /\ (\A k \in DOMAIN agenda' : CommitOK(agenda'[k])) /\ LessonsComeFirst'
  <2>1. CASE agenda' = agenda BY <1>1, <2>1 DEF PlanInv, LessonsComeFirst, IsQueue, Members
  <2>2. CASE agenda' = << >>
    <3>1. DOMAIN agenda' = {} /\ IsQueue(agenda)' BY <2>2 DEF IsQueue
    <3> QED BY <3>1 DEF LessonsComeFirst
  <2> QED BY <2>1, <2>2
<1> QED BY <1>2, <1>3, <1>4 DEF PlanInv

\* A commit of the operation in progress (PlanCommit).
LEMMA CommitKeeps == PlanInv /\ PlanCommit => PlanInv'
<1> SUFFICES ASSUME PlanInv, PlanCommit PROVE PlanInv' OBVIOUS
<1>1. PICK q, c : q = agenda /\ c = Head(agenda) OBVIOUS
<1>2. /\ IsQueue(Tail(q)) /\ c = q[1] /\ 1 \in DOMAIN q
      /\ \A k \in DOMAIN Tail(q) : k + 1 \in DOMAIN q /\ Tail(q)[k] = q[k + 1] /\ k \in Nat
      /\ \A k \in DOMAIN q : k # 1 => k - 1 \in DOMAIN Tail(q) /\ Tail(q)[k - 1] = q[k] /\ k \in Nat
      /\ DOMAIN q \subseteq Nat \ {0}
  <2>1. IsQueue(q) /\ q # << >> BY <1>1 DEF PlanInv, PlanCommit
  <2>2. DOMAIN q = 1..Len(q) /\ Len(q) \in Nat
    <3>1. PICK A : A = Members(q) OBVIOUS
    <3>2. q \in Seq(A) BY <2>1, <3>1 DEF IsQueue
    <3> QED BY <3>2
  <2> QED BY <1>1, <2>1, <2>2, QueueTail
<1>3. /\ CommitOK(c) /\ \A k \in DOMAIN q : CommitOK(q[k])
      /\ agenda' = Tail(q) /\ UNCHANGED << day, trades, evidence >>
      /\ lessons'   = IF c.do = "lesson" THEN Append(lessons, c.of) ELSE lessons
      /\ register'  = IF c.do = "incident" THEN Appended(register, c.of) ELSE register
      /\ watchlist' = IF c.do = "wipeWatchlist" THEN << >>
                      ELSE IF c.do = "watch" THEN Append(watchlist, c.of) ELSE watchlist
      /\ plan'      = IF c.do = "wipePlan" THEN {}
                      ELSE IF c.do = "plan" THEN plan \cup {c.of} ELSE plan
      /\ taught'    = IF c.do = "reviewed" THEN taught \cup c.of ELSE taught
  BY <1>1, <1>2 DEF PlanInv, PlanCommit
<1>4. /\ lessons' \in Seq(LessonRow) /\ \A s : Taught(s) => Taught(s)'
      /\ c.do = "lesson" => Taught(c.of.symbol)'
  <2>1. CASE c.do = "lesson"
    <3>1. c.of \in LessonRow /\ lessons' = Append(lessons, c.of) BY <1>3, <2>1 DEF CommitOK
    <3>2. PICK l : l = c.of OBVIOUS
    <3> QED BY <3>1, <3>2, LessonsStay DEF PlanInv, Tables
  <2>2. CASE c.do # "lesson"
    <3>1. lessons' = lessons BY <1>3, <2>2
    <3> QED BY <2>2, <3>1 DEF PlanInv, Tables, Taught, LessonsOf
  <2> QED BY <2>1, <2>2
<1>5. Tables'
  <2>1. register' \in Register /\ UniqueIn(register'.incidents)
    <3>1. CASE c.do = "incident"
      <4>1. PICK file, symptom : file = register /\ symptom = c.of OBVIOUS
      <4>2. register' = Appended(file, symptom) /\ symptom \in Symptom
        BY <1>3, <3>1, <4>1 DEF CommitOK
      <4>3. file \in Register /\ UniqueIn(file.incidents) BY <4>1 DEF PlanInv, Tables
      <4> QED BY <4>2, <4>3, AppendedKeepsRegister
    <3>2. CASE c.do # "incident" BY <1>3, <3>2 DEF PlanInv, Tables
    <3> QED BY <3>1, <3>2
  <2>2. watchlist' \in Seq(Stocks)
    <3>1. CASE c.do = "watch"
      <4>1. PICK old, s : old = watchlist /\ s = c.of OBVIOUS
      <4>2. old \in Seq(Stocks) /\ s \in Stocks BY <1>3, <3>1, <4>1 DEF PlanInv, Tables, CommitOK
      <4>3. watchlist' = Append(old, s) BY <1>3, <3>1, <4>1
      <4> QED BY <4>2, <4>3
    <3>2. CASE c.do # "watch" BY <1>3, <3>2 DEF PlanInv, Tables
    <3> QED BY <3>1, <3>2
  <2>3. day' \in Nat /\ trades' \in Seq(Losses) /\ EvidenceOK'
    BY <1>3 DEF PlanInv, Tables, EvidenceOK
  <2> QED BY <1>4, <2>1, <2>2, <2>3 DEF Tables
<1>6. \A s \in taught' : Taught(s)'
  <2>1. \A s \in taught : Taught(s)' BY <1>4 DEF PlanInv
  <2>2. ASSUME c.do = "reviewed", NEW s \in c.of PROVE Taught(s)'
    <3>1. ~\E j \in DOMAIN q : j < 1 BY <1>2
    <3>2. Taught(s) BY <1>1, <1>2, <2>2, <3>1 DEF PlanInv, LessonsComeFirst
    <3> QED BY <1>4, <3>2
  <2> QED BY <1>3, <2>1, <2>2
<1>7. \A r \in plan' : Heeded(r) BY <1>3 DEF PlanInv, CommitOK
<1>8. IsQueue(agenda)'
  <2>1. IsQueue(agenda') BY <1>2, <1>3
  <2> QED BY <2>1 DEF IsQueue, Members
<1>9. \A k \in DOMAIN agenda' : CommitOK(agenda'[k]) BY <1>2, <1>3
<1>10. LessonsComeFirst'
  <2>1. SUFFICES ASSUME NEW k \in DOMAIN Tail(q), Tail(q)[k].do = "reviewed", NEW s \in Tail(q)[k].of
        PROVE  \/ Taught(s)'
               \/ \E j \in DOMAIN Tail(q) :
                    j < k /\ Tail(q)[j].do = "lesson" /\ Tail(q)[j].of.symbol = s
    BY <1>3 DEF LessonsComeFirst
  <2>2. k + 1 \in DOMAIN q /\ q[k + 1] = Tail(q)[k] /\ k \in Nat BY <1>2
  <2>3. \/ Taught(s)
        \/ \E j \in DOMAIN q : j < k + 1 /\ q[j].do = "lesson" /\ q[j].of.symbol = s
    BY <1>1, <2>1, <2>2 DEF PlanInv, LessonsComeFirst
  <2>4. CASE Taught(s) BY <1>4, <2>4
  <2>5. ASSUME NEW j \in DOMAIN q, j < k + 1, q[j].do = "lesson", q[j].of.symbol = s
        PROVE  \/ Taught(s)'
               \/ \E i \in DOMAIN Tail(q) :
                    i < k /\ Tail(q)[i].do = "lesson" /\ Tail(q)[i].of.symbol = s
    <3>1. CASE j = 1 BY <1>2, <1>4, <2>5, <3>1
    <3>2. CASE j # 1
      <4>1. j - 1 \in DOMAIN Tail(q) /\ Tail(q)[j - 1] = q[j] /\ j \in Nat BY <1>2, <3>2
      <4>2. j - 1 < k BY <2>2, <2>5, <4>1
      <4> QED BY <2>5, <4>1, <4>2
    <3> QED BY <3>1, <3>2
  <2> QED BY <2>3, <2>4, <2>5
<1> QED BY <1>5, <1>6, <1>7, <1>8, <1>9, <1>10 DEF PlanInv
-------------------------------------------------------------------------------
\* One commit.
LEMMA SingleQueue ==
  ASSUME NEW x
  PROVE  IsQueue(<< x >>) /\ DOMAIN << x >> = {1} /\ << x >>[1] = x
<1>1. << x >> \in Seq({x}) /\ Len(<< x >>) = 1 OBVIOUS
<1>2. IsQueue(<< x >>) /\ DOMAIN << x >> = 1..Len(<< x >>) BY <1>1, QueueOf
<1>3. DOMAIN << x >> = {1} BY <1>1, <1>2
<1>4. << x >>[1] = x OBVIOUS
<1> QED BY <1>2, <1>3, <1>4

\* No commit.
LEMMA EmptyQueue == IsQueue(<< >>) /\ DOMAIN << >> = {}
BY DEF IsQueue

\* The review of the day (RunEodForensicReview): the lessons of the losers come
\* before the commit that remembers the review.
LEMMA ReviewKeeps == PlanInv /\ RunEodForensicReview => PlanInv'
<1> SUFFICES ASSUME PlanInv, RunEodForensicReview PROVE PlanInv' OBVIOUS
<1> DEFINE S == {i \in DOMAIN trades : Teaches(trades[i])}
           F == [i \in DOMAIN trades |-> trades[i].pnl]
           X == {t.symbol : t \in {u \in ToSet(trades) : u.pnl < 0}}
<1>1. PICK bad, total, a, b, c :
        /\ bad = Picked(trades, S) /\ total = SumFunctionOnSet(F, DOMAIN trades)
        /\ a = [i \in DOMAIN bad |-> Do("lesson", Lesson(bad[i]))]
        /\ b = IF total <= -1000 THEN << Do("incident", SymptomOfLoss(total)) >> ELSE << >>
        /\ c = << Do("reviewed", X) >>
  OBVIOUS
<1>2. Start((a \o b) \o c) BY <1>1 DEF RunEodForensicReview
<1>3. /\ trades \in Seq(Losses) /\ day \in Nat
      /\ DOMAIN trades = 1..Len(trades) /\ Len(trades) \in Nat
      /\ \A i \in DOMAIN trades : trades[i] \in Losses
  BY DEF PlanInv, Tables
<1>4. S \in SUBSET DOMAIN trades OBVIOUS
<1>5. /\ bad \in Seq(Losses) /\ DOMAIN bad = 1..Len(bad) /\ Len(bad) \in Nat
      /\ \A i \in S : \E r \in DOMAIN bad : bad[r] = trades[i]
  <2> HIDE DEF S
  <2>1. /\ bad \in Seq(Losses) /\ DOMAIN bad = 1..Len(bad)
        /\ \A i \in S : \E r \in DOMAIN bad : bad[r] = trades[i]
    BY <1>1, <1>3, <1>4, PickedIs
  <2>2. Len(bad) \in Nat BY <2>1
  <2> QED BY <2>1, <2>2
<1>6. total \in Int
  <2>1. IsFiniteSet(DOMAIN trades) BY <1>3, FS_Interval
  <2>2. \A i \in DOMAIN trades : F[i] \in Int BY <1>3, SessionPlanAssumption
  <2>3. PICK D : D = DOMAIN trades OBVIOUS
  <2> HIDE DEF F
  <2> QED BY <1>1, <2>1, <2>2, <2>3, SumInt
<1>7. /\ IsQueue(a) /\ DOMAIN a = DOMAIN bad
      /\ \A i \in DOMAIN bad :
           a[i].do = "lesson" /\ a[i].of \in LessonRow /\ a[i].of.symbol = bad[i].symbol
  <2>1. a = [i \in 1..Len(bad) |-> a[i]] BY <1>1, <1>5
  <2>2. IsQueue(a) /\ DOMAIN a = DOMAIN bad BY <1>5, <2>1, QueueBuilt
  <2>3. \A i \in DOMAIN bad : bad[i] \in Losses BY <1>5
  <2>4. \A i \in DOMAIN bad : a[i].do = "lesson" /\ a[i].of = Lesson(bad[i]) BY <1>1 DEF Do
  <2>5. \A t \in Losses : Lesson(t) \in LessonRow /\ Lesson(t).symbol = t.symbol BY LessonIs
  <2> QED BY <2>2, <2>3, <2>4, <2>5
<1>8. /\ IsQueue(b)
      /\ \A k \in DOMAIN b : b[k].do = "incident" /\ b[k].of \in Symptom
  <2>1. CASE total <= -1000
    <3>1. PICK x : x = Do("incident", SymptomOfLoss(total)) OBVIOUS
    <3>2. b = << x >> BY <1>1, <2>1, <3>1
    <3>3. IsQueue(b) /\ DOMAIN b = {1} /\ b[1] = x BY <3>2, SingleQueue
    <3>4. x.do = "incident" /\ x.of = << day, total, Len(trades) >> BY <3>1 DEF Do, SymptomOfLoss
    <3>5. x.of \in Symptom BY <1>3, <1>6, <3>4 DEF Symptom
    <3> QED BY <3>3, <3>4, <3>5
  <2>2. CASE ~(total <= -1000)
    <3>1. b = << >> BY <1>1, <2>2
    <3> QED BY <3>1, EmptyQueue
  <2> QED BY <2>1, <2>2
<1>9. IsQueue(c) /\ DOMAIN c = {1} /\ c[1].do = "reviewed" /\ c[1].of = X
  <2>1. PICK x : x = Do("reviewed", X) OBVIOUS
  <2>2. x.do = "reviewed" /\ x.of = X BY <2>1 DEF Do
  <2>3. c = << x >> BY <1>1, <2>1
  <2> HIDE DEF X
  <2> QED BY <2>2, <2>3, SingleQueue
<1>10. PICK p : p = a \o b OBVIOUS
<1>11. /\ IsQueue(p)
       /\ \A k \in DOMAIN a : k \in DOMAIN p /\ p[k] = a[k]
       /\ \A k \in DOMAIN p : p[k].do \in {"lesson", "incident"} /\ CommitOK(p[k])
  <2>1. IsQueue(p) /\ \A k \in DOMAIN a : k \in DOMAIN p /\ p[k] = a[k]
    BY <1>7, <1>8, <1>10, QueueConcat
  <2>2. \A k \in DOMAIN p : p[k] \in Members(a) \cup Members(b)
    BY <1>7, <1>8, <1>10, QueueMembers
  <2>3. \A x \in Members(a) \cup Members(b) : x.do \in {"lesson", "incident"} /\ CommitOK(x)
    BY <1>7, <1>8 DEF Members, CommitOK
  <2> QED BY <2>1, <2>2, <2>3
<1>12. PICK q : q = p \o c OBVIOUS
<1>13. /\ IsQueue(q)
       /\ \A k \in DOMAIN q : \/ k \in DOMAIN p /\ q[k] = p[k]
                              \/ k = Len(p) + 1 /\ q[k] = c[1]
       /\ \A k \in DOMAIN p : k \in DOMAIN q /\ q[k] = p[k] /\ k <= Len(p) /\ k \in Nat
       /\ Len(p) \in Nat
  <2>1. IsQueue(p) /\ IsQueue(c) BY <1>9, <1>11
  <2>2. /\ IsQueue(q)
        /\ \A k \in DOMAIN q : \/ k \in DOMAIN p /\ q[k] = p[k]
                               \/ \E j \in DOMAIN c : k = Len(p) + j /\ q[k] = c[j]
        /\ \A k \in DOMAIN p : k \in DOMAIN q /\ q[k] = p[k] /\ k <= Len(p) /\ k \in Nat
        /\ Len(p) \in Nat
    <3>1. /\ IsQueue(p \o c)
          /\ \A k \in DOMAIN (p \o c) :
               \/ k \in DOMAIN p /\ (p \o c)[k] = p[k]
               \/ \E j \in DOMAIN c : k = Len(p) + j /\ (p \o c)[k] = c[j]
          /\ \A k \in DOMAIN p :
               k \in DOMAIN (p \o c) /\ (p \o c)[k] = p[k] /\ k <= Len(p) /\ k \in Nat
          /\ Len(p) \in Nat
      BY <2>1, QueueConcat, Zenon
    <3> QED BY <1>12, <3>1, Zenon
  <2>3. ASSUME NEW k \in DOMAIN q
        PROVE  \/ k \in DOMAIN p /\ q[k] = p[k]
               \/ k = Len(p) + 1 /\ q[k] = c[1]
    <3>1. CASE k \in DOMAIN p /\ q[k] = p[k] BY <3>1
    <3>2. ASSUME NEW j \in DOMAIN c, k = Len(p) + j, q[k] = c[j]
          PROVE  k = Len(p) + 1 /\ q[k] = c[1]
      <4>1. j = 1 BY <1>9
      <4> QED BY <3>2, <4>1
    <3> QED BY <2>2, <2>3, <3>1, <3>2
  <2> QED BY <2>2, <2>3
<1>14. \A k \in DOMAIN q : CommitOK(q[k])
  <2>1. CommitOK(c[1]) BY <1>9 DEF CommitOK
  <2> QED BY <1>11, <1>13, <2>1
<1>15. ASSUME NEW k \in DOMAIN q, q[k].do = "reviewed", NEW s \in q[k].of
       PROVE  \E j \in DOMAIN q : j < k /\ q[j].do = "lesson" /\ q[j].of.symbol = s
  <2>1. k = Len(p) + 1 /\ q[k] = c[1]
    <3>1. ~(k \in DOMAIN p /\ q[k] = p[k]) BY <1>11, <1>15
    <3> QED BY <1>13, <3>1
  <2>2. s \in X BY <1>9, <1>15, <2>1
  <2>3. PICK i \in DOMAIN trades : trades[i].pnl < 0 /\ trades[i].symbol = s BY <2>2 DEF ToSet
  <2>4. \A t \in Losses : t.pnl < 0 => Teaches(t) BY LessonIs
  <2>5. i \in S BY <1>3, <2>3, <2>4
  <2>6. PICK r \in DOMAIN bad : bad[r] = trades[i] BY <1>5, <2>5
  <2>7. r \in DOMAIN p /\ p[r].do = "lesson" /\ p[r].of.symbol = s
    BY <1>7, <1>11, <2>3, <2>6
  <2>8. r \in DOMAIN q /\ q[r] = p[r] /\ r < k BY <1>13, <2>1, <2>7
  <2> QED BY <2>7, <2>8
<1>16. Start(q) BY <1>2, <1>10, <1>12
<1> QED BY <1>13, <1>14, <1>15, <1>16, StartKeeps

\* The watchlist is made (GenerateDailyWatchlist).
LEMMA WatchlistKeeps == PlanInv /\ GenerateDailyWatchlist => PlanInv'
<1> SUFFICES ASSUME PlanInv, GenerateDailyWatchlist PROVE PlanInv' OBVIOUS
<1>1. PICK q : q = WatchlistCommits OBVIOUS
<1>2. Start(q) BY <1>1 DEF GenerateDailyWatchlist
<1>3. IsQueue(q) /\ \A k \in DOMAIN q : CommitOK(q[k]) /\ q[k].do # "reviewed"
  BY <1>1, WatchlistIsHarmless DEF Harmless
<1> QED BY <1>2, <1>3, StartKeeps

\* Both operations that make a plan.
LEMMA PlanningKeeps ==
  ASSUME PlanInv, NEW h, Harmless(h), NEW symbols \in Seq(Stocks), NEW live,
         \/ Start(SavePlanCommits(Shortlist(symbols, live)))
         \/ Start(h \o SavePlanCommits(Shortlist(symbols, live)))
  PROVE  PlanInv'
<1>1. PICK rows : rows = Shortlist(symbols, live) OBVIOUS
<1>2. /\ \E n \in Nat : DOMAIN rows = 1..n
      /\ \A i \in DOMAIN rows : Heeded(rows[i])
  BY <1>1, ShortlistIsHeeded DEF PlanInv
<1>3. PICK q \in {SavePlanCommits(rows), h \o SavePlanCommits(rows)} : Start(q) BY <1>1
<1>4. IsQueue(q) /\ \A k \in DOMAIN q : CommitOK(q[k]) /\ q[k].do # "reviewed"
  BY <1>2, PlanningQueue
<1> QED BY <1>3, <1>4, StartKeeps

\* The opening watchlist is confirmed (ConfirmOpeningWatchlist).
LEMMA ConfirmKeeps == PlanInv /\ ConfirmOpeningWatchlist => PlanInv'
<1> SUFFICES ASSUME PlanInv, ConfirmOpeningWatchlist PROVE PlanInv' OBVIOUS
<1>1. PICK symbols, h, live :
        /\ symbols = IF watchlist = << >> THEN Symbols ELSE watchlist
        /\ h = IF watchlist = << >> THEN WatchlistCommits ELSE << >>
        /\ live = [s \in Stocks |-> DefaultSetup]
  OBVIOUS
<1>2. Start(h \o SavePlanCommits(Shortlist(symbols, live)))
  BY <1>1 DEF ConfirmOpeningWatchlist
<1>3. symbols \in Seq(Stocks) BY <1>1, SessionPlanAssumption DEF PlanInv, Tables
<1>4. Harmless(h)
  <2>1. Harmless(<< >>) BY EmptyQueue DEF Harmless
  <2> QED BY <1>1, <2>1, WatchlistIsHarmless
<1> QED BY <1>2, <1>3, <1>4, PlanningKeeps

\* The universe is planned (PlanUniverse).
LEMMA UniverseKeeps ==
  ASSUME PlanInv, NEW live \in Mornings, PlanUniverse(live)
  PROVE  PlanInv'
<1>1. PICK w : w = SavePlanCommits(Shortlist(Symbols, live)) OBVIOUS
<1>2. Start(w) BY <1>1 DEF PlanUniverse
<1>3. Symbols \in Seq(Stocks) /\ Harmless(<< >>)
  BY SessionPlanAssumption, EmptyQueue DEF Harmless
<1> QED BY <1>1, <1>2, <1>3, PlanningKeeps
-------------------------------------------------------------------------------
\* A trade closes, evidence is recorded or deleted, a day ends.
LEMMA DayKeeps ==
  PlanInv /\ \/ \E t \in Losses : CloseTrade(t)
             \/ \E e \in Evidences : RecordEvidence(e)
             \/ SaveCandidatesToStore
             \/ NextDay
  => PlanInv'
<1> SUFFICES ASSUME PlanInv,
      \/ \E t \in Losses : CloseTrade(t)
      \/ \E e \in Evidences : RecordEvidence(e)
      \/ SaveCandidatesToStore
      \/ NextDay
    PROVE PlanInv'
  OBVIOUS
<1>1. ASSUME NEW t \in Losses, CloseTrade(t) PROVE PlanInv'
  <2>1. PICK old : old = trades OBVIOUS
  <2>2. old \in Seq(Losses) /\ trades' = Append(old, t)
    BY <1>1, <2>1 DEF PlanInv, Tables, CloseTrade
  <2>3. trades' \in Seq(Losses) BY <1>1, <2>2
  <2>4. Tables' BY <1>1, <2>3 DEF PlanInv, Tables, EvidenceOK, CloseTrade, Surroundings
  <2> QED BY <1>1, <2>4, QuietKeeps DEF CloseTrade, Surroundings
<1>2. ASSUME NEW e \in Evidences, RecordEvidence(e) PROVE PlanInv'
  <2>1. e \in [symbol: Stocks, template: DOMAIN Templates, row: EvidenceRow]
    BY SessionPlanAssumption
  <2>2. PICK old, s, n, row : old = evidence /\ s = e.symbol /\ n = e.template /\ row = e.row
    OBVIOUS
  <2>3. /\ s \in Stocks /\ n \in DOMAIN Templates /\ row \in EvidenceRow
        /\ old \in [Stocks -> [DOMAIN Templates -> EvidenceRow]]
        /\ evidence' = [old EXCEPT ![s][n] = row]
    BY <1>2, <2>1, <2>2 DEF PlanInv, Tables, EvidenceOK, RecordEvidence
  <2>4. evidence' \in [Stocks -> [DOMAIN Templates -> EvidenceRow]] BY <2>3
  <2>5. Tables' BY <1>2, <2>4 DEF PlanInv, Tables, EvidenceOK, RecordEvidence, Surroundings
  <2> QED BY <1>2, <2>5, QuietKeeps DEF RecordEvidence, Surroundings
<1>3. CASE SaveCandidatesToStore
  <2>1. NoEvidence \in EvidenceRow BY DEF NoEvidence, EvidenceRow
  <2>2. EvidenceOK' BY <1>3, <2>1 DEF SaveCandidatesToStore, EmptyEvidence, EvidenceOK
  <2>3. Tables' BY <1>3, <2>2 DEF PlanInv, Tables, SaveCandidatesToStore, Surroundings
  <2> QED BY <1>3, <2>3, QuietKeeps DEF SaveCandidatesToStore, Surroundings
<1>4. CASE NextDay
  <2>1. Tables' BY <1>4 DEF PlanInv, Tables, EvidenceOK, NextDay
  <2> QED BY <1>4, <2>1, QuietKeeps DEF NextDay
<1> QED BY <1>1, <1>2, <1>3, <1>4

\* An incident is resolved (ResolveIncident).
LEMMA ResolveKeeps ==
  ASSUME PlanInv, NEW i \in DOMAIN register.incidents, ResolveIncident(i)
  PROVE  PlanInv'
<1>1. PICK file, out : file = register /\ out = register' OBVIOUS
<1>2. /\ file \in Register /\ UniqueIn(file.incidents) /\ i \in DOMAIN file.incidents
      /\ out = [file EXCEPT !.incidents[i].status = "RESOLVED"]
  BY <1>1 DEF PlanInv, Tables, ResolveIncident
<1>3. out \in Register /\ UniqueIn(out.incidents) BY <1>2, ResolvedKeepsRegister
<1>4. Tables' BY <1>1, <1>3 DEF PlanInv, Tables, EvidenceOK, ResolveIncident, Surroundings
<1> QED BY <1>4, QuietKeeps DEF ResolveIncident, Surroundings

\* The process dies (PlanCrash): what was still to commit is lost.
LEMMA CrashKeeps == PlanInv /\ PlanCrash => PlanInv'
<1> SUFFICES ASSUME PlanInv, PlanCrash PROVE PlanInv' OBVIOUS
<1>1. PICK file : file = register OBVIOUS
<1>2. file \in Register /\ UniqueIn(file.incidents) BY <1>1 DEF PlanInv, Tables
<1>3. register' = file \/ register' = [file EXCEPT !.torn = TRUE] BY <1>1 DEF PlanCrash
<1>4. register' \in Register /\ register'.incidents = file.incidents BY <1>2, <1>3 DEF Register
<1>5. Tables' BY <1>2, <1>4 DEF PlanInv, Tables, EvidenceOK, PlanCrash
<1> QED BY <1>5, QuietKeeps DEF PlanCrash

\* The invariant of the loop.
THEOREM LoopInvariant == PlanSpec => []PlanInv
<1>1. PlanInit => PlanInv BY InitPlan
<1>2. PlanInv /\ [PlanNext]_planVars => PlanInv'
  <2> SUFFICES ASSUME PlanInv, [PlanNext]_planVars PROVE PlanInv' OBVIOUS
  <2>1. CASE PlanCommit BY <2>1, CommitKeeps
  <2>2. CASE RunEodForensicReview BY <2>2, ReviewKeeps
  <2>3. CASE GenerateDailyWatchlist BY <2>3, WatchlistKeeps
  <2>4. CASE ConfirmOpeningWatchlist BY <2>4, ConfirmKeeps
  <2>5. ASSUME NEW live \in Mornings, PlanUniverse(live) PROVE PlanInv' BY <2>5, UniverseKeeps
  <2>6. CASE \/ \E t \in Losses : CloseTrade(t)
             \/ \E e \in Evidences : RecordEvidence(e)
             \/ SaveCandidatesToStore
             \/ NextDay
    BY <2>6, DayKeeps
  <2>7. ASSUME NEW i \in DOMAIN register.incidents, ResolveIncident(i) PROVE PlanInv'
    BY <2>7, ResolveKeeps
  <2>8. CASE PlanCrash BY <2>8, CrashKeeps
  <2>9. CASE UNCHANGED planVars
    <3>1. Tables' BY <2>9 DEF PlanInv, Tables, EvidenceOK, planVars
    <3> QED BY <2>9, <3>1, QuietKeeps DEF planVars
  <2> QED BY <2>1, <2>2, <2>3, <2>4, <2>5, <2>6, <2>7, <2>8, <2>9 DEF PlanNext
<1> QED BY <1>1, <1>2, PTL DEF PlanSpec

\* A symbol that a completed review saw lose is traded again only on a fresh
\* breakout, whatever crashed in between (LessonsAreHeeded).
THEOREM LessonsHeeded == PlanSpec => []LessonsAreHeeded
<1>1. PlanInv => LessonsAreHeeded BY DEF PlanInv, LessonsAreHeeded, Heeded
<1> QED BY <1>1, LoopInvariant, PTL

\* Incident numbers are unique and no symptom is open twice (IncidentsAreUnique).
THEOREM IncidentsUnique == PlanSpec => []IncidentsAreUnique
<1>1. PlanInv => IncidentsAreUnique BY DEF PlanInv, Tables, IncidentsAreUnique, UniqueIn
<1> QED BY <1>1, LoopInvariant, PTL

\* Where a template may be traded, the locked one is a best of those
\* (TradableTemplateIsLocked).
THEOREM TradableLocked == PlanSpec => []TradableTemplateIsLocked
<1>1. ASSUME PlanInv, NEW s \in Stocks, NEW n \in DOMAIN Templates,
             NEW live, IsTrade(s, evidence[s][n], live)
      PROVE  /\ Locked(s, live).trade
             /\ FinalScore(evidence[s][n], Adjustment(s, live)) <= Locked(s, live).score
  <2>1. PICK m \in DOMAIN Templates :
          /\ Locked(s, live) = Evaluation(s, m, live)
          /\ \A k \in DOMAIN Templates : k # m => Better(Evaluation(s, m, live), Evaluation(s, k, live))
    BY <1>1, LockedIs DEF PlanInv, Tables
  <2>2. PICK a, b : a = Evaluation(s, m, live) /\ b = Evaluation(s, n, live) OBVIOUS
  <2>3. a.score \in Int /\ a.trade \in BOOLEAN
    BY <1>1, <2>2, EvaluationIs DEF PlanInv, Tables
  <2>4. /\ b.score \in Int /\ b.trade \in BOOLEAN /\ b.trade
        /\ b.score = FinalScore(evidence[s][n], Adjustment(s, live))
    BY <1>1, <2>2, EvaluationIs DEF PlanInv, Tables
  <2>5. CASE n = m BY <2>1, <2>2, <2>3, <2>4, <2>5
  <2>6. CASE n # m
    <3>1. Better(a, b) BY <2>1, <2>2, <2>6
    <3>2. a.trade /\ (a.score > b.score \/ a.score = b.score)
      BY <2>3, <2>4, <3>1, Zenon DEF Better
    <3>3. b.score <= a.score BY <2>3, <2>4, <3>2
    <3> QED BY <2>1, <2>2, <2>4, <3>2, <3>3
  <2> QED BY <2>5, <2>6
<1>2. PlanInv => TradableTemplateIsLocked
  <2> SUFFICES ASSUME PlanInv, NEW morning \in Mornings, NEW s \in Stocks,
                      NEW n \in DOMAIN Templates, IsTrade(s, evidence[s][n], morning[s])
               PROVE  /\ Locked(s, morning[s]).trade
                      /\ FinalScore(evidence[s][n], Adjustment(s, morning[s]))
                           <= Locked(s, morning[s]).score
    BY Zenon DEF TradableTemplateIsLocked
  <2>1. PICK live : live = morning[s] OBVIOUS
  <2> QED BY <1>1, <2>1
<1> QED BY <1>2, LoopInvariant, PTL
-------------------------------------------------------------------------------
(* The desk.                                                                   *)

CandidateRow ==
  { r \in [ id: InHouse \cup References, source: {"IN_HOUSE_ENGINE", "ALGOVERSE_SECONDARY"},
            metrics: Metrics,
            status: {"CANDIDATE", "PROPOSED", "ACCEPTED", "REJECTED", "SECONDARY_REFERENCE"} ] :
      r.source = "IN_HOUSE_ENGINE" => r.id \in InHouse }

\* What ProposalIsBest says of a set of rows.
BestIn(T) ==
  \A a \in T : a.status = "PROPOSED" =>
    /\ \A b \in T : b.source = "IN_HOUSE_ENGINE" /\ PassesRules(b.metrics) =>
         a.source = "IN_HOUSE_ENGINE" /\ Score(b.metrics) <= Score(a.metrics)
    /\ a.source = "IN_HOUSE_ENGINE" => PassesRules(a.metrics)

\* What a commit may be.
DeskCommit(c) ==
  /\ c.do \in {"wipe", "insert", "clear", "approve", "stop", "activate"}
  /\ c.do = "insert" => c.row \in CandidateRow /\ c.row.status # "ACCEPTED"

\* The rows the pool holds once the save in progress is through.
Pending == {todo[k].row : k \in {j \in DOMAIN todo : todo[j].do = "insert"}}
Wiping == \E k \in DOMAIN todo : todo[k].do = "wipe"
Written == Pending \cup (IF Wiping THEN {} ELSE Members(pool))

Saving == \A k \in DOMAIN todo : todo[k].do \in {"insert", "wipe"} /\ (todo[k].do = "wipe" => k = 1)

\* How far an approval or a deactivation is.
Approving(id) ==
  /\ {id, "none"} \subseteq decided
  /\ \/ todo = ActivateCommits(id)
     \/ todo = Tail(ActivateCommits(id)) /\ AcceptedIds = {}
     \/ todo = Tail(Tail(ActivateCommits(id))) /\ AcceptedIds \subseteq {id}
     \/ todo = Tail(Tail(Tail(ActivateCommits(id)))) /\ AcceptedIds \subseteq {id}
Deactivating ==
  /\ "none" \in decided
  /\ \/ todo = DeactivateCommits
     \/ todo = Tail(DeactivateCommits) /\ active = "none"

Stage == Saving \/ Deactivating \/ \E id \in InHouse \cup References : Approving(id)

DeskTables ==
  /\ pool \in Seq(CandidateRow) /\ kept \subseteq References
  /\ IsQueue(todo)
  /\ \A k \in DOMAIN todo : DeskCommit(todo[k])
ProposalPart == BestIn(Members(pool)) /\ BestIn(Written)
KeptPart == \A ref \in kept : \E r \in Written : r.id = ref
DecidedPart ==
  /\ active \in decided /\ AcceptedIds \subseteq decided
  /\ \A a, b \in AcceptedIds : a = b

DeskInv == DeskTables /\ ProposalPart /\ KeptPart /\ DecidedPart /\ Stage
-------------------------------------------------------------------------------
(* The ranking.                                                                *)

KeyTuple == Int \X Int \X Int \X Int \X Int

\* The comparison of keys is lexicographic.
LEMMA KeyAboveIs ==
  ASSUME NEW k, NEW l
  PROVE  KeyAbove(k, l) <=>
           \/ k[1] > l[1]
           \/ k[1] = l[1] /\ k[2] > l[2]
           \/ k[1] = l[1] /\ k[2] = l[2] /\ k[3] > l[3]
           \/ k[1] = l[1] /\ k[2] = l[2] /\ k[3] = l[3] /\ k[4] > l[4]
           \/ k[1] = l[1] /\ k[2] = l[2] /\ k[3] = l[3] /\ k[4] = l[4] /\ k[5] > l[5]
<1>1. 1..5 = {1, 2, 3, 4, 5} OBVIOUS
<1>2. 1..0 = {} /\ 1..1 = {1} /\ 1..2 = {1, 2} /\ 1..3 = {1, 2, 3} /\ 1..4 = {1, 2, 3, 4} OBVIOUS
<1>3. 1 - 1 = 0 /\ 2 - 1 = 1 /\ 3 - 1 = 2 /\ 4 - 1 = 3 /\ 5 - 1 = 4 OBVIOUS
<1> DEFINE P(i) == k[i] > l[i] /\ \A j \in 1..(i - 1) : k[j] = l[j]
<1>4. KeyAbove(k, l) <=> P(1) \/ P(2) \/ P(3) \/ P(4) \/ P(5)
  <2>1. KeyAbove(k, l) <=> \E i \in {1, 2, 3, 4, 5} : P(i) BY <1>1 DEF KeyAbove
  <2> HIDE DEF P
  <2> QED BY <2>1
<1>5. P(1) <=> k[1] > l[1] BY <1>2, <1>3
<1>6. P(2) <=> k[1] = l[1] /\ k[2] > l[2] BY <1>2, <1>3
<1>7. P(3) <=> k[1] = l[1] /\ k[2] = l[2] /\ k[3] > l[3] BY <1>2, <1>3
<1>8. P(4) <=> k[1] = l[1] /\ k[2] = l[2] /\ k[3] = l[3] /\ k[4] > l[4] BY <1>2, <1>3
<1>9. P(5) <=> k[1] = l[1] /\ k[2] = l[2] /\ k[3] = l[3] /\ k[4] = l[4] /\ k[5] > l[5]
  BY <1>2, <1>3
<1> HIDE DEF P
<1> QED BY <1>4, <1>5, <1>6, <1>7, <1>8, <1>9

\* Keys are totally ordered.
LEMMA KeysAreOrdered ==
  /\ \A k \in KeyTuple : ~KeyAbove(k, k)
  /\ \A k, l \in KeyTuple : k = l \/ KeyAbove(k, l) \/ KeyAbove(l, k)
  /\ \A k, l, m \in KeyTuple : KeyAbove(k, l) /\ KeyAbove(l, m) => KeyAbove(k, m)
  /\ \A k, l \in KeyTuple : KeyAbove(k, l) => k[1] >= l[1]
<1>1. \A k \in KeyTuple : /\ k[1] \in Int /\ k[2] \in Int /\ k[3] \in Int /\ k[4] \in Int /\ k[5] \in Int
                          /\ k = << k[1], k[2], k[3], k[4], k[5] >>
  BY DEF KeyTuple
<1>2. ASSUME NEW k \in KeyTuple PROVE ~KeyAbove(k, k) BY <1>1, KeyAboveIs
<1>3. ASSUME NEW k \in KeyTuple, NEW l \in KeyTuple, ~KeyAbove(k, l), ~KeyAbove(l, k) PROVE k = l
  <2>1. k[1] = l[1] /\ k[2] = l[2] /\ k[3] = l[3] /\ k[4] = l[4] /\ k[5] = l[5]
    BY <1>1, <1>3, KeyAboveIs
  <2> QED BY <1>1, <2>1
<1>4. ASSUME NEW k \in KeyTuple, NEW l \in KeyTuple, NEW m \in KeyTuple, KeyAbove(k, l), KeyAbove(l, m)
      PROVE  KeyAbove(k, m)
  BY <1>1, <1>4, KeyAboveIs
<1>5. ASSUME NEW k \in KeyTuple, NEW l \in KeyTuple, KeyAbove(k, l) PROVE k[1] >= l[1]
  BY <1>1, <1>5, KeyAboveIs
<1> QED BY <1>2, <1>3, <1>4, <1>5

\* The order of a list of keys takes every place once, and the first component of
\* the keys falls along it.
LEMMA OrderIs ==
  ASSUME NEW n \in Nat, NEW keys \in [1..n -> KeyTuple]
  PROVE  /\ Order(keys) \in [1..n -> 1..n]
         /\ \A i \in 1..n : \E r \in 1..n : Order(keys)[r] = i
         /\ \A q, r \in 1..n : q < r => keys[Order(keys)[q]][1] >= keys[Order(keys)[r]][1]
<1> DEFINE S == 1..n
           R == {p \in S \X S : RankedBefore(keys, p[1], p[2])}
           Place(i) == Cardinality(Before(S, R, i))
           order == Order(keys)
<1>1. \A i, j \in S : << i, j >> \in R <=> RankedBefore(keys, i, j) OBVIOUS
<1>2. \A i \in S : keys[i] \in KeyTuple OBVIOUS
<1>3. /\ \A i \in S : << i, i >> \notin R
      /\ \A i, j \in S : i # j => << i, j >> \in R \/ << j, i >> \in R
      /\ \A i, j, m \in S : << i, j >> \in R /\ << j, m >> \in R => << i, m >> \in R
  <2> HIDE DEF R
  <2>1. ASSUME NEW i \in S PROVE << i, i >> \notin R
    BY <1>1, <1>2, KeysAreOrdered DEF RankedBefore
  <2>2. ASSUME NEW i \in S, NEW j \in S, i # j PROVE << i, j >> \in R \/ << j, i >> \in R
    <3>1. keys[i] = keys[j] \/ KeyAbove(keys[i], keys[j]) \/ KeyAbove(keys[j], keys[i])
      BY <1>2, KeysAreOrdered
    <3> QED BY <1>1, <2>2, <3>1 DEF RankedBefore
  <2>3. ASSUME NEW i \in S, NEW j \in S, NEW m \in S, << i, j >> \in R, << j, m >> \in R
        PROVE  << i, m >> \in R
    <3>1. PICK a, b, c : a = keys[i] /\ b = keys[j] /\ c = keys[m] OBVIOUS
    <3>2. a \in KeyTuple /\ b \in KeyTuple /\ c \in KeyTuple BY <1>2, <3>1
    <3>3. (KeyAbove(a, b) \/ (a = b /\ i < j)) /\ (KeyAbove(b, c) \/ (b = c /\ j < m))
      BY <1>1, <2>3, <3>1 DEF RankedBefore
    <3>4. KeyAbove(a, c) \/ (a = c /\ i < m) BY <3>2, <3>3, KeysAreOrdered
    <3> QED BY <1>1, <3>1, <3>4 DEF RankedBefore
  <2> QED BY <2>1, <2>2, <2>3
<1>4. IsFiniteSet(S) /\ Cardinality(S) = n BY FS_Interval
<1>5. \A i \in S : {j \in S : RankedBefore(keys, j, i)} = Before(S, R, i) BY <1>1 DEF Before
<1>6. order = [r \in S |-> CHOOSE i \in S : Place(i) = r - 1]
  <2>1. DOMAIN keys = S OBVIOUS
  <2> HIDE DEF R
  <2>2. order = [r \in S |-> CHOOSE i \in S : Cardinality({j \in S : RankedBefore(keys, j, i)}) = r - 1]
    <3>1. order = [r \in DOMAIN keys |->
                    CHOOSE i \in DOMAIN keys :
                      Cardinality({j \in DOMAIN keys : RankedBefore(keys, j, i)}) = r - 1]
      BY DEF Order
    <3> HIDE DEF S, order
    <3> QED BY <2>1, <3>1
  <2> QED BY <1>5, <2>2
<1> HIDE DEF S, R
<1>7. /\ \A i \in S : Place(i) \in 0..(n - 1)
      /\ \A i, j \in S : << i, j >> \in R => Place(i) < Place(j)
      /\ \A r \in 0..(n - 1) : \E i \in S : Place(i) = r
  BY <1>3, <1>4, PlacesEnumerate
<1> HIDE DEF Place
<1>8. \A r \in S : order[r] \in S /\ Place(order[r]) = r - 1
  <2> TAKE r \in S
  <2>1. r - 1 \in 0..(n - 1) BY DEF S
  <2>2. \E i \in S : Place(i) = r - 1 BY <1>7, <2>1
  <2> HIDE DEF order
  <2> QED BY <1>6, <2>2
<1> HIDE DEF order
<1>9. order \in [S -> S] BY <1>6, <1>8
<1>10. ASSUME NEW i \in S PROVE \E r \in S : order[r] = i
  <2>1. Place(i) + 1 \in S /\ (Place(i) + 1) - 1 = Place(i) BY <1>7 DEF S
  <2>2. order[Place(i) + 1] \in S /\ Place(order[Place(i) + 1]) = Place(i) BY <1>8, <2>1
  <2>3. PICK j : j = order[Place(i) + 1] OBVIOUS
  <2>4. j \in S /\ Place(j) = Place(i) BY <2>2, <2>3
  <2>5. Place(i) \in Nat BY <1>7
  <2>6. << i, j >> \notin R /\ << j, i >> \notin R
    <3>1. ~(Place(i) < Place(j)) /\ ~(Place(j) < Place(i)) BY <2>4, <2>5
    <3> QED BY <1>7, <2>4, <3>1
  <2>7. j = i BY <1>3, <2>4, <2>6
  <2> QED BY <2>1, <2>3, <2>7
<1>11. ASSUME NEW q \in S, NEW r \in S, q < r PROVE keys[order[q]][1] >= keys[order[r]][1]
  <2>1. PICK i, j : i = order[q] /\ j = order[r] OBVIOUS
  <2>2. i \in S /\ j \in S /\ Place(i) < Place(j)
    <3>1. q \in Nat /\ r \in Nat BY DEF S
    <3> QED BY <1>8, <1>11, <2>1, <3>1
  <2>3. << i, j >> \in R
    <3>1. i # j /\ ~(Place(j) < Place(i)) BY <1>7, <2>2
    <3> QED BY <1>3, <1>7, <2>2, <3>1
  <2>4. keys[i] = keys[j] \/ KeyAbove(keys[i], keys[j]) BY <1>1, <2>2, <2>3 DEF RankedBefore
  <2>5. keys[i] \in KeyTuple /\ keys[j] \in KeyTuple BY <1>2, <2>2
  <2>6. keys[i][1] \in Int BY <2>5 DEF KeyTuple
  <2>7. keys[i][1] >= keys[j][1] BY <2>4, <2>5, <2>6, KeysAreOrdered
  <2> QED BY <2>1, <2>7
<1> QED BY <1>9, <1>10, <1>11 DEF S, order
-------------------------------------------------------------------------------
\* A candidate that passes the rules has a score above zero.
LEMMA ScoreIs ==
  ASSUME NEW m \in Metrics
  PROVE  /\ PostHaircut(m) \in Int /\ Score(m) \in Int
         /\ PassesRules(m) \in BOOLEAN
         /\ PassesRules(m) => Score(m) > 0
<1>1. /\ m.trades \in Nat /\ m.win \in Nat /\ m.ratio \in Nat /\ m.stability \in Nat
      /\ m.drawdown \in Int /\ m.pnl \in Int /\ m.traded \in Int /\ m.avgWin \in Int /\ m.avgLoss \in Int
  BY DEF Metrics
<1>2. PostHaircut(m) \in Int
  <2>1. Larger(m.trades, 1) \in Int BY <1>1 DEF Larger
  <2>2. (m.traded * 3) \div 1000 \in Int BY <1>1
  <2>3. PICK a, b : a = Larger(m.trades, 1) /\ b = 400 + (m.traded * 3) \div 1000 OBVIOUS
  <2>4. a \in Int /\ b \in Int BY <2>1, <2>2, <2>3
  <2>5. a * b \in Int BY <2>4
  <2>6. (a * b) \div 10 \in Int BY <2>5
  <2>7. PostHaircut(m) = m.pnl - (a * b) \div 10 BY <2>3 DEF PostHaircut
  <2> QED BY <1>1, <2>6, <2>7
<1>3. Score(m) \in Int BY <1>1, <1>2 DEF Score
<1>4. ASSUME PassesRules(m) PROVE Score(m) > 0
  <2>1. m.drawdown <= 1000 /\ m.win >= 500 /\ PostHaircut(m) > 0 BY <1>4 DEF PassesRules
  <2> QED BY <1>1, <1>2, <2>1 DEF Score
<1> QED BY <1>2, <1>3, <1>4 DEF PassesRules

\* The place of a candidate without a score is below every score.
LEMMA BottomIs == Bottom \in Int /\ Bottom < 0
BY SMT DEF Bottom

\* What the rules make of a candidate, and where its key ranks it.
LEMMA FilteredIs ==
  ASSUME NEW c \in CandidateRow, NEW f, f = Filtered(c)
  PROVE  /\ f \in CandidateRow /\ f.id = c.id /\ f.source = c.source /\ f.metrics = c.metrics
         /\ f.status \in {"SECONDARY_REFERENCE", "CANDIDATE", "REJECTED"}
         /\ f.status = "CANDIDATE" <=>
              f.source = "IN_HOUSE_ENGINE" /\ PassesRules(f.metrics)
         /\ f.source = "IN_HOUSE_ENGINE" => f.status # "SECONDARY_REFERENCE"
         /\ Key(f) \in KeyTuple
         /\ f.status = "CANDIDATE" => Key(f)[1] = Score(f.metrics) /\ Score(f.metrics) > 0
         /\ f.status # "CANDIDATE" => Key(f)[1] = Bottom
<1>1. /\ c.metrics \in Metrics /\ c.source \in {"IN_HOUSE_ENGINE", "ALGOVERSE_SECONDARY"}
      /\ c.id \in InHouse \cup References /\ (c.source = "IN_HOUSE_ENGINE" => c.id \in InHouse)
  BY DEF CandidateRow
<1>2. PICK v \in {"SECONDARY_REFERENCE", "CANDIDATE", "REJECTED"} :
        /\ f = [c EXCEPT !.status = v]
        /\ v = "CANDIDATE" <=> c.source = "IN_HOUSE_ENGINE" /\ PassesRules(c.metrics)
        /\ c.source = "IN_HOUSE_ENGINE" => v # "SECONDARY_REFERENCE"
  BY <1>1 DEF Filtered
<1>3. f \in CandidateRow /\ f.id = c.id /\ f.source = c.source /\ f.metrics = c.metrics /\ f.status = v
  BY <1>2 DEF CandidateRow
<1>4. /\ PostHaircut(f.metrics) \in Int /\ Score(f.metrics) \in Int
      /\ PassesRules(f.metrics) => Score(f.metrics) > 0
      /\ f.metrics.drawdown \in Int /\ f.metrics.trades \in Int
  <2>1. PICK m : m = f.metrics OBVIOUS
  <2>2. m \in Metrics BY <1>1, <1>3, <2>1
  <2>3. m.drawdown \in Int /\ m.trades \in Int BY <2>2 DEF Metrics
  <2> QED BY <2>1, <2>2, <2>3, ScoreIs
<1>5. CASE v = "CANDIDATE"
  <2>1. f.id \in InHouse BY <1>1, <1>2, <1>3, <1>5
  <2>2. Generated[f.id].id \in Int BY <2>1 DEF InHouse, Generated
  <2>3. Key(f) = << Score(f.metrics), -f.metrics.drawdown, PostHaircut(f.metrics),
                    f.metrics.trades, -Generated[f.id].id >>
    BY <1>3, <1>5 DEF Key, Unranked
  <2>4. Key(f) \in KeyTuple /\ Key(f)[1] = Score(f.metrics) BY <1>4, <2>2, <2>3 DEF KeyTuple
  <2>5. Score(f.metrics) > 0 BY <1>2, <1>3, <1>4, <1>5
  <2> QED BY <1>2, <1>3, <1>5, <2>4, <2>5
<1>6. CASE v # "CANDIDATE"
  <2>1. Key(f) = << Bottom, 0, 0, 0, 0 >> BY <1>2, <1>3, <1>6 DEF Key, Unranked
  <2>2. Key(f) \in KeyTuple /\ Key(f)[1] = Bottom BY <2>1, BottomIs DEF KeyTuple
  <2> QED BY <1>2, <1>3, <1>6, <2>2
<1> QED BY <1>5, <1>6

\* The ranking loses no candidate, accepts none, and proposes a best one.
LEMMA RankIs ==
  ASSUME NEW candidates \in Seq(CandidateRow), NEW out, out = RankAndFilter(candidates)
  PROVE  /\ out \in Seq(CandidateRow) /\ DOMAIN out = 1..Len(out) /\ Len(out) \in Nat
         /\ \A r \in DOMAIN out : out[r].status # "ACCEPTED"
         /\ \A i \in DOMAIN candidates : \E r \in DOMAIN out : out[r].id = candidates[i].id
         /\ BestIn(Members(out))
<1> DEFINE n == Len(candidates)
<1>1. /\ DOMAIN candidates = 1..n /\ n \in Nat
      /\ \A i \in 1..n : candidates[i] \in CandidateRow
  OBVIOUS
<1>2. PICK list, keys :
        /\ list = [i \in DOMAIN candidates |-> Filtered(candidates[i])]
        /\ keys = [i \in DOMAIN list |-> Key(list[i])]
  OBVIOUS
<1>3. PICK order, sorted : order = Order(keys) /\ sorted = [r \in DOMAIN order |-> list[order[r]]]
  OBVIOUS
<1> DEFINE Proposed(r) == Proposable(sorted[r]) /\ \A q \in 1..(r - 1) : ~Proposable(sorted[q])
<1>4. out = [r \in DOMAIN sorted |-> IF Proposed(r) THEN [sorted[r] EXCEPT !.status = "PROPOSED"]
                                     ELSE sorted[r]]
  BY <1>2, <1>3 DEF RankAndFilter
<1> HIDE DEF n
<1>5. DOMAIN list = 1..n /\ \A i \in 1..n : list[i] = Filtered(candidates[i]) BY <1>1, <1>2
<1>6. ASSUME NEW i \in 1..n
      PROVE  LET f == list[i] IN
             /\ f \in CandidateRow /\ f.id = candidates[i].id
             /\ f.status \in {"SECONDARY_REFERENCE", "CANDIDATE", "REJECTED"}
             /\ f.status = "CANDIDATE" <=>
                  f.source = "IN_HOUSE_ENGINE" /\ PassesRules(f.metrics)
             /\ f.source = "IN_HOUSE_ENGINE" => f.status # "SECONDARY_REFERENCE"
             /\ keys[i] \in KeyTuple
             /\ f.status = "CANDIDATE" => keys[i][1] = Score(f.metrics) /\ Score(f.metrics) > 0
             /\ f.status # "CANDIDATE" => keys[i][1] = Bottom
  <2>1. PICK c, f : c = candidates[i] /\ f = list[i] OBVIOUS
  <2>2. c \in CandidateRow /\ f = Filtered(c) BY <1>1, <1>5, <2>1
  <2>3. keys[i] = Key(f) BY <1>2, <1>5, <2>1
  <2> QED BY <2>1, <2>2, <2>3, FilteredIs
<1>7. keys \in [1..n -> KeyTuple] BY <1>2, <1>5, <1>6
<1>8. /\ order \in [1..n -> 1..n]
      /\ \A i \in 1..n : \E r \in 1..n : order[r] = i
      /\ \A q, r \in 1..n : q < r => keys[order[q]][1] >= keys[order[r]][1]
  <2>1. PICK m : m = n OBVIOUS
  <2>2. m \in Nat /\ keys \in [1..m -> KeyTuple] BY <1>1, <1>7, <2>1
  <2>3. /\ Order(keys) \in [1..m -> 1..m]
        /\ \A i \in 1..m : \E r \in 1..m : Order(keys)[r] = i
        /\ \A q, r \in 1..m : q < r => keys[Order(keys)[q]][1] >= keys[Order(keys)[r]][1]
    BY <2>2, OrderIs
  <2> QED BY <1>3, <2>1, <2>3
<1>9. DOMAIN sorted = 1..n /\ \A r \in 1..n : sorted[r] = list[order[r]] /\ order[r] \in 1..n
  BY <1>3, <1>8
<1>10. ASSUME NEW r \in 1..n
       PROVE  /\ out[r].id = sorted[r].id /\ out[r].source = sorted[r].source
              /\ out[r].metrics = sorted[r].metrics
              /\ out[r] \in CandidateRow /\ out[r].status # "ACCEPTED"
              /\ out[r].status = "PROPOSED" => Proposed(r)
  <2>1. sorted[r] \in CandidateRow /\ sorted[r].status \in {"SECONDARY_REFERENCE", "CANDIDATE", "REJECTED"}
    BY <1>6, <1>9
  <2>2. CASE Proposed(r)
    <3>1. out[r] = [sorted[r] EXCEPT !.status = "PROPOSED"] BY <1>4, <1>9, <2>2
    <3> QED BY <2>1, <2>2, <3>1 DEF CandidateRow
  <2>3. CASE ~Proposed(r)
    <3>1. out[r] = sorted[r] BY <1>4, <1>9, <2>3
    <3> QED BY <2>1, <3>1
  <2> QED BY <2>2, <2>3
<1>11. DOMAIN out = 1..n BY <1>4, <1>9
<1>12. out \in Seq(CandidateRow) /\ Len(out) = n
  <2>1. out \in [1..n -> CandidateRow]
    <3>1. out = [r \in 1..n |-> out[r]] BY <1>4, <1>9
    <3> QED BY <1>10, <3>1
  <2> QED BY <1>1, <2>1
<1>13. ASSUME NEW i \in DOMAIN candidates PROVE \E r \in DOMAIN out : out[r].id = candidates[i].id
  <2>1. i \in 1..n BY <1>1
  <2>2. PICK r \in 1..n : order[r] = i BY <1>8, <2>1
  <2>3. out[r].id = list[i].id BY <1>9, <1>10, <2>2
  <2>4. list[i].id = candidates[i].id BY <1>6, <2>1
  <2> QED BY <1>11, <2>3, <2>4
<1>14. BestIn(Members(out))
  <2>1. SUFFICES ASSUME NEW r \in 1..n, out[r].status = "PROPOSED"
        PROVE  /\ \A b \in Members(out) : b.source = "IN_HOUSE_ENGINE" /\ PassesRules(b.metrics) =>
                    out[r].source = "IN_HOUSE_ENGINE" /\ Score(b.metrics) <= Score(out[r].metrics)
               /\ out[r].source = "IN_HOUSE_ENGINE" => PassesRules(out[r].metrics)
    BY <1>11 DEF BestIn, Members
  <2>2. Proposed(r) BY <1>10, <2>1
  <2>3. PICK a : a = sorted[r] OBVIOUS
  <2>4. /\ a = list[order[r]] /\ order[r] \in 1..n
        /\ a.status \in {"SECONDARY_REFERENCE", "CANDIDATE"}
    BY <1>6, <1>9, <2>2, <2>3 DEF Proposable
  <2>5. out[r].source = a.source /\ out[r].metrics = a.metrics BY <1>10, <2>3
  <2>6. a.source = "IN_HOUSE_ENGINE" => PassesRules(a.metrics) BY <1>6, <2>4
  <2>7. ASSUME NEW q \in 1..n, out[q].source = "IN_HOUSE_ENGINE", PassesRules(out[q].metrics)
        PROVE  a.source = "IN_HOUSE_ENGINE" /\ Score(out[q].metrics) <= Score(a.metrics)
    <3>1. PICK b : b = sorted[q] OBVIOUS
    <3>2. /\ b = list[order[q]] /\ order[q] \in 1..n
          /\ b.source = "IN_HOUSE_ENGINE" /\ PassesRules(b.metrics) /\ b.metrics = out[q].metrics
      BY <1>9, <1>10, <2>7, <3>1
    <3>3. b.status = "CANDIDATE" BY <1>6, <3>2
    <3>4. keys[order[q]][1] = Score(b.metrics) /\ Score(b.metrics) > 0 BY <1>6, <3>2, <3>3
    <3>5. q \in Nat /\ r \in Nat OBVIOUS
    <3>6. ~(q < r)
      <4>1. Proposable(b) BY <3>3 DEF Proposable
      <4>2. q < r => q \in 1..(r - 1) BY <3>5
      <4> QED BY <2>2, <3>1, <4>1, <4>2
    <3>7. Score(b.metrics) \in Int
      <4>1. b.metrics \in Metrics BY <1>6, <3>2 DEF CandidateRow
      <4>2. PICK m : m = b.metrics OBVIOUS
      <4> QED BY <4>1, <4>2, ScoreIs
    <3>8. CASE q = r
      <4>1. a = b BY <2>3, <3>1, <3>8
      <4> QED BY <3>2, <3>7, <4>1
    <3>9. CASE r < q
      <4>1. keys[order[r]][1] >= Score(b.metrics) BY <1>8, <3>4, <3>9
      <4>2. keys[order[r]][1] = Bottom \/ a.status = "CANDIDATE" BY <1>6, <2>4
      <4>3. a.status = "CANDIDATE" BY <3>4, <3>7, <4>1, <4>2, BottomIs
      <4>4. keys[order[r]][1] = Score(a.metrics) /\ a.source = "IN_HOUSE_ENGINE" BY <1>6, <2>4, <4>3
      <4> QED BY <3>2, <4>1, <4>4
    <3> QED BY <3>5, <3>6, <3>8, <3>9
  <2>8. ASSUME NEW b \in Members(out), b.source = "IN_HOUSE_ENGINE", PassesRules(b.metrics)
        PROVE  a.source = "IN_HOUSE_ENGINE" /\ Score(b.metrics) <= Score(a.metrics)
    <3>1. PICK q \in 1..n : b = out[q] BY <1>11, <2>8 DEF Members
    <3> QED BY <2>7, <2>8, <3>1
  <2> QED BY <2>5, <2>6, <2>8
<1> QED BY <1>1, <1>10, <1>11, <1>12, <1>13, <1>14
-------------------------------------------------------------------------------
(* The measurements.                                                           *)

\* Divisions are rounded down.
LEMMA Division ==
  /\ \A a \in Int, b \in Nat \ {0} : a \div b \in Int
  /\ \A a \in Nat, b \in Nat \ {0} : a \div b \in Nat
<1>1. ASSUME NEW a \in Int, NEW b \in Nat \ {0} PROVE a \div b \in Int OBVIOUS
<1>2. ASSUME NEW a \in Nat, NEW b \in Nat \ {0} PROVE a \div b \in Nat OBVIOUS
<1> QED BY <1>1, <1>2

\* A number kept within bounds.
LEMMA WithinIs ==
  ASSUME NEW low \in Nat, NEW x \in Int, NEW high \in Nat
  PROVE  Within(low, x, high) \in Nat
BY DEF Within, Larger, Smaller

\* The generated candidates: what their parameters are made of.
LEMMA GeneratedIs ==
  ASSUME NEW id \in InHouse
  PROVE  /\ Generated[id].direction \in {"LONG", "SHORT", "BOTH"}
         /\ Generated[id].sl \in Nat \ {0} /\ Generated[id].tp \in Nat \ {0}
         /\ Generated[id].early \in BOOLEAN
<1>1. InHouse = {"alpha", "beta", "gamma", "delta", "epsilon"} BY DEF InHouse, Generated
<1> DEFINE Good(g) == /\ g.direction \in {"LONG", "SHORT", "BOTH"} /\ g.early \in BOOLEAN
                      /\ g.sl \in Nat \ {0} /\ g.tp \in Nat \ {0}
<1>2. Good(Generated["alpha"])
  <2>1. PICK g : g = [direction |-> "LONG", id |-> 3, sl |-> 10, tp |-> 15, early |-> TRUE] OBVIOUS
  <2>2. Generated["alpha"] = g BY <2>1 DEF Generated
  <2>3. Good(g) BY <2>1
  <2> HIDE DEF Good
  <2> QED BY <2>2, <2>3
<1>3. Good(Generated["beta"])
  <2>1. PICK g : g = [direction |-> "LONG", id |-> 4, sl |-> 8, tp |-> 18, early |-> TRUE] OBVIOUS
  <2>2. Generated["beta"] = g BY <2>1 DEF Generated
  <2>3. Good(g) BY <2>1
  <2> HIDE DEF Good
  <2> QED BY <2>2, <2>3
<1>4. Good(Generated["gamma"])
  <2>1. PICK g : g = [direction |-> "LONG", id |-> 2, sl |-> 8, tp |-> 12, early |-> TRUE] OBVIOUS
  <2>2. Generated["gamma"] = g BY <2>1 DEF Generated
  <2>3. Good(g) BY <2>1
  <2> HIDE DEF Good
  <2> QED BY <2>2, <2>3
<1>5. Good(Generated["delta"])
  <2>1. PICK g : g = [direction |-> "SHORT", id |-> 5, sl |-> 12, tp |-> 20, early |-> FALSE] OBVIOUS
  <2>2. Generated["delta"] = g BY <2>1 DEF Generated
  <2>3. Good(g) BY <2>1
  <2> HIDE DEF Good
  <2> QED BY <2>2, <2>3
<1>6. Good(Generated["epsilon"])
  <2>1. PICK g : g = [direction |-> "BOTH", id |-> 1, sl |-> 15, tp |-> 15, early |-> FALSE] OBVIOUS
  <2>2. Generated["epsilon"] = g BY <2>1 DEF Generated
  <2>3. Good(g) BY <2>1
  <2> HIDE DEF Good
  <2> QED BY <2>2, <2>3
<1>7. Good(Generated[id])
  <2> HIDE DEF Good
  <2> QED BY <1>1, <1>2, <1>3, <1>4, <1>5, <1>6
<1> QED BY <1>7

\* What is assumed of a candidate without a backtest is a record of metrics.
LEMMA SyntheticIs ==
  ASSUME NEW id \in InHouse
  PROVE  SyntheticMetrics(Generated[id]) \in Metrics
<1>1. PICK p : p = Generated[id] OBVIOUS
<1>2. p.sl \in Nat \ {0} /\ p.tp \in Nat \ {0} BY <1>1, GeneratedIs
<1> DEFINE short == p.direction = "SHORT"
           n     == IF p.early THEN 35 ELSE 32
           win   == IF short THEN 550 ELSE Within(420, 520 + (40 * p.tp) \div p.sl, 720)
           gain  == IF short THEN 320 ELSE (350 * p.tp) \div 15
           loss  == IF short THEN 210 ELSE (220 * p.sl) \div 10
           wins  == (n * win + 999) \div 1000
<1>3. n \in {35, 32} OBVIOUS
<1>4. SyntheticMetrics(p) =
        [ trades |-> n, win |-> win, avgWin |-> gain, avgLoss |-> loss,
          drawdown |-> IF short THEN 850 ELSE Smaller(750, (loss * 5) \div 2),
          pnl |-> wins * gain - (n - wins) * loss,
          ratio |-> (100 * gain) \div Larger(loss, 1),
          stability |-> Within(500, 700 + ((win - 500) * 12) \div 10, 950),
          traded |-> 50000 ]
  BY DEF SyntheticMetrics
<1>5. n \in Nat BY <1>3
<1>6. win \in Nat
  <2>1. (40 * p.tp) \div p.sl \in Int BY <1>2, Division
  <2>2. Within(420, 520 + (40 * p.tp) \div p.sl, 720) \in Nat BY <2>1, WithinIs
  <2> QED BY <2>2
<1>7. gain \in Nat /\ loss \in Nat BY <1>2
<1>8. wins \in Int
  <2> HIDE DEF n, win
  <2>1. n * win + 999 \in Int BY <1>5, <1>6
  <2> QED BY <2>1
<1> HIDE DEF short, n, win, gain, loss, wins
<1>9. (IF short THEN 850 ELSE Smaller(750, (loss * 5) \div 2)) \in Int
  BY <1>7 DEF Smaller
<1>10. wins * gain - (n - wins) * loss \in Int
  <2>1. wins * gain \in Int /\ (n - wins) * loss \in Int BY <1>5, <1>7, <1>8
  <2> QED BY <2>1
<1>11. (100 * gain) \div Larger(loss, 1) \in Nat
  <2>1. Larger(loss, 1) \in Nat \ {0} /\ 100 * gain \in Nat BY <1>7 DEF Larger
  <2> QED BY <2>1, Division
<1>12. Within(500, 700 + ((win - 500) * 12) \div 10, 950) \in Nat
  <2>1. 700 + ((win - 500) * 12) \div 10 \in Int BY <1>6
  <2> QED BY <2>1, WithinIs
<1> QED BY <1>1, <1>4, <1>5, <1>6, <1>7, <1>9, <1>10, <1>11, <1>12 DEF Metrics

\* What closed paper trades measure is a record of metrics.
LEMMA PaperIs ==
  ASSUME NEW p, NEW closed \in Seq(ClosedTrade)
  PROVE  PaperMetrics(p, closed) \in Metrics
<1> DEFINE S    == {i \in DOMAIN closed : p.direction \in {"BOTH", closed[i].side}}
           own    == Picked(closed, S)
           pnls   == [i \in DOMAIN own |-> own[i].pnl]
           values == [i \in DOMAIN own |-> own[i].value]
           up     == {i \in DOMAIN own : own[i].pnl > 0}
           down   == DOMAIN own \ up
           valued == {i \in DOMAIN own : own[i].value > 0}
           gain   == IF up = {} THEN 0 ELSE SumFunctionOnSet(pnls, up) \div Cardinality(up)
           loss   == IF down = {} THEN 1
                     ELSE (-SumFunctionOnSet(pnls, down)) \div Cardinality(down)
           win    == IF own = << >> THEN 0 ELSE (1000 * Cardinality(up)) \div Len(own)
           ratio  == IF loss > 0 THEN (100 * gain) \div loss ELSE 100 * gain
           traded == IF valued = {} THEN 50000
                     ELSE SumFunctionOnSet(values, valued) \div Cardinality(valued)
           stable == Within(100, (win * 11) \div 10 + (ratio * 3) \div 2, 990)
<1>1. PaperMetrics(p, closed) =
        [ trades |-> Len(own), win |-> win, avgWin |-> gain, avgLoss |-> loss,
          drawdown |-> Drawdown(pnls), pnl |-> SumFunctionOnSet(pnls, DOMAIN own), ratio |-> ratio,
          stability |-> stable, traded |-> traded ]
  BY DEF PaperMetrics
<1>2. S \in SUBSET DOMAIN closed OBVIOUS
<1> HIDE DEF S
<1>8. own \in Seq(ClosedTrade) BY <1>2, PickedIs
<1> HIDE DEF own
<1>9. /\ Len(own) \in Nat /\ DOMAIN own = 1..Len(own)
      /\ \A i \in DOMAIN own : own[i].pnl \in Int /\ own[i].value \in Int
      /\ Len(own) = 0 => own = << >>
  <2>1. \A i \in DOMAIN own : own[i] \in ClosedTrade BY <1>8
  <2> QED BY <1>8, <2>1 DEF ClosedTrade
<1>10. \A T \in SUBSET DOMAIN own :
         IsFiniteSet(T) /\ Cardinality(T) \in Nat /\ (T # {} => Cardinality(T) # 0)
  <2>1. IsFiniteSet(DOMAIN own)
    <3>1. PICK l : l = Len(own) OBVIOUS
    <3>2. l \in Int /\ 1 \in Int BY <1>9, <3>1
    <3>3. IsFiniteSet(1..l) BY <3>2, FS_Interval
    <3> QED BY <1>9, <3>1, <3>3
  <2> QED BY <2>1, FS_Subset, FS_CardinalityType, FS_EmptySet
<1>11. /\ \A i \in DOMAIN own : pnls[i] \in Int /\ values[i] \in Int
       /\ \A i \in up : pnls[i] \in Nat
       /\ up \in SUBSET DOMAIN own /\ down \in SUBSET DOMAIN own /\ valued \in SUBSET DOMAIN own
       /\ DOMAIN pnls = DOMAIN own
  BY <1>9
<1> HIDE DEF pnls, values, up, down, valued
<1>12. gain \in Nat
  <2>1. SumFunctionOnSet(pnls, up) \in Nat BY <1>10, <1>11, SumNat
  <2>2. up # {} => Cardinality(up) \in Nat \ {0} BY <1>10, <1>11
  <2> QED BY <2>1, <2>2, Division
<1>13. loss \in Int
  <2>1. SumFunctionOnSet(pnls, down) \in Int BY <1>10, <1>11, SumInt
  <2>2. down # {} => Cardinality(down) \in Nat \ {0} BY <1>10, <1>11
  <2>3. -SumFunctionOnSet(pnls, down) \in Int BY <2>1
  <2> QED BY <2>2, <2>3, Division
<1>14. win \in Nat
  <2>1. 1000 * Cardinality(up) \in Nat BY <1>10, <1>11
  <2>2. own # << >> => Len(own) \in Nat \ {0} BY <1>9
  <2> QED BY <2>1, <2>2, Division
<1>15. ratio \in Nat
  <2>1. 100 * gain \in Nat BY <1>12
  <2>2. loss > 0 => loss \in Nat \ {0} BY <1>13
  <2> QED BY <2>1, <2>2, Division
<1>16. traded \in Int
  <2>1. SumFunctionOnSet(values, valued) \in Int BY <1>10, <1>11, SumInt
  <2>2. valued # {} => Cardinality(valued) \in Nat \ {0} BY <1>10, <1>11
  <2> QED BY <2>1, <2>2, Division
<1> HIDE DEF gain, loss, win, ratio, traded
<1>17. stable \in Nat
  <2>1. (win * 11) \div 10 + (ratio * 3) \div 2 \in Int BY <1>14, <1>15
  <2>2. PICK x : x = (win * 11) \div 10 + (ratio * 3) \div 2 OBVIOUS
  <2>3. Within(100, x, 990) \in Nat BY <2>1, <2>2 DEF Within, Larger, Smaller
  <2> QED BY <2>2, <2>3
<1> HIDE DEF stable
<1>18. SumFunctionOnSet(pnls, DOMAIN own) \in Int
  <2>1. PICK D : D = DOMAIN own OBVIOUS
  <2> QED BY <1>10, <1>11, <2>1, SumInt
<1>19. Drawdown(pnls) \in Int
  <2> DEFINE D == DOMAIN own
             T == {-SumFunctionOnSet(pnls, i..j) : i, j \in D}
             f == [q \in D \X D |-> -SumFunctionOnSet(pnls, q[1]..q[2])]
  <2>1. ASSUME NEW i \in D, NEW j \in D PROVE -SumFunctionOnSet(pnls, i..j) \in Int
    <3>1. PICK U : U = i..j OBVIOUS
    <3>2. U \in SUBSET D BY <1>9, <3>1
    <3>3. IsFiniteSet(U) /\ \A x \in U : pnls[x] \in Int BY <1>10, <1>11, <3>2
    <3>4. SumFunctionOnSet(pnls, U) \in Int BY <3>3, SumInt
    <3> QED BY <3>1, <3>4
  <2>2. IsFiniteSet(T)
    <3>1. IsFiniteSet(D) BY <1>10
    <3>2. f \in Surjection(D \X D, T)
      <4>1. ASSUME NEW t \in T PROVE \E q \in D \X D : f[q] = t
        <5>1. PICK i \in D, j \in D : t = -SumFunctionOnSet(pnls, i..j) OBVIOUS
        <5>2. << i, j >> \in D \X D /\ f[<< i, j >>] = t BY <5>1
        <5> QED BY <5>2
      <4>2. f \in [D \X D -> T] OBVIOUS
      <4> HIDE DEF f, T, D
      <4> QED BY <4>1, <4>2 DEF Surjection
    <3> HIDE DEF f, T, D
    <3>3. IsFiniteSet(D \X D) BY <3>1, FS_Product
    <3> QED BY <3>2, <3>3, FS_Surjection
  <2>3. T \in SUBSET Int BY <2>1
  <2>4. DOMAIN pnls = D BY <1>11
  <2>5. Drawdown(pnls) = Max({0} \cup T) BY <2>4 DEF Drawdown
  <2> HIDE DEF T
  <2>6. IsFiniteSet(T \cup {0}) BY <2>2, FS_AddElement
  <2>7. {0} \cup T = T \cup {0} /\ {0} \cup T \in SUBSET Int BY <2>3
  <2>8. PICK V : V = {0} \cup T OBVIOUS
  <2>9. V \in SUBSET Int /\ IsFiniteSet(V) /\ V # {} BY <2>6, <2>7, <2>8
  <2>10. Max(V) \in V BY <2>9, MaxIs
  <2> QED BY <2>5, <2>8, <2>9, <2>10
<1> QED BY <1>1, <1>9, <1>12, <1>13, <1>14, <1>15, <1>16, <1>17, <1>18, <1>19 DEF Metrics

\* Whatever the evaluation finds, it measures.
LEMMA EvaluateIs ==
  ASSUME NEW h \in Histories, NEW id \in InHouse
  PROVE  Evaluate(Generated[id], h.bars[id], h.closed) \in Metrics
<1>1. (h.bars[id].trades > 0 => h.bars[id] \in Metrics) /\ h.closed \in Seq(ClosedTrade)
  BY StrategyDeskAssumption DEF InHouse
<1>2. PaperMetrics(Generated[id], h.closed) \in Metrics BY <1>1, PaperIs
<1>3. SyntheticMetrics(Generated[id]) \in Metrics BY SyntheticIs
<1> QED BY <1>1, <1>2, <1>3 DEF Evaluate
-------------------------------------------------------------------------------
(* The pool.                                                                   *)

\* Rows with other statuses, none of them PROPOSED, keep what the pool promises.
LEMMA StatusIs ==
  ASSUME pool \in Seq(CandidateRow), NEW S, NEW s \in {"CANDIDATE", "ACCEPTED"},
         NEW rows, rows = WithStatus(S, s)
  PROVE  /\ rows \in Seq(CandidateRow) /\ DOMAIN rows = DOMAIN pool
         /\ \A i \in DOMAIN pool : /\ rows[i].id = pool[i].id
                                   /\ rows[i].status = IF i \in S THEN s ELSE pool[i].status
         /\ BestIn(Members(pool)) => BestIn(Members(rows))
<1>1. rows = [i \in DOMAIN pool |-> IF i \in S THEN [pool[i] EXCEPT !.status = s] ELSE pool[i]]
  BY DEF WithStatus
<1>2. DOMAIN pool = 1..Len(pool) /\ Len(pool) \in Nat /\ \A i \in DOMAIN pool : pool[i] \in CandidateRow
  OBVIOUS
<1>3. ASSUME NEW i \in DOMAIN pool
      PROVE  /\ rows[i] \in CandidateRow /\ rows[i].id = pool[i].id
             /\ rows[i].source = pool[i].source /\ rows[i].metrics = pool[i].metrics
             /\ rows[i].status = IF i \in S THEN s ELSE pool[i].status
  <2>1. PICK r : r = pool[i] OBVIOUS
  <2>2. r \in CandidateRow BY <1>2, <2>1
  <2>3. CASE i \in S
    <3>1. rows[i] = [r EXCEPT !.status = s] BY <1>1, <2>1, <2>3
    <3> QED BY <2>1, <2>2, <2>3, <3>1 DEF CandidateRow
  <2>4. CASE i \notin S
    <3>1. rows[i] = r BY <1>1, <2>1, <2>4
    <3> QED BY <2>1, <2>2, <2>4, <3>1
  <2> QED BY <2>3, <2>4
<1>4. rows \in Seq(CandidateRow) /\ DOMAIN rows = DOMAIN pool
  <2>1. rows = [i \in 1..Len(pool) |-> rows[i]] BY <1>1, <1>2
  <2>2. rows \in [1..Len(pool) -> CandidateRow] BY <1>2, <1>3, <2>1
  <2> QED BY <1>2, <2>2
<1>5. ASSUME BestIn(Members(pool)) PROVE BestIn(Members(rows))
  <2>1. SUFFICES ASSUME NEW i \in DOMAIN pool, rows[i].status = "PROPOSED"
        PROVE  /\ \A b \in Members(rows) : b.source = "IN_HOUSE_ENGINE" /\ PassesRules(b.metrics) =>
                    rows[i].source = "IN_HOUSE_ENGINE" /\ Score(b.metrics) <= Score(rows[i].metrics)
               /\ rows[i].source = "IN_HOUSE_ENGINE" => PassesRules(rows[i].metrics)
    BY <1>4 DEF BestIn, Members
  <2>2. pool[i] \in Members(pool) /\ pool[i].status = "PROPOSED" BY <1>3, <2>1 DEF Members
  <2>3. PICK a : a = pool[i] OBVIOUS
  <2>4. /\ \A b \in Members(pool) : b.source = "IN_HOUSE_ENGINE" /\ PassesRules(b.metrics) =>
             a.source = "IN_HOUSE_ENGINE" /\ Score(b.metrics) <= Score(a.metrics)
        /\ a.source = "IN_HOUSE_ENGINE" => PassesRules(a.metrics)
    BY <1>5, <2>2, <2>3 DEF BestIn
  <2>5. rows[i].source = a.source /\ rows[i].metrics = a.metrics BY <1>3, <2>3
  <2>6. ASSUME NEW b \in Members(rows), b.source = "IN_HOUSE_ENGINE", PassesRules(b.metrics)
        PROVE  a.source = "IN_HOUSE_ENGINE" /\ Score(b.metrics) <= Score(a.metrics)
    <3>1. PICK j \in DOMAIN pool : b = rows[j] BY <1>4, <2>6 DEF Members
    <3>2. PICK d : d = pool[j] OBVIOUS
    <3>3. d \in Members(pool) /\ d.source = b.source /\ d.metrics = b.metrics
      BY <1>3, <3>1, <3>2 DEF Members
    <3> QED BY <2>4, <2>6, <3>3
  <2> QED BY <2>4, <2>5, <2>6
<1> QED BY <1>3, <1>4, <1>5

\* The commits of a save: a wipe, then every row.
LEMMA SaveCommitsAre ==
  ASSUME NEW rows \in Seq(CandidateRow), \A i \in DOMAIN rows : rows[i].status # "ACCEPTED",
         NEW q, q = SaveCommits(rows)
  PROVE  /\ IsQueue(q) /\ \A k \in DOMAIN q : DeskCommit(q[k])
         /\ \A k \in DOMAIN q : q[k].do \in {"insert", "wipe"} /\ (q[k].do = "wipe" => k = 1)
         /\ \E k \in DOMAIN q : q[k].do = "wipe"
         /\ {q[k].row : k \in {j \in DOMAIN q : q[j].do = "insert"}} = Members(rows)
<1>1. PICK x : x = [do |-> "wipe"] OBVIOUS
<1>2. PICK a, b : a = << x >> /\ b = [i \in DOMAIN rows |-> [do |-> "insert", row |-> rows[i]]]
  OBVIOUS
<1>3. q = a \o b BY <1>1, <1>2 DEF SaveCommits
<1>4. IsQueue(a) /\ DOMAIN a = {1} /\ a[1] = x /\ Len(a) = 1
  <2>1. a \in Seq({x}) /\ Len(a) = 1 BY <1>2
  <2>2. IsQueue(a) /\ DOMAIN a = 1..Len(a) BY <2>1, QueueOf
  <2> QED BY <1>2, <2>1, <2>2
<1>5. /\ IsQueue(b) /\ DOMAIN b = DOMAIN rows
      /\ \A i \in DOMAIN rows : b[i].do = "insert" /\ b[i].row = rows[i]
  <2>1. DOMAIN rows = 1..Len(rows) /\ Len(rows) \in Nat OBVIOUS
  <2>2. b = [i \in 1..Len(rows) |-> b[i]] BY <1>2, <2>1
  <2>3. IsQueue(b) /\ DOMAIN b = DOMAIN rows BY <2>1, <2>2, QueueBuilt
  <2> QED BY <1>2, <2>3
<1>6. /\ IsQueue(a \o b)
      /\ \A k \in DOMAIN (a \o b) :
           \/ k \in DOMAIN a /\ (a \o b)[k] = a[k]
           \/ \E j \in DOMAIN b : k = Len(a) + j /\ (a \o b)[k] = b[j]
      /\ \A k \in DOMAIN a : k \in DOMAIN (a \o b) /\ (a \o b)[k] = a[k] /\ k <= Len(a) /\ k \in Nat
      /\ \A j \in DOMAIN b : Len(a) + j \in DOMAIN (a \o b) /\ (a \o b)[Len(a) + j] = b[j]
  BY <1>4, <1>5, QueueConcat
<1>7. /\ IsQueue(q)
      /\ \A k \in DOMAIN q : \/ k = 1 /\ q[k] = x
                             \/ \E j \in DOMAIN rows : q[k] = b[j]
      /\ 1 \in DOMAIN q /\ q[1] = x
      /\ \A j \in DOMAIN rows : 1 + j \in DOMAIN q /\ q[1 + j] = b[j]
  BY <1>3, <1>4, <1>5, <1>6
<1>8. x.do = "wipe" BY <1>1
<1>9. \A i \in DOMAIN rows : rows[i] \in CandidateRow OBVIOUS
<1>10. ASSUME NEW k \in DOMAIN q
       PROVE  /\ DeskCommit(q[k])
              /\ q[k].do \in {"insert", "wipe"} /\ (q[k].do = "wipe" => k = 1)
              /\ q[k].do = "insert" => q[k].row \in Members(rows)
  <2>1. CASE k = 1 /\ q[k] = x BY <1>8, <2>1 DEF DeskCommit
  <2>2. ASSUME NEW j \in DOMAIN rows, q[k] = b[j]
        PROVE  /\ DeskCommit(q[k])
               /\ q[k].do \in {"insert", "wipe"} /\ (q[k].do = "wipe" => k = 1)
               /\ q[k].do = "insert" => q[k].row \in Members(rows)
    BY <1>5, <1>9, <2>2 DEF DeskCommit, Members
  <2> QED BY <1>7, <2>1, <2>2
<1>11. \E k \in DOMAIN q : q[k].do = "wipe" BY <1>7, <1>8
<1>12. ASSUME NEW r \in Members(rows)
       PROVE  \E k \in DOMAIN q : q[k].do = "insert" /\ q[k].row = r
  <2>1. PICK j \in DOMAIN rows : r = rows[j] BY DEF Members
  <2> QED BY <1>5, <1>7, <2>1
<1>13. {q[k].row : k \in {j \in DOMAIN q : q[j].do = "insert"}} = Members(rows)
  BY <1>10, <1>12
<1> QED BY <1>7, <1>10, <1>11, <1>13

\* The desk's invariant holds at the start.
LEMMA InitDesk == Init => DeskInv
<1> SUFFICES ASSUME Init PROVE DeskInv OBVIOUS
<1>1. pool = << >> /\ todo = << >> /\ kept = {} BY DEF Init
<1>2. IsQueue(todo) /\ DOMAIN todo = {} /\ Members(pool) = {} BY <1>1 DEF IsQueue, Members
<1>3. DeskTables BY <1>1, <1>2 DEF DeskTables
<1>4. Written = {} BY <1>2 DEF Written, Pending
<1>5. ProposalPart BY <1>2, <1>4 DEF ProposalPart, BestIn
<1>6. KeptPart BY <1>1 DEF KeptPart
<1>7. AcceptedIds = {} BY <1>1 DEF AcceptedIds, Marked
<1>8. DecidedPart BY <1>7 DEF DecidedPart, Init
<1>9. Stage BY <1>2 DEF Stage, Saving
<1> QED BY <1>3, <1>5, <1>6, <1>8, <1>9 DEF DeskInv

\* A save of rows that promise what the pool promises.
LEMMA SaveKeeps ==
  ASSUME DeskInv, Idle, NEW rows \in Seq(CandidateRow),
         \A i \in DOMAIN rows : rows[i].status # "ACCEPTED", BestIn(Members(rows)),
         todo' = SaveCommits(rows), UNCHANGED << pool, active, decided >>,
         kept' \subseteq References, \A ref \in kept' : \E r \in Members(rows) : r.id = ref
  PROVE  DeskInv'
<1>1. PICK q : q = SaveCommits(rows) OBVIOUS
<1>2. /\ IsQueue(q) /\ \A k \in DOMAIN q : DeskCommit(q[k])
      /\ \A k \in DOMAIN q : q[k].do \in {"insert", "wipe"} /\ (q[k].do = "wipe" => k = 1)
      /\ \E k \in DOMAIN q : q[k].do = "wipe"
      /\ {q[k].row : k \in {j \in DOMAIN q : q[j].do = "insert"}} = Members(rows)
  BY <1>1, SaveCommitsAre
<1>3. todo' = q BY <1>1
<1>4. DeskTables' BY <1>2, <1>3 DEF DeskInv, DeskTables, IsQueue, Members
<1>5. Written' = Members(rows)
  <2>1. Pending' = Members(rows) BY <1>2, <1>3 DEF Pending
  <2>2. Wiping' BY <1>2, <1>3 DEF Wiping
  <2> QED BY <2>1, <2>2 DEF Written
<1>6. ProposalPart'
  <2>1. BestIn(Members(pool))' BY DEF DeskInv, ProposalPart, BestIn, Members
  <2>2. BestIn(Written)' BY <1>5 DEF BestIn
  <2> QED BY <2>1, <2>2 DEF ProposalPart
<1>7. KeptPart' BY <1>5 DEF KeptPart
<1>8. DecidedPart' BY DEF DeskInv, DecidedPart, AcceptedIds, Marked
<1>9. Stage' BY <1>2, <1>3 DEF Stage, Saving
<1> QED BY <1>4, <1>6, <1>7, <1>8, <1>9 DEF DeskInv

-------------------------------------------------------------------------------
(* The pool read back.                                                         *)

\* The pool read back: the same rows with other metrics.
LEMMA ReloadedIs ==
  ASSUME pool \in Seq(CandidateRow), NEW rows, rows = Reloaded
  PROVE  /\ rows \in Seq(CandidateRow) /\ DOMAIN rows = DOMAIN pool
         /\ \A i \in DOMAIN pool : rows[i].id = pool[i].id
<1>1. rows = [i \in DOMAIN pool |-> [pool[i] EXCEPT !.metrics.traded = 50000]] BY DEF Reloaded
<1>2. DOMAIN pool = 1..Len(pool) /\ Len(pool) \in Nat /\ \A i \in DOMAIN pool : pool[i] \in CandidateRow
  OBVIOUS
<1>3. ASSUME NEW i \in DOMAIN pool PROVE rows[i] \in CandidateRow /\ rows[i].id = pool[i].id
  <2>1. PICK r, n : r = pool[i] /\ n = 50000 OBVIOUS
  <2>2. n \in Int BY <2>1
  <2>3. r \in CandidateRow /\ rows[i] = [r EXCEPT !.metrics.traded = n] BY <1>1, <1>2, <2>1
  <2>4. PICK m : m = [r.metrics EXCEPT !.traded = n] OBVIOUS
  <2>5. m \in Metrics BY <2>2, <2>3, <2>4 DEF CandidateRow, Metrics
  <2>6. rows[i] = [r EXCEPT !.metrics = m] BY <2>3, <2>4 DEF CandidateRow
  <2> QED BY <2>1, <2>3, <2>5, <2>6 DEF CandidateRow
<1>4. rows \in [1..Len(pool) -> CandidateRow]
  <2>1. rows = [i \in 1..Len(pool) |-> rows[i]] BY <1>1, <1>2
  <2> QED BY <1>2, <1>3, <2>1
<1>5. rows \in Seq(CandidateRow) BY <1>2, <1>4
<1>6. DOMAIN rows = DOMAIN pool BY <1>2, <1>4
<1> QED BY <1>3, <1>5, <1>6

\* An outside backtest is imported (Import).
LEMMA ImportKeeps ==
  ASSUME DeskInv, NEW ref \in References, NEW m \in Imported, Import(ref, m)
  PROVE  DeskInv'
<1>1. PICK old, row : old = Reloaded /\ row = Row(ref, "ALGOVERSE_SECONDARY", m) OBVIOUS
<1>2. old \in Seq(CandidateRow) /\ DOMAIN old = DOMAIN pool /\ \A i \in DOMAIN pool : old[i].id = pool[i].id
  BY <1>1, ReloadedIs DEF DeskInv, DeskTables
<1>3. row \in CandidateRow /\ row.id = ref BY <1>1, StrategyDeskAssumption DEF Row, CandidateRow
<1>4. PICK list, rows : list = Append(old, row) /\ rows = RankAndFilter(list) OBVIOUS
<1>5. /\ list \in Seq(CandidateRow) /\ DOMAIN list = 1..(Len(old) + 1) /\ Len(old) \in Nat
      /\ DOMAIN old = 1..Len(old)
      /\ list[Len(old) + 1] = row /\ \A i \in 1..Len(old) : list[i] = old[i]
  BY <1>2, <1>3, <1>4
<1>6. /\ rows \in Seq(CandidateRow) /\ \A r \in DOMAIN rows : rows[r].status # "ACCEPTED"
      /\ \A i \in DOMAIN list : \E r \in DOMAIN rows : rows[r].id = list[i].id
      /\ BestIn(Members(rows))
  <2>1. rows = RankAndFilter(list) /\ list \in Seq(CandidateRow) BY <1>4, <1>5
  <2> QED BY <2>1, RankIs
<1>7. /\ Idle /\ todo' = SaveCommits(rows) /\ UNCHANGED << pool, active, decided >>
      /\ kept' = kept \cup {ref}
  BY <1>1, <1>4 DEF Import
<1>8. ASSUME NEW x \in kept' PROVE \E r \in Members(rows) : r.id = x
  <2>1. \E i \in DOMAIN list : list[i].id = x
    <3>1. CASE x = ref
      <4>1. Len(old) + 1 \in DOMAIN list BY <1>5
      <4> QED BY <1>3, <1>5, <3>1, <4>1
    <3>2. CASE x \in kept
      <4>1. Written = Members(pool) BY <1>7 DEF Idle, Written, Pending, Wiping
      <4>2. PICK i \in DOMAIN pool : pool[i].id = x
        BY <3>2, <4>1 DEF DeskInv, KeptPart, Members
      <4>3. i \in 1..Len(old) /\ i \in DOMAIN list BY <1>2, <1>5
      <4> QED BY <1>2, <1>5, <4>2, <4>3
    <3> QED BY <1>7, <1>8, <3>1, <3>2
  <2> QED BY <1>6, <2>1 DEF Members
<1>9. kept' \subseteq References BY <1>7 DEF DeskInv, DeskTables
<1> QED BY <1>6, <1>7, <1>8, <1>9, SaveKeeps

\* The pre-market pipeline ranks what it has evaluated and every imported
\* reference (RunPipeline).
LEMMA PipelineKeeps ==
  ASSUME DeskInv, NEW h \in Histories, RunPipeline(h)
  PROVE  DeskInv'
<1> DEFINE S == {i \in DOMAIN pool : pool[i].source = "ALGOVERSE_SECONDARY"}
<1>1. PICK old, a, b : old = Reloaded /\ a = Evaluated[h] /\ b = Picked(old, S) OBVIOUS
<1>2. /\ old \in Seq(CandidateRow) /\ DOMAIN old = DOMAIN pool
      /\ \A i \in DOMAIN pool : old[i].id = pool[i].id
  BY <1>1, ReloadedIs DEF DeskInv, DeskTables
<1>3. b = Secondaries BY <1>1 DEF Secondaries
<1>4. S \in SUBSET DOMAIN old BY <1>2
<1>5. /\ b \in Seq(CandidateRow) /\ DOMAIN b = 1..Len(b) /\ Len(b) \in Nat
      /\ \A i \in S : \E r \in DOMAIN b : b[r] = old[i]
  <2> HIDE DEF S
  <2>1. /\ b \in Seq(CandidateRow) /\ DOMAIN b = 1..Len(b)
        /\ \A i \in S : \E r \in DOMAIN b : b[r] = old[i]
    BY <1>1, <1>2, <1>4, PickedIs
  <2> QED BY <2>1
<1>6. a \in Seq(CandidateRow)
  <2> DEFINE ids == << "alpha", "beta", "gamma", "delta", "epsilon" >>
             M(id) == Evaluate(Generated[id], h.bars[id], h.closed)
  <2>1. \A i \in 1..5 : ids[i] \in InHouse
    <3>1. InHouse = {"alpha", "beta", "gamma", "delta", "epsilon"} BY DEF InHouse, Generated
    <3> QED BY <3>1
  <2>2. a = [i \in 1..5 |-> Row(ids[i], "IN_HOUSE_ENGINE", M(ids[i]))] BY <1>1 DEF Evaluated
  <2> HIDE DEF ids
  <2>3. \A id \in InHouse : M(id) \in Metrics BY EvaluateIs
  <2> HIDE DEF M
  <2>4. \A i \in 1..5 : Row(ids[i], "IN_HOUSE_ENGINE", M(ids[i])) \in CandidateRow
    BY <2>1, <2>3 DEF Row, CandidateRow
  <2>5. PICK n : n = 5 OBVIOUS
  <2>6. n \in Nat /\ a \in [1..n -> CandidateRow] BY <2>2, <2>4, <2>5
  <2> QED BY <2>6
<1>7. PICK list, rows : list = a \o b /\ rows = RankAndFilter(list) OBVIOUS
<1>8. /\ list \in Seq(CandidateRow) /\ Len(a) \in Nat
      /\ \A r \in DOMAIN b : Len(a) + r \in DOMAIN list /\ list[Len(a) + r] = b[r]
  <2>1. /\ list \in Seq(CandidateRow) /\ Len(list) = Len(a) + Len(b) /\ Len(a) \in Nat
        /\ DOMAIN list = 1..Len(list)
    BY <1>5, <1>6, <1>7
  <2>2. ASSUME NEW r \in DOMAIN b PROVE Len(a) + r \in DOMAIN list /\ list[Len(a) + r] = b[r]
    BY <1>5, <1>6, <1>7, <2>1
  <2> QED BY <2>1, <2>2
<1>9. /\ rows \in Seq(CandidateRow) /\ \A r \in DOMAIN rows : rows[r].status # "ACCEPTED"
      /\ \A i \in DOMAIN list : \E r \in DOMAIN rows : rows[r].id = list[i].id
      /\ BestIn(Members(rows))
  <2>1. rows = RankAndFilter(list) /\ list \in Seq(CandidateRow) BY <1>7, <1>8
  <2> QED BY <2>1, RankIs
<1>10. Idle /\ todo' = SaveCommits(rows) /\ UNCHANGED << pool, active, decided, kept >>
  BY <1>1, <1>3, <1>7 DEF RunPipeline
<1>11. ASSUME NEW x \in kept PROVE \E r \in Members(rows) : r.id = x
  <2>1. Written = Members(pool) BY <1>10 DEF Idle, Written, Pending, Wiping
  <2>2. PICK i \in DOMAIN pool : pool[i].id = x BY <1>11, <2>1 DEF DeskInv, KeptPart, Members
  <2>3. i \in S
    <3>1. pool[i] \in CandidateRow BY DEF DeskInv, DeskTables
    <3>2. x \in References BY <1>11 DEF DeskInv, DeskTables
    <3>3. x \notin InHouse BY <3>2, StrategyDeskAssumption DEF InHouse
    <3> QED BY <2>2, <3>1, <3>3 DEF CandidateRow
  <2>4. PICK r \in DOMAIN b : b[r] = old[i] BY <1>5, <2>3
  <2>5. Len(a) + r \in DOMAIN list /\ list[Len(a) + r].id = x BY <1>2, <1>8, <2>2, <2>4
  <2> QED BY <1>9, <2>5 DEF Members
<1>12. kept' \subseteq References /\ \A x \in kept' : \E r \in Members(rows) : r.id = x
  BY <1>10, <1>11 DEF DeskInv, DeskTables
<1> QED BY <1>9, <1>10, <1>12, SaveKeeps
-------------------------------------------------------------------------------
(* The commits.                                                                *)

\* Neither wiping nor inserting: the pool is what is written.
Calm(q) == \A k \in DOMAIN q : q[k].do \notin {"insert", "wipe"}

\* Then the pool is what will be in the table.
LEMMA CalmIs == Calm(todo) => Written = Members(pool)
BY DEF Calm, Written, Pending, Wiping

\* The commits of an approval, one by one.
LEMMA ApprovalIs ==
  ASSUME NEW id
  PROVE  /\ ActivateCommits(id) =
              << [do |-> "clear"], [do |-> "approve", id |-> id],
                 [do |-> "stop"], [do |-> "activate", id |-> id] >>
         /\ Tail(ActivateCommits(id)) =
              << [do |-> "approve", id |-> id], [do |-> "stop"], [do |-> "activate", id |-> id] >>
         /\ Tail(Tail(ActivateCommits(id))) =
              << [do |-> "stop"], [do |-> "activate", id |-> id] >>
         /\ Tail(Tail(Tail(ActivateCommits(id)))) = << [do |-> "activate", id |-> id] >>
<1>1. ActivateCommits(id) = << [do |-> "clear"], [do |-> "approve", id |-> id],
                               [do |-> "stop"], [do |-> "activate", id |-> id] >>
  BY DEF ActivateCommits
<1>2. PICK a, b, c, d : /\ a = [do |-> "clear"] /\ b = [do |-> "approve", id |-> id]
                        /\ c = [do |-> "stop"] /\ d = [do |-> "activate", id |-> id]
  OBVIOUS
<1>3. ActivateCommits(id) = << a, b, c, d >> BY <1>1, <1>2
<1>4. Tail(<< a, b, c, d >>) = << b, c, d >> OBVIOUS
<1>5. Tail(<< b, c, d >>) = << c, d >> OBVIOUS
<1>6. Tail(<< c, d >>) = << d >> OBVIOUS
<1> QED BY <1>2, <1>3, <1>4, <1>5, <1>6

\* The first commit of an approval or a deactivation, and what is left after it.
StageStep ==
  \/ \E id \in InHouse \cup References :
       /\ {id, "none"} \subseteq decided
       /\ \/ Head(todo) = [do |-> "clear"] /\ Len(todo) = 4
             /\ Tail(todo) = Tail(ActivateCommits(id))
          \/ Head(todo) = [do |-> "approve", id |-> id] /\ Len(todo) = 3
             /\ AcceptedIds = {} /\ Tail(todo) = Tail(Tail(ActivateCommits(id)))
          \/ Head(todo) = [do |-> "stop"] /\ Len(todo) = 2
             /\ AcceptedIds \subseteq {id} /\ Tail(todo) = Tail(Tail(Tail(ActivateCommits(id))))
          \/ Head(todo) = [do |-> "activate", id |-> id] /\ Len(todo) = 1
             /\ AcceptedIds \subseteq {id} /\ Tail(todo) = << >>
  \/ /\ "none" \in decided
     /\ \/ Head(todo) = [do |-> "stop"] /\ Len(todo) = 2 /\ Tail(todo) = Tail(DeactivateCommits)
        \/ Head(todo) = [do |-> "clear"] /\ Len(todo) = 1 /\ Tail(todo) = << >> /\ active = "none"

\* An approval or a deactivation in progress is at one of its stages.
LEMMA StageIs ==
  ASSUME Stage, ~Saving
  PROVE  Calm(todo) /\ Calm(Tail(todo)) /\ StageStep
<1> DEFINE Result == Calm(todo) /\ Calm(Tail(todo)) /\ StageStep
<1>1. PICK x, y : x = [do |-> "clear"] /\ y = [do |-> "stop"] OBVIOUS
<1>2. x.do = "clear" /\ y.do = "stop" BY <1>1
<1>3. ASSUME NEW id \in InHouse \cup References, Approving(id) PROVE Result
  <2>1. PICK b, d : b = [do |-> "approve", id |-> id] /\ d = [do |-> "activate", id |-> id] OBVIOUS
  <2>2. b.do = "approve" /\ d.do = "activate" BY <2>1
  <2>3. {id, "none"} \subseteq decided BY <1>3 DEF Approving
  <2>4. /\ ActivateCommits(id) = << x, b, y, d >>
        /\ Tail(ActivateCommits(id)) = << b, y, d >>
        /\ Tail(Tail(ActivateCommits(id))) = << y, d >>
        /\ Tail(Tail(Tail(ActivateCommits(id)))) = << d >>
    BY <1>1, <2>1, ApprovalIs
  <2>5. Calm(<< x, b, y, d >>) /\ Calm(<< b, y, d >>) /\ Calm(<< y, d >>) /\ Calm(<< d >>) /\ Calm(<< >>)
    BY <1>2, <2>2 DEF Calm
  <2>6. CASE todo = << x, b, y, d >>
    <3>1. Head(todo) = x /\ Len(todo) = 4 /\ Tail(todo) = << b, y, d >> BY <2>6
    <3>2. Calm(todo) /\ Calm(Tail(todo)) BY <2>5, <2>6, <3>1
    <3> QED BY <1>1, <2>3, <2>4, <3>1, <3>2 DEF StageStep
  <2>7. CASE todo = << b, y, d >> /\ AcceptedIds = {}
    <3>1. Head(todo) = b /\ Len(todo) = 3 /\ Tail(todo) = << y, d >> BY <2>7
    <3>2. Calm(todo) /\ Calm(Tail(todo)) BY <2>5, <2>7, <3>1
    <3> QED BY <2>1, <2>3, <2>4, <2>7, <3>1, <3>2 DEF StageStep
  <2>8. CASE todo = << y, d >> /\ AcceptedIds \subseteq {id}
    <3>1. Head(todo) = y /\ Len(todo) = 2 /\ Tail(todo) = << d >> BY <2>8
    <3>2. Calm(todo) /\ Calm(Tail(todo)) BY <2>5, <2>8, <3>1
    <3> QED BY <1>1, <2>3, <2>4, <2>8, <3>1, <3>2 DEF StageStep
  <2>9. CASE todo = << d >> /\ AcceptedIds \subseteq {id}
    <3>1. Head(todo) = d /\ Len(todo) = 1 /\ Tail(todo) = << >> BY <2>9
    <3>2. Calm(todo) /\ Calm(Tail(todo)) BY <2>5, <2>9, <3>1
    <3> QED BY <2>1, <2>3, <2>9, <3>1, <3>2 DEF StageStep
  <2>10. \/ todo = << x, b, y, d >>
         \/ todo = << b, y, d >> /\ AcceptedIds = {}
         \/ todo = << y, d >> /\ AcceptedIds \subseteq {id}
         \/ todo = << d >> /\ AcceptedIds \subseteq {id}
    <3>1. \/ todo = ActivateCommits(id)
          \/ todo = Tail(ActivateCommits(id)) /\ AcceptedIds = {}
          \/ todo = Tail(Tail(ActivateCommits(id))) /\ AcceptedIds \subseteq {id}
          \/ todo = Tail(Tail(Tail(ActivateCommits(id)))) /\ AcceptedIds \subseteq {id}
      BY <1>3 DEF Approving
    <3> QED BY <2>4, <3>1, Zenon
  <2> HIDE DEF Result
  <2> QED BY <2>6, <2>7, <2>8, <2>9, <2>10
<1>4. ASSUME Deactivating PROVE Result
  <2>1. "none" \in decided BY <1>4 DEF Deactivating
  <2>2. DeactivateCommits = << y, x >> BY <1>1 DEF DeactivateCommits
  <2>3. Tail(<< y, x >>) = << x >> /\ Tail(<< x >>) = << >> OBVIOUS
  <2>4. Calm(<< y, x >>) /\ Calm(<< x >>) /\ Calm(<< >>) BY <1>2 DEF Calm
  <2>5. CASE todo = << y, x >>
    <3>1. Head(todo) = y /\ Len(todo) = 2 BY <2>5
    <3> QED BY <1>1, <2>1, <2>2, <2>3, <2>4, <2>5, <3>1 DEF StageStep
  <2>6. CASE todo = << x >> /\ active = "none"
    <3>1. Head(todo) = x /\ Len(todo) = 1 BY <2>6
    <3>2. Tail(todo) = << >> BY <2>3, <2>6
    <3>3. Calm(todo) /\ Calm(Tail(todo)) BY <2>4, <2>6, <3>2
    <3> QED BY <1>1, <2>1, <2>6, <3>1, <3>2, <3>3 DEF StageStep
  <2> QED BY <1>4, <2>2, <2>3, <2>5, <2>6 DEF Deactivating
<1>5. Result
  <2>1. Deactivating \/ \E id \in InHouse \cup References : Approving(id) BY DEF Stage
  <2>2. ASSUME NEW id \in InHouse \cup References, Approving(id) PROVE Result BY <1>3, <2>2
  <2> HIDE DEF Result
  <2> QED BY <1>4, <2>1, <2>2
<1> QED BY <1>5

\* A commit of a save: the pool and what is still to be written add up to the same.
LEMMA SavingCommitKeeps ==
  ASSUME DeskInv, Commit, Saving
  PROVE  DeskInv'
<1>1. PICK q, t, c : q = todo /\ t = Tail(q) /\ c = q[1] OBVIOUS
<1>2. IsQueue(q) /\ q # << >> BY <1>1 DEF DeskInv, DeskTables, Commit
<1>3. /\ IsQueue(t) /\ Head(q) = c /\ 1 \in DOMAIN q
      /\ \A k \in DOMAIN t : k + 1 \in DOMAIN q /\ t[k] = q[k + 1] /\ k \in Nat
      /\ \A k \in DOMAIN q : k # 1 => k - 1 \in DOMAIN t /\ t[k - 1] = q[k] /\ k \in Nat
  BY <1>1, <1>2, QueueTail
<1>4. /\ \A k \in DOMAIN q : DeskCommit(q[k])
      /\ \A k \in DOMAIN q : q[k].do \in {"insert", "wipe"} /\ (q[k].do = "wipe" => k = 1)
  BY <1>1 DEF DeskInv, DeskTables, Saving
<1>5. c.do \in {"insert", "wipe"} /\ DeskCommit(c) BY <1>1, <1>3, <1>4
<1>6. \A k \in DOMAIN t : t[k].do = "insert" /\ DeskCommit(t[k])
  <2> SUFFICES ASSUME NEW k \in DOMAIN t PROVE t[k].do = "insert" /\ DeskCommit(t[k]) OBVIOUS
  <2>1. k + 1 \in DOMAIN q /\ t[k] = q[k + 1] /\ k + 1 # 1
    <3>1. 0 \notin DOMAIN t BY <1>3, QueueOf DEF IsQueue
    <3> QED BY <1>3, <3>1
  <2> QED BY <1>4, <2>1
<1>7. /\ todo' = t /\ pool' = PoolAfter(c) /\ active' = active /\ decided' = decided /\ kept' = kept
  BY <1>1, <1>3, <1>5 DEF Commit, ActiveAfter, DecidedAfter
<1>8. ~Wiping' /\ Stage' BY <1>6, <1>7 DEF Wiping, Stage, Saving
<1>9. Pending = Pending' \cup (IF c.do = "insert" THEN {c.row} ELSE {})
  <2>1. Pending' = {t[k].row : k \in {j \in DOMAIN t : t[j].do = "insert"}} BY <1>7 DEF Pending
  <2>2. Pending = {q[k].row : k \in {j \in DOMAIN q : q[j].do = "insert"}} BY <1>1 DEF Pending
  <2>3. ASSUME NEW r \in Pending PROVE r \in Pending' \cup (IF c.do = "insert" THEN {c.row} ELSE {})
    <3>1. PICK k \in DOMAIN q : q[k].do = "insert" /\ r = q[k].row BY <2>2, <2>3
    <3>2. CASE k = 1 BY <1>1, <3>1, <3>2
    <3>3. CASE k # 1 BY <1>3, <2>1, <3>1, <3>3
    <3> QED BY <3>2, <3>3
  <2>4. ASSUME NEW r \in Pending' PROVE r \in Pending
    <3>1. PICK k \in DOMAIN t : t[k].do = "insert" /\ r = t[k].row BY <2>1, <2>4
    <3>2. k + 1 \in DOMAIN q /\ q[k + 1] = t[k] BY <1>3
    <3> QED BY <2>2, <3>1, <3>2
  <2>5. c.do = "insert" => c.row \in Pending BY <1>1, <1>3, <2>2
  <2> QED BY <2>3, <2>4, <2>5
<1>10. /\ pool' \in Seq(CandidateRow) /\ Written' = Written /\ AcceptedIds' \subseteq AcceptedIds
       /\ Members(pool)' \subseteq Written
  <2>1. CASE c.do = "wipe"
    <3>1. pool' = << >> BY <1>7, <2>1 DEF PoolAfter
    <3>2. pool' \in Seq(CandidateRow) /\ Members(pool)' = {} /\ AcceptedIds' = {}
      BY <3>1 DEF Members, AcceptedIds, Marked
    <3>3. Pending' = Pending /\ Wiping BY <1>1, <1>3, <1>9, <2>1 DEF Wiping
    <3>4. Written' = Pending /\ Written = Pending BY <1>8, <3>2, <3>3 DEF Written
    <3> QED BY <3>2, <3>4
  <2>2. CASE c.do = "insert"
    <3>1. PICK p, r : p = pool /\ r = c.row OBVIOUS
    <3>2. pool' = Append(p, r) /\ p \in Seq(CandidateRow) /\ r \in CandidateRow /\ r.status # "ACCEPTED"
      BY <1>5, <1>7, <2>2, <3>1 DEF PoolAfter, DeskCommit, DeskInv, DeskTables
    <3>3. /\ pool' \in Seq(CandidateRow) /\ DOMAIN pool' = 1..(Len(p) + 1) /\ Len(p) \in Nat
          /\ DOMAIN p = 1..Len(p)
          /\ pool'[Len(p) + 1] = r /\ \A i \in 1..Len(p) : pool'[i] = p[i]
      BY <3>2
    <3>4. \A i \in DOMAIN pool' : (i \in DOMAIN p /\ pool'[i] = p[i]) \/ pool'[i] = r BY <3>3
    <3>5. Members(pool)' = Members(pool) \cup {r}
      <4>1. \A i \in DOMAIN p : i \in DOMAIN pool' /\ pool'[i] = p[i] BY <3>3
      <4>2. Len(p) + 1 \in DOMAIN pool' BY <3>3
      <4> QED BY <3>1, <3>3, <3>4, <4>1, <4>2 DEF Members
    <3>6. AcceptedIds' \subseteq AcceptedIds
      <4> SUFFICES ASSUME NEW i \in DOMAIN pool', pool'[i].status = "ACCEPTED"
          PROVE pool'[i].id \in AcceptedIds
        BY DEF AcceptedIds, Marked
      <4>1. i \in DOMAIN p /\ pool'[i] = p[i] BY <3>2, <3>4
      <4> QED BY <3>1, <4>1 DEF AcceptedIds, Marked
    <3>7. ~Wiping BY <1>1, <1>4, <2>2 DEF Wiping
    <3>8. Written' = Pending' \cup Members(pool)' /\ Written = Pending \cup Members(pool)
      BY <1>8, <3>7 DEF Written
    <3> QED BY <1>9, <2>2, <3>1, <3>3, <3>5, <3>6, <3>8
  <2> QED BY <1>5, <2>1, <2>2
<1>11. DeskTables' BY <1>3, <1>6, <1>7, <1>10 DEF DeskInv, DeskTables, IsQueue, Members
<1>12. ProposalPart'
  <2>1. BestIn(Written) BY DEF DeskInv, ProposalPart
  <2>2. BestIn(Written)' BY <1>10, <2>1 DEF BestIn
  <2>3. BestIn(Members(pool))' BY <1>10, <2>1 DEF BestIn
  <2> QED BY <2>2, <2>3 DEF ProposalPart
<1>13. KeptPart' BY <1>7, <1>10 DEF DeskInv, KeptPart
<1>14. DecidedPart'
  <2>1. active \in decided /\ AcceptedIds \subseteq decided /\ \A a, b \in AcceptedIds : a = b
    BY DEF DeskInv, DecidedPart
  <2> QED BY <1>7, <1>10, <2>1 DEF DecidedPart
<1> QED BY <1>8, <1>11, <1>12, <1>13, <1>14 DEF DeskInv

\* While neither a wipe nor an insertion is due, before and after a step, only
\* what becomes of the rows' statuses is left to look at.
LEMMA CalmKeeps ==
  ASSUME DeskInv, Calm(todo), Calm(todo'), IsQueue(todo'), \A k \in DOMAIN todo' : DeskCommit(todo'[k]),
         pool' \in Seq(CandidateRow), (BestIn(Members(pool)) => BestIn(Members(pool)')),
         Ids(pool)' = Ids(pool), kept' = kept, DecidedPart', Stage'
  PROVE  DeskInv'
<1>1. Written = Members(pool) BY CalmIs
<1>2. Written' = Members(pool)' BY DEF Calm, Written, Pending, Wiping
<1>3. DeskTables' BY DEF DeskInv, DeskTables, IsQueue, Members
<1>4. ProposalPart'
  <2>1. BestIn(Members(pool)') BY DEF DeskInv, ProposalPart
  <2> QED BY <1>2, <2>1 DEF ProposalPart, BestIn
<1>5. KeptPart'
  <2>1. \A ref \in kept : ref \in Ids(pool)
    BY <1>1 DEF DeskInv, KeptPart, Ids, Members
  <2>2. \A ref \in Ids(pool)' : \E r \in Members(pool)' : r.id = ref BY DEF Ids, Members
  <2> QED BY <1>2, <2>1, <2>2 DEF KeptPart
<1> QED BY <1>3, <1>4, <1>5 DEF DeskInv

\* What a commit that changes statuses does.
LEMMA MarkedIs ==
  ASSUME pool \in Seq(CandidateRow), NEW S, NEW s \in {"CANDIDATE", "ACCEPTED"},
         pool' = WithStatus(S, s)
  PROVE  /\ pool' \in Seq(CandidateRow) /\ (BestIn(Members(pool)) => BestIn(Members(pool)'))
         /\ Ids(pool)' = Ids(pool)
         /\ AcceptedIds' = {pool[i].id : i \in {k \in DOMAIN pool :
                                IF k \in S THEN s = "ACCEPTED" ELSE pool[k].status = "ACCEPTED"}}
<1>1. PICK rows : rows = WithStatus(S, s) OBVIOUS
<1>2. /\ rows \in Seq(CandidateRow) /\ DOMAIN rows = DOMAIN pool
      /\ \A i \in DOMAIN pool : /\ rows[i].id = pool[i].id
                                /\ rows[i].status = IF i \in S THEN s ELSE pool[i].status
      /\ BestIn(Members(pool)) => BestIn(Members(rows))
  BY <1>1, StatusIs
<1>3. pool' = rows BY <1>1
<1>4. Members(pool)' = Members(rows) BY <1>3 DEF Members
<1>5. Ids(pool)' = Ids(pool) BY <1>2, <1>3 DEF Ids
<1>6. AcceptedIds' = {rows[i].id : i \in {k \in DOMAIN rows : rows[k].status = "ACCEPTED"}}
  BY <1>3 DEF AcceptedIds, Marked
<1>7. \A k \in DOMAIN pool : rows[k].status = "ACCEPTED" <=>
        IF k \in S THEN s = "ACCEPTED" ELSE pool[k].status = "ACCEPTED"
  BY <1>2
<1> QED BY <1>2, <1>3, <1>4, <1>5, <1>6, <1>7

\* The commit that takes every approval back.
LEMMA ClearIs ==
  ASSUME pool \in Seq(CandidateRow), Commit, Head(todo) = [do |-> "clear"]
  PROVE  /\ pool' \in Seq(CandidateRow) /\ (BestIn(Members(pool)) => BestIn(Members(pool)'))
         /\ Ids(pool)' = Ids(pool) /\ AcceptedIds' = {} /\ active' = active
         /\ decided' = IF Len(todo) = 1 THEN {active} ELSE decided
<1>1. PICK c : c = Head(todo) OBVIOUS
<1>2. c.do = "clear" BY <1>1
<1>3. pool' = PoolAfter(c) /\ active' = ActiveAfter(c) /\ decided' = DecidedAfter(c) BY <1>1 DEF Commit
<1>4. pool' = WithStatus(Marked, "CANDIDATE") BY <1>2, <1>3 DEF PoolAfter
<1>5. PICK S : S = Marked OBVIOUS
<1>6. /\ pool' \in Seq(CandidateRow) /\ (BestIn(Members(pool)) => BestIn(Members(pool)'))
      /\ Ids(pool)' = Ids(pool)
      /\ AcceptedIds' = {pool[i].id : i \in {k \in DOMAIN pool :
                             IF k \in S THEN "CANDIDATE" = "ACCEPTED" ELSE pool[k].status = "ACCEPTED"}}
  BY <1>4, <1>5, MarkedIs
<1>7. AcceptedIds' = {} BY <1>5, <1>6 DEF Marked
<1>8. active' = active BY <1>2, <1>3 DEF ActiveAfter
<1>9. decided' = IF Len(todo) = 1 THEN {active} ELSE decided
  BY <1>2, <1>3, <1>8 DEF DecidedAfter, ActiveAfter
<1> QED BY <1>6, <1>7, <1>8, <1>9

\* The commit that marks the candidate the operator chose.
LEMMA ApproveIs ==
  ASSUME pool \in Seq(CandidateRow), Commit, NEW id, Head(todo) = [do |-> "approve", id |-> id]
  PROVE  /\ pool' \in Seq(CandidateRow) /\ (BestIn(Members(pool)) => BestIn(Members(pool)'))
         /\ Ids(pool)' = Ids(pool) /\ AcceptedIds' \subseteq AcceptedIds \cup {id}
         /\ active' = active /\ decided' = decided
<1>1. PICK c : c = Head(todo) OBVIOUS
<1>2. c.do = "approve" /\ c.id = id BY <1>1
<1>3. pool' = PoolAfter(c) /\ active' = ActiveAfter(c) /\ decided' = DecidedAfter(c) BY <1>1 DEF Commit
<1>4. PICK S : S = {i \in DOMAIN pool : pool[i].id = id} OBVIOUS
<1>5. pool' = WithStatus(S, "ACCEPTED") BY <1>2, <1>3, <1>4 DEF PoolAfter
<1>6. /\ pool' \in Seq(CandidateRow) /\ (BestIn(Members(pool)) => BestIn(Members(pool)'))
      /\ Ids(pool)' = Ids(pool)
      /\ AcceptedIds' = {pool[i].id : i \in {k \in DOMAIN pool :
                             IF k \in S THEN "ACCEPTED" = "ACCEPTED" ELSE pool[k].status = "ACCEPTED"}}
  BY <1>5, MarkedIs
<1>7. AcceptedIds' \subseteq AcceptedIds \cup {id} BY <1>4, <1>6 DEF AcceptedIds, Marked
<1>8. active' = active /\ decided' = decided BY <1>2, <1>3 DEF ActiveAfter, DecidedAfter
<1> QED BY <1>6, <1>7, <1>8

\* The commits that empty or fill the one row of active_strategy.
LEMMA StopIs ==
  ASSUME pool \in Seq(CandidateRow), Commit,
         \/ Head(todo).do = "stop" \/ Head(todo).do = "activate"
  PROVE  /\ pool' \in Seq(CandidateRow) /\ (BestIn(Members(pool)) => BestIn(Members(pool)'))
         /\ Ids(pool)' = Ids(pool) /\ AcceptedIds' = AcceptedIds
         /\ active' = IF Head(todo).do = "stop" THEN "none" ELSE Head(todo).id
         /\ decided' = IF Len(todo) = 1 /\ Head(todo).do = "activate" THEN {Head(todo).id} ELSE decided
<1>1. PICK c : c = Head(todo) OBVIOUS
<1>2. c.do = "stop" \/ c.do = "activate" BY <1>1
<1>3. pool' = PoolAfter(c) /\ active' = ActiveAfter(c) /\ decided' = DecidedAfter(c) BY <1>1 DEF Commit
<1>4. pool' = pool BY <1>2, <1>3 DEF PoolAfter
<1>5. Ids(pool)' = Ids(pool) /\ Members(pool)' = Members(pool) /\ AcceptedIds' = AcceptedIds
  BY <1>4 DEF Ids, Members, AcceptedIds, Marked
<1>6. active' = IF c.do = "stop" THEN "none" ELSE c.id BY <1>2, <1>3 DEF ActiveAfter
<1>7. decided' = IF Len(todo) = 1 /\ c.do = "activate" THEN {c.id} ELSE decided
  BY <1>2, <1>3 DEF DecidedAfter, ActiveAfter
<1> QED BY <1>1, <1>4, <1>5, <1>6, <1>7

\* A commit of an approval or a deactivation.
LEMMA StageCommitKeeps ==
  ASSUME DeskInv, Commit, ~Saving
  PROVE  DeskInv'
<1>1. Calm(todo) /\ Calm(Tail(todo)) /\ StageStep BY StageIs DEF DeskInv
<1>2. todo' = Tail(todo) /\ kept' = kept BY DEF Commit
<1>3. pool \in Seq(CandidateRow) BY DEF DeskInv, DeskTables
<1>4. active \in decided /\ AcceptedIds \subseteq decided /\ \A a, b \in AcceptedIds : a = b
  BY DEF DeskInv, DecidedPart
<1>5. IsQueue(todo') /\ \A k \in DOMAIN todo' : DeskCommit(todo'[k])
  <2>1. PICK q : q = todo OBVIOUS
  <2>2. IsQueue(q) /\ q # << >> /\ \A k \in DOMAIN q : DeskCommit(q[k])
    BY <2>1 DEF DeskInv, DeskTables, Commit
  <2>3. IsQueue(Tail(q)) /\ \A k \in DOMAIN Tail(q) : DeskCommit(Tail(q)[k]) BY <2>2, QueueTail
  <2> QED BY <1>2, <2>1, <2>3
<1> DEFINE Effect == /\ pool' \in Seq(CandidateRow) /\ (BestIn(Members(pool)) => BestIn(Members(pool)'))
                     /\ Ids(pool)' = Ids(pool)
                     /\ DecidedPart' /\ Stage'
<1>6. ASSUME todo' = << >> PROVE Stage'
  <2>1. DOMAIN todo' = {} BY <1>6
  <2> QED BY <2>1 DEF Stage, Saving
<1>7. ASSUME NEW id \in InHouse \cup References, {id, "none"} \subseteq decided,
             Head(todo) = [do |-> "clear"], Len(todo) = 4,
             Tail(todo) = Tail(ActivateCommits(id))
      PROVE  Effect
  <2>1. /\ pool' \in Seq(CandidateRow) /\ (BestIn(Members(pool)) => BestIn(Members(pool)'))
        /\ Ids(pool)' = Ids(pool) /\ AcceptedIds' = {} /\ active' = active /\ decided' = decided
    BY <1>3, <1>7, ClearIs
  <2>2. DecidedPart' BY <1>4, <2>1 DEF DecidedPart
  <2>3. Approving(id)' BY <1>2, <1>7, <2>1 DEF Approving, ActivateCommits
  <2> QED BY <2>1, <2>2, <2>3 DEF Stage
<1>8. ASSUME NEW id \in InHouse \cup References, {id, "none"} \subseteq decided,
             Head(todo) = [do |-> "approve", id |-> id], AcceptedIds = {},
             Tail(todo) = Tail(Tail(ActivateCommits(id)))
      PROVE  Effect
  <2>1. /\ pool' \in Seq(CandidateRow) /\ (BestIn(Members(pool)) => BestIn(Members(pool)'))
        /\ Ids(pool)' = Ids(pool) /\ AcceptedIds' \subseteq {id} /\ active' = active /\ decided' = decided
    BY <1>3, <1>8, ApproveIs
  <2>2. DecidedPart' BY <1>4, <1>8, <2>1 DEF DecidedPart
  <2>3. Approving(id)' BY <1>2, <1>8, <2>1 DEF Approving, ActivateCommits
  <2> QED BY <2>1, <2>2, <2>3 DEF Stage
<1>9. ASSUME NEW id \in InHouse \cup References, {id, "none"} \subseteq decided,
             Head(todo) = [do |-> "stop"], Len(todo) = 2, AcceptedIds \subseteq {id},
             Tail(todo) = Tail(Tail(Tail(ActivateCommits(id))))
      PROVE  Effect
  <2>1. /\ pool' \in Seq(CandidateRow) /\ (BestIn(Members(pool)) => BestIn(Members(pool)'))
        /\ Ids(pool)' = Ids(pool) /\ AcceptedIds' = AcceptedIds /\ active' = "none" /\ decided' = decided
    BY <1>3, <1>9, StopIs
  <2>2. DecidedPart' BY <1>4, <1>9, <2>1 DEF DecidedPart
  <2>3. Approving(id)' BY <1>2, <1>9, <2>1 DEF Approving, ActivateCommits
  <2> QED BY <2>1, <2>2, <2>3 DEF Stage
<1>10. ASSUME NEW id \in InHouse \cup References,
              Head(todo) = [do |-> "activate", id |-> id], Len(todo) = 1, AcceptedIds \subseteq {id},
              Tail(todo) = << >>
       PROVE  Effect
  <2>1. /\ pool' \in Seq(CandidateRow) /\ (BestIn(Members(pool)) => BestIn(Members(pool)'))
        /\ Ids(pool)' = Ids(pool) /\ AcceptedIds' = AcceptedIds /\ active' = id /\ decided' = {id}
    BY <1>3, <1>10, StopIs
  <2>2. DecidedPart' BY <1>4, <1>10, <2>1 DEF DecidedPart
  <2> QED BY <1>2, <1>6, <1>10, <2>1, <2>2
<1>11. ASSUME "none" \in decided, Head(todo) = [do |-> "stop"], Len(todo) = 2,
              Tail(todo) = Tail(DeactivateCommits)
       PROVE  Effect
  <2>1. /\ pool' \in Seq(CandidateRow) /\ (BestIn(Members(pool)) => BestIn(Members(pool)'))
        /\ Ids(pool)' = Ids(pool) /\ AcceptedIds' = AcceptedIds /\ active' = "none" /\ decided' = decided
    BY <1>3, <1>11, StopIs
  <2>2. DecidedPart' BY <1>4, <1>11, <2>1 DEF DecidedPart
  <2>3. Deactivating' BY <1>2, <1>11, <2>1 DEF Deactivating, DeactivateCommits
  <2> QED BY <2>1, <2>2, <2>3 DEF Stage
<1>12. ASSUME Head(todo) = [do |-> "clear"], Len(todo) = 1, Tail(todo) = << >>, active = "none"
       PROVE  Effect
  <2>1. /\ pool' \in Seq(CandidateRow) /\ (BestIn(Members(pool)) => BestIn(Members(pool)'))
        /\ Ids(pool)' = Ids(pool) /\ AcceptedIds' = {} /\ active' = "none" /\ decided' = {"none"}
    BY <1>3, <1>12, ClearIs
  <2>2. DecidedPart' BY <1>4, <2>1 DEF DecidedPart
  <2> QED BY <1>2, <1>6, <1>12, <2>1, <2>2
<1>13. Effect
  <2> HIDE DEF Effect
  <2> QED BY <1>1, <1>7, <1>8, <1>9, <1>10, <1>11, <1>12 DEF StageStep
<1> QED BY <1>1, <1>2, <1>5, <1>13, CalmKeeps

\* The operator's buttons start an operation and touch nothing yet.
LEMMA ButtonKeeps ==
  ASSUME DeskInv, Idle, NEW q, todo' = q, IsQueue(q), Calm(q), \A k \in DOMAIN q : DeskCommit(q[k]),
         UNCHANGED << pool, active, kept >>, decided \subseteq decided', Stage'
  PROVE  DeskInv'
<1>1. Calm(todo) BY DEF Idle, Calm
<1>2. Calm(todo') /\ IsQueue(todo') /\ \A k \in DOMAIN todo' : DeskCommit(todo'[k]) OBVIOUS
<1>3. /\ pool' \in Seq(CandidateRow) /\ (BestIn(Members(pool)) => BestIn(Members(pool)'))
      /\ Ids(pool)' = Ids(pool)
  BY DEF DeskInv, DeskTables, Ids, Members
<1>4. DecidedPart' BY DEF DeskInv, DecidedPart, AcceptedIds, Marked
<1> QED BY <1>1, <1>2, <1>3, <1>4, CalmKeeps

\* The operator accepts a candidate (Accept).
LEMMA AcceptKeeps ==
  ASSUME DeskInv, NEW id \in offered, Accept(id)
  PROVE  DeskInv'
<1>1. PICK x, b, y, d : /\ x = [do |-> "clear"] /\ b = [do |-> "approve", id |-> id]
                        /\ y = [do |-> "stop"] /\ d = [do |-> "activate", id |-> id]
  OBVIOUS
<1>2. PICK q, A : q = << x, b, y, d >> /\ A = {x, b, y, d} OBVIOUS
<1>3. q = ActivateCommits(id) BY <1>1, <1>2 DEF ActivateCommits
<1>4. x.do = "clear" /\ b.do = "approve" /\ y.do = "stop" /\ d.do = "activate" BY <1>1
<1>5. q \in Seq(A) BY <1>2
<1>6. \A k \in DOMAIN q : q[k] \in A BY <1>5
<1>7. IsQueue(q) BY <1>5, QueueOf
<1>8. Calm(q) /\ \A k \in DOMAIN q : DeskCommit(q[k])
  BY <1>2, <1>4, <1>6 DEF Calm, DeskCommit
<1>9. id \in InHouse \cup References
  BY DEF Accept, Ids, DeskInv, DeskTables, CandidateRow
<1>10. Approving(id)' BY DEF Accept, Approving, ActivateCommits
<1>11. Stage' BY <1>9, <1>10 DEF Stage, InHouse
<1>12. Idle /\ todo' = q /\ UNCHANGED << pool, active, kept >> /\ decided \subseteq decided'
  BY <1>3 DEF Accept
<1> QED BY <1>7, <1>8, <1>11, <1>12, ButtonKeeps

\* The operator wants no trade (NoTrade).
LEMMA NoTradeKeeps == DeskInv /\ NoTrade => DeskInv'
<1> SUFFICES ASSUME DeskInv, NoTrade PROVE DeskInv' OBVIOUS
<1>1. PICK x, y : x = [do |-> "clear"] /\ y = [do |-> "stop"] OBVIOUS
<1>2. PICK q, A : q = << y, x >> /\ A = {x, y} OBVIOUS
<1>3. q = DeactivateCommits BY <1>1, <1>2 DEF DeactivateCommits
<1>4. x.do = "clear" /\ y.do = "stop" BY <1>1
<1>5. q \in Seq(A) BY <1>2
<1>6. \A k \in DOMAIN q : q[k] \in A BY <1>5
<1>7. IsQueue(q) BY <1>5, QueueOf
<1>8. Calm(q) /\ \A k \in DOMAIN q : DeskCommit(q[k])
  BY <1>2, <1>4, <1>6 DEF Calm, DeskCommit
<1>9. Stage' BY DEF NoTrade, Stage, Deactivating, DeactivateCommits
<1>10. Idle /\ todo' = q /\ UNCHANGED << pool, active, kept >> /\ decided \subseteq decided'
  BY <1>3 DEF NoTrade
<1> QED BY <1>7, <1>8, <1>9, <1>10, ButtonKeeps

\* A crash leaves the commits it has not made undone.
LEMMA DeskCrashKeeps == DeskInv /\ Crash => DeskInv'
<1> SUFFICES ASSUME DeskInv, Crash PROVE DeskInv' OBVIOUS
<1>1. todo' = << >> /\ pool' = pool /\ kept' = kept \cap Ids(pool) BY DEF Crash
<1>2. DOMAIN todo' = {} /\ IsQueue(todo') BY <1>1 DEF IsQueue, Members
<1>3. Written' = Members(pool) BY <1>1, <1>2 DEF Written, Pending, Wiping, Members
<1>4. DeskTables' BY <1>1, <1>2 DEF DeskInv, DeskTables
<1>5. ProposalPart'
  <2>1. Members(pool)' = Members(pool) BY <1>1 DEF Members
  <2> QED BY <1>3, <2>1 DEF DeskInv, ProposalPart, BestIn
<1>6. KeptPart' BY <1>1, <1>3 DEF KeptPart, Ids, Members
<1>7. DecidedPart' BY DEF DeskInv, DecidedPart, AcceptedIds, Marked, Crash
<1>8. Stage' BY <1>2 DEF Stage, Saving
<1> QED BY <1>4, <1>5, <1>6, <1>7, <1>8 DEF DeskInv

\* The rest sends messages only.
LEMMA MessageKeeps ==
  ASSUME DeskInv, UNCHANGED << pool, active, todo, kept, decided >>
  PROVE  DeskInv'
<1>1. DeskTables' BY DEF DeskInv, DeskTables, IsQueue, Members
<1>2. Members(pool)' = Members(pool) /\ Written' = Written
  BY DEF Members, Written, Pending, Wiping
<1>3. ProposalPart' BY <1>2 DEF DeskInv, ProposalPart, BestIn
<1>4. KeptPart' BY <1>2 DEF DeskInv, KeptPart
<1>5. DecidedPart' BY DEF DeskInv, DecidedPart, AcceptedIds, Marked
<1>6. Stage'
  <2>1. AcceptedIds' = AcceptedIds BY DEF AcceptedIds, Marked
  <2>2. CASE Saving BY <2>2 DEF Stage, Saving
  <2>3. CASE Deactivating BY <2>3 DEF Stage, Deactivating, DeactivateCommits
  <2>4. ASSUME NEW id \in InHouse \cup References, Approving(id) PROVE Stage'
    <3>1. Approving(id)' BY <2>1, <2>4 DEF Approving, ActivateCommits
    <3> QED BY <3>1 DEF Stage, InHouse
  <2> QED BY <2>2, <2>3, <2>4 DEF DeskInv, Stage
<1> QED BY <1>1, <1>3, <1>4, <1>5, <1>6 DEF DeskInv

\* What the candidates, the active strategy and the operations in progress always satisfy.
THEOREM DeskInvariant == Spec => []DeskInv
<1>1. Init => DeskInv BY InitDesk
<1>2. DeskInv /\ [Next]_vars => DeskInv'
  <2> SUFFICES ASSUME DeskInv, [Next]_vars PROVE DeskInv' OBVIOUS
  <2>1. CASE Commit BY <2>1, SavingCommitKeeps, StageCommitKeeps
  <2>2. ASSUME NEW h \in Histories, RunPipeline(h) PROVE DeskInv' BY <2>2, PipelineKeeps
  <2>3. ASSUME NEW ref \in References, NEW m \in Imported, Import(ref, m) PROVE DeskInv'
    BY <2>3, ImportKeeps
  <2>4. ASSUME NEW id \in offered, Accept(id) PROVE DeskInv' BY <2>4, AcceptKeeps
  <2>5. ASSUME NEW index \in 0..5, ChooseAnother(index) PROVE DeskInv'
    BY <2>5, MessageKeeps DEF ChooseAnother
  <2>6. CASE SelectParameters BY <2>6, MessageKeeps DEF SelectParameters
  <2>7. CASE NoTrade BY <2>7, NoTradeKeeps
  <2>8. CASE Crash BY <2>8, DeskCrashKeeps
  <2>9. CASE UNCHANGED vars BY <2>9, MessageKeeps DEF vars
  <2> QED BY <2>1, <2>2, <2>3, <2>4, <2>5, <2>6, <2>7, <2>8, <2>9 DEF Next
<1> QED BY <1>1, <1>2, PTL DEF Spec

\* Only the operator's decisions make a strategy active or a candidate accepted,
\* and never are two accepted.
THEOREM OperatorHasSay == Spec => []OperatorDecides
<1>1. DeskInv => OperatorDecides
  <2> SUFFICES ASSUME DeskInv PROVE OperatorDecides OBVIOUS
  <2>1. active \in decided /\ AcceptedIds \subseteq decided /\ \A a, b \in AcceptedIds : a = b
    BY DEF DeskInv, DecidedPart
  <2>2. Cardinality(AcceptedIds) <= 1
    <3>1. CASE AcceptedIds = {} BY <3>1, FS_EmptySet
    <3>2. ASSUME NEW a \in AcceptedIds PROVE Cardinality(AcceptedIds) <= 1
      <4>1. AcceptedIds = {a} BY <2>1
      <4>2. Cardinality({a}) = 1 BY FS_Singleton
      <4> QED BY <4>1, <4>2
    <3> QED BY <3>1, <3>2
  <2> QED BY <2>1, <2>2 DEF OperatorDecides
<1> QED BY <1>1, DeskInvariant, PTL

\* The proposal is the best of the candidates that pass the rules.
THEOREM BestIsProposed == Spec => []ProposalIsBest
<1>1. DeskInv => ProposalIsBest
  BY DEF DeskInv, ProposalPart, BestIn, Members, ProposalIsBest
<1> QED BY <1>1, DeskInvariant, PTL

\* Between operations no imported reference is missing from the pool.
THEOREM ReferencesStay == Spec => []ReferencesAreKept
<1>1. DeskInv => ReferencesAreKept
  <2> SUFFICES ASSUME DeskInv, Idle PROVE kept \subseteq Ids(pool) BY DEF ReferencesAreKept
  <2>1. Written = Members(pool) BY DEF Idle, Written, Pending, Wiping
  <2> QED BY <2>1 DEF DeskInv, KeptPart, Members, Ids
<1> QED BY <1>1, DeskInvariant, PTL
================================================================================
