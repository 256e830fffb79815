-------------------------------- MODULE Ordering --------------------------------
(* List comprehensions and stable sorts, by the place of an element: as many    *)
(* elements come before it.  The operators of the sequence modules for the same *)
(* purpose (SelectSeq, SortSeq) have no definition the provers can expand.       *)
EXTENDS Naturals, Sequences, FiniteSets

\* The numbers of a finite set in ascending order.
Ascending(S) ==
  [r \in 1..Cardinality(S) |-> CHOOSE i \in S : Cardinality({j \in S : j < i}) = r - 1]

\* What stands at the places S of a list, in the order of the list.
Picked(list, S) == [r \in 1..Cardinality(S) |-> list[Ascending(S)[r]]]

================================================================================
