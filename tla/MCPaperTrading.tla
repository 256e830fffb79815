--------------------------- MODULE MCPaperTrading ---------------------------
(***************************************************************************)
(* Values for the constants of PaperTrading that a .cfg cannot write down. *)
(***************************************************************************)
EXTENDS PaperTrading

CONSTANTS s1, s2, a1, a2

On(s, a) == [symbol |-> s, agent |-> a]
One == {<<On(s1, a1)>>}
\* After the first list the second meets an occupied agent and a held symbol.
Mixed == {<<On(s1, a1)>>, <<On(s2, a1), On(s1, a2)>>}
AllTraded == {{s1, s2}}
SomePlans == {{s1}, {s1, s2}}

\* Quotes at the stop and past +1.5R, for stops 2 and 1 away from the entry.
WideMarks == {-2, 4}
WideCaution == -5
NarrowMarks == {-1, 2}
NarrowCaution == -4

Oversold == -2
=============================================================================
