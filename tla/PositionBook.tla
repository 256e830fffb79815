---------------------------- MODULE PositionBook ----------------------------
(***************************************************************************)
(* What the paper_trades table promises to whoever reads it: positions are *)
(* entered under the limits of the settings, left once, and never touched  *)
(* again.  How a cycle decides and what happens between its commits is not *)
(* visible here; PaperTrading implements this book.                        *)
(***************************************************************************)
EXTENDS Naturals, FiniteSets

CONSTANTS
  Trades,             \* identities of the trades
  Symbols, Agents,
  MaxOpen,            \* paper_max_open_positions
  MaxPerDay,          \* paper_max_trades_per_day, 0 for no limit
  LastDay             \* bound: trading days

VARIABLES
  book,               \* the status, symbol, agent and day of each trade
  today

Absent == [status |-> "NONE", symbol |-> "none", agent |-> "none", opened |-> 0]
Position(s, a, d) == [status |-> "OPEN", symbol |-> s, agent |-> a, opened |-> d]

Held == {t \in Trades : book[t].status = "OPEN"}
Entered(d) == {t \in Trades : book[t].status # "NONE" /\ book[t].opened = d}

Init ==
  /\ book = [t \in Trades |-> Absent]
  /\ today = 1

Enter(t, s, a) ==
  /\ book[t].status = "NONE"
  /\ Cardinality(Held) < MaxOpen
  /\ \A u \in Held : book[u].symbol # s /\ book[u].agent # a
  /\ MaxPerDay > 0 => Cardinality(Entered(today)) < MaxPerDay
  /\ book' = [book EXCEPT ![t] = Position(s, a, today)]
  /\ UNCHANGED today

Leave(t) ==
  /\ book[t].status = "OPEN"
  /\ book' = [book EXCEPT ![t].status = "CLOSED"]
  /\ UNCHANGED today

Tomorrow ==
  /\ today < LastDay
  /\ today' = today + 1
  /\ UNCHANGED book

Next ==
  \/ \E t \in Trades : Leave(t) \/ \E s \in Symbols, a \in Agents : Enter(t, s, a)
  \/ Tomorrow

Spec == Init /\ [][Next]_<<book, today>>

-----------------------------------------------------------------------------
\* The limits the book keeps, in its own words; PaperTrading states the same
\* of its table.
Limits ==
  /\ Cardinality(Held) <= MaxOpen
  /\ \A t, u \in Held : t # u => /\ book[t].symbol # book[u].symbol
                                /\ book[t].agent # book[u].agent
  /\ MaxPerDay > 0 => \A d \in 1..LastDay : Cardinality(Entered(d)) <= MaxPerDay
=============================================================================
