-------------------------- MODULE TradePipelineProofs --------------------------
(* The properties of TradePipeline for any number of trades, crashes and rises  *)
(* of the stop.  The argument rests on the queue of commits an operation still  *)
(* has to make: each fits its row as it is, or follows the commit before it.    *)
EXTENDS TradePipeline, FiniteSetTheorems, SequenceTheorems, TLAPS

States ==
  {"QUALIFIED", "APPROVED", "ENTRY_PENDING", "PARTIALLY_FILLED", "OPEN", "EXIT_PENDING",
   "CLOSED", "CANCELLED"}

Rows ==
  [state : States, key : Instruments, qty : 1..Quantity, filled : 0..Quantity, stop : Nat,
   booked : {"zero", "entryCost", "result"}]

Commits ==
  [do : {"halt"}]
    \cup [do : {"intent"}, trade : Trades, key : Instruments]
    \cup [do : {"transition"}, trade : Trades, state : States]
    \cup [do : {"fill"}, trade : Trades, filled : 0..Quantity, booked : {"entryCost", "result"},
          state : {"OPEN", "CLOSED"}]
    \cup [do : {"resolve"}, trade : Trades]

\* A row holds shares when its state says so, and no more than were ordered.
Fits(row) ==
  /\ row.filled <= row.qty
  /\ row.state \in {"QUALIFIED", "APPROVED", "ENTRY_PENDING", "CANCELLED"} => row.filled = 0
  /\ row.state \in {"OPEN", "PARTIALLY_FILLED", "EXIT_PENDING", "CLOSED"} => row.filled > 0
  /\ row.booked = "result" <=> row.state = "CLOSED"
  /\ row.state \in {"QUALIFIED", "APPROVED", "ENTRY_PENDING", "PARTIALLY_FILLED"} =>
       row.qty = Quantity

RowsFit ==
  /\ trades \in [Trades -> Rows \cup {NoRow}]
  /\ \A t \in Trades : trades[t] # NoRow => Fits(trades[t])

\* A commit fits the row of the table it is about.
Moves(table, c, from, to) == c.do = "transition" /\ c.state = to /\ table[c.trade].state \in from

Ready(table, c) ==
  \/ c.do = "halt"
  \/ c.do = "intent" /\ table[c.trade] = NoRow
  \/ Moves(table, c, {"QUALIFIED"}, "APPROVED")
  \/ Moves(table, c, {"APPROVED"}, "ENTRY_PENDING")
  \/ Moves(table, c, {"ENTRY_PENDING"}, "CANCELLED")
  \/ Moves(table, c, {"OPEN", "PARTIALLY_FILLED"}, "EXIT_PENDING")
  \/ /\ c.do = "fill" /\ c.state = "OPEN" /\ c.booked = "entryCost" /\ c.filled = Quantity
     /\ table[c.trade].state = "ENTRY_PENDING"
  \/ /\ c.do = "fill" /\ c.state = "CLOSED" /\ c.booked = "result"
     /\ c.filled = table[c.trade].filled
     /\ table[c.trade].state = "EXIT_PENDING"
  \/ c.do = "resolve" /\ table[c.trade].state \in {"ENTRY_PENDING", "PARTIALLY_FILLED"}

To(c, s) == c.do = "transition" /\ c.state = s

\* It follows on the commit before it.
Follows(table, b, c) ==
  /\ b.do # "halt" /\ c.do # "halt" /\ b.trade = c.trade
  /\ \/ b.do = "intent" /\ To(c, "APPROVED")
     \/ To(b, "APPROVED") /\ To(c, "ENTRY_PENDING")
     \/ /\ To(b, "ENTRY_PENDING")
        /\ c.do = "fill" /\ c.state = "OPEN" /\ c.booked = "entryCost" /\ c.filled = Quantity
     \/ /\ To(b, "EXIT_PENDING")
        /\ c.do = "fill" /\ c.state = "CLOSED" /\ c.booked = "result"
        /\ c.filled = table[c.trade].filled

\* Either it is ready and nothing before it in the queue touches its row, or it follows.
Placed(table, queue, i) ==
  \/ /\ Ready(table, queue[i])
     /\ queue[i].do # "halt" =>
          \A j \in 1..(i - 1) : queue[j].do = "halt" \/ queue[j].trade # queue[i].trade
  \/ i > 1 /\ Follows(table, queue[i - 1], queue[i])

WellPlaced(table, queue) ==
  queue \in Seq(Commits) /\ \A i \in 1..Len(queue) : Placed(table, queue, i)

QueueFits ==
  /\ WellPlaced(trades, todo)
  /\ op = "none" => todo = << >>
  /\ ~up => op = "none"

\* The breaker has the halt and the exit of every open position done or queued.
Liquidates(queue) ==
  /\ \A i \in 1..Len(queue) :
       \/ queue[i].do = "halt"
       \/ To(queue[i], "EXIT_PENDING")
       \/ queue[i].do = "fill" /\ queue[i].state = "CLOSED"
  /\ systemState = "HALTED" \/ \E i \in 1..Len(queue) : queue[i].do = "halt"
  /\ \A t \in OpenPositions :
       \E i \in 1..Len(queue) : To(queue[i], "EXIT_PENDING") /\ queue[i].trade = t

BreakerLiquidates == op = "breaker" => Liquidates(todo)

IInv == RowsFit /\ QueueFits /\ BreakerLiquidates

--------------------------------------------------------------------------------
(* Rows and commits.                                                             *)

LEMMA RowsAreNoNoRow ==
  ASSUME NEW row \in Rows
  PROVE  row # NoRow
BY DEF Rows, States, NoRow

\* A row whose state is one of States is a row.
LEMMA StateMakesRow ==
  ASSUME RowsFit, NEW t \in Trades, trades[t].state \in States
  PROVE  trades[t] \in Rows /\ Fits(trades[t])
<1>1. trades[t] # NoRow
  BY DEF NoRow, States
<1> QED
  BY <1>1 DEF RowsFit

\* A ready commit leaves a row that fits, in a state that the life of a trade allows.
LEMMA ReadyFits ==
  ASSUME RowsFit, NEW c \in Commits, c.do # "halt", Ready(trades, c)
  PROVE  /\ c.trade \in Trades
         /\ Updated(trades[c.trade], c) \in Rows
         /\ Fits(Updated(trades[c.trade], c))
<1> DEFINE t == c.trade  row == trades[c.trade]
<1>1. t \in Trades /\ Quantity \in Nat \ {0}
  BY TradePipelineAssumption DEF Commits
<1>2. CASE c.do = "intent"
  <2>1. c.key \in Instruments
    BY <1>2 DEF Commits
  <2>2. Updated(row, c) = [ state |-> "QUALIFIED", key |-> c.key, qty |-> Quantity,
                            filled |-> 0, stop |-> 0, booked |-> "zero" ]
    BY <1>2 DEF Updated
  <2> QED
    BY <1>1, <2>1, <2>2 DEF Rows, States, Fits
<1>3. CASE c.do = "transition"
  <2>1. row \in Rows /\ Fits(row)
    BY <1>1, <1>3, StateMakesRow DEF Ready, Moves, States
  <2>2. Updated(row, c) = [row EXCEPT !.state = c.state]
    BY <1>3 DEF Updated
  <2>3. \/ c.state = "APPROVED" /\ row.state = "QUALIFIED"
        \/ c.state = "ENTRY_PENDING" /\ row.state = "APPROVED"
        \/ c.state = "CANCELLED" /\ row.state = "ENTRY_PENDING"
        \/ c.state = "EXIT_PENDING" /\ row.state \in {"OPEN", "PARTIALLY_FILLED"}
    BY <1>3 DEF Ready, Moves
  <2> QED
    BY <1>1, <2>1, <2>2, <2>3 DEF Rows, States, Fits
<1>4. CASE c.do = "fill"
  <2>1. row \in Rows /\ Fits(row)
    BY <1>1, <1>4, StateMakesRow DEF Ready, Moves, States
  <2>2. Updated(row, c) = [row EXCEPT !.state = c.state, !.filled = c.filled, !.booked = c.booked]
    BY <1>4 DEF Updated
  <2>3. \/ /\ c.state = "OPEN" /\ c.booked = "entryCost" /\ c.filled = Quantity
           /\ row.state = "ENTRY_PENDING"
        \/ /\ c.state = "CLOSED" /\ c.booked = "result" /\ c.filled = row.filled
           /\ row.state = "EXIT_PENDING"
    BY <1>4 DEF Ready, Moves
  <2> DEFINE new == Updated(row, c)
  <2>4. /\ new \in Rows
        /\ new.state = c.state /\ new.filled = c.filled /\ new.booked = c.booked /\ new.qty = row.qty
    <3>1. c.filled \in 0..Quantity /\ c.state \in States /\ c.booked \in {"zero", "entryCost", "result"}
      BY <1>4 DEF Commits, States
    <3> DEFINE n == [row EXCEPT !.state = c.state, !.filled = c.filled, !.booked = c.booked]
    <3>2. /\ n \in Rows /\ n.qty = row.qty
          /\ n.state = c.state /\ n.filled = c.filled /\ n.booked = c.booked
      BY <2>1, <3>1 DEF Rows
    <3> QED
      BY <2>2, <3>2
  <2>5. row.filled <= row.qty /\ row.qty \in Nat /\ row.filled \in Nat
    BY <2>1 DEF Rows, Fits
  <2>6. CASE c.state = "OPEN"
    <3>1. row.qty = Quantity
      BY <2>1, <2>3, <2>6 DEF Fits
    <3> QED
      BY <1>1, <2>3, <2>4, <2>6, <3>1 DEF Fits
  <2>7. CASE c.state = "CLOSED"
    <3>1. row.filled > 0
      BY <2>1, <2>3, <2>7 DEF Fits
    <3> QED
      BY <1>1, <2>3, <2>4, <2>5, <2>7, <3>1 DEF Fits
  <2> QED
    BY <2>3, <2>6, <2>7
<1>5. CASE c.do = "resolve"
  <2>1. row \in Rows /\ Fits(row) /\ row.state \in {"ENTRY_PENDING", "PARTIALLY_FILLED"}
    BY <1>1, <1>5, StateMakesRow DEF Ready, Moves, States
  <2>2. Updated(row, c) = Resolved(row)
    BY <1>5 DEF Updated
  <2>3. CASE row.filled > 0
    <3> DEFINE new == Updated(row, c)
    <3>1. /\ new \in Rows /\ new.state = "OPEN" /\ new.qty = row.filled
          /\ new.filled = row.filled /\ new.booked = row.booked
      <4>1. new = [row EXCEPT !.state = "OPEN", !.qty = row.filled]
        BY <2>2, <2>3 DEF Resolved
      <4>2. row.filled \in 1..Quantity /\ "OPEN" \in States
        BY <2>1, <2>3 DEF Rows, States
      <4> HIDE DEF new
      <4> QED
        BY <2>1, <4>1, <4>2 DEF Rows
    <3>2. row.booked # "result" /\ row.filled \in Nat
      BY <2>1 DEF Fits, Rows
    <3> QED
      BY <1>1, <2>3, <3>1, <3>2 DEF Fits
  <2>4. CASE ~(row.filled > 0)
    BY <1>1, <2>1, <2>2, <2>4 DEF Resolved, Rows, States, Fits
  <2> QED
    BY <2>3, <2>4
<1> QED
  BY <1>1, <1>2, <1>3, <1>4, <1>5 DEF Commits

\* What is left of the queue once its head is committed.
LEMMA FollowerIsReady ==
  ASSUME RowsFit, NEW b \in Commits, NEW c \in Commits, Ready(trades, b), Follows(trades, b, c),
         trades' = [trades EXCEPT ![b.trade] = Updated(@, b)]
  PROVE  Ready(trades', c)
<1>1. b.trade \in Trades /\ b.do # "halt" /\ c.trade = b.trade
  BY ReadyFits DEF Follows
<1>2. trades'[c.trade] = Updated(trades[b.trade], b)
  BY <1>1 DEF RowsFit
<1>3. CASE b.do = "intent"
  BY <1>2, <1>3 DEF Follows, To, Ready, Moves, Updated
<1>4. CASE b.do = "transition"
  <2>1. trades[b.trade] \in Rows
    BY <1>1, <1>4, StateMakesRow DEF Ready, Moves, States
  <2>2. trades'[c.trade].state = b.state /\ trades'[c.trade].filled = trades[c.trade].filled
    BY <1>1, <1>2, <1>4, <2>1 DEF Updated, Rows
  <2> QED
    BY <1>4, <2>2 DEF Follows, To, Ready, Moves
<1> QED
  BY <1>3, <1>4 DEF Follows, To

--------------------------------------------------------------------------------
(* Commit.                                                                       *)

\* The rest of the queue stays well placed.
LEMMA CommitKeepsQueue ==
  ASSUME IInv, Commit
  PROVE  /\ WellPlaced(trades', todo')
         /\ Len(todo') = Len(todo) - 1
         /\ \A i \in 1..Len(todo') : todo'[i] = todo[i + 1]
<1> DEFINE c == todo[1]
<1>1. /\ todo \in Seq(Commits) /\ todo # << >> /\ todo' = Tail(todo) /\ Head(todo) = c
      /\ c \in Commits /\ 1 \in 1..Len(todo)
  BY DEF Commit, IInv, QueueFits, WellPlaced
<1>2. /\ todo' \in Seq(Commits) /\ Len(todo') = Len(todo) - 1
      /\ \A i \in 1..Len(todo') : todo'[i] = todo[i + 1] /\ i + 1 \in 1..Len(todo)
  BY <1>1
<1>3. Ready(trades, c)
  BY <1>1 DEF IInv, QueueFits, WellPlaced, Placed
<1>4. IF c.do = "halt" THEN trades' = trades
      ELSE trades' = [trades EXCEPT ![c.trade] = Updated(@, c)]
  BY <1>1 DEF Commit
<1>5. \A d \in Commits : d.do # "halt" => d.trade \in Trades
  BY DEF Commits
<1>6. \A d \in Commits : d.do # "halt" /\ (c.do = "halt" \/ c.trade # d.trade) =>
        trades'[d.trade] = trades[d.trade]
  BY <1>4, <1>5 DEF IInv, RowsFit
<1>7. \A d \in Commits : d.do # "halt" /\ trades'[d.trade] = trades[d.trade] /\ Ready(trades, d) => Ready(trades', d)
  BY DEF Ready, Moves
<1>8. ASSUME NEW i \in 1..Len(todo')
      PROVE  Placed(trades', todo', i)
  <2> DEFINE d == todo[i + 1]
  <2>1. d = todo'[i] /\ d \in Commits /\ Placed(trades, todo, i + 1)
    BY <1>1, <1>2 DEF IInv, QueueFits, WellPlaced
  <2>2. CASE Ready(trades, d) /\ (d.do # "halt" =>
               \A j \in 1..((i + 1) - 1) : todo[j].do = "halt" \/ todo[j].trade # d.trade)
    <3>1. d.do # "halt" => c.do = "halt" \/ c.trade # d.trade
      <4>1. 1 \in 1..((i + 1) - 1)
        BY <1>2
      <4> QED
        BY <2>2, <4>1
    <3>2. Ready(trades', d)
      BY <1>6, <1>7, <2>1, <2>2, <3>1 DEF Ready
    <3>3. d.do # "halt" => \A j \in 1..(i - 1) : todo'[j].do = "halt" \/ todo'[j].trade # d.trade
      <4> SUFFICES ASSUME d.do # "halt", NEW j \in 1..(i - 1)
                   PROVE  todo'[j].do = "halt" \/ todo'[j].trade # d.trade
        OBVIOUS
      <4>1. j + 1 \in 1..((i + 1) - 1) /\ j \in 1..Len(todo')
        BY <1>2
      <4> QED
        BY <1>2, <2>2, <4>1
    <3> QED
      BY <2>1, <3>2, <3>3 DEF Placed
  <2>3. CASE Follows(trades, todo[(i + 1) - 1], d)
    <3>1. Follows(trades, todo[i], d)
      BY <2>3
    <3>2. CASE i = 1
      <4>1. c.do # "halt"
        BY <3>1, <3>2 DEF Follows
      <4>2. Ready(trades', d)
        BY <1>1, <1>3, <1>4, <2>1, <3>1, <3>2, <4>1, FollowerIsReady DEF IInv
      <4> QED
        BY <2>1, <3>2, <4>2 DEF Placed
    <3>3. CASE i > 1
      <4> DEFINE b == todo[i]
      <4>1. i \in 1..Len(todo) /\ i - 1 \in 1..Len(todo') /\ todo'[i - 1] = b /\ b \in Commits
        BY <1>1, <1>2, <3>3
      <4>2. Placed(trades, todo, i)
        BY <4>1 DEF IInv, QueueFits, WellPlaced
      <4>3. To(b, "EXIT_PENDING") => ~Follows(trades, todo[i - 1], b)
        BY DEF Follows, To
      <4>4. To(b, "EXIT_PENDING") => c.do = "halt" \/ c.trade # b.trade
        <5>1. 1 \in 1..(i - 1)
          BY <3>3
        <5> QED
          BY <4>2, <4>3, <5>1 DEF Placed, To
      <4>5. To(b, "EXIT_PENDING") => trades'[d.trade] = trades[d.trade]
        BY <1>6, <2>1, <3>1, <4>4 DEF Follows
      <4>6. Follows(trades', b, d)
        BY <3>1, <4>5 DEF Follows, To
      <4> QED
        BY <2>1, <3>3, <4>1, <4>6 DEF Placed
    <3> QED
      BY <3>2, <3>3
  <2> QED
    BY <2>1, <2>2, <2>3 DEF Placed
<1> QED
  BY <1>2, <1>8 DEF WellPlaced

\* The rows stay fit.
LEMMA CommitKeepsRows ==
  ASSUME IInv, Commit
  PROVE  /\ RowsFit'
         /\ todo[1] \in Commits /\ Ready(trades, todo[1])
         /\ \A t \in Trades : todo[1].do = "halt" \/ todo[1].trade # t => trades'[t] = trades[t]
         /\ todo[1].do # "halt" =>
              trades'[todo[1].trade] = Updated(trades[todo[1].trade], todo[1])
<1> DEFINE c == todo[1]
<1>1. /\ todo \in Seq(Commits) /\ todo # << >> /\ Head(todo) = c
      /\ c \in Commits /\ 1 \in 1..Len(todo)
  BY DEF Commit, IInv, QueueFits, WellPlaced
<1>2. Ready(trades, c)
  BY <1>1 DEF IInv, QueueFits, WellPlaced, Placed
<1>3. CASE c.do = "halt"
  <2>1. trades' = trades
    BY <1>1, <1>3 DEF Commit
  <2> QED
    BY <1>1, <1>2, <1>3, <2>1 DEF IInv, RowsFit
<1>4. CASE c.do # "halt"
  <2>1. trades' = [trades EXCEPT ![c.trade] = Updated(@, c)]
    BY <1>1, <1>4 DEF Commit
  <2>2. /\ c.trade \in Trades /\ Updated(trades[c.trade], c) \in Rows
        /\ Fits(Updated(trades[c.trade], c))
    BY <1>1, <1>2, <1>4, ReadyFits DEF IInv
  <2> QED
    BY <1>1, <1>2, <1>4, <2>1, <2>2 DEF IInv, RowsFit
<1> QED
  BY <1>3, <1>4

\* While the breaker works, what is queued still liquidates the book.
LEMMA CommitKeepsLiquidation ==
  ASSUME IInv, Commit, Liquidates(todo)
  PROVE  Liquidates(todo)'
<1> DEFINE c == todo[1]
<1>1. /\ c \in Commits /\ Ready(trades, c) /\ RowsFit'
      /\ \A t \in Trades : c.do = "halt" \/ c.trade # t => trades'[t] = trades[t]
      /\ c.do # "halt" => trades'[c.trade] = Updated(trades[c.trade], c)
  BY CommitKeepsRows
<1>2. /\ Len(todo') = Len(todo) - 1
      /\ \A i \in 1..Len(todo') : todo'[i] = todo[i + 1]
  BY CommitKeepsQueue
<1>3. todo \in Seq(Commits) /\ 1 \in 1..Len(todo) /\ Head(todo) = c /\ Len(todo) \in Nat
  BY DEF Commit, IInv, QueueFits, WellPlaced
<1>4. \A i \in 1..Len(todo) : i = 1 \/ (i - 1 \in 1..Len(todo') /\ todo'[i - 1] = todo[i])
  BY <1>2, <1>3
<1>5. \A i \in 1..Len(todo') : \/ todo'[i].do = "halt"
                               \/ To(todo'[i], "EXIT_PENDING")
                               \/ todo'[i].do = "fill" /\ todo'[i].state = "CLOSED"
  <2> SUFFICES ASSUME NEW i \in 1..Len(todo')
               PROVE  \/ todo'[i].do = "halt"
                      \/ To(todo'[i], "EXIT_PENDING")
                      \/ todo'[i].do = "fill" /\ todo'[i].state = "CLOSED"
    OBVIOUS
  <2>1. i + 1 \in 1..Len(todo) /\ todo'[i] = todo[i + 1]
    BY <1>2, <1>3
  <2> QED
    BY <2>1 DEF Liquidates
<1>6. systemState' = "HALTED" \/ \E i \in 1..Len(todo') : todo'[i].do = "halt"
  <2>1. CASE c.do = "halt"
    BY <1>3, <2>1 DEF Commit
  <2>2. CASE c.do # "halt"
    <3>1. systemState' = systemState
      BY <1>3, <2>2 DEF Commit
    <3> QED
      BY <1>4, <2>2, <3>1 DEF Liquidates
  <2> QED
    BY <2>1, <2>2
<1>7. ASSUME NEW t \in Trades, trades'[t].state \in {"OPEN", "PARTIALLY_FILLED"}
      PROVE  \E i \in 1..Len(todo') : To(todo'[i], "EXIT_PENDING") /\ todo'[i].trade = t
  <2>1. c.do = "halt" \/ c.trade # t
    <3> SUFFICES ASSUME c.do # "halt", c.trade = t
                 PROVE  FALSE
      OBVIOUS
    <3>1. To(c, "EXIT_PENDING") \/ (c.do = "fill" /\ c.state = "CLOSED")
      BY <1>3 DEF Liquidates
    <3>2. trades[t] \in Rows
      BY <1>1, <3>1, StateMakesRow DEF IInv, Ready, Moves, To, States
    <3>3. trades'[t].state = c.state
      BY <1>1, <3>1, <3>2 DEF Updated, To, Rows
    <3> QED
      BY <1>7, <3>1, <3>3 DEF To
  <2>2. t \in OpenPositions
    BY <1>1, <1>7, <2>1 DEF OpenPositions, InState
  <2>3. PICK i \in 1..Len(todo) : To(todo[i], "EXIT_PENDING") /\ todo[i].trade = t
    BY <2>2 DEF Liquidates
  <2>4. i # 1
    BY <2>1, <2>3 DEF To
  <2> QED
    BY <1>4, <2>3, <2>4
<1> QED
  BY <1>5, <1>6, <1>7 DEF Liquidates, OpenPositions, InState

LEMMA CommitKeepsIInv ==
  ASSUME IInv, Commit
  PROVE  IInv'
<1>1. RowsFit'
  BY CommitKeepsRows
<1>2. op' = op /\ up' = up /\ up /\ todo # << >>
  BY DEF Commit
<1>3. QueueFits'
  BY <1>2, CommitKeepsQueue DEF IInv, QueueFits
<1>4. BreakerLiquidates'
  BY <1>2, CommitKeepsLiquidation DEF IInv, BreakerLiquidates
<1> QED
  BY <1>1, <1>3, <1>4 DEF IInv

--------------------------------------------------------------------------------
(* The start of an operation.                                                    *)

\* Rows come in some order, each of them once.
LEMMA RowOrdersList ==
  ASSUME NEW S \in SUBSET Trades, NEW rows \in RowOrders(S)
  PROVE  /\ rows \in Seq(S) /\ Len(rows) \in Nat
         /\ \A t \in S : \E i \in 1..Len(rows) : rows[i] = t
         /\ \A i, j \in 1..Len(rows) : rows[i] = rows[j] => i = j
<1>1. Cardinality(S) \in Nat
  <2>1. IsFiniteSet(Trades)
    BY TradePipelineAssumption, FS_Interval DEF Trades
  <2> QED
    BY <2>1, FS_Subset, FS_CardinalityType
<1>2. /\ rows \in [1..Cardinality(S) -> S]
      /\ \A t \in S : \E i \in 1..Cardinality(S) : rows[i] = t
      /\ \A i, j \in 1..Cardinality(S) : rows[i] = rows[j] => i = j
  BY DEF RowOrders, Bijection, Injection, Surjection, IsInjective
<1>3. rows \in Seq(S) /\ Len(rows) = Cardinality(S)
  BY <1>1, <1>2
<1> QED
  BY <1>1, <1>2, <1>3

\* An operation that starts with a well placed queue.
LEMMA StartKeepsIInv ==
  ASSUME IInv, NEW name, name # "none", NEW commits, WellPlaced(trades, commits),
         op' = name, todo' = commits, up',
         trades' = trades, systemState' = systemState,
         name = "breaker" => Liquidates(commits)
  PROVE  IInv'
<1>1. RowsFit'
  BY DEF IInv, RowsFit
<1>2. QueueFits'
  BY DEF QueueFits
<1>3. BreakerLiquidates'
  BY DEF BreakerLiquidates, Liquidates, OpenPositions, InState
<1> QED
  BY <1>1, <1>2, <1>3 DEF IInv

\* The kinds of commits.
LEMMA KindsOfCommits ==
  ASSUME NEW t \in Trades
  PROVE  /\ Halt \in Commits /\ Halt.do = "halt"
         /\ \A k \in Instruments : LET c == Intent(t, k) IN
              c \in Commits /\ c.do = "intent" /\ c.trade = t
         /\ \A s \in States : LET c == Transition(t, s) IN
              c \in Commits /\ c.do = "transition" /\ c.trade = t /\ c.state = s
         /\ \A q \in 0..Quantity, b \in {"entryCost", "result"}, s \in {"OPEN", "CLOSED"} :
              LET c == UpdateFill(t, q, b, s) IN
              /\ c \in Commits /\ c.do = "fill" /\ c.trade = t
              /\ c.filled = q /\ c.booked = b /\ c.state = s
         /\ LET c == Resolve(t) IN c \in Commits /\ c.do = "resolve" /\ c.trade = t
BY DEF Commits, Halt, Intent, Transition, UpdateFill, Resolve

\* The two commits of an exit.
LEMMA ExitOfPosition ==
  ASSUME RowsFit, NEW t \in OpenPositions
  PROVE  LET exit == Transition(t, "EXIT_PENDING")
             fill == UpdateFill(t, trades[t].filled, "result", "CLOSED")
         IN  /\ t \in Trades
             /\ ExitCommits(t) = << exit, fill >>
             /\ exit \in Commits /\ fill \in Commits
             /\ Ready(trades, exit) /\ To(exit, "EXIT_PENDING") /\ exit.trade = t
             /\ Follows(trades, exit, fill)
             /\ fill.do = "fill" /\ fill.state = "CLOSED" /\ fill.trade = t
<1>1. t \in Trades /\ trades[t].state \in {"OPEN", "PARTIALLY_FILLED"}
  BY DEF OpenPositions, InState
<1>2. trades[t].filled > 0 /\ trades[t].filled \in 0..Quantity
  BY <1>1, StateMakesRow DEF States, Fits, Rows
<1>3. ExitCommits(t) = << Transition(t, "EXIT_PENDING"),
                          UpdateFill(t, trades[t].filled, "result", "CLOSED") >>
  BY <1>2 DEF ExitCommits
<1> DEFINE exit == Transition(t, "EXIT_PENDING")
           fill == UpdateFill(t, trades[t].filled, "result", "CLOSED")
<1>4. /\ exit \in Commits /\ exit.do = "transition" /\ exit.trade = t /\ exit.state = "EXIT_PENDING"
      /\ fill \in Commits /\ fill.do = "fill" /\ fill.trade = t
      /\ fill.filled = trades[t].filled /\ fill.booked = "result" /\ fill.state = "CLOSED"
  BY <1>1, <1>2, KindsOfCommits DEF States
<1> HIDE DEF exit, fill
<1>5. Ready(trades, exit) /\ To(exit, "EXIT_PENDING")
  BY <1>1, <1>4 DEF Ready, Moves, To
<1>6. Follows(trades, exit, fill)
  BY <1>4 DEF Follows, To
<1> QED
  BY <1>1, <1>3, <1>4, <1>5, <1>6 DEF exit, fill

\* A queue of two commits, and one of four, each following the one before.
LEMMA ChainOfTwo ==
  ASSUME NEW a \in Commits, NEW b \in Commits, Ready(trades, a), Follows(trades, a, b)
  PROVE  WellPlaced(trades, << a, b >>)
BY DEF WellPlaced, Placed

LEMMA ChainOfFour ==
  ASSUME NEW a \in Commits, NEW b \in Commits, NEW c \in Commits, NEW d \in Commits,
         Ready(trades, a), Follows(trades, a, b), Follows(trades, b, c), Follows(trades, c, d)
  PROVE  WellPlaced(trades, << a, b, c, d >>)
BY DEF WellPlaced, Placed

LEMMA Concatenations ==
  ASSUME NEW S, NEW a \in S, NEW b \in S, NEW c \in S, NEW d \in S
  PROVE  << a, b >> \o << >> = << a, b >> /\ << a, b >> \o << c, d >> = << a, b, c, d >>
<1>1. << a, b >> \in Seq(S)
  OBVIOUS
<1>2. << a, b >> \o << >> = << a, b >>
  BY <1>1, ConcatEmptySeq
<1> DEFINE s == << a, b >>  t == << c, d >>  r == << a, b, c, d >>
<1>3. /\ s \in Seq(S) /\ t \in Seq(S) /\ r \in Seq(S)
      /\ Len(s) = 2 /\ Len(t) = 2 /\ Len(r) = 4
  OBVIOUS
<1>4. s[1] = r[1] /\ s[2] = r[2] /\ t[1] = r[3] /\ t[2] = r[4]
  OBVIOUS
<1> HIDE DEF s, t, r
<1>5. /\ s \o t \in Seq(S) /\ Len(s \o t) = 4
      /\ (s \o t)[1] = s[1] /\ (s \o t)[2] = s[2]
      /\ (s \o t)[3] = t[1] /\ (s \o t)[4] = t[2]
  BY <1>3, ConcatProperties
<1>6. s \o t = r
  BY <1>3, <1>4, <1>5, SeqEqual
<1> QED
  BY <1>2, <1>6 DEF s, t, r

LEMMA ScanKeepsIInv ==
  ASSUME IInv, NEW t \in Trades, NEW k \in Instruments, NEW touched \in BOOLEAN,
         ScanCandidate(t, k, touched)
  PROVE  IInv'
<1> DEFINE a == Intent(t, k)
           b == Transition(t, "APPROVED")
           c == Transition(t, "ENTRY_PENDING")
           d == UpdateFill(t, Quantity, "entryCost", "OPEN")
<1>1. Quantity \in 0..Quantity
  BY TradePipelineAssumption
<1>2. /\ a \in Commits /\ a.do = "intent" /\ a.trade = t
      /\ b \in Commits /\ b.do = "transition" /\ b.trade = t /\ b.state = "APPROVED"
      /\ c \in Commits /\ c.do = "transition" /\ c.trade = t /\ c.state = "ENTRY_PENDING"
      /\ d \in Commits /\ d.do = "fill" /\ d.trade = t
      /\ d.filled = Quantity /\ d.booked = "entryCost" /\ d.state = "OPEN"
  BY <1>1, KindsOfCommits DEF States
<1> HIDE DEF a, b, c, d
<1>3. PICK commits \in {<< a, b >>, << a, b, c, d >>} :
        Idle /\ trades[t] = NoRow /\ Start("scan", commits)
  <2>1. << a, b >> \o << >> = << a, b >> /\ << a, b >> \o << c, d >> = << a, b, c, d >>
    BY <1>2, Concatenations
  <2>2. BuyCommits(t, k, touched) \in {<< >>, << c, d >>}
    BY DEF BuyCommits, c, d
  <2>3. Idle /\ trades[t] = NoRow /\ Start("scan", << a, b >> \o BuyCommits(t, k, touched))
    BY DEF ScanCandidate, a, b
  <2> QED
    BY <2>1, <2>2, <2>3
<1>4. /\ Ready(trades, a) /\ Follows(trades, a, b)
      /\ Follows(trades, b, c) /\ Follows(trades, c, d)
  BY <1>2, <1>3 DEF Ready, Follows, To
<1>5. WellPlaced(trades, commits)
  BY <1>2, <1>3, <1>4, ChainOfTwo, ChainOfFour
<1> QED
  BY <1>3, <1>5, StartKeepsIInv DEF Start, Idle

LEMMA ExitKeepsIInv ==
  ASSUME IInv, NEW t \in Trades, ExecutePaperExit(t)
  PROVE  IInv'
<1>1. t \in OpenPositions /\ Idle /\ Start("exit", ExitCommits(t))
  BY DEF ExecutePaperExit
<1>2. WellPlaced(trades, ExitCommits(t))
  BY <1>1, ExitOfPosition, ChainOfTwo DEF IInv
<1> QED
  BY <1>1, <1>2, StartKeepsIInv DEF Start, Idle

\* A queue with one ready commit for each of some rows.
LEMMA OneForEachRow ==
  ASSUME NEW S \in SUBSET Trades, NEW rows \in RowOrders(S), NEW commits,
         DOMAIN commits = 1..Len(rows), commits \in Seq(Commits),
         \A i \in 1..Len(rows) : Ready(trades, commits[i]) /\ commits[i].trade = rows[i]
  PROVE  WellPlaced(trades, commits)
BY RowOrdersList DEF WellPlaced, Placed

LEMMA SweepKeepsIInv ==
  ASSUME IInv, ProcessAutoTimeouts
  PROVE  IInv'
<1> DEFINE commits(due) == [i \in DOMAIN due |-> Resolve(due[i])]
<1>1. PICK due \in RowOrders(TimedOut) : Idle /\ Start("sweep", commits(due))
  BY DEF ProcessAutoTimeouts
<1>2. /\ TimedOut \in SUBSET Trades
      /\ \A t \in TimedOut : trades[t].state \in {"ENTRY_PENDING", "PARTIALLY_FILLED"}
  BY DEF TimedOut, InState
<1>3. due \in Seq(TimedOut) /\ DOMAIN due = 1..Len(due) /\ Len(due) \in Nat
  BY <1>2, RowOrdersList
<1>4. \A i \in 1..Len(due) : LET c == commits(due)[i] IN
        due[i] \in TimedOut /\ c \in Commits /\ c.do = "resolve" /\ c.trade = due[i]
  BY <1>2, <1>3, KindsOfCommits
<1>5. commits(due) \in Seq(Commits) /\ DOMAIN commits(due) = 1..Len(due)
  BY <1>3, <1>4
<1>6. \A i \in 1..Len(due) : Ready(trades, commits(due)[i])
  BY <1>2, <1>4 DEF Ready
<1>7. WellPlaced(trades, commits(due))
  BY <1>2, <1>4, <1>5, <1>6, OneForEachRow
<1> QED
  BY <1>1, <1>7, StartKeepsIInv DEF Start, Idle

LEMMA ReconcileKeepsIInv ==
  ASSUME IInv, ReconcileOnStartup
  PROVE  IInv'
<1> DEFINE found == InState(ReconciledStates)
           commits(rows) == [i \in DOMAIN rows |-> Transition(rows[i], "CANCELLED")]
<1>1. PICK rows \in RowOrders(found) : todo' = commits(rows)
  BY DEF ReconcileOnStartup
<1>2. found \in SUBSET Trades /\ \A t \in found : trades[t].state = "ENTRY_PENDING"
  BY DEF InState, ReconciledStates
<1> HIDE DEF found
<1>3. rows \in Seq(found) /\ DOMAIN rows = 1..Len(rows) /\ Len(rows) \in Nat
  BY <1>2, RowOrdersList
<1>4. \A i \in 1..Len(rows) : LET c == commits(rows)[i] IN
        /\ rows[i] \in found /\ c \in Commits /\ c.do = "transition" /\ c.trade = rows[i]
        /\ c.state = "CANCELLED"
  BY <1>2, <1>3, KindsOfCommits DEF States
<1>5. commits(rows) \in Seq(Commits) /\ DOMAIN commits(rows) = 1..Len(rows)
  BY <1>3, <1>4
<1>6. \A i \in 1..Len(rows) : Ready(trades, commits(rows)[i])
  BY <1>2, <1>4 DEF Ready, Moves
<1>7. WellPlaced(trades, commits(rows))
  BY <1>2, <1>4, <1>5, <1>6, OneForEachRow
<1> QED
  BY <1>1, <1>7, StartKeepsIInv DEF ReconcileOnStartup

\* The queue of the breaker: the halt, then exit and fill of each position.
LEMMA LiquidationQueue ==
  ASSUME RowsFit, NEW rows \in RowOrders(OpenPositions)
  PROVE  LET queue == LiquidationCommits(rows) IN
         /\ queue \in Seq(Commits) /\ Len(queue) = 1 + 2 * Len(rows)
         /\ queue[1].do = "halt"
         /\ \A m \in 1..Len(rows) :
              << queue[2 * m], queue[2 * m + 1] >> = ExitCommits(rows[m])
<1> DEFINE exits == [i \in 1..(2 * Len(rows)) |-> ExitCommits(rows[(i + 1) \div 2])[2 - (i % 2)]]
<1>1. OpenPositions \in SUBSET Trades
  BY DEF OpenPositions, InState
<1>2. rows \in Seq(OpenPositions) /\ Len(rows) \in Nat
  BY <1>1, RowOrdersList
<1>3. \A m \in 1..Len(rows) : rows[m] \in OpenPositions /\ ExitCommits(rows[m]) \in Commits \X Commits
  BY <1>2, ExitOfPosition
<1>4. ASSUME NEW i \in 1..(2 * Len(rows))
      PROVE  (i + 1) \div 2 \in 1..Len(rows) /\ 2 - (i % 2) \in {1, 2}
  BY <1>2, <1>4
<1>5. \A i \in 1..(2 * Len(rows)) : exits[i] \in Commits
  BY <1>3, <1>4
<1>6. exits \in Seq(Commits) /\ Len(exits) = 2 * Len(rows)
  BY <1>2, <1>5
<1>7. << Halt >> \in Seq(Commits) /\ Halt.do = "halt"
  BY DEF Halt, Commits
<1>8. ASSUME NEW m \in 1..Len(rows)
      PROVE  exits[2 * m - 1] = ExitCommits(rows[m])[1] /\ exits[2 * m] = ExitCommits(rows[m])[2]
  <2>1. /\ 2 * m - 1 \in 1..(2 * Len(rows)) /\ 2 * m \in 1..(2 * Len(rows))
        /\ (2 * m - 1 + 1) \div 2 = m /\ 2 - ((2 * m - 1) % 2) = 1
        /\ (2 * m + 1) \div 2 = m /\ 2 - ((2 * m) % 2) = 2
    BY <1>2
  <2> QED
    BY <2>1
<1> DEFINE queue == LiquidationCommits(rows)
<1>9. queue = << Halt >> \o exits
  BY DEF LiquidationCommits
<1> HIDE DEF exits, queue
<1>10. /\ queue \in Seq(Commits) /\ Len(queue) = 1 + 2 * Len(rows) /\ queue[1] = Halt
       /\ \A i \in 1..(2 * Len(rows)) : queue[i + 1] = exits[i]
  BY <1>2, <1>6, <1>7, <1>9
<1>11. ASSUME NEW m \in 1..Len(rows)
       PROVE  << queue[2 * m], queue[2 * m + 1] >> = ExitCommits(rows[m])
  <2>1. /\ 2 * m - 1 \in 1..(2 * Len(rows)) /\ 2 * m \in 1..(2 * Len(rows))
        /\ (2 * m - 1) + 1 = 2 * m
    BY <1>2
  <2>2. queue[2 * m] = ExitCommits(rows[m])[1] /\ queue[2 * m + 1] = ExitCommits(rows[m])[2]
    BY <1>8, <1>10, <2>1
  <2> QED
    BY <1>3, <2>2
<1> QED
  BY <1>7, <1>10, <1>11 DEF queue

LEMMA BreakerKeepsIInv ==
  ASSUME IInv, CheckPortfolioRiskBreaker
  PROVE  IInv'
<1>1. PICK rows \in RowOrders(OpenPositions) : Idle /\ Start("breaker", LiquidationCommits(rows))
  BY DEF CheckPortfolioRiskBreaker, Liquidated
<1> DEFINE queue == LiquidationCommits(rows)
<1>2. /\ queue \in Seq(Commits) /\ Len(queue) = 1 + 2 * Len(rows)
      /\ queue[1].do = "halt"
      /\ \A m \in 1..Len(rows) : << queue[2 * m], queue[2 * m + 1] >> = ExitCommits(rows[m])
  BY LiquidationQueue DEF IInv
<1> HIDE DEF queue
<1>3. /\ rows \in Seq(OpenPositions) /\ Len(rows) \in Nat
      /\ \A t \in OpenPositions : \E i \in 1..Len(rows) : rows[i] = t
      /\ \A i, j \in 1..Len(rows) : rows[i] = rows[j] => i = j
  <2>1. OpenPositions \in SUBSET Trades
    BY DEF OpenPositions, InState
  <2> QED
    BY <2>1, RowOrdersList
<1>4. ASSUME NEW m \in 1..Len(rows)
      PROVE  LET exit == queue[2 * m]  fill == queue[2 * m + 1] IN
             /\ Ready(trades, exit) /\ To(exit, "EXIT_PENDING") /\ exit.trade = rows[m]
             /\ Follows(trades, exit, fill)
             /\ fill.do = "fill" /\ fill.state = "CLOSED" /\ fill.trade = rows[m]
  <2>1. rows[m] \in OpenPositions
    BY <1>3
  <2>2. << queue[2 * m], queue[2 * m + 1] >>
          = << Transition(rows[m], "EXIT_PENDING"),
               UpdateFill(rows[m], trades[rows[m]].filled, "result", "CLOSED") >>
    BY <1>2, <2>1, ExitOfPosition DEF IInv
  <2> QED
    BY <2>1, <2>2, ExitOfPosition DEF IInv
<1>5. ASSUME NEW i \in 1..Len(queue)
      PROVE  \/ i = 1
             \/ \E m \in 1..Len(rows) : i = 2 * m
             \/ \E m \in 1..Len(rows) : i = 2 * m + 1
  <2>1. CASE i % 2 = 0
    <3>1. i \div 2 \in 1..Len(rows) /\ i = 2 * (i \div 2)
      BY <1>2, <1>3, <1>5, <2>1
    <3> QED
      BY <3>1
  <2>2. CASE i % 2 # 0 /\ i # 1
    <3>1. i \in Nat /\ 1 < i /\ i <= 1 + 2 * Len(rows)
      BY <1>2, <1>3, <2>2
    <3>2. i = 2 * (i \div 2) + 1 /\ i \div 2 \in Nat
      BY <2>2, <3>1
    <3>3. i \div 2 \in 1..Len(rows)
      BY <1>3, <3>1, <3>2
    <3> QED
      BY <3>2, <3>3
  <2> QED
    BY <2>1, <2>2
<1>6. ASSUME NEW i \in 1..Len(queue)
      PROVE  Placed(trades, queue, i)
  <2>1. CASE i = 1
    BY <1>2, <2>1 DEF Placed, Ready
  <2>2. ASSUME NEW m \in 1..Len(rows), i = 2 * m
        PROVE  Placed(trades, queue, i)
    <3>1. Ready(trades, queue[i]) /\ queue[i].trade = rows[m]
      BY <1>4, <2>2
    <3>2. ASSUME NEW j \in 1..(i - 1)
          PROVE  queue[j].do = "halt" \/ queue[j].trade # queue[i].trade
      <4>1. j \in 1..Len(queue) /\ j < 2 * m
        BY <1>2, <1>3, <2>2
      <4>2. CASE j = 1
        BY <1>2, <4>2
      <4>3. ASSUME NEW n \in 1..Len(rows), j = 2 * n \/ j = 2 * n + 1
            PROVE  queue[j].trade # queue[i].trade
        <5>1. queue[j].trade = rows[n]
          BY <1>4, <4>3
        <5>2. n # m
          BY <1>3, <4>1, <4>3
        <5> QED
          BY <1>3, <3>1, <5>1, <5>2
      <4> QED
        BY <1>5, <4>1, <4>2, <4>3
    <3> QED
      BY <3>1, <3>2 DEF Placed
  <2>3. ASSUME NEW m \in 1..Len(rows), i = 2 * m + 1
        PROVE  Placed(trades, queue, i)
    <3>1. i > 1 /\ i - 1 = 2 * m
      BY <1>3, <2>3
    <3>2. Follows(trades, queue[i - 1], queue[i])
      BY <1>4, <2>3, <3>1
    <3> QED
      BY <3>1, <3>2 DEF Placed
  <2> QED
    BY <1>5, <2>1, <2>2, <2>3
<1>7. WellPlaced(trades, queue)
  BY <1>2, <1>6 DEF WellPlaced
<1>8. Liquidates(queue)
  <2>1. ASSUME NEW i \in 1..Len(queue)
        PROVE  \/ queue[i].do = "halt"
               \/ To(queue[i], "EXIT_PENDING")
               \/ queue[i].do = "fill" /\ queue[i].state = "CLOSED"
    BY <1>2, <1>4, <1>5
  <2>2. 1 \in 1..Len(queue) /\ queue[1].do = "halt"
    BY <1>2, <1>3
  <2>3. ASSUME NEW t \in OpenPositions
        PROVE  \E i \in 1..Len(queue) : To(queue[i], "EXIT_PENDING") /\ queue[i].trade = t
    <3>1. PICK m \in 1..Len(rows) : rows[m] = t
      BY <1>3
    <3>2. 2 * m \in 1..Len(queue)
      BY <1>2, <1>3
    <3> QED
      BY <1>4, <3>1, <3>2
  <2> QED
    BY <2>1, <2>2, <2>3 DEF Liquidates
<1>9. op' = "breaker" /\ todo' = queue /\ up' /\ trades' = trades /\ systemState' = systemState
  BY <1>1 DEF Start, Idle, queue
<1> QED
  BY <1>7, <1>8, <1>9, StartKeepsIInv

--------------------------------------------------------------------------------
(* The other steps and the invariant.                                            *)

\* Between operations a row may change to one that fits.
LEMMA RowChangeKeepsIInv ==
  ASSUME IInv, Idle, NEW t \in Trades, NEW row \in Rows, Fits(row),
         trades' = [trades EXCEPT ![t] = row], UNCHANGED << up, op, todo >>
  PROVE  IInv'
<1>1. todo = << >> /\ op = "none"
  BY DEF Idle, IInv, QueueFits
<1>2. RowsFit'
  BY DEF IInv, RowsFit
<1>3. QueueFits'
  BY <1>1 DEF QueueFits, WellPlaced
<1>4. BreakerLiquidates'
  BY <1>1 DEF BreakerLiquidates
<1> QED
  BY <1>2, <1>3, <1>4 DEF IInv

LEMMA LateFillsKeepIInv ==
  ASSUME IInv, NEW t \in Trades,
         \/ PlaceEntry(t)
         \/ \E q \in 1..Quantity : RecordPartialFill(t, q)
         \/ EvaluateTrailingStop(t)
  PROVE  /\ IInv' /\ Idle /\ trades[t] \in Rows
         /\ \E row \in Rows : trades' = [trades EXCEPT ![t] = row]
              /\ \/ row.state = trades[t].state
                 \/ trades[t].state = "APPROVED" /\ row.state = "ENTRY_PENDING"
                 \/ trades[t].state = "ENTRY_PENDING" /\ row.state = "PARTIALLY_FILLED"
<1>1. CASE PlaceEntry(t)
  <2> DEFINE row == [trades[t] EXCEPT !.state = "ENTRY_PENDING"]
  <2>1. /\ Idle /\ trades[t].state = "APPROVED" /\ trades' = [trades EXCEPT ![t] = row]
        /\ UNCHANGED << up, op, todo >>
    BY <1>1 DEF PlaceEntry, TouchRow
  <2>2. trades[t] \in Rows /\ Fits(trades[t])
    BY <2>1, StateMakesRow DEF IInv, States
  <2>3. row \in Rows /\ Fits(row) /\ row.state = "ENTRY_PENDING"
    BY <2>1, <2>2 DEF Rows, States, Fits
  <2> HIDE DEF row
  <2> QED
    BY <2>1, <2>2, <2>3, RowChangeKeepsIInv
<1>2. ASSUME NEW q \in 1..Quantity, RecordPartialFill(t, q)
      PROVE  /\ IInv' /\ Idle /\ trades[t] \in Rows
             /\ \E row \in Rows : trades' = [trades EXCEPT ![t] = row]
                  /\ \/ row.state = trades[t].state
                     \/ trades[t].state = "ENTRY_PENDING" /\ row.state = "PARTIALLY_FILLED"
  <2> DEFINE row == [trades[t] EXCEPT !.filled = q, !.state = "PARTIALLY_FILLED"]
  <2>1. /\ Idle /\ trades[t].state \in {"ENTRY_PENDING", "PARTIALLY_FILLED"}
        /\ trades' = [trades EXCEPT ![t] = row] /\ UNCHANGED << up, op, todo >>
    BY <1>2 DEF RecordPartialFill, TouchRow
  <2>2. trades[t] \in Rows /\ Fits(trades[t])
    BY <2>1, StateMakesRow DEF IInv, States
  <2>3. trades[t].qty = Quantity /\ trades[t].booked # "result" /\ Quantity \in Nat /\ q \in 0..Quantity
    BY <2>1, <2>2, TradePipelineAssumption DEF Fits
  <2>4. /\ row \in Rows /\ row.state = "PARTIALLY_FILLED" /\ row.filled = q
        /\ row.qty = trades[t].qty /\ row.booked = trades[t].booked
    BY <2>2, <2>3 DEF Rows, States
  <2> HIDE DEF row
  <2>5. Fits(row)
    BY <2>3, <2>4 DEF Fits
  <2> QED
    BY <2>1, <2>2, <2>4, <2>5, RowChangeKeepsIInv
<1>3. CASE EvaluateTrailingStop(t)
  <2> DEFINE row == [trades[t] EXCEPT !.stop = @ + 1]
  <2>1. /\ Idle /\ t \in OpenPositions /\ trades' = [trades EXCEPT ![t] = row]
        /\ UNCHANGED << up, op, todo >>
    BY <1>3 DEF EvaluateTrailingStop, IInv, RowsFit
  <2>2. trades[t] \in Rows /\ Fits(trades[t])
    BY <2>1, StateMakesRow DEF OpenPositions, InState, IInv, States
  <2>3. /\ row \in Rows /\ row.state = trades[t].state /\ row.filled = trades[t].filled
        /\ row.qty = trades[t].qty /\ row.booked = trades[t].booked
    BY <2>2 DEF Rows
  <2> HIDE DEF row
  <2>4. Fits(row)
    BY <2>2, <2>3 DEF Fits
  <2> QED
    BY <2>1, <2>2, <2>3, <2>4, RowChangeKeepsIInv
<1> QED
  BY <1>1, <1>2, <1>3

\* Steps that leave the table and the queue, and the end of an operation or the process.
LEMMA OtherStepsKeepIInv ==
  ASSUME IInv,
         \/ UNCHANGED vars \/ Return \/ Crash
         \/ \E t \in Trades : FifteenSeconds(t)
         \/ \E k \in Instruments : RecordThesisFailureExit(k)
  PROVE  IInv' /\ trades' = trades
<1>1. trades' = trades /\ systemState' = systemState
  BY DEF vars, Return, Crash, FifteenSeconds, RecordThesisFailureExit
<1>2. RowsFit'
  BY <1>1 DEF IInv, RowsFit
<1>3. CASE Return
  <2>1. op' = "none" /\ todo' = << >> /\ up' = up
    BY <1>3 DEF Return
  <2> QED
    BY <1>1, <1>2, <2>1 DEF IInv, QueueFits, WellPlaced, BreakerLiquidates
<1>4. CASE Crash
  <2>1. op' = "none" /\ todo' = << >>
    BY <1>4 DEF Crash
  <2> QED
    BY <1>1, <1>2, <2>1 DEF IInv, QueueFits, WellPlaced, BreakerLiquidates
<1>5. CASE UNCHANGED << up, op, todo >>
  BY <1>1, <1>2, <1>5
     DEF IInv, QueueFits, BreakerLiquidates, Liquidates, OpenPositions, InState
<1> QED
  BY <1>1, <1>3, <1>4, <1>5 DEF vars, FifteenSeconds, RecordThesisFailureExit

\* Every queued commit fits, whatever fills late, wherever the process dies.
THEOREM QueueInvariant == Spec => []IInv
<1>1. Init => IInv
  BY DEF Init, IInv, RowsFit, QueueFits, WellPlaced, BreakerLiquidates
<1>2. IInv /\ [Next]_vars => IInv'
  BY CommitKeepsIInv, ScanKeepsIInv, LateFillsKeepIInv, SweepKeepsIInv, ExitKeepsIInv,
     BreakerKeepsIInv, ReconcileKeepsIInv, OtherStepsKeepIInv DEF Next
<1> QED
  BY <1>1, <1>2, PTL DEF Spec

\* Whatever commit a crash follows, the shares of a row agree with its state, for any
\* number of trades, crashes and orders of the rows.
THEOREM FillsAlwaysMatch == Spec => []FillsMatchState
<1>1. IInv => FillsMatchState
  BY DEF IInv, RowsFit, Fits, FillsMatchState
<1> QED
  BY <1>1, QueueInvariant, PTL

\* The breaker returns with the system halted and no position open, for any number of
\* positions and in whatever order it takes them.
THEOREM BreakerEmptiesTheBook == Spec => []LiquidationIsComplete
<1>1. IInv => LiquidationIsComplete
  BY DEF IInv, BreakerLiquidates, Liquidates, LiquidationIsComplete
<1> QED
  BY <1>1, QueueInvariant, PTL

--------------------------------------------------------------------------------
(* The life of a trade.                                                          *)

\* A commit moves its trade along a documented transition.
LEMMA CommitFollowsLifecycle ==
  ASSUME RowsFit, NEW c \in Commits, c.do # "halt", Ready(trades, c)
  PROVE  LET from == trades[c.trade].state
             to == Updated(trades[c.trade], c).state
         IN  \/ from = "NO_TRADE" /\ to = "QUALIFIED"
             \/ from \in States /\ to \in Lifecycle!ALLOWED_TRANSITIONS[from]
<1> DEFINE row == trades[c.trade]
<1>1. c.trade \in Trades
  BY ReadyFits
<1>2. CASE c.do = "intent"
  BY <1>2 DEF Ready, Moves, NoRow, Updated
<1>3. CASE c.do = "transition"
  <2>1. row \in Rows
    BY <1>1, <1>3, StateMakesRow DEF Ready, Moves, States
  <2>2. Updated(row, c).state = c.state
    BY <1>3, <2>1 DEF Updated, Rows
  <2> QED
    BY <1>3, <2>2 DEF Ready, Moves, States, Lifecycle!ALLOWED_TRANSITIONS
<1>4. CASE c.do = "fill"
  <2>1. row \in Rows
    BY <1>1, <1>4, StateMakesRow DEF Ready, Moves, States
  <2>2. Updated(row, c).state = c.state
    BY <1>4, <2>1 DEF Updated, Rows
  <2> QED
    BY <1>4, <2>2 DEF Ready, Moves, States, Lifecycle!ALLOWED_TRANSITIONS
<1>5. CASE c.do = "resolve"
  <2>1. /\ row \in Rows /\ Fits(row)
        /\ row.state \in {"ENTRY_PENDING", "PARTIALLY_FILLED"}
    BY <1>1, <1>5, StateMakesRow DEF Ready, Moves, States
  <2>2. Updated(row, c).state \in {"OPEN", "CANCELLED"}
    BY <1>5, <2>1 DEF Updated, Resolved, Rows
  <2> QED
    BY <2>1, <2>2 DEF States, Lifecycle!ALLOWED_TRANSITIONS
<1> QED
  BY <1>2, <1>3, <1>4, <1>5 DEF Commits

stateOf == [t \in Trades |-> trades[t].state]

\* A change of one row that the lifecycle allows is a step of it.
LEMMA RowChangeFollows ==
  ASSUME RowsFit, NEW t \in Trades, NEW row, trades' = [trades EXCEPT ![t] = row],
         \/ row.state = trades[t].state
         \/ trades[t].state = "NO_TRADE" /\ row.state = "QUALIFIED"
         \/ /\ trades[t].state # "NO_TRADE"
            /\ row.state \in Lifecycle!ALLOWED_TRANSITIONS[trades[t].state]
  PROVE  [Lifecycle!Next]_stateOf
<1>1. stateOf' = [stateOf EXCEPT ![t] = row.state]
  BY DEF stateOf, RowsFit
<1>2. stateOf[t] = trades[t].state
  BY DEF stateOf
<1>3. CASE row.state = trades[t].state
  <2>1. stateOf' = stateOf
    BY <1>1, <1>2, <1>3 DEF stateOf
  <2> QED
    BY <2>1
<1>4. CASE trades[t].state = "NO_TRADE" /\ row.state = "QUALIFIED"
  BY <1>1, <1>2, <1>4
     DEF stateOf, Lifecycle!Next, Lifecycle!Create, Lifecycle!NoTrade
<1>5. CASE /\ trades[t].state # "NO_TRADE"
           /\ row.state \in Lifecycle!ALLOWED_TRANSITIONS[trades[t].state]
  BY <1>1, <1>2, <1>5
     DEF stateOf, Lifecycle!Next, Lifecycle!Move, Lifecycle!NoTrade
<1> QED
  BY <1>3, <1>4, <1>5

LEMMA StepFollows ==
  ASSUME IInv, [Next]_vars
  PROVE  [Lifecycle!Next]_stateOf
<1>1. CASE trades' = trades
  BY <1>1 DEF stateOf
<1>2. CASE Commit
  <2> DEFINE c == todo[1]
  <2>1. c \in Commits /\ Ready(trades, c)
    BY <1>2, CommitKeepsRows
  <2>2. CASE c.do = "halt"
    BY <1>1, <1>2, <2>2 DEF Commit, IInv, QueueFits, WellPlaced
  <2>3. CASE c.do # "halt"
    <3>1. trades' = [trades EXCEPT ![c.trade] = Updated(trades[c.trade], c)]
      BY <1>2, <2>3 DEF Commit, IInv, QueueFits, WellPlaced
    <3>2. c.trade \in Trades
      BY <2>1, <2>3, ReadyFits DEF IInv
    <3> QED
      BY <2>1, <2>3, <3>1, <3>2, CommitFollowsLifecycle, RowChangeFollows DEF IInv, States
  <2> QED
    BY <2>2, <2>3
<1>3. ASSUME NEW t \in Trades,
             \/ PlaceEntry(t)
             \/ \E q \in 1..Quantity : RecordPartialFill(t, q)
             \/ EvaluateTrailingStop(t)
      PROVE  [Lifecycle!Next]_stateOf
  <2>1. PICK row \in Rows :
          /\ trades' = [trades EXCEPT ![t] = row]
          /\ \/ row.state = trades[t].state
             \/ trades[t].state = "APPROVED" /\ row.state = "ENTRY_PENDING"
             \/ trades[t].state = "ENTRY_PENDING" /\ row.state = "PARTIALLY_FILLED"
    BY <1>3, LateFillsKeepIInv
  <2>2. \/ row.state = trades[t].state
        \/ /\ trades[t].state # "NO_TRADE"
           /\ row.state \in Lifecycle!ALLOWED_TRANSITIONS[trades[t].state]
    BY <2>1 DEF Lifecycle!ALLOWED_TRANSITIONS
  <2> QED
    BY <2>1, <2>2, RowChangeFollows DEF IInv
<1>4. CASE \/ \E t \in Trades, k \in Instruments, touched \in BOOLEAN : ScanCandidate(t, k, touched)
           \/ ProcessAutoTimeouts
           \/ \E t \in Trades : ExecutePaperExit(t)
           \/ CheckPortfolioRiskBreaker
           \/ ReconcileOnStartup
  BY <1>1, <1>4 DEF ScanCandidate, ProcessAutoTimeouts, ExecutePaperExit,
       CheckPortfolioRiskBreaker, ReconcileOnStartup, Start
<1> QED
  BY <1>1, <1>2, <1>3, <1>4, OtherStepsKeepIInv DEF Next

\* Every trade lives by ALLOWED_TRANSITIONS although transition() does not ask it, for
\* any number of trades, crashes and orders of the rows.
THEOREM TradesFollowLifecycle == Spec => FollowsLifecycle
<1>1. Init => Lifecycle!Init
  BY DEF Init, Lifecycle!Init, Lifecycle!NoTrade, NoRow
<1>2. IInv /\ [Next]_vars => [Lifecycle!Next]_stateOf
  BY StepFollows
<1> QED
  BY <1>1, <1>2, QueueInvariant, PTL DEF Spec, FollowsLifecycle, Lifecycle!Spec, stateOf

================================================================================
