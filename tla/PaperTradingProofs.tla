------------------------- MODULE PaperTradingProofs -------------------------
(***************************************************************************)
(* PaperTrading for every value of its constants: type correctness, the    *)
(* inductive invariant that ties what a cycle remembers (its loop, its     *)
(* gate, the order in flight) to the table, and from it the finality of    *)
(* closed rows, what a pause holds, and the sums of rows and broker.       *)
(***************************************************************************)
EXTENDS PaperTrading, FiniteSetTheorems, SumTheorems, TLAPS

-----------------------------------------------------------------------------
(* The inductive invariant *)

\* Until half of it is sold a position has its initial size.
RowOK(row) ==
  /\ row \in Row
  /\ row.status # "NONE" => /\ row.quantity > 0
                            /\ row.partial_quantity = 0 => row.quantity = row.initial_quantity

Rows ==
  /\ trades \in [TradeIds -> Row]
  /\ \A t \in TradeIds : RowOK(trades[t])
Broker == broker \in [TradeIds -> Int]
Calendar == day \in 1..MaxDay /\ phase \in Phases /\ plan \in SUBSET Symbols
Flags == {paused, resuming, degraded} \subseteq BOOLEAN
Memory ==
  /\ clock \in Nat /\ pc \in PcValues /\ todo \in SUBSET TradeIds
  /\ quotes \in [TradeIds -> [seen: BOOLEAN, mark: Int]]
  /\ cands \in Seq(Candidate)
GateType == gate \in Gate
OrderType ==
  /\ order \in [trade: Nat, row: Row, mark: Int, back: PcValues]
  /\ RowOK(order.row)
Sent ==
  /\ stats \in [open: Nat, flattened: Nat]
  /\ alerted \subseteq {"LOSS_LIMIT", "TWO_LOSSES"} \X (1..MaxDay)

\* A loop over positions visits open ones only.
Visiting == {"exits", "mark", "exitOrder", "exitCommit", "hardStop", "kill"}
LoopInv ==
  /\ pc \in Visiting => todo \subseteq OpenTrades
  /\ pc = "hardStop" => ~gate.allowed

\* While an exit order is out, the row it was sent for has not changed.
ExitOrderInv ==
  pc \in {"exitOrder", "exitCommit"} =>
    /\ order.trade \in todo /\ order.row = trades[order.trade]
    /\ order.back \in {"exits", "hardStop", "kill"}
    /\ order.back = "hardStop" => ~gate.allowed

\* What makes a row enterable, and stays so while the broker is asked.
Enterable(t, row) ==
  /\ t \in TradeIds /\ trades[t].status = "NONE"
  /\ row.status = "OPEN" /\ row.trading_day = day
  /\ row.symbol \in Symbols /\ row.agent \in Agents
  /\ Cardinality(OpenTrades) < MaxOpen
  /\ \A u \in OpenTrades : trades[u].symbol # row.symbol /\ trades[u].agent # row.agent
  /\ MaxPerDay > 0 => Cardinality(OpenedOn(day)) < MaxPerDay

EntryOrderInv ==
  pc \in {"entryOrder", "entryCommit"} =>
    gate.allowed /\ cands # <<>> /\ Enterable(order.trade, order.row)

\* The rows and the count a cycle decides on are those of the table, as long as
\* entries are allowed.  The hard stop forgets the rows, but then they are not.
GateInv ==
  pc \in {"entries", "entryOrder", "entryCommit"} /\ gate.allowed =>
    gate.rows = OpenTrades /\ gate.count = Cardinality(OpenedOn(day))

TypeInv == Rows /\ Broker /\ Calendar /\ Flags /\ Memory /\ GateType /\ OrderType /\ Sent
Inv == TypeInv /\ LoopInv /\ ExitOrderInv /\ EntryOrderInv /\ GateInv

-----------------------------------------------------------------------------
(* What the row operators keep *)

LEMMA OrderCostNat == OrderCost \in Nat
BY ConstantsAssumption

LEMMA NoTradeOK == RowOK(NoTrade)
BY DEF RowOK, NoTrade, Row

LEMMA MarkedOK ==
  ASSUME NEW row, RowOK(row), NEW mark \in Int
  PROVE  /\ RowOK(Marked(row, mark))
         /\ AsPosition(Marked(row, mark)) = AsPosition(row)
<1> USE OrderCostNat
<1> SUFFICES /\ Marked(row, mark) \in Row
             /\ RowOK(Marked(row, mark))
             /\ AsPosition(Marked(row, mark)) = AsPosition(row)
  OBVIOUS
<1> DEFINE net == row.partial_gross + mark * row.quantity - row.costs - OrderCost
<1>1. row \in Row BY DEF RowOK
<1>2. net \in Int
  <2>1. row.partial_gross \in Int /\ row.quantity \in Int /\ row.costs \in Int
    BY <1>1 DEF Row
  <2>2. mark * row.quantity \in Int
    BY <2>1
  <2> QED BY <2>1, <2>2
<1>a. Marked(row, mark) = [row EXCEPT !.mark = mark, !.net = net]
  BY DEF Marked
<1> HIDE DEF net
<1>3. Marked(row, mark) \in Row
  BY <1>1, <1>2, <1>a DEF Row
<1> QED BY <1>1, <1>3, <1>a DEF RowOK, AsPosition, Row

LEMMA ExitBlockedOK ==
  ASSUME NEW row, RowOK(row), NEW mark \in Int
  PROVE  /\ RowOK(ExitBlocked(row, mark))
         /\ AsPosition(ExitBlocked(row, mark)) = AsPosition(row)
<1> USE OrderCostNat
<1>1. RowOK(Marked(row, mark)) /\ AsPosition(Marked(row, mark)) = AsPosition(row) BY MarkedOK
<1>2. row.costs \in Nat /\ row.costs + OrderCost \in Nat BY DEF RowOK, Row
<1>3. ExitBlocked(row, mark) \in Row
  BY <1>1, <1>2 DEF ExitBlocked, RowOK, Row
<1> QED BY <1>1, <1>3 DEF RowOK, ExitBlocked, AsPosition, Row

LEMMA ClosedOK ==
  ASSUME NEW row, RowOK(row), row.status # "NONE", NEW mark \in Int, clock \in Nat, day \in Nat
  PROVE  /\ RowOK(Closed(row, mark))
         /\ AsPosition(Closed(row, mark)) = [AsPosition(row) EXCEPT !.status = "CLOSED"]
<1> USE OrderCostNat
<1>1. RowOK(Marked(row, mark)) /\ AsPosition(Marked(row, mark)) = AsPosition(row) BY MarkedOK
<1>2. row.costs + OrderCost \in Nat BY DEF RowOK, Row
<1>3. Closed(row, mark) \in Row
  BY <1>1, <1>2 DEF Closed, RowOK, Row
<1>4. Marked(row, mark).status = row.status BY DEF Marked, RowOK, Row
<1> QED BY <1>1, <1>3, <1>4 DEF RowOK, Closed, AsPosition, Row

\* The runner of a scale-out keeps at least one unit.
LEMMA ScaledOutOK ==
  ASSUME NEW row, RowOK(row), row.status # "NONE", NEW mark \in Int, ScaleOutDue(row, mark)
  PROVE  /\ RowOK(ScaledOut(row, mark))
         /\ AsPosition(ScaledOut(row, mark)) = AsPosition(row)
<1> USE OrderCostNat
<1> DEFINE part == row.initial_quantity \div 2
           gross == mark * part
           costs == row.costs + OrderCost
           cover == costs + OrderCost - gross
<1>1. row \in Row /\ row.quantity = row.initial_quantity /\ row.quantity >= 2
  BY DEF RowOK, ScaleOutDue
<1>2. /\ part \in Nat /\ part > 0 /\ row.quantity - part \in Nat /\ row.quantity - part > 0
      /\ costs \in Nat
  <2>1. row.quantity \in Nat /\ row.costs \in Nat
    BY <1>1 DEF Row
  <2> QED BY <1>1, <2>1
<1>3. gross \in Int BY <1>2
<1>4. (IF cover > 0 THEN cover ELSE 0) \in Int
  <2> HIDE DEF gross, costs
  <2>1. cover \in Int BY <1>2, <1>3
  <2> QED BY <2>1
<1>5. ScaledOut(row, mark) =
        [row EXCEPT !.quantity = row.quantity - part, !.partial_quantity = part,
                    !.partial_gross = gross, !.costs = costs,
                    !.stop_pnl = IF cover > 0 THEN cover ELSE 0]
  BY DEF ScaledOut
<1> HIDE DEF part, gross, costs, cover
<1>6. ScaledOut(row, mark) \in Row
  BY <1>1, <1>2, <1>3, <1>4, <1>5 DEF Row
<1> QED BY <1>1, <1>2, <1>5, <1>6 DEF RowOK, AsPosition, Row

LEMMA NewRowOK ==
  ASSUME NEW c \in Candidate, NEW d \in StopDistances, NEW q \in Quantities, day \in Nat
  PROVE  LET row == NewRow(c, d, q)
         IN  /\ RowOK(row)
             /\ row.status = "OPEN" /\ row.trading_day = day
             /\ row.symbol = c.symbol /\ row.agent = c.agent
             /\ row.symbol \in Symbols /\ row.agent \in Agents
<1> USE OrderCostNat
<1>1. d \in Nat /\ q \in Nat /\ q > 0 BY ConstantsAssumption
<1>2. d * q \in Nat BY <1>1
<1>3. -(d * q) \in Int /\ -OrderCost \in Int /\ OrderCost \in Nat BY <1>2
<1> DEFINE loss == -(d * q)
           fee == -OrderCost
<1> DEFINE first == [NoTrade EXCEPT !.status = "OPEN", !.symbol = c.symbol, !.agent = c.agent,
                                   !.trading_day = day, !.quantity = q]
<1>a. NewRow(c, d, q) = [first EXCEPT !.initial_quantity = q, !.distance = d,
                                      !.stop_pnl = loss, !.costs = OrderCost, !.net = fee]
  BY DEF NewRow
<1>4. NoTrade \in Row BY NoTradeOK DEF RowOK
<1>5. loss \in Int /\ fee \in Int BY <1>3
<1>6. c.symbol \in Symbols /\ c.agent \in Agents BY DEF Candidate
<1> HIDE DEF loss, fee
<1>7. /\ first \in Row
      /\ first.status = "OPEN" /\ first.trading_day = day /\ first.quantity = q
      /\ first.symbol = c.symbol /\ first.agent = c.agent
  BY <1>1, <1>4, <1>6 DEF Row
<1> HIDE DEF first
<1>8. NewRow(c, d, q) \in Row
  BY <1>1, <1>5, <1>7, <1>a DEF Row
<1> QED BY <1>1, <1>6, <1>7, <1>8, <1>a DEF RowOK, Row

-----------------------------------------------------------------------------
(* What a write to the table does to the sets the guards look at *)

LEMMA OpenTradesFinite ==
  /\ IsFiniteSet(OpenTrades) /\ Cardinality(OpenTrades) \in Nat
  /\ \A d : IsFiniteSet(OpenedOn(d)) /\ Cardinality(OpenedOn(d)) \in Nat
<1>1. IsFiniteSet(TradeIds)
  BY FS_Interval, ConstantsAssumption DEF TradeIds
<1>2. OpenTrades \in SUBSET TradeIds /\ \A d : OpenedOn(d) \in SUBSET TradeIds
  BY DEF OpenTrades, WithStatus, OpenedOn
<1> QED BY <1>1, <1>2, FS_Subset, FS_CardinalityType

LEMMA WriteKeepsRows ==
  ASSUME Rows, NEW t \in TradeIds, NEW row, RowOK(row), Write(t, row)
  PROVE  /\ Rows'
         /\ trades'[t] = row
         /\ \A u \in TradeIds : u # t => trades'[u] = trades[u]
BY DEF Rows, RowOK, Write

\* A write that keeps the position keeps the open rows and the day's rows.
LEMMA SamePosition ==
  ASSUME Rows, NEW t \in TradeIds, NEW row, RowOK(row), Write(t, row),
         AsPosition(row) = AsPosition(trades[t])
  PROVE  /\ OpenTrades' = OpenTrades
         /\ \A d \in Nat : OpenedOn(d)' = OpenedOn(d)
         /\ \A u \in TradeIds : AsPosition(trades'[u]) = AsPosition(trades[u])
<1>1. \A u \in TradeIds : AsPosition(trades'[u]) = AsPosition(trades[u])
  BY WriteKeepsRows
<1>2. \A u \in TradeIds : /\ trades'[u].status = trades[u].status
                          /\ trades'[u].trading_day = trades[u].trading_day
  BY <1>1 DEF AsPosition
<1> QED BY <1>1, <1>2 DEF OpenTrades, WithStatus, OpenedOn

\* A row that leaves the open ones takes nothing from the day's rows.
LEMMA PositionLeft ==
  ASSUME Rows, NEW t \in TradeIds, NEW row, RowOK(row), Write(t, row),
         trades[t].status = "OPEN",
         AsPosition(row) = [AsPosition(trades[t]) EXCEPT !.status = "CLOSED"]
  PROVE  /\ OpenTrades' = OpenTrades \ {t}
         /\ \A d \in Nat : OpenedOn(d)' = OpenedOn(d)
<1>1. /\ trades'[t].status = "CLOSED" /\ trades'[t].trading_day = trades[t].trading_day
      /\ \A u \in TradeIds : u # t => trades'[u] = trades[u]
  BY WriteKeepsRows DEF AsPosition
<1> QED BY <1>1 DEF OpenTrades, WithStatus, OpenedOn

LEMMA PositionEntered ==
  ASSUME Rows, NEW t \in TradeIds, NEW row, RowOK(row), Write(t, row), day' = day,
         trades[t].status = "NONE", row.status = "OPEN", row.trading_day = day
  PROVE  /\ OpenTrades' = OpenTrades \cup {t} /\ t \notin OpenTrades
         /\ OpenedOn(day)' = OpenedOn(day) \cup {t} /\ t \notin OpenedOn(day)
<1>1. /\ trades'[t] = row
      /\ \A u \in TradeIds : u # t => trades'[u] = trades[u]
  BY WriteKeepsRows
<1> QED BY <1>1 DEF OpenTrades, WithStatus, OpenedOn

-----------------------------------------------------------------------------
(* Init and the actions that leave the table alone *)

LEMMA NoCandidates == <<>> \in Seq(Candidate)
OBVIOUS

LEMMA InitInv == Init => Inv
<1> SUFFICES ASSUME Init PROVE Inv OBVIOUS
<1> USE ConstantsAssumption
<1>1. Rows BY NoTradeOK DEF Init, Rows, RowOK
<1>2. OrderType
  BY NoTradeOK DEF Init, OrderType, NoOrder, RowOK, PcValues
<1>3. Broker /\ Calendar /\ Flags /\ Sent
  <2>1. Broker BY DEF Init, Broker
  <2>2. Calendar BY DEF Init, Calendar, Phases
  <2>3. Flags BY DEF Init, Flags
  <2>4. Sent BY DEF Init, Sent, NoStats
  <2> QED BY <2>1, <2>2, <2>3, <2>4
<1>6. Memory BY DEF Init, Memory, PcValues, NoQuote
<1>4. GateType BY DEF Init, GateType, Gate, NoGate
<1>5. LoopInv /\ ExitOrderInv /\ EntryOrderInv /\ GateInv
  BY DEF Init, LoopInv, Visiting, ExitOrderInv, EntryOrderInv, GateInv
<1> QED BY <1>1, <1>2, <1>3, <1>4, <1>5, <1>6 DEF Inv, TypeInv

\* Telegram's flags and the degraded mode are read, never remembered.
LEMMA FlagsKeepInv ==
  ASSUME Inv, Pause \/ ResumeQuery \/ ResumeApply \/ DegradedChanges
  PROVE  Inv'
<1>1. UNCHANGED <<table, calendar, clock, pc, cycle, sent>>
  BY DEF Pause, ResumeQuery, ResumeApply, DegradedChanges
<1>2. Flags'
  BY DEF Inv, TypeInv, Flags, Pause, ResumeQuery, ResumeApply, DegradedChanges
<1>3. UNCHANGED <<trades, broker, day, phase, plan, clock, pc, todo, quotes, gate, cands, order, stats, alerted>>
  BY <1>1 DEF table, calendar, cycle, sent
<1>4. (Rows /\ Broker /\ Calendar /\ Memory /\ GateType /\ OrderType /\ Sent)'
  BY <1>3 DEF Inv, TypeInv, Rows, Broker, Calendar, Memory, GateType, OrderType, Sent
<1>5. (LoopInv /\ ExitOrderInv /\ EntryOrderInv /\ GateInv)'
  BY <1>3 DEF Inv, LoopInv, ExitOrderInv, EntryOrderInv, GateInv, Enterable,
              OpenTrades, WithStatus, OpenedOn
<1> QED BY <1>2, <1>4, <1>5 DEF Inv, TypeInv
\* A cycle, or a kill switch, starts on the rows that are open.
LEMMA StartKeepsInv ==
  ASSUME Inv, RunRiskMonitor \/ RunFullScan \/ Flatten
  PROVE  Inv'
<1>1. /\ UNCHANGED <<trades, broker, day, phase, plan, paused, resuming, degraded, quotes, order, alerted>>
      /\ todo' = OpenTrades /\ pc' \in {"exits", "kill"}
  BY DEF RunRiskMonitor, RunFullScan, BeginCycle, Flatten, Liquidate, table, calendar, flags, sent
<1>2. OpenTrades' = OpenTrades /\ OpenTrades \subseteq TradeIds
  BY <1>1 DEF OpenTrades, WithStatus
<1>3. (Rows /\ Broker /\ Calendar /\ Flags /\ OrderType)'
  BY <1>1 DEF Inv, TypeInv, Rows, Broker, Calendar, Flags, OrderType
<1>4. cands' \in Seq(Candidate)
  <2>1. CASE RunRiskMonitor BY <2>1, NoCandidates DEF RunRiskMonitor, BeginCycle
  <2>2. CASE RunFullScan BY <2>2, ConstantsAssumption DEF RunFullScan, BeginCycle
  <2>3. CASE Flatten BY <2>3 DEF Flatten, Inv, TypeInv, Memory
  <2> QED BY <2>1, <2>2, <2>3
<1>5. clock' \in Nat
  BY DEF RunRiskMonitor, RunFullScan, BeginCycle, Flatten, NextStamp, Inv, TypeInv, Memory
<1>6. Memory'
  BY <1>1, <1>2, <1>4, <1>5 DEF Memory, Inv, TypeInv, PcValues
<1>7. GateType'
  <2>1. PriorDayOpen \in BOOLEAN BY DEF PriorDayOpen
  <2>2. NoGate \in Gate BY ConstantsAssumption DEF NoGate, Gate
  <2> QED BY <2>1, <2>2 DEF RunRiskMonitor, RunFullScan, BeginCycle, Flatten, GateType, Gate, Inv, TypeInv
<1>8. Sent'
  <2>1. stats' \in [open: Nat, flattened: Nat]
    BY OpenTradesFinite DEF RunRiskMonitor, RunFullScan, BeginCycle, Flatten, Liquidate, sent,
                            Inv, TypeInv, Sent
  <2> QED BY <2>1, <1>1 DEF Inv, TypeInv, Sent
<1>9. (LoopInv /\ ExitOrderInv /\ EntryOrderInv /\ GateInv)'
  BY <1>1, <1>2 DEF LoopInv, Visiting, ExitOrderInv, EntryOrderInv, GateInv
<1> QED BY <1>3, <1>6, <1>7, <1>8, <1>9 DEF Inv, TypeInv

\* The steps after which nothing is remembered.
LEMMA EndKeepsInv ==
  ASSUME Inv, EndCycle \/ EndFlatten \/ Restart
  PROVE  Inv'
<1>1. UNCHANGED <<trades, broker, day, phase, plan, clock, alerted>> /\ pc' = "idle"
  BY DEF EndCycle, EndFlatten, Restart, table, calendar, cycle, sent
<1>2. (Rows /\ Broker /\ Calendar)'
  BY <1>1 DEF Inv, TypeInv, Rows, Broker, Calendar
<1>3. Flags'
  BY ConstantsAssumption DEF EndCycle, EndFlatten, Restart, flags, Inv, TypeInv, Flags
<1>4. Memory'
  <2>1. quotes' \in [TradeIds -> [seen: BOOLEAN, mark: Int]]
    <3>1. [t \in TradeIds |-> NoQuote] \in [TradeIds -> [seen: BOOLEAN, mark: Int]]
      BY DEF NoQuote
    <3>2. quotes' = quotes \/ quotes' = [t \in TradeIds |-> NoQuote]
      BY DEF EndCycle, EndFlatten, Restart, cycle
    <3> QED BY <3>1, <3>2 DEF Inv, TypeInv, Memory
  <2>2. todo' \in SUBSET TradeIds /\ cands' \in Seq(Candidate)
    <3>1. todo' \in {todo, {}} /\ cands' \in {cands, <<>>}
      BY DEF EndCycle, EndFlatten, Restart, cycle
    <3> QED BY <3>1, NoCandidates DEF Inv, TypeInv, Memory
  <2> QED BY <1>1, <2>1, <2>2 DEF Inv, TypeInv, Memory, PcValues
<1>5. GateType'
  <2>1. NoGate \in Gate BY ConstantsAssumption DEF NoGate, Gate
  <2> QED BY <2>1 DEF EndCycle, EndFlatten, Restart, cycle, Inv, TypeInv, GateType
<1>6. OrderType'
  <2>1. NoOrder \in [trade: Nat, row: Row, mark: Int, back: PcValues] /\ RowOK(NoOrder.row)
    BY NoTradeOK DEF NoOrder, RowOK, PcValues
  <2>2. order' = order \/ order' = NoOrder
    BY DEF EndCycle, EndFlatten, Restart, cycle
  <2> QED BY <2>1, <2>2 DEF Inv, TypeInv, OrderType
<1>7. Sent'
  BY <1>1 DEF EndCycle, EndFlatten, Restart, sent, NoStats, Inv, TypeInv, Sent
<1>8. (LoopInv /\ ExitOrderInv /\ EntryOrderInv /\ GateInv)'
  BY <1>1 DEF LoopInv, Visiting, ExitOrderInv, EntryOrderInv, GateInv
<1> QED BY <1>2, <1>3, <1>4, <1>5, <1>6, <1>7, <1>8 DEF Inv, TypeInv

\* The calendar moves only between cycles.
LEMMA CalendarKeepsInv ==
  ASSUME Inv, AdvancePhase \/ NewDay
  PROVE  Inv'
<1>1. /\ UNCHANGED <<trades, broker, paused, resuming, degraded, clock, pc, todo, quotes,
                     gate, cands, order, stats, alerted>>
      /\ pc' = "idle"
  BY DEF AdvancePhase, NewDay, table, flags, cycle, sent
<1>2. Calendar'
  <2>1. CASE AdvancePhase
    BY <2>1 DEF AdvancePhase, Inv, TypeInv, Calendar, Phases, NextPhase
  <2>2. CASE NewDay
    <3>1. day + 1 \in 1..MaxDay
      BY <2>2, ConstantsAssumption DEF NewDay, Inv, TypeInv, Calendar
    <3>2. plan' \in SUBSET Symbols
      BY <2>2, ConstantsAssumption DEF NewDay
    <3> QED BY <2>2, <3>1, <3>2 DEF NewDay, Calendar, Phases
  <2> QED BY <2>1, <2>2
<1>3. (Rows /\ Broker /\ Flags /\ Memory /\ GateType /\ OrderType /\ Sent)'
  BY <1>1 DEF Inv, TypeInv, Rows, Broker, Flags, Memory, GateType, OrderType, Sent
<1>4. (LoopInv /\ ExitOrderInv /\ EntryOrderInv /\ GateInv)'
  BY <1>1 DEF LoopInv, Visiting, ExitOrderInv, EntryOrderInv, GateInv
<1> QED BY <1>2, <1>3, <1>4 DEF Inv, TypeInv
-----------------------------------------------------------------------------
(* The loop over open positions *)

\* The quote is stored, and a scale-out keeps the position.
LEMMA QuoteKeepsInv ==
  ASSUME Inv, NEW t \in TradeIds, SkipOpenTrade(t) \/ QuoteOpenTrade(t)
  PROVE  Inv'
<1>1. /\ UNCHANGED <<broker, day, phase, plan, paused, resuming, degraded, clock, gate, cands,
                     order, stats, alerted>>
      /\ pc = "exits" /\ pc' \in {"exits", "mark"} /\ todo' \subseteq todo
      /\ t \in todo
  BY DEF SkipOpenTrade, QuoteOpenTrade, NextToVisit, table, calendar, flags, sent
<1>2. t \in OpenTrades /\ trades[t].status = "OPEN" /\ RowOK(trades[t])
  BY <1>1 DEF Inv, LoopInv, Visiting, OpenTrades, WithStatus, TypeInv, Rows
<1>3. /\ Rows'
      /\ OpenTrades' = OpenTrades
  <2>1. CASE UNCHANGED trades
    BY <2>1 DEF Inv, TypeInv, Rows, OpenTrades, WithStatus
  <2>2. CASE \E m \in Marks : /\ ScaleOutDue(trades[t], m)
                              /\ Write(t, ScaledOut(trades[t], m))
    <3>1. PICK m \in Marks : ScaleOutDue(trades[t], m) /\ Write(t, ScaledOut(trades[t], m))
      BY <2>2
    <3>2. m \in Int BY ConstantsAssumption
    <3>3. /\ RowOK(ScaledOut(trades[t], m))
          /\ AsPosition(ScaledOut(trades[t], m)) = AsPosition(trades[t])
      BY <1>2, <3>1, <3>2, ScaledOutOK
    <3> QED BY <3>1, <3>3, WriteKeepsRows, SamePosition DEF Inv, TypeInv
  <2> QED BY <2>1, <2>2 DEF SkipOpenTrade, QuoteOpenTrade, table
<1>4. quotes' \in [TradeIds -> [seen: BOOLEAN, mark: Int]]
  <2>1. quotes' = quotes \/ \E m \in Marks : quotes' = [quotes EXCEPT ![t] = [seen |-> TRUE, mark |-> m]]
    BY DEF SkipOpenTrade, QuoteOpenTrade
  <2>2. \A m \in Marks : [seen |-> TRUE, mark |-> m] \in [seen: BOOLEAN, mark: Int]
    BY ConstantsAssumption
  <2> QED BY <2>1, <2>2 DEF Inv, TypeInv, Memory
<1>5. (Broker /\ Calendar /\ Flags /\ Memory /\ GateType /\ OrderType /\ Sent)'
  BY <1>1, <1>4 DEF Inv, TypeInv, Broker, Calendar, Flags, Memory, GateType, OrderType, Sent, PcValues
<1>6. (LoopInv /\ ExitOrderInv /\ EntryOrderInv /\ GateInv)'
  BY <1>1, <1>3 DEF Inv, LoopInv, Visiting, ExitOrderInv, EntryOrderInv, GateInv
<1> QED BY <1>3, <1>5, <1>6 DEF Inv, TypeInv

\* One position of a loop is dealt with: its row keeps its position or is
\* closed, the other rows are as they were.
Dealt(t, row, back) ==
  /\ Write(t, row) /\ ExitReturns(t, back)
  /\ UNCHANGED <<day, phase, plan, paused, resuming, degraded, clock, quotes, gate, cands, alerted>>

LEMMA DealtKeepsInv ==
  ASSUME Inv, NEW t \in todo, NEW row, NEW back \in {"exits", "hardStop", "kill"},
         pc \in Visiting, RowOK(row), Dealt(t, row, back), Broker', OrderType',
         back = "hardStop" => ~gate.allowed,
         \/ AsPosition(row) = AsPosition(trades[t])
         \/ AsPosition(row) = [AsPosition(trades[t]) EXCEPT !.status = "CLOSED"]
  PROVE  Inv'
<1>1. /\ t \in TradeIds /\ trades[t].status = "OPEN" /\ todo \subseteq OpenTrades
  BY DEF Inv, LoopInv, OpenTrades, WithStatus
<1>2. Rows'
  BY <1>1, WriteKeepsRows DEF Inv, TypeInv, Dealt
<1>3. OpenTrades \ {t} \subseteq OpenTrades'
  <2>1. CASE AsPosition(row) = AsPosition(trades[t])
    BY <1>1, <2>1, SamePosition DEF Inv, TypeInv, Dealt
  <2>2. CASE AsPosition(row) = [AsPosition(trades[t]) EXCEPT !.status = "CLOSED"]
    BY <1>1, <2>2, PositionLeft DEF Inv, TypeInv, Dealt
  <2> QED BY <2>1, <2>2
<1>4. todo' = todo \ {t} /\ pc' = back
  BY DEF Dealt, ExitReturns
<1>5. (Calendar /\ Flags /\ Memory /\ GateType)'
  BY <1>4 DEF Dealt, Inv, TypeInv, Calendar, Flags, Memory, GateType, PcValues
<1>6. Sent'
  <2>1. stats' \in [open: Nat, flattened: Nat]
    BY DEF Dealt, ExitReturns, Inv, TypeInv, Sent
  <2> QED BY <2>1 DEF Dealt, Inv, TypeInv, Sent
<1>7. (LoopInv /\ ExitOrderInv /\ EntryOrderInv /\ GateInv)'
  BY <1>1, <1>3, <1>4 DEF Dealt, Inv, LoopInv, Visiting, ExitOrderInv, EntryOrderInv, GateInv
<1> QED BY <1>2, <1>5, <1>6, <1>7 DEF Inv, TypeInv
\* Either the row is dealt with at once or an exit order is sent for it.
LEMMA ExitTradeKeepsInv ==
  ASSUME Inv, NEW t \in todo, NEW mark \in Int, NEW back \in {"exits", "hardStop", "kill"},
         pc \in Visiting, ExitTrade(t, mark, back), back = "hardStop" => ~gate.allowed,
         UNCHANGED <<broker, calendar, flags, clock, quotes, gate, cands, alerted>>
  PROVE  Inv'
<1>1. /\ t \in TradeIds /\ trades[t].status = "OPEN" /\ todo \subseteq OpenTrades
      /\ RowOK(trades[t]) /\ todo \subseteq TradeIds
      /\ clock \in Nat /\ day \in Nat
  BY DEF Inv, LoopInv, OpenTrades, WithStatus, TypeInv, Rows, Memory, Calendar
<1>2. UNCHANGED <<broker, day, phase, plan, paused, resuming, degraded, clock, quotes, gate, cands, alerted>>
  BY DEF calendar, flags
<1>3. CASE Sandbox /\ ~ExecutionPaused
  <2>1. /\ order' = [trade |-> t, row |-> trades[t], mark |-> mark, back |-> back]
        /\ pc' = "exitOrder" /\ UNCHANGED <<trades, todo, stats>>
    BY <1>3 DEF ExitTrade
  <2>2. OrderType'
    <3>1. t \in Nat BY <1>1, ConstantsAssumption DEF TradeIds
    <3>2. trades[t] \in Row BY <1>1 DEF RowOK
    <3> QED BY <1>1, <2>1, <3>1, <3>2 DEF OrderType, PcValues
  <2>3. (Rows /\ Broker /\ Calendar /\ Flags /\ Memory /\ GateType /\ Sent)'
    BY <1>2, <2>1 DEF Inv, TypeInv, Rows, Broker, Calendar, Flags, Memory, GateType, Sent, PcValues
  <2>4. OpenTrades' = OpenTrades
    BY <2>1 DEF OpenTrades, WithStatus
  <2>5. (LoopInv /\ ExitOrderInv /\ EntryOrderInv /\ GateInv)'
    BY <1>1, <1>2, <2>1, <2>4 DEF LoopInv, Visiting, ExitOrderInv, EntryOrderInv, GateInv
  <2> QED BY <2>2, <2>3, <2>5 DEF Inv, TypeInv
<1>4. CASE ~(Sandbox /\ ~ExecutionPaused)
  <2> DEFINE row == IF ExecutionPaused THEN ExitBlocked(trades[t], mark) ELSE Closed(trades[t], mark)
  <2>1. Write(t, row) /\ ExitReturns(t, back) /\ order' = order
    BY <1>4 DEF ExitTrade
  <2>2. /\ RowOK(row)
        /\ \/ AsPosition(row) = AsPosition(trades[t])
           \/ AsPosition(row) = [AsPosition(trades[t]) EXCEPT !.status = "CLOSED"]
    BY <1>1, ExitBlockedOK, ClosedOK
  <2> HIDE DEF row
  <2>3. Dealt(t, row, back)
    BY <1>2, <2>1 DEF Dealt
  <2>4. Broker' /\ OrderType'
    BY <1>2, <2>1 DEF Inv, TypeInv, Broker, OrderType
  <2> QED BY <2>2, <2>3, <2>4, DealtKeepsInv
<1> QED BY <1>3, <1>4

LEMMA MarkKeepsInv ==
  ASSUME Inv, NEW t \in TradeIds, MarkOpenTrade(t)
  PROVE  Inv'
<1>1. /\ t \in todo /\ pc \in Visiting /\ quotes[t].mark \in Int /\ RowOK(trades[t])
      /\ UNCHANGED <<broker, calendar, flags, clock, quotes, gate, cands, alerted>>
  BY DEF MarkOpenTrade, NextToVisit, Visiting, Inv, TypeInv, Memory, Rows
<1>2. CASE ExitTrade(t, quotes[t].mark, "exits")
  BY <1>1, <1>2, ExitTradeKeepsInv
<1>3. CASE /\ Write(t, Marked(trades[t], quotes[t].mark))
           /\ ExitReturns(t, "exits")
           /\ UNCHANGED order
  <2>1. /\ RowOK(Marked(trades[t], quotes[t].mark))
        /\ AsPosition(Marked(trades[t], quotes[t].mark)) = AsPosition(trades[t])
    BY <1>1, MarkedOK
  <2>2. Dealt(t, Marked(trades[t], quotes[t].mark), "exits")
    BY <1>1, <1>3 DEF Dealt, calendar, flags
  <2>3. Broker' /\ OrderType'
    BY <1>1, <1>3 DEF Inv, TypeInv, Broker, OrderType
  <2> QED BY <1>1, <2>1, <2>2, <2>3, DealtKeepsInv
<1> QED BY <1>2, <1>3 DEF MarkOpenTrade

LEMMA LiquidateKeepsInv ==
  ASSUME Inv, NEW t \in TradeIds, LiquidateTrade(t)
  PROVE  Inv'
<1>1. /\ t \in todo /\ pc \in Visiting /\ pc \in {"hardStop", "kill"}
      /\ pc = "hardStop" => ~gate.allowed
      /\ UNCHANGED <<broker, calendar, flags, clock, quotes, gate, cands, alerted>>
  BY DEF LiquidateTrade, NextToVisit, Visiting, Inv, LoopInv
<1> DEFINE mark == IF pc = "kill" THEN trades[t].mark ELSE quotes[t].mark
<1>2. mark \in Int
  BY DEF Inv, TypeInv, Memory, Rows, Row
<1>3. ExitTrade(t, mark, pc)
  BY DEF LiquidateTrade
<1> HIDE DEF mark
<1> QED BY <1>1, <1>2, <1>3, ExitTradeKeepsInv

\* The broker's answer to an exit order.
LEMMA ExitOrderKeepsInv ==
  ASSUME Inv, ExitOrderAccepted \/ ExitOrderFailed \/ ExitCommit
  PROVE  Inv'
<1>1. /\ pc \in {"exitOrder", "exitCommit"} /\ order.trade \in todo /\ pc \in Visiting
      /\ order.row = trades[order.trade] /\ order.back \in {"exits", "hardStop", "kill"}
      /\ order.back = "hardStop" => ~gate.allowed
      /\ RowOK(order.row) /\ order.mark \in Int /\ order.row.quantity \in Int
      /\ clock \in Nat /\ day \in Nat /\ order.trade \in TradeIds
      /\ order.row.status # "NONE"
  <2>1. pc \in {"exitOrder", "exitCommit"}
    BY DEF ExitOrderAccepted, ExitOrderFailed, ExitCommit
  <2>2. order.trade \in todo /\ todo \subseteq OpenTrades /\ order.row = trades[order.trade]
    BY <2>1 DEF Inv, LoopInv, ExitOrderInv, Visiting
  <2>3. order.trade \in TradeIds /\ order.row.status = "OPEN"
    BY <2>2 DEF OpenTrades, WithStatus
  <2>4. RowOK(order.row) /\ order.mark \in Int /\ order.row.quantity \in Int
    BY DEF Inv, TypeInv, OrderType, Row
  <2>5. clock \in Nat /\ day \in Nat
    BY DEF Inv, TypeInv, Memory, Calendar
  <2> QED BY <2>1, <2>2, <2>3, <2>4, <2>5 DEF Inv, ExitOrderInv, Visiting
<1>2. BrokerSells(order.trade, order.row.quantity) \/ UNCHANGED broker => Broker'
  <2>1. \A u \in Int : BrokerBuys(order.trade, u) => Broker'
    BY <1>1 DEF BrokerBuys, Inv, TypeInv, Broker
  <2>2. UNCHANGED broker => Broker'
    BY DEF Inv, TypeInv, Broker
  <2> QED BY <1>1, <2>1, <2>2 DEF BrokerSells
<1>3. CASE ExitOrderAccepted
  <2>1. /\ UNCHANGED <<trades, day, phase, plan, paused, resuming, degraded, clock, todo, quotes,
                       gate, cands, order, stats, alerted>>
        /\ pc' = "exitCommit"
    BY <1>3 DEF ExitOrderAccepted, calendar, flags, cycle, sent
  <2>2. (Rows /\ Calendar /\ Flags /\ Memory /\ GateType /\ OrderType /\ Sent)'
    BY <2>1 DEF Inv, TypeInv, Rows, Calendar, Flags, Memory, GateType, OrderType, Sent, PcValues
  <2>3. OpenTrades' = OpenTrades
    BY <2>1 DEF OpenTrades, WithStatus
  <2>4. (LoopInv /\ ExitOrderInv /\ EntryOrderInv /\ GateInv)'
    BY <1>1, <2>1, <2>3 DEF Inv, LoopInv, Visiting, ExitOrderInv, EntryOrderInv, GateInv
  <2> QED BY <1>2, <1>3, <2>2, <2>4 DEF ExitOrderAccepted, Inv, TypeInv
<1>4. OrderType' \/ order' # NoOrder
  BY NoTradeOK DEF OrderType, NoOrder, RowOK, PcValues
<1>5. CASE ExitOrderFailed
  <2>1. /\ RowOK(Marked(order.row, order.mark))
        /\ AsPosition(Marked(order.row, order.mark)) = AsPosition(trades[order.trade])
    BY <1>1, MarkedOK
  <2>2. Dealt(order.trade, Marked(order.row, order.mark), order.back)
    BY <1>5 DEF ExitOrderFailed, Dealt, calendar, flags
  <2>3. Broker' /\ OrderType'
    BY <1>2, <1>4, <1>5 DEF ExitOrderFailed
  <2> QED BY <1>1, <2>1, <2>2, <2>3, DealtKeepsInv
<1>6. CASE ExitCommit
  <2>1. /\ RowOK(Closed(order.row, order.mark))
        /\ AsPosition(Closed(order.row, order.mark))
             = [AsPosition(trades[order.trade]) EXCEPT !.status = "CLOSED"]
    BY <1>1, ClosedOK
  <2>2. Dealt(order.trade, Closed(order.row, order.mark), order.back)
    BY <1>6 DEF ExitCommit, Dealt, calendar, flags
  <2>3. Broker' /\ OrderType'
    BY <1>4, <1>6 DEF ExitCommit, Inv, TypeInv, Broker
  <2> QED BY <1>1, <2>1, <2>2, <2>3, DealtKeepsInv
<1> QED BY <1>3, <1>5, <1>6
-----------------------------------------------------------------------------
(* The breakers and the entries *)

LEMMA EvaluateKeepsInv ==
  ASSUME Inv, EvaluateBreakers
  PROVE  Inv'
<1>1. UNCHANGED <<trades, broker, day, phase, plan, paused, resuming, degraded, clock, quotes, cands, order>>
  BY DEF EvaluateBreakers, Liquidate, table, calendar, flags
<1>2. PICK streak \in LossStreaks :
        /\ gate' = [gate EXCEPT !.allowed = ~ExecutionPaused /\ BreakersClear(streak),
                                !.rows = OpenTrades, !.count = Cardinality(OpenedOn(day)),
                                !.budget = RiskBudget(Projected)]
        /\ IF streak >= LossStreakLimit
           THEN Liquidate("hardStop") /\ UNCHANGED clock
           ELSE pc' = "entries" /\ UNCHANGED <<clock, todo, stats>>
  BY DEF EvaluateBreakers
<1>3. /\ OpenTrades' = OpenTrades /\ OpenTrades \subseteq TradeIds
      /\ OpenedOn(day)' = OpenedOn(day)
  BY <1>1 DEF OpenTrades, WithStatus, OpenedOn
<1>4. /\ gate' \in Gate
      /\ gate'.rows = OpenTrades /\ gate'.count = Cardinality(OpenedOn(day))
      /\ gate'.allowed = (~ExecutionPaused /\ BreakersClear(streak))
  <2>1. RiskBudget(Projected) \in Nat
    BY ConstantsAssumption DEF RiskBudget
  <2>2. (~ExecutionPaused /\ BreakersClear(streak)) \in BOOLEAN
    OBVIOUS
  <2>3. gate \in Gate BY DEF Inv, TypeInv, GateType
  <2> HIDE DEF RiskBudget, Projected, BreakersClear, ExecutionPaused
  <2> QED BY <1>2, <1>3, <2>1, <2>2, <2>3, OpenTradesFinite DEF Gate
<1>5. streak >= LossStreakLimit => ~gate'.allowed
  <2>1. streak \in Int BY DEF LossStreaks
  <2>2. BreakersClear(streak) => streak < LossStreakLimit BY DEF BreakersClear
  <2>3. LossStreakLimit \in Int BY ConstantsAssumption
  <2>4. ASSUME streak >= LossStreakLimit PROVE ~BreakersClear(streak)
    BY <2>1, <2>2, <2>3, <2>4
  <2>5. ASSUME streak >= LossStreakLimit PROVE ~gate'.allowed
    <3>1. ~BreakersClear(streak) BY <2>4, <2>5
    <3>2. gate'.allowed = (~ExecutionPaused /\ BreakersClear(streak)) BY <1>4
    <3> HIDE DEF BreakersClear, ExecutionPaused
    <3> QED BY <3>1, <3>2
  <2> QED BY <2>5
<1>6. (Rows /\ Broker /\ Calendar /\ Flags /\ OrderType)'
  BY <1>1 DEF Inv, TypeInv, Rows, Broker, Calendar, Flags, OrderType
<1>7. Memory' /\ Sent'
  <2>1. todo' \in SUBSET TradeIds /\ pc' \in {"hardStop", "entries"}
    BY <1>2, <1>3 DEF Liquidate, Inv, TypeInv, Memory
  <2>2. stats' \in [open: Nat, flattened: Nat]
    BY <1>2, OpenTradesFinite DEF Liquidate, Inv, TypeInv, Sent
  <2>3. alerted' \subseteq {"LOSS_LIMIT", "TWO_LOSSES"} \X (1..MaxDay)
    BY DEF EvaluateBreakers, ReportLossLimit, Inv, TypeInv, Sent, Calendar
  <2> QED BY <1>1, <2>1, <2>2, <2>3 DEF Memory, Sent, Inv, TypeInv, PcValues
<1>8. (LoopInv /\ ExitOrderInv /\ EntryOrderInv /\ GateInv)'
  <2>1. CASE streak >= LossStreakLimit
    BY <1>2, <1>3, <1>5, <2>1 DEF Liquidate, LoopInv, Visiting, ExitOrderInv, EntryOrderInv, GateInv
  <2>2. CASE ~(streak >= LossStreakLimit)
    BY <1>2, <1>3, <1>4, <2>2 DEF LoopInv, Visiting, ExitOrderInv, EntryOrderInv, GateInv
  <2> QED BY <2>1, <2>2
<1> QED BY <1>4, <1>6, <1>7, <1>8 DEF Inv, TypeInv, GateType

\* After a hard stop the gate no longer knows the rows, and entries are off.
LEMMA EndHardStopKeepsInv ==
  ASSUME Inv, EndHardStop
  PROVE  Inv'
<1>1. /\ UNCHANGED <<trades, broker, day, phase, plan, paused, resuming, degraded, clock, todo,
                     quotes, cands, order>>
      /\ pc = "hardStop" /\ pc' = "entries" /\ gate' = [gate EXCEPT !.rows = {}]
      /\ stats' = NoStats /\ alerted' = alerted \cup {<<"TWO_LOSSES", day>>}
  BY DEF EndHardStop, table, calendar, flags
<1>2. gate' \in Gate /\ ~gate'.allowed
  BY <1>1 DEF Inv, TypeInv, GateType, Gate, LoopInv
<1>3. (Rows /\ Broker /\ Calendar /\ Flags /\ Memory /\ OrderType)'
  BY <1>1 DEF Inv, TypeInv, Rows, Broker, Calendar, Flags, Memory, OrderType, PcValues
<1>4. Sent'
  BY <1>1 DEF NoStats, Inv, TypeInv, Sent, Calendar
<1>5. (LoopInv /\ ExitOrderInv /\ EntryOrderInv /\ GateInv)'
  BY <1>1, <1>2 DEF LoopInv, Visiting, ExitOrderInv, EntryOrderInv, GateInv
<1> QED BY <1>2, <1>3, <1>4, <1>5 DEF Inv, TypeInv, GateType

LEMMA ShorterList ==
  ASSUME Inv, cands # <<>>
  PROVE  Tail(cands) \in Seq(Candidate) /\ Head(cands) \in Candidate
BY DEF Inv, TypeInv, Memory

LEMMA SkipCandidateKeepsInv ==
  ASSUME Inv, StopEntries \/ RejectCandidate
  PROVE  Inv'
<1>1. /\ UNCHANGED <<trades, broker, day, phase, plan, paused, resuming, degraded, clock, pc, todo,
                     quotes, gate, order, stats, alerted>>
      /\ pc = "entries" /\ cands # <<>> /\ cands' \in {<<>>, Tail(cands)}
  BY DEF StopEntries, RejectCandidate, table, calendar, flags, sent
<1>2. cands' \in Seq(Candidate) BY <1>1, ShorterList, NoCandidates
<1>3. (Rows /\ Broker /\ Calendar /\ Flags /\ Memory /\ GateType /\ OrderType /\ Sent)'
  BY <1>1, <1>2 DEF Inv, TypeInv, Rows, Broker, Calendar, Flags, Memory, GateType, OrderType, Sent
<1>4. OpenTrades' = OpenTrades /\ OpenedOn(day)' = OpenedOn(day)
  BY <1>1 DEF OpenTrades, WithStatus, OpenedOn
<1>5. (LoopInv /\ ExitOrderInv /\ EntryOrderInv /\ GateInv)'
  BY <1>1, <1>4 DEF Inv, LoopInv, Visiting, ExitOrderInv, EntryOrderInv, GateInv
<1> QED BY <1>3, <1>5 DEF Inv, TypeInv

\* Inserting an enterable row when the gate knows the table.
LEMMA InsertKeepsInv ==
  ASSUME Inv, NEW t, NEW row, Enterable(t, row), RowOK(row), InsertTrade(t, row),
         gate.rows = OpenTrades, gate.count = Cardinality(OpenedOn(day)), gate.allowed,
         cands # <<>>, pc' = "entries", Broker', OrderType',
         UNCHANGED <<calendar, flags, clock, todo, quotes, sent>>
  PROVE  Inv'
<1>1. /\ t \in TradeIds /\ Write(t, row) /\ day' = day
      /\ trades[t].status = "NONE" /\ row.status = "OPEN" /\ row.trading_day = day
  BY DEF Enterable, InsertTrade, calendar
<1>2. /\ OpenTrades' = OpenTrades \cup {t} /\ t \notin OpenTrades
      /\ OpenedOn(day)' = OpenedOn(day) \cup {t} /\ t \notin OpenedOn(day)
  BY <1>1, PositionEntered DEF Inv, TypeInv
<1>3. Cardinality(OpenedOn(day)') = Cardinality(OpenedOn(day)) + 1
  BY <1>2, OpenTradesFinite, FS_AddElement
<1>4. Rows'
  BY <1>1, WriteKeepsRows DEF Inv, TypeInv
<1>5. gate' = [gate EXCEPT !.rows = gate.rows \cup {t}, !.count = gate.count + 1]
  BY DEF InsertTrade
<1>6. GateType' /\ gate'.rows = OpenTrades' /\ gate'.count = Cardinality(OpenedOn(day)')
  <2>1. gate \in Gate BY DEF Inv, TypeInv, GateType
  <2>2. gate.rows \cup {t} \in SUBSET TradeIds /\ gate.count + 1 \in Nat
    BY <1>1, <2>1 DEF Gate
  <2>3. /\ gate' \in Gate
        /\ gate'.rows = gate.rows \cup {t} /\ gate'.count = gate.count + 1
    BY <1>5, <2>1, <2>2 DEF Gate
  <2> QED BY <1>2, <1>3, <2>3 DEF GateType
<1>7. (Calendar /\ Flags /\ Memory /\ Sent)'
  <2>1. cands' \in Seq(Candidate) BY ShorterList DEF InsertTrade
  <2> QED BY <2>1 DEF Inv, TypeInv, Calendar, Flags, Memory, Sent, calendar, flags, sent, PcValues
<1>8. (LoopInv /\ ExitOrderInv /\ EntryOrderInv /\ GateInv)'
  BY <1>6 DEF LoopInv, Visiting, ExitOrderInv, EntryOrderInv, GateInv
<1> QED BY <1>4, <1>6, <1>7, <1>8 DEF Inv, TypeInv

\* An eligible candidate is enterable: no open position shares its agent or its
\* symbol, and neither the book nor the day is full.
LEMMA EligibleIsEnterable ==
  ASSUME Inv, pc = "entries", cands # <<>>, NEW t \in FreshTrade, Eligible(Head(cands)),
         NEW d \in StopDistances, NEW q \in Quantities
  PROVE  /\ Enterable(t, NewRow(Head(cands), d, q)) /\ RowOK(NewRow(Head(cands), d, q))
         /\ gate.allowed /\ gate.rows = OpenTrades /\ gate.count = Cardinality(OpenedOn(day))
<1> DEFINE row == NewRow(Head(cands), d, q)
<1>1. Head(cands) \in Candidate BY ShorterList
<1>2. day \in Nat BY DEF Inv, TypeInv, Calendar
<1>3. /\ RowOK(row)
      /\ row.status = "OPEN" /\ row.trading_day = day
      /\ row.symbol = Head(cands).symbol /\ row.agent = Head(cands).agent
      /\ row.symbol \in Symbols /\ row.agent \in Agents
  BY <1>1, <1>2, NewRowOK
<1> HIDE DEF row
<1>4. gate.allowed /\ gate.rows = OpenTrades /\ gate.count = Cardinality(OpenedOn(day))
  BY DEF Eligible, Inv, GateInv
<1>5. t \in TradeIds /\ trades[t].status = "NONE"
  BY DEF FreshTrade
<1>6. Cardinality(OpenTrades) < MaxOpen
  BY <1>4 DEF Eligible
<1>7. \A u \in OpenTrades : trades[u].symbol # row.symbol /\ trades[u].agent # row.agent
  BY <1>3, <1>4 DEF Eligible, Occupied
<1>8. MaxPerDay > 0 => Cardinality(OpenedOn(day)) < MaxPerDay
  <2>1. MaxPerDay \in Nat BY ConstantsAssumption
  <2> QED BY <1>4, <2>1, OpenTradesFinite DEF Eligible, DayFull
<1>9. Enterable(t, row)
  BY <1>3, <1>5, <1>6, <1>7, <1>8 DEF Enterable
<1> QED BY <1>3, <1>4, <1>9 DEF row

LEMMA OpenTradeKeepsInv ==
  ASSUME Inv, NEW t \in TradeIds, OpenTrade(t)
  PROVE  Inv'
<1>1. /\ pc = "entries" /\ cands # <<>> /\ t \in FreshTrade /\ Eligible(Head(cands))
      /\ UNCHANGED <<broker, calendar, flags, clock, todo, quotes, sent>>
  BY DEF OpenTrade
<1>2. PICK d \in StopDistances, q \in Quantities :
        IF Sandbox
        THEN /\ order' = [trade |-> t, row |-> NewRow(Head(cands), d, q),
                          mark |-> 0, back |-> "entries"]
             /\ pc' = "entryOrder"
             /\ UNCHANGED <<trades, gate, cands>>
        ELSE InsertTrade(t, NewRow(Head(cands), d, q)) /\ UNCHANGED <<pc, order>>
  BY DEF OpenTrade
<1> DEFINE row == NewRow(Head(cands), d, q)
<1>3. /\ Enterable(t, row) /\ RowOK(row)
      /\ gate.allowed /\ gate.rows = OpenTrades /\ gate.count = Cardinality(OpenedOn(day))
  BY <1>1, EligibleIsEnterable
<1> HIDE DEF row
<1>4. CASE Sandbox
  <2>1. /\ order' = [trade |-> t, row |-> row, mark |-> 0, back |-> "entries"]
        /\ pc' = "entryOrder" /\ UNCHANGED <<trades, gate, cands>>
    BY <1>2, <1>4 DEF row
  <2>2. OrderType'
    <3>1. t \in Nat BY ConstantsAssumption DEF TradeIds
    <3>2. row \in Row BY <1>3 DEF RowOK
    <3> QED BY <1>3, <2>1, <3>1, <3>2 DEF OrderType, PcValues
  <2>3. UNCHANGED <<trades, broker, day, phase, plan, paused, resuming, degraded, clock, todo, quotes,
                    gate, cands, stats, alerted>>
    BY <1>1, <2>1 DEF calendar, flags, sent
  <2>4. (Rows /\ Broker /\ Calendar /\ Flags /\ Memory /\ GateType /\ Sent)'
    BY <2>1, <2>3 DEF Inv, TypeInv, Rows, Broker, Calendar, Flags, Memory, GateType, Sent, PcValues
  <2>5. OpenTrades' = OpenTrades /\ OpenedOn(day)' = OpenedOn(day)
    BY <2>3 DEF OpenTrades, WithStatus, OpenedOn
  <2>6. EntryOrderInv'
    BY <1>1, <1>3, <2>1, <2>3, <2>5 DEF EntryOrderInv, Enterable
  <2>7. (LoopInv /\ ExitOrderInv /\ GateInv)'
    BY <1>3, <2>1, <2>3, <2>5 DEF LoopInv, Visiting, ExitOrderInv, GateInv
  <2> QED BY <2>2, <2>4, <2>6, <2>7 DEF Inv, TypeInv
<1>5. CASE ~Sandbox
  <2>1. InsertTrade(t, row) /\ pc' = "entries" /\ order' = order
    BY <1>1, <1>2, <1>5 DEF row
  <2>2. Broker' /\ OrderType'
    BY <1>1, <2>1 DEF Inv, TypeInv, Broker, OrderType
  <2> QED BY <1>1, <1>3, <2>1, <2>2, InsertKeepsInv
<1> QED BY <1>4, <1>5

\* The broker's answer to an entry order: the row waits for it, nothing moves.
LEMMA EntryOrderKeepsInv ==
  ASSUME Inv, EntryOrderAccepted \/ EntryOrderFailed \/ EntryCommit
  PROVE  Inv'
<1>1. /\ pc \in {"entryOrder", "entryCommit"}
      /\ gate.allowed /\ cands # <<>> /\ Enterable(order.trade, order.row)
      /\ gate.rows = OpenTrades /\ gate.count = Cardinality(OpenedOn(day))
      /\ RowOK(order.row) /\ order.trade \in TradeIds /\ order.row.quantity \in Int
  <2>1. pc \in {"entryOrder", "entryCommit"}
    BY DEF EntryOrderAccepted, EntryOrderFailed, EntryCommit
  <2>2. RowOK(order.row) /\ order.row.quantity \in Int
    BY DEF Inv, TypeInv, OrderType, Row
  <2> QED BY <2>1, <2>2 DEF Inv, EntryOrderInv, GateInv, Enterable
<1>2. BrokerBuys(order.trade, order.row.quantity) \/ UNCHANGED broker => Broker'
  BY <1>1 DEF BrokerBuys, Inv, TypeInv, Broker
<1>3. order' = NoOrder => OrderType'
  BY NoTradeOK DEF OrderType, NoOrder, RowOK, PcValues
<1>4. CASE EntryOrderAccepted
  <2>1. /\ UNCHANGED <<trades, day, phase, plan, paused, resuming, degraded, clock, todo, quotes,
                       gate, cands, order, stats, alerted>>
        /\ pc' = "entryCommit"
    BY <1>4 DEF EntryOrderAccepted, calendar, flags, cycle, sent
  <2>2. (Rows /\ Calendar /\ Flags /\ Memory /\ GateType /\ OrderType /\ Sent)'
    BY <2>1 DEF Inv, TypeInv, Rows, Calendar, Flags, Memory, GateType, OrderType, Sent, PcValues
  <2>3. OpenTrades' = OpenTrades /\ OpenedOn(day)' = OpenedOn(day)
    BY <2>1 DEF OpenTrades, WithStatus, OpenedOn
  <2>4. (EntryOrderInv /\ GateInv)'
    BY <1>1, <2>1, <2>3 DEF EntryOrderInv, Enterable, GateInv
  <2>5. (LoopInv /\ ExitOrderInv)'
    BY <2>1 DEF LoopInv, Visiting, ExitOrderInv
  <2> QED BY <1>2, <1>4, <2>2, <2>4, <2>5 DEF EntryOrderAccepted, Inv, TypeInv
<1>5. CASE EntryOrderFailed
  <2>1. /\ UNCHANGED <<trades, day, phase, plan, paused, resuming, degraded, clock, todo, quotes,
                       gate, stats, alerted>>
        /\ pc' = "entries" /\ cands' = Tail(cands) /\ order' = NoOrder
    BY <1>5 DEF EntryOrderFailed, calendar, flags, sent
  <2>2. cands' \in Seq(Candidate)
    BY <1>1, <2>1, ShorterList
  <2>3. (Rows /\ Calendar /\ Flags /\ Memory /\ GateType /\ Sent)'
    BY <2>1, <2>2 DEF Inv, TypeInv, Rows, Calendar, Flags, Memory, GateType, Sent, PcValues
  <2>4. OpenTrades' = OpenTrades /\ OpenedOn(day)' = OpenedOn(day)
    BY <2>1 DEF OpenTrades, WithStatus, OpenedOn
  <2>5. (LoopInv /\ ExitOrderInv /\ EntryOrderInv /\ GateInv)'
    BY <1>1, <2>1, <2>4 DEF LoopInv, Visiting, ExitOrderInv, EntryOrderInv, GateInv
  <2> QED BY <1>2, <1>3, <1>5, <2>1, <2>3, <2>5 DEF EntryOrderFailed, Inv, TypeInv
<1>6. CASE EntryCommit
  <2>1. /\ InsertTrade(order.trade, order.row) /\ pc' = "entries" /\ order' = NoOrder
        /\ UNCHANGED <<broker, calendar, flags, clock, todo, quotes, sent>>
    BY <1>6 DEF EntryCommit
  <2>2. Broker' /\ OrderType'
    BY <1>2, <1>3, <2>1
  <2> QED BY <1>1, <2>1, <2>2, InsertKeepsInv
<1> QED BY <1>4, <1>5, <1>6

-----------------------------------------------------------------------------
(* Every step *)

LEMMA StutterKeepsInv ==
  ASSUME Inv, UNCHANGED vars
  PROVE  Inv'
<1>1. UNCHANGED <<trades, broker, day, phase, plan, paused, resuming, degraded, clock, pc, todo,
                  quotes, gate, cands, order, stats, alerted>>
  BY DEF vars, table, calendar, flags, cycle, sent
<1>2. OpenTrades' = OpenTrades /\ OpenedOn(day)' = OpenedOn(day)
  BY <1>1 DEF OpenTrades, WithStatus, OpenedOn
<1>3. TypeInv'
  BY <1>1 DEF Inv, TypeInv, Rows, Broker, Calendar, Flags, Memory, GateType, OrderType, Sent
<1>4. (LoopInv /\ ExitOrderInv /\ EntryOrderInv /\ GateInv)'
  BY <1>1, <1>2 DEF Inv, LoopInv, ExitOrderInv, EntryOrderInv, GateInv, Enterable
<1> QED BY <1>3, <1>4 DEF Inv

\* Everything a cycle remembers agrees with the table, at every step of every
\* thread.
THEOREM InvIsInductive == Spec => []Inv
<1>1. ASSUME Inv, [Next]_vars PROVE Inv'
  <2>1. CASE UNCHANGED vars BY <1>1, <2>1, StutterKeepsInv
  <2>2. CASE RunRiskMonitor \/ RunFullScan \/ Flatten BY <1>1, <2>2, StartKeepsInv
  <2>3. CASE Pause \/ ResumeQuery \/ ResumeApply \/ DegradedChanges BY <1>1, <2>3, FlagsKeepInv
  <2>4. CASE EndCycle \/ EndFlatten \/ Restart BY <1>1, <2>4, EndKeepsInv
  <2>5. CASE AdvancePhase \/ NewDay BY <1>1, <2>5, CalendarKeepsInv
  <2>6. ASSUME NEW t \in TradeIds, SkipOpenTrade(t) \/ QuoteOpenTrade(t) PROVE Inv'
    BY <1>1, <2>6, QuoteKeepsInv
  <2>7. ASSUME NEW t \in TradeIds, MarkOpenTrade(t) PROVE Inv'
    BY <1>1, <2>7, MarkKeepsInv
  <2>8. ASSUME NEW t \in TradeIds, LiquidateTrade(t) PROVE Inv'
    BY <1>1, <2>8, LiquidateKeepsInv
  <2>9. ASSUME NEW t \in TradeIds, OpenTrade(t) PROVE Inv'
    BY <1>1, <2>9, OpenTradeKeepsInv
  <2>10. CASE EvaluateBreakers BY <1>1, <2>10, EvaluateKeepsInv
  <2>11. CASE EndHardStop BY <1>1, <2>11, EndHardStopKeepsInv
  <2>12. CASE StopEntries \/ RejectCandidate BY <1>1, <2>12, SkipCandidateKeepsInv
  <2>13. CASE EntryOrderAccepted \/ EntryOrderFailed \/ EntryCommit
    BY <1>1, <2>13, EntryOrderKeepsInv
  <2>14. CASE ExitOrderAccepted \/ ExitOrderFailed \/ ExitCommit
    BY <1>1, <2>14, ExitOrderKeepsInv
  <2> QED BY <1>1, <2>1, <2>2, <2>3, <2>4, <2>5, <2>6, <2>7, <2>8, <2>9, <2>10, <2>11, <2>12,
             <2>13, <2>14 DEF Next, CycleStep
<1> QED BY InitInv, <1>1, PTL DEF Spec

\* PaperTrading!TypeOK, for all constants.
THEOREM TypeCorrect == Spec => []TypeOK
<1>1. Inv => TypeOK
  BY DEF Inv, TypeInv, Rows, RowOK, Broker, Calendar, Flags, Memory, GateType, OrderType, Sent, TypeOK
<1> QED BY InvIsInductive, <1>1, PTL

-----------------------------------------------------------------------------
(* What a step does to the table, and the two results it gives *)

\* What an open position loses at its stop.
Exposure(row) == IF row.status = "OPEN" /\ row.stop_pnl < 0 THEN -row.stop_pnl ELSE 0

\* A row comes from its order, or straight from a candidate that was sized.
Admitted(row) ==
  \/ pc = "entryCommit" /\ row = order.row
  \/ /\ pc = "entries" /\ cands # <<>> /\ Eligible(Head(cands))
     /\ \E d \in StopDistances, q \in Quantities : Sized(d, q) /\ row = NewRow(Head(cands), d, q)

\* A row is rewritten in its position, closed, or entered.
RowStep(t, row) ==
  /\ Write(t, row) /\ RowOK(row) /\ day' = day
  /\ \/ /\ trades[t].status = "OPEN" /\ AsPosition(row) = AsPosition(trades[t])
        /\ Exposure(row) <= Exposure(trades[t])
     \/ /\ trades[t].status = "OPEN"
        /\ AsPosition(row) = [AsPosition(trades[t]) EXCEPT !.status = "CLOSED"]
     \/ Enterable(t, row) /\ Admitted(row)
DateStep == trades' = trades /\ (day' = day \/ (day < MaxDay /\ day' = day + 1))
TableStep == DateStep \/ \E t \in TradeIds : \E row : RowStep(t, row)

\* No rewriting of a position lowers its stop.
LEMMA ExposureKept ==
  ASSUME NEW row, RowOK(row), NEW mark \in Int
  PROVE  /\ Exposure(row) \in Nat
         /\ Exposure(Marked(row, mark)) <= Exposure(row)
         /\ Exposure(ExitBlocked(row, mark)) <= Exposure(row)
<1>1. row \in Row /\ Marked(row, mark) \in Row /\ ExitBlocked(row, mark) \in Row
  BY MarkedOK, ExitBlockedOK DEF RowOK
<1>2. Exposure(row) \in Nat BY <1>1 DEF Exposure, Row
<1>3. /\ Marked(row, mark).status = row.status
      /\ Marked(row, mark).stop_pnl = row.stop_pnl
  BY <1>1 DEF Marked, Row
<1>4. /\ ExitBlocked(row, mark).status = Marked(row, mark).status
      /\ ExitBlocked(row, mark).stop_pnl = Marked(row, mark).stop_pnl
  BY <1>1 DEF ExitBlocked, Row
<1>5. /\ Exposure(Marked(row, mark)) = Exposure(row)
      /\ Exposure(ExitBlocked(row, mark)) = Exposure(row)
  BY <1>3, <1>4 DEF Exposure
<1> QED BY <1>2, <1>5

\* The raised stop of a runner lies where nothing is lost.
LEMMA RunnerIsSafe ==
  ASSUME NEW row, RowOK(row), NEW mark \in Int, row.status # "NONE", ScaleOutDue(row, mark)
  PROVE  Exposure(ScaledOut(row, mark)) = 0
<1> DEFINE part == row.initial_quantity \div 2
           gross == mark * part
           costs == row.costs + OrderCost
           cover == costs + OrderCost - gross
           stop == IF cover > 0 THEN cover ELSE 0
<1>1. row \in Row /\ row.initial_quantity \in Nat /\ row.costs \in Nat BY DEF RowOK, Row
<1>2. part \in Nat BY <1>1
<1>3. gross \in Int BY <1>2
<1>4. stop >= 0
  <2> HIDE DEF gross
  <2> QED BY <1>1, <1>3, OrderCostNat
<1>5. ScaledOut(row, mark).stop_pnl = stop BY <1>1 DEF ScaledOut, Row
<1> HIDE DEF stop
<1>6. stop \in Int /\ ~(stop < 0)
  <2>1. ScaledOut(row, mark) \in Row BY ScaledOutOK DEF RowOK
  <2>2. stop \in Int BY <2>1, <1>5 DEF Row
  <2> QED BY <2>2, <1>4
<1> QED BY <1>5, <1>6 DEF Exposure

LEMMA ExitTradeStep ==
  ASSUME Inv, NEW t \in todo, NEW mark \in Int, NEW back, pc \in Visiting,
         ExitTrade(t, mark, back), day' = day
  PROVE  TableStep
<1>1. /\ t \in TradeIds /\ trades[t].status = "OPEN" /\ RowOK(trades[t])
      /\ clock \in Nat /\ day \in Nat
  BY DEF Inv, LoopInv, OpenTrades, WithStatus, TypeInv, Rows, Memory, Calendar
<1>2. CASE Sandbox /\ ~ExecutionPaused
  BY <1>2 DEF ExitTrade, TableStep, DateStep
<1>3. CASE ~(Sandbox /\ ~ExecutionPaused)
  <2> DEFINE row == IF ExecutionPaused THEN ExitBlocked(trades[t], mark) ELSE Closed(trades[t], mark)
  <2>1. Write(t, row) BY <1>3 DEF ExitTrade
  <2>2. /\ RowOK(row)
        /\ \/ /\ AsPosition(row) = AsPosition(trades[t])
              /\ Exposure(row) <= Exposure(trades[t])
           \/ AsPosition(row) = [AsPosition(trades[t]) EXCEPT !.status = "CLOSED"]
    BY <1>1, ExitBlockedOK, ClosedOK, ExposureKept
  <2> HIDE DEF row
  <2>3. RowStep(t, row) BY <1>1, <2>1, <2>2 DEF RowStep
  <2> QED BY <1>1, <2>3 DEF TableStep
<1> QED BY <1>2, <1>3

LEMMA LoopStep ==
  ASSUME Inv, NEW t \in TradeIds,
         SkipOpenTrade(t) \/ QuoteOpenTrade(t) \/ MarkOpenTrade(t) \/ LiquidateTrade(t)
  PROVE  TableStep
<1>1. /\ t \in todo /\ pc \in Visiting /\ day' = day
  BY DEF SkipOpenTrade, QuoteOpenTrade, MarkOpenTrade, LiquidateTrade, NextToVisit, Visiting, calendar
<1>2. trades[t].status = "OPEN" /\ RowOK(trades[t])
  BY <1>1 DEF Inv, LoopInv, OpenTrades, WithStatus, TypeInv, Rows
<1>3. CASE SkipOpenTrade(t)
  BY <1>3 DEF SkipOpenTrade, table, calendar, TableStep, DateStep
<1>4. CASE QuoteOpenTrade(t)
  <2>1. trades' = trades \/ \E m \in Marks : ScaleOutDue(trades[t], m) /\ Write(t, ScaledOut(trades[t], m))
    BY <1>4 DEF QuoteOpenTrade
  <2>2. ASSUME NEW m \in Marks, ScaleOutDue(trades[t], m), Write(t, ScaledOut(trades[t], m))
        PROVE  TableStep
    <3>1. m \in Int BY ConstantsAssumption
    <3>2. /\ RowOK(ScaledOut(trades[t], m))
          /\ AsPosition(ScaledOut(trades[t], m)) = AsPosition(trades[t])
          /\ Exposure(ScaledOut(trades[t], m)) <= Exposure(trades[t])
      <4>1. Exposure(ScaledOut(trades[t], m)) = 0 /\ Exposure(trades[t]) \in Nat
        BY <1>2, <2>2, <3>1, RunnerIsSafe, ExposureKept
      <4> QED BY <1>2, <2>2, <3>1, <4>1, ScaledOutOK
    <3>3. RowStep(t, ScaledOut(trades[t], m)) BY <1>1, <1>2, <2>2, <3>2 DEF RowStep
    <3> QED BY <3>3 DEF TableStep
  <2> QED BY <1>1, <2>1, <2>2 DEF TableStep, DateStep
<1>5. CASE MarkOpenTrade(t)
  <2>1. quotes[t].mark \in Int BY DEF Inv, TypeInv, Memory
  <2>2. CASE ExitTrade(t, quotes[t].mark, "exits")
    BY <1>1, <2>1, <2>2, ExitTradeStep
  <2>3. CASE Write(t, Marked(trades[t], quotes[t].mark))
    <3>1. /\ RowOK(Marked(trades[t], quotes[t].mark))
          /\ AsPosition(Marked(trades[t], quotes[t].mark)) = AsPosition(trades[t])
          /\ Exposure(Marked(trades[t], quotes[t].mark)) <= Exposure(trades[t])
      BY <1>2, <2>1, MarkedOK, ExposureKept
    <3>2. RowStep(t, Marked(trades[t], quotes[t].mark)) BY <1>1, <1>2, <2>3, <3>1 DEF RowStep
    <3> QED BY <3>2 DEF TableStep
  <2> QED BY <1>5, <2>2, <2>3 DEF MarkOpenTrade
<1>6. CASE LiquidateTrade(t)
  <2> DEFINE mark == IF pc = "kill" THEN trades[t].mark ELSE quotes[t].mark
  <2>1. mark \in Int BY DEF Inv, TypeInv, Memory, Rows, Row
  <2>2. ExitTrade(t, mark, pc) BY <1>6 DEF LiquidateTrade
  <2> HIDE DEF mark
  <2> QED BY <1>1, <2>1, <2>2, ExitTradeStep
<1> QED BY <1>3, <1>4, <1>5, <1>6

LEMMA OrderStep ==
  ASSUME Inv, ExitOrderFailed \/ ExitCommit \/ EntryCommit
  PROVE  TableStep
<1> DEFINE t == order.trade
           row == order.row
<1>1. day' = day
  BY DEF ExitOrderFailed, ExitCommit, EntryCommit, calendar
<1>2. RowOK(row) /\ order.mark \in Int /\ clock \in Nat /\ day \in Nat
  BY DEF Inv, TypeInv, OrderType, Memory, Calendar
<1>3. CASE ExitOrderFailed \/ ExitCommit
  <2>1. pc \in {"exitOrder", "exitCommit"} BY <1>3 DEF ExitOrderFailed, ExitCommit
  <2>2. /\ t \in TradeIds /\ trades[t].status = "OPEN" /\ row = trades[t]
    BY <2>1 DEF Inv, LoopInv, Visiting, ExitOrderInv, OpenTrades, WithStatus
  <2>3. CASE ExitOrderFailed
    <3>1. /\ RowOK(Marked(row, order.mark)) /\ AsPosition(Marked(row, order.mark)) = AsPosition(row)
          /\ Exposure(Marked(row, order.mark)) <= Exposure(row)
      BY <1>2, MarkedOK, ExposureKept
    <3>2. Write(t, Marked(row, order.mark)) BY <2>3 DEF ExitOrderFailed
    <3>3. RowStep(t, Marked(row, order.mark)) BY <1>1, <2>2, <3>1, <3>2 DEF RowStep
    <3> QED BY <2>2, <3>3 DEF TableStep
  <2>4. CASE ExitCommit
    <3>1. /\ RowOK(Closed(row, order.mark))
          /\ AsPosition(Closed(row, order.mark)) = [AsPosition(row) EXCEPT !.status = "CLOSED"]
      BY <1>2, <2>2, ClosedOK
    <3>2. Write(t, Closed(row, order.mark)) BY <2>4 DEF ExitCommit
    <3>3. RowStep(t, Closed(row, order.mark)) BY <1>1, <2>2, <3>1, <3>2 DEF RowStep
    <3> QED BY <2>2, <3>3 DEF TableStep
  <2> QED BY <1>3, <2>3, <2>4
<1>4. CASE EntryCommit
  <2>1. Enterable(t, row) /\ Admitted(row)
    BY <1>4 DEF EntryCommit, Inv, EntryOrderInv, Admitted
  <2>2. Write(t, row) BY <1>4 DEF EntryCommit, InsertTrade
  <2>3. t \in TradeIds BY <2>1 DEF Enterable
  <2>4. RowStep(t, row) BY <1>1, <1>2, <2>1, <2>2 DEF RowStep
  <2> QED BY <2>3, <2>4 DEF TableStep
<1> QED BY <1>3, <1>4

LEMMA EntryStep ==
  ASSUME Inv, NEW t \in TradeIds, OpenTrade(t)
  PROVE  TableStep
<1>1. /\ pc = "entries" /\ cands # <<>> /\ t \in FreshTrade /\ Eligible(Head(cands)) /\ day' = day
  BY DEF OpenTrade, calendar
<1>2. PICK d \in StopDistances, q \in Quantities :
        Sized(d, q) /\ (trades' = trades \/ InsertTrade(t, NewRow(Head(cands), d, q)))
  BY DEF OpenTrade
<1>3. Enterable(t, NewRow(Head(cands), d, q)) /\ RowOK(NewRow(Head(cands), d, q))
  BY <1>1, EligibleIsEnterable
<1>4. CASE trades' = trades BY <1>1, <1>4 DEF TableStep, DateStep
<1>5. CASE InsertTrade(t, NewRow(Head(cands), d, q))
  <2>1. Admitted(NewRow(Head(cands), d, q)) BY <1>1, <1>2 DEF Admitted
  <2>2. RowStep(t, NewRow(Head(cands), d, q)) BY <1>1, <1>3, <1>5, <2>1 DEF RowStep, InsertTrade
  <2> QED BY <2>2 DEF TableStep
<1> QED BY <1>2, <1>4, <1>5

LEMMA EveryTableStep ==
  ASSUME Inv, [Next]_vars
  PROVE  TableStep
<1>1. CASE UNCHANGED vars
  BY <1>1 DEF vars, table, calendar, TableStep, DateStep
<1>2. CASE \/ RunRiskMonitor \/ RunFullScan \/ Flatten \/ Pause \/ ResumeQuery \/ ResumeApply
           \/ DegradedChanges \/ Restart
  BY <1>2 DEF RunRiskMonitor, RunFullScan, BeginCycle, Flatten, Pause, ResumeQuery, ResumeApply,
              DegradedChanges, Restart, table, calendar, TableStep, DateStep
<1>3. CASE AdvancePhase \/ NewDay
  BY <1>3 DEF AdvancePhase, NewDay, table, TableStep, DateStep
<1>4. CASE \/ EvaluateBreakers \/ EndHardStop \/ EndFlatten \/ StopEntries \/ RejectCandidate
           \/ EndCycle \/ EntryOrderAccepted \/ EntryOrderFailed \/ ExitOrderAccepted
  BY <1>4 DEF EvaluateBreakers, EndHardStop, EndFlatten, StopEntries, RejectCandidate, EndCycle,
              EntryOrderAccepted, EntryOrderFailed, ExitOrderAccepted, table, calendar,
              TableStep, DateStep
<1>5. CASE ExitOrderFailed \/ ExitCommit \/ EntryCommit BY <1>5, OrderStep
<1>6. ASSUME NEW t \in TradeIds, SkipOpenTrade(t) \/ QuoteOpenTrade(t) \/ MarkOpenTrade(t) \/ LiquidateTrade(t)
      PROVE  TableStep
  BY <1>6, LoopStep
<1>7. ASSUME NEW t \in TradeIds, OpenTrade(t) PROVE TableStep
  BY <1>7, EntryStep
<1> QED BY <1>1, <1>2, <1>3, <1>4, <1>5, <1>6, <1>7 DEF Next, CycleStep

\* PaperTrading!ClosedFinal, for all constants: no step of any thread touches a
\* closed row.
THEOREM ClosedRowsAreFinal == Spec => ClosedFinal
<1>1. ASSUME Inv, [Next]_vars
      PROVE  \A t \in TradeIds : trades[t].status = "CLOSED" => trades'[t] = trades[t]
  <2>1. CASE DateStep BY <2>1 DEF DateStep
  <2>2. ASSUME NEW t \in TradeIds, NEW row, RowStep(t, row)
        PROVE  \A u \in TradeIds : trades[u].status = "CLOSED" => trades'[u] = trades[u]
    <3>1. trades[t].status # "CLOSED" BY <2>2 DEF RowStep, Enterable
    <3>2. \A u \in TradeIds : u # t => trades'[u] = trades[u]
      BY <1>1, <2>2, WriteKeepsRows DEF RowStep, Inv, TypeInv
    <3> QED BY <3>1, <3>2
  <2> QED BY <1>1, <2>1, <2>2, EveryTableStep DEF TableStep
<1> QED BY InvIsInductive, <1>1, PTL DEF Spec, ClosedFinal

-----------------------------------------------------------------------------
(* Entries: the cap on the risk of the open rows, and the breakers *)

Asked == {"entryOrder", "entryCommit"}
Entering == Asked \cup {"entries"}

\* What all open positions lose at their stops, as one sum over the table.
Exposed == SumFunctionOnSet([t \in TradeIds |-> Exposure(trades[t])], TradeIds)

\* An entry order out is a risk the table does not show yet.
RiskInv ==
  /\ Exposed <= AggregateCap
  /\ pc \in Asked => Exposed + Exposure(order.row) <= AggregateCap

\* EntriesRespectBreakers, but the symbol.
BreakersHold ==
  /\ Realized < Target /\ Realized > -LossLimit
  /\ \E streak \in LossStreaks : streak < LossStreakLimit
  /\ ~PriorDayOpen /\ EntryWindowOpen

BreakerInv ==
  /\ pc \in Entering /\ gate.allowed => BreakersHold
  /\ pc \in Asked => order.row.symbol \in plan

\* A cycle is sending an entry order for a candidate it has just sized.
Asks ==
  /\ pc = "entries" /\ cands # <<>> /\ Eligible(Head(cands)) /\ UNCHANGED gate
  /\ \E d \in StopDistances, q \in Quantities :
       Sized(d, q) /\ order'.row = NewRow(Head(cands), d, q)

\* An order is out because it was just asked for, or was out before.
LEMMA AskedStep ==
  ASSUME Inv, [Next]_vars, pc' \in Asked
  PROVE  /\ trades' = trades /\ plan' = plan
         /\ Asks \/ (pc \in Asked /\ order' = order)
<1>1. CASE UNCHANGED vars BY <1>1 DEF vars, table, calendar, cycle
<1>2. CASE \/ RunRiskMonitor \/ RunFullScan \/ Flatten \/ Pause \/ ResumeQuery \/ ResumeApply
           \/ DegradedChanges \/ Restart \/ AdvancePhase \/ NewDay
  BY <1>2 DEF RunRiskMonitor, RunFullScan, BeginCycle, Flatten, Pause, ResumeQuery, ResumeApply,
              DegradedChanges, Restart, AdvancePhase, NewDay, table, calendar, cycle, Asked, Liquidate
<1>3. CASE \/ EvaluateBreakers \/ EndHardStop \/ EndFlatten \/ StopEntries \/ RejectCandidate
           \/ EndCycle
  BY <1>3 DEF EvaluateBreakers, EndHardStop, EndFlatten, StopEntries, RejectCandidate, EndCycle,
              Liquidate, Asked
<1>4. CASE EntryOrderAccepted \/ EntryOrderFailed \/ EntryCommit
  BY <1>4 DEF EntryOrderAccepted, EntryOrderFailed, EntryCommit, calendar, cycle, Asked
<1>5. CASE ExitOrderAccepted \/ ExitOrderFailed \/ ExitCommit
  BY <1>5 DEF ExitOrderAccepted, ExitOrderFailed, ExitCommit, ExitReturns, Asked, Inv, ExitOrderInv
<1>6. ASSUME NEW t \in TradeIds, SkipOpenTrade(t) \/ QuoteOpenTrade(t) \/ MarkOpenTrade(t) \/ LiquidateTrade(t)
      PROVE  FALSE
  BY <1>6 DEF SkipOpenTrade, QuoteOpenTrade, MarkOpenTrade, LiquidateTrade, ExitTrade, ExitReturns, Asked
<1>7. ASSUME NEW t \in TradeIds, OpenTrade(t) PROVE trades' = trades /\ plan' = plan /\ Asks
  <2>1. /\ pc = "entries" /\ cands # <<>> /\ Eligible(Head(cands)) /\ plan' = plan
    BY <1>7 DEF OpenTrade, calendar
  <2>2. PICK d \in StopDistances, q \in Quantities :
          /\ Sized(d, q)
          /\ \/ /\ order' = [trade |-> t, row |-> NewRow(Head(cands), d, q),
                             mark |-> 0, back |-> "entries"]
                /\ UNCHANGED <<trades, gate, cands>>
             \/ UNCHANGED pc
    BY <1>7 DEF OpenTrade
  <2>3. /\ order' = [trade |-> t, row |-> NewRow(Head(cands), d, q), mark |-> 0, back |-> "entries"]
        /\ UNCHANGED <<trades, gate, cands>>
    BY <2>1, <2>2 DEF Asked
  <2> QED BY <2>1, <2>2, <2>3 DEF Asks
<1> QED BY <1>1, <1>2, <1>3, <1>4, <1>5, <1>6, <1>7 DEF Next, CycleStep

-----------------------------------------------------------------------------
\* The summands, and their sum, are natural numbers.
LEMMA ExposureNat ==
  ASSUME Rows
  PROVE  /\ IsFiniteSet(TradeIds)
         /\ \A t \in TradeIds : Exposure(trades[t]) \in Nat
         /\ Exposed \in Nat
<1>1. IsFiniteSet(TradeIds) BY FS_Interval, ConstantsAssumption DEF TradeIds
<1>2. \A t \in TradeIds : Exposure(trades[t]) \in Nat BY DEF Rows, Row, Exposure
<1>3. Exposed \in Nat BY <1>1, <1>2, SumNat DEF Exposed
<1> QED BY <1>1, <1>2, <1>3

\* The sum a run checks is taken over the open rows only.
LEMMA ExposedIsOpen ==
  ASSUME Rows
  PROVE  Exposed = SumFunctionOnSet([t \in OpenTrades |-> Exposure(trades[t])], OpenTrades)
<1> DEFINE f == [t \in TradeIds |-> Exposure(trades[t])]
           e == [t \in OpenTrades |-> Exposure(trades[t])]
<1>1. IsFiniteSet(TradeIds) /\ OpenTrades \in SUBSET TradeIds /\ IsFiniteSet(OpenTrades)
  BY ExposureNat, OpenTradesFinite DEF OpenTrades, WithStatus
<1>2. \A t \in OpenTrades : f[t] \in Int /\ f[t] = e[t] BY <1>1, ExposureNat
<1>3. \A t \in TradeIds \ OpenTrades : f[t] = 0
  BY DEF OpenTrades, WithStatus, Exposure
<1> HIDE DEF f, e
<1>4. SumFunctionOnSet(f, TradeIds) = SumFunctionOnSet(f, OpenTrades)
  BY <1>1, <1>2, <1>3, SumExtend
<1>5. SumFunctionOnSet(f, OpenTrades) = SumFunctionOnSet(e, OpenTrades)
  BY <1>1, <1>2, SumAgree
<1> QED BY <1>4, <1>5 DEF f, e, Exposed

\* A write changes one summand.
LEMMA ExposedWritten ==
  ASSUME Rows, NEW t \in TradeIds, NEW row, RowOK(row), Write(t, row)
  PROVE  /\ Exposed' = Exposed - Exposure(trades[t]) + Exposure(row)
         /\ Exposure(row) \in Nat /\ Exposure(trades[t]) \in Nat /\ Exposed \in Nat
<1> DEFINE f == [u \in TradeIds |-> Exposure(trades[u])]
           e == [u \in TradeIds |-> Exposure(trades'[u])]
<1>1. /\ IsFiniteSet(TradeIds) /\ Exposed \in Nat
      /\ \A u \in TradeIds : f[u] \in Nat
  BY ExposureNat
<1>2. Exposure(row) \in Nat BY DEF RowOK, Row, Exposure
<1>3. /\ e[t] = Exposure(row) /\ f[t] = Exposure(trades[t])
      /\ \A u \in TradeIds \ {t} : e[u] = f[u]
  BY WriteKeepsRows
<1>4. Exposed = SumFunctionOnSet(f, TradeIds) /\ Exposed' = SumFunctionOnSet(e, TradeIds)
  BY DEF Exposed, Exposure
<1> HIDE DEF f, e
<1>5. SumFunctionOnSet(e, TradeIds) = SumFunctionOnSet(f, TradeIds) - f[t] + e[t]
  BY <1>1, <1>2, <1>3, SumChange
<1> QED BY <1>1, <1>2, <1>3, <1>4, <1>5

\* The size of an admitted candidate leaves room for what it loses at its stop.
LEMMA SizedFits ==
  ASSUME Inv, pc = "entries", cands # <<>>, Eligible(Head(cands)),
         NEW d \in StopDistances, NEW q \in Quantities, Sized(d, q)
  PROVE  Exposed + Exposure(NewRow(Head(cands), d, q)) <= AggregateCap
<1> DEFINE f == [t \in OpenTrades |-> Exposure(trades[t])]
           e == [t \in OpenTrades |-> RemainingRisk(t)]
<1>0. Rows BY DEF Inv, TypeInv
<1>1. IsFiniteSet(OpenTrades) /\ OpenTrades \in SUBSET TradeIds
  BY OpenTradesFinite DEF OpenTrades, WithStatus
<1>2. \A t \in OpenTrades : f[t] \in Int /\ e[t] \in Int /\ f[t] <= e[t]
  BY <1>0, <1>1 DEF Rows, Row, Exposure, RemainingRisk
<1>3. Exposed = SumFunctionOnSet(f, OpenTrades) BY <1>0, ExposedIsOpen
<1>4. gate.rows = OpenTrades BY DEF Inv, GateInv, Eligible
<1>5. OpenRisk(gate.rows) = SumFunctionOnSet(e, OpenTrades) BY <1>4 DEF OpenRisk
<1> HIDE DEF f, e
<1>6. SumFunctionOnSet(f, OpenTrades) <= SumFunctionOnSet(e, OpenTrades)
  BY <1>1, <1>2, SumMonotone
<1>7. SumFunctionOnSet(e, OpenTrades) \in Int /\ Exposed \in Int
  BY <1>0, <1>1, <1>2, SumInt, ExposureNat
<1>8. /\ d \in Nat \ {0} /\ q \in Nat \ {0} /\ AggregateCap \in Nat /\ OrderCost \in Nat
  BY ConstantsAssumption
<1> DEFINE risk == d * q
<1>9. risk \in Nat BY <1>8
<1>10. OpenRisk(gate.rows) + (risk + 2 * OrderCost) <= AggregateCap
  BY DEF Sized, ProposedRisk
<1>11. Exposure(NewRow(Head(cands), d, q)) = risk
  <2>1. NewRow(Head(cands), d, q).stop_pnl = -risk /\ NewRow(Head(cands), d, q).status = "OPEN"
    BY DEF NewRow, NoTrade
  <2> HIDE DEF risk
  <2> QED BY <2>1, <1>9 DEF Exposure
<1> HIDE DEF risk
<1> QED BY <1>3, <1>5, <1>6, <1>7, <1>8, <1>9, <1>10, <1>11

\* A rewriting never raises the sum, a closing lowers it, an entry fits the cap.
LEMMA StepKeepsRisk ==
  ASSUME Inv, RiskInv, [Next]_vars
  PROVE  RiskInv'
<1>0. Rows /\ AggregateCap \in Nat BY ConstantsAssumption DEF Inv, TypeInv
<1>1. Exposed' <= AggregateCap
  <2>1. CASE DateStep BY <2>1 DEF DateStep, RiskInv, Exposed
  <2>2. ASSUME NEW t \in TradeIds, NEW row, RowStep(t, row) PROVE Exposed' <= AggregateCap
    <3>1. RowOK(row) /\ Write(t, row) BY <2>2 DEF RowStep
    <3>2. /\ Exposed' = Exposed - Exposure(trades[t]) + Exposure(row)
          /\ Exposure(row) \in Nat /\ Exposure(trades[t]) \in Nat /\ Exposed \in Nat
      BY <1>0, <3>1, ExposedWritten
    <3>3. CASE Exposure(row) <= Exposure(trades[t]) BY <1>0, <3>2, <3>3 DEF RiskInv
    <3>4. CASE AsPosition(row) = [AsPosition(trades[t]) EXCEPT !.status = "CLOSED"]
      <4>1. row.status = "CLOSED" BY <3>4 DEF AsPosition
      <4> QED BY <1>0, <3>2, <4>1 DEF RiskInv, Exposure
    <3>5. CASE Enterable(t, row) /\ Admitted(row)
      <4>1. Exposure(trades[t]) = 0 BY <3>5 DEF Enterable, Exposure
      <4>2. Exposed + Exposure(row) <= AggregateCap
        <5>1. CASE pc = "entryCommit" /\ row = order.row BY <5>1 DEF RiskInv, Asked
        <5>2. CASE pc # "entryCommit" BY <3>5, <5>2, SizedFits DEF Admitted
        <5> QED BY <3>5, <5>1, <5>2 DEF Admitted
      <4> QED BY <3>2, <4>1, <4>2
    <3> QED BY <2>2, <3>3, <3>4, <3>5 DEF RowStep
  <2> QED BY <2>1, <2>2, EveryTableStep DEF TableStep
<1>2. ASSUME pc' \in Asked PROVE Exposed' + Exposure(order.row)' <= AggregateCap
  <2>1. trades' = trades /\ (Asks \/ (pc \in Asked /\ order' = order)) BY <1>2, AskedStep
  <2>2. Exposed' = Exposed BY <2>1 DEF Exposed
  <2>3. CASE pc \in Asked /\ order' = order BY <2>2, <2>3 DEF RiskInv, Exposure
  <2>4. CASE Asks
    <3>1. PICK d \in StopDistances, q \in Quantities :
            Sized(d, q) /\ order'.row = NewRow(Head(cands), d, q)
      BY <2>4 DEF Asks
    <3>2. Exposed + Exposure(NewRow(Head(cands), d, q)) <= AggregateCap
      BY <2>4, <3>1, SizedFits DEF Asks
    <3>3. Exposure(order.row)' = Exposure(order'.row) BY DEF Exposure
    <3> QED BY <2>2, <3>1, <3>2, <3>3
  <2> QED BY <2>1, <2>3, <2>4
<1> QED BY <1>1, <1>2 DEF RiskInv

LEMMA InitRisk == Init => RiskInv
<1> SUFFICES ASSUME Init PROVE RiskInv OBVIOUS
<1> DEFINE f == [t \in TradeIds |-> Exposure(trades[t])]
<1>1. IsFiniteSet(TradeIds) /\ {} \in SUBSET TradeIds /\ AggregateCap \in Nat
  BY FS_Interval, ConstantsAssumption DEF TradeIds
<1>2. \A t \in TradeIds : f[t] = 0 BY DEF Init, NoTrade, Exposure
<1> HIDE DEF f
<1>3. SumFunctionOnSet(f, TradeIds) = SumFunctionOnSet(f, {})
  <2>1. \A t \in TradeIds \ {} : f[t] = 0 BY <1>2
  <2>2. \A t \in {} : f[t] \in Int OBVIOUS
  <2> QED BY <1>1, <2>1, <2>2, SumExtend
<1>4. SumFunctionOnSet(f, {}) = 0 BY SumEmpty
<1>5. Exposed = 0 BY <1>3, <1>4 DEF f, Exposed
<1> QED BY <1>1, <1>5 DEF RiskInv, Asked, Init

\* PaperTrading!RiskCapped, for all constants: the sum over the open rows, though
\* each entry is sized against the rows the cycle remembers, and several entries
\* and broker calls lie between two looks at the table.
THEOREM RiskStaysCapped == Spec => []RiskCapped
<1>1. Inv /\ RiskInv /\ [Next]_vars => RiskInv' BY StepKeepsRisk
<1>2. Inv /\ RiskInv => RiskCapped
  <2> SUFFICES ASSUME Inv, RiskInv PROVE RiskCapped OBVIOUS
  <2> DEFINE f == [t \in OpenTrades |-> Exposure(trades[t])]
             e == [t \in OpenTrades |-> IF trades[t].stop_pnl < 0 THEN -trades[t].stop_pnl ELSE 0]
  <2>1. IsFiniteSet(OpenTrades) BY OpenTradesFinite
  <2>2. \A t \in OpenTrades : f[t] = e[t] BY DEF OpenTrades, WithStatus, Exposure
  <2>3. Exposed = SumFunctionOnSet(f, OpenTrades) BY ExposedIsOpen DEF Inv, TypeInv
  <2>4. RiskCapped <=> SumFunctionOnSet(e, OpenTrades) <= AggregateCap BY DEF RiskCapped
  <2> HIDE DEF f, e
  <2>5. SumFunctionOnSet(f, OpenTrades) = SumFunctionOnSet(e, OpenTrades)
    BY <2>1, <2>2, SumAgree
  <2> QED BY <2>3, <2>4, <2>5 DEF RiskInv
<1> QED BY InvIsInductive, InitRisk, <1>1, <1>2, PTL DEF Spec

\* The reasons a cycle finds against entries include those of BreakersHold.
LEMMA BreakersClearHold ==
  ASSUME Inv, NEW streak \in LossStreaks, BreakersClear(streak)
  PROVE  BreakersHold
<1> DEFINE f == [t \in ClosedToday |-> trades[t].net]
<1>1. Rows /\ day \in Nat /\ LossLimit \in Nat BY ConstantsAssumption DEF Inv, TypeInv, Calendar
<1>2. IsFiniteSet(ClosedToday) /\ ClosedToday \in SUBSET TradeIds
  <2>1. IsFiniteSet(OpenedOn(day)) /\ ClosedToday \in SUBSET OpenedOn(day)
    BY OpenTradesFinite DEF ClosedToday
  <2>2. OpenedOn(day) \in SUBSET TradeIds BY DEF OpenedOn
  <2> QED BY <2>1, <2>2, FS_Subset
<1>3. \A t \in ClosedToday : f[t] \in Int BY <1>1, <1>2 DEF Rows, Row
<1>4. Realized = SumFunctionOnSet(f, ClosedToday) BY DEF Realized, NetPnl
<1> HIDE DEF f
<1>5. Realized \in Int BY <1>2, <1>3, <1>4, SumInt
<1>6. ~(Realized <= -LossLimit) BY DEF BreakersClear, LossLimitReached
<1>7. Realized > -LossLimit BY <1>1, <1>5, <1>6
<1> QED BY <1>7 DEF BreakersClear, BreakersHold

\* The figures of the breakers depend on the day's closed rows and on the open
\* rows of earlier days.
LEMMA SameFigures ==
  ASSUME day' = day, phase' = phase, ClosedToday' = ClosedToday,
         \A t \in ClosedToday : trades'[t] = trades[t],
         PriorDayOpen' => PriorDayOpen, BreakersHold
  PROVE  BreakersHold'
<1>1. Realized' = Realized
  <2>1. [t \in ClosedToday |-> trades'[t].net] = [t \in ClosedToday |-> trades[t].net] OBVIOUS
  <2> QED BY <2>1 DEF Realized, NetPnl
<1>2. LossStreaks' = LossStreaks
  <2> DEFINE won == {t \in ClosedToday : trades[t].net > 0}
             wonNext == {t \in ClosedToday : trades'[t].net > 0}
             stamps == {trades[t].closed_at : t \in won}
             stampsNext == {trades'[t].closed_at : t \in wonNext}
             lastWin == Max(stamps \cup {0})
             after == {t \in ClosedToday \ won : trades[t].closed_at > lastWin}
             afterNext == {t \in ClosedToday \ won : trades'[t].closed_at > lastWin}
             tied == {t \in ClosedToday \ won : trades[t].closed_at = lastWin}
             tiedNext == {t \in ClosedToday \ won : trades'[t].closed_at = lastWin}
  <2>1. wonNext = won OBVIOUS
  <2>2. stampsNext = stamps BY <2>1
  <2>3. afterNext = after /\ tiedNext = tied
    <3> HIDE DEF lastWin, won
    <3> QED OBVIOUS
  <2>4. LossStreaks = Cardinality(after) .. Cardinality(after) + Cardinality(tied)
    BY DEF LossStreaks
  <2>5. LossStreaks' = Cardinality(afterNext) .. Cardinality(afterNext) + Cardinality(tiedNext)
    BY <2>1, <2>2 DEF LossStreaks
  <2> QED BY <2>3, <2>4, <2>5
<1>3. EntryWindowOpen' = EntryWindowOpen BY DEF EntryWindowOpen
<1> QED BY <1>1, <1>2, <1>3 DEF BreakersHold

\* An entry adds an open row of today.
LEMMA EntryKeepsBreakers ==
  ASSUME Inv, BreakersHold, NEW t \in TradeIds, NEW row, RowStep(t, row), Enterable(t, row),
         phase' = phase
  PROVE  BreakersHold'
<1>1. /\ Rows /\ RowOK(row) /\ Write(t, row) /\ day' = day /\ day \in Nat
      /\ trades[t].status = "NONE" /\ row.status = "OPEN" /\ row.trading_day = day
  BY DEF Inv, TypeInv, Calendar, RowStep, Enterable
<1>2. /\ trades'[t] = row
      /\ \A u \in TradeIds : u # t => trades'[u] = trades[u]
  BY <1>1, WriteKeepsRows
<1>3. ClosedToday' = ClosedToday BY <1>1, <1>2 DEF ClosedToday, OpenedOn
<1>4. \A u \in ClosedToday : trades'[u] = trades[u] BY <1>1, <1>2 DEF ClosedToday, OpenedOn
<1>5. PriorDayOpen' => PriorDayOpen
  BY <1>1, <1>2 DEF PriorDayOpen, OpenTrades, WithStatus
<1> QED BY <1>1, <1>3, <1>4, <1>5, SameFigures

\* How a cycle comes to be making entries, or stays at it.
LEMMA EnteringStep ==
  ASSUME Inv, [Next]_vars, pc' \in Entering, gate'.allowed
  PROVE  /\ day' = day /\ phase' = phase
         /\ \/ /\ trades' = trades
               /\ (pc \in Entering /\ gate.allowed) \/ \E streak \in LossStreaks : BreakersClear(streak)
            \/ /\ pc \in Entering /\ gate.allowed
               /\ \E t \in TradeIds : \E row : RowStep(t, row) /\ Enterable(t, row)
<1>1. CASE UNCHANGED vars BY <1>1 DEF vars, table, calendar, cycle
<1>2. CASE \/ RunRiskMonitor \/ RunFullScan \/ Flatten \/ Pause \/ ResumeQuery \/ ResumeApply
           \/ DegradedChanges \/ Restart \/ AdvancePhase \/ NewDay
  BY <1>2 DEF RunRiskMonitor, RunFullScan, BeginCycle, Flatten, Pause, ResumeQuery, ResumeApply,
              DegradedChanges, Restart, AdvancePhase, NewDay, table, calendar, cycle, Asked,
              Entering, Liquidate
<1>3. CASE EvaluateBreakers
  <2>1. gate \in Gate BY DEF Inv, TypeInv, GateType
  <2>2. PICK streak \in LossStreaks :
          gate' = [gate EXCEPT !.allowed = ~ExecutionPaused /\ BreakersClear(streak),
                               !.rows = OpenTrades, !.count = Cardinality(OpenedOn(day)),
                               !.budget = RiskBudget(Projected)]
    BY <1>3 DEF EvaluateBreakers
  <2>3. gate'.allowed = (~ExecutionPaused /\ BreakersClear(streak)) BY <2>1, <2>2 DEF Gate
  <2>4. trades' = trades /\ day' = day /\ phase' = phase
    BY <1>3 DEF EvaluateBreakers, table, calendar
  <2> QED BY <2>3, <2>4
<1>4. CASE EndHardStop
  <2>1. gate \in Gate /\ ~gate.allowed BY <1>4 DEF Inv, TypeInv, GateType, LoopInv, EndHardStop
  <2>2. gate'.allowed = gate.allowed BY <1>4, <2>1 DEF EndHardStop, Gate
  <2> QED BY <2>1, <2>2
<1>5. CASE \/ EndFlatten \/ StopEntries \/ RejectCandidate \/ EndCycle
           \/ EntryOrderAccepted \/ EntryOrderFailed
  BY <1>5 DEF EndFlatten, StopEntries, RejectCandidate, EndCycle, EntryOrderAccepted,
              EntryOrderFailed, table, calendar, cycle, Entering, Asked
<1>6. CASE EntryCommit
  <2>1. /\ Enterable(order.trade, order.row) /\ gate.allowed /\ RowOK(order.row) /\ pc = "entryCommit"
    BY <1>6 DEF EntryCommit, Inv, EntryOrderInv, TypeInv, OrderType
  <2>2. /\ Write(order.trade, order.row) /\ day' = day /\ phase' = phase
    BY <1>6 DEF EntryCommit, InsertTrade, calendar
  <2>3. RowStep(order.trade, order.row) /\ order.trade \in TradeIds
    BY <2>1, <2>2 DEF RowStep, Admitted, Enterable
  <2> QED BY <2>1, <2>2, <2>3 DEF Entering, Asked
<1>7. CASE ExitOrderAccepted \/ ExitOrderFailed \/ ExitCommit
  BY <1>7 DEF ExitOrderAccepted, ExitOrderFailed, ExitCommit, ExitReturns, Entering, Asked,
              Inv, ExitOrderInv
<1>8. ASSUME NEW t \in TradeIds, SkipOpenTrade(t) \/ QuoteOpenTrade(t) \/ MarkOpenTrade(t) \/ LiquidateTrade(t)
      PROVE  FALSE
  BY <1>8 DEF SkipOpenTrade, QuoteOpenTrade, MarkOpenTrade, LiquidateTrade, ExitTrade, ExitReturns,
              Entering, Asked
<1>9. ASSUME NEW t \in TradeIds, OpenTrade(t)
      PROVE  /\ day' = day /\ phase' = phase /\ pc \in Entering /\ gate.allowed
             /\ trades' = trades \/ \E row : RowStep(t, row) /\ Enterable(t, row)
  <2>1. /\ pc = "entries" /\ cands # <<>> /\ t \in FreshTrade /\ Eligible(Head(cands))
        /\ day' = day /\ phase' = phase
    BY <1>9 DEF OpenTrade, calendar
  <2>2. PICK d \in StopDistances, q \in Quantities :
          Sized(d, q) /\ (trades' = trades \/ InsertTrade(t, NewRow(Head(cands), d, q)))
    BY <1>9 DEF OpenTrade
  <2> DEFINE row == NewRow(Head(cands), d, q)
  <2>3. Enterable(t, row) /\ RowOK(row) /\ gate.allowed BY <2>1, EligibleIsEnterable
  <2>4. Admitted(row) BY <2>1, <2>2 DEF Admitted
  <2>5. InsertTrade(t, row) => RowStep(t, row)
    <3> HIDE DEF row
    <3> QED BY <2>1, <2>3, <2>4 DEF RowStep, InsertTrade
  <2> QED BY <2>1, <2>2, <2>3, <2>5 DEF Entering
<1> QED BY <1>1, <1>2, <1>3, <1>4, <1>5, <1>6, <1>7, <1>8, <1>9 DEF Next, CycleStep

\* What the cycle found when it evaluated the breakers is still so at its entries.
LEMMA StepKeepsBreakers ==
  ASSUME Inv, BreakerInv, [Next]_vars
  PROVE  BreakerInv'
<1>1. ASSUME pc' \in Entering, gate'.allowed PROVE BreakersHold'
  <2>1. /\ day' = day /\ phase' = phase
        /\ \/ /\ trades' = trades
              /\ (pc \in Entering /\ gate.allowed) \/ \E streak \in LossStreaks : BreakersClear(streak)
           \/ /\ pc \in Entering /\ gate.allowed
              /\ \E t \in TradeIds : \E row : RowStep(t, row) /\ Enterable(t, row)
    BY <1>1, EnteringStep
  <2>2. BreakersHold BY <2>1, BreakersClearHold DEF BreakerInv
  <2>3. CASE trades' = trades
    <3>1. ClosedToday' = ClosedToday /\ PriorDayOpen' = PriorDayOpen
      BY <2>1, <2>3 DEF ClosedToday, OpenedOn, PriorDayOpen, OpenTrades, WithStatus
    <3> QED BY <2>1, <2>2, <2>3, <3>1, SameFigures
  <2>4. ASSUME NEW t \in TradeIds, NEW row, RowStep(t, row), Enterable(t, row) PROVE BreakersHold'
    BY <2>1, <2>2, <2>4, EntryKeepsBreakers
  <2> QED BY <2>1, <2>3, <2>4
<1>2. ASSUME pc' \in Asked PROVE order'.row.symbol \in plan'
  <2>1. plan' = plan /\ (Asks \/ (pc \in Asked /\ order' = order)) BY <1>2, AskedStep
  <2>2. CASE Asks
    <3>1. PICK d \in StopDistances, q \in Quantities : order'.row = NewRow(Head(cands), d, q)
      BY <2>2 DEF Asks
    <3>2. order'.row.symbol = Head(cands).symbol BY <3>1 DEF NewRow, NoTrade
    <3> QED BY <2>1, <2>2, <3>2 DEF Asks, Eligible
  <2> QED BY <2>1, <2>2 DEF BreakerInv
<1> QED BY <1>1, <1>2 DEF BreakerInv

\* PaperTrading!EntriesRespectBreakers, for all constants: between the evaluation
\* of the breakers and an insertion lie broker calls, other insertions and the
\* steps of every other thread, and none of them makes the evaluation stale.
THEOREM EntriesPassTheBreakers == Spec => EntriesRespectBreakers
<1>1. Init => BreakerInv BY DEF Init, BreakerInv, Entering, Asked
<1>2. Inv /\ BreakerInv /\ [Next]_vars => BreakerInv' BY StepKeepsBreakers
<1>3. ASSUME Inv, BreakerInv, [Next]_vars
      PROVE  \A t \in TradeIds : Enters(t) =>
               /\ Realized < Target /\ Realized > -LossLimit
               /\ \E streak \in LossStreaks : streak < LossStreakLimit
               /\ ~PriorDayOpen /\ EntryWindowOpen
               /\ trades'[t].symbol \in plan
  <2>1. ASSUME NEW u \in TradeIds, Enters(u)
        PROVE  BreakersHold /\ trades'[u].symbol \in plan
    <3>1. ~DateStep BY <1>3, <2>1 DEF DateStep, Enters
    <3>2. PICK t \in TradeIds : \E row : RowStep(t, row) BY <1>3, <2>1, <3>1, EveryTableStep DEF TableStep
    <3>3. PICK row : RowStep(t, row) BY <3>2
    <3>4. trades'[t] = row /\ \A v \in TradeIds : v # t => trades'[v] = trades[v]
      BY <1>3, <2>1, <3>3, WriteKeepsRows DEF RowStep, Inv, TypeInv
    <3>5. u = t BY <1>3, <2>1, <3>4 DEF Enters
    <3>6. Admitted(row) BY <1>3, <2>1, <3>3, <3>5 DEF Enters, RowStep
    <3>7. CASE pc = "entryCommit" /\ row = order.row
      <4>1. gate.allowed BY <1>3, <2>1, <3>7 DEF Inv, EntryOrderInv
      <4> QED BY <1>3, <2>1, <3>4, <3>5, <3>7, <4>1 DEF BreakerInv, Entering, Asked, BreakersHold
    <3>8. CASE pc = "entries" /\ Eligible(Head(cands)) /\ row.symbol = Head(cands).symbol
      BY <1>3, <2>1, <3>4, <3>5, <3>8 DEF BreakerInv, Entering, BreakersHold, Eligible
    <3>9. \A d \in StopDistances, q \in Quantities : NewRow(Head(cands), d, q).symbol = Head(cands).symbol
      BY DEF NewRow, NoTrade
    <3> QED BY <3>6, <3>7, <3>8, <3>9 DEF Admitted
  <2> QED BY <2>1 DEF BreakersHold
<1> QED BY InvIsInductive, <1>1, <1>2, <1>3, PTL DEF Spec, EntriesRespectBreakers

-----------------------------------------------------------------------------
(* The sums of a row, what the broker is left with, what a liquidation leaves *)

\* Neither the operator nor the settings of a full scan pause execution.  Only
\* then do the costs of a row add up: a blocked exit charges its row for an order
\* that was never sent.
Unpaused == ~OperatorPauses /\ ~ScanPaused

OpenAdds(row) ==
  /\ row.costs = (IF row.partial_quantity > 0 THEN 2 * OrderCost ELSE OrderCost)
  /\ row.partial_quantity > 0 =>
       row.partial_gross + row.stop_pnl - row.costs - OrderCost >= 0
ClosedAdds(row) ==
  /\ row.costs = (IF row.partial_quantity > 0 THEN 3 * OrderCost ELSE 2 * OrderCost)
  /\ row.net = row.partial_gross + row.mark * row.quantity - row.costs
RowAdds(row) ==
  /\ row.status # "NONE" => row.quantity + row.partial_quantity = row.initial_quantity
  /\ Unpaused /\ row.status = "OPEN" => OpenAdds(row)
  /\ Unpaused /\ row.status = "CLOSED" => ClosedAdds(row)

OrderStates == {"entryOrder", "entryCommit", "exitOrder", "exitCommit"}

Accounts == \A t \in TradeIds : RowAdds(trades[t])
NeverPaused == Unpaused => ~paused
OrdersInSandbox ==
  /\ ~Sandbox => \A t \in TradeIds : broker[t] = 0
  /\ pc \in OrderStates => Sandbox
EntryInFlight ==
  /\ pc \in {"entryOrder", "entryCommit"} => RowAdds(order.row)
  /\ pc = "entryOrder" => broker[order.trade] = 0
  /\ pc = "entryCommit" => broker[order.trade] <= order.row.initial_quantity
ExitInFlight == pc = "exitCommit" => broker[order.trade] <= order.row.partial_quantity

\* What a liquidation has not visited yet is what is open.
LiquidationInv ==
  Unpaused /\ ~Sandbox /\ pc \in {"hardStop", "kill"} =>
    OpenTrades = todo /\ stats.flattened + Cardinality(todo) = stats.open

MoneyInv == /\ Accounts /\ NeverPaused /\ OrdersInSandbox
            /\ EntryInFlight /\ ExitInFlight /\ LiquidationInv /\ BrokerBacksRows

LEMMA MarkedAdds ==
  ASSUME NEW row, RowOK(row), RowAdds(row), row.status = "OPEN", NEW mark \in Int
  PROVE  /\ RowAdds(Marked(row, mark)) /\ Marked(row, mark).status = "OPEN"
         /\ Marked(row, mark).initial_quantity = row.initial_quantity
<1> DEFINE net == row.partial_gross + mark * row.quantity - row.costs - OrderCost
<1>1. row \in Row BY DEF RowOK
<1>2. Marked(row, mark) = [row EXCEPT !.mark = mark, !.net = net] BY DEF Marked
<1> HIDE DEF net
<1> QED BY <1>1, <1>2 DEF RowAdds, OpenAdds, ClosedAdds, Row

LEMMA ClosedIsSummedUp ==
  ASSUME NEW row, RowOK(row), RowAdds(row), row.status = "OPEN", NEW mark \in Int
  PROVE  /\ RowAdds(Closed(row, mark)) /\ Closed(row, mark).status = "CLOSED"
         /\ Closed(row, mark).partial_quantity = row.partial_quantity
<1> USE OrderCostNat
<1> DEFINE turnover == mark * row.quantity
           net == row.partial_gross + turnover - row.costs - OrderCost
           closed == Closed(row, mark)
<1>1. row \in Row BY DEF RowOK
<1>2. closed = [row EXCEPT !.mark = mark, !.net = net, !.costs = row.costs + OrderCost,
                           !.status = "CLOSED", !.closed_at = clock, !.closed_day = day]
  BY <1>1 DEF Closed, Marked, Row
<1>3. /\ row.partial_gross \in Int /\ row.quantity \in Int /\ row.costs \in Int
      /\ row.partial_quantity \in Int
  BY <1>1 DEF Row
<1>4. turnover \in Int BY <1>3
<1>5. /\ closed.status = "CLOSED" /\ closed.mark = mark /\ closed.net = net
      /\ closed.costs = row.costs + OrderCost /\ closed.quantity = row.quantity
      /\ closed.partial_quantity = row.partial_quantity
      /\ closed.partial_gross = row.partial_gross
      /\ closed.initial_quantity = row.initial_quantity
  BY <1>1, <1>2 DEF Row
<1>6. closed.mark * closed.quantity = turnover BY <1>5
<1> HIDE DEF turnover, closed
<1>7. net = row.partial_gross + turnover - (row.costs + OrderCost)
  BY <1>3, <1>4
<1>8. Unpaused => ClosedAdds(closed)
  <2>1. ASSUME Unpaused PROVE row.costs = IF row.partial_quantity > 0 THEN 2 * OrderCost ELSE OrderCost
    BY <2>1 DEF RowAdds, OpenAdds
  <2> HIDE DEF net
  <2> QED BY <1>3, <1>5, <1>6, <1>7, <2>1 DEF ClosedAdds
<1> QED BY <1>5, <1>8 DEF RowAdds, closed

LEMMA ScaledOutAdds ==
  ASSUME NEW row, RowOK(row), RowAdds(row), row.status = "OPEN", NEW mark \in Int,
         ScaleOutDue(row, mark)
  PROVE  /\ RowAdds(ScaledOut(row, mark)) /\ ScaledOut(row, mark).status = "OPEN"
         /\ ScaledOut(row, mark).initial_quantity = row.initial_quantity
<1> USE OrderCostNat
<1> DEFINE part == row.initial_quantity \div 2
           gross == mark * part
           costs == row.costs + OrderCost
           cover == costs + OrderCost - gross
           stop == IF cover > 0 THEN cover ELSE 0
           out == ScaledOut(row, mark)
<1>1. /\ row \in Row /\ row.quantity = row.initial_quantity /\ row.quantity >= 2
      /\ row.partial_quantity = 0
  BY DEF RowOK, ScaleOutDue
<1>2. row.quantity \in Nat /\ row.costs \in Nat /\ row.initial_quantity \in Nat
  BY <1>1 DEF Row
<1>3. part \in Nat /\ part > 0 /\ row.quantity - part + part = row.quantity /\ costs \in Nat
  BY <1>1, <1>2
<1>4. gross \in Int BY <1>3
<1>5. out = [row EXCEPT !.quantity = row.quantity - part, !.partial_quantity = part,
                        !.partial_gross = gross, !.costs = costs, !.stop_pnl = stop]
  BY DEF ScaledOut
<1> HIDE DEF part, gross, out
<1>6. gross + stop - costs - OrderCost >= 0
  BY <1>3, <1>4
<1>7. Unpaused => costs = 2 * OrderCost
  BY <1>1, <1>2 DEF RowAdds, OpenAdds
<1> HIDE DEF costs, cover, stop
<1>8. /\ out.status = "OPEN" /\ out.quantity = row.quantity - part
      /\ out.partial_quantity = part /\ out.partial_gross = gross /\ out.costs = costs
      /\ out.stop_pnl = stop /\ out.initial_quantity = row.initial_quantity
  BY <1>1, <1>5 DEF Row
<1> QED BY <1>1, <1>3, <1>6, <1>7, <1>8 DEF RowAdds, OpenAdds, out

\* A blocked exit keeps the units, and happens under a pause only.
LEMMA ExitBlockedAdds ==
  ASSUME NEW row, RowOK(row), RowAdds(row), row.status = "OPEN", NEW mark \in Int, ~Unpaused
  PROVE  /\ RowAdds(ExitBlocked(row, mark)) /\ ExitBlocked(row, mark).status = "OPEN"
         /\ ExitBlocked(row, mark).initial_quantity = row.initial_quantity
<1>1. /\ RowOK(Marked(row, mark)) /\ RowAdds(Marked(row, mark))
      /\ Marked(row, mark).status = "OPEN"
      /\ Marked(row, mark).initial_quantity = row.initial_quantity
  BY MarkedOK, MarkedAdds
<1>2. Marked(row, mark) \in Row BY <1>1 DEF RowOK
<1> QED BY <1>1, <1>2 DEF ExitBlocked, RowAdds, Row

LEMMA NewRowAdds ==
  ASSUME NEW c \in Candidate, NEW d \in StopDistances, NEW q \in Quantities, day \in Nat
  PROVE  RowAdds(NewRow(c, d, q))
<1> DEFINE row == NewRow(c, d, q)
<1>1. /\ row.status = "OPEN" /\ row.costs = OrderCost /\ row.partial_quantity = 0
      /\ row.quantity = q /\ row.initial_quantity = q
  BY DEF NewRow, NoTrade
<1>2. q \in Nat BY ConstantsAssumption
<1> HIDE DEF row
<1>3. RowAdds(row) BY <1>1, <1>2 DEF RowAdds, OpenAdds
<1> QED BY <1>3 DEF row

LEMMA InitMoney == Init => MoneyInv
<1> SUFFICES ASSUME Init PROVE MoneyInv OBVIOUS
<1>1. \A t \in TradeIds : trades[t].status = "NONE" /\ broker[t] = 0
  BY DEF Init, NoTrade
<1>2. Accounts BY <1>1 DEF Accounts, RowAdds
<1>3. pc = "idle" /\ paused = OperatorPauses BY DEF Init
<1> QED BY <1>1, <1>2, <1>3 DEF MoneyInv, NeverPaused, Unpaused, OrdersInSandbox, OrderStates,
                              EntryInFlight, ExitInFlight, LiquidationInv, BrokerBacksRows

LEMMA NoPause ==
  ASSUME MoneyInv, Unpaused
  PROVE  ~ExecutionPaused
BY DEF MoneyInv, NeverPaused, Unpaused, ExecutionPaused

\* Who clears and sets the flag.
LEMMA NeverPausedKept ==
  ASSUME MoneyInv, UNCHANGED paused \/ Pause \/ Restart \/ ResumeApply
  PROVE  NeverPaused'
BY DEF MoneyInv, NeverPaused, Unpaused, Pause, Restart, ResumeApply

\* Steps that neither touch the table nor start or end anything.
LEMMA FlagsKeepMoney ==
  ASSUME MoneyInv,
         \/ Pause \/ ResumeQuery \/ ResumeApply \/ DegradedChanges \/ AdvancePhase \/ NewDay
         \/ StopEntries \/ RejectCandidate \/ UNCHANGED vars
  PROVE  MoneyInv'
<1>1. /\ UNCHANGED <<trades, broker, pc, todo, order, stats>>
      /\ UNCHANGED paused \/ Pause \/ ResumeApply
  BY DEF Pause, ResumeQuery, ResumeApply, DegradedChanges, AdvancePhase, NewDay, StopEntries,
         RejectCandidate, vars, table, calendar, flags, cycle, sent
<1>2. NeverPaused' BY <1>1, NeverPausedKept
<1>3. OpenTrades' = OpenTrades BY <1>1 DEF OpenTrades, WithStatus
<1>4. (Accounts /\ OrdersInSandbox /\ EntryInFlight /\ ExitInFlight /\ BrokerBacksRows)'
  BY <1>1 DEF MoneyInv, Accounts, OrdersInSandbox, EntryInFlight, ExitInFlight, BrokerBacksRows
<1>5. LiquidationInv' BY <1>1, <1>3 DEF MoneyInv, LiquidationInv
<1> QED BY <1>2, <1>4, <1>5 DEF MoneyInv

\* Steps that leave the table alone and have no order or liquidation under way.
LEMMA QuietKeepsMoney ==
  ASSUME MoneyInv, UNCHANGED <<trades, broker>>, pc' \in {"idle", "exits", "entries"},
         UNCHANGED paused \/ Restart
  PROVE  MoneyInv'
<1>1. NeverPaused' BY NeverPausedKept
<1>2. (Accounts /\ BrokerBacksRows)' BY DEF MoneyInv, Accounts, BrokerBacksRows
<1>3. (OrdersInSandbox /\ EntryInFlight /\ ExitInFlight /\ LiquidationInv)'
  BY DEF MoneyInv, OrdersInSandbox, OrderStates, EntryInFlight, ExitInFlight, LiquidationInv
<1> QED BY <1>1, <1>2, <1>3 DEF MoneyInv

\* A liquidation starts on everything that is open, and has dealt with none.
LEMMA LiquidateKeepsMoney ==
  ASSUME MoneyInv, UNCHANGED <<trades, broker, paused>>, NEW loop \in {"hardStop", "kill"},
         Liquidate(loop)
  PROVE  MoneyInv'
<1>1. NeverPaused' BY NeverPausedKept
<1>2. (Accounts /\ BrokerBacksRows)' BY DEF MoneyInv, Accounts, BrokerBacksRows
<1>3. OpenTrades' = OpenTrades BY DEF OpenTrades, WithStatus
<1>4. LiquidationInv'
  BY <1>3, OpenTradesFinite DEF Liquidate, LiquidationInv
<1>5. (OrdersInSandbox /\ EntryInFlight /\ ExitInFlight)'
  BY DEF Liquidate, MoneyInv, OrdersInSandbox, OrderStates, EntryInFlight, ExitInFlight
<1> QED BY <1>1, <1>2, <1>4, <1>5 DEF MoneyInv

\* A row is rewritten while the broker's position stays: the row still adds up
\* and still backs what the broker holds.
LEMMA RewriteKeepsTable ==
  ASSUME Inv, MoneyInv, NEW t \in TradeIds, NEW row, Write(t, row), UNCHANGED broker,
         RowAdds(row),
         row.status = "OPEN" => broker[t] <= row.initial_quantity,
         row.status = "CLOSED" => broker[t] <= row.partial_quantity
  PROVE  (Accounts /\ BrokerBacksRows)'
<1>1. /\ trades'[t] = row
      /\ \A u \in TradeIds : u # t => trades'[u] = trades[u]
  BY DEF Write, Inv, TypeInv, Rows
<1>2. Accounts' BY <1>1 DEF MoneyInv, Accounts
<1>3. BrokerBacksRows' BY <1>1 DEF MoneyInv, BrokerBacksRows
<1> QED BY <1>2, <1>3

LEMMA QuoteKeepsMoney ==
  ASSUME Inv, MoneyInv, NEW t \in TradeIds, QuoteOpenTrade(t)
  PROVE  MoneyInv'
<1>1. /\ UNCHANGED <<broker, paused>> /\ pc' = "mark" /\ pc = "exits" /\ t \in todo
  BY DEF QuoteOpenTrade, NextToVisit, flags
<1>2. trades[t].status = "OPEN" /\ RowOK(trades[t]) /\ RowAdds(trades[t])
      /\ broker[t] <= trades[t].initial_quantity
  BY <1>1 DEF Inv, LoopInv, Visiting, OpenTrades, WithStatus, TypeInv, Rows,
              MoneyInv, Accounts, BrokerBacksRows
<1>3. (Accounts /\ BrokerBacksRows)'
  <2>1. CASE UNCHANGED trades
    BY <1>1, <2>1 DEF MoneyInv, Accounts, BrokerBacksRows
  <2>2. ASSUME NEW m \in Marks, ScaleOutDue(trades[t], m), Write(t, ScaledOut(trades[t], m))
        PROVE  (Accounts /\ BrokerBacksRows)'
    <3>1. m \in Int BY ConstantsAssumption
    <3>2. /\ RowAdds(ScaledOut(trades[t], m)) /\ ScaledOut(trades[t], m).status = "OPEN"
          /\ ScaledOut(trades[t], m).initial_quantity = trades[t].initial_quantity
      BY <1>2, <2>2, <3>1, ScaledOutAdds
    <3> QED BY <1>1, <1>2, <2>2, <3>2, RewriteKeepsTable
  <2> QED BY <2>1, <2>2 DEF QuoteOpenTrade
<1>4. NeverPaused' BY <1>1, NeverPausedKept
<1>5. (OrdersInSandbox /\ EntryInFlight /\ ExitInFlight /\ LiquidationInv)'
  BY <1>1 DEF MoneyInv, OrdersInSandbox, OrderStates, EntryInFlight, ExitInFlight, LiquidationInv
<1> QED BY <1>3, <1>4, <1>5 DEF MoneyInv

\* The loop has dealt with one position.
LEMMA ReturnKeepsMoney ==
  ASSUME Inv, MoneyInv, NEW t \in todo, NEW row, Write(t, row), RowOK(row), pc \in Visiting,
         NEW back \in {"exits", "hardStop", "kill"}, ExitReturns(t, back),
         UNCHANGED paused, (Accounts /\ BrokerBacksRows)', \A u \in TradeIds : ~Sandbox => broker'[u] = 0,
         back # "exits" /\ Unpaused /\ ~Sandbox =>
           pc = back /\ AsPosition(row) = [AsPosition(trades[t]) EXCEPT !.status = "CLOSED"]
  PROVE  MoneyInv'
<1>1. pc' = back /\ todo' = todo \ {t} BY DEF ExitReturns
<1>2. NeverPaused' BY NeverPausedKept
<1>3. (OrdersInSandbox /\ EntryInFlight /\ ExitInFlight)'
  BY <1>1 DEF OrdersInSandbox, OrderStates, EntryInFlight, ExitInFlight
<1>4. LiquidationInv'
  <2> SUFFICES ASSUME Unpaused, ~Sandbox, back # "exits"
               PROVE  OpenTrades' = todo' /\ stats'.flattened + Cardinality(todo') = stats'.open
    BY <1>1 DEF LiquidationInv
  <2>1. pc = back /\ AsPosition(row) = [AsPosition(trades[t]) EXCEPT !.status = "CLOSED"]
    OBVIOUS
  <2>2. /\ OpenTrades = todo /\ stats.flattened + Cardinality(todo) = stats.open
        /\ t \in TradeIds /\ trades[t].status = "OPEN"
    BY <2>1 DEF MoneyInv, LiquidationInv, OpenTrades, WithStatus
  <2>3. OpenTrades' = OpenTrades \ {t}
    BY <2>1, <2>2, PositionLeft DEF Inv, TypeInv
  <2>4. /\ Cardinality(todo') = Cardinality(todo) - 1
        /\ Cardinality(todo) \in Nat
    BY <1>1, <2>2, OpenTradesFinite, FS_RemoveElement
  <2>5. /\ stats'.flattened = stats.flattened + 1 /\ stats'.open = stats.open
        /\ stats.flattened \in Nat /\ stats.open \in Nat
    BY DEF ExitReturns, Inv, TypeInv, Sent
  <2> QED BY <1>1, <2>2, <2>3, <2>4, <2>5
<1> QED BY <1>2, <1>3, <1>4 DEF MoneyInv

LEMMA ExitTradeKeepsMoney ==
  ASSUME Inv, MoneyInv, NEW t \in todo, NEW mark \in Int,
         NEW back \in {"exits", "hardStop", "kill"}, pc \in Visiting,
         ExitTrade(t, mark, back), UNCHANGED <<broker, paused>>,
         back # "exits" => pc = back
  PROVE  MoneyInv'
<1>1. /\ t \in TradeIds /\ trades[t].status = "OPEN" /\ RowOK(trades[t]) /\ RowAdds(trades[t])
      /\ broker[t] <= trades[t].initial_quantity /\ clock \in Nat /\ day \in Nat
  BY DEF Inv, LoopInv, OpenTrades, WithStatus, TypeInv, Rows, Memory, Calendar,
         MoneyInv, Accounts, BrokerBacksRows
<1>2. CASE Sandbox /\ ~ExecutionPaused
  <2>1. pc' = "exitOrder" /\ UNCHANGED <<trades, broker, paused>>
    BY <1>2 DEF ExitTrade
  <2>2. NeverPaused' BY <2>1, NeverPausedKept
  <2>3. (Accounts /\ BrokerBacksRows)' BY <2>1 DEF MoneyInv, Accounts, BrokerBacksRows
  <2>4. (OrdersInSandbox /\ EntryInFlight /\ ExitInFlight /\ LiquidationInv)'
    BY <1>2, <2>1 DEF OrdersInSandbox, EntryInFlight, ExitInFlight, LiquidationInv
  <2> QED BY <2>2, <2>3, <2>4 DEF MoneyInv
<1>3. CASE ExecutionPaused
  <2>1. ~Unpaused BY <1>3, NoPause
  <2>2. Write(t, ExitBlocked(trades[t], mark)) /\ ExitReturns(t, back)
    BY <1>3 DEF ExitTrade
  <2>3. /\ RowOK(ExitBlocked(trades[t], mark))
        /\ RowAdds(ExitBlocked(trades[t], mark)) /\ ExitBlocked(trades[t], mark).status = "OPEN"
        /\ ExitBlocked(trades[t], mark).initial_quantity = trades[t].initial_quantity
    BY <1>1, <2>1, ExitBlockedOK, ExitBlockedAdds
  <2>4. (Accounts /\ BrokerBacksRows)' BY <1>1, <2>2, <2>3, RewriteKeepsTable
  <2>5. \A u \in TradeIds : ~Sandbox => broker'[u] = 0 BY DEF MoneyInv, OrdersInSandbox
  <2> QED BY <2>1, <2>2, <2>3, <2>4, <2>5, ReturnKeepsMoney
<1>4. CASE ~Sandbox /\ ~ExecutionPaused
  <2>1. Write(t, Closed(trades[t], mark)) /\ ExitReturns(t, back)
    BY <1>4 DEF ExitTrade
  <2>2. /\ RowOK(Closed(trades[t], mark)) /\ RowAdds(Closed(trades[t], mark))
        /\ Closed(trades[t], mark).status = "CLOSED"
        /\ AsPosition(Closed(trades[t], mark)) = [AsPosition(trades[t]) EXCEPT !.status = "CLOSED"]
    BY <1>1, ClosedOK, ClosedIsSummedUp
  <2>3. broker[t] = 0 /\ Closed(trades[t], mark).partial_quantity \in Nat
    BY <1>1, <1>4, <2>2 DEF MoneyInv, OrdersInSandbox, RowOK, Row
  <2>4. (Accounts /\ BrokerBacksRows)' BY <1>1, <2>1, <2>2, <2>3, RewriteKeepsTable
  <2>5. \A u \in TradeIds : ~Sandbox => broker'[u] = 0 BY DEF MoneyInv, OrdersInSandbox
  <2> QED BY <2>1, <2>2, <2>4, <2>5, ReturnKeepsMoney
<1> QED BY <1>2, <1>3, <1>4

LEMMA LoopKeepsMoney ==
  ASSUME Inv, MoneyInv, NEW t \in TradeIds, MarkOpenTrade(t) \/ LiquidateTrade(t)
  PROVE  MoneyInv'
<1>1. /\ t \in todo /\ pc \in Visiting /\ UNCHANGED <<broker, paused>>
  BY DEF MarkOpenTrade, LiquidateTrade, NextToVisit, Visiting, flags
<1>2. /\ trades[t].status = "OPEN" /\ RowOK(trades[t]) /\ RowAdds(trades[t])
      /\ broker[t] <= trades[t].initial_quantity /\ quotes[t].mark \in Int
  BY <1>1 DEF Inv, LoopInv, OpenTrades, WithStatus, TypeInv, Rows, Memory,
              MoneyInv, Accounts, BrokerBacksRows
<1>3. CASE MarkOpenTrade(t)
  <2>1. CASE ExitTrade(t, quotes[t].mark, "exits")
    BY <1>1, <1>2, <2>1, ExitTradeKeepsMoney
  <2>2. CASE Write(t, Marked(trades[t], quotes[t].mark)) /\ ExitReturns(t, "exits")
    <3>1. /\ RowOK(Marked(trades[t], quotes[t].mark)) /\ RowAdds(Marked(trades[t], quotes[t].mark))
          /\ Marked(trades[t], quotes[t].mark).status = "OPEN"
          /\ Marked(trades[t], quotes[t].mark).initial_quantity = trades[t].initial_quantity
      BY <1>2, MarkedOK, MarkedAdds
    <3>2. (Accounts /\ BrokerBacksRows)' BY <1>1, <1>2, <2>2, <3>1, RewriteKeepsTable
    <3>3. \A u \in TradeIds : ~Sandbox => broker'[u] = 0 BY <1>1 DEF MoneyInv, OrdersInSandbox
    <3> QED BY <1>1, <2>2, <3>1, <3>2, <3>3, ReturnKeepsMoney
  <2> QED BY <1>3, <2>1, <2>2 DEF MarkOpenTrade
<1>4. CASE LiquidateTrade(t)
  <2> DEFINE mark == IF pc = "kill" THEN trades[t].mark ELSE quotes[t].mark
  <2>1. mark \in Int BY DEF Inv, TypeInv, Memory, Rows, Row
  <2>2. ExitTrade(t, mark, pc) /\ pc \in {"hardStop", "kill"} BY <1>4 DEF LiquidateTrade
  <2> HIDE DEF mark
  <2> QED BY <1>1, <2>1, <2>2, ExitTradeKeepsMoney
<1> QED BY <1>3, <1>4

\* An entry: nothing of it is at the broker before its order.
LEMMA OpenTradeKeepsMoney ==
  ASSUME Inv, MoneyInv, NEW t \in TradeIds, OpenTrade(t)
  PROVE  MoneyInv'
<1>1. /\ pc = "entries" /\ cands # <<>> /\ t \in FreshTrade /\ UNCHANGED <<broker, paused>>
  BY DEF OpenTrade, flags
<1>2. PICK d \in StopDistances, q \in Quantities :
        IF Sandbox
        THEN /\ order' = [trade |-> t, row |-> NewRow(Head(cands), d, q),
                          mark |-> 0, back |-> "entries"]
             /\ pc' = "entryOrder"
             /\ UNCHANGED <<trades, gate, cands>>
        ELSE InsertTrade(t, NewRow(Head(cands), d, q)) /\ UNCHANGED <<pc, order>>
  BY DEF OpenTrade
<1> DEFINE row == NewRow(Head(cands), d, q)
<1>3. day \in Nat /\ Head(cands) \in Candidate
  BY <1>1, ShorterList DEF Inv, TypeInv, Calendar
<1>4. RowAdds(row) /\ RowOK(row) /\ row.status = "OPEN"
  BY <1>3, NewRowAdds, NewRowOK
<1> HIDE DEF row
<1>5. row.initial_quantity \in Nat BY <1>4 DEF RowOK, Row
<1>6. broker[t] = 0 BY <1>1 DEF FreshTrade
<1>7. NeverPaused' BY <1>1, NeverPausedKept
<1>8. CASE Sandbox
  <2>1. /\ order'.trade = t /\ order'.row = row /\ pc' = "entryOrder" /\ UNCHANGED <<trades, broker>>
    BY <1>1, <1>2, <1>8 DEF row
  <2>2. (Accounts /\ BrokerBacksRows)' BY <2>1 DEF MoneyInv, Accounts, BrokerBacksRows
  <2>3. (OrdersInSandbox /\ EntryInFlight /\ ExitInFlight /\ LiquidationInv)'
    BY <1>4, <1>6, <1>8, <2>1 DEF OrdersInSandbox, EntryInFlight, ExitInFlight, LiquidationInv
  <2> QED BY <1>7, <2>2, <2>3 DEF MoneyInv
<1>9. CASE ~Sandbox
  <2>1. Write(t, row) /\ pc' = "entries" BY <1>1, <1>2, <1>9 DEF row, InsertTrade
  <2>2. (Accounts /\ BrokerBacksRows)'
    BY <1>1, <1>4, <1>5, <1>6, <2>1, RewriteKeepsTable
  <2>3. (OrdersInSandbox /\ EntryInFlight /\ ExitInFlight /\ LiquidationInv)'
    BY <1>1, <2>1 DEF MoneyInv, OrdersInSandbox, OrderStates, EntryInFlight, ExitInFlight, LiquidationInv
  <2> QED BY <1>7, <2>2, <2>3 DEF MoneyInv
<1> QED BY <1>8, <1>9

\* An accepted or lost entry order is for a row that is not in the table yet.
LEMMA EntryOrderKeepsMoney ==
  ASSUME Inv, MoneyInv, EntryOrderAccepted \/ EntryOrderFailed \/ EntryCommit
  PROVE  MoneyInv'
<1> DEFINE t == order.trade
           row == order.row
<1>1. /\ pc \in {"entryOrder", "entryCommit"} /\ UNCHANGED paused
  BY DEF EntryOrderAccepted, EntryOrderFailed, EntryCommit, flags
<1>2. /\ t \in TradeIds /\ trades[t].status = "NONE" /\ row.status = "OPEN"
      /\ RowOK(row) /\ RowAdds(row) /\ Sandbox
      /\ row.quantity \in Int /\ row.initial_quantity \in Nat /\ row.partial_quantity \in Nat
  <2>1. Enterable(t, row) BY <1>1 DEF Inv, EntryOrderInv
  <2>2. RowAdds(row) /\ Sandbox BY <1>1 DEF MoneyInv, EntryInFlight, OrdersInSandbox, OrderStates
  <2>3. RowOK(row) /\ row \in Row BY DEF Inv, TypeInv, OrderType
  <2> QED BY <2>1, <2>2, <2>3 DEF Enterable, Row
<1>3. NeverPaused' BY <1>1, NeverPausedKept
<1>4. \A u \in TradeIds : u # t /\ BrokerBuys(t, row.quantity) => broker'[u] = broker[u]
  BY DEF BrokerBuys, Inv, TypeInv, Broker
<1>5. CASE EntryOrderAccepted \/ EntryOrderFailed
  <2>1. UNCHANGED trades /\ (BrokerBuys(t, row.quantity) \/ UNCHANGED broker)
    BY <1>5 DEF EntryOrderAccepted, EntryOrderFailed
  <2>2. Accounts' BY <2>1 DEF MoneyInv, Accounts
  <2>3. BrokerBacksRows'
    BY <1>2, <1>4, <2>1 DEF MoneyInv, BrokerBacksRows
  <2>4. (OrdersInSandbox /\ EntryInFlight /\ ExitInFlight /\ LiquidationInv)'
    <3>1. CASE EntryOrderFailed
      <4>1. pc' = "entries" BY <3>1 DEF EntryOrderFailed
      <4> QED BY <1>2, <4>1 DEF OrdersInSandbox, OrderStates, EntryInFlight, ExitInFlight, LiquidationInv
    <3>2. CASE EntryOrderAccepted
      <4>1. pc = "entryOrder" /\ pc' = "entryCommit" /\ UNCHANGED order
            /\ BrokerBuys(t, row.quantity)
        BY <3>2 DEF EntryOrderAccepted, cycle
      <4>2. broker'[t] = row.quantity
        BY <1>2, <4>1 DEF BrokerBuys, MoneyInv, EntryInFlight, Inv, TypeInv, Broker
      <4>3. row.quantity <= row.initial_quantity BY <1>2 DEF RowAdds
      <4> QED BY <1>2, <4>1, <4>2, <4>3
              DEF OrdersInSandbox, EntryInFlight, ExitInFlight, LiquidationInv
    <3> QED BY <1>5, <3>1, <3>2
  <2> QED BY <1>3, <2>2, <2>3, <2>4 DEF MoneyInv
<1>6. CASE EntryCommit
  <2>1. pc = "entryCommit" /\ pc' = "entries" /\ Write(t, row) /\ UNCHANGED broker
    BY <1>6 DEF EntryCommit, InsertTrade
  <2>2. broker[t] <= row.initial_quantity BY <2>1 DEF MoneyInv, EntryInFlight
  <2>3. (Accounts /\ BrokerBacksRows)' BY <1>2, <2>1, <2>2, RewriteKeepsTable
  <2>4. (OrdersInSandbox /\ EntryInFlight /\ ExitInFlight /\ LiquidationInv)'
    BY <1>2, <2>1 DEF OrdersInSandbox, OrderStates, EntryInFlight, ExitInFlight, LiquidationInv
  <2> QED BY <1>3, <2>3, <2>4 DEF MoneyInv
<1> QED BY <1>5, <1>6

\* An accepted exit order takes the whole runner from the broker; a refused or
\* lost one never adds to what is held.
LEMMA ExitOrderKeepsMoney ==
  ASSUME Inv, MoneyInv, ExitOrderAccepted \/ ExitOrderFailed \/ ExitCommit
  PROVE  MoneyInv'
<1> DEFINE t == order.trade
           row == order.row
<1>1. pc \in {"exitOrder", "exitCommit"} /\ UNCHANGED paused
  BY DEF ExitOrderAccepted, ExitOrderFailed, ExitCommit, flags
<1>2. /\ t \in todo /\ row = trades[t] /\ order.back \in {"exits", "hardStop", "kill"}
      /\ t \in TradeIds /\ row.status = "OPEN" /\ RowOK(row) /\ RowAdds(row) /\ Sandbox
      /\ order.mark \in Int /\ broker[t] <= row.initial_quantity /\ broker[t] \in Int
      /\ clock \in Nat /\ day \in Nat /\ pc \in Visiting
  <2>1. /\ t \in todo /\ row = trades[t] /\ order.back \in {"exits", "hardStop", "kill"}
        /\ pc \in Visiting
    BY <1>1 DEF Inv, ExitOrderInv, Visiting
  <2>2. t \in TradeIds /\ row.status = "OPEN"
    BY <2>1 DEF Inv, LoopInv, OpenTrades, WithStatus
  <2>3. RowOK(row) /\ order.mark \in Int /\ clock \in Nat /\ day \in Nat /\ broker[t] \in Int
    BY <2>2 DEF Inv, TypeInv, OrderType, Memory, Calendar, Broker
  <2>4. RowAdds(row) /\ Sandbox /\ broker[t] <= row.initial_quantity
    BY <1>1, <2>1, <2>2 DEF MoneyInv, Accounts, OrdersInSandbox, OrderStates, BrokerBacksRows
  <2> QED BY <2>1, <2>2, <2>3, <2>4
<1>3. /\ row.quantity \in Nat /\ row.initial_quantity \in Nat /\ row.partial_quantity \in Nat
      /\ row.quantity + row.partial_quantity = row.initial_quantity
  BY <1>2 DEF RowOK, Row, RowAdds
<1>4. NeverPaused' BY <1>1, NeverPausedKept
<1>5. BrokerSells(t, row.quantity) =>
        /\ broker'[t] = broker[t] - row.quantity
        /\ \A u \in TradeIds : u # t => broker'[u] = broker[u]
  <2>1. \A n \in Int : BrokerBuys(t, n) => /\ broker'[t] = broker[t] + n
                                          /\ \A u \in TradeIds : u # t => broker'[u] = broker[u]
    BY <1>2 DEF BrokerBuys, Inv, TypeInv, Broker
  <2>2. -row.quantity \in Int /\ broker[t] + (-row.quantity) = broker[t] - row.quantity
    BY <1>2, <1>3
  <2> QED BY <2>1, <2>2 DEF BrokerSells
<1>6. CASE ExitOrderAccepted
  <2>1. /\ pc' = "exitCommit" /\ UNCHANGED <<trades, order>> /\ BrokerSells(t, row.quantity)
    BY <1>6 DEF ExitOrderAccepted, cycle
  <2>2. broker'[t] <= row.partial_quantity /\ broker'[t] <= row.initial_quantity
    BY <1>2, <1>3, <1>5, <2>1
  <2>3. Accounts' BY <2>1 DEF MoneyInv, Accounts
  <2>4. BrokerBacksRows' BY <1>2, <1>5, <2>1, <2>2 DEF MoneyInv, BrokerBacksRows
  <2>5. (OrdersInSandbox /\ EntryInFlight /\ ExitInFlight /\ LiquidationInv)'
    BY <1>2, <2>1, <2>2 DEF OrdersInSandbox, EntryInFlight, ExitInFlight, LiquidationInv
  <2> QED BY <1>4, <2>3, <2>4, <2>5 DEF MoneyInv
<1>7. CASE ExitOrderFailed
  <2> DEFINE marked == Marked(row, order.mark)
  <2>1. /\ BrokerSells(t, row.quantity) \/ UNCHANGED broker
        /\ Write(t, marked) /\ ExitReturns(t, order.back)
    BY <1>7 DEF ExitOrderFailed
  <2>2. /\ RowOK(marked) /\ RowAdds(marked) /\ marked.status = "OPEN"
        /\ marked.initial_quantity = row.initial_quantity
    BY <1>2, MarkedOK, MarkedAdds
  <2> HIDE DEF marked
  <2>3. /\ broker'[t] <= row.initial_quantity
        /\ \A u \in TradeIds : u # t => broker'[u] = broker[u]
    BY <1>2, <1>3, <1>5, <2>1
  <2>4. /\ trades'[t] = marked
        /\ \A u \in TradeIds : u # t => trades'[u] = trades[u]
    BY <1>2, <2>1, <2>2, WriteKeepsRows DEF Inv, TypeInv
  <2>5. Accounts' BY <2>2, <2>4 DEF MoneyInv, Accounts
  <2>6. BrokerBacksRows' BY <2>2, <2>3, <2>4 DEF MoneyInv, BrokerBacksRows
  <2> QED BY <1>1, <1>2, <2>1, <2>2, <2>5, <2>6, ReturnKeepsMoney
<1>8. CASE ExitCommit
  <2> DEFINE closed == Closed(row, order.mark)
  <2>1. /\ pc = "exitCommit" /\ Write(t, closed) /\ ExitReturns(t, order.back) /\ UNCHANGED broker
    BY <1>8 DEF ExitCommit
  <2>2. /\ RowOK(closed) /\ RowAdds(closed) /\ closed.status = "CLOSED"
        /\ closed.partial_quantity = row.partial_quantity
    BY <1>2, ClosedOK, ClosedIsSummedUp
  <2> HIDE DEF closed
  <2>3. broker[t] <= row.partial_quantity BY <2>1 DEF MoneyInv, ExitInFlight
  <2>4. (Accounts /\ BrokerBacksRows)' BY <1>2, <2>1, <2>2, <2>3, RewriteKeepsTable
  <2> QED BY <1>1, <1>2, <2>1, <2>2, <2>4, ReturnKeepsMoney
<1> QED BY <1>6, <1>7, <1>8

LEMMA StepKeepsMoney ==
  ASSUME Inv, MoneyInv, [Next]_vars
  PROVE  MoneyInv'
<1>1. CASE \/ Pause \/ ResumeQuery \/ ResumeApply \/ DegradedChanges \/ AdvancePhase \/ NewDay
           \/ StopEntries \/ RejectCandidate \/ UNCHANGED vars
  BY <1>1, FlagsKeepMoney
<1>2. CASE RunRiskMonitor \/ RunFullScan \/ EndCycle \/ EndFlatten \/ EndHardStop \/ Restart
  <2>1. /\ UNCHANGED <<trades, broker>> /\ pc' \in {"idle", "exits", "entries"}
        /\ UNCHANGED paused \/ Restart
    BY <1>2 DEF RunRiskMonitor, RunFullScan, BeginCycle, EndCycle, EndFlatten, EndHardStop, Restart,
                table, flags
  <2> QED BY <2>1, QuietKeepsMoney
<1>3. ASSUME NEW t \in TradeIds, SkipOpenTrade(t) PROVE MoneyInv'
  <2>1. /\ UNCHANGED <<trades, broker, paused>> /\ pc' = "exits"
    BY <1>3 DEF SkipOpenTrade, table, flags
  <2> QED BY <2>1, QuietKeepsMoney
<1>4. CASE Flatten
  <2>1. UNCHANGED <<trades, broker, paused>> /\ Liquidate("kill")
    BY <1>4 DEF Flatten, table, flags
  <2> QED BY <2>1, LiquidateKeepsMoney
<1>5. CASE EvaluateBreakers
  <2>1. /\ UNCHANGED <<trades, broker, paused>>
        /\ Liquidate("hardStop") \/ pc' = "entries"
    BY <1>5 DEF EvaluateBreakers, table, flags
  <2> QED BY <2>1, QuietKeepsMoney, LiquidateKeepsMoney
<1>6. ASSUME NEW t \in TradeIds, QuoteOpenTrade(t) PROVE MoneyInv'
  BY <1>6, QuoteKeepsMoney
<1>7. ASSUME NEW t \in TradeIds, MarkOpenTrade(t) \/ LiquidateTrade(t) PROVE MoneyInv'
  BY <1>7, LoopKeepsMoney
<1>8. ASSUME NEW t \in TradeIds, OpenTrade(t) PROVE MoneyInv'
  BY <1>8, OpenTradeKeepsMoney
<1>9. CASE EntryOrderAccepted \/ EntryOrderFailed \/ EntryCommit BY <1>9, EntryOrderKeepsMoney
<1>10. CASE ExitOrderAccepted \/ ExitOrderFailed \/ ExitCommit BY <1>10, ExitOrderKeepsMoney
<1> QED BY <1>1, <1>2, <1>3, <1>4, <1>5, <1>6, <1>7, <1>8, <1>9, <1>10 DEF Next, CycleStep

LEMMA MoneyAlways == Spec => []MoneyInv
<1>1. Inv /\ MoneyInv /\ [Next]_vars => MoneyInv' BY StepKeepsMoney
<1> QED BY InitMoney, InvIsInductive, <1>1, PTL DEF Spec

\* PaperTrading!BrokerBacksRows, for all constants: whatever the sandbox broker
\* refuses, loses or is asked twice, a closed row has left no more than its
\* scaled-out half there.
THEOREM BrokerNeverHoldsMore == Spec => []BrokerBacksRows
<1>1. MoneyInv => BrokerBacksRows BY DEF MoneyInv
<1> QED BY MoneyAlways, <1>1, PTL

\* PaperTrading!BreakEvenCovers where nothing pauses execution: the raised stop of
\* a runner pays for every order of its trade, at any prices, sizes and costs.
THEOREM RunnersCoverTheirCosts == ASSUME Unpaused PROVE Spec => []BreakEvenCovers
<1>1. MoneyInv => BreakEvenCovers
  BY Unpaused DEF MoneyInv, Accounts, RowAdds, OpenAdds, BreakEvenCovers, OpenTrades, WithStatus
<1> QED BY MoneyAlways, <1>1, PTL

\* PaperTrading!ClosedTradesAddUp where nothing pauses execution: every unit and
\* every order of a closed trade is in its result once.
THEOREM ClosedResultsAddUp == ASSUME Unpaused PROVE Spec => []ClosedTradesAddUp
<1>1. MoneyInv => ClosedTradesAddUp
  <2> SUFFICES ASSUME MoneyInv, NEW t \in WithStatus("CLOSED")
               PROVE  LET row == trades[t]
                          orders == IF row.partial_quantity > 0 THEN 3 ELSE 2
                      IN  /\ row.quantity + row.partial_quantity = row.initial_quantity
                          /\ row.net = row.partial_gross + row.mark * row.quantity - orders * OrderCost
    BY DEF ClosedTradesAddUp
  <2> DEFINE row == trades[t]
  <2>1. t \in TradeIds /\ row.status = "CLOSED" BY DEF WithStatus
  <2>2. RowAdds(row) BY <2>1 DEF MoneyInv, Accounts
  <2> HIDE DEF row
  <2>3. /\ row.quantity + row.partial_quantity = row.initial_quantity
        /\ ClosedAdds(row)
    BY <2>1, <2>2 DEF RowAdds
  <2>4. CASE row.partial_quantity > 0
    <3>1. row.net = row.partial_gross + row.mark * row.quantity - 3 * OrderCost
      BY <2>3, <2>4 DEF ClosedAdds
    <3> QED BY <2>3, <2>4, <3>1 DEF row
  <2>5. CASE ~(row.partial_quantity > 0)
    <3>1. row.net = row.partial_gross + row.mark * row.quantity - 2 * OrderCost
      BY <2>3, <2>5 DEF ClosedAdds
    <3> QED BY <2>3, <2>5, <3>1 DEF row
  <2> QED BY <2>4, <2>5
<1> QED BY MoneyAlways, <1>1, PTL

\* PaperTrading!LiquidationEmptiesBook without pauses and without the sandbox
\* broker, which may refuse: a hard stop or a kill switch skips no position,
\* counts none twice, and lets no entry in between.
THEOREM LiquidationsEmptyTheBook ==
  ASSUME Unpaused, ~Sandbox PROVE Spec => []LiquidationEmptiesBook
<1>1. Inv /\ MoneyInv => LiquidationEmptiesBook
  <2> SUFFICES ASSUME Inv, MoneyInv, pc \in {"hardStop", "kill"}, todo = {}
               PROVE  OpenTrades = {} /\ stats.flattened = stats.open
    BY DEF LiquidationEmptiesBook
  <2>1. OpenTrades = {} /\ stats.flattened + 0 = stats.open
    BY FS_EmptySet DEF MoneyInv, LiquidationInv
  <2>2. stats.flattened \in Nat BY DEF Inv, TypeInv, Sent
  <2> QED BY <2>1, <2>2
<1> QED BY InvIsInductive, MoneyAlways, <1>1, PTL

-----------------------------------------------------------------------------
(* A pause holds the book *)

\* No new order, and no row enters or leaves but by one already accepted.
Held ==
  /\ pc' \in {"entryOrder", "exitOrder"} => pc' = pc
  /\ \A t \in TradeIds : Enters(t) \/ Leaves(t) => pc \in {"entryCommit", "exitCommit"}

\* The position of a row that keeps its status neither enters nor leaves.
LEMMA SameStatusHeld ==
  ASSUME Inv, NEW t \in TradeIds, NEW row, RowOK(row), Write(t, row),
         AsPosition(row) = AsPosition(trades[t])
  PROVE  \A u \in TradeIds : ~Enters(u) /\ ~Leaves(u)
<1>1. \A u \in TradeIds : AsPosition(trades'[u]) = AsPosition(trades[u])
  BY SamePosition DEF Inv, TypeInv
<1>2. \A u \in TradeIds : trades'[u].status = trades[u].status
  BY <1>1 DEF AsPosition
<1> QED BY <1>2 DEF Enters, Leaves

LEMMA LoopHeld ==
  ASSUME Inv, ExecutionPaused, NEW t \in TradeIds,
         QuoteOpenTrade(t) \/ MarkOpenTrade(t) \/ LiquidateTrade(t)
  PROVE  Held
<1>1. t \in todo /\ pc \in Visiting
  BY DEF QuoteOpenTrade, MarkOpenTrade, LiquidateTrade, NextToVisit, Visiting
<1>2. /\ trades[t].status = "OPEN" /\ RowOK(trades[t]) /\ quotes[t].mark \in Int
      /\ trades[t].mark \in Int
  BY <1>1 DEF Inv, LoopInv, OpenTrades, WithStatus, TypeInv, Rows, Memory, Row
<1>3. ASSUME NEW mark \in Int, NEW back \in {"exits", "hardStop", "kill"}, ExitTrade(t, mark, back)
      PROVE  Held
  <2>1. Write(t, ExitBlocked(trades[t], mark)) /\ pc' = back
    BY <1>3 DEF ExitTrade, ExitReturns
  <2>2. /\ RowOK(ExitBlocked(trades[t], mark))
        /\ AsPosition(ExitBlocked(trades[t], mark)) = AsPosition(trades[t])
    BY <1>2, ExitBlockedOK
  <2>3. \A u \in TradeIds : ~Enters(u) /\ ~Leaves(u) BY <2>1, <2>2, SameStatusHeld
  <2> QED BY <2>1, <2>3 DEF Held
<1>4. CASE QuoteOpenTrade(t)
  <2>1. PICK m \in Marks : \/ trades' = trades
                           \/ ScaleOutDue(trades[t], m) /\ Write(t, ScaledOut(trades[t], m))
    BY <1>4 DEF QuoteOpenTrade
  <2>2. pc' = "mark" BY <1>4 DEF QuoteOpenTrade
  <2>3. CASE trades' = trades BY <2>2, <2>3 DEF Held, Enters, Leaves
  <2>4. CASE ScaleOutDue(trades[t], m) /\ Write(t, ScaledOut(trades[t], m))
    <3>1. m \in Int BY ConstantsAssumption
    <3>2. /\ RowOK(ScaledOut(trades[t], m))
          /\ AsPosition(ScaledOut(trades[t], m)) = AsPosition(trades[t])
      BY <1>2, <2>4, <3>1, ScaledOutOK
    <3>3. \A u \in TradeIds : ~Enters(u) /\ ~Leaves(u) BY <2>4, <3>2, SameStatusHeld
    <3> QED BY <2>2, <3>3 DEF Held
  <2> QED BY <2>1, <2>3, <2>4
<1>5. CASE MarkOpenTrade(t)
  <2>1. CASE ExitTrade(t, quotes[t].mark, "exits") BY <1>2, <1>3, <2>1
  <2>2. CASE Write(t, Marked(trades[t], quotes[t].mark)) /\ ExitReturns(t, "exits")
    <3>1. /\ RowOK(Marked(trades[t], quotes[t].mark))
          /\ AsPosition(Marked(trades[t], quotes[t].mark)) = AsPosition(trades[t])
      BY <1>2, MarkedOK
    <3>2. \A u \in TradeIds : ~Enters(u) /\ ~Leaves(u) BY <2>2, <3>1, SameStatusHeld
    <3> QED BY <2>2, <3>2 DEF Held, ExitReturns
  <2> QED BY <1>5, <2>1, <2>2 DEF MarkOpenTrade
<1>6. CASE LiquidateTrade(t)
  <2> DEFINE mark == IF pc = "kill" THEN trades[t].mark ELSE quotes[t].mark
  <2>1. mark \in Int BY <1>2
  <2>2. ExitTrade(t, mark, pc) /\ pc \in {"hardStop", "kill"} BY <1>6 DEF LiquidateTrade
  <2> HIDE DEF mark
  <2> QED BY <1>3, <2>1, <2>2
<1> QED BY <1>4, <1>5, <1>6

LEMMA OrdersHeld ==
  ASSUME Inv, \/ EntryOrderAccepted \/ EntryOrderFailed \/ EntryCommit
              \/ ExitOrderAccepted \/ ExitOrderFailed \/ ExitCommit
  PROVE  Held
<1>1. CASE EntryOrderAccepted \/ EntryOrderFailed \/ ExitOrderAccepted
  BY <1>1 DEF EntryOrderAccepted, EntryOrderFailed, ExitOrderAccepted, Held, Enters, Leaves
<1>2. CASE EntryCommit BY <1>2 DEF EntryCommit, Held
<1>3. CASE ExitOrderFailed \/ ExitCommit
  <2>1. pc \in {"exitOrder", "exitCommit"} BY <1>3 DEF ExitOrderFailed, ExitCommit
  <2>2. /\ order.trade \in TradeIds /\ order.row = trades[order.trade]
        /\ order.back \in {"exits", "hardStop", "kill"}
    BY <2>1 DEF Inv, LoopInv, Visiting, ExitOrderInv, OpenTrades, WithStatus
  <2>3. pc' = order.back BY <1>3 DEF ExitOrderFailed, ExitCommit, ExitReturns
  <2>4. CASE ExitCommit BY <2>2, <2>3, <2>4 DEF ExitCommit, Held
  <2>5. CASE ExitOrderFailed
    <3>1. /\ RowOK(Marked(order.row, order.mark))
          /\ AsPosition(Marked(order.row, order.mark)) = AsPosition(trades[order.trade])
      BY <2>2, MarkedOK DEF Inv, TypeInv, OrderType
    <3>2. \A u \in TradeIds : ~Enters(u) /\ ~Leaves(u)
      BY <2>2, <2>5, <3>1, SameStatusHeld DEF ExitOrderFailed
    <3> QED BY <2>2, <2>3, <3>2 DEF Held
  <2> QED BY <1>3, <2>4, <2>5
<1> QED BY <1>1, <1>2, <1>3

\* PaperTrading!PauseHoldsBook, for all constants: no interleaving of a cycle
\* with /pause lets an order out or a row in after the flag is set.
THEOREM PausedBookIsHeld == Spec => PauseHoldsBook
<1>1. ASSUME Inv, [Next]_vars, ExecutionPaused PROVE Held
  <2>1. ASSUME trades' = trades, pc' = pc \/ pc' \notin {"entryOrder", "exitOrder"} PROVE Held
    BY <2>1 DEF Held, Enters, Leaves
  <2>2. CASE UNCHANGED vars BY <2>1, <2>2 DEF vars, table
  <2>3. CASE \/ RunRiskMonitor \/ RunFullScan \/ Flatten \/ Pause \/ ResumeQuery \/ ResumeApply
             \/ DegradedChanges \/ Restart \/ AdvancePhase \/ NewDay
    BY <2>1, <2>3 DEF RunRiskMonitor, RunFullScan, BeginCycle, Flatten, Liquidate, Pause, ResumeQuery,
                      ResumeApply, DegradedChanges, Restart, AdvancePhase, NewDay, table
  <2>4. CASE EvaluateBreakers \/ EndHardStop \/ EndFlatten \/ StopEntries \/ RejectCandidate \/ EndCycle
    BY <2>1, <2>4 DEF EvaluateBreakers, Liquidate, EndHardStop, EndFlatten, StopEntries,
                      RejectCandidate, EndCycle, table
  <2>5. ASSUME NEW t \in TradeIds, SkipOpenTrade(t) PROVE Held
    BY <2>1, <2>5 DEF SkipOpenTrade, table
  <2>6. ASSUME NEW t \in TradeIds, QuoteOpenTrade(t) \/ MarkOpenTrade(t) \/ LiquidateTrade(t) PROVE Held
    BY <1>1, <2>6, LoopHeld
  <2>7. ASSUME NEW t \in TradeIds, OpenTrade(t) PROVE Held
    BY <1>1, <2>7 DEF OpenTrade, Eligible
  <2>8. CASE \/ EntryOrderAccepted \/ EntryOrderFailed \/ EntryCommit
             \/ ExitOrderAccepted \/ ExitOrderFailed \/ ExitCommit
    BY <1>1, <2>8, OrdersHeld
  <2> QED BY <1>1, <2>2, <2>3, <2>4, <2>5, <2>6, <2>7, <2>8 DEF Next, CycleStep
<1>2. Inv /\ [Next]_vars =>
        [(IF gate.scan THEN ScanPaused ELSE paused) =>
           /\ pc' \in {"entryOrder", "exitOrder"} => pc' = pc
           /\ \A t \in TradeIds : Enters(t) \/ Leaves(t) => pc \in {"entryCommit", "exitCommit"}]_vars
  BY <1>1 DEF Held, ExecutionPaused
<1> QED BY InvIsInductive, <1>2, PTL DEF Spec, PauseHoldsBook
-----------------------------------------------------------------------------
(* PaperTrading implements PositionBook, and so keeps the limits proved of  *)
(* the book: each step of a cycle, of a Telegram command or of a crash is,  *)
(* seen through the table, one step of the book or none.                    *)

bar == [t \in TradeIds |-> AsPosition(trades[t])]

\* The instance of the book has its own copy of the standard operators.
LEMMA SameCardinality ==
  ASSUME NEW S
  PROVE  Book!Cardinality(S) = Cardinality(S)
BY DEF Cardinality, Book!Cardinality

\* The sets the book's guards look at are those of the table.
LEMMA SameSets ==
  /\ Book!Held = OpenTrades
  /\ \A d : Book!Entered(d) = OpenedOn(d)
BY DEF Book!Held, Book!Entered, OpenTrades, WithStatus, OpenedOn, AsPosition

LEMMA BarWritten ==
  ASSUME Rows, NEW t \in TradeIds, NEW row, Write(t, row)
  PROVE  bar' = [bar EXCEPT ![t] = AsPosition(row)]
BY DEF Rows, Write, bar

LEMMA RowStepIsBookStep ==
  ASSUME Inv, NEW t \in TradeIds, NEW row, RowStep(t, row)
  PROVE  [Book!Next]_<<bar, day>>
<1>1. bar' = [bar EXCEPT ![t] = AsPosition(row)] /\ day' = day
  BY BarWritten DEF RowStep, Inv, TypeInv
<1>2. bar[t] = AsPosition(trades[t]) BY DEF bar
<1>3. CASE AsPosition(row) = AsPosition(trades[t])
  <2>1. bar' = bar BY <1>1, <1>2, <1>3 DEF bar
  <2> QED BY <1>1, <2>1
<1>4. CASE /\ trades[t].status = "OPEN"
           /\ AsPosition(row) = [AsPosition(trades[t]) EXCEPT !.status = "CLOSED"]
  <2>1. bar' = [bar EXCEPT ![t] = [bar[t] EXCEPT !.status = "CLOSED"]]
    BY <1>1, <1>2, <1>4
  <2>2. bar[t].status = "OPEN" BY <1>2, <1>4 DEF AsPosition
  <2>3. Book!Leave(t) BY <1>1, <2>1, <2>2 DEF Book!Leave, bar
  <2> QED BY <2>3 DEF Book!Next
<1>5. CASE Enterable(t, row)
  <2>1. /\ row.symbol \in Symbols /\ row.agent \in Agents
        /\ AsPosition(row) = Book!Position(row.symbol, row.agent, day)
    BY <1>5 DEF Enterable, AsPosition, Book!Position
  <2>2. bar[t].status = "NONE" BY <1>2, <1>5 DEF AsPosition, Enterable
  <2>3. \A u \in Book!Held : bar[u].symbol # row.symbol /\ bar[u].agent # row.agent
    BY <1>5, SameSets DEF Enterable, OpenTrades, WithStatus, bar, AsPosition
  <2>4. /\ Cardinality(Book!Held) < MaxOpen
        /\ MaxPerDay > 0 => Cardinality(Book!Entered(day)) < MaxPerDay
    BY <1>5, SameSets DEF Enterable
  <2>5. Book!Enter(t, row.symbol, row.agent)
    BY <1>1, <2>1, <2>2, <2>3, <2>4, SameCardinality DEF Book!Enter, bar
  <2> QED BY <2>1, <2>5 DEF Book!Next
<1> QED BY <1>3, <1>4, <1>5 DEF RowStep

\* PaperTrading!ImplementsBook, for all constants.
THEOREM PaperTradingImplementsBook == Spec => ImplementsBook
<1>1. Init => Book!Init
  BY DEF Init, NoTrade, Book!Init, Book!Absent, AsPosition
<1>2. ASSUME Inv, [Next]_vars PROVE [Book!Next]_<<bar, day>>
  <2>1. CASE DateStep
    <3>1. bar' = bar BY <2>1 DEF DateStep, bar
    <3>2. CASE day' = day BY <3>1, <3>2
    <3>3. CASE day < MaxDay /\ day' = day + 1
      <4>1. Book!Tomorrow BY <3>1, <3>3 DEF Book!Tomorrow, bar
      <4> QED BY <4>1 DEF Book!Next
    <3> QED BY <2>1, <3>2, <3>3 DEF DateStep
  <2>2. CASE \E t \in TradeIds : \E row : RowStep(t, row)
    BY <1>2, <2>2, RowStepIsBookStep
  <2> QED BY <1>2, <2>1, <2>2, EveryTableStep DEF TableStep
<1> QED BY InvIsInductive, <1>1, <1>2, PTL DEF Spec, ImplementsBook, Book!Spec, bar

\* The limits of the book are inductive with its types, whatever PaperTrading does.
BarType ==
  /\ bar \in [TradeIds -> [status: {"NONE", "OPEN", "CLOSED"}, symbol: Symbols \cup {"none"},
                           agent: Agents \cup {"none"}, opened: Nat]]
  /\ day \in Nat
BarHeld == {t \in TradeIds : bar[t].status = "OPEN"}
BarEntered(d) == {t \in TradeIds : bar[t].status # "NONE" /\ bar[t].opened = d}
BarLimits ==
  /\ Cardinality(BarHeld) <= MaxOpen
  /\ \A t, u \in BarHeld : t # u => bar[t].symbol # bar[u].symbol /\ bar[t].agent # bar[u].agent
  /\ MaxPerDay > 0 => \A d \in 1..MaxDay : Cardinality(BarEntered(d)) <= MaxPerDay
BarInv == BarType /\ BarLimits

LEMMA BarIsBook ==
  /\ Book!Held = BarHeld
  /\ \A d : Book!Entered(d) = BarEntered(d)
  /\ Book!Limits <=> BarLimits
<1>1. Book!Held = BarHeld BY DEF Book!Held, BarHeld, bar
<1>2. \A d : Book!Entered(d) = BarEntered(d) BY DEF Book!Entered, BarEntered, bar
<1>3. Book!Limits <=> BarLimits
  BY <1>1, <1>2, SameCardinality DEF Book!Limits, BarLimits, bar
<1> QED BY <1>1, <1>2, <1>3

LEMMA BarFinite ==
  /\ IsFiniteSet(BarHeld) /\ Cardinality(BarHeld) \in Nat
  /\ \A d : IsFiniteSet(BarEntered(d)) /\ Cardinality(BarEntered(d)) \in Nat
<1>1. IsFiniteSet(TradeIds) BY ConstantsAssumption, FS_Interval DEF TradeIds
<1>2. BarHeld \in SUBSET TradeIds /\ \A d : BarEntered(d) \in SUBSET TradeIds
  BY DEF BarHeld, BarEntered
<1> QED BY <1>1, <1>2, FS_Subset, FS_CardinalityType

LEMMA EnterKeepsBar ==
  ASSUME BarInv, NEW t \in TradeIds, NEW s \in Symbols, NEW a \in Agents, Book!Enter(t, s, a)
  PROVE  BarInv'
<1> DEFINE new == Book!Position(s, a, day)
<1>1. /\ bar' = [bar EXCEPT ![t] = new] /\ day' = day
      /\ bar[t].status = "NONE" /\ new.status = "OPEN" /\ new.opened = day
      /\ new.symbol = s /\ new.agent = a
      /\ new \in [status: {"NONE", "OPEN", "CLOSED"}, symbol: Symbols \cup {"none"},
                  agent: Agents \cup {"none"}, opened: Nat]
  BY DEF Book!Enter, Book!Position, bar, BarInv, BarType
<1>2. /\ Cardinality(BarHeld) < MaxOpen
      /\ \A u \in BarHeld : bar[u].symbol # s /\ bar[u].agent # a
      /\ MaxPerDay > 0 => Cardinality(BarEntered(day)) < MaxPerDay
  <2>1. \A u \in Book!Held : bar[u].symbol # s /\ bar[u].agent # a BY DEF Book!Enter, bar
  <2>2. Book!Cardinality(Book!Held) < MaxOpen BY DEF Book!Enter
  <2>3. MaxPerDay > 0 => Book!Cardinality(Book!Entered(day)) < MaxPerDay BY DEF Book!Enter
  <2> QED BY <2>1, <2>2, <2>3, BarIsBook, SameCardinality
<1> HIDE DEF new
<1>3. /\ BarType' /\ bar'[t] = new
      /\ \A u \in TradeIds : u # t => bar'[u] = bar[u]
  BY <1>1 DEF BarInv, BarType
<1>4. BarHeld' = BarHeld \cup {t} /\ t \notin BarHeld BY <1>1, <1>3 DEF BarHeld
<1>5. Cardinality(BarHeld') <= MaxOpen
  <2>1. Cardinality(BarHeld') = Cardinality(BarHeld) + 1 BY <1>4, BarFinite, FS_AddElement
  <2> QED BY <1>2, <2>1, BarFinite, ConstantsAssumption
<1>6. ASSUME NEW u \in BarHeld', NEW v \in BarHeld', u # v
      PROVE  bar'[u].symbol # bar'[v].symbol /\ bar'[u].agent # bar'[v].agent
  <2>1. CASE u # t /\ v # t BY <1>3, <1>4, <1>6, <2>1 DEF BarInv, BarLimits, BarHeld
  <2>2. CASE u = t BY <1>1, <1>2, <1>3, <1>4, <1>6, <2>2 DEF BarHeld
  <2>3. CASE v = t BY <1>1, <1>2, <1>3, <1>4, <1>6, <2>3 DEF BarHeld
  <2> QED BY <2>1, <2>2, <2>3
<1>7. ASSUME MaxPerDay > 0, NEW d \in 1..MaxDay PROVE Cardinality(BarEntered(d)') <= MaxPerDay
  <2>1. CASE d = day
    <3>1. BarEntered(d)' = BarEntered(d) \cup {t} /\ t \notin BarEntered(d)
      BY <1>1, <1>3, <2>1 DEF BarEntered
    <3>2. Cardinality(BarEntered(d)') = Cardinality(BarEntered(d)) + 1
      BY <3>1, BarFinite, FS_AddElement
    <3> QED BY <1>2, <1>7, <2>1, <3>2, BarFinite, ConstantsAssumption
  <2>2. CASE d # day
    <3>1. BarEntered(d)' = BarEntered(d) BY <1>1, <1>3, <2>2 DEF BarEntered
    <3> QED BY <1>7, <3>1 DEF BarInv, BarLimits
  <2> QED BY <2>1, <2>2
<1> QED BY <1>3, <1>5, <1>6, <1>7 DEF BarInv, BarLimits

LEMMA LeaveKeepsBar ==
  ASSUME BarInv, NEW t \in TradeIds, Book!Leave(t)
  PROVE  BarInv'
<1>1. bar' = [bar EXCEPT ![t].status = "CLOSED"] /\ day' = day /\ bar[t].status = "OPEN"
  BY DEF Book!Leave, bar
<1>2. /\ BarType' /\ bar'[t].status = "CLOSED" /\ bar'[t].opened = bar[t].opened
      /\ \A u \in TradeIds : u # t => bar'[u] = bar[u]
  BY <1>1 DEF BarInv, BarType
<1>3. BarHeld' \in SUBSET BarHeld /\ \A u \in BarHeld' : bar'[u] = bar[u]
  BY <1>1, <1>2 DEF BarHeld
<1>4. Cardinality(BarHeld') <= MaxOpen
  <2>1. /\ Cardinality(BarHeld') <= Cardinality(BarHeld) /\ Cardinality(BarHeld') \in Nat
    BY <1>3, BarFinite, FS_Subset, FS_CardinalityType
  <2> QED BY <2>1, BarFinite, ConstantsAssumption DEF BarInv, BarLimits
<1>5. \A d : BarEntered(d)' = BarEntered(d) BY <1>1, <1>2 DEF BarEntered
<1> QED BY <1>2, <1>3, <1>4, <1>5 DEF BarInv, BarLimits

\* PositionBook!Limits, for all constants: at most MaxOpen positions, one per
\* symbol and per agent, MaxPerDay entries a day.
THEOREM BookKeepsLimits == Book!Spec => []Book!Limits
<1>1. Book!Init => BarInv
  <2> SUFFICES ASSUME Book!Init PROVE BarInv OBVIOUS
  <2>1. bar = [t \in TradeIds |-> Book!Absent] /\ day = 1 BY DEF Book!Init, bar
  <2>2. BarType BY <2>1 DEF BarType, Book!Absent
  <2>3. BarHeld = {} /\ \A d \in 1..MaxDay : BarEntered(d) = {}
    BY <2>1 DEF BarHeld, BarEntered, Book!Absent
  <2>4. MaxOpen \in Nat /\ MaxPerDay \in Nat BY ConstantsAssumption
  <2>5. Cardinality(BarHeld) = 0 /\ \A d \in 1..MaxDay : Cardinality(BarEntered(d)) = 0
    BY <2>3, FS_EmptySet
  <2>6. Cardinality(BarHeld) <= MaxOpen BY <2>4, <2>5
  <2>7. \A d \in 1..MaxDay : MaxPerDay > 0 => Cardinality(BarEntered(d)) <= MaxPerDay
    BY <2>4, <2>5
  <2> QED BY <2>2, <2>3, <2>6, <2>7 DEF BarInv, BarLimits
<1>2. BarInv /\ [Book!Next]_<<bar, day>> => BarInv'
  <2> SUFFICES ASSUME BarInv, [Book!Next]_<<bar, day>> PROVE BarInv' OBVIOUS
  <2>1. CASE UNCHANGED <<bar, day>>
    BY <2>1 DEF BarInv, BarType, BarLimits, BarHeld, BarEntered
  <2>2. CASE Book!Tomorrow
    <3>1. bar' = bar /\ day' = day + 1 BY <2>2 DEF Book!Tomorrow, bar
    <3> QED BY <3>1 DEF BarInv, BarType, BarLimits, BarHeld, BarEntered
  <2>3. ASSUME NEW t \in TradeIds, Book!Leave(t) PROVE BarInv' BY <2>3, LeaveKeepsBar
  <2>4. ASSUME NEW t \in TradeIds, NEW s \in Symbols, NEW a \in Agents, Book!Enter(t, s, a)
        PROVE  BarInv'
    BY <2>4, EnterKeepsBar
  <2> QED BY <2>1, <2>2, <2>3, <2>4 DEF Book!Next
<1>3. BarInv => Book!Limits BY BarIsBook DEF BarInv
<1> QED BY <1>1, <1>2, <1>3, PTL DEF Book!Spec, bar

\* So the table keeps them.
LEMMA TableKeepsLimits == Spec => []Book!Limits
BY PaperTradingImplementsBook, BookKeepsLimits, PTL DEF ImplementsBook

\* PaperTrading!BookLimits, for all constants: one position per agent and per
\* symbol and never more than MaxOpen.
THEOREM BookStaysInLimits == Spec => []BookLimits
<1>1. Book!Limits => BookLimits
  <2>1. \A t \in OpenTrades : /\ bar[t].symbol = trades[t].symbol
                              /\ bar[t].agent = trades[t].agent
    BY DEF bar, AsPosition, OpenTrades, WithStatus
  <2>2. Book!Limits => Cardinality(OpenTrades) <= MaxOpen
    BY SameSets, SameCardinality DEF Book!Limits
  <2>3. Book!Limits => \A t, u \in OpenTrades : t # u =>
          bar[t].symbol # bar[u].symbol /\ bar[t].agent # bar[u].agent
    BY SameSets DEF Book!Limits, bar
  <2> QED BY <2>1, <2>2, <2>3 DEF BookLimits
<1> QED BY TableKeepsLimits, <1>1, PTL

\* PaperTrading!DailyTradeCap, for all constants: no day opens more than
\* MaxPerDay trades.
THEOREM DaysStayInCap == Spec => []DailyTradeCap
<1>1. Book!Limits => DailyTradeCap
  BY SameSets, SameCardinality DEF Book!Limits, DailyTradeCap
<1> QED BY TableKeepsLimits, <1>1, PTL
=============================================================================
