---------------------------- MODULE PaperTrading ----------------------------
(***************************************************************************)
(* The paper-trading cycle of engine/paper.py over the paper_trades table: *)
(* exits first, then the daily breakers, then entries, together with the   *)
(* other threads that can move between two of its database commits (the    *)
(* Telegram /pause, /resume, /flatten and /restart handlers, the degraded  *)
(* mode) and with a crash at any point.                                    *)
(*                                                                         *)
(* A step is what lies between two commits or two broker calls.  Prices    *)
(* are favourable distances from the entry quote (positive is profit for   *)
(* either side), an order costs OrderCost whatever its turnover.           *)
(***************************************************************************)
EXTENDS Integers, Sequences, FiniteSets, FiniteSetsExt

CONSTANTS
  MaxTrades,          \* rows of paper_trades the model may create
  MaxDay,             \* trading days
  Symbols, Agents,
  Plans,              \* sets of symbols a day's final_session_plan may select
  CandidateLists,     \* candidate lists a full scan may hand to the cycle
  Marks,              \* favourable distances a quote may show
  StopDistances, Quantities,
  OrderCost,          \* brokerage, fees and slippage of one order
  MinRisk, MidRisk, MaxRisk,               \* rungs of the risk budget
  CautionLoss, CautionProfit, NearTarget,  \* where the budget steps down
  AggregateCap,       \* paper_max_aggregate_open_risk
  LossLimit, Target,  \* paper_daily_loss_limit, paper_daily_profit_target
  LearningObjective, LearningMode,
  MaxOpen, MaxPerDay, LossStreakLimit,
  Sandbox,            \* paper_submit_upstox_sandbox_orders
  ScanPaused,         \* execution_paused of the settings a full scan loads
  OperatorPauses,     \* FALSE: the worker's execution_paused stays false
  CostCap,            \* bound: the charges of a blocked row stop counting here
  BrokerFloor         \* bound: the broker follows a position no further down

TradeIds == 1..MaxTrades
Candidate == [symbol: Symbols, agent: Agents]

ASSUME ConstantsAssumption ==
  /\ MaxTrades \in Nat /\ MaxDay \in Nat \ {0}
  /\ CandidateLists \subseteq Seq(Candidate) /\ Plans \subseteq SUBSET Symbols
  /\ Marks \subseteq Int
  /\ StopDistances \subseteq Nat \ {0} /\ Quantities \subseteq Nat \ {0}
  /\ OrderCost \in Nat
  /\ {MinRisk, MidRisk, MaxRisk, AggregateCap, LearningObjective} \subseteq Nat
  /\ {CautionLoss, CautionProfit, NearTarget} \subseteq Int
  /\ {LossLimit, Target} \subseteq Nat \ {0}
  /\ {MaxOpen, MaxPerDay, LossStreakLimit} \subseteq Nat
  /\ {LearningMode, Sandbox, ScanPaused, OperatorPauses} \subseteq BOOLEAN
  /\ CostCap \in Nat /\ BrokerFloor \in Int

VARIABLES
  trades,    \* paper_trades
  broker,    \* units each trade's orders have left at the sandbox broker
  day,       \* IST trading date
  phase,     \* part of the trading day, see Phases
  plan,      \* symbols whose final_session_plan status is TRADE today
  paused,    \* execution_paused of the worker's settings object
  resuming,  \* a /resume has passed its loss query and not yet cleared paused
  degraded,  \* DEGRADED_MANAGER.is_degraded
  clock,     \* stamp of the running cycle, what closed_at records
  pc,        \* where the thread that holds the database lock is
  todo,      \* open trades the current loop has still to visit
  quotes,    \* the quote the cycle holds for each trade
  gate,      \* what the cycle has decided from the table
  cands,     \* candidates still to be considered
  order,     \* the broker order in flight
  stats,     \* flatten_stats of the running liquidation, and the rows it found
  alerted    \* safety reports sent over Telegram, <<reason, day>>

table == <<trades, broker>>
calendar == <<day, phase, plan>>
flags == <<paused, resuming, degraded>>
cycle == <<todo, quotes, gate, cands, order>>
sent == <<stats, alerted>>
vars == <<table, calendar, flags, clock, pc, cycle, sent>>

-----------------------------------------------------------------------------
(* Rows and the figures the code derives from them *)

\* Before 09:15, 09:15-15:10, 15:10-15:15 (entries and flattening), after.
Phases == {"PRE", "ENTRY", "OVERLAP", "AFTER"}
NextPhase == [PRE |-> "ENTRY", ENTRY |-> "OVERLAP", OVERLAP |-> "AFTER"]
EntryWindowOpen == phase \in {"ENTRY", "OVERLAP"}
\* Mutant of FlattenTimeReached: only the minutes before 15:15 count.
FlattensInWindowOnly == phase = "OVERLAP"
FlattenTimeReached == phase \in {"OVERLAP", "AFTER"}

NoTrade == [status |-> "NONE", symbol |-> "none", agent |-> "none",
            trading_day |-> 0, quantity |-> 0, initial_quantity |-> 0,
            partial_quantity |-> 0, partial_gross |-> 0, distance |-> 0,
            stop_pnl |-> 0, costs |-> 0, net |-> 0, mark |-> 0,
            closed_at |-> 0, closed_day |-> 0]
NoQuote == [seen |-> FALSE, mark |-> 0]
NoOrder == [trade |-> 0, row |-> NoTrade, mark |-> 0, back |-> "idle"]
NoGate == [scan |-> FALSE, allowed |-> FALSE, prior |-> FALSE, rows |-> {},
           count |-> 0, budget |-> MinRisk]
NoStats == [open |-> 0, flattened |-> 0]

WithStatus(s) == {t \in TradeIds : trades[t].status = s}
\* Mutant of OpenTrades: the status filter is inverted.
EveryRow == {t \in TradeIds : trades[t].status # "NONE"}
OpenTrades == WithStatus("OPEN")
OpenedOn(d) == {t \in TradeIds : trades[t].status # "NONE" /\ trades[t].trading_day = d}
ClosedToday == {t \in OpenedOn(day) : trades[t].status = "CLOSED"}
PriorDayOpen == \E t \in OpenTrades : trades[t].trading_day < day
NetPnl(S) == SumFunctionOnSet([t \in S |-> trades[t].net], S)
Realized == NetPnl(ClosedToday)
Projected == Realized + NetPnl(OpenTrades)

\* What a /resume adds up: rows by closing date, not by trading_day.
ClosedPnlByDate == NetPnl({t \in WithStatus("CLOSED") : trades[t].closed_day = day})

\* Rows closed in one cycle share closed_at and the query does not break the
\* tie, so a loss that ties with the latest win may or may not be counted.
LossStreaks ==
  LET won == {t \in ClosedToday : trades[t].net > 0}
      lastWin == Max({trades[t].closed_at : t \in won} \cup {0})
      after == {t \in ClosedToday \ won : trades[t].closed_at > lastWin}
      tied == {t \in ClosedToday \ won : trades[t].closed_at = lastWin}
  IN  Cardinality(after) .. Cardinality(after) + Cardinality(tied)

RiskBudget(pnl) ==
  IF pnl <= CautionLoss \/ pnl >= NearTarget THEN MinRisk
  ELSE IF pnl < 0 \/ pnl >= CautionProfit THEN MidRisk ELSE MaxRisk

RemainingRisk(t) == IF trades[t].stop_pnl < 0 THEN -trades[t].stop_pnl
                                              ELSE trades[t].stop_pnl
OpenRisk(S) == SumFunctionOnSet([t \in S |-> RemainingRisk(t)], S)
ProposedRisk(distance, quantity) == distance * quantity + 2 * OrderCost

-----------------------------------------------------------------------------
(* What the code writes back to a row *)

\* Mutant of Marked: the half already sold is forgotten.
MarkedRunnerOnly(row, mark) ==
  [row EXCEPT !.mark = mark, !.net = mark * row.quantity - row.costs - OrderCost]
Marked(row, mark) ==
  [row EXCEPT !.mark = mark,
              !.net = row.partial_gross + mark * row.quantity - row.costs - OrderCost]

\* A pause turns an exit into an EXIT_BLOCKED event, and the cost of the exit
\* that did not happen is stored in the row.
ExitBlocked(row, mark) ==
  [Marked(row, mark) EXCEPT !.costs = IF row.costs + OrderCost <= CostCap
                                      THEN row.costs + OrderCost ELSE row.costs]

Closed(row, mark) ==
  [Marked(row, mark) EXCEPT !.costs = row.costs + OrderCost, !.status = "CLOSED",
                            !.closed_at = clock, !.closed_day = day]

ScaleOutDue(row, mark) ==
  row.partial_quantity = 0 /\ row.quantity >= 2 /\ 2 * mark >= 3 * row.distance

\* Mutant of ScaledOut: the runner's own exit is not covered.
ScaledOutShort(row, mark) ==
  LET part == row.initial_quantity \div 2
      gross == mark * part
      costs == row.costs + OrderCost
  IN  [row EXCEPT !.quantity = row.quantity - part, !.partial_quantity = part,
                  !.partial_gross = gross, !.costs = costs,
                  !.stop_pnl = IF costs > gross THEN costs - gross ELSE 0]

\* Mutant of ScaledOut: the whole position leaves.
ScaledOutWhole(row, mark) ==
  [row EXCEPT !.quantity = 0, !.partial_quantity = row.initial_quantity,
              !.partial_gross = mark * row.initial_quantity,
              !.costs = row.costs + OrderCost, !.stop_pnl = 0]

\* Half the position leaves at the mark; the stop moves to where the rest
\* pays for every cost, its own exit included, and never below the entry.
ScaledOut(row, mark) ==
  LET part == row.initial_quantity \div 2
      gross == mark * part
      costs == row.costs + OrderCost
      cover == costs + OrderCost - gross
  IN  [row EXCEPT !.quantity = row.quantity - part, !.partial_quantity = part,
                  !.partial_gross = gross, !.costs = costs,
                  !.stop_pnl = IF cover > 0 THEN cover ELSE 0]

StopHit(row, mark) == mark * row.quantity <= row.stop_pnl

\* The overnight, end-of-day and stop rules; signal stands for an adverse
\* regime or the agent's own rule.
ExitDue(row, mark, signal) ==
  \/ row.trading_day < day
  \/ FlattenTimeReached
  \/ StopHit(row, mark)
  \/ signal

NewRow(c, distance, quantity) ==
  [NoTrade EXCEPT !.status = "OPEN", !.symbol = c.symbol, !.agent = c.agent,
                  !.trading_day = day, !.quantity = quantity,
                  !.initial_quantity = quantity, !.distance = distance,
                  !.stop_pnl = -(distance * quantity),
                  !.costs = OrderCost, !.net = -OrderCost]

Write(t, row) == trades' = [trades EXCEPT ![t] = row]
-----------------------------------------------------------------------------
(* The cycle: run_paper_cycle *)

\* A full scan loads settings of its own, which no Telegram command reaches;
\* the monitor and /flatten share the worker's.
\* Mutant of ExecutionPaused: the worker's own flag is not looked at.
ScanPauseOnly == gate.scan /\ ScanPaused
ExecutionPaused == IF gate.scan THEN ScanPaused ELSE paused

\* closed_at stamps stay ordered without counting cycles that close nothing.
NextStamp ==
  clock' = IF \E t \in TradeIds : trades[t].closed_at = clock THEN clock + 1 ELSE clock

\* A risk monitor brings no candidates, a full scan one of CandidateLists.
BeginCycle(scan, list) ==
  /\ pc = "idle"
  /\ pc' = "exits"
  /\ todo' = OpenTrades
  /\ gate' = [NoGate EXCEPT !.scan = scan, !.prior = PriorDayOpen]
  /\ cands' = list
  /\ NextStamp
  /\ UNCHANGED <<table, calendar, flags, quotes, order, sent>>

RunRiskMonitor == BeginCycle(FALSE, <<>>)
RunFullScan == \E list \in CandidateLists : BeginCycle(TRUE, list)

\* Rows are visited in the order they were opened.
NextToVisit(t) == t \in todo /\ \A u \in todo : t <= u

\* The quote is missing or stale, or its candle was already evaluated: the
\* position is left as it is, though the hard stop may still use the quote.
SkipOpenTrade(t) ==
  /\ pc = "exits" /\ NextToVisit(t)
  /\ todo' = todo \ {t}
  /\ \/ UNCHANGED quotes
     \/ \E m \in Marks : quotes' = [quotes EXCEPT ![t] = [seen |-> TRUE, mark |-> m]]
  /\ UNCHANGED <<table, calendar, flags, clock, pc, gate, cands, order, sent>>

\* A fresh quote: half the position is scaled out first when it is due.
QuoteOpenTrade(t) ==
  /\ pc = "exits" /\ NextToVisit(t)
  /\ \E m \in Marks :
       /\ quotes' = [quotes EXCEPT ![t] = [seen |-> TRUE, mark |-> m]]
       /\ IF ScaleOutDue(trades[t], m) THEN Write(t, ScaledOut(trades[t], m))
                                       ELSE UNCHANGED trades
  /\ pc' = "mark"
  /\ UNCHANGED <<broker, calendar, flags, clock, todo, gate, cands, order, sent>>

\* Mutant of ExitReturns: a liquidation stops at its first position.
ExitLeavesLoop(t, back) ==
  /\ todo' = IF back = "exits" THEN todo \ {t} ELSE {}
  /\ pc' = back
  /\ stats' = IF back = "exits" THEN stats
                                ELSE [stats EXCEPT !.flattened = stats.flattened + 1]

\* One more open position has been dealt with by the loop at pc = back.
ExitReturns(t, back) ==
  /\ todo' = todo \ {t}
  /\ pc' = back
  /\ stats' = IF back = "exits" THEN stats
                                ELSE [stats EXCEPT !.flattened = stats.flattened + 1]

\* The hard stop and the kill switch walk over every open row.
Liquidate(loop) ==
  /\ pc' = loop
  /\ todo' = OpenTrades
  /\ stats' = [open |-> Cardinality(OpenTrades), flattened |-> 0]

\* _mark_trade with an exit reason, called by the loop at pc = back.  The pause
\* is read here; a sandbox position closes only once the broker has answered.
\* The two liquidations count every call that raises nothing.
ExitTrade(t, mark, back) ==
  IF Sandbox /\ ~ExecutionPaused
  THEN /\ order' = [trade |-> t, row |-> trades[t], mark |-> mark, back |-> back]
       /\ pc' = "exitOrder"
       /\ UNCHANGED <<trades, todo, stats>>
  ELSE /\ Write(t, IF ExecutionPaused THEN ExitBlocked(trades[t], mark) ELSE Closed(trades[t], mark))
       /\ ExitReturns(t, back)
       /\ UNCHANGED order

\* The end-of-candle evaluation of one position: exit or mark.
MarkOpenTrade(t) ==
  /\ pc = "mark" /\ NextToVisit(t)
  /\ \E signal \in BOOLEAN :
       IF ExitDue(trades[t], quotes[t].mark, signal)
       THEN ExitTrade(t, quotes[t].mark, "exits")
       ELSE /\ Write(t, Marked(trades[t], quotes[t].mark))
            /\ ExitReturns(t, "exits")
            /\ UNCHANGED order
  /\ UNCHANGED <<broker, calendar, flags, clock, quotes, gate, cands, alerted>>

LossLimitReached == Realized <= -LossLimit \/ Projected <= -LossLimit

\* The report of a reached loss limit goes out only if the P&L it is given
\* confirms the breach, and the cycle gives it none.
LossReportSent(pnl) == pnl <= -LossLimit
ReportLossLimit ==
  alerted' = IF LossLimitReached /\ LossReportSent(0)
             THEN alerted \cup {<<"LOSS_LIMIT", day>>} ELSE alerted

\* Mutant of BreakersClear: positions left by an earlier day are no obstacle.
ClearDespitePriorDay(streak) ==
  /\ ~degraded
  /\ Realized < Target /\ Projected < Target
  /\ ~LossLimitReached
  /\ EntryWindowOpen
  /\ streak < LossStreakLimit

\* The no_entry_reasons but the pause, from the table as the exits have left it.
BreakersClear(streak) ==
  /\ ~degraded
  /\ Realized < Target /\ Projected < Target
  /\ LearningMode /\ cands # <<>> => NetPnl(OpenedOn(day)) < LearningObjective
  /\ ~LossLimitReached
  /\ ~gate.prior /\ ~PriorDayOpen
  /\ EntryWindowOpen
  /\ streak < LossStreakLimit

EvaluateBreakers ==
  /\ pc = "exits" /\ todo = {}
  /\ \E streak \in LossStreaks :
       /\ gate' = [gate EXCEPT !.allowed = ~ExecutionPaused /\ BreakersClear(streak),
                              !.rows = OpenTrades, !.count = Cardinality(OpenedOn(day)),
                              !.budget = RiskBudget(Projected)]
       /\ IF streak >= LossStreakLimit
          THEN Liquidate("hardStop") /\ UNCHANGED clock
          ELSE pc' = "entries" /\ UNCHANGED <<clock, todo, stats>>
  /\ ReportLossLimit
  /\ UNCHANGED <<table, calendar, flags, quotes, cands, order>>

\* One position of the hard stop or of the kill switch.  The hard stop falls
\* back on the entry quote, the kill switch uses the last mark.
LiquidateTrade(t) ==
  /\ pc \in {"hardStop", "kill"} /\ NextToVisit(t)
  /\ ExitTrade(t, IF pc = "kill" THEN trades[t].mark ELSE quotes[t].mark, pc)
  /\ UNCHANGED <<broker, calendar, flags, clock, quotes, gate, cands, alerted>>

\* The hard stop reports, forgets the open rows and goes on to the candidates.
EndHardStop ==
  /\ pc = "hardStop" /\ todo = {}
  /\ pc' = "entries"
  /\ gate' = [gate EXCEPT !.rows = {}]
  /\ stats' = NoStats /\ alerted' = alerted \cup {<<"TWO_LOSSES", day>>}
  /\ UNCHANGED <<table, calendar, flags, clock, todo, quotes, cands, order>>

EndFlatten ==
  /\ pc = "kill" /\ todo = {}
  /\ pc' = "idle" /\ stats' = NoStats
  /\ UNCHANGED <<table, calendar, flags, clock, cycle, alerted>>

-----------------------------------------------------------------------------
(* Entries: the candidate loop and _open_trade *)

\* Mutant of Occupied: an agent is never seen as holding a position.
NeverOccupied(agent) == FALSE
Occupied(agent) == \E t \in gate.rows : trades[t].agent = agent
DayFull == MaxPerDay > 0 /\ gate.count >= MaxPerDay

\* The loop stops: entries are off, the book is full, or so is the day.
StopEntries ==
  /\ pc = "entries" /\ cands # <<>>
  /\ \/ ~gate.allowed
     \/ Cardinality(gate.rows) >= MaxOpen
     \/ ~Occupied(Head(cands).agent) /\ DayFull
  /\ cands' = <<>>
  /\ UNCHANGED <<table, calendar, flags, clock, pc, todo, quotes, gate, order, sent>>

\* The agent is occupied, or one of the checks on the live quote refuses.
RejectCandidate ==
  /\ pc = "entries" /\ cands # <<>>
  /\ gate.allowed /\ Cardinality(gate.rows) < MaxOpen
  /\ Occupied(Head(cands).agent) \/ ~DayFull
  /\ cands' = Tail(cands)
  /\ UNCHANGED <<table, calendar, flags, clock, pc, todo, quotes, gate, order, sent>>

\* Everything _open_trade requires of a candidate before an order.
Eligible(c) ==
  /\ gate.allowed /\ Cardinality(gate.rows) < MaxOpen
  /\ ~Occupied(c.agent) /\ ~DayFull
  /\ ~ExecutionPaused /\ ~degraded
  /\ c.symbol \in plan
  /\ \A t \in OpenTrades : trades[t].symbol # c.symbol

\* Mutant of Sized: the risk of the open rows is left out.
SizedAlone(distance, quantity) ==
  ProposedRisk(distance, quantity) <= gate.budget
      /\ ProposedRisk(distance, quantity) <= AggregateCap

\* The largest size that fits the budget, or less when capital is short.  The
\* candidate's own risk multiplier may lower the budget as far as MinRisk.
Sized(distance, quantity) ==
  /\ ProposedRisk(distance, quantity) <= gate.budget
  /\ OpenRisk(gate.rows) + ProposedRisk(distance, quantity) <= AggregateCap

FreshTrade == {t \in TradeIds : /\ trades[t].status = "NONE" /\ broker[t] = 0
                                /\ \A u \in TradeIds : u < t => trades[u].status # "NONE" \/ broker[u] # 0}

\* Mutant of InsertTrade: the day's counter is not moved.
InsertUncounted(t, row) ==
  /\ Write(t, row)
  /\ gate' = [gate EXCEPT !.rows = gate.rows \cup {t}]
  /\ cands' = Tail(cands)
InsertTrade(t, row) ==
  /\ Write(t, row)
  /\ gate' = [gate EXCEPT !.rows = gate.rows \cup {t}, !.count = gate.count + 1]
  /\ cands' = Tail(cands)

OpenTrade(t) ==
  /\ pc = "entries" /\ cands # <<>> /\ t \in FreshTrade
  /\ Eligible(Head(cands))
  /\ \E d \in StopDistances, q \in Quantities :
       /\ Sized(d, q)
       /\ IF Sandbox
          THEN /\ order' = [trade |-> t, row |-> NewRow(Head(cands), d, q),
                            mark |-> 0, back |-> "entries"]
               /\ pc' = "entryOrder"
               /\ UNCHANGED <<trades, gate, cands>>
          ELSE InsertTrade(t, NewRow(Head(cands), d, q)) /\ UNCHANGED <<pc, order>>
  /\ UNCHANGED <<broker, calendar, flags, clock, todo, quotes, sent>>

EndCycle ==
  /\ pc = "entries" /\ cands = <<>>
  /\ pc' = "idle"
  /\ gate' = NoGate
  /\ quotes' = [t \in TradeIds |-> NoQuote]
  /\ UNCHANGED <<table, calendar, flags, clock, todo, cands, order, sent>>

-----------------------------------------------------------------------------
(* The sandbox broker: a request may be refused, and its answer may be lost *)

BrokerBuys(t, units) == broker' = [broker EXCEPT ![t] = broker[t] + units]
BrokerSells(t, units) == broker[t] - units >= BrokerFloor /\ BrokerBuys(t, -units)

EntryOrderAccepted ==
  /\ pc = "entryOrder"
  /\ BrokerBuys(order.trade, order.row.quantity)
  /\ pc' = "entryCommit"
  /\ UNCHANGED <<trades, calendar, flags, clock, cycle, sent>>

EntryOrderFailed ==
  /\ pc = "entryOrder"
  /\ BrokerBuys(order.trade, order.row.quantity) \/ UNCHANGED broker
  /\ pc' = "entries" /\ order' = NoOrder
  /\ cands' = Tail(cands)
  /\ UNCHANGED <<trades, calendar, flags, clock, todo, quotes, gate, sent>>

EntryCommit ==
  /\ pc = "entryCommit"
  /\ InsertTrade(order.trade, order.row)
  /\ pc' = "entries" /\ order' = NoOrder
  /\ UNCHANGED <<broker, calendar, flags, clock, todo, quotes, sent>>

ExitOrderAccepted ==
  /\ pc = "exitOrder"
  /\ BrokerSells(order.trade, order.row.quantity)
  /\ pc' = "exitCommit"
  /\ UNCHANGED <<trades, calendar, flags, clock, cycle, sent>>

\* Mutant of ExitOrderFailed: the row is closed whatever the answer.
ExitOrderIgnored ==
  /\ pc = "exitOrder"
  /\ Write(order.trade, Closed(order.row, order.mark))
  /\ ExitReturns(order.trade, order.back)
  /\ order' = NoOrder
  /\ UNCHANGED <<broker, calendar, flags, clock, quotes, gate, cands, alerted>>

\* The position stays open; the mark is stored, the cost of the exit is not.
ExitOrderFailed ==
  /\ pc = "exitOrder"
  /\ BrokerSells(order.trade, order.row.quantity) \/ UNCHANGED broker
  /\ Write(order.trade, Marked(order.row, order.mark))
  /\ ExitReturns(order.trade, order.back)
  /\ order' = NoOrder
  /\ UNCHANGED <<calendar, flags, clock, quotes, gate, cands, alerted>>

ExitCommit ==
  /\ pc = "exitCommit"
  /\ Write(order.trade, Closed(order.row, order.mark))
  /\ ExitReturns(order.trade, order.back)
  /\ order' = NoOrder
  /\ UNCHANGED <<broker, calendar, flags, clock, quotes, gate, cands, alerted>>

-----------------------------------------------------------------------------
(* The other threads, the calendar and the process *)

\* /flatten takes the database lock, so it never overlaps a cycle.
Flatten ==
  /\ pc = "idle"
  /\ Liquidate("kill")
  /\ NextStamp
  /\ UNCHANGED <<table, calendar, flags, quotes, gate, cands, order, alerted>>

Pause ==
  /\ OperatorPauses /\ paused' = TRUE
  /\ UNCHANGED <<table, calendar, resuming, degraded, clock, pc, cycle, sent>>

\* /resume queries the losses under the lock; a query that raises is read as
\* no loss at all.
ResumeQuery ==
  /\ OperatorPauses /\ pc = "idle"
  /\ \E readable \in BOOLEAN : readable => ClosedPnlByDate > -LossLimit
  /\ resuming' = TRUE
  /\ UNCHANGED <<table, calendar, paused, degraded, clock, pc, cycle, sent>>

\* By then the lock is free again and a cycle may be running.
ResumeApply ==
  /\ resuming
  /\ resuming' = FALSE /\ paused' = FALSE
  /\ UNCHANGED <<table, calendar, degraded, clock, pc, cycle, sent>>

DegradedChanges ==
  /\ degraded' = ~degraded
  /\ UNCHANGED <<table, calendar, paused, resuming, clock, pc, cycle, sent>>

\* A crash, or /restart's os._exit, wherever the cycle is: memory is lost and
\* the settings are read again.
Restart ==
  /\ pc' = "idle" /\ todo' = {} /\ cands' = <<>> /\ order' = NoOrder
  /\ gate' = NoGate /\ quotes' = [t \in TradeIds |-> NoQuote]
  /\ paused' = OperatorPauses /\ resuming' = FALSE /\ degraded' = FALSE
  /\ stats' = NoStats
  /\ UNCHANGED <<table, calendar, clock, alerted>>

AdvancePhase ==
  /\ pc = "idle" /\ phase # "AFTER"
  /\ phase' = NextPhase[phase]
  /\ UNCHANGED <<table, day, plan, flags, clock, pc, cycle, sent>>

NewDay ==
  /\ pc = "idle" /\ phase = "AFTER" /\ day < MaxDay
  /\ day' = day + 1 /\ phase' = "PRE"
  /\ plan' \in Plans
  /\ UNCHANGED <<table, flags, clock, pc, cycle, sent>>

-----------------------------------------------------------------------------
Init ==
  /\ trades = [t \in TradeIds |-> NoTrade]
  /\ broker = [t \in TradeIds |-> 0]
  /\ day = 1 /\ phase = "PRE" /\ plan \in Plans
  /\ paused = OperatorPauses /\ resuming = FALSE /\ degraded = FALSE
  /\ clock = 1 /\ pc = "idle"
  /\ todo = {} /\ quotes = [t \in TradeIds |-> NoQuote]
  /\ gate = NoGate /\ cands = <<>> /\ order = NoOrder
  /\ stats = NoStats /\ alerted = {}

CycleStep ==
  \/ \E t \in TradeIds : \/ SkipOpenTrade(t) \/ QuoteOpenTrade(t)
                         \/ MarkOpenTrade(t) \/ LiquidateTrade(t) \/ OpenTrade(t)
  \/ EvaluateBreakers \/ EndHardStop \/ EndFlatten
  \/ StopEntries \/ RejectCandidate \/ EndCycle
  \/ EntryOrderAccepted \/ EntryOrderFailed \/ EntryCommit
  \/ ExitOrderAccepted \/ ExitOrderFailed \/ ExitCommit

Next ==
  \/ RunRiskMonitor \/ RunFullScan \/ CycleStep
  \/ Flatten \/ Pause \/ ResumeQuery \/ ResumeApply \/ DegradedChanges
  \/ Restart \/ AdvancePhase \/ NewDay

Spec == Init /\ [][Next]_vars

\* The lock holder keeps running, the scheduler keeps starting monitors, time
\* passes, and every open symbol keeps getting fresh quotes that are acted on.
\* Strong fairness where crashes or other threads keep disabling the step.
Fairness ==
  /\ WF_vars(CycleStep)
  /\ SF_vars(RunRiskMonitor) /\ SF_vars(AdvancePhase) /\ SF_vars(NewDay)
  /\ \A t \in TradeIds : SF_vars(QuoteOpenTrade(t)) /\ SF_vars(MarkOpenTrade(t))
FairSpec == Spec /\ Fairness

-----------------------------------------------------------------------------
(* Invariants *)

Row == [status: {"NONE", "OPEN", "CLOSED"}, symbol: Symbols \cup {"none"},
        agent: Agents \cup {"none"}, trading_day: Nat, quantity: Nat,
        initial_quantity: Nat, partial_quantity: Nat, partial_gross: Int,
        distance: Nat, stop_pnl: Int, costs: Nat, net: Int, mark: Int,
        closed_at: Nat, closed_day: Nat]
Gate == [scan: BOOLEAN, allowed: BOOLEAN, prior: BOOLEAN, rows: SUBSET TradeIds,
         count: Nat, budget: Nat]
PcValues == {"idle", "exits", "mark", "exitOrder", "exitCommit", "hardStop", "kill",
             "entries", "entryOrder", "entryCommit"}

\* Type correctness; a row in the table always holds at least one unit, so the
\* scale-out never sells the whole position.
TypeOK ==
  /\ trades \in [TradeIds -> Row]
  /\ \A t \in TradeIds : trades[t].status # "NONE" => trades[t].quantity > 0
  /\ broker \in [TradeIds -> Int]
  /\ day \in 1..MaxDay /\ phase \in Phases /\ plan \in SUBSET Symbols
  /\ {paused, resuming, degraded} \subseteq BOOLEAN
  /\ clock \in Nat /\ pc \in PcValues /\ todo \in SUBSET TradeIds
  /\ quotes \in [TradeIds -> [seen: BOOLEAN, mark: Int]]
  /\ gate \in Gate /\ cands \in Seq(Candidate)
  /\ order \in [trade: Nat, row: Row, mark: Int, back: PcValues]
  /\ stats \in [open: Nat, flattened: Nat]
  /\ alerted \subseteq {"LOSS_LIMIT", "TWO_LOSSES"} \X (1..MaxDay)

\* The book never holds more than MaxOpen positions, two positions of one
\* agent, or two positions in one symbol, although the cycle decides on rows it
\* read before its entries and the broker is asked in between.
BookLimits ==
  /\ Cardinality(OpenTrades) <= MaxOpen
  /\ \A t, u \in OpenTrades : t # u => /\ trades[t].agent # trades[u].agent
                                       /\ trades[t].symbol # trades[u].symbol

\* No trading day opens more than paper_max_trades_per_day trades, across scans,
\* crashes and the cached day_count of a cycle with several candidates.
DailyTradeCap ==
  MaxPerDay > 0 => \A d \in 1..MaxDay : Cardinality(OpenedOn(d)) <= MaxPerDay

\* What all open positions lose at their stops stays within the aggregate cap.
RiskCapped ==
  LET atStop == [t \in OpenTrades |-> IF trades[t].stop_pnl < 0 THEN -trades[t].stop_pnl ELSE 0]
  IN  SumFunctionOnSet(atStop, OpenTrades) <= AggregateCap

\* A runner stopped out at its raised stop loses nothing once every order of the
\* trade is paid: the "cost-adjusted breakeven" of the scale-out.
BreakEvenCovers ==
  \A t \in OpenTrades : trades[t].partial_quantity > 0 =>
    trades[t].partial_gross + trades[t].stop_pnl - trades[t].costs - OrderCost >= 0

\* The net result of a closed trade counts every unit once at the price it left
\* at, and each of its two or three orders once, however often it was marked.
ClosedTradesAddUp ==
  \A t \in WithStatus("CLOSED") :
    LET row == trades[t]
        orders == IF row.partial_quantity > 0 THEN 3 ELSE 2
    IN  /\ row.quantity + row.partial_quantity = row.initial_quantity
        /\ row.net = row.partial_gross + row.mark * row.quantity - orders * OrderCost

\* When the hard stop or the kill switch has gone through its rows, nothing is
\* left open and every row it found was closed: no row is skipped, none counted
\* twice, and no entry slips in between.
LiquidationEmptiesBook ==
  pc \in {"hardStop", "kill"} /\ todo = {} =>
    OpenTrades = {} /\ stats.flattened = stats.open

\* A closed row has left at most its scaled-out half at the broker, an open one
\* at most what was bought: refused, lost and repeated exit orders never leave
\* more behind.
BrokerBacksRows ==
  \A t \in TradeIds :
    /\ trades[t].status = "OPEN" => broker[t] <= trades[t].initial_quantity
    /\ trades[t].status = "CLOSED" => broker[t] <= trades[t].partial_quantity

-----------------------------------------------------------------------------
(* Action properties *)

Enters(t) == trades[t].status = "NONE" /\ trades'[t].status = "OPEN"
Leaves(t) == trades[t].status = "OPEN" /\ trades'[t].status = "CLOSED"

\* A closed row is history: no mark, exit, liquidation or entry touches it.
ClosedFinal ==
  [][\A t \in TradeIds : trades[t].status = "CLOSED" => trades'[t] = trades[t]]_vars

\* Whatever the cycle decided earlier, at the moment a row is inserted the
\* table shows no breached breaker, no earlier day's position and a symbol
\* the session plan trades today.
EntriesRespectBreakers ==
  [][\A t \in TradeIds : Enters(t) =>
       /\ Realized < Target /\ Realized > -LossLimit
       /\ \E streak \in LossStreaks : streak < LossStreakLimit
       /\ ~PriorDayOpen /\ EntryWindowOpen
       /\ trades'[t].symbol \in plan]_vars

\* While the flag of the running cycle is set no position is entered or left
\* and no order is sent; only an order the broker already holds is completed.
PauseHoldsBook ==
  [][(IF gate.scan THEN ScanPaused ELSE paused) =>
       /\ pc' \in {"entryOrder", "exitOrder"} => pc' = pc
       /\ \A t \in TradeIds : Enters(t) \/ Leaves(t) => pc \in {"entryCommit", "exitCommit"}]_vars

-----------------------------------------------------------------------------
(* Liveness *)

\* No position is held for ever: the end-of-day and overnight exits close it.
EveryPositionIsFlattened ==
  \A t \in TradeIds : trades[t].status = "OPEN" ~> trades[t].status = "CLOSED"
-----------------------------------------------------------------------------
(* The table as a book of positions *)

AsPosition(row) == [status |-> row.status, symbol |-> row.symbol,
                    agent |-> row.agent, opened |-> row.trading_day]

Book == INSTANCE PositionBook WITH
  Trades <- TradeIds, today <- day, LastDay <- MaxDay,
  book <- [t \in TradeIds |-> AsPosition(trades[t])]

\* Every interleaving of cycles, Telegram commands, crashes and broker answers
\* is, seen through the table, a behaviour of the book.
ImplementsBook == Book!Spec
=============================================================================
