----------------------------- MODULE TradePipeline -----------------------------
(* The table trades of engine/state_machine.py under the operations of        *)
(* engine/main.py, engine/paper_engine.py and engine/position_manager.py.     *)
(* Every operation is a sequence of commits, one connection each; the process *)
(* may die between two of them and the next start reconciles the table.       *)
EXTENDS Integers, Sequences, FiniteSets, Functions

CONSTANTS
  MaxTrades,     \* bound: rows created
  Instruments,   \* the instrument keys of the universe
  Quantity,      \* candidate.qty
  MaxStop,       \* bound: how often the trailing stop rises
  MaxCrashes     \* bound: crashes of the process

ASSUME TradePipelineAssumption ==
  /\ MaxTrades \in Nat /\ MaxCrashes \in Nat /\ MaxStop \in Nat
  /\ Quantity \in Nat \ {0}

VARIABLES
  trades,        \* the table trades: id -> row or NoRow
  systemState,   \* system_config.system_state
  old,           \* the trades last updated more than 15 seconds ago
  up,            \* a process runs
  op,            \* the operation in progress
  todo,          \* the commits it still has to make
  blacklist,     \* SESSION_BLACKLISTED_SYMBOLS, in memory
  crashes        \* crashes so far (bound)

vars == <<trades, systemState, old, up, op, todo, blacklist, crashes>>

Trades == 1..MaxTrades
NoRow == [state |-> "NO_TRADE"]

-------------------------------------------------------------------------------
(* The commits.                                                               *)

Intent(t, k)  == [do |-> "intent", trade |-> t, key |-> k]
Transition(t, s) == [do |-> "transition", trade |-> t, state |-> s]
UpdateFill(t, q, b, s) ==
  [do |-> "fill", trade |-> t, filled |-> q, booked |-> b, state |-> s]
Resolve(t)    == [do |-> "resolve", trade |-> t]
Halt          == [do |-> "halt"]

\* resolve_pending_timeout decides by the filled quantity alone.
Resolved(row) ==
  IF row.filled > 0
  THEN [row EXCEPT !.state = "OPEN", !.qty = row.filled]
  ELSE [row EXCEPT !.state = "CANCELLED"]

\* booked says what net_pnl holds: nothing, the entry costs, or the result.
Updated(row, c) ==
  CASE c.do = "intent"     -> [ state |-> "QUALIFIED", key |-> c.key, qty |-> Quantity,
                                filled |-> 0, stop |-> 0, booked |-> "zero" ]
    [] c.do = "transition" -> [row EXCEPT !.state = c.state]
    [] c.do = "fill"       -> [row EXCEPT !.state = c.state, !.filled = c.filled,
                                          !.booked = c.booked]
    [] c.do = "resolve"    -> Resolved(row)

\* One commit of the operation in progress.
Commit ==
  /\ up /\ todo # <<>>
  /\ LET c == Head(todo) IN
       IF c.do = "halt"
       THEN systemState' = "HALTED" /\ UNCHANGED <<trades, old>>
       ELSE /\ trades' = [trades EXCEPT ![c.trade] = Updated(@, c)]
            /\ old' = old \ {c.trade}
            /\ UNCHANGED systemState
  /\ todo' = Tail(todo)
  /\ UNCHANGED <<up, op, blacklist, crashes>>

\* The operation returns to its caller.
Return ==
  /\ up /\ op # "none" /\ todo = <<>>
  /\ op' = "none"
  /\ UNCHANGED <<trades, systemState, old, up, todo, blacklist, crashes>>

Idle == up /\ op = "none"

Start(name, commits) ==
  /\ op' = name
  /\ todo' = commits
  /\ UNCHANGED <<trades, systemState, old, up, crashes>>

-------------------------------------------------------------------------------
(* The scanner.                                                               *)

InState(S) == {t \in Trades : trades[t].state \in S}
OpenPositions == InState({"OPEN", "PARTIALLY_FILLED"})
ActiveKeys == {trades[t].key : t \in OpenPositions}

\* execute_paper_buy fills at once or not at all: without an approved strategy,
\* for a blacklisted symbol, in a forbidden direction or with the ask above the
\* limit it leaves the row APPROVED.
BuyCommits(t, k, touched) ==
  IF touched /\ k \notin blacklist
  THEN << Transition(t, "ENTRY_PENDING"), UpdateFill(t, Quantity, "entryCost", "OPEN") >>
  ELSE << >>

\* evaluate_candidate: of its gates only the last hard one depends on the table;
\* the data, the market, the edge and the score may pass or not.
Qualifies(k) == k \notin ActiveKeys

\* run_universe_scanner_loop for one item of the universe that passes the gates.
ScanCandidate(t, k, touched) ==
  /\ Idle
  /\ systemState # "HALTED"
  /\ Qualifies(k)
  /\ trades[t] = NoRow /\ \A u \in 1..(t - 1) : trades[u] # NoRow
  /\ Start("scan", << Intent(t, k), Transition(t, "APPROVED") >> \o BuyCommits(t, k, touched))
  /\ UNCHANGED blacklist

-------------------------------------------------------------------------------
(* A broker that fills late, as the readiness tests drive the library.        *)

TouchRow(t, row) ==
  /\ trades' = [trades EXCEPT ![t] = row]
  /\ old' = old \ {t}
  /\ UNCHANGED <<systemState, up, op, todo, blacklist, crashes>>

PlaceEntry(t) ==
  /\ Idle
  /\ trades[t].state = "APPROVED"
  /\ TouchRow(t, [trades[t] EXCEPT !.state = "ENTRY_PENDING"])

RecordPartialFill(t, q) ==
  /\ Idle
  /\ trades[t].state \in {"ENTRY_PENDING", "PARTIALLY_FILLED"}
  /\ q >= trades[t].filled
  /\ TouchRow(t, [trades[t] EXCEPT !.filled = q, !.state = "PARTIALLY_FILLED"])

FifteenSeconds(t) ==
  /\ t \in InState({"ENTRY_PENDING", "PARTIALLY_FILLED"}) \ old
  /\ old' = old \cup {t}
  /\ UNCHANGED <<trades, systemState, up, op, todo, blacklist, crashes>>

\* The rows of a SELECT without ORDER BY.
RowOrders(S) == Bijection(1..Cardinality(S), S)

TimedOut == InState({"ENTRY_PENDING", "PARTIALLY_FILLED"}) \cap old

ProcessAutoTimeouts ==
  /\ Idle
  /\ TimedOut # {}
  /\ \E due \in RowOrders(TimedOut) : Start("sweep", [i \in DOMAIN due |-> Resolve(due[i])])
  /\ UNCHANGED blacklist

-------------------------------------------------------------------------------
(* Exits and the portfolio breaker.                                           *)

\* execute_paper_exit works with the filled quantity, or the ordered one when
\* nothing was filled.
ExitCommits(t) ==
  LET q == IF trades[t].filled > 0 THEN trades[t].filled ELSE trades[t].qty IN
  << Transition(t, "EXIT_PENDING"), UpdateFill(t, q, "result", "CLOSED") >>

ExecutePaperExit(t) ==
  /\ Idle
  /\ t \in OpenPositions
  /\ Start("exit", ExitCommits(t))
  /\ UNCHANGED blacklist

\* Called beside the exit of a failed thesis: bars the symbol until the process
\* ends (the set is a class attribute).
RecordThesisFailureExit(k) ==
  /\ Idle
  /\ blacklist' = blacklist \cup {k}
  /\ UNCHANGED <<trades, systemState, old, up, op, todo, crashes>>

EvaluateTrailingStop(t) ==
  /\ Idle
  /\ t \in OpenPositions
  /\ trades[t].stop < MaxStop
  /\ trades' = [trades EXCEPT ![t].stop = @ + 1]
  /\ UNCHANGED <<systemState, old, up, op, todo, blacklist, crashes>>

\* Mutant: the breaker takes the fully filled positions only.
OpenOnly == InState({"OPEN"})

Liquidated == OpenPositions

\* The halt, then the two commits of each exit.
LiquidationCommits(rows) ==
  << Halt >> \o [i \in 1..(2 * Len(rows)) |-> ExitCommits(rows[(i + 1) \div 2])[2 - (i % 2)]]

\* check_portfolio_risk_breaker once the loss has reached the limit; it does not
\* ask whether the system is halted already.
CheckPortfolioRiskBreaker ==
  /\ Idle
  /\ \/ systemState # "HALTED"
     \/ OpenPositions # {}
  /\ \E rows \in RowOrders(Liquidated) : Start("breaker", LiquidationCommits(rows))
  /\ UNCHANGED blacklist

-------------------------------------------------------------------------------
(* Crash and start.                                                           *)

Crash ==
  /\ up /\ crashes < MaxCrashes
  /\ up' = FALSE
  /\ crashes' = crashes + 1
  /\ op' = "none" /\ todo' = << >> /\ blacklist' = {}
  /\ UNCHANGED <<trades, systemState, old>>

\* Mutants of ReconciledStates: partial fills, or interrupted exits as well.
EntriesAndPartialFills == {"ENTRY_PENDING", "PARTIALLY_FILLED"}
EntriesAndExits == {"ENTRY_PENDING", "EXIT_PENDING"}

\* reconcile_on_startup cancels what it finds in ENTRY_PENDING, row by row.
ReconciledStates == {"ENTRY_PENDING"}

ReconcileOnStartup ==
  /\ ~up
  /\ up' = TRUE
  /\ op' = "startup"
  /\ \E rows \in RowOrders(InState(ReconciledStates)) :
       todo' = [i \in DOMAIN rows |-> Transition(rows[i], "CANCELLED")]
  /\ UNCHANGED <<trades, systemState, old, blacklist, crashes>>

-------------------------------------------------------------------------------
Init ==
  /\ trades = [t \in Trades |-> NoRow]
  /\ systemState = "RUNNING"
  /\ old = {} /\ blacklist = {}
  /\ up = TRUE /\ op = "none" /\ todo = << >> /\ crashes = 0

Next ==
  \/ Commit \/ Return
  \/ \E t \in Trades, k \in Instruments, touched \in BOOLEAN : ScanCandidate(t, k, touched)
  \/ \E t \in Trades : PlaceEntry(t)
  \/ \E t \in Trades, q \in 1..Quantity : RecordPartialFill(t, q)
  \/ \E t \in Trades : FifteenSeconds(t)
  \/ ProcessAutoTimeouts
  \/ \E t \in Trades : ExecutePaperExit(t)
  \/ \E k \in Instruments : RecordThesisFailureExit(k)
  \/ \E t \in Trades : EvaluateTrailingStop(t)
  \/ CheckPortfolioRiskBreaker
  \/ Crash \/ ReconcileOnStartup

Spec == Init /\ [][Next]_vars

-------------------------------------------------------------------------------
(* Properties.                                                                *)

\* Whatever commit a crash follows, a row that holds shares says so: a cancelled
\* or never entered trade has no fill, a position has one, and a fill is never
\* more than the order (record_partial_fill, resolve_pending_timeout, the two
\* commits of a buy and reconcile_on_startup).
FillsMatchState ==
  \A t \in Trades : trades[t] # NoRow =>
    LET row == trades[t] IN
    /\ row.filled <= row.qty
    /\ row.state \in {"QUALIFIED", "APPROVED", "ENTRY_PENDING", "CANCELLED"} => row.filled = 0
    /\ row.state \in {"OPEN", "PARTIALLY_FILLED", "EXIT_PENDING", "CLOSED"} => row.filled > 0
    /\ row.booked = "result" <=> row.state = "CLOSED"

\* When the breaker returns, the system is halted and every position is closed.
LiquidationIsComplete ==
  op = "breaker" /\ todo = << >> => systemState = "HALTED" /\ OpenPositions = {}

\* transition() asks nothing, yet the operations, their crashes, the timeouts and
\* the reconciliation keep every trade within ALLOWED_TRANSITIONS; in particular
\* a closed or cancelled trade never changes its state again.
Lifecycle == INSTANCE TradeLifecycle WITH stateOf <- [t \in Trades |-> trades[t].state]
FollowsLifecycle == Lifecycle!Spec

===============================================================================
