----------------------------- MODULE OptionsQuant -----------------------------
(***************************************************************************)
(* The options-quant service: one Node process that runs scan and monitor  *)
(* cycles over one stored state, a timer that monitors an open spread      *)
(* every five seconds, the scheduler's jobs that post to the service, and  *)
(* the sandbox broker, whose answers may be lost.  A step of a cycle lies  *)
(* between two awaits that a crash or the broker can tell apart: reading   *)
(* the state, the exit order, the gates, the entry order, the write.       *)
(***************************************************************************)
EXTENDS Integers, FiniteSetsExt

CONSTANTS
  Calls,            \* bound: calls of the engine in progress at a time
  MaxSpreads,       \* bound: opportunities taken
  MaxDay,           \* bound: days
  MaxForgot,        \* bound: crashes and failed writes
  MaxUnknown,       \* bound: orders that failed and still took effect
  Marks,            \* net P&L an executable exit of the open spread would book
  DailyTarget,      \* dailyProfitTargetRupees
  DailyLossLimit,   \* dailyLossLimitRupees
  ProfitTarget,     \* profitTargetRupees
  DebitLoss,        \* net loss at half of the entry debit
  MaxTradesPerDay,  \* maximumTradesPerDay, 0 for no limit
  MinTrades,        \* minimumShadowTrades
  DrawdownLimit     \* maximumDrawdownPercent of the capital

ASSUME OptionsQuantAssumption ==
  /\ {Calls, MaxSpreads, MaxDay, MaxForgot, MaxUnknown, MaxTradesPerDay, MinTrades} \subseteq Nat
  /\ Marks \subseteq Int
  /\ {DailyTarget, DailyLossLimit, ProfitTarget} \subseteq Nat \ {0}
  /\ {DebitLoss, DrawdownLimit} \subseteq Nat

VARIABLES
  stored,         \* the row of options_quant_state: positions and stage
  up,             \* the service runs
  submits,        \* OPTIONS_QUANT_SUBMIT_SANDBOX_ORDERS of the process
  cycleRunning,   \* the flag of the server
  cycles,         \* each task's position, and its copy of the state
  legs,           \* legs of each spread held at the broker
  opportunities,  \* opportunities taken so far
  phase, day,
  summary,        \* summary_json of the scheduler's last COMPLETED job
  told,           \* open positions in the scheduler's last message
  forgot, unknown

service == <<stored, up, submits, cycleRunning, cycles, legs, opportunities>>
calendar == <<phase, day>>
operator == <<summary, told>>
bounds == <<forgot, unknown>>
vars == <<service, calendar, operator, bounds>>

Tasks == 1..Calls
Spreads == 1..MaxSpreads
Phases == {"entry", "late", "shut"}
Nothing == -1
NoSummary == [open |-> Nothing, targetReached |-> FALSE]

--------------------------------------------------------------------------------
(* The state and what the engine computes from it.                            *)

NoRow == [status |-> "NONE", mode |-> "NONE", opened |-> 0, closed |-> 0, net |-> 0]
EmptyBook == [positions |-> [s \in Spreads |-> NoRow], stage |-> "SHADOW"]

With(book, status) == {s \in Spreads : book.positions[s].status = status}
Net(book, S) == SumFunctionOnSet([s \in S |-> book.positions[s].net], S)

DayNetByOpening(book) ==
  Net(book, {s \in With(book, "CLOSED") : book.positions[s].opened = day})

DayNet(book) == Net(book, {s \in With(book, "CLOSED") : book.positions[s].closed = day})
TradesToday(book) == {s \in Spreads \ With(book, "NONE") : book.positions[s].opened = day}

\* The deepest fall of the closed trades' equity, in the order of opening.
DrawdownBeyond(book) ==
  \E i, j \in With(book, "CLOSED") :
    -Net(book, {s \in With(book, "CLOSED") : i <= s /\ s <= j}) > DrawdownLimit

\* evaluateStrategy: a record without a loss has no profit factor, which counts
\* as zero.
EdgeAbsent(book) ==
  LET closed == With(book, "CLOSED")
      losses == Net(book, {s \in closed : book.positions[s].net <= 0})
  IN  /\ Cardinality(closed) >= MinTrades
      /\ Net(book, closed) <= 0 \/ losses = 0 \/ DrawdownBeyond(book)

\* persistNoTrade: a STOP becomes final.
NoTradeBook(book) == IF EdgeAbsent(book) THEN [book EXCEPT !.stage = "FAILED"] ELSE book

\* markOpenPositions: daily target and limit, the spread's own target and stop;
\* the other reasons depend on the chain and the direction.
ExitDue(book, mark, thesisFails) ==
  \/ DayNet(book) + mark >= DailyTarget
  \/ DayNet(book) + mark <= -DailyLossLimit
  \/ mark >= ProfitTarget
  \/ mark <= -DebitLoss
  \/ thesisFails

ClosedBook(book, s, net) ==
  [book EXCEPT !.positions[s].status = "CLOSED",
               !.positions[s].closed = day,
               !.positions[s].net = net]

OpenedBook(book, s, mode) ==
  [book EXCEPT !.positions[s] =
     [status |-> "OPEN", mode |-> mode, opened |-> day, closed |-> 0, net |-> 0]]

\* runOptionsQuantScan: the gates between the mark and the order.
DayLocked(book) ==
  \/ 10 * DayNet(book) >= 9 * DailyTarget
  \/ DayNet(book) <= -DailyLossLimit
  \/ MaxTradesPerDay > 0 /\ Cardinality(TradesToday(book)) >= MaxTradesPerDay

EntryAllowed(book) == ~DayLocked(book) /\ book.stage # "FAILED" /\ phase = "entry"

--------------------------------------------------------------------------------
(* A cycle's beginning and end.                                               *)

NoCycle == [at |-> "idle", kind |-> "none", request |-> "none",
            book |-> EmptyBook, spread |-> 0, net |-> 0]

FlagIgnored == TRUE
MayBegin == ~cycleRunning

Goto(t, cycle) == cycles' = [cycles EXCEPT ![t] = cycle]
At(t, where) == up /\ cycles[t].at = where

Begin(t, kind, request) ==
  /\ up
  /\ cycles[t] = NoCycle /\ \A u \in Tasks : u < t => cycles[u] # NoCycle
  /\ MayBegin
  /\ cycleRunning' = TRUE
  /\ Goto(t, [NoCycle EXCEPT !.at = "begun", !.kind = kind, !.request = request,
                             !.book = stored])
  /\ UNCHANGED <<stored, up, submits, legs, opportunities, calendar, operator, bounds>>

\* The interval reads the state first and monitors only an open spread.
ActiveMonitor(t) == With(stored, "OPEN") # {} /\ Begin(t, "monitor", "none")

\* One job of the scheduler at a time holds the lock; a busy server answers 409,
\* a stopped one not at all, and the job ends FAILED.
JobPosts(t, kind) ==
  /\ phase # "shut"
  /\ \A u \in Tasks : cycles[u].request = "none"
  /\ Begin(t, kind, kind)

\* The job gives up (MAX_RUNTIME_EXCEEDED), the cycle goes on.
JobTimesOut(t) ==
  /\ cycles[t].request # "none"
  /\ Goto(t, [cycles[t] EXCEPT !.request = "none"])
  /\ UNCHANGED <<stored, up, submits, cycleRunning, legs, opportunities, calendar, operator, bounds>>

SummaryOf(book) == [open |-> Cardinality(With(book, "OPEN")),
                    targetReached |-> DayNet(book) >= DailyTarget]

OnlyOpenings(kind, previous, new) ==
  kind = "scan" \/ (previous # NoSummary /\ new.open > previous.open)

\* notify_completed, with the summary of the last COMPLETED job.
Announced(kind, previous, new) ==
  \/ kind = "scan"
  \/ /\ previous # NoSummary
     /\ \/ new.open # previous.open
        \/ new.targetReached /\ ~previous.targetReached

Completed(request, book) ==
  LET new == SummaryOf(book) IN
  IF request = "none" THEN UNCHANGED operator
  ELSE /\ summary' = new
       /\ told' = IF Announced(request, summary, new) THEN new.open ELSE told

FlagKeptOnError(returned) == ~returned

\* The flag is cleared in a finally block, whether the call returned or raised.
FlagAfter(returned) == FALSE

\* The call's write and its return; both are the last things it does.
Finish(t, book) ==
  /\ stored' = book
  /\ cycleRunning' = FlagAfter(TRUE)
  /\ Completed(cycles[t].request, book)
  /\ Goto(t, NoCycle)

PersistNoTrade(t, book) == Finish(t, NoTradeBook(book))

\* Neither the write nor the write of the catch block succeeds: the call raises,
\* the server answers 503 and what the cycle did is forgotten.
WriteFails(t) ==
  /\ up /\ cycles[t].at \notin {"idle", "exit", "entry"}
  /\ forgot < MaxForgot
  /\ forgot' = forgot + 1
  /\ cycleRunning' = FlagAfter(FALSE)
  /\ Goto(t, NoCycle)
  /\ UNCHANGED <<stored, up, submits, legs, opportunities, calendar, operator, unknown>>

--------------------------------------------------------------------------------
(* The steps of a cycle.                                                      *)

\* Disabled, paused, outside the session, or without direction, contracts or a
\* chain.
Abandon(t) ==
  /\ At(t, "begun")
  /\ IF cycles[t].kind = "monitor" /\ With(cycles[t].book, "OPEN") = {}
     THEN Finish(t, cycles[t].book)
     ELSE PersistNoTrade(t, cycles[t].book)
  /\ UNCHANGED <<up, submits, legs, opportunities, calendar, bounds>>

MarketRead(t) == At(t, "begun") /\ phase # "shut"

NothingToMark(t) ==
  /\ MarketRead(t)
  /\ cycles[t].kind = "scan"
  /\ With(cycles[t].book, "OPEN") = {}
  /\ Goto(t, [cycles[t] EXCEPT !.at = "closed"])
  /\ UNCHANGED <<stored, up, submits, cycleRunning, legs, opportunities, calendar, operator, bounds>>

\* A scan that finds the spread still open is a cycle without a trade; a monitor
\* writes without making a STOP final.
HoldSpread(t, mark) ==
  LET cycle == cycles[t] IN
  /\ MarketRead(t)
  /\ With(cycle.book, "OPEN") # {}
  /\ ~ExitDue(cycle.book, mark, FALSE)
  /\ IF cycle.kind = "scan" THEN PersistNoTrade(t, cycle.book) ELSE Finish(t, cycle.book)
  /\ UNCHANGED <<up, submits, legs, opportunities, calendar, bounds>>

ExitSpread(t, mark, thesisFails) ==
  LET cycle == cycles[t] IN
  /\ MarketRead(t)
  /\ \E s \in With(cycle.book, "OPEN") :
       /\ ExitDue(cycle.book, mark, thesisFails)
       /\ IF cycle.book.positions[s].mode = "UPSTOX_SANDBOX"
          THEN Goto(t, [cycle EXCEPT !.at = "exit", !.spread = s, !.net = mark])
          ELSE Goto(t, [cycle EXCEPT !.at = "closed", !.book = ClosedBook(cycle.book, s, mark)])
  /\ UNCHANGED <<stored, up, submits, cycleRunning, legs, opportunities, calendar, operator, bounds>>

ExitAccepted(t) ==
  LET cycle == cycles[t] IN
  /\ At(t, "exit")
  /\ legs' = [legs EXCEPT ![cycle.spread] = @ - 2]
  /\ Goto(t, [cycle EXCEPT !.at = "closed", !.spread = 0, !.net = 0,
                           !.book = ClosedBook(cycle.book, cycle.spread, cycle.net)])
  /\ UNCHANGED <<stored, up, submits, cycleRunning, opportunities, calendar, operator, bounds>>

\* The order is refused, its answer is lost, or one leg is accepted and cannot be
\* cancelled: left legs of it took effect, and the engine only sees an exception.
OrderFails(t, left) ==
  /\ left > 0 => unknown < MaxUnknown
  /\ unknown' = IF left > 0 THEN unknown + 1 ELSE unknown
  /\ PersistNoTrade(t, cycles[t].book)
  /\ UNCHANGED <<up, submits, opportunities, calendar, forgot>>

ExitFails(t, left) ==
  /\ At(t, "exit")
  /\ legs' = [legs EXCEPT ![cycles[t].spread] = @ - left]
  /\ OrderFails(t, left)

\* A monitor writes the exit and runs a full cycle on what it wrote; a scan goes
\* on with its own copy and writes once, at its end.
StoreExit(t) ==
  LET cycle == cycles[t] IN
  /\ At(t, "closed")
  /\ cycle.kind = "monitor"
  /\ stored' = cycle.book
  /\ Goto(t, [cycle EXCEPT !.at = "begun", !.kind = "scan"])
  /\ UNCHANGED <<up, submits, cycleRunning, legs, opportunities, calendar, operator, bounds>>

\* The daily gates, the failed stage, the direction, the entry window, the expiry
\* or the chain leaves no opportunity.
TakeNoOpportunity(t) ==
  /\ At(t, "closed")
  /\ cycles[t].kind = "scan"
  /\ PersistNoTrade(t, cycles[t].book)
  /\ UNCHANGED <<up, submits, legs, opportunities, calendar, bounds>>

TakeOpportunity(t) ==
  LET cycle == cycles[t]
      s == opportunities + 1
  IN
  /\ At(t, "closed")
  /\ cycle.kind = "scan"
  /\ EntryAllowed(cycle.book)
  /\ s \in Spreads
  /\ opportunities' = s
  /\ IF submits
     THEN Goto(t, [cycle EXCEPT !.at = "entry", !.spread = s])
     ELSE Goto(t, [cycle EXCEPT !.at = "opened", !.book = OpenedBook(cycle.book, s, "SHADOW")])
  /\ UNCHANGED <<stored, up, submits, cycleRunning, legs, calendar, operator, bounds>>

EntryAccepted(t) ==
  LET cycle == cycles[t] IN
  /\ At(t, "entry")
  /\ legs' = [legs EXCEPT ![cycle.spread] = @ + 2]
  /\ Goto(t, [cycle EXCEPT !.at = "opened", !.spread = 0,
                           !.book = OpenedBook(cycle.book, cycle.spread, "UPSTOX_SANDBOX")])
  /\ UNCHANGED <<stored, up, submits, cycleRunning, opportunities, calendar, operator, bounds>>

EntryFails(t, left) ==
  /\ At(t, "entry")
  /\ legs' = [legs EXCEPT ![cycles[t].spread] = @ + left]
  /\ OrderFails(t, left)

StoreEntry(t) ==
  /\ At(t, "opened")
  /\ Finish(t, cycles[t].book)
  /\ UNCHANGED <<up, submits, legs, opportunities, calendar, bounds>>

--------------------------------------------------------------------------------
(* The process, the market and the calendar.                                  *)

\* An order in flight may have taken effect in part or not at all.
LegsAfterCrash(s) ==
  {legs[s]}
    \cup {legs[s] - n : n \in {m \in 1..2 : \E t \in Tasks : At(t, "exit") /\ cycles[t].spread = s}}
    \cup {legs[s] + n : n \in {m \in 1..2 : \E t \in Tasks : At(t, "entry") /\ cycles[t].spread = s}}

Crash ==
  /\ up
  /\ forgot < MaxForgot
  /\ forgot' = forgot + 1
  /\ up' = FALSE
  /\ cycleRunning' = FALSE
  /\ cycles' = [t \in Tasks |-> NoCycle]
  /\ legs' \in {f \in [Spreads -> UNION {LegsAfterCrash(s) : s \in Spreads}] :
                  \A s \in Spreads : f[s] \in LegsAfterCrash(s)}
  /\ UNCHANGED <<stored, submits, opportunities, calendar, operator, unknown>>

StartService ==
  /\ ~up
  /\ up' = TRUE
  /\ submits' \in BOOLEAN
  /\ UNCHANGED <<stored, cycleRunning, cycles, legs, opportunities, calendar, operator, bounds>>

\* Every request ends within minutes, so no cycle that read the market is still
\* running when the next day begins.
AdvancePhase ==
  /\ \/ phase = "entry" /\ phase' = "late" /\ day' = day
     \/ phase = "late" /\ phase' = "shut" /\ day' = day
     \/ /\ phase = "shut" /\ day < MaxDay
        /\ \A t \in Tasks : cycles[t] = NoCycle
        /\ phase' = "entry" /\ day' = day + 1
  /\ UNCHANGED <<service, operator, bounds>>

--------------------------------------------------------------------------------
Init ==
  /\ stored = EmptyBook
  /\ up = FALSE /\ submits = FALSE
  /\ cycleRunning = FALSE
  /\ cycles = [t \in Tasks |-> NoCycle]
  /\ legs = [s \in Spreads |-> 0]
  /\ opportunities = 0
  /\ phase = "entry" /\ day = 1
  /\ summary = NoSummary /\ told = Nothing
  /\ forgot = 0 /\ unknown = 0

ReadMarket(t) ==
  \/ NothingToMark(t)
  \/ \E mark \in Marks : \/ HoldSpread(t, mark)
                         \/ \E thesisFails \in BOOLEAN : ExitSpread(t, mark, thesisFails)

\* The steps the process takes by itself.
Proceed(t) ==
  Abandon(t) \/ ReadMarket(t) \/ StoreExit(t) \/ TakeNoOpportunity(t) \/ TakeOpportunity(t)
    \/ StoreEntry(t)

BrokerAnswers(t) ==
  \/ ExitAccepted(t) \/ EntryAccepted(t)
  \/ \E left \in 0..2 : ExitFails(t, left) \/ EntryFails(t, left)

Next ==
  \/ \E t \in Tasks :
       \/ ActiveMonitor(t)
       \/ \E kind \in {"scan", "monitor"} : JobPosts(t, kind)
       \/ JobTimesOut(t)
       \/ Proceed(t) \/ BrokerAnswers(t) \/ WriteFails(t)
  \/ Crash
  \/ StartService
  \/ AdvancePhase

Spec == Init /\ [][Next]_vars

\* systemd restarts the service; every call ends, as its requests do; the timer
\* finds the flag clear now and then; and a broker and a market source that are
\* asked for ever answer for ever.
FairSpec ==
  /\ Spec
  /\ WF_vars(StartService)
  /\ WF_vars(\E t \in Tasks : Proceed(t)) /\ WF_vars(\E t \in Tasks : BrokerAnswers(t))
  /\ SF_vars(\E t \in Tasks : ReadMarket(t)) /\ SF_vars(\E t \in Tasks : ExitAccepted(t))
  /\ SF_vars(\E t \in Tasks : ActiveMonitor(t))

--------------------------------------------------------------------------------
(* Properties.                                                                *)

Resting == \A t \in Tasks : cycles[t] = NoCycle

Distance(a, b) == IF a > b THEN a - b ELSE b - a

ExpectedLegs(s) ==
  IF stored.positions[s].status = "OPEN" /\ stored.positions[s].mode = "UPSTOX_SANDBOX"
  THEN 2 ELSE 0

\* Between cycles the broker holds the legs the stored state says it holds, but
\* for what crashes, failed writes and unanswered orders explain: an unanswered
\* order costs at most its two legs, and a forgotten cycle four, because a scan
\* that closes one spread and opens the next writes both with its last statement
\* (runOptionsQuantScan, submitSandboxOrder, the flag of the server).
BrokerAgreesWithState ==
  Resting => SumFunctionOnSet([s \in Spreads |-> Distance(legs[s], ExpectedLegs(s))], Spreads)
               <= 4 * forgot + 2 * unknown

\* What the spreads closed on a day have booked, in the state as stored.
BookedToday ==
  Net(stored, {s \in Spreads : /\ stored.positions[s].status = "CLOSED"
                               /\ stored.positions[s].closed = day})

\* Once the stored exits of a day reach the loss limit or nine tenths of the
\* target, whatever day they were opened and whichever cycle closed them, no
\* cycle takes another opportunity that day (netPnlForIstDay and its gates).
DayLimitsLockEntries ==
  [][opportunities' # opportunities =>
       -DailyLossLimit < BookedToday /\ 10 * BookedToday < 9 * DailyTarget]_vars

\* When the session stays open and every chain that is read from some time on
\* asks for an exit, the spread is closed, through refused exits, lost answers,
\* failed writes and restarts (the five-second monitor, the flag, the retry of a
\* submitted exit by the next cycle).
SpreadsAreClosed ==
  /\ <>[](phase # "shut")
  /\ <>[][\A t \in Tasks, mark \in Marks : ~HoldSpread(t, mark)]_vars
  => []<>(With(stored, "OPEN") = {})

\* Once the operator has been told a number of open positions, the last number
\* told is that of the last completed job, whatever jobs failed, timed out or
\* changed positions in between (latest_completed_summary, notify_completed).
OperatorKnowsPositions == told # Nothing => told = summary.open

================================================================================
