------------------------------ MODULE SessionPlan ------------------------------
(* The learning loop: the evening review turns losing trades into lessons and  *)
(* incidents (engine/forensic_review.py), and the next morning's funnel reads   *)
(* lessons and backtest evidence into the watchlist and the session plan       *)
(* (engine/intelligence.py, engine/upstox_evidence.py).  Statements commit one  *)
(* by one and the process may die between them.                                *)
EXTENDS Integers, SequencesExt, Ordering

CONSTANTS
  Symbols,       \* the universe, a sequence
  Recorded,      \* the symbols with stored bars
  Mornings,      \* the live indicators the symbols may show together
  Evidences,     \* rows of evidence that may be written: [symbol, template, row]
  Losses,        \* the closed trades a day may bring
  MaxDays, MaxTrades, MaxReviews, MaxPlanCrashes   \* bounds

Templates == << "VWAP Pullback", "ORB Breakout", "Gap Continuation" >>
Stocks == ToSet(Symbols)

EvidenceRow == [source: {"NONE", "ALGOVERSE", "LOCAL_FALLBACK", "IN_HOUSE_ENGINE"},
                trades: Nat, win: Nat, ratio: Nat, drawdown: Nat]

ASSUME SessionPlanAssumption ==
  /\ {MaxDays, MaxTrades, MaxReviews, MaxPlanCrashes} \subseteq Nat
  /\ Symbols \in Seq(Stocks)
  /\ \A t \in Losses : t.symbol \in Stocks /\ t.pnl \in Int
  /\ Evidences \subseteq [symbol: Stocks, template: DOMAIN Templates, row: EvidenceRow]

VARIABLES
  day,           \* the trading day
  trades,        \* paper_trades closed today
  lessons,       \* learning_store
  register,      \* the file of the failure register: [torn, incidents]
  evidence,      \* strategy_candidates: rows of a symbol and template
  strategyMap,   \* stock_strategy_map
  watchlist,     \* today's daily_watchlist
  plan,          \* today's final_session_plan
  agenda,        \* commits to make by the operation in progress
  taught,        \* ghost: symbols of the losses a completed review has seen
  reviews, planCrashes

planVars == << day, trades, lessons, register, evidence, strategyMap, watchlist, plan,
              agenda, taught, reviews, planCrashes >>

-------------------------------------------------------------------------------
(* classify_trade_failure: the first cause that fits, with its penalty.        *)

Cause(category, penalty) == [category |-> category, penalty |-> penalty]

Apart(a, b) == IF a < b THEN b - a ELSE a - b

PoorReward(t) ==
  LET risk == Apart(t.fill, t.stop) IN
  risk = 0 \/ 10 * Apart(t.target, t.fill) < 12 * risk

ClassifyTradeFailure(t) ==
  IF t.exit \in {"MANUAL_PANIC", "HARD_BREAKER", "THESIS_FAILURE", "EOD_FORCE_CLOSE"}
    THEN Cause("exit/thesis-failure handling", 25)
  ELSE IF t.signal > 0 /\ 1000 * t.fill > 1015 * t.signal THEN Cause("late entry", 20)
  ELSE IF ~t.aligned \/ t.sectorRank > 8 THEN Cause("market/sector misalignment", 18)
  ELSE IF t.adx > 400 \/ t.rsi > 720 THEN Cause("overextension/chasing", 20)
  ELSE IF t.rvol < 100 THEN Cause("weak volume quality", 15)
  ELSE IF t.ranging /\ t.breakout THEN Cause("wrong strategy template", 20)
  ELSE IF t.fill > 0 /\ t.stop > 0 /\ t.target > 0 /\ PoorReward(t)
    THEN Cause("SL/target issue", 15)
  ELSE Cause("stock selection", 15)

\* Mutant: only the exits that went wrong teach.
TeachesByExit(t) == t.exit \in {"MANUAL_PANIC", "HARD_BREAKER", "THESIS_FAILURE"}

Teaches(t) ==
  t.pnl < 0 \/ t.exit \in {"MANUAL_PANIC", "HARD_BREAKER", "THESIS_FAILURE", "STOP_LOSS"}

Lesson(t) == [symbol |-> t.symbol, cause |-> ClassifyTradeFailure(t)]

-------------------------------------------------------------------------------
(* append_to_failure_register.                                                 *)

NextNumber(incidents) ==
  1 + Max({0} \cup {incidents[i].id : i \in DOMAIN incidents})

Entered(incidents, symptom) ==
  Append(incidents, [id |-> NextNumber(incidents), symptom |-> symptom, status |-> "OPEN"])

\* Mutant: incidents are numbered and appended without looking for the symptom.
AppendedAlways(file, symptom) == [file EXCEPT !.incidents = Entered(@, symptom)]

Known(incidents, symptom) ==
  \E i \in DOMAIN incidents : incidents[i].symptom = symptom /\ incidents[i].status = "OPEN"

\* The symptom of an open incident is counted there and not entered again.  A
\* register that cannot be read is left as it is and the incident is dropped.
Appended(file, symptom) ==
  IF file.torn \/ Known(file.incidents, symptom) THEN file
  ELSE [file EXCEPT !.incidents = Entered(@, symptom)]

-------------------------------------------------------------------------------
(* generate_premarket_shortlist.                                               *)

\* What the funnel takes for a symbol without live indicators.
DefaultSetup == [ spread |-> 5, adx |-> 240, rvol |-> 150, rsi |-> 550, strength |-> 12,
                  sector |-> "BULLISH", market |-> "BULLISH" ]

InFunnel(live) ==
  /\ live.spread <= 35
  /\ live.market # "BEARISH" /\ live.sector # "BEARISH"
  /\ live.strength >= 0
  /\ live.adx <= 400 /\ live.rsi <= 720

\* The first lesson of the symbol counts, whatever strategy it names.
LessonsOf(s) == {i \in DOMAIN lessons : lessons[i].symbol = s}
FirstLesson(s) == lessons[Min(LessonsOf(s))]

\* Fresh evidence lifts the penalty; the rest of the seven points the funnel has
\* checked already.
Overrides(live) == InFunnel(live) /\ live.adx >= 300 /\ live.rvol >= 250

\* In tenths of a point.
Adjustment(s, live) ==
  IF LessonsOf(s) = {} \/ Overrides(live) THEN 0
  ELSE -10 * FirstLesson(s).cause.penalty

NoEvidence == [source |-> "NONE", trades |-> 0, win |-> 0, ratio |-> 0, drawdown |-> 0]

FinalScore(e, adjustment) ==
  (4 * e.win) \div 10 + (3 * e.ratio) \div 2 - e.drawdown \div 5 + 400 + adjustment

BacktestValid(e) ==
  /\ e.source \in {"ALGOVERSE", "LOCAL_FALLBACK"}
  /\ e.trades >= 30 \/ e.source = "ALGOVERSE"

\* Mutant: the score alone decides.
TradesByScore(s, e, live) == BacktestValid(e) /\ FinalScore(e, Adjustment(s, live)) >= 400

IsTrade(s, e, live) ==
  LET overridden == LessonsOf(s) # {} /\ Overrides(live) IN
  /\ BacktestValid(e)
  /\ FinalScore(e, Adjustment(s, live)) >= 400 \/ overridden
  /\ Adjustment(s, live) >= 0 \/ overridden

Evaluation(s, n, live) ==
  LET e == evidence[s][n] IN
  [ symbol |-> s, template |-> n, score |-> FinalScore(e, Adjustment(s, live)),
    win |-> e.win, trade |-> IsTrade(s, e, live), live |-> live, taught |-> s \in taught ]

\* Mutant: the score before the verdict.
BetterByScore(a, b) == a.score > b.score \/ (a.score = b.score /\ a.template < b.template)

\* The order of the three evaluations of a symbol; the sort is stable.
Better(a, b) ==
  \/ a.trade /\ ~b.trade
  \/ a.trade = b.trade /\ \/ a.score > b.score
                          \/ a.score = b.score /\ a.win > b.win
                          \/ a.score = b.score /\ a.win = b.win /\ a.template < b.template

Locked(s, live) ==
  LET all == {Evaluation(s, n, live) : n \in DOMAIN Templates} IN
  CHOOSE a \in all : \A b \in all \ {a} : Better(a, b)

\* The shortlist in the order of the universe: the final sort does not change
\* which rows are saved.
Shortlist(symbols, live) ==
  LET passing == Picked(symbols, {i \in DOMAIN symbols : InFunnel(live[symbols[i]])}) IN
  [i \in DOMAIN passing |-> Locked(passing[i], live[passing[i]])]

-------------------------------------------------------------------------------
(* The commits.                                                                *)

Do(what, x) == [do |-> what, of |-> x]

SavePlanCommits(rows) ==
  << Do("wipePlan", 0) >> \o [i \in DOMAIN rows |-> Do("plan", rows[i])]

\* precompute_upstox_strategy_map: the strategy goes by the name of the symbol, the
\* numbers come from the bars or, without any, are made up.
MapRow(s) == [symbol |-> s, measured |-> s \in Recorded]

\* generate_daily_watchlist: the map is rebuilt for the whole universe first.
WatchlistCommits ==
  << Do("wipeMap", 0) >> \o [i \in DOMAIN Symbols |-> Do("map", MapRow(Symbols[i]))]
  \o << Do("wipeWatchlist", 0) >> \o [i \in DOMAIN Symbols |-> Do("watch", Symbols[i])]

PlanCommit ==
  /\ agenda # << >>
  /\ LET c == Head(agenda) IN
       /\ lessons'     = IF c.do = "lesson" THEN Append(lessons, c.of) ELSE lessons
       /\ register'    = IF c.do = "incident" THEN Appended(register, c.of) ELSE register
       /\ strategyMap' = IF c.do = "wipeMap" THEN << >>
                         ELSE IF c.do = "map" THEN Append(strategyMap, c.of) ELSE strategyMap
       /\ watchlist'   = IF c.do = "wipeWatchlist" THEN << >>
                         ELSE IF c.do = "watch" THEN Append(watchlist, c.of) ELSE watchlist
       /\ plan'        = IF c.do = "wipePlan" THEN {}
                         ELSE IF c.do = "plan" THEN plan \cup {c.of} ELSE plan
       /\ taught'      = IF c.do = "reviewed" THEN taught \cup c.of ELSE taught
  /\ agenda' = Tail(agenda)
  /\ UNCHANGED << day, trades, evidence, reviews, planCrashes >>

PlanIdle == agenda = << >>

Start(commits) ==
  /\ PlanIdle
  /\ agenda' = commits
  /\ UNCHANGED << day, trades, lessons, register, evidence, strategyMap, watchlist, plan,
                  taught, planCrashes >>

-------------------------------------------------------------------------------
(* The operations.                                                             *)

SymptomOfLoss(total) == << day, total, Len(trades) >>

RunEodForensicReview ==
  /\ reviews < MaxReviews
  /\ reviews' = reviews + 1
  /\ LET bad   == Picked(trades, {i \in DOMAIN trades : Teaches(trades[i])})
         total == SumFunctionOnSet([i \in DOMAIN trades |-> trades[i].pnl], DOMAIN trades) IN
       Start([i \in DOMAIN bad |-> Do("lesson", Lesson(bad[i]))]
             \o (IF total <= -1000 THEN << Do("incident", SymptomOfLoss(total)) >> ELSE << >>)
             \o << Do("reviewed", {t.symbol : t \in {u \in ToSet(trades) : u.pnl < 0}}) >>)

GenerateDailyWatchlist == Start(WatchlistCommits) /\ UNCHANGED reviews

\* A watchlist with any row is taken as it is.
ConfirmOpeningWatchlist ==
  /\ LET symbols == IF watchlist = << >> THEN Symbols ELSE watchlist IN
       Start((IF watchlist = << >> THEN WatchlistCommits ELSE << >>)
             \o SavePlanCommits(Shortlist(symbols, [s \in Stocks |-> DefaultSetup])))
  /\ UNCHANGED reviews

\* The shortlist of the universe with live indicators, saved as the plan.
PlanUniverse(live) ==
  Start(SavePlanCommits(Shortlist(Symbols, live))) /\ UNCHANGED reviews

Surroundings == << day, agenda, lessons, strategyMap, watchlist, plan, taught, reviews, planCrashes >>

\* A trade of the day is closed.
CloseTrade(t) ==
  /\ PlanIdle /\ Len(trades) < MaxTrades
  /\ trades' = Append(trades, t)
  /\ UNCHANGED << Surroundings, register, evidence >>

\* A row of evidence for a symbol and a template; the repository's tests write it.
RecordEvidence(e) ==
  /\ PlanIdle
  /\ evidence' = [evidence EXCEPT ![e.symbol][e.template] = e.row]
  /\ UNCHANGED << Surroundings, register, trades >>

EmptyEvidence == [s \in Stocks |-> [n \in DOMAIN Templates |-> NoEvidence]]

\* The candidates' pipeline saves its pool: its DELETE takes this evidence along.
SaveCandidatesToStore ==
  /\ PlanIdle
  /\ evidence' = EmptyEvidence
  /\ UNCHANGED << Surroundings, register, trades >>

\* A human marks an incident as fixed.
ResolveIncident(i) ==
  /\ PlanIdle /\ ~register.torn
  /\ register.incidents[i].status = "OPEN"
  /\ register' = [register EXCEPT !.incidents[i].status = "RESOLVED"]
  /\ UNCHANGED << Surroundings, evidence, trades >>

NextDay ==
  /\ PlanIdle /\ day < MaxDays
  /\ day' = day + 1
  /\ trades' = << >> /\ watchlist' = << >> /\ plan' = {}
  /\ UNCHANGED << lessons, register, evidence, strategyMap, agenda, taught, reviews, planCrashes >>

\* The file of the register is rewritten in place: a crash may tear it.
PlanCrash ==
  /\ agenda # << >> /\ planCrashes < MaxPlanCrashes
  /\ \/ UNCHANGED register
     \/ Head(agenda).do = "incident" /\ register' = [register EXCEPT !.torn = TRUE]
  /\ agenda' = << >>
  /\ planCrashes' = planCrashes + 1
  /\ UNCHANGED << day, trades, lessons, evidence, strategyMap, watchlist, plan, taught, reviews >>

-------------------------------------------------------------------------------
PlanInit ==
  /\ day = 1 /\ trades = << >> /\ lessons = << >> /\ register = [torn |-> FALSE, incidents |-> << >>]
  /\ evidence = EmptyEvidence
  /\ strategyMap = << >> /\ watchlist = << >> /\ plan = {} /\ agenda = << >>
  /\ taught = {} /\ reviews = 0 /\ planCrashes = 0

PlanNext ==
  \/ PlanCommit
  \/ RunEodForensicReview
  \/ GenerateDailyWatchlist
  \/ ConfirmOpeningWatchlist
  \/ \E live \in Mornings : PlanUniverse(live)
  \/ \E t \in Losses : CloseTrade(t)
  \/ \E e \in Evidences : RecordEvidence(e)
  \/ SaveCandidatesToStore
  \/ \E i \in DOMAIN register.incidents : ResolveIncident(i)
  \/ NextDay
  \/ PlanCrash

PlanSpec == PlanInit /\ [][PlanNext]_planVars

-------------------------------------------------------------------------------
(* Properties.                                                                 *)

\* What a completed review has seen lose is not traded again on the old evidence:
\* a symbol with a loss in any reviewed day is TRADE in a later plan only on a
\* fresh breakout, also when an earlier review of that day died halfway
\* (run_eod_forensic_review, then the lessons in generate_premarket_shortlist).
LessonsAreHeeded ==
  \A r \in plan : r.trade /\ r.taught => r.live.adx >= 300 /\ r.live.rvol >= 250

\* A symbol for which some template may be traded is never locked to one that may
\* not, and among those that may it is locked to one of the highest score,
\* whatever the evidence and the lessons have become.
TradableTemplateIsLocked ==
  \A morning \in Mornings, s \in Stocks : InFunnel(morning[s]) =>
    LET live == morning[s]  locked == Locked(s, live) IN
    \A n \in DOMAIN Templates : IsTrade(s, evidence[s][n], live) =>
      /\ locked.trade
      /\ FinalScore(evidence[s][n], Adjustment(s, live)) <= locked.score

\* However often a day is reviewed, and whatever has been resolved in between, no
\* identifier is given twice and no open incident is entered twice.
IncidentsAreUnique ==
  LET all == register.incidents IN
  \A i, j \in DOMAIN all : i # j =>
    /\ all[i].id # all[j].id
    /\ ~(/\ all[i].symptom = all[j].symptom
         /\ all[i].status = "OPEN" /\ all[j].status = "OPEN")

===============================================================================
