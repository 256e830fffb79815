------------------------------ MODULE DailyIntel ------------------------------
(* The daily intelligence job (intel/run.py): under one file lock and in one    *)
(* database transaction a morning run scores the earlier picks, marks the       *)
(* categories without an edge and logs the picks or the reasons of the day; a   *)
(* second job prices the option spread.  Prices are abstracted to what a bar    *)
(* does to a pick, signals to what the mood allows.                             *)
EXTENDS Integers, FiniteSets, FiniteSetsExt

CONSTANTS
  Categories,    \* of config.CATEGORIES
  Kinds,         \* what a bar may do to a pick, by category
  Moods,         \* market moods, each with the categories that have a candidate
  Calls,         \* analyst calls: analyst, symbol, side and target
  Sessions,      \* days that are sessions
  MaxDay,        \* bound: days
  MaxReruns,     \* bound: jobs started a second time on a day
  MaxFailures,   \* bound: jobs that raise or die
  MaxHold,       \* sessions a pick is held at most, by category
  History,       \* days of bars fetched
  MinExpiry,     \* OPTIONS_MIN_DAYS_TO_EXPIRY
  KillMin,       \* KILL_MIN_CLOSED
  Republish      \* days within which a call counts once

\* market_mood: the sum of trend, volatility, breadth and flows, of which picks
\* only see the state and the long trend.
MarketMood == [state : {"RISK_ON", "NEUTRAL", "RISK_OFF"}, uptrend : BOOLEAN,
               macro : BOOLEAN, firstOfMonth : BOOLEAN, candidates : SUBSET Categories]

ASSUME DailyIntelAssumption ==
  /\ {MaxDay, MaxReruns, MaxFailures, History, MinExpiry, KillMin, Republish} \subseteq Nat
  /\ Sessions \subseteq 1..MaxDay
  /\ Moods \subseteq MarketMood
  /\ \A cat \in Categories :
       Kinds[cat] \subseteq {"absent", "above", "quiet", "rise", "stop", "target", "both"}

VARIABLES
  db,            \* committed: runs and reasons of today, picks, calls, failed categories
  tx,            \* what the running job sees and would commit
  job,           \* the job that holds intel.lock, or "idle"
  phase,         \* how far it has come
  started,       \* the clock it read when it started
  day, clock,    \* "early" before 09:15, "window" from 09:15 to 10:00
  reruns, failures

vars == << db, tx, job, phase, started, day, clock, reruns, failures >>
work == << job, phase, started >>

Jobs == {"morning", "options-fill"}
Sum(S) == MapThenSumSet(LAMBDA p : p.net, S)

-------------------------------------------------------------------------------
(* scoring.py.                                                                  *)

PrevSession == Max({d \in Sessions : d < day} \cup {0})

\* The bars fetched for a pick: from its day on, not older than the history.
Bars(p) ==
  {d \in DOMAIN p.bars : d <= PrevSession /\ d >= PrevSession - History /\ p.bars[d] # "absent"}

Held(p) == {d \in Bars(p) : Cardinality({e \in Bars(p) : e <= d}) <= MaxHold[p.cat]}

\* _walk: the first bar that touches a level, the stop is assumed first; without
\* one the pick is sold at the last close it may be held to.
Hits(p) == {d \in Held(p) : p.bars[d] \in {"stop", "target", "both"}}

Walk(p) ==
  IF Hits(p) # {} THEN IF p.bars[Min(Hits(p))] = "target" THEN "gain" ELSE "loss"
  ELSE IF Cardinality(Held(p)) < MaxHold[p.cat] THEN "open"
  ELSE IF p.bars[Max(Held(p))] = "rise" THEN "gain" ELSE "loss"

Settle(p, status, net) == [p EXCEPT !.status = status, !.net = net]

Fill(p) == [p EXCEPT !.fill = p.day]

\* score_equity_pick.
ScoreEquityPick(p) ==
  IF Bars(p) = {} THEN p
  ELSE IF Min(Bars(p)) # p.day \/ p.bars[p.day] = "above" THEN Settle(p, "NOT_FILLED", 0)
  ELSE CASE Walk(p) = "open" -> Settle(Fill(p), "OPEN", 0)
         [] Walk(p) = "gain" -> Settle(Fill(p), "CLOSED", 1)
         [] Walk(p) = "loss" -> Settle(Fill(p), "CLOSED", -1)

\* score_etf: the holding ends where the next switch fills.
NextSwitch(p, picks) ==
  {q \in picks : q.cat = "ETF" /\ q.day > p.day /\ q.fill # 0}

ScoreEtf(p, picks) ==
  IF Bars(p) = {} THEN p
  ELSE IF Min(Bars(p)) # p.day THEN Settle(p, "NOT_FILLED", 0)
  ELSE IF NextSwitch(p, picks) = {} THEN Settle(Fill(p), "OPEN", 0)
  ELSE Settle(Fill(p), "CLOSED", IF p.bars[p.day] = "target" THEN 1 ELSE -1)

\* score_option_pick: settled by the index on the day of expiry.
ScoreOptionPick(p) ==
  IF p.expiry \in Bars(p)
  THEN Settle(p, "CLOSED", IF p.bars[p.expiry] = "target" THEN 1 ELSE -1)
  ELSE IF \E d \in Bars(p) : d > p.expiry THEN Settle(p, "CLOSED_UNSCORED", 0)
  ELSE p

\* score_open; a symbol whose candles could not be fetched stays as it is.
Scored(p, picks, fetched) ==
  IF p.status \notin {"PENDING", "OPEN"} \/ p.cat \notin fetched THEN p
  ELSE CASE p.cat = "OPTIONS" -> ScoreOptionPick(p)
         [] p.cat = "ETF" -> ScoreEtf(p, picks)
         [] OTHER -> ScoreEquityPick(p)

Closed(picks, cat) == {p \in picks : p.cat = cat /\ p.status = "CLOSED"}

\* kill_check.
NoEdge(picks, cat) ==
  Cardinality(Closed(picks, cat)) >= KillMin /\ Sum(Closed(picks, cat)) <= 0

\* Mutant: the scorecard of the kill rule is taken before the picks are scored.
FailedByOldScores(picks) == {cat \in Categories : NoEdge(db.picks, cat)}

FailedBy(picks) == {cat \in Categories : NoEdge(picks, cat)}

-------------------------------------------------------------------------------
(* signals.py: what each category picks under a mood, from the candidates that  *)
(* pass its filters.                                                            *)

EtfWanted(mood) ==
  IF mood.uptrend /\ mood.state # "RISK_OFF" THEN "NIFTYBEES" ELSE "LIQUIDBEES"

EtfHeld(picks) ==
  LET active == {p \in picks : p.cat = "ETF" /\ p.status \in {"PENDING", "OPEN"}} IN
  {p.symbol : p \in {q \in active : \A r \in active : r.day <= q.day}}

Wanted(cat, mood, picks) ==
  CASE cat = "INTRADAY" ->
         {s \in {"stock"} : cat \in mood.candidates /\ ~mood.macro /\ mood.state # "NEUTRAL"}
    [] cat = "SHORT_TERM" ->
         {s \in {"stock"} : cat \in mood.candidates /\ mood.state # "RISK_OFF"}
    [] cat = "LONG_TERM" ->
         {s \in {"stock"} : cat \in mood.candidates /\ mood.firstOfMonth /\ mood.uptrend}
    [] cat = "ETF" ->
         IF EtfHeld(picks) = {} THEN {EtfWanted(mood)}
         ELSE UNION {{EtfWanted(mood)} \ {held} : held \in EtfHeld(picks)}
    [] cat = "OPTIONS" -> {s \in {"NIFTY"} : mood.state # "NEUTRAL"}

NewPick(cat, symbol) ==
  [day |-> day, cat |-> cat, symbol |-> symbol, bars |-> << >>, fill |-> 0, expiry |-> 0,
   net |-> 0, status |-> IF cat = "OPTIONS" THEN "PENDING_FILL" ELSE "PENDING"]

SameKey(p, q) == p.day = q.day /\ p.cat = q.cat /\ p.symbol = q.symbol
Logged(p, picks) == \E q \in picks : SameKey(p, q)

\* insert_pick: a pick of the same day, category and symbol is left as it is.
InsertPicks(picks, new) == picks \cup {p \in new : ~Logged(p, picks)}

\* Mutant: only a call of the same day is known.
KnownToday(c, calls) == [call |-> c, day |-> day] \in calls

\* insert_call.  (The unique key of the table, which has the time of the article, can
\* refuse no more: articles older than the previous session are not read.)
Known(c, calls) == \E r \in calls : r.call = c /\ r.day >= day - Republish

InsertCalls(calls, batch) == calls \cup {[call |-> c, day |-> day] : c \in {b \in batch : ~Known(b, calls)}}

-------------------------------------------------------------------------------
(* main: the lock, the RUNNING row and the end of a job.                        *)

StartJob(kind) ==
  /\ job = "idle"
  /\ \/ db.runs[kind] = "none" /\ UNCHANGED reruns
     \/ db.runs[kind] # "none" /\ reruns < MaxReruns /\ reruns' = reruns + 1
  /\ db' = [db EXCEPT !.runs[kind] = "RUNNING"]
  /\ tx' = db' /\ job' = kind /\ phase' = "begun" /\ started' = clock
  /\ UNCHANGED << day, clock, failures >>

Idle == job' = "idle" /\ phase' = "none" /\ started' = "none"

\* The status is written into the transaction of the job, and that is committed.
Finish(ledger, status) ==
  /\ db' = [ledger EXCEPT !.runs[job] = status]
  /\ tx' = db' /\ Idle
  /\ UNCHANGED << day, clock, reruns, failures >>

\* load_calendar refuses, or a morning on a holiday.
NoSession ==
  /\ phase = "begun"
  /\ \/ Finish(tx, "BLOCKED")
     \/ job = "morning" /\ day \notin Sessions /\ Finish(tx, "COMPLETE")

\* The candles that arrive: those of the index, which "OPTIONS" stands for, then
\* those of the stocks; without the index no other is asked for.
Fetches == {F \in SUBSET (Categories \cup {"OPTIONS"}) : F # {} => "OPTIONS" \in F}

ScoreOpen ==
  /\ job = "morning" /\ phase = "begun" /\ day \in Sessions
  /\ \E fetched \in Fetches :
       LET scored == {Scored(p, tx.picks, fetched) : p \in tx.picks} IN
       /\ tx' = [tx EXCEPT !.picks = scored, !.failed = @ \cup FailedBy(scored)]
       /\ phase' = IF fetched = {} THEN "no index" ELSE "scored"
  /\ UNCHANGED << db, job, started, day, clock, reruns, failures >>

\* Mutant: a category that has failed is passed over in silence.
ReasonsOfLiving(cats) == tx.noTrade \cup (cats \ tx.failed)

\* The reasons of the day; the first reason of a category stays.
Reasons(cats) == tx.noTrade \cup cats

Entered(mood) ==
  UNION {{NewPick(cat, s) : s \in Wanted(cat, mood, tx.picks)} : cat \in Categories \ tx.failed}

Scoring == job = "morning" /\ phase \in {"scored", "no index"}

AfterOpen ==
  /\ Scoring /\ started # "early"
  /\ Finish([tx EXCEPT !.noTrade = Reasons(Categories)], "COMPLETE")

DataStale ==
  /\ Scoring /\ started = "early"
  /\ Finish([tx EXCEPT !.noTrade = Reasons(Categories)], "BLOCKED")

\* A feed or the FII figure may fail as well.
LogPicks ==
  /\ Scoring /\ started = "early" /\ phase # "no index"
  /\ \E new \in {Entered(mood) : mood \in Moods}, batch \in SUBSET Calls :
       Finish([tx EXCEPT !.picks = InsertPicks(@, new),
                         !.calls = InsertCalls(@, batch),
                         !.noTrade = Reasons(Categories \ {p.cat : p \in new})], "COMPLETE")

\* options_fill.
ToFill == {p \in tx.picks : p.cat = "OPTIONS" /\ p.day = day /\ p.status = "PENDING_FILL"}

Eligible == {d \in day..MaxDay : Cardinality({e \in Sessions : e > day /\ e <= d}) >= MinExpiry}

With(p, q) == [tx EXCEPT !.picks = (@ \ {p}) \cup {q}]

OptionsFill ==
  /\ job = "options-fill"
  /\ \/ ToFill = {} /\ Finish(tx, "COMPLETE")
     \/ \E p \in ToFill :
          \/ started # "window" /\ Finish(With(p, Settle(p, "NOT_FILLED", 0)), "BLOCKED")
          \/ started = "window" /\ Finish(With(p, Settle(p, "NOT_FILLED", 0)), "COMPLETE")
          \/ /\ started = "window"
             /\ \E d \in Eligible :
                  Finish(With(p, [p EXCEPT !.status = "OPEN", !.fill = day, !.expiry = d]),
                         "COMPLETE")

\* Mutant: what was written before the exception is committed with the status.
KeptOnError == tx

RolledBack == db

Raise ==
  /\ job # "idle" /\ failures < MaxFailures
  /\ failures' = failures + 1
  /\ db' = [RolledBack EXCEPT !.runs[job] = "ERROR"]
  /\ tx' = db' /\ Idle
  /\ UNCHANGED << day, clock, reruns >>

\* The process ends, or systemd stops it after its 20 minutes: the row stays RUNNING.
Crash ==
  /\ job # "idle" /\ failures < MaxFailures
  /\ failures' = failures + 1
  /\ tx' = db /\ Idle
  /\ UNCHANGED << db, day, clock, reruns >>

-------------------------------------------------------------------------------
(* Time and the market.                                                         *)

\* A job reads the clock once, so that it may stand still while one runs.  After 10:00
\* a morning does what it does in the window, and a fill what it does before it.
ClockPasses ==
  /\ clock = "early" /\ job = "idle"
  /\ clock' = "window"
  /\ UNCHANGED << db, tx, work, day, reruns, failures >>

Active(p) == p.status \in {"PENDING", "OPEN"}

\* What the bar of today may be to a pick: only those of its holding period, for the
\* spread only the close of the index on the day of expiry, can change its result.
KindsFor(p) ==
  IF IF p.cat = "OPTIONS" THEN day = p.expiry ELSE Cardinality(DOMAIN p.bars) < MaxHold[p.cat]
  THEN Kinds[p.cat] ELSE {"quiet"}

AnyKind == UNION {Kinds[cat] : cat \in Categories} \cup {"quiet"}

\* Every pick still to be scored gets the bar of the session that ends.
WithBars(picks, kindOf) ==
  {IF ~Active(p) THEN [p EXCEPT !.bars = << >>]
   ELSE IF day \notin Sessions THEN p
   ELSE [p EXCEPT !.bars =
           [d \in DOMAIN @ \cup {day} |-> IF d = day THEN kindOf[p] ELSE @[d]]] : p \in picks}

NextDay ==
  /\ job = "idle" /\ day < MaxDay
  /\ \E kindOf \in {f \in [{p \in db.picks : Active(p)} -> AnyKind] :
                      \A p \in DOMAIN f : f[p] \in KindsFor(p)} :
       db' = [db EXCEPT !.picks = WithBars(@, kindOf), !.noTrade = {},
                        !.runs = [k \in Jobs |-> "none"]]
  /\ tx' = db' /\ day' = day + 1 /\ clock' = "early"
  /\ UNCHANGED << work, reruns, failures >>

-------------------------------------------------------------------------------
Init ==
  /\ db = [runs |-> [k \in Jobs |-> "none"], picks |-> {}, noTrade |-> {}, calls |-> {},
           failed |-> {}]
  /\ tx = db
  /\ job = "idle" /\ phase = "none" /\ started = "none"
  /\ day = 1 /\ clock = "early" /\ reruns = 0 /\ failures = 0

Next ==
  \/ \E kind \in Jobs : StartJob(kind)
  \/ NoSession \/ ScoreOpen \/ AfterOpen \/ DataStale \/ LogPicks \/ OptionsFill
  \/ Raise \/ Crash \/ ClockPasses \/ NextDay

Spec == Init /\ [][Next]_vars

-------------------------------------------------------------------------------
(* Properties.                                                                  *)

Key(p) == [day |-> p.day, cat |-> p.cat, symbol |-> p.symbol, status |-> p.status, net |-> p.net]
Results(d) == << {Key(p) : p \in d.picks}, d.calls, d.failed, d.noTrade >>

\* Picks, results, calls, reasons and failed categories become visible together,
\* in the step that ends a run that did not fail: a job that raises or dies
\* half-way leaves the ledger as it was.
ResultsComeWithTheirRun ==
  [][day' = day /\ Results(db') # Results(db) =>
       \E k \in Jobs : db.runs[k] = "RUNNING"
                       /\ db'.runs[k] \in {"COMPLETE", "BLOCKED"}]_vars

\* No pick is logged in a category that has failed, nor in one whose closed picks,
\* those scored in the same run included, have no edge.
NoEntriesWithoutEdge ==
  [][\A p \in db'.picks :
       Logged(p, db.picks) \/ (p.cat \notin db'.failed /\ ~NoEdge(db'.picks, p.cat))]_vars

\* A call republished within the window of days counts once, whatever the date of
\* the article that repeats it and however often the morning is run.
CallsAreCountedOnce ==
  \A r, s \in db.calls : r.call = s.call /\ r # s => r.day > s.day + Republish \/ s.day > r.day + Republish

\* A morning that ends well leaves a pick or a reason in every category.
FinishedMorningsAreComplete ==
  db.runs["morning"] = "COMPLETE" /\ day \in Sessions =>
    \A cat \in Categories : cat \in db.noTrade \/ \E p \in db.picks : p.cat = cat /\ p.day = day

===============================================================================
