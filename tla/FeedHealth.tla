----------------------------- MODULE FeedHealth ------------------------------
(***************************************************************************)
(* The quote feed of the paper worker and what it tells the rest of the    *)
(* system: the tick writer of upstox_collector.py and the minute_bars it   *)
(* fills, the DegradedModeManager that blocks entries while a dependency   *)
(* fails, and the incidents that telegram_notify.py announces and keeps in *)
(* a file.  Full scans refresh the quotes through a writer of their own    *)
(* (unified_trader.refresh_market_quotes) and the process may die.         *)
(*                                                                         *)
(* A step is one use of the network, the database, the manager's lock or   *)
(* the incident file.  A bar is the moment it was received; prices are     *)
(* left out.                                                               *)
(***************************************************************************)
EXTENDS Integers, Sequences, FiniteSets

CONSTANTS
  Instruments,
  Scans,        \* threads that run full scans
  OpenHours,    \* ticks of the clock at which the market is open
  Freeze,       \* age of the last quote, in ticks, that check_health tolerates
  MaxNow,       \* bound: the clock stops here
  MaxBoots      \* bound: how often the process is started

Feed == "feed"
Threads == Scans \cup {Feed}
Deps == {"DATABASE", "AUTH", "MARKET_DATA"}

ASSUME FeedAssumption ==
  /\ Feed \notin Scans /\ OpenHours \subseteq Nat /\ Freeze \in Nat
  /\ MaxNow \in Nat \ {0} /\ MaxBoots \in Nat \ {0}

VARIABLES
  now, boots,
  at,         \* where each thread is
  polled,     \* the feed has polled in this tick of the clock
  pending,    \* UpstoxTickWriter.pending of the feed
  flight,     \* rows each thread has taken from its writer
  bars,       \* minute_bars
  ticked,     \* quote_ticks or candle_ticks of the feed's writer is positive
  lastTick,   \* last_quote_monotonic of the feed's writer
  failures,   \* _active_failures; _degraded is set exactly while there are some
  todo,       \* reports the feed has still to make in this iteration
  active,     \* _ACTIVE_INCIDENTS: the alert each dependency is at
  saved,      \* active_incidents in the notification state file
  told,       \* the last alert sent for each dependency
  flawed      \* the state file has failed, or a crash has cut a notification

clocks == <<now, boots>>
writer == <<pending, ticked, lastTick>>
incidents == <<active, saved, told, flawed>>
feedVars == <<clocks, at, polled, writer, flight, bars, failures, todo, incidents>>

-----------------------------------------------------------------------------
(* Bars *)

\* Two ticks of the clock make a minute; 0 is "no bar".
Minute(n) == n \div 2
Keys == Instruments \X (0..Minute(MaxNow))
NoRows == [k \in Keys |-> 0]
Over(rows, base) == [k \in Keys |-> IF rows[k] # 0 THEN rows[k] ELSE base[k]]
Received(S) == [k \in Keys |-> IF k[1] \in S /\ k[2] = Minute(now) THEN now ELSE 0]

NoIncidents == [d \in Deps |-> "NONE"]

Go(t, stage) == at' = [at EXCEPT ![t] = stage]
Taking(t, rows) == flight' = [flight EXCEPT ![t] = rows]

MarketOpen == now \in OpenHours
Healthy == ticked /\ (MarketOpen => now - lastTick <= Freeze)

\* Each report says what failed or recovered and where the feed goes on after
\* the last one.
Report(kind, dep, back) == [kind |-> kind, dep |-> dep, back |-> back]
Fails(dep, back) == todo' = <<Report("FAILURE", dep, back)>>
Recovers == todo' = <<Report("RECOVERED", "DATABASE", "idle"),
                      Report("RECOVERED", "AUTH", "idle"),
                      Report("RECOVERED", "MARKET_DATA", "idle")>>

-----------------------------------------------------------------------------
(* collect_upstox *)

\* Instruments are resolved and a new writer is made; run_worker reports an
\* error and tries again.
Connect ==
  /\ at[Feed] = "start"
  /\ pending' = NoRows /\ ticked' = FALSE /\ lastTick' = now
  /\ \/ Go(Feed, "idle") /\ UNCHANGED todo
     \/ Go(Feed, "report") /\ Fails("MARKET_DATA", "start")
  /\ UNCHANGED <<clocks, polled, flight, bars, failures, incidents>>

\* fetch_upstox_quotes_rest catches whatever goes wrong, HTTP errors included:
\* an outage is an empty answer, and nothing is done about one.
PollNothing ==
  /\ at[Feed] = "idle"
  /\ polled' = TRUE
  /\ UNCHANGED <<clocks, at, writer, flight, bars, failures, todo, incidents>>

\* Quotes without a usable price leave no bar and no tick.
PollQuotes(S) ==
  /\ at[Feed] = "idle"
  /\ polled' = TRUE
  /\ pending' = Over(Received(S), pending)
  /\ IF S = {} THEN UNCHANGED <<ticked, lastTick>> ELSE ticked' = TRUE /\ lastTick' = now
  /\ Go(Feed, "flush")
  /\ UNCHANGED <<clocks, flight, bars, failures, todo, incidents>>

\* Mutant of Flush: the writer keeps the rows it hands out.
FlushKeeps ==
  /\ at[Feed] = "flush"
  /\ Taking(Feed, pending)
  /\ Go(Feed, IF pending = NoRows THEN "health" ELSE "store")
  /\ UNCHANGED <<clocks, polled, writer, bars, failures, todo, incidents>>

Flush ==
  /\ at[Feed] = "flush"
  /\ Taking(Feed, pending)
  /\ pending' = NoRows
  /\ Go(Feed, IF pending = NoRows THEN "health" ELSE "store")
  /\ UNCHANGED <<clocks, polled, ticked, lastTick, bars, failures, todo, incidents>>

\* INSERT OR REPLACE, whatever the table holds.
UpsertBars(t) == bars' = Over(flight[t], bars)

\* After a flush the callback runs; like the flush it may meet a database error.
StoreBars ==
  /\ at[Feed] = "store"
  /\ UpsertBars(Feed) /\ Taking(Feed, NoRows)
  /\ \/ Go(Feed, "health") /\ UNCHANGED todo
     \/ Go(Feed, "report") /\ Fails("DATABASE", "idle")
  /\ UNCHANGED <<clocks, polled, writer, failures, incidents>>

\* Mutant of Requeued: rows that could not be written are forgotten.
DropRows == pending
Requeued == Over(flight[Feed], pending)

StoreFails ==
  /\ at[Feed] = "store"
  /\ pending' = Requeued /\ Taking(Feed, NoRows)
  /\ Go(Feed, "report") /\ Fails("DATABASE", "idle")
  /\ UNCHANGED <<clocks, polled, ticked, lastTick, bars, failures, incidents>>

CheckHealth ==
  /\ at[Feed] = "health"
  /\ IF Healthy THEN Recovers ELSE Fails("MARKET_DATA", "idle")
  /\ Go(Feed, "report")
  /\ UNCHANGED <<clocks, polled, writer, flight, bars, failures, incidents>>

-----------------------------------------------------------------------------
(* DegradedModeManager and notify_incident_event *)

Current == Head(todo)
NextReport ==
  /\ todo' = Tail(todo)
  /\ Go(Feed, IF Len(todo) = 1 THEN Current.back ELSE "report")

\* Mutant of Failing: degraded mode itself, not the dependency, is looked at.
Degraded(dep) == failures # {}
Failing(dep) == dep \in failures

\* Only a transition is notified.
ReportFailure ==
  /\ at[Feed] = "report" /\ Current.kind = "FAILURE"
  /\ failures' = failures \cup {Current.dep}
  /\ IF Failing(Current.dep) THEN NextReport ELSE Go(Feed, "notify") /\ UNCHANGED todo
  /\ UNCHANGED <<clocks, polled, writer, flight, bars, incidents>>

ReportRecovery ==
  /\ at[Feed] = "report" /\ Current.kind = "RECOVERED"
  /\ failures' = failures \ {Current.dep}
  /\ IF Failing(Current.dep) THEN Go(Feed, "notify") /\ UNCHANGED todo ELSE NextReport
  /\ UNCHANGED <<clocks, polled, writer, flight, bars, incidents>>

Loaded == [d \in Deps |-> IF saved[d] = "NONE" THEN active[d] ELSE saved[d]]

\* Bound: the state file fails once.
Faults(outcomes) == IF flawed THEN {} ELSE outcomes

\* The file overrides the memory; it is read without a lock, so another
\* message being recorded may make it unreadable, and writing it may fail
\* before or after the old content is gone.
MarkIncident ==
  /\ at[Feed] = "notify"
  /\ \E known \in {Loaded} \cup Faults({active}) :
       IF (known[Current.dep] = "FAILURE") = (Current.kind = "FAILURE")
       THEN /\ active' = known
            /\ flawed' = (flawed \/ known # Loaded)
            /\ NextReport /\ UNCHANGED saved
       ELSE /\ active' = [known EXCEPT ![Current.dep] = Current.kind]
            /\ saved' \in {active'} \cup Faults({saved, NoIncidents})
            /\ flawed' = (flawed \/ known # Loaded \/ saved' # active')
            /\ Go(Feed, "send") /\ UNCHANGED todo
  /\ UNCHANGED <<clocks, polled, writer, flight, bars, failures, told>>

\* Whether Telegram accepts the message is ignored.
SendAlert ==
  /\ at[Feed] = "send"
  /\ told' = [told EXCEPT ![Current.dep] = Current.kind]
  /\ NextReport
  /\ UNCHANGED <<clocks, polled, writer, flight, bars, failures, active, saved, flawed>>

-----------------------------------------------------------------------------
(* refresh_market_quotes in a full scan *)

RefreshQuotes(s, S) ==
  /\ at[s] = "idle"
  /\ Taking(s, Received(S))
  /\ Go(s, IF S = {} THEN "reset" ELSE "store")
  /\ UNCHANGED <<clocks, polled, writer, bars, failures, todo, incidents>>

\* A database error ends the refresh; its writer and rows are dropped.
RefreshStores(s) ==
  /\ at[s] = "store" /\ s # Feed
  /\ Taking(s, NoRows)
  /\ \/ UpsertBars(s) /\ Go(s, "reset")
     \/ UNCHANGED bars /\ Go(s, "idle")
  /\ UNCHANGED <<clocks, polled, writer, failures, todo, incidents>>

\* DEGRADED_MANAGER.reset() clears every failure and announces nothing.
ResetDegraded(s) ==
  /\ at[s] = "reset"
  /\ failures' = {}
  /\ Go(s, "idle")
  /\ UNCHANGED <<clocks, polled, writer, flight, bars, todo, incidents>>

-----------------------------------------------------------------------------
(* The clock and the process *)

\* Several polls fit between two ticks, so an idle feed has polled.
Tick ==
  /\ now < MaxNow /\ (at[Feed] = "idle" => polled)
  /\ now' = now + 1 /\ polled' = FALSE
  /\ UNCHANGED <<boots, at, writer, flight, bars, failures, todo, incidents>>

FeedCrash ==
  /\ boots < MaxBoots
  /\ boots' = boots + 1
  /\ at' = [t \in Threads |-> IF t = Feed THEN "start" ELSE "idle"]
  /\ polled' = FALSE /\ pending' = NoRows /\ ticked' = FALSE /\ lastTick' = now
  /\ flight' = [t \in Threads |-> NoRows]
  /\ failures' = {} /\ todo' = <<>> /\ active' = NoIncidents
  /\ flawed' = (flawed \/ at[Feed] = "send")
  /\ UNCHANGED <<now, bars, saved, told>>

-----------------------------------------------------------------------------
FeedInit ==
  /\ now = 1 /\ boots = 1
  /\ at = [t \in Threads |-> IF t = Feed THEN "start" ELSE "idle"]
  /\ polled = FALSE /\ pending = NoRows /\ ticked = FALSE /\ lastTick = now
  /\ flight = [t \in Threads |-> NoRows] /\ bars = NoRows
  /\ failures = {} /\ todo = <<>>
  /\ active = NoIncidents /\ saved = NoIncidents /\ told = NoIncidents /\ flawed = FALSE

Reporting == ReportFailure \/ ReportRecovery \/ MarkIncident \/ SendAlert

FeedNext ==
  \/ Connect \/ PollNothing \/ Flush \/ StoreBars \/ StoreFails \/ CheckHealth \/ Reporting
  \/ \E S \in SUBSET Instruments : PollQuotes(S) \/ \E s \in Scans : RefreshQuotes(s, S)
  \/ \E s \in Scans : RefreshStores(s) \/ ResetDegraded(s)
  \/ Tick \/ FeedCrash

FeedSpec == FeedInit /\ [][FeedNext]_feedVars

Connected == Connect /\ at'[Feed] = "idle"
QuotesArrive == \E S \in SUBSET Instruments : S # {} /\ PollQuotes(S)
BarsAccepted == StoreBars /\ at'[Feed] = "health"

\* The feed thread keeps running.  What it depends on comes back in the end: it
\* is not down at every attempt from some moment on.
FeedFairSpec ==
  /\ FeedSpec
  /\ WF_feedVars(Flush) /\ WF_feedVars(CheckHealth) /\ WF_feedVars(Reporting)
  /\ SF_feedVars(Connected) /\ SF_feedVars(QuotesArrive) /\ SF_feedVars(BarsAccepted)

-----------------------------------------------------------------------------
(* Properties *)

\* A bar the feed has received stays in its hands until a newer one takes its
\* place or the table holds it: a failed write loses nothing, unless the process
\* dies.
BarsAreHandedOver ==
  [][boots' = boots => \A k \in Keys : \A bar \in {pending[k], flight[Feed][k]} \ {0} :
       bar \in {pending'[k], flight'[Feed][k], bars'[k]} \/ pending'[k] > bar]_feedVars

\* A dependency that the manager knows to fail has been announced, through scans
\* that reset the manager and processes that start with an empty one.
FailuresAreAnnounced ==
  at[Feed] \in {"start", "idle"} /\ ~flawed => \A d \in failures : told[d] = "FAILURE"

\* Once the database accepts rows again every bar received leaves the feed.
BarsLeaveFeed ==
  \A k \in Keys : pending[k] # 0 \/ flight[Feed][k] # 0 ~> pending[k] = 0 /\ flight[Feed][k] = 0

=============================================================================
