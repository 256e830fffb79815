---------------------------- MODULE DailyIntelProofs ----------------------------
(* The properties of DailyIntel for any categories, moods, calendars, calls and  *)
(* any number of reruns and failures.  The argument rests on what the job in     *)
(* progress sees: until its end it differs from the database only in scored      *)
(* picks and failed categories.                                                  *)
EXTENDS DailyIntel, TLAPS

Statuses == {"none", "RUNNING", "COMPLETE", "BLOCKED", "ERROR"}

IsLedger(l) ==
  l \in [runs : [Jobs -> Statuses], picks : {l.picks}, noTrade : {l.noTrade}, calls : {l.calls},
         failed : {l.failed}]

IsPick(p) ==
  p \in [day : {p.day}, cat : {p.cat}, symbol : {p.symbol}, bars : {p.bars}, fill : {p.fill},
         expiry : {p.expiry}, net : {p.net}, status : {p.status}]

\* The shape of what is kept.
Shape ==
  /\ day \in Nat
  /\ IsLedger(db) /\ IsLedger(tx)
  /\ \A p \in db.picks : IsPick(p)
  /\ \A p \in tx.picks : IsPick(p)
  /\ \A r \in db.calls : r.day \in Int

\* Nothing is seen but the database, unless a morning has scored the picks.
JobSeesDatabase ==
  /\ job \in Jobs \cup {"idle"}
  /\ job = "idle" => tx = db /\ phase = "none"
  /\ job # "idle" => db.runs[job] = "RUNNING"
  /\ phase = "begun" => tx = db
  /\ job = "options-fill" => phase = "begun"
  /\ tx.runs = db.runs /\ tx.calls = db.calls /\ tx.noTrade = db.noTrade

\* Scoring logs and drops no pick.
SamePicks ==
  /\ \A p \in tx.picks : Logged(p, db.picks)
  /\ \A p \in db.picks : Logged(p, tx.picks)

\* After the scores, whatever has no edge has failed.
KillRuleApplied ==
  phase \in {"scored", "no index"} =>
    \A cat \in Categories : NoEdge(tx.picks, cat) => cat \in tx.failed

IInv == Shape /\ JobSeesDatabase /\ SamePicks /\ KillRuleApplied

--------------------------------------------------------------------------------
(* Ledgers and picks.                                                            *)

\* A pick keeps its key through a settlement and a fill.
LEMMA SettleKeepsKey ==
  ASSUME NEW p, IsPick(p), NEW status, NEW net
  PROVE  IsPick(Settle(p, status, net)) /\ SameKey(Settle(p, status, net), p)
BY DEF IsPick, Settle, SameKey

LEMMA FillKeepsKey ==
  ASSUME NEW p, IsPick(p)
  PROVE  IsPick(Fill(p)) /\ SameKey(Fill(p), p)
BY DEF IsPick, Fill, SameKey

\* A key is logged in a set of picks that contains it.
LEMMA LoggedInOwn ==
  ASSUME NEW picks, NEW p \in picks
  PROVE  Logged(p, picks)
BY DEF Logged, SameKey

\* Scoring keeps keys, whatever candles have arrived.
LEMMA ScoredKeepsKey ==
  ASSUME NEW p, IsPick(p), NEW picks, NEW fetched
  PROVE  IsPick(Scored(p, picks, fetched)) /\ SameKey(Scored(p, picks, fetched), p)
<1> DEFINE Good(q) == IsPick(q) /\ SameKey(q, p)
<1>1. Good(p)
  BY DEF SameKey
<1>2. \A status, net : Good(Settle(p, status, net))
  BY SettleKeepsKey
<1>3. \A status, net : Good(Settle(Fill(p), status, net))
  <2> SUFFICES ASSUME NEW status, NEW net
               PROVE  Good(Settle(Fill(p), status, net))
    OBVIOUS
  <2>1. IsPick(Fill(p)) /\ SameKey(Fill(p), p)
    BY FillKeepsKey
  <2>2. IsPick(Settle(Fill(p), status, net)) /\ SameKey(Settle(Fill(p), status, net), Fill(p))
    BY <2>1, SettleKeepsKey
  <2> QED
    BY <2>1, <2>2 DEF SameKey
<1> HIDE DEF Good
<1>4. Good(ScoreOptionPick(p))
  BY <1>1, <1>2 DEF ScoreOptionPick
<1>5. Good(ScoreEtf(p, picks))
  BY <1>1, <1>2, <1>3 DEF ScoreEtf
<1>6. Good(ScoreEquityPick(p))
  <2>1. Walk(p) \in {"open", "gain", "loss"}
    BY DEF Walk
  <2> QED
    BY <1>1, <1>2, <1>3, <2>1 DEF ScoreEquityPick
<1>7. Good(Scored(p, picks, fetched))
  BY <1>1, <1>4, <1>5, <1>6 DEF Scored
<1> QED
  BY <1>7 DEF Good

\* The end of a job.
LEMMA FinishKeepsIInv ==
  ASSUME Shape, job \in Jobs, NEW ledger, NEW status \in Statuses, Finish(ledger, status),
         IsLedger(ledger), \A p \in ledger.picks : IsPick(p), \A r \in ledger.calls : r.day \in Int
  PROVE  IInv'
<1>1. /\ IsLedger(db') /\ db'.picks = ledger.picks /\ db'.calls = ledger.calls
  BY DEF Finish, IsLedger
<1>2. tx' = db' /\ job' = "idle" /\ phase' = "none" /\ day' = day
  BY DEF Finish, Idle
<1>3. Shape'
  BY <1>1, <1>2 DEF Shape
<1>4. JobSeesDatabase'
  BY <1>2 DEF JobSeesDatabase
<1>5. SamePicks'
  BY <1>2, LoggedInOwn DEF SamePicks
<1>6. KillRuleApplied'
  BY <1>2 DEF KillRuleApplied
<1> QED
  BY <1>3, <1>4, <1>5, <1>6 DEF IInv

\* What a finished job writes, and what it leaves of the other one.
LEMMA FinishWrites ==
  ASSUME job \in Jobs, NEW ledger, NEW status \in Statuses, Finish(ledger, status), IsLedger(ledger)
  PROVE  /\ db'.picks = ledger.picks /\ db'.calls = ledger.calls
         /\ db'.noTrade = ledger.noTrade /\ db'.failed = ledger.failed
         /\ db'.runs[job] = status
         /\ \A k \in Jobs \ {job} : db'.runs[k] = ledger.runs[k]
         /\ tx' = db' /\ job' = "idle" /\ phase' = "none" /\ day' = day
BY DEF Finish, Idle, IsLedger

--------------------------------------------------------------------------------
(* The ways a job ends, each with the ledger it leaves.                          *)

Ends(ledger, status) ==
  /\ job \in Jobs /\ IsLedger(ledger) /\ status \in Statuses
  /\ Finish(ledger, status)

\* A job without a session leaves what it found.
LEMMA NoSessionEnds ==
  ASSUME IInv, NoSession
  PROVE  \/ Ends(tx, "BLOCKED")
         \/ job = "morning" /\ day \notin Sessions /\ Ends(tx, "COMPLETE")
<1>1. job \in Jobs /\ IsLedger(tx)
  BY DEF IInv, Shape, JobSeesDatabase, NoSession
<1> QED
  BY <1>1 DEF NoSession, Ends, Statuses

\* A late or blocked morning leaves the scores and a reason for every category.
LEMMA ReasonsEnd ==
  ASSUME IInv, AfterOpen \/ DataStale
  PROVE  \E status \in {"COMPLETE", "BLOCKED"} :
           /\ job = "morning"
           /\ Ends([tx EXCEPT !.noTrade = Reasons(Categories)], status)
<1>1. IsLedger(tx) /\ job = "morning" /\ job \in Jobs
  BY DEF IInv, Shape, AfterOpen, DataStale, Scoring, Jobs
<1>2. IsLedger([tx EXCEPT !.noTrade = Reasons(Categories)])
  BY <1>1 DEF IsLedger
<1> QED
  BY <1>1, <1>2 DEF AfterOpen, DataStale, Ends, Statuses

\* The ledger of a morning that logs picks and calls.
Morning(new, batch) ==
  [tx EXCEPT !.picks = InsertPicks(@, new),
             !.calls = InsertCalls(@, batch),
             !.noTrade = Reasons(Categories \ {p.cat : p \in new})]

LEMMA LogPicksEnds ==
  ASSUME IInv, LogPicks
  PROVE  \E mood \in Moods, batch \in SUBSET Calls :
           /\ job = "morning" /\ phase = "scored"
           /\ Ends(Morning(Entered(mood), batch), "COMPLETE")
<1>1. IsLedger(tx) /\ job = "morning" /\ job \in Jobs /\ phase = "scored"
  BY DEF IInv, Shape, LogPicks, Scoring, Jobs
<1>2. \A new, batch : IsLedger(Morning(new, batch))
  BY <1>1 DEF IsLedger, Morning
<1> QED
  BY <1>1, <1>2 DEF LogPicks, Ends, Statuses, Morning

\* The ledger of an options fill: the pick of the day filled or not.
LEMMA OptionsFillEnds ==
  ASSUME IInv, OptionsFill
  PROVE  /\ job = "options-fill" /\ tx = db
         /\ \/ Ends(tx, "COMPLETE")
            \/ \E p \in tx.picks : \E q : \E status \in {"COMPLETE", "BLOCKED"} :
                 IsPick(q) /\ SameKey(q, p) /\ Ends(With(p, q), status)
<1>1. IsLedger(tx) /\ job = "options-fill" /\ job \in Jobs /\ tx = db
  BY DEF IInv, Shape, JobSeesDatabase, OptionsFill, Jobs
<1>2. \A p, q : IsLedger(With(p, q))
  BY <1>1 DEF IsLedger, With
<1>3. \A p \in ToFill : p \in tx.picks /\ IsPick(p)
  BY DEF ToFill, IInv, Shape
<1>4. \A p \in ToFill : \A d : LET q == [p EXCEPT !.status = "OPEN", !.fill = day, !.expiry = d]
                           IN  IsPick(q) /\ SameKey(q, p)
  BY <1>3 DEF IsPick, SameKey
<1>5. \A p \in ToFill : LET q == Settle(p, "NOT_FILLED", 0) IN IsPick(q) /\ SameKey(q, p)
  BY <1>3, SettleKeepsKey
<1>6. ASSUME NEW p \in ToFill, NEW q, NEW status \in {"COMPLETE", "BLOCKED"},
             IsPick(q), SameKey(q, p), Finish(With(p, q), status)
      PROVE  \E r \in tx.picks : \E s : \E st \in {"COMPLETE", "BLOCKED"} :
               IsPick(s) /\ SameKey(s, r) /\ Ends(With(r, s), st)
  <2>1. IsLedger(With(p, q)) /\ status \in Statuses /\ p \in tx.picks
    BY <1>2, <1>3 DEF Statuses
  <2>2. Ends(With(p, q), status)
    BY <1>1, <1>6, <2>1 DEF Ends
  <2> QED
    BY <1>6, <2>1, <2>2
<1>7. CASE ToFill = {} /\ Finish(tx, "COMPLETE")
  BY <1>1, <1>7 DEF Ends, Statuses
<1>8. CASE \E p \in ToFill : \/ Finish(With(p, Settle(p, "NOT_FILLED", 0)), "BLOCKED")
                             \/ Finish(With(p, Settle(p, "NOT_FILLED", 0)), "COMPLETE")
  BY <1>1, <1>5, <1>6, <1>8
<1>9. CASE \E p \in ToFill, d \in Eligible :
             Finish(With(p, [p EXCEPT !.status = "OPEN", !.fill = day, !.expiry = d]), "COMPLETE")
  BY <1>1, <1>4, <1>6, <1>9
<1> QED
  BY <1>7, <1>8, <1>9 DEF OptionsFill

--------------------------------------------------------------------------------
(* The invariant.                                                                *)

\* What the picks of a finished morning or fill keep.
LEMMA EndsKeepsIInv ==
  ASSUME IInv, NEW ledger, NEW status, Ends(ledger, status),
         \A p \in ledger.picks : IsPick(p), \A r \in ledger.calls : r.day \in Int
  PROVE  IInv'
BY FinishKeepsIInv DEF IInv, Ends

\* New picks are picks, of the day and of a category that has not failed.
LEMMA NewPicks ==
  ASSUME NEW mood, NEW p \in Entered(mood)
  PROVE  /\ IsPick(p) /\ p.day = day
         /\ p.cat \in Categories \ tx.failed
         /\ p.status \in {"PENDING", "PENDING_FILL"}
<1>1. PICK cat \in Categories \ tx.failed : \E s \in Wanted(cat, mood, tx.picks) : p = NewPick(cat, s)
  BY DEF Entered
<1> QED
  BY <1>1 DEF NewPick, IsPick

\* New calls are of the day.
LEMMA NewCalls ==
  ASSUME NEW calls, NEW batch, NEW r \in InsertCalls(calls, batch)
  PROVE  \/ r \in calls
         \/ \E c \in batch : r = [call |-> c, day |-> day] /\ ~Known(c, calls)
BY DEF InsertCalls

LEMMA JobsKeepIInv ==
  ASSUME IInv, NoSession \/ AfterOpen \/ DataStale \/ LogPicks \/ OptionsFill
  PROVE  IInv'
<1>1. /\ \A p \in tx.picks : IsPick(p)
      /\ \A r \in tx.calls : r.day \in Int
      /\ IsLedger(tx) /\ day \in Nat
  BY DEF IInv, Shape, JobSeesDatabase
<1>2. CASE NoSession
  BY <1>1, <1>2, NoSessionEnds, EndsKeepsIInv
<1>3. CASE AfterOpen \/ DataStale
  <2> DEFINE ledger == [tx EXCEPT !.noTrade = Reasons(Categories)]
  <2>1. PICK status \in {"COMPLETE", "BLOCKED"} : Ends(ledger, status)
    BY <1>3, ReasonsEnd
  <2>2. ledger.picks = tx.picks /\ ledger.calls = tx.calls
    BY <1>1 DEF IsLedger
  <2> QED
    BY <1>1, <2>1, <2>2, EndsKeepsIInv
<1>4. CASE LogPicks
  <2>1. PICK mood \in Moods, batch \in SUBSET Calls : Ends(Morning(Entered(mood), batch), "COMPLETE")
    BY <1>4, LogPicksEnds
  <2> DEFINE ledger == Morning(Entered(mood), batch)
  <2>2. /\ ledger.picks = InsertPicks(tx.picks, Entered(mood))
        /\ ledger.calls = InsertCalls(tx.calls, batch)
    BY <1>1 DEF IsLedger, Morning
  <2>3. \A p \in ledger.picks : IsPick(p)
    BY <1>1, <2>2, NewPicks DEF InsertPicks
  <2>4. \A r \in ledger.calls : r.day \in Int
    BY <1>1, <2>2, NewCalls
  <2> QED
    BY <2>1, <2>3, <2>4, EndsKeepsIInv
<1>5. CASE OptionsFill
  <2>1. CASE Ends(tx, "COMPLETE")
    BY <1>1, <2>1, EndsKeepsIInv
  <2>2. ASSUME NEW p \in tx.picks, NEW q, NEW status \in {"COMPLETE", "BLOCKED"},
               IsPick(q), Ends(With(p, q), status)
        PROVE  IInv'
    <3>1. With(p, q).picks = (tx.picks \ {p}) \cup {q} /\ With(p, q).calls = tx.calls
      BY <1>1 DEF With, IsLedger
    <3> QED
      BY <1>1, <2>2, <3>1, EndsKeepsIInv
  <2> QED
    BY <1>5, <2>1, <2>2, OptionsFillEnds
<1> QED
  BY <1>2, <1>3, <1>4, <1>5

LEMMA StartKeepsIInv ==
  ASSUME IInv, NEW kind \in Jobs, StartJob(kind)
  PROVE  IInv'
<1>1. /\ db' = [db EXCEPT !.runs[kind] = "RUNNING"]
      /\ tx' = db' /\ job' = kind /\ phase' = "begun" /\ day' = day
  BY DEF StartJob
<1>2. /\ IsLedger(db') /\ db'.picks = db.picks /\ db'.calls = db.calls
      /\ db'.runs[kind] = "RUNNING"
  BY <1>1 DEF IInv, Shape, IsLedger, Statuses
<1>3. Shape'
  BY <1>1, <1>2 DEF IInv, Shape
<1>4. JobSeesDatabase'
  BY <1>1, <1>2 DEF JobSeesDatabase, Jobs
<1>5. SamePicks'
  BY <1>1, LoggedInOwn DEF SamePicks
<1>6. KillRuleApplied'
  BY <1>1 DEF KillRuleApplied
<1> QED
  BY <1>3, <1>4, <1>5, <1>6 DEF IInv

LEMMA ScoreOpenKeepsIInv ==
  ASSUME IInv, ScoreOpen
  PROVE  IInv'
<1>1. PICK fetched \in Fetches :
        LET scored == {Scored(p, tx.picks, fetched) : p \in tx.picks} IN
        /\ tx' = [tx EXCEPT !.picks = scored, !.failed = @ \cup FailedBy(scored)]
        /\ phase' = IF fetched = {} THEN "no index" ELSE "scored"
  BY DEF ScoreOpen
<1> DEFINE scored == {Scored(p, tx.picks, fetched) : p \in tx.picks}
<1>2. /\ db' = db /\ job' = job /\ day' = day /\ job = "morning" /\ tx = db
      /\ IsLedger(tx) /\ \A p \in tx.picks : IsPick(p)
  BY DEF ScoreOpen, IInv, Shape, JobSeesDatabase
<1>3. /\ IsLedger(tx') /\ tx'.picks = scored /\ tx'.failed = tx.failed \cup FailedBy(scored)
      /\ tx'.runs = tx.runs /\ tx'.calls = tx.calls /\ tx'.noTrade = tx.noTrade
  BY <1>1, <1>2 DEF IsLedger
<1>4. \A p \in tx.picks : LET s == Scored(p, tx.picks, fetched) IN IsPick(s) /\ SameKey(s, p)
  BY <1>2, ScoredKeepsKey
<1>5. Shape'
  BY <1>2, <1>3, <1>4 DEF IInv, Shape
<1>6. JobSeesDatabase'
  BY <1>1, <1>2, <1>3 DEF IInv, JobSeesDatabase
<1>7. SamePicks'
  BY <1>2, <1>3, <1>4 DEF SamePicks, Logged, SameKey
<1>8. KillRuleApplied'
  BY <1>3 DEF KillRuleApplied, FailedBy
<1> QED
  BY <1>5, <1>6, <1>7, <1>8 DEF IInv

LEMMA FailuresKeepIInv ==
  ASSUME IInv, Raise \/ Crash
  PROVE  IInv'
<1>1. CASE Raise
  <2>1. /\ db' = [db EXCEPT !.runs[job] = "ERROR"]
        /\ tx' = db' /\ job' = "idle" /\ phase' = "none" /\ day' = day /\ job \in Jobs
    BY <1>1 DEF Raise, RolledBack, Idle, IInv, JobSeesDatabase
  <2>2. IsLedger(db') /\ db'.picks = db.picks /\ db'.calls = db.calls
    BY <2>1 DEF IInv, Shape, IsLedger, Statuses
  <2> QED
    BY <2>1, <2>2, LoggedInOwn DEF IInv, Shape, JobSeesDatabase, SamePicks, KillRuleApplied
<1>2. CASE Crash
  BY <1>2, LoggedInOwn
     DEF Crash, Idle, IInv, Shape, JobSeesDatabase, SamePicks, KillRuleApplied
<1> QED
  BY <1>1, <1>2

\* The bars of a day change no key.
LEMMA BarsKeepKeys ==
  ASSUME NEW picks, \A p \in picks : IsPick(p), NEW kindOf
  PROVE  /\ \A q \in WithBars(picks, kindOf) : IsPick(q) /\ \E p \in picks : SameKey(q, p)
         /\ \A p \in picks : Logged(p, WithBars(picks, kindOf))
<1>1. \A p \in picks : \A bars : IsPick([p EXCEPT !.bars = bars]) /\ SameKey([p EXCEPT !.bars = bars], p)
  BY DEF IsPick, SameKey
<1> DEFINE Barred(p) ==
      IF ~Active(p) THEN [p EXCEPT !.bars = << >>]
      ELSE IF day \notin Sessions THEN p
      ELSE [p EXCEPT !.bars = [d \in DOMAIN @ \cup {day} |-> IF d = day THEN kindOf[p] ELSE @[d]]]
<1>2. \A p \in picks : IsPick(Barred(p)) /\ SameKey(Barred(p), p)
  BY <1>1 DEF SameKey
<1>3. WithBars(picks, kindOf) = {Barred(p) : p \in picks}
  BY DEF WithBars
<1> QED
  BY <1>2, <1>3 DEF Logged, SameKey

LEMMA TimeKeepsIInv ==
  ASSUME IInv, ClockPasses \/ NextDay
  PROVE  IInv'
<1>1. CASE ClockPasses
  BY <1>1 DEF ClockPasses, work, IInv, Shape, JobSeesDatabase, SamePicks, KillRuleApplied
<1>2. CASE NextDay
  <2>1. PICK kindOf : db' = [db EXCEPT !.picks = WithBars(@, kindOf), !.noTrade = {},
                                       !.runs = [k \in Jobs |-> "none"]]
    BY <1>2 DEF NextDay
  <2>2. /\ tx' = db' /\ day' = day + 1 /\ job' = "idle" /\ job = "idle" /\ phase' = phase
    BY <1>2 DEF NextDay, work
  <2>3. /\ IsLedger(db') /\ db'.picks = WithBars(db.picks, kindOf) /\ db'.calls = db.calls
    BY <2>1 DEF IInv, Shape, IsLedger, Statuses
  <2>4. \A p \in db'.picks : IsPick(p)
    BY <2>3, BarsKeepKeys DEF IInv, Shape
  <2>5. Shape'
    BY <2>2, <2>3, <2>4 DEF IInv, Shape
  <2> QED
    BY <2>2, <2>5, LoggedInOwn DEF IInv, JobSeesDatabase, SamePicks, KillRuleApplied
<1> QED
  BY <1>1, <1>2

\* Every behaviour keeps what the job sees tied to the database.
THEOREM LedgerInvariant == Spec => []IInv
<1>1. Init => IInv
  BY DEF Init, IInv, Shape, JobSeesDatabase, SamePicks, KillRuleApplied, IsLedger, Statuses
<1>2. IInv /\ [Next]_vars => IInv'
  <2> SUFFICES ASSUME IInv, [Next]_vars
               PROVE  IInv'
    OBVIOUS
  <2>1. CASE UNCHANGED vars
    BY <2>1 DEF vars, IInv, Shape, JobSeesDatabase, SamePicks, KillRuleApplied
  <2> QED
    BY <2>1, StartKeepsIInv, JobsKeepIInv, ScoreOpenKeepsIInv, FailuresKeepIInv, TimeKeepsIInv
       DEF Next
<1> QED
  BY <1>1, <1>2, PTL DEF Spec

--------------------------------------------------------------------------------
(* The results of a run appear with its end.                                     *)

\* Every step that keeps the day either ends a job well or leaves the results.
LEMMA ResultsStep ==
  ASSUME IInv, Next, day' = day, Results(db') # Results(db)
  PROVE  \E ledger, status :
           /\ Ends(ledger, status) /\ status \in {"COMPLETE", "BLOCKED"}
           /\ NoSession \/ AfterOpen \/ DataStale \/ LogPicks \/ OptionsFill
<1>1. ASSUME NEW kind \in Jobs, StartJob(kind) PROVE FALSE
  <2>1. db' = [db EXCEPT !.runs[kind] = "RUNNING"] /\ IsLedger(db)
    BY <1>1 DEF StartJob, IInv, Shape
  <2> QED
    BY <2>1 DEF Results, IsLedger
<1>2. ~ScoreOpen /\ ~Crash /\ ~ClockPasses
  BY DEF ScoreOpen, Crash, ClockPasses
<1>3. ASSUME Raise PROVE FALSE
  <2>1. db' = [db EXCEPT !.runs[job] = "ERROR"] /\ IsLedger(db)
    BY <1>3 DEF Raise, RolledBack, IInv, Shape
  <2> QED
    BY <2>1 DEF Results, IsLedger
<1>4. ASSUME NextDay PROVE FALSE
  <2>1. day' = day + 1
    BY <1>4 DEF NextDay
  <2>2. day \in Nat
    BY DEF IInv, Shape
  <2> QED
    BY <2>1, <2>2
<1>5. CASE NoSession
  BY <1>5, NoSessionEnds
<1>6. CASE AfterOpen \/ DataStale
  BY <1>6, ReasonsEnd
<1>7. CASE LogPicks
  BY <1>7, LogPicksEnds
<1>8. CASE OptionsFill
  BY <1>8, OptionsFillEnds
<1> QED
  BY <1>1, <1>2, <1>3, <1>4, <1>5, <1>6, <1>7, <1>8 DEF Next

\* No run that raises or dies leaves a part of its results in the ledger.
THEOREM ResultsAppearWithRuns == Spec => ResultsComeWithTheirRun
<1>1. IInv /\ [Next]_vars =>
        [day' = day /\ Results(db') # Results(db) =>
           \E k \in Jobs : db.runs[k] = "RUNNING"
                           /\ db'.runs[k] \in {"COMPLETE", "BLOCKED"}]_vars
  <2> SUFFICES ASSUME IInv, Next, day' = day, Results(db') # Results(db)
               PROVE  \E k \in Jobs : db.runs[k] = "RUNNING"
                                      /\ db'.runs[k] \in {"COMPLETE", "BLOCKED"}
    OBVIOUS
  <2>1. PICK ledger, status : Ends(ledger, status) /\ status \in {"COMPLETE", "BLOCKED"}
    BY ResultsStep
  <2>2. db'.runs[job] = status /\ job \in Jobs
    BY <2>1, FinishWrites DEF Ends
  <2>3. db.runs[job] = "RUNNING"
    BY <2>2 DEF IInv, JobSeesDatabase, Jobs
  <2> QED
    BY <2>1, <2>2, <2>3
<1> QED
  BY <1>1, LedgerInvariant, PTL DEF Spec, ResultsComeWithTheirRun

--------------------------------------------------------------------------------
(* No entry without an edge.                                                     *)

\* New picks are not closed, so that they change no scorecard.
LEMMA NewPicksChangeNoEdge ==
  ASSUME NEW mood, NEW cat
  PROVE  NoEdge(InsertPicks(tx.picks, Entered(mood)), cat) = NoEdge(tx.picks, cat)
<1>1. Closed(InsertPicks(tx.picks, Entered(mood)), cat) = Closed(tx.picks, cat)
  BY NewPicks DEF Closed, InsertPicks
<1> QED
  BY <1>1 DEF NoEdge

\* What a step may log: picks of the morning, in categories that have an edge.
LEMMA EntriesStep ==
  ASSUME IInv, Next, NEW p \in db'.picks
  PROVE  Logged(p, db.picks) \/ (p.cat \notin db'.failed /\ ~NoEdge(db'.picks, p.cat))
<1>1. CASE db'.picks = db.picks
  BY <1>1, LoggedInOwn
<1>2. CASE NextDay
  <2>1. PICK kindOf : db' = [db EXCEPT !.picks = WithBars(@, kindOf), !.noTrade = {},
                                       !.runs = [k \in Jobs |-> "none"]]
    BY <1>2 DEF NextDay
  <2>2. db'.picks = WithBars(db.picks, kindOf)
    BY <2>1 DEF IInv, Shape, IsLedger
  <2> QED
    BY <2>2, BarsKeepKeys DEF IInv, Shape, Logged
<1>3. CASE \E kind \in Jobs : StartJob(kind)
  BY <1>1, <1>3 DEF StartJob, IInv, Shape, IsLedger
<1>4. CASE Raise
  BY <1>1, <1>4 DEF Raise, RolledBack, IInv, Shape, IsLedger
<1>5. CASE ScoreOpen \/ Crash \/ ClockPasses
  BY <1>1, <1>5 DEF ScoreOpen, Crash, ClockPasses
<1>6. ASSUME NEW ledger, NEW status, Ends(ledger, status), ledger.picks = tx.picks
      PROVE  Logged(p, db.picks)
  <2>1. db'.picks = tx.picks
    BY <1>6, FinishWrites DEF Ends
  <2> QED
    BY <2>1 DEF IInv, SamePicks
<1>7. CASE NoSession
  BY <1>6, <1>7, NoSessionEnds
<1>8. CASE AfterOpen \/ DataStale
  <2>1. [tx EXCEPT !.noTrade = Reasons(Categories)].picks = tx.picks
    BY DEF IInv, Shape, IsLedger
  <2> QED
    BY <1>6, <1>8, <2>1, ReasonsEnd
<1>9. CASE LogPicks
  <2>1. PICK mood \in Moods, batch \in SUBSET Calls :
          phase = "scored" /\ Ends(Morning(Entered(mood), batch), "COMPLETE")
    BY <1>9, LogPicksEnds
  <2>2. /\ Morning(Entered(mood), batch).picks = InsertPicks(tx.picks, Entered(mood))
        /\ Morning(Entered(mood), batch).failed = tx.failed
    BY DEF IInv, Shape, IsLedger, Morning
  <2>3. db'.picks = InsertPicks(tx.picks, Entered(mood)) /\ db'.failed = tx.failed
    BY <2>1, <2>2, FinishWrites DEF Ends
  <2>4. CASE p \in tx.picks
    BY <2>4 DEF IInv, SamePicks
  <2>5. CASE p \in Entered(mood)
    <3>1. p.cat \in Categories \ tx.failed
      BY <2>5, NewPicks
    <3>2. ~NoEdge(tx.picks, p.cat)
      BY <2>1, <3>1 DEF IInv, KillRuleApplied
    <3> QED
      BY <2>3, <3>1, <3>2, NewPicksChangeNoEdge
  <2> QED
    BY <2>3, <2>4, <2>5 DEF InsertPicks
<1>10. CASE OptionsFill
  <2>1. CASE Ends(tx, "COMPLETE")
    BY <1>6, <2>1
  <2>2. ASSUME NEW o \in tx.picks, NEW q, NEW status \in {"COMPLETE", "BLOCKED"},
               SameKey(q, o), Ends(With(o, q), status)
        PROVE  Logged(p, db.picks)
    <3>1. With(o, q).picks = (tx.picks \ {o}) \cup {q}
      BY DEF IInv, Shape, With, IsLedger
    <3>2. db'.picks = (tx.picks \ {o}) \cup {q}
      BY <2>2, <3>1, FinishWrites DEF Ends
    <3>3. p \in tx.picks \/ SameKey(p, o)
      BY <2>2, <3>2
    <3> QED
      BY <3>3 DEF IInv, SamePicks, Logged, SameKey
  <2> QED
    BY <1>10, <2>1, <2>2, OptionsFillEnds
<1> QED
  BY <1>2, <1>3, <1>4, <1>5, <1>7, <1>8, <1>9, <1>10 DEF Next

\* No pick enters a category whose closed picks have no edge, those of the same run
\* included, for any categories and any rule of how many must be closed.
THEOREM EntriesHaveEdge == Spec => NoEntriesWithoutEdge
<1>1. IInv /\ [Next]_vars =>
        [\A p \in db'.picks :
           Logged(p, db.picks) \/ (p.cat \notin db'.failed /\ ~NoEdge(db'.picks, p.cat))]_vars
  BY EntriesStep
<1> QED
  BY <1>1, LedgerInvariant, PTL DEF Spec, NoEntriesWithoutEdge

--------------------------------------------------------------------------------
(* Calls count once.                                                             *)

\* What a step does to the calls: nothing, or a batch is inserted.
LEMMA CallsStep ==
  ASSUME IInv, [Next]_vars
  PROVE  db'.calls = db.calls \/ \E batch \in SUBSET Calls : db'.calls = InsertCalls(db.calls, batch)
<1>1. ASSUME NEW ledger, NEW status, Ends(ledger, status), ledger.calls = tx.calls
      PROVE  db'.calls = db.calls
  <2>1. db'.calls = tx.calls
    BY <1>1, FinishWrites DEF Ends
  <2> QED
    BY <2>1 DEF IInv, JobSeesDatabase
<1>2. CASE UNCHANGED vars
  BY <1>2 DEF vars
<1>3. CASE \E kind \in Jobs : StartJob(kind)
  BY <1>3 DEF StartJob, IInv, Shape, IsLedger
<1>4. CASE ScoreOpen \/ Crash \/ ClockPasses
  BY <1>4 DEF ScoreOpen, Crash, ClockPasses
<1>5. CASE Raise \/ NextDay
  BY <1>5 DEF Raise, RolledBack, NextDay, IInv, Shape, IsLedger
<1>6. CASE NoSession
  BY <1>1, <1>6, NoSessionEnds
<1>7. CASE AfterOpen \/ DataStale
  <2>1. [tx EXCEPT !.noTrade = Reasons(Categories)].calls = tx.calls
    BY DEF IInv, Shape, IsLedger
  <2> QED
    BY <1>1, <1>7, <2>1, ReasonsEnd
<1>8. CASE LogPicks
  <2>1. PICK mood \in Moods, batch \in SUBSET Calls : Ends(Morning(Entered(mood), batch), "COMPLETE")
    BY <1>8, LogPicksEnds
  <2>2. Morning(Entered(mood), batch).calls = InsertCalls(tx.calls, batch)
    BY DEF IInv, Shape, IsLedger, Morning
  <2>3. db'.calls = InsertCalls(tx.calls, batch)
    BY <2>1, <2>2, FinishWrites DEF Ends
  <2> QED
    BY <2>3 DEF IInv, JobSeesDatabase
<1>9. CASE OptionsFill
  <2>1. \A p, q : With(p, q).calls = tx.calls
    BY DEF IInv, Shape, With, IsLedger
  <2> QED
    BY <1>1, <1>9, <2>1, OptionsFillEnds
<1> QED
  BY <1>2, <1>3, <1>4, <1>5, <1>6, <1>7, <1>8, <1>9 DEF Next

\* Inserting a batch keeps the distance of equal calls.
LEMMA InsertKeepsDistance ==
  ASSUME CallsAreCountedOnce, day \in Nat, \A r \in db.calls : r.day \in Int,
         NEW batch, db'.calls = InsertCalls(db.calls, batch)
  PROVE  CallsAreCountedOnce'
<1>1. Republish \in Nat
  BY DailyIntelAssumption
<1> SUFFICES ASSUME NEW r \in db'.calls, NEW s \in db'.calls, r.call = s.call, r # s
             PROVE  r.day > s.day + Republish \/ s.day > r.day + Republish
  BY DEF CallsAreCountedOnce
<1>2. \A n, o : o \in db.calls /\ n.day = day /\ ~Known(n.call, db.calls) /\ o.call = n.call =>
        n.day > o.day + Republish
  BY <1>1 DEF Known
<1>3. \A n \in db'.calls : n \in db.calls \/ (n = [call |-> n.call, day |-> day] /\ ~Known(n.call, db.calls))
  BY NewCalls
<1>4. CASE r \in db.calls /\ s \in db.calls
  BY <1>4 DEF CallsAreCountedOnce
<1>5. CASE r \notin db.calls /\ s \notin db.calls
  BY <1>3, <1>5
<1>6. CASE r \in db.calls /\ s \notin db.calls
  BY <1>2, <1>3, <1>6
<1>7. CASE r \notin db.calls /\ s \in db.calls
  BY <1>2, <1>3, <1>7
<1> QED
  BY <1>4, <1>5, <1>6, <1>7

\* Equal calls are more than the window apart, for any window and any number of reruns.
THEOREM CallsCountedOnce == Spec => []CallsAreCountedOnce
<1>1. Init => CallsAreCountedOnce
  BY DEF Init, CallsAreCountedOnce
<1>2. CallsAreCountedOnce /\ IInv /\ [Next]_vars => CallsAreCountedOnce'
  <2> SUFFICES ASSUME CallsAreCountedOnce, IInv, [Next]_vars
               PROVE  CallsAreCountedOnce'
    OBVIOUS
  <2>1. CASE db'.calls = db.calls
    BY <2>1 DEF CallsAreCountedOnce
  <2>2. ASSUME NEW batch, db'.calls = InsertCalls(db.calls, batch)
        PROVE  CallsAreCountedOnce'
    BY <2>2, InsertKeepsDistance DEF IInv, Shape
  <2> QED
    BY <2>1, <2>2, CallsStep
<1> QED
  BY <1>1, <1>2, LedgerInvariant, PTL DEF Spec

--------------------------------------------------------------------------------
(* Finished mornings are complete.                                               *)

\* A category has a pick of today, or a reason.
Covered(d, cat) == cat \in d.noTrade \/ \E p \in d.picks : p.cat = cat /\ p.day = day

\* A morning that picks leaves every category a pick or a reason.
LEMMA PicksCover ==
  ASSUME IInv, NEW mood, NEW batch, NEW cat \in Categories
  PROVE  Covered(Morning(Entered(mood), batch), cat)
<1>1. /\ Morning(Entered(mood), batch).picks = InsertPicks(tx.picks, Entered(mood))
      /\ Morning(Entered(mood), batch).noTrade = Reasons(Categories \ {p.cat : p \in Entered(mood)})
  BY DEF IInv, Shape, IsLedger, Morning
<1>2. CASE \E p \in Entered(mood) : p.cat = cat
  <2>1. PICK p \in Entered(mood) : p.cat = cat
    BY <1>2
  <2>2. p.day = day
    BY NewPicks
  <2>3. \E q \in InsertPicks(tx.picks, Entered(mood)) : SameKey(p, q)
    BY DEF InsertPicks, Logged, SameKey
  <2> QED
    BY <1>1, <2>1, <2>2, <2>3 DEF Covered, SameKey
<1>3. CASE ~\E p \in Entered(mood) : p.cat = cat
  BY <1>1, <1>3 DEF Covered, Reasons
<1> QED
  BY <1>2, <1>3

\* The end of a job leaves a complete ledger when its own ledger is, or when it is no
\* morning that completes.
LEMMA EndsComplete ==
  ASSUME IInv, FinishedMorningsAreComplete, NEW ledger, NEW status, Ends(ledger, status),
         ledger.runs = tx.runs,
         \/ job = "morning" /\ status = "BLOCKED"
         \/ job = "morning" /\ day \notin Sessions
         \/ \A cat \in Categories : Covered(ledger, cat)
         \/ job # "morning" /\ \A cat \in Categories : Covered(db, cat) => Covered(ledger, cat)
  PROVE  FinishedMorningsAreComplete'
<1>1. /\ db'.picks = ledger.picks /\ db'.noTrade = ledger.noTrade /\ day' = day
      /\ db'.runs[job] = status
      /\ job # "morning" => db'.runs["morning"] = db.runs["morning"]
  BY FinishWrites DEF Ends, Jobs, IInv, JobSeesDatabase
<1>2. CASE job = "morning" /\ status = "BLOCKED"
  BY <1>1, <1>2 DEF FinishedMorningsAreComplete
<1>3. CASE job = "morning" /\ day \notin Sessions
  BY <1>1, <1>3 DEF FinishedMorningsAreComplete
<1>4. CASE \A cat \in Categories : Covered(ledger, cat)
  BY <1>1, <1>4 DEF FinishedMorningsAreComplete, Covered
<1>5. CASE job # "morning" /\ \A cat \in Categories : Covered(db, cat) => Covered(ledger, cat)
  BY <1>1, <1>5 DEF FinishedMorningsAreComplete, Covered
<1> QED
  BY <1>2, <1>3, <1>4, <1>5

LEMMA CompleteStep ==
  ASSUME IInv, FinishedMorningsAreComplete, [Next]_vars
  PROVE  FinishedMorningsAreComplete'
<1>1. CASE UNCHANGED vars \/ ScoreOpen \/ Crash \/ ClockPasses
  <2>1. db' = db /\ day' = day
    BY <1>1 DEF vars, ScoreOpen, Crash, ClockPasses
  <2> QED
    BY <2>1 DEF FinishedMorningsAreComplete
<1>2. ASSUME NEW kind \in Jobs, StartJob(kind)
      PROVE  FinishedMorningsAreComplete'
  <2>1. /\ db'.picks = db.picks /\ db'.noTrade = db.noTrade /\ day' = day
        /\ db'.runs["morning"] \in {db.runs["morning"], "RUNNING"}
    BY <1>2 DEF StartJob, IInv, Shape, IsLedger, Jobs
  <2> QED
    BY <2>1 DEF FinishedMorningsAreComplete
<1>3. CASE Raise
  <2>1. /\ db'.picks = db.picks /\ db'.noTrade = db.noTrade /\ day' = day
        /\ db'.runs["morning"] \in {db.runs["morning"], "ERROR"}
    BY <1>3 DEF Raise, RolledBack, IInv, Shape, IsLedger, Jobs
  <2> QED
    BY <2>1 DEF FinishedMorningsAreComplete
<1>4. CASE NextDay
  <2>1. db'.runs["morning"] = "none"
    BY <1>4 DEF NextDay, IInv, Shape, IsLedger, Jobs
  <2> QED
    BY <2>1 DEF FinishedMorningsAreComplete
<1>5. CASE NoSession
  <2>1. tx = db
    BY <1>5 DEF NoSession, IInv, JobSeesDatabase
  <2> QED
    BY <1>5, <2>1, NoSessionEnds, EndsComplete
<1>6. CASE AfterOpen \/ DataStale
  <2> DEFINE ledger == [tx EXCEPT !.noTrade = Reasons(Categories)]
  <2>1. PICK status : Ends(ledger, status)
    BY <1>6, ReasonsEnd
  <2>2. ledger.runs = tx.runs /\ \A cat \in Categories : Covered(ledger, cat)
    BY DEF IInv, Shape, IsLedger, Reasons, Covered
  <2> QED
    BY <2>1, <2>2, EndsComplete
<1>7. CASE LogPicks
  <2>1. PICK mood \in Moods, batch \in SUBSET Calls : Ends(Morning(Entered(mood), batch), "COMPLETE")
    BY <1>7, LogPicksEnds
  <2>2. Morning(Entered(mood), batch).runs = tx.runs
    BY DEF IInv, Shape, IsLedger, Morning
  <2> QED
    BY <2>1, <2>2, PicksCover, EndsComplete
<1>8. CASE OptionsFill
  <2>1. job = "options-fill" /\ tx = db
    BY <1>8, OptionsFillEnds
  <2>2. CASE Ends(tx, "COMPLETE")
    BY <2>1, <2>2, EndsComplete
  <2>3. ASSUME NEW p \in tx.picks, NEW q, NEW status, SameKey(q, p), Ends(With(p, q), status)
        PROVE  FinishedMorningsAreComplete'
    <3>1. /\ With(p, q).picks = (tx.picks \ {p}) \cup {q}
          /\ With(p, q).runs = tx.runs /\ With(p, q).noTrade = tx.noTrade
      BY DEF IInv, Shape, With, IsLedger
    <3>2. \A cat \in Categories : Covered(db, cat) => Covered(With(p, q), cat)
      BY <2>1, <2>3, <3>1 DEF Covered, SameKey
    <3>3. job # "morning"
      BY <2>1
    <3>4. Ends(With(p, q), status)
      BY <2>3
    <3> QED
      BY <3>1, <3>2, <3>3, <3>4, EndsComplete
  <2> QED
    BY <1>8, <2>2, <2>3, OptionsFillEnds
<1> QED
  BY <1>1, <1>2, <1>3, <1>4, <1>5, <1>6, <1>7, <1>8 DEF Next

\* A morning that ends well leaves a pick or a reason in every category, for any
\* categories, moods and calendars.
THEOREM MorningsComplete == Spec => []FinishedMorningsAreComplete
<1>1. Init => FinishedMorningsAreComplete
  BY DEF Init, FinishedMorningsAreComplete, Jobs
<1> QED
  BY <1>1, CompleteStep, LedgerInvariant, PTL DEF Spec

===============================================================================
