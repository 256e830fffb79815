----------------------------- MODULE StrategyDesk -----------------------------
(* The candidate pool and the active strategy of engine/intelligence.py under *)
(* the pre-market pipeline, imports of outside backtests and the operator's    *)
(* buttons (engine/notifier.py).  DuckDB commits every statement by itself, so *)
(* an operation is a sequence of commits and a crash may leave a part of it.   *)
EXTENDS CandidateRanking

CONSTANTS
  Histories,    \* what the evaluations may find: [bars: id -> metrics, closed: trades]
  References,   \* the identifiers of imported backtests
  Imported,     \* the metrics an import may carry
  MaxCrashes    \* bound: crashes of the process

\* Identifiers of imports begin with another word than the generated ones, and a
\* backtest without a trade counts as none.
ASSUME StrategyDeskAssumption ==
  /\ MaxCrashes \in Nat
  /\ References \cap (DOMAIN Generated \cup {"none"}) = {}
  /\ Imported \subseteq Metrics
  /\ \A h \in Histories :
       /\ \A id \in DOMAIN Generated : h.bars[id].trades > 0 => h.bars[id] \in Metrics
       /\ h.closed \in Seq(ClosedTrade)

VARIABLES
  pool,         \* strategy_candidates in rank order
  active,       \* active_strategy: an identifier or "none"
  offered,      \* identifiers with an accept button in the chat
  todo,         \* the commits the operation in progress still has to make
  kept,         \* ghost: the references that must be in the pool
  decided,      \* ghost: what the operator's decisions allow to be active
  crashes       \* crashes so far (bound)

vars == << pool, active, offered, todo, kept, decided, crashes >>

InHouse == DOMAIN Generated
Row(id, source, m) == [id |-> id, source |-> source, metrics |-> m, status |-> "CANDIDATE"]
Ids(rows) == {rows[i].id : i \in DOMAIN rows}

-------------------------------------------------------------------------------
(* The commits.                                                               *)

\* save_candidates_to_store empties the table and inserts the rows one by one.
SaveCommits(rows) ==
  << [do |-> "wipe"] >> \o [i \in DOMAIN rows |-> [do |-> "insert", row |-> rows[i]]]

\* Mutant: the rows lose the old approval only after they have the new one.
ActivateAfterAccepting(id) ==
  << [do |-> "approve", id |-> id], [do |-> "clear"],
     [do |-> "stop"], [do |-> "activate", id |-> id] >>

\* set_active_strategy for a candidate that is in the pool.
ActivateCommits(id) ==
  << [do |-> "clear"], [do |-> "approve", id |-> id],
     [do |-> "stop"], [do |-> "activate", id |-> id] >>

\* deactivate_active_strategy.
DeactivateCommits == << [do |-> "stop"], [do |-> "clear"] >>

\* The rows of the pool with the status s at the places S.
WithStatus(S, s) ==
  [i \in DOMAIN pool |-> IF i \in S THEN [pool[i] EXCEPT !.status = s] ELSE pool[i]]

Marked == {i \in DOMAIN pool : pool[i].status = "ACCEPTED"}

PoolAfter(c) ==
  CASE c.do = "wipe"    -> << >>
    [] c.do = "insert"  -> Append(pool, c.row)
    [] c.do = "clear"   -> WithStatus(Marked, "CANDIDATE")
    [] c.do = "approve" -> WithStatus({i \in DOMAIN pool : pool[i].id = c.id}, "ACCEPTED")
    [] OTHER            -> pool

ActiveAfter(c) ==
  CASE c.do = "stop" -> "none" [] c.do = "activate" -> c.id [] OTHER -> active

\* An approval or deactivation that has run to its end leaves no doubt.
DecidedAfter(c) ==
  IF Len(todo) = 1 /\ c.do \in {"activate", "clear"} THEN {ActiveAfter(c)} ELSE decided

Commit ==
  /\ todo # << >>
  /\ pool' = PoolAfter(Head(todo))
  /\ active' = ActiveAfter(Head(todo))
  /\ decided' = DecidedAfter(Head(todo))
  /\ todo' = Tail(todo)
  /\ UNCHANGED << offered, kept, crashes >>

Idle == todo = << >>

-------------------------------------------------------------------------------
(* The pre-market pipeline and the imports.                                   *)

\* get_candidates_from_store does not read traded_value: the default comes back.
Reloaded == [i \in DOMAIN pool |-> [pool[i] EXCEPT !.metrics.traded = 50000]]

\* Mutant: only what the last ranking called a secondary reference is kept.
KeptByStatus ==
  Picked(Reloaded, {i \in DOMAIN pool : pool[i].status = "SECONDARY_REFERENCE"})

Secondaries == Picked(Reloaded, {i \in DOMAIN pool : pool[i].source = "ALGOVERSE_SECONDARY"})

Evaluated ==
  [h \in Histories |->
     [i \in 1..5 |->
        LET id == << "alpha", "beta", "gamma", "delta", "epsilon" >>[i] IN
        Row(id, "IN_HOUSE_ENGINE", Evaluate(Generated[id], h.bars[id], h.closed))]]

Valid(rows) == Picked(rows, {i \in DOMAIN rows : rows[i].status # "REJECTED"})

\* run_strategy_intelligence_pipeline: the proposal goes out before the save.
RunPipeline(h) ==
  /\ Idle
  /\ LET ranked == RankAndFilter(Evaluated[h] \o Secondaries) IN
       /\ offered' = offered \cup (IF Valid(ranked) = << >> THEN {}
                                   ELSE {Valid(ranked)[1].id})
       /\ todo' = SaveCommits(ranked)
  /\ UNCHANGED << pool, active, kept, decided, crashes >>

\* import_algoverse_backtest_result re-ranks the whole reloaded pool.
Import(ref, m) ==
  /\ Idle
  /\ ref \notin Ids(pool)
  /\ todo' = SaveCommits(RankAndFilter(Append(Reloaded, Row(ref, "ALGOVERSE_SECONDARY", m))))
  /\ kept' = kept \cup {ref}
  /\ UNCHANGED << pool, active, offered, decided, crashes >>

-------------------------------------------------------------------------------
(* The operator's buttons: handle_telegram_callback.                          *)

\* Buttons stay in the chat: the candidate may have been rejected since.
Accept(id) ==
  /\ Idle
  /\ id \in offered
  /\ id \in Ids(pool)
  /\ todo' = ActivateCommits(id)
  /\ decided' = decided \cup {id, "none"}
  /\ UNCHANGED << pool, active, offered, kept, crashes >>

\* "Choose Another" shows the candidate at an index, modulo the valid ones.
ChooseAnother(index) ==
  /\ Idle
  /\ Valid(pool) # << >>
  /\ offered' = offered \cup {Valid(pool)[1 + (index % Len(Valid(pool)))].id}
  /\ UNCHANGED << pool, active, todo, kept, decided, crashes >>

SelectParameters ==
  /\ Idle
  /\ offered' = offered \cup Ids(Valid(pool))
  /\ UNCHANGED << pool, active, todo, kept, decided, crashes >>

NoTrade ==
  /\ Idle
  /\ todo' = DeactivateCommits
  /\ decided' = decided \cup {"none"}
  /\ UNCHANGED << pool, active, offered, kept, crashes >>

\* What a crash inside a save has lost is lost.
Crash ==
  /\ todo # << >> /\ crashes < MaxCrashes
  /\ todo' = << >>
  /\ kept' = kept \cap Ids(pool)
  /\ crashes' = crashes + 1
  /\ UNCHANGED << pool, active, offered, decided >>

-------------------------------------------------------------------------------
Init ==
  /\ pool = << >> /\ active = "none" /\ offered = {} /\ todo = << >>
  /\ kept = {} /\ decided = {"none"} /\ crashes = 0

Next ==
  \/ Commit
  \/ \E h \in Histories : RunPipeline(h)
  \/ \E ref \in References, m \in Imported : Import(ref, m)
  \/ \E id \in offered : Accept(id)
  \/ \E index \in 0..5 : ChooseAnother(index)
  \/ SelectParameters
  \/ NoTrade
  \/ Crash

Spec == Init /\ [][Next]_vars

-------------------------------------------------------------------------------
(* Properties.                                                                *)

AcceptedIds == {pool[i].id : i \in Marked}

\* Only the operator makes a strategy active: after every commit of every
\* operation, and after a crash between any two, the active strategy and the
\* candidate marked ACCEPTED are ones of his last decisions that was not yet
\* superseded by a completed one, and never two are marked.  The pipeline and the
\* imports, which rewrite the whole pool, activate nothing.
OperatorDecides ==
  /\ active \in decided
  /\ AcceptedIds \subseteq decided
  /\ Cardinality(AcceptedIds) <= 1

\* Of the in-house candidates of the pool the proposed one is a candidate that
\* passes the rules, and no other that passes them has a higher score; and the
\* proposal is in house whenever any in-house candidate passes.
ProposalIsBest ==
  \A i \in DOMAIN pool : pool[i].status = "PROPOSED" =>
    /\ \A j \in DOMAIN pool :
         pool[j].source = "IN_HOUSE_ENGINE" /\ PassesRules(pool[j].metrics) =>
           /\ pool[i].source = "IN_HOUSE_ENGINE"
           /\ Score(pool[j].metrics) <= Score(pool[i].metrics)
    /\ pool[i].source = "IN_HOUSE_ENGINE" => PassesRules(pool[i].metrics)

\* The pipeline replaces the in-house rows and carries every imported reference
\* over, also one that was proposed or accepted; only a crash inside a save
\* loses references.
ReferencesAreKept == Idle => kept \subseteq Ids(pool)

===============================================================================
