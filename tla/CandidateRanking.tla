--------------------------- MODULE CandidateRanking ---------------------------
(* How engine/intelligence.py measures, rejects and ranks strategy candidates: *)
(* evaluate_candidate_backtest, apply_algoverse_haircut and                    *)
(* rank_and_filter_candidates.  Money is in rupees, percentages in tenths,     *)
(* ratios in hundredths; divisions are rounded down.                           *)
EXTENDS Integers, SequencesExt, Ordering

Metrics == [ trades: Nat, win: Nat, avgWin: Int, avgLoss: Int, drawdown: Int, pnl: Int,
             ratio: Nat, stability: Nat, traded: Int ]
ClosedTrade == [side: {"LONG", "SHORT"}, pnl: Int, value: Int]

\* generate_candidate_parameter_sets: the five local candidates, sl and tp in
\* tenths of a percent.  id is the place of the identifier in their string order.
Generated ==
  [ alpha   |-> [direction |-> "LONG",  id |-> 3, sl |-> 10, tp |-> 15, early |-> TRUE],
    beta    |-> [direction |-> "LONG",  id |-> 4, sl |-> 8,   tp |-> 18, early |-> TRUE],
    gamma   |-> [direction |-> "LONG",  id |-> 2, sl |-> 8,   tp |-> 12, early |-> TRUE],
    delta   |-> [direction |-> "SHORT", id |-> 5, sl |-> 12, tp |-> 20, early |-> FALSE],
    epsilon |-> [direction |-> "BOTH",  id |-> 1, sl |-> 15, tp |-> 15, early |-> FALSE] ]

Smaller(a, b) == IF a < b THEN a ELSE b
Larger(a, b) == IF a < b THEN b ELSE a
Within(low, x, high) == Larger(low, Smaller(high, x))

-------------------------------------------------------------------------------
(* Three ways to measure a candidate.  All of them are recorded as the result  *)
(* of the in-house engine.                                                     *)

\* Nobody measured: neither bars nor closed paper trades exist, and the numbers
\* follow from the parameters alone.
SyntheticMetrics(p) ==
  LET short  == p.direction = "SHORT"
      trades == IF p.early THEN 35 ELSE 32
      win    == IF short THEN 550 ELSE Within(420, 520 + (40 * p.tp) \div p.sl, 720)
      gain   == IF short THEN 320 ELSE (350 * p.tp) \div 15
      loss   == IF short THEN 210 ELSE (220 * p.sl) \div 10
      wins   == (trades * win + 999) \div 1000
  IN [ trades |-> trades, win |-> win, avgWin |-> gain, avgLoss |-> loss,
       drawdown |-> IF short THEN 850 ELSE Smaller(750, (loss * 5) \div 2),
       pnl |-> wins * gain - (trades - wins) * loss,
       ratio |-> (100 * gain) \div Larger(loss, 1),
       stability |-> Within(500, 700 + ((win - 500) * 12) \div 10, 950),
       traded |-> 50000 ]

\* The largest fall of the running profit below its peak: the worst stretch.
Drawdown(pnls) ==
  Max({0} \cup {-SumFunctionOnSet(pnls, i..j) : i, j \in DOMAIN pnls})

\* The closed paper trades of the candidate's side, whatever strategy made them.
PaperMetrics(p, closed) ==
  LET own    == Picked(closed, {i \in DOMAIN closed : p.direction \in {"BOTH", closed[i].side}})
      pnls   == [i \in DOMAIN own |-> own[i].pnl]
      values == [i \in DOMAIN own |-> own[i].value]
      up     == {i \in DOMAIN own : own[i].pnl > 0}
      down   == DOMAIN own \ up
      valued == {i \in DOMAIN own : own[i].value > 0}
      gain  == IF up = {} THEN 0 ELSE SumFunctionOnSet(pnls, up) \div Cardinality(up)
      loss  == IF down = {} THEN 1 ELSE (-SumFunctionOnSet(pnls, down)) \div Cardinality(down)
      win   == IF own = << >> THEN 0 ELSE (1000 * Cardinality(up)) \div Len(own)
      ratio == IF loss > 0 THEN (100 * gain) \div loss ELSE 100 * gain
  IN [ trades |-> Len(own), win |-> win, avgWin |-> gain, avgLoss |-> loss,
       drawdown |-> Drawdown(pnls), pnl |-> SumFunctionOnSet(pnls, DOMAIN own), ratio |-> ratio,
       stability |-> Within(100, (win * 11) \div 10 + (ratio * 3) \div 2, 990),
       traded |-> IF valued = {} THEN 50000
                  ELSE SumFunctionOnSet(values, valued) \div Cardinality(valued) ]

\* bars is what a backtest over stored bars found; a backtest without a trade is
\* no evidence and the closed trades are asked instead.
Evaluate(p, bars, closed) ==
  IF bars.trades > 0 THEN bars
  ELSE IF closed # << >> THEN PaperMetrics(p, closed)
  ELSE SyntheticMetrics(p)

-------------------------------------------------------------------------------
(* The rules and the ranking.                                                  *)

\* apply_algoverse_haircut: brokerage and turnover charges for every trade.
PostHaircut(m) == m.pnl - (Larger(m.trades, 1) * (400 + (m.traded * 3) \div 1000)) \div 10

\* The rules of each side repeat the common ones without their zero-trade excuse.
PassesRules(m) ==
  /\ m.trades >= 30
  /\ m.drawdown <= 1000
  /\ m.win >= 500
  /\ PostHaircut(m) > 0
  /\ m.avgWin > m.avgLoss

Filtered(c) ==
  IF c.source = "ALGOVERSE_SECONDARY" THEN [c EXCEPT !.status = "SECONDARY_REFERENCE"]
  ELSE IF PassesRules(c.metrics) THEN [c EXCEPT !.status = "CANDIDATE"]
  ELSE [c EXCEPT !.status = "REJECTED"]

Score(m) ==
  35 * PostHaircut(m) + 200 * m.win + 150 * m.ratio + 100 * m.stability - 25 * m.drawdown

Unranked(c) == c.status \in {"REJECTED", "SECONDARY_REFERENCE"}

Bottom == -99999900   \* the score of what is not ranked

\* The tuple the sort compares; equal tuples keep the order of the list.
Key(c) ==
  IF Unranked(c) THEN << Bottom, 0, 0, 0, 0 >>
  ELSE << Score(c.metrics), -c.metrics.drawdown, PostHaircut(c.metrics), c.metrics.trades,
          -Generated[c.id].id >>

KeyAbove(k, l) ==
  \E i \in 1..5 : k[i] > l[i] /\ \A j \in 1..(i - 1) : k[j] = l[j]

RankedBefore(keys, i, j) ==
  \/ KeyAbove(keys[i], keys[j])
  \/ keys[i] = keys[j] /\ i < j

\* The places of a list in the order of their keys.
Order(keys) ==
  LET place(i) == Cardinality({j \in DOMAIN keys : RankedBefore(keys, j, i)}) IN
  [r \in DOMAIN keys |-> CHOOSE i \in DOMAIN keys : place(i) = r - 1]

\* Mutant: the proposal is the first of the ranking, rejected or not.
AnyProposable(c) == TRUE

\* The first of the ranking that is not REJECTED becomes the proposal; a
\* secondary reference is not excluded.
Proposable(c) == c.status # "REJECTED"

RankAndFilter(candidates) ==
  LET list   == [i \in DOMAIN candidates |-> Filtered(candidates[i])]
      order  == Order([i \in DOMAIN list |-> Key(list[i])])
      sorted == [r \in DOMAIN order |-> list[order[r]]]
      Proposed(r) == Proposable(sorted[r]) /\ \A q \in 1..(r - 1) : ~Proposable(sorted[q])
  IN [r \in DOMAIN sorted |-> IF Proposed(r) THEN [sorted[r] EXCEPT !.status = "PROPOSED"]
                              ELSE sorted[r]]
===============================================================================
