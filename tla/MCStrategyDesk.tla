----------------------------- MODULE MCStrategyDesk -----------------------------
(* TLC instance: what the evaluations of the five candidates may find.         *)
EXTENDS StrategyDesk

NoBars == [trades |-> 0]

Measured(trades, win, gain, traded) ==
  [ trades |-> trades, win |-> win, avgWin |-> gain, avgLoss |-> 200, drawdown |-> 600,
    pnl |-> 6000, ratio |-> gain \div 2, stability |-> 800, traded |-> traded ]

Closed(pnl, value) == [side |-> "LONG", pnl |-> pnl, value |-> value]

\* Paper trades of which most lost, and nothing for the short side; or bars for
\* two candidates, one of them with a turnover whose charges eat the profit, and
\* nothing to measure the others by.
MCHistories ==
  { [bars |-> [id \in InHouse |-> NoBars],
     closed |-> [i \in 1..31 |-> Closed(IF i % 3 = 0 THEN 90 ELSE -50, 60000)]],
    [bars |-> [id \in InHouse |-> IF id = "beta" THEN Measured(40, 600, 400, 30000)
                                  ELSE IF id = "delta" THEN Measured(32, 550, 380, 900000)
                                  ELSE NoBars],
     closed |-> << >>] }

MCImported == { Measured(50, 650, 500, 50000) }
===============================================================================
