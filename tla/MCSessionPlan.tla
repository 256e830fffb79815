----------------------------- MODULE MCSessionPlan -----------------------------
(* TLC instance: a universe of two symbols, the trades a day may bring and the *)
(* indicators and evidence of a morning.                                       *)
EXTENDS SessionPlan

MCSymbols == << "INFY", "TCS" >>

Fresh == [DefaultSetup EXCEPT !.adx = 320, !.rvol = 260]
Exhausted == [DefaultSetup EXCEPT !.rsi = 750]
\* One symbol breaks out afresh, one is exhausted; the setup without indicators
\* comes with ConfirmOpeningWatchlist.
MCMornings == { [s \in {"INFY", "TCS"} |-> IF s = "TCS" THEN Fresh ELSE Exhausted] }

MCEvidences ==
  { [symbol |-> "TCS", template |-> 1, row |->
       [source |-> "ALGOVERSE", trades |-> 10, win |-> 620, ratio |-> 200, drawdown |-> 350]],
    [symbol |-> "TCS", template |-> 2, row |->
       [source |-> "IN_HOUSE_ENGINE", trades |-> 40, win |-> 700, ratio |-> 300,
        drawdown |-> 100]] }

Trade(s, exit, pnl, fill) ==
  [ symbol |-> s, exit |-> exit, pnl |-> pnl, signal |-> 1000, fill |-> fill, stop |-> 990,
    target |-> 1020, aligned |-> TRUE, sectorRank |-> 1, adx |-> 250, rsi |-> 600,
    rvol |-> 120, ranging |-> TRUE, breakout |-> FALSE ]

MCLosses == { Trade("INFY", "STOP_LOSS", 0, 1000), Trade("TCS", "MAX_HOLD", -1100, 1016) }
===============================================================================
