----------------------------- MODULE MCDailyIntel -----------------------------
(* TLC instance: an equity category, the ETF and the option spread after a     *)
(* holiday, over three sessions.                                              *)
EXTENDS DailyIntel

MCCategories == {"INTRADAY", "ETF", "OPTIONS"}

MCKinds ==
  [cat \in MCCategories |-> CASE cat = "INTRADAY" -> {"both", "target"}
                              [] cat = "ETF" -> {"quiet"}
                              [] cat = "OPTIONS" -> {"quiet"}]

Mood(state, uptrend, candidates) ==
  [state |-> state, uptrend |-> uptrend, macro |-> FALSE, firstOfMonth |-> FALSE,
   candidates |-> candidates]

MCMoods == {Mood("RISK_ON", TRUE, {"INTRADAY"}), Mood("NEUTRAL", FALSE, {"INTRADAY"})}

MCCalls == {"call"}
MCSessions == {2, 3, 4}
MCMaxHold == [cat \in MCCategories |-> 1]
===============================================================================
