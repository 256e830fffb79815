---------------------------- MODULE MCTradePipeline ----------------------------
(* TLC instance: rows, instruments and the order in which operations come.    *)
EXTENDS TradePipeline
===============================================================================
