---------------------------- MODULE MCFeedHealth -----------------------------
(***************************************************************************)
(* Values for the constants of FeedHealth that a .cfg cannot write down.   *)
(***************************************************************************)
EXTENDS FeedHealth

\* The market opens after the first tick of the clock.
AfterFirst == 2..MaxNow
=============================================================================
