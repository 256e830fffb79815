---------------------------- MODULE MCPaperWorker ----------------------------
(***************************************************************************)
(* Values for the constants of PaperWorker that a .cfg cannot write down.  *)
(***************************************************************************)
EXTENDS PaperWorker

\* The last monitor slot and the last full scan.
LastMinutes == 919..920
\* A monitor minute, the first full scan and a monitor minute.
FirstMinutes == 574..576
=============================================================================
