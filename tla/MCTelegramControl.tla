--------------------------- MODULE MCTelegramControl ---------------------------
(* TLC instance: the commands that differ in what they do to the process.     *)
EXTENDS TelegramControl

\* "status" stands for every command that only replies, and for an update of
\* another chat.
MCCommands ==
  {"pause", "resume", "reset", "restart", "rescan", "malformed", "status"}
===============================================================================
