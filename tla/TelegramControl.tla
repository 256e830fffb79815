---------------------------- MODULE TelegramControl ----------------------------
(* The operator's commands (scripts/telegram_control.py): Telegram keeps an    *)
(* update until a poll asks for a later one; the controller keeps the offset   *)
(* and the pause flag in memory, takes a batch one update after the other and   *)
(* loses both when the process ends.                                           *)
EXTENDS Integers, Sequences, SequencesExt, FiniteSets

CONSTANTS
  Commands,      \* what the chat may send
  MaxUpdates,    \* bound: updates sent
  MaxCrashes     \* bound: deaths of the process other than by /restart

ASSUME TelegramControlAssumption == MaxUpdates \in Nat /\ MaxCrashes \in Nat

VARIABLES
  sent,          \* the updates of the chat, update n at place n
  confirmed,     \* Telegram: no update before this one is delivered again
  up,            \* the process runs
  offset, batch, \* memory: the offset of the next poll, the updates still to take
  decision,      \* a /resume or reset between its loss query and its effect
  exiting,       \* /restart has started the thread that ends the process
  paused,        \* settings.execution_paused
  scans,         \* re-scan threads running
  lossHit,       \* the closed trades of the day have reached the loss limit
  taken, ever,   \* ghost: updates taken by this process, by any
  crashes

memory == << offset, batch, decision, exiting, paused, scans, taken >>
vars == << sent, confirmed, up, memory, lossHit, ever, crashes >>

Later(a, b) == IF a < b THEN b ELSE a

-------------------------------------------------------------------------------
(* The chat and the trades.                                                    *)

Send(c) ==
  /\ Len(sent) < MaxUpdates
  /\ sent' = Append(sent, c)
  /\ UNCHANGED << confirmed, up, memory, lossHit, ever, crashes >>

LossReached ==
  /\ ~lossHit
  /\ lossHit' = TRUE
  /\ UNCHANGED << sent, confirmed, up, memory, ever, crashes >>

-------------------------------------------------------------------------------
(* _poll_loop.                                                                 *)

Free == up /\ batch = << >> /\ decision = "none"

\* Mutant: the offset moves when the batch arrives.
OffsetOfBatch(updates) ==
  IF updates = << >> THEN offset ELSE updates[Len(updates)] + 1

OffsetAfterFetch(updates) == offset

Unconfirmed(from) == [i \in 1..Later(0, Len(sent) - from + 1) |-> from + i - 1]

\* getUpdates confirms everything before the offset, also when its answer is lost.
\* While the process is about to exit the loop is in its sleep of two seconds.
Poll ==
  /\ Free /\ ~exiting
  /\ confirmed' = Later(confirmed, offset)
  /\ \/ /\ batch' = Unconfirmed(confirmed')
        /\ offset' = OffsetAfterFetch(batch')
     \/ UNCHANGED << batch, offset >>
  /\ UNCHANGED << sent, up, decision, exiting, paused, scans, lossHit, taken, ever, crashes >>

PollAnswered == Poll /\ batch' # << >>

\* Mutant: the offset is that of the update itself.
OffsetOfUpdate(u) == Later(offset, u)

OffsetPast(u) == Later(offset, u + 1)

-------------------------------------------------------------------------------
(* _process_update and the replies.                                            *)

\* An update the code cannot read raises, and the rest of the batch is left to the
\* next poll.
RestOfBatch(c) == IF c = "malformed" THEN << >> ELSE Tail(batch)

\* /resume and the reset of the freeze ask for the loss of the day first; a query
\* that fails counts as no loss.
Decisions(c) ==
  IF c \in {"resume", "reset"} THEN {IF lossHit THEN "refuse" ELSE "clear", "clear"}
  ELSE {"none"}

TakeUpdate ==
  /\ up /\ batch # << >> /\ decision = "none"
  /\ LET u == Head(batch)  c == sent[u] IN
       /\ offset' = OffsetPast(u)
       /\ batch' = RestOfBatch(c)
       /\ decision' \in Decisions(c)
       /\ exiting' = (exiting \/ c = "restart")
       /\ paused' = (paused \/ c = "pause")
       /\ scans' = IF c = "rescan" THEN scans + 1 ELSE scans
       /\ taken' = taken \cup {u}
       /\ ever' = ever \cup {u}
  /\ UNCHANGED << sent, confirmed, up, lossHit, crashes >>

\* The second half of /resume and of the reset: the flag is set outside the lock.
Decide ==
  /\ up /\ decision # "none"
  /\ paused' = (decision = "refuse" /\ paused)
  /\ decision' = "none"
  /\ UNCHANGED << sent, confirmed, up, offset, batch, exiting, scans, lossHit, taken, ever,
                  crashes >>

RescanEnds ==
  /\ up /\ scans > 0
  /\ scans' = scans - 1
  /\ UNCHANGED << sent, confirmed, up, offset, batch, decision, exiting, paused, lossHit,
                  taken, ever, crashes >>

-------------------------------------------------------------------------------
(* The end of a process and the next one.                                      *)

Down ==
  /\ up /\ up' = FALSE
  /\ UNCHANGED << sent, confirmed, memory, lossHit, ever >>

\* delayed_exit: one second after /restart, whatever the poll thread does.
DelayedExit == exiting /\ Down /\ UNCHANGED crashes

Crash == crashes < MaxCrashes /\ crashes' = crashes + 1 /\ Down

\* Mutant: deleteWebhook drops what is pending.
DropPending == Len(sent) + 1

ConfirmedAtStart == confirmed

\* start() in a new process: systemd starts it again.
StartController ==
  /\ ~up /\ up' = TRUE
  /\ offset' = 0 /\ batch' = << >> /\ decision' = "none" /\ exiting' = FALSE
  /\ paused' = FALSE /\ scans' = 0 /\ taken' = {}
  /\ confirmed' = ConfirmedAtStart
  /\ UNCHANGED << sent, lossHit, ever, crashes >>

-------------------------------------------------------------------------------
Init ==
  /\ sent = << >> /\ confirmed = 1 /\ up = TRUE
  /\ offset = 0 /\ batch = << >> /\ decision = "none" /\ exiting = FALSE
  /\ paused = FALSE /\ scans = 0 /\ lossHit = FALSE
  /\ taken = {} /\ ever = {} /\ crashes = 0

Next ==
  \/ \E c \in Commands : Send(c)
  \/ LossReached
  \/ Poll \/ TakeUpdate \/ Decide \/ RescanEnds
  \/ DelayedExit \/ Crash \/ StartController

Spec == Init /\ [][Next]_vars

\* The thread runs, systemd restarts, and some poll is answered.
FairSpec ==
  /\ Spec
  /\ WF_vars(PollAnswered) /\ WF_vars(TakeUpdate) /\ WF_vars(Decide)
  /\ WF_vars(DelayedExit) /\ WF_vars(StartController)

-------------------------------------------------------------------------------
(* Properties.                                                                 *)

\* What Telegram will not deliver again has been taken by some process: no crash
\* between a poll and the last update of its batch, no lost answer and no update
\* that raises makes the controller skip an update.
NoUpdateIsSkipped == \A u \in 1..MaxUpdates : u < confirmed => u \in ever

\* A process never takes an update twice; only a new process, which starts from
\* offset 0, sees again what was not confirmed.
RepeatsNeedRestart ==
  \A i \in DOMAIN batch : batch[i] \notin taken /\ \A j \in 1..(i - 1) : batch[j] < batch[i]

\* Every command is carried out, through crashes, lost answers and unreadable
\* updates, as long as no /restart was sent before it.  (After a /restart the
\* process may exit again and again before it comes to the next command.)
EveryUpdateIsTaken ==
  \A u \in 1..MaxUpdates :
    (u <= Len(sent) /\ \A v \in 1..(u - 1) : sent[v] # "restart") ~> (u \in ever)

===============================================================================
