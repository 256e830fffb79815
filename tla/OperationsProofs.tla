------------------------- MODULE OperationsProofs -------------------------
(***************************************************************************)
(* Proofs about two services that run beside the paper cycle: Telegram's   *)
(* control poller (TelegramControl) and the feed with its health record    *)
(* (FeedHealth).  They share no variable; the names of FeedHealth's own    *)
(* specification begin with Feed.                                          *)
(***************************************************************************)
EXTENDS TelegramControl, FeedHealth, SequenceTheorems, TLAPS

-----------------------------------------------------------------------------
(* TelegramControl: the offset and the updates taken *)

\* The parts of the state the argument is about.
UpdatesType ==
  /\ sent \in Seq(Commands)
  /\ confirmed \in Nat \ {0} /\ offset \in Nat
  /\ batch \in Seq(Nat \ {0})

\* A batch is a run of updates without a gap, none of them before the offset.
BatchIsRun ==
  \A i \in DOMAIN batch : batch[i] = batch[1] + i - 1 /\ batch[i] >= offset

\* Whatever lies before the offset, before what Telegram keeps, or before the
\* next update of the batch has been taken by some process ...
PastIsTaken ==
  \A u \in Nat \ {0} :
    u < offset \/ u < confirmed \/ (batch # << >> /\ u < batch[1]) => u \in ever

\* ... and this process has taken only updates before its offset.
TakenIsPast == \A u \in taken : u \in Nat /\ u < offset

UpdatesInv == UpdatesType /\ BatchIsRun /\ PastIsTaken /\ TakenIsPast

\* A sequence with a place i has a first place.
LEMMA PlaceInSequence ==
  ASSUME NEW S, NEW s \in Seq(S), NEW i \in DOMAIN s
  PROVE  i \in Nat /\ i >= 1 /\ s # << >> /\ 1 \in DOMAIN s
<1>1. DOMAIN s = 1..Len(s) /\ Len(s) \in Nat
  OBVIOUS
<1> QED
  BY <1>1

\* The initial state of the controller satisfies the invariant.
LEMMA UpdatesInit == Init => UpdatesInv
BY DEF Init, UpdatesInv, UpdatesType, BatchIsRun, PastIsTaken, TakenIsPast

\* The run of updates that an answered poll delivers.
LEMMA UnconfirmedIsRun ==
  ASSUME NEW from \in Nat \ {0}, Len(sent) \in Nat
  PROVE  /\ Unconfirmed(from) \in Seq(Nat \ {0})
         /\ \A i \in DOMAIN Unconfirmed(from) : Unconfirmed(from)[i] = from + i - 1
         /\ Unconfirmed(from) # << >> => Unconfirmed(from)[1] = from
<1> DEFINE n == Later(0, Len(sent) - from + 1)
<1>1. n \in Nat
  BY DEF Later
<1>2. \A i \in 1..n : from + i - 1 \in Nat \ {0}
  BY <1>1
<1>3. Unconfirmed(from) = [i \in 1..n |-> from + i - 1]
  BY DEF Unconfirmed
<1>4. Unconfirmed(from) \in Seq(Nat \ {0}) /\ DOMAIN Unconfirmed(from) = 1..n
  BY <1>1, <1>2, <1>3
<1>5. Unconfirmed(from) # << >> => 1 \in 1..n
  BY <1>1, <1>3
<1> QED
  BY <1>1, <1>2, <1>3, <1>4, <1>5

\* A poll confirms no more than what was taken and fetches what follows it.
LEMMA PollStep == UpdatesInv /\ Poll => UpdatesInv'
<1> SUFFICES ASSUME UpdatesInv, Poll PROVE UpdatesInv'
  OBVIOUS
<1> USE DEF UpdatesInv
<1>1. /\ confirmed' \in Nat \ {0} /\ confirmed' >= offset /\ confirmed' >= confirmed
      /\ confirmed' \in {offset, confirmed}
  BY DEF Poll, Later, UpdatesType
<1>2. \A u \in Nat \ {0} : u < confirmed' => u \in ever
  BY <1>1 DEF PastIsTaken
<1>3. CASE UNCHANGED << batch, offset >>
  <2>1. batch = << >>
    BY DEF Poll, Free
  <2> QED
    BY <1>1, <1>2, <1>3, <2>1 DEF Poll, UpdatesType, BatchIsRun, PastIsTaken, TakenIsPast
<1>4. CASE batch' = Unconfirmed(confirmed') /\ offset' = OffsetAfterFetch(batch')
  <2>1. offset' = offset /\ sent' = sent /\ taken' = taken /\ ever' = ever
    BY <1>4 DEF Poll, OffsetAfterFetch
  <2>2. /\ batch' \in Seq(Nat \ {0})
        /\ \A i \in DOMAIN batch' : batch'[i] = confirmed' + i - 1
        /\ batch' # << >> => batch'[1] = confirmed'
    BY <1>1, <1>4, UnconfirmedIsRun DEF UpdatesType
  <2>3. UpdatesType'
    BY <1>1, <2>1, <2>2 DEF UpdatesType
  <2>4. BatchIsRun'
    <3> SUFFICES ASSUME NEW i \in DOMAIN batch'
                 PROVE  batch'[i] = batch'[1] + i - 1 /\ batch'[i] >= offset'
      BY DEF BatchIsRun
    <3>1. i \in Nat /\ i >= 1 /\ batch' # << >>
      BY <2>2, PlaceInSequence
    <3>2. batch'[i] = confirmed' + i - 1 /\ batch'[1] = confirmed'
      BY <2>2, <3>1
    <3> QED
      BY <1>1, <2>1, <3>1, <3>2 DEF UpdatesType
  <2>5. PastIsTaken'
    BY <1>1, <1>2, <2>1, <2>2 DEF PastIsTaken
  <2>6. TakenIsPast'
    BY <2>1 DEF TakenIsPast
  <2> QED
    BY <2>3, <2>4, <2>5, <2>6
<1> QED
  BY <1>3, <1>4 DEF Poll

\* Taking an update moves the offset past it, also when the update raises.
LEMMA TakeUpdateStep == UpdatesInv /\ TakeUpdate => UpdatesInv'
<1> SUFFICES ASSUME UpdatesInv, TakeUpdate PROVE UpdatesInv'
  OBVIOUS
<1> USE DEF UpdatesInv
<1> DEFINE u == batch[1]
<1>1. batch # << >> /\ Head(batch) = u
  BY DEF TakeUpdate, UpdatesType
<1>2. u \in Nat \ {0} /\ 1 \in DOMAIN batch /\ u >= offset
  BY <1>1 DEF UpdatesType, BatchIsRun
<1>3. /\ offset' = u + 1 /\ sent' = sent /\ confirmed' = confirmed
      /\ taken' = taken \cup {u} /\ ever' = ever \cup {u}
  BY <1>1, <1>2 DEF TakeUpdate, OffsetPast, Later, UpdatesType
<1>4. batch' = << >> \/ batch' = Tail(batch)
  BY DEF TakeUpdate, RestOfBatch
<1>5. batch' \in Seq(Nat \ {0})
  <2>1. Tail(batch) \in Seq(Nat \ {0})
    BY <1>1, HeadTailProperties DEF UpdatesType
  <2>2. << >> \in Seq(Nat \ {0})
    OBVIOUS
  <2> QED
    BY <1>4, <2>1, <2>2
<1>6. \A i \in DOMAIN batch' : i \in Nat /\ batch'[i] = u + i
  <2> SUFFICES ASSUME NEW i \in DOMAIN batch' PROVE i \in Nat /\ batch'[i] = u + i
    OBVIOUS
  <2>1. batch' = Tail(batch)
    BY <1>4
  <2>2. i \in Nat /\ i + 1 \in DOMAIN batch /\ batch'[i] = batch[i + 1]
    BY <1>1, <2>1 DEF UpdatesType
  <2> QED
    BY <1>2, <2>2 DEF BatchIsRun
<1>7. BatchIsRun'
  <2> SUFFICES ASSUME NEW i \in DOMAIN batch'
               PROVE  batch'[i] = batch'[1] + i - 1 /\ batch'[i] >= offset'
    BY DEF BatchIsRun
  <2>1. i >= 1 /\ 1 \in DOMAIN batch'
    BY <1>5, PlaceInSequence
  <2> QED
    BY <1>2, <1>3, <1>6, <2>1
<1>8. batch' # << >> => batch'[1] = u + 1
  <2>1. batch' # << >> => 1 \in DOMAIN batch'
    BY <1>5
  <2> QED
    BY <1>2, <1>6, <2>1
<1>9. PastIsTaken'
  <2> SUFFICES ASSUME NEW v \in Nat \ {0},
                      v < offset' \/ v < confirmed' \/ (batch' # << >> /\ v < batch'[1])
               PROVE  v \in ever'
    BY DEF PastIsTaken
  <2>1. v < confirmed \/ v < u \/ v = u
    BY <1>2, <1>3, <1>8
  <2> QED
    BY <1>1, <1>3, <2>1 DEF PastIsTaken
<1>10. TakenIsPast'
  BY <1>2, <1>3 DEF TakenIsPast, UpdatesType
<1> QED
  BY <1>2, <1>3, <1>5, <1>7, <1>9, <1>10 DEF UpdatesType

\* A new process begins with nothing taken, and nothing confirmed since.
LEMMA StartStep == UpdatesInv /\ StartController => UpdatesInv'
BY DEF UpdatesInv, UpdatesType, BatchIsRun, PastIsTaken, TakenIsPast, StartController, ConfirmedAtStart

\* Every step preserves the invariant.
LEMMA UpdatesStep == UpdatesInv /\ [Next]_vars => UpdatesInv'
<1> SUFFICES ASSUME UpdatesInv, [Next]_vars PROVE UpdatesInv'
  OBVIOUS
<1> DEFINE view == << confirmed, offset, batch, taken, ever >>
<1>1. ASSUME view' = view, sent' \in Seq(Commands) PROVE UpdatesInv'
  BY <1>1 DEF UpdatesInv, UpdatesType, BatchIsRun, PastIsTaken, TakenIsPast
<1>2. CASE UNCHANGED vars
  BY <1>1, <1>2 DEF vars, memory, UpdatesInv, UpdatesType
<1>3. CASE \E c \in Commands : Send(c)
  BY <1>1, <1>3 DEF Send, memory, UpdatesInv, UpdatesType
<1>4. CASE LossReached \/ Decide \/ RescanEnds \/ DelayedExit \/ Crash
  <2>1. view' = view /\ sent' = sent
    BY <1>4 DEF LossReached, Decide, RescanEnds, DelayedExit, Crash, Down, memory
  <2> QED
    BY <1>1, <2>1 DEF UpdatesInv, UpdatesType
<1>5. CASE Poll
  BY <1>5, PollStep
<1>6. CASE TakeUpdate
  BY <1>6, TakeUpdateStep
<1>7. CASE StartController
  BY <1>7, StartStep
<1> QED
  BY <1>2, <1>3, <1>4, <1>5, <1>6, <1>7 DEF Next

\* The offset, the batch and what Telegram keeps agree on what was taken.
THEOREM OffsetFollowsUpdates == Spec => []UpdatesInv
BY UpdatesInit, UpdatesStep, PTL DEF Spec

\* No crash, lost answer or unreadable update makes the controller skip an
\* update: what Telegram will not deliver again has been taken.
THEOREM UpdatesAreNotSkipped == Spec => []NoUpdateIsSkipped
<1>1. UpdatesInv => NoUpdateIsSkipped
  BY TelegramControlAssumption DEF UpdatesInv, PastIsTaken, NoUpdateIsSkipped
<1> QED
  BY <1>1, OffsetFollowsUpdates, PTL

\* One process takes every update at most once, in the order they were sent.
THEOREM UpdatesRepeatOnlyAfterRestart == Spec => []RepeatsNeedRestart
<1>1. UpdatesInv => RepeatsNeedRestart
  <2> SUFFICES ASSUME UpdatesInv, NEW i \in DOMAIN batch
               PROVE  /\ batch[i] \notin taken
                      /\ \A j \in 1..(i - 1) : batch[j] < batch[i]
    BY DEF RepeatsNeedRestart
  <2>1. batch[i] \in Nat /\ offset \in Nat /\ i \in 1..Len(batch) /\ batch[1] \in Nat
    BY DEF UpdatesInv, UpdatesType
  <2>2. batch[i] \notin taken
    BY <2>1 DEF UpdatesInv, BatchIsRun, TakenIsPast
  <2>3. ASSUME NEW j \in 1..(i - 1) PROVE batch[j] < batch[i]
    <3>1. j \in DOMAIN batch
      BY <2>1, <2>3 DEF UpdatesInv, UpdatesType
    <3> QED
      BY <2>1, <2>3, <3>1 DEF UpdatesInv, BatchIsRun
  <2> QED
    BY <2>2, <2>3
<1> QED
  BY <1>1, OffsetFollowsUpdates, PTL

-----------------------------------------------------------------------------
(* FeedHealth: the alerts, then the bars *)

Alerts == [Deps -> {"NONE", "FAILURE", "RECOVERED"}]

Stages == {"start", "idle", "flush", "store", "health", "report", "notify", "send", "reset"}
Reports == [kind: {"FAILURE", "RECOVERED"}, dep: Deps, back: {"start", "idle"}]

\* The feed holds reports exactly while it reports, and goes back to its start
\* only with nothing pending.
ReportsInv ==
  /\ at \in [Threads -> Stages]
  /\ todo \in Seq(Reports)
  /\ (todo # <<>>) <=> at[Feed] \in {"report", "notify", "send"}
  /\ failures \subseteq Deps
  /\ active \in Alerts /\ saved \in Alerts /\ told \in Alerts
  /\ flawed \in BOOLEAN

\* Unless the state file has failed, the memory knows no more than the file, and
\* the file is what was told but for the message that is going out.
FileInv ==
  ~flawed =>
    /\ \A d \in Deps : active[d] # "NONE" => saved[d] # "NONE"
    /\ saved = IF at[Feed] = "send" THEN [told EXCEPT ![Head(todo).dep] = Head(todo).kind] ELSE told

\* A failure known to the manager was told, or is about to be; a recovery that
\* goes out is of a dependency the manager has dropped.
ToldInv ==
  /\ ~flawed => \A d \in failures :
       \/ told[d] = "FAILURE"
       \/ /\ at[Feed] \in {"notify", "send"}
          /\ Head(todo).dep = d /\ Head(todo).kind = "FAILURE"
  /\ at[Feed] \in {"notify", "send"} /\ Head(todo).kind = "RECOVERED" => Head(todo).dep \notin failures

AlertInv == ReportsInv /\ FileInv /\ ToldInv

\* The feed is one of the threads.
LEMMA FeedIsThread == Feed \in Threads
BY DEF Feed, Threads

\* At the first start nothing has failed and nothing was told.
LEMMA HealthInit == FeedInit => AlertInv
<1> SUFFICES ASSUME FeedInit PROVE AlertInv OBVIOUS
<1>1. at[Feed] = "start" /\ at \in [Threads -> Stages]
  BY FeedIsThread DEF FeedInit, Stages, Feed
<1>2. active \in Alerts /\ active = saved /\ told = saved /\ failures = {} /\ todo = <<>>
  BY DEF FeedInit, Alerts, NoIncidents, Deps
<1>3. flawed = FALSE /\ todo \in Seq(Reports) BY <1>2 DEF FeedInit
<1>4. ReportsInv BY <1>1, <1>2, <1>3 DEF ReportsInv
<1>5. FileInv BY <1>1, <1>2 DEF FileInv
<1>6. ToldInv BY <1>1, <1>2 DEF ToldInv
<1> QED BY <1>4, <1>5, <1>6 DEF AlertInv

\* The first report of the list.
LEMMA HeadOfReports ==
  ASSUME AlertInv, todo # <<>>
  PROVE  /\ Head(todo) \in Reports /\ Tail(todo) \in Seq(Reports)
         /\ Len(todo) = 1 <=> Tail(todo) = <<>>
         /\ Current = Head(todo)
<1>1. todo \in Seq(Reports) BY DEF AlertInv, ReportsInv
<1>2. Head(todo) \in Reports /\ Tail(todo) \in Seq(Reports) /\ Len(Tail(todo)) = Len(todo) - 1
  BY <1>1, HeadTailProperties
<1>3. Len(todo) \in Nat /\ Len(<<>>) = 0 BY <1>1, EmptySeq
<1>4. Tail(todo) # <<>> => Len(Tail(todo)) # 0 BY <1>2, EmptySeq
<1>5. Len(todo) = 1 <=> Tail(todo) = <<>> BY <1>2, <1>3, <1>4
<1> QED BY <1>2, <1>5 DEF Current

\* Going on to the next report, or back to where the list was made.
LEMMA NextReportMoves ==
  ASSUME AlertInv, todo # <<>>, NextReport
  PROVE  /\ at' \in [Threads -> Stages] /\ todo' \in Seq(Reports)
         /\ at'[Feed] \in {"start", "idle", "report"}
         /\ (todo' # <<>>) <=> at'[Feed] = "report"
         /\ \A t \in Threads : t # Feed => at'[t] = at[t]
<1>1. /\ Head(todo).back \in {"start", "idle"} /\ Tail(todo) \in Seq(Reports)
      /\ Len(todo) = 1 <=> Tail(todo) = <<>>
  BY HeadOfReports DEF Reports
<1>2. at' = [at EXCEPT ![Feed] = IF Len(todo) = 1 THEN Head(todo).back ELSE "report"] /\ todo' = Tail(todo)
  BY DEF NextReport, Go, Current, Feed
<1> QED BY <1>1, <1>2 DEF AlertInv, ReportsInv, Stages, Threads, Feed

\* Steps of the feed that make no report.
LEMMA QuietStep ==
  ASSUME AlertInv, UNCHANGED <<todo, active, saved, told, flawed>>,
         failures' \subseteq failures, at' \in [Threads -> Stages],
         \/ at'[Feed] = at[Feed]
         \/ todo = <<>> /\ at'[Feed] \in Stages \ {"report", "notify", "send"}
  PROVE  AlertInv'
<1>1. at[Feed] \in {"report", "notify", "send"} <=> at'[Feed] \in {"report", "notify", "send"}
  BY DEF AlertInv, ReportsInv
<1>2. at'[Feed] = at[Feed] \/ at[Feed] \notin {"report", "notify", "send"}
  BY DEF AlertInv, ReportsInv
<1>3. ReportsInv' BY <1>1 DEF AlertInv, ReportsInv
<1>4. FileInv' BY <1>1, <1>2 DEF AlertInv, FileInv
<1>5. ToldInv' BY <1>1, <1>2 DEF AlertInv, ToldInv
<1> QED BY <1>3, <1>4, <1>5 DEF AlertInv

\* Steps of the feed that make reports, which nobody has heard of yet.
LEMMA ReportsMade ==
  ASSUME AlertInv, UNCHANGED <<failures, active, saved, told, flawed>>, todo = <<>>,
         at' \in [Threads -> Stages], at'[Feed] = "report",
         todo' \in Seq(Reports), todo' # <<>>
  PROVE  AlertInv'
<1>1. at[Feed] \notin {"report", "notify", "send"} BY DEF AlertInv, ReportsInv
<1> QED BY <1>1 DEF AlertInv, ReportsInv, FileInv, ToldInv

\* A failure is a new list of reports, and so is a recovery.
LEMMA FailureIsReport ==
  ASSUME NEW dep \in Deps, NEW back \in {"start", "idle"}, Fails(dep, back)
  PROVE  todo' \in Seq(Reports) /\ todo' # <<>>
BY DEF Fails, Report, Reports

\* A recovery is a report, too.
LEMMA RecoveryIsReport ==
  ASSUME Recovers
  PROVE  todo' \in Seq(Reports) /\ todo' # <<>>
BY DEF Recovers, Report, Reports, Deps

\* A failure is told before its dependency counts as failed.
LEMMA ReportFailureStep == ASSUME AlertInv, ReportFailure PROVE AlertInv'
<1> DEFINE r == Head(todo)
<1>1. /\ at[Feed] = "report" /\ todo # <<>> /\ UNCHANGED <<active, saved, told, flawed>>
  BY DEF ReportFailure, incidents, AlertInv, ReportsInv, Feed
<1>2. r \in Reports /\ Current = r BY <1>1, HeadOfReports
<1>3. r.kind = "FAILURE" /\ r.dep \in Deps /\ failures' = failures \cup {r.dep}
  BY <1>2 DEF ReportFailure, Reports
<1>4. CASE r.dep \in failures
  <2>1. NextReport BY <1>2, <1>4 DEF ReportFailure, Failing
  <2>2. /\ at' \in [Threads -> Stages] /\ todo' \in Seq(Reports)
        /\ at'[Feed] \in {"start", "idle", "report"}
        /\ (todo' # <<>>) <=> at'[Feed] = "report"
    BY <1>1, <2>1, NextReportMoves
  <2>3. failures' = failures BY <1>3, <1>4
  <2> HIDE DEF r
  <2> QED BY <1>1, <2>2, <2>3 DEF AlertInv, ReportsInv, FileInv, ToldInv
<1>5. CASE r.dep \notin failures
  <2>1. todo' = todo /\ at' = [at EXCEPT ![Feed] = "notify"]
    BY <1>2, <1>5 DEF ReportFailure, Failing, Go, Feed
  <2>2. at' \in [Threads -> Stages] /\ at'[Feed] = "notify"
    BY <2>1, FeedIsThread DEF AlertInv, ReportsInv, Stages
  <2> QED BY <1>1, <1>3, <2>1, <2>2 DEF AlertInv, ReportsInv, FileInv, ToldInv
<1> QED BY <1>4, <1>5

\* A recovery goes out when its dependency counts as failed no longer.
LEMMA ReportRecoveryStep == ASSUME AlertInv, ReportRecovery PROVE AlertInv'
<1> DEFINE r == Head(todo)
<1>1. /\ at[Feed] = "report" /\ todo # <<>> /\ UNCHANGED <<active, saved, told, flawed>>
  BY DEF ReportRecovery, incidents, AlertInv, ReportsInv, Feed
<1>2. r \in Reports /\ Current = r BY <1>1, HeadOfReports
<1>3. r.kind = "RECOVERED" /\ r.dep \in Deps /\ failures' = failures \ {r.dep}
  BY <1>2 DEF ReportRecovery, Reports
<1>4. CASE r.dep \notin failures
  <2>1. NextReport BY <1>2, <1>4 DEF ReportRecovery, Failing
  <2>2. /\ at' \in [Threads -> Stages] /\ todo' \in Seq(Reports)
        /\ at'[Feed] \in {"start", "idle", "report"}
        /\ (todo' # <<>>) <=> at'[Feed] = "report"
    BY <1>1, <2>1, NextReportMoves
  <2>3. failures' = failures BY <1>3, <1>4
  <2> HIDE DEF r
  <2> QED BY <1>1, <2>2, <2>3 DEF AlertInv, ReportsInv, FileInv, ToldInv
<1>5. CASE r.dep \in failures
  <2>1. todo' = todo /\ at' = [at EXCEPT ![Feed] = "notify"]
    BY <1>2, <1>5 DEF ReportRecovery, Failing, Go, Feed
  <2>2. at' \in [Threads -> Stages] /\ at'[Feed] = "notify"
    BY <2>1, FeedIsThread DEF AlertInv, ReportsInv, Stages
  <2> QED BY <1>1, <1>3, <2>1, <2>2 DEF AlertInv, ReportsInv, FileInv, ToldInv
<1> QED BY <1>4, <1>5

\* What an undisturbed process knows is what the file says.
LEMMA LoadedIsSaved ==
  ASSUME AlertInv, ~flawed
  PROVE  Loaded = saved
BY DEF AlertInv, ReportsInv, FileInv, Loaded, Alerts, Deps

\* The record is written before its message is sent.
LEMMA MarkIncidentStep == ASSUME AlertInv, MarkIncident PROVE AlertInv'
<1> DEFINE r == Head(todo)
<1>1. /\ at[Feed] = "notify" /\ todo # <<>> /\ UNCHANGED <<failures, told>>
  BY DEF MarkIncident, AlertInv, ReportsInv, Feed
<1>2. r \in Reports /\ Current = r BY <1>1, HeadOfReports
<1>3. r.kind \in {"FAILURE", "RECOVERED"} /\ r.dep \in Deps BY <1>2 DEF Reports
<1>4. Loaded \in Alerts
  BY DEF Loaded, AlertInv, ReportsInv, Alerts, Deps
<1>5. active \in Alerts /\ saved \in Alerts /\ told \in Alerts BY DEF AlertInv, ReportsInv
<1>6. PICK known \in {Loaded} \cup Faults({active}) :
        IF (known[r.dep] = "FAILURE") = (r.kind = "FAILURE")
        THEN /\ active' = known
             /\ flawed' = (flawed \/ known # Loaded)
             /\ NextReport /\ saved' = saved
        ELSE /\ active' = [known EXCEPT ![r.dep] = r.kind]
             /\ saved' \in {active'} \cup Faults({saved, NoIncidents})
             /\ flawed' = (flawed \/ known # Loaded \/ saved' # active')
             /\ Go(Feed, "send") /\ todo' = todo
  BY <1>2 DEF MarkIncident, Feed
<1>7. known \in Alerts /\ flawed' \in BOOLEAN BY <1>4, <1>5, <1>6 DEF Faults, AlertInv, ReportsInv
<1>8. CASE (known[r.dep] = "FAILURE") = (r.kind = "FAILURE")
  <2>1. active' = known /\ saved' = saved /\ flawed' = (flawed \/ known # Loaded)
    BY <1>6, <1>8
  <2>2. /\ at' \in [Threads -> Stages] /\ todo' \in Seq(Reports)
        /\ at'[Feed] \in {"start", "idle", "report"}
        /\ (todo' # <<>>) <=> at'[Feed] = "report"
    BY <1>1, <1>6, <1>8, NextReportMoves
  <2>3. ReportsInv' BY <1>1, <1>5, <1>7, <2>1, <2>2 DEF AlertInv, ReportsInv
  <2>4. ASSUME ~flawed' PROVE ~flawed /\ known = saved /\ saved = told
    BY <1>1, <2>1, <2>4, LoadedIsSaved DEF AlertInv, FileInv
  <2>5. FileInv' BY <1>1, <2>1, <2>2, <2>4 DEF FileInv
  <2>6. ASSUME ~flawed', NEW d \in failures PROVE told[d] = "FAILURE"
    <3>1. CASE r.dep = d /\ r.kind = "FAILURE"
      <4>1. known[r.dep] = "FAILURE" BY <1>8, <3>1
      <4> QED BY <2>4, <2>6, <3>1, <4>1
    <3>2. CASE ~(r.dep = d /\ r.kind = "FAILURE")
      BY <2>4, <2>6, <3>2 DEF AlertInv, ToldInv
    <3> QED BY <3>1, <3>2
  <2>7. ToldInv' BY <1>1, <2>2, <2>6 DEF ToldInv
  <2> QED BY <2>3, <2>5, <2>7 DEF AlertInv
<1>9. CASE ~((known[r.dep] = "FAILURE") = (r.kind = "FAILURE"))
  <2>1. /\ active' = [known EXCEPT ![r.dep] = r.kind] /\ todo' = todo
        /\ saved' \in {active'} \cup Faults({saved, NoIncidents})
        /\ flawed' = (flawed \/ known # Loaded \/ saved' # active')
        /\ at' = [at EXCEPT ![Feed] = "send"]
    BY <1>6, <1>9 DEF Go
  <2>2. at' \in [Threads -> Stages] /\ at'[Feed] = "send"
    BY <2>1, FeedIsThread DEF AlertInv, ReportsInv, Stages
  <2>3. active' \in Alerts BY <1>3, <1>7, <2>1 DEF Alerts
  <2>4. saved' \in Alerts
    <3>1. NoIncidents \in Alerts BY DEF NoIncidents, Alerts, Deps
    <3> QED BY <1>5, <2>1, <2>3, <3>1 DEF Faults
  <2>5. ReportsInv' BY <1>1, <1>5, <1>7, <2>1, <2>2, <2>3, <2>4 DEF AlertInv, ReportsInv
  <2>6. ASSUME ~flawed'
        PROVE  /\ ~flawed /\ saved = told /\ active' = saved'
               /\ saved' = [told EXCEPT ![r.dep] = r.kind]
    BY <1>1, <2>1, <2>6, LoadedIsSaved DEF AlertInv, FileInv
  <2>7. FileInv' BY <1>1, <2>1, <2>2, <2>6 DEF FileInv
  <2>8. ToldInv' BY <1>1, <2>1, <2>2, <2>6 DEF AlertInv, ToldInv
  <2> QED BY <2>5, <2>7, <2>8 DEF AlertInv
<1> QED BY <1>8, <1>9

\* What was sent is what the record says.
LEMMA SendAlertStep == ASSUME AlertInv, SendAlert PROVE AlertInv'
<1> DEFINE r == Head(todo)
<1>1. /\ at[Feed] = "send" /\ todo # <<>> /\ UNCHANGED <<failures, active, saved, flawed>>
      /\ NextReport
  BY DEF SendAlert, AlertInv, ReportsInv, Feed
<1>2. r \in Reports /\ Current = r BY <1>1, HeadOfReports
<1>3. r.kind \in {"FAILURE", "RECOVERED"} /\ r.dep \in Deps /\ told' = [told EXCEPT ![r.dep] = r.kind]
  BY <1>2 DEF Reports, SendAlert
<1>4. /\ at' \in [Threads -> Stages] /\ todo' \in Seq(Reports)
      /\ at'[Feed] \in {"start", "idle", "report"}
      /\ (todo' # <<>>) <=> at'[Feed] = "report"
  BY <1>1, NextReportMoves
<1>5. told' \in Alerts /\ told \in Alerts BY <1>3 DEF AlertInv, ReportsInv, Alerts
<1>6. ReportsInv' BY <1>1, <1>4, <1>5 DEF AlertInv, ReportsInv
<1>7. FileInv' BY <1>1, <1>3, <1>4 DEF AlertInv, FileInv
<1>8. ASSUME ~flawed, NEW d \in failures PROVE told'[d] = "FAILURE"
  <2>1. CASE d = r.dep
    <3>1. r.kind = "FAILURE" BY <1>1, <1>3, <2>1 DEF AlertInv, ToldInv
    <3> QED BY <1>3, <1>5, <2>1, <3>1 DEF Alerts
  <2>2. CASE d # r.dep
    <3>1. told[d] = "FAILURE" /\ d \in Deps BY <1>1, <1>8, <2>2 DEF AlertInv, ToldInv, ReportsInv
    <3> QED BY <1>3, <1>5, <2>2, <3>1 DEF Alerts
  <2> QED BY <2>1, <2>2
<1>9. ToldInv' BY <1>1, <1>4, <1>8 DEF ToldInv
<1> QED BY <1>6, <1>7, <1>9 DEF AlertInv

\* A dead process has sent what it was about to send, or the cut is known.
LEMMA HealthCrashStep == ASSUME AlertInv, FeedCrash PROVE AlertInv'
<1>1. /\ at' \in [Threads -> Stages] /\ at'[Feed] = "start"
  BY FeedIsThread DEF FeedCrash, Stages, Feed
<1>2. /\ todo' = <<>> /\ failures' = {} /\ active' = NoIncidents
      /\ saved' = saved /\ told' = told /\ flawed' = (flawed \/ at[Feed] = "send")
  BY DEF FeedCrash, Feed
<1>3. active' \in Alerts /\ \A d \in Deps : active'[d] = "NONE"
  BY <1>2 DEF NoIncidents, Alerts, Deps
<1>4. todo' \in Seq(Reports) /\ flawed' \in BOOLEAN BY <1>2 DEF AlertInv, ReportsInv
<1>5. ReportsInv' BY <1>1, <1>2, <1>3, <1>4 DEF AlertInv, ReportsInv
<1>6. FileInv' BY <1>1, <1>2, <1>3 DEF AlertInv, FileInv
<1>7. ToldInv' BY <1>1, <1>2 DEF ToldInv
<1> QED BY <1>5, <1>6, <1>7 DEF AlertInv

\* A connection that fails is reported.
LEMMA ConnectStep == ASSUME AlertInv, Connect PROVE AlertInv'
<1>1. at[Feed] = "start" /\ todo = <<>> /\ UNCHANGED <<failures, active, saved, told, flawed>>
  BY DEF Connect, incidents, AlertInv, ReportsInv, Feed
<1>2. CASE Go(Feed, "idle") /\ todo' = todo
  <2>1. at' \in [Threads -> Stages] /\ at'[Feed] = "idle"
    BY <1>2, FeedIsThread DEF Go, AlertInv, ReportsInv, Stages
  <2> QED BY <1>1, <1>2, <2>1, QuietStep DEF Stages
<1>3. CASE Go(Feed, "report") /\ Fails("MARKET_DATA", "start")
  <2>1. at' \in [Threads -> Stages] /\ at'[Feed] = "report"
    BY <1>3, FeedIsThread DEF Go, AlertInv, ReportsInv, Stages
  <2>2. todo' \in Seq(Reports) /\ todo' # <<>>
    BY <1>3, FailureIsReport DEF Deps
  <2> QED BY <1>1, <2>1, <2>2, ReportsMade
<1> QED BY <1>2, <1>3 DEF Connect, Feed

\* A store, or its failure, leaves the record alone.
LEMMA StoreStep == ASSUME AlertInv, StoreBars \/ StoreFails PROVE AlertInv'
<1>1. at[Feed] = "store" /\ todo = <<>> /\ UNCHANGED <<failures, active, saved, told, flawed>>
  BY DEF StoreBars, StoreFails, incidents, AlertInv, ReportsInv, Feed
<1>2. CASE Go(Feed, "health") /\ todo' = todo
  <2>1. at' \in [Threads -> Stages] /\ at'[Feed] = "health"
    BY <1>2, FeedIsThread DEF Go, AlertInv, ReportsInv, Stages
  <2> QED BY <1>1, <1>2, <2>1, QuietStep DEF Stages
<1>3. CASE Go(Feed, "report") /\ Fails("DATABASE", "idle")
  <2>1. at' \in [Threads -> Stages] /\ at'[Feed] = "report"
    BY <1>3, FeedIsThread DEF Go, AlertInv, ReportsInv, Stages
  <2>2. todo' \in Seq(Reports) /\ todo' # <<>>
    BY <1>3, FailureIsReport DEF Deps
  <2> QED BY <1>1, <2>1, <2>2, ReportsMade
<1> QED BY <1>2, <1>3 DEF StoreBars, StoreFails, Feed

\* A health check only fills the list of reports.
LEMMA CheckHealthStep == ASSUME AlertInv, CheckHealth PROVE AlertInv'
<1>1. at[Feed] = "health" /\ todo = <<>> /\ UNCHANGED <<failures, active, saved, told, flawed>>
  BY DEF CheckHealth, incidents, AlertInv, ReportsInv, Feed
<1>2. at' \in [Threads -> Stages] /\ at'[Feed] = "report"
  BY FeedIsThread DEF CheckHealth, Go, AlertInv, ReportsInv, Stages, Feed
<1>3. Recovers \/ Fails("MARKET_DATA", "idle") BY DEF CheckHealth
<1>4. todo' \in Seq(Reports) /\ todo' # <<>>
  BY <1>3, FailureIsReport, RecoveryIsReport DEF Deps
<1> QED BY <1>1, <1>2, <1>4, ReportsMade

\* What the scans, the polls and the clock do leaves the alerts alone.
LEMMA HealthOtherSteps ==
  ASSUME AlertInv,
         \/ PollNothing \/ Flush \/ Tick
         \/ \E S \in SUBSET Instruments : PollQuotes(S) \/ \E s \in Scans : RefreshQuotes(s, S)
         \/ \E s \in Scans : RefreshStores(s) \/ ResetDegraded(s)
  PROVE  AlertInv'
<1>1. Scans \subseteq Threads /\ Feed \notin Scans
  BY FeedAssumption DEF Threads, Feed
<1>2. at \in [Threads -> Stages] BY DEF AlertInv, ReportsInv
<1>3. UNCHANGED <<todo, active, saved, told, flawed>> /\ failures' \subseteq failures
  BY DEF PollNothing, Flush, Tick, PollQuotes, RefreshQuotes,
         RefreshStores, ResetDegraded, incidents
<1>4. CASE PollNothing \/ Tick
  <2>1. at' = at BY <1>4 DEF PollNothing, Tick
  <2> QED BY <1>2, <1>3, <2>1, QuietStep
<1>5. CASE Flush \/ \E S \in SUBSET Instruments : PollQuotes(S)
  <2>1. at[Feed] \in {"idle", "flush"} /\ \E stage \in {"flush", "health", "store"} : Go(Feed, stage)
    BY <1>5 DEF Flush, PollQuotes, Feed
  <2>2. /\ at' \in [Threads -> Stages] /\ at'[Feed] \in {"flush", "health", "store"}
        /\ todo = <<>>
    BY <1>2, <2>1, FeedIsThread DEF Go, Stages, AlertInv, ReportsInv
  <2> QED BY <1>3, <2>2, QuietStep DEF Stages
<1>6. CASE \/ \E S \in SUBSET Instruments, s \in Scans : RefreshQuotes(s, S)
           \/ \E s \in Scans : RefreshStores(s) \/ ResetDegraded(s)
  <2>1. PICK s \in Scans : \E stage \in {"reset", "store", "idle"} : Go(s, stage)
    BY <1>6 DEF RefreshQuotes, RefreshStores, ResetDegraded
  <2>2. at' \in [Threads -> Stages] /\ at'[Feed] = at[Feed]
    BY <1>1, <1>2, <2>1 DEF Go, Stages
  <2> QED BY <1>3, <2>2, QuietStep
<1> QED BY <1>4, <1>5, <1>6

\* The memory, the file, the messages and the failures known agree.
LEMMA AlertInvIsInductive == FeedSpec => []AlertInv
<1>1. ASSUME AlertInv, [FeedNext]_feedVars PROVE AlertInv'
  <2>1. CASE UNCHANGED feedVars
    <3>1. UNCHANGED <<at, todo, failures, active, saved, told, flawed>>
      BY <2>1 DEF feedVars, incidents
    <3> QED BY <1>1, <3>1 DEF AlertInv, ReportsInv, FileInv, ToldInv
  <2>2. CASE Reporting
    BY <1>1, <2>2, ReportFailureStep, ReportRecoveryStep, MarkIncidentStep, SendAlertStep
       DEF Reporting
  <2>3. CASE Connect \/ StoreBars \/ StoreFails \/ CheckHealth \/ FeedCrash
    BY <1>1, <2>3, ConnectStep, StoreStep, CheckHealthStep, HealthCrashStep
  <2>4. CASE \/ PollNothing \/ Flush \/ Tick
             \/ \E S \in SUBSET Instruments : PollQuotes(S) \/ \E s \in Scans : RefreshQuotes(s, S)
             \/ \E s \in Scans : RefreshStores(s) \/ ResetDegraded(s)
    BY <1>1, <2>4, HealthOtherSteps
  <2> QED BY <1>1, <2>1, <2>2, <2>3, <2>4 DEF FeedNext
<1> QED BY HealthInit, <1>1, PTL DEF FeedSpec

\* FailuresAreAnnounced of FeedHealth, for all constants: as long as the state file
\* has served, a feed that is not reporting has told the operator of every
\* failure its manager knows, through scans that reset the manager and restarts.
THEOREM FailuresAreTold == FeedSpec => []FailuresAreAnnounced
<1>1. AlertInv => FailuresAreAnnounced
  BY DEF AlertInv, ToldInv, FailuresAreAnnounced, Feed
<1> QED BY <1>1, AlertInvIsInductive, PTL

\* The feed holds a flushed row only while it stores it, and then has nothing
\* else; it starts, also after a report of its start, with nothing.
Rows == [Keys -> Nat]
StartsOver == \E i \in DOMAIN todo : todo[i].back = "start"
BarsInv ==
  /\ now \in Nat
  /\ pending \in Rows /\ \A k \in Keys : pending[k] <= now
  /\ flight \in [Threads -> Rows] /\ \A k \in Keys : flight[Feed][k] <= now
  /\ at[Feed] # "store" => flight[Feed] = NoRows
  /\ at[Feed] \in {"store", "start"} \/ StartsOver => pending = NoRows

\* The empty buffer.
LEMMA NoRowsIsRows == NoRows \in Rows /\ \A k \in Keys : NoRows[k] = 0
BY DEF NoRows, Rows

\* Nothing is buffered at first.
LEMMA BarsInit == FeedInit => BarsInv
<1> SUFFICES ASSUME FeedInit PROVE BarsInv OBVIOUS
<1>1. pending = NoRows /\ flight = [t \in Threads |-> NoRows] /\ now = 1 /\ todo = <<>>
  BY DEF FeedInit
<1>2. flight[Feed] = NoRows BY <1>1, FeedIsThread
<1> QED BY <1>1, <1>2, NoRowsIsRows DEF BarsInv, StartsOver

\* Steps that leave the feed's rows where they are.
LEMMA RowsStay ==
  ASSUME BarsInv, pending' = pending, now' \in Nat, now <= now',
         flight' \in [Threads -> Rows], flight'[Feed] = flight[Feed],
         at[Feed] = "store" <=> at'[Feed] = "store",
         at'[Feed] = "start" \/ StartsOver' => at[Feed] = "start" \/ StartsOver \/ pending = NoRows
  PROVE  BarsInv'
<1>1. \A k \in Keys : pending[k] <= now' /\ flight[Feed][k] <= now'
  <2> SUFFICES ASSUME NEW k \in Keys PROVE pending[k] <= now' /\ flight[Feed][k] <= now'
    OBVIOUS
  <2>1. pending[k] \in Nat /\ flight[Feed] \in Rows BY FeedIsThread DEF BarsInv, Rows
  <2>2. flight[Feed][k] \in Nat BY <2>1 DEF Rows
  <2> QED BY <2>1, <2>2 DEF BarsInv
<1> QED BY <1>1 DEF BarsInv

\* Reports lead back to the start only if a report of the list did.
LEMMA NextReportStarts ==
  ASSUME AlertInv, todo # <<>>, NextReport
  PROVE  at'[Feed] = "start" \/ StartsOver' => StartsOver
<1>1. todo \in Seq(Reports) BY DEF AlertInv, ReportsInv
<1>2. /\ todo' = Tail(todo) /\ Current = todo[1]
      /\ at' = [at EXCEPT ![Feed] = IF Len(todo) = 1 THEN todo[1].back ELSE "report"]
  <2>1. Head(todo) = todo[1] BY <1>1
  <2> QED BY <2>1 DEF NextReport, Go, Current, Feed
<1>3. /\ Len(todo) \in Nat \ {0} /\ DOMAIN todo = 1..Len(todo)
      /\ DOMAIN todo' = 1..(Len(todo) - 1) /\ \A i \in DOMAIN todo' : todo'[i] = todo[i + 1]
  <2>1. Len(todo) \in Nat \ {0} /\ DOMAIN todo = 1..Len(todo) BY <1>1, EmptySeq, LenProperties
  <2>2. Tail(todo) \in Seq(Reports) /\ Len(Tail(todo)) = Len(todo) - 1
        /\ \A i \in 1..Len(Tail(todo)) : Tail(todo)[i] = todo[i + 1]
    BY <1>1, HeadTailProperties
  <2>3. DOMAIN Tail(todo) = 1..Len(Tail(todo)) BY <2>2, LenProperties
  <2> QED BY <1>2, <2>1, <2>2, <2>3
<1>4. at'[Feed] = "start" => StartsOver
  <2>1. at'[Feed] = IF Len(todo) = 1 THEN todo[1].back ELSE "report"
    BY <1>2, FeedIsThread DEF AlertInv, ReportsInv
  <2>2. 1 \in DOMAIN todo BY <1>3
  <2> QED BY <2>1, <2>2 DEF StartsOver
<1>5. StartsOver' => StartsOver
  <2> SUFFICES ASSUME NEW i \in DOMAIN todo', todo'[i].back = "start" PROVE StartsOver
    BY DEF StartsOver
  <2>1. i + 1 \in DOMAIN todo /\ todo[i + 1].back = "start" BY <1>3
  <2> QED BY <2>1 DEF StartsOver
<1> QED BY <1>4, <1>5

\* The steps of reporting leave the bars alone.
LEMMA ReportingKeepsRows ==
  ASSUME AlertInv, BarsInv, Reporting
  PROVE  BarsInv'
<1>1. /\ UNCHANGED <<now, pending, flight>> /\ at[Feed] \in {"report", "notify", "send"}
      /\ todo # <<>>
  BY DEF Reporting, ReportFailure, ReportRecovery, MarkIncident,
         SendAlert, clocks, writer, AlertInv, ReportsInv, Feed
<1>2. \/ NextReport
      \/ todo' = todo /\ \E stage \in {"notify", "send"} : Go(Feed, stage)
  BY DEF Reporting, ReportFailure, ReportRecovery, MarkIncident,
         SendAlert, Feed
<1>3. at'[Feed] # "store" /\ (at'[Feed] = "start" \/ StartsOver' => StartsOver)
  <2>1. CASE NextReport BY <1>1, <2>1, NextReportStarts, NextReportMoves
  <2>2. CASE todo' = todo /\ \E stage \in {"notify", "send"} : Go(Feed, stage)
    <3>1. at'[Feed] \in {"notify", "send"}
      BY <2>2, FeedIsThread DEF Go, AlertInv, ReportsInv
    <3> QED BY <2>2, <3>1 DEF StartsOver
  <2> QED BY <1>2, <2>1, <2>2
<1> QED BY <1>1, <1>3, RowsStay DEF BarsInv

\* Merging rows, the ones received now included.
LEMMA OverIsRows ==
  ASSUME NEW r \in Rows, NEW b \in Rows
  PROVE  /\ Over(r, b) \in Rows
         /\ \A k \in Keys : Over(r, b)[k] = IF r[k] # 0 THEN r[k] ELSE b[k]
BY DEF Over, Rows

\* A tick is added to the buffer.
LEMMA ReceivedIsRows ==
  ASSUME NEW S, now \in Nat
  PROVE  /\ Received(S) \in Rows
         /\ \A k \in Keys : Received(S)[k] \in {0, now}
BY DEF Received, Rows

\* The feed's own use of the rows.
LEMMA PollQuotesKeepsRows ==
  ASSUME AlertInv, BarsInv, NEW S, PollQuotes(S)
  PROVE  BarsInv'
<1>1. /\ at[Feed] = "idle" /\ pending' = Over(Received(S), pending)
      /\ UNCHANGED <<now, flight, todo>> /\ at' = [at EXCEPT ![Feed] = "flush"]
  BY DEF PollQuotes, clocks, Go, Feed
<1>2. at'[Feed] = "flush" /\ todo = <<>>
  BY <1>1, FeedIsThread DEF AlertInv, ReportsInv
<1>3. pending' \in Rows /\ \A k \in Keys : pending'[k] <= now
  <2>1. Received(S) \in Rows /\ pending \in Rows BY ReceivedIsRows DEF BarsInv
  <2>2. \A k \in Keys : pending'[k] \in {now, pending[k]}
    BY <1>1, <2>1, OverIsRows, ReceivedIsRows DEF BarsInv
  <2> QED BY <1>1, <2>1, <2>2, OverIsRows DEF BarsInv
<1> QED BY <1>1, <1>2, <1>3 DEF BarsInv, StartsOver

\* A flush takes the buffer into its own hands.
LEMMA FlushKeepsRows ==
  ASSUME AlertInv, BarsInv, Flush
  PROVE  BarsInv'
<1>1. /\ at[Feed] = "flush" /\ pending' = NoRows /\ flight' = [flight EXCEPT ![Feed] = pending]
      /\ UNCHANGED <<now, todo>>
      /\ at' = [at EXCEPT ![Feed] = IF pending = NoRows THEN "health" ELSE "store"]
  BY DEF Flush, clocks, Go, Taking, Feed
<1>2. at'[Feed] = (IF pending = NoRows THEN "health" ELSE "store")
  BY <1>1, FeedIsThread DEF AlertInv, ReportsInv
<1>3. flight' \in [Threads -> Rows] /\ flight'[Feed] = pending
  BY <1>1, FeedIsThread DEF BarsInv
<1>4. \A k \in Keys : pending'[k] <= now
  BY <1>1, NoRowsIsRows DEF BarsInv
<1> QED BY <1>1, <1>2, <1>3, <1>4, NoRowsIsRows DEF BarsInv

\* Stored bars leave the hands of the feed for the table.
LEMMA StoreKeepsRows ==
  ASSUME AlertInv, BarsInv, StoreBars \/ StoreFails
  PROVE  BarsInv'
<1>1. /\ at[Feed] = "store" /\ todo = <<>> /\ now' = now
      /\ flight' = [flight EXCEPT ![Feed] = NoRows] /\ pending = NoRows
  BY DEF StoreBars, StoreFails, clocks, Taking, Feed, AlertInv, ReportsInv,
         BarsInv
<1>2. flight' \in [Threads -> Rows] /\ flight'[Feed] = NoRows
  BY <1>1, FeedIsThread, NoRowsIsRows DEF BarsInv
<1>3. /\ \E stage \in {"health", "report"} : at' = [at EXCEPT ![Feed] = stage]
      /\ todo' = todo \/ Fails("DATABASE", "idle")
  BY DEF StoreBars, StoreFails, Go, Feed
<1>4. at'[Feed] \in {"health", "report"}
  BY <1>3, FeedIsThread DEF AlertInv, ReportsInv
<1>5. ~StartsOver'
  <2>1. todo' = <<>> \/ todo' = <<Report("FAILURE", "DATABASE", "idle")>>
    BY <1>1, <1>3 DEF Fails
  <2> QED BY <2>1 DEF StartsOver, Report
<1>6. pending' \in Rows /\ \A k \in Keys : pending'[k] <= now
  <2>1. CASE pending' = pending BY <2>1 DEF BarsInv
  <2>2. CASE pending' = Requeued
    <3>1. flight[Feed] \in Rows /\ pending \in Rows BY FeedIsThread DEF BarsInv
    <3>2. pending' = Over(flight[Feed], pending) BY <2>2 DEF Requeued, Feed
    <3>3. \A k \in Keys : pending'[k] \in {flight[Feed][k], pending[k]}
      BY <3>1, <3>2, OverIsRows
    <3> QED BY <3>1, <3>2, <3>3, OverIsRows DEF BarsInv
  <2> QED BY <2>1, <2>2 DEF StoreBars, StoreFails, writer
<1>7. \A k \in Keys : flight'[Feed][k] <= now
  BY <1>2, NoRowsIsRows DEF BarsInv
<1> QED BY <1>1, <1>2, <1>4, <1>5, <1>6, <1>7 DEF BarsInv

\* Beginning again.
LEMMA ConnectKeepsRows ==
  ASSUME AlertInv, BarsInv, Connect
  PROVE  BarsInv'
<1>1. /\ at[Feed] = "start" /\ pending' = NoRows /\ UNCHANGED <<now, flight>>
      /\ \E stage \in {"idle", "report"} : at' = [at EXCEPT ![Feed] = stage]
  BY DEF Connect, clocks, Go, Feed
<1>2. at'[Feed] \in {"idle", "report"}
  BY <1>1, FeedIsThread DEF AlertInv, ReportsInv
<1>3. \A k \in Keys : pending'[k] <= now
  BY <1>1, NoRowsIsRows DEF BarsInv
<1> QED BY <1>1, <1>2, <1>3, NoRowsIsRows DEF BarsInv

\* A crash loses what was buffered, nothing else.
LEMMA CrashKeepsRows ==
  ASSUME BarsInv, FeedCrash
  PROVE  BarsInv'
<1>1. /\ pending' = NoRows /\ flight' = [t \in Threads |-> NoRows] /\ now' = now
  BY DEF FeedCrash
<1>2. flight'[Feed] = NoRows /\ flight' \in [Threads -> Rows]
  BY <1>1, FeedIsThread, NoRowsIsRows
<1>3. \A k \in Keys : pending'[k] <= now /\ flight'[Feed][k] <= now
  BY <1>1, <1>2, NoRowsIsRows DEF BarsInv
<1> QED BY <1>1, <1>2, <1>3, NoRowsIsRows DEF BarsInv

\* What the other threads do, and a poll or a check that moves no row.
LEMMA OthersKeepRows ==
  ASSUME AlertInv, BarsInv,
         \/ PollNothing \/ Tick \/ CheckHealth
         \/ \E S \in SUBSET Instruments, s \in Scans : RefreshQuotes(s, S)
         \/ \E s \in Scans : RefreshStores(s) \/ ResetDegraded(s)
  PROVE  BarsInv'
<1>1. Scans \subseteq Threads /\ Feed \notin Scans
  BY FeedAssumption DEF Threads, Feed
<1>2. at \in [Threads -> Stages] /\ flight \in [Threads -> Rows] /\ now \in Nat
  BY DEF AlertInv, ReportsInv, BarsInv
<1>3. CASE PollNothing \/ Tick
  <2>1. UNCHANGED <<at, pending, flight, todo>> /\ now' \in {now, now + 1}
    BY <1>3 DEF PollNothing, Tick, clocks, writer
  <2> QED BY <1>2, <2>1, RowsStay DEF StartsOver
<1>4. CASE CheckHealth
  <2>1. /\ at[Feed] = "health" /\ UNCHANGED <<now, pending, flight>> /\ at' = [at EXCEPT ![Feed] = "report"]
        /\ Recovers \/ Fails("MARKET_DATA", "idle")
    BY <1>4 DEF CheckHealth, clocks, writer, Go, Feed
  <2>2. at'[Feed] = "report" BY <1>2, <2>1, FeedIsThread
  <2>3. ~StartsOver' BY <2>1 DEF StartsOver, Recovers, Fails, Report
  <2> QED BY <1>2, <2>1, <2>2, <2>3, RowsStay
<1>5. CASE \/ \E S \in SUBSET Instruments, s \in Scans : RefreshQuotes(s, S)
           \/ \E s \in Scans : RefreshStores(s) \/ ResetDegraded(s)
  <2>1. PICK s \in Scans :
          /\ \E stage \in {"reset", "store", "idle"} : Go(s, stage)
          /\ flight' = flight \/ \E rows \in Rows : Taking(s, rows)
    BY <1>2, <1>5, ReceivedIsRows, NoRowsIsRows
       DEF RefreshQuotes, RefreshStores, ResetDegraded
  <2>2. at'[Feed] = at[Feed] /\ flight' \in [Threads -> Rows] /\ flight'[Feed] = flight[Feed]
    BY <1>1, <1>2, <2>1, FeedIsThread DEF Go, Taking
  <2>3. UNCHANGED <<now, pending, todo>>
    BY <1>5 DEF RefreshQuotes, RefreshStores, ResetDegraded, clocks, writer
  <2> QED BY <1>2, <2>2, <2>3, RowsStay DEF StartsOver
<1> QED BY <1>3, <1>4, <1>5

\* What the feed holds is of the expected form at every step.
LEMMA BarsInvIsInductive == FeedSpec => []BarsInv
<1>1. ASSUME AlertInv, BarsInv, [FeedNext]_feedVars PROVE BarsInv'
  <2>1. CASE UNCHANGED feedVars
    <3>1. UNCHANGED <<now, pending, flight, at, todo>>
      BY <2>1 DEF feedVars, clocks, writer
    <3> QED BY <1>1, <3>1 DEF BarsInv, StartsOver
  <2>2. CASE Reporting
    BY <1>1, <2>2, ReportingKeepsRows
  <2>3. CASE Flush \/ StoreBars \/ StoreFails \/ Connect \/ FeedCrash
    BY <1>1, <2>3, FlushKeepsRows, StoreKeepsRows, ConnectKeepsRows, CrashKeepsRows
  <2>4. CASE \E S \in SUBSET Instruments : PollQuotes(S)
    BY <1>1, <2>4, PollQuotesKeepsRows
  <2>5. CASE \/ PollNothing \/ Tick \/ CheckHealth
             \/ \E S \in SUBSET Instruments, s \in Scans : RefreshQuotes(s, S)
             \/ \E s \in Scans : RefreshStores(s) \/ ResetDegraded(s)
    BY <1>1, <2>5, OthersKeepRows
  <2> QED BY <1>1, <2>1, <2>2, <2>3, <2>4, <2>5 DEF FeedNext
<1> QED BY AlertInvIsInductive, BarsInit, <1>1, PTL DEF FeedSpec

HandedOver(k) ==
  \A bar \in {pending[k], flight[Feed][k]} \ {0} :
    bar \in {pending'[k], flight'[Feed][k], bars'[k]} \/ pending'[k] > bar

\* One step hands every bar over.
LEMMA StepHandsOver ==
  ASSUME AlertInv, BarsInv, FeedNext, boots' = boots, boots \in Nat,
         NEW k \in Keys
  PROVE  HandedOver(k)
<1>0. /\ pending \in Rows /\ flight[Feed] \in Rows /\ pending[k] \in Nat /\ flight[Feed][k] \in Nat
      /\ pending[k] <= now /\ now \in Nat /\ flight \in [Threads -> Rows]
  BY FeedIsThread DEF BarsInv, Rows
<1>1. CASE UNCHANGED <<pending, flight>>
  BY <1>1 DEF HandedOver
<1>2. CASE Connect
  <2>1. pending = NoRows /\ pending' = NoRows /\ flight' = flight
    BY <1>2 DEF Connect, BarsInv, Feed
  <2> QED BY <2>1 DEF HandedOver
<1>3. CASE \E S \in SUBSET Instruments : PollQuotes(S)
  <2>1. PICK S \in SUBSET Instruments : PollQuotes(S) BY <1>3
  <2>2. pending' = Over(Received(S), pending) /\ flight' = flight
    BY <2>1 DEF PollQuotes
  <2>3. pending'[k] = now \/ pending'[k] = pending[k]
    BY <1>0, <2>2, ReceivedIsRows, OverIsRows
  <2>4. pending'[k] = pending[k] \/ pending'[k] > pending[k] BY <1>0, <2>3
  <2> QED BY <2>2, <2>4 DEF HandedOver
<1>4. CASE Flush
  <2>1. flight' = [flight EXCEPT ![Feed] = pending] /\ flight[Feed] = NoRows
    BY <1>4 DEF Flush, Taking, BarsInv, Feed
  <2>2. flight'[Feed] = pending /\ flight[Feed][k] = 0
    BY <1>0, <2>1, FeedIsThread, NoRowsIsRows
  <2> QED BY <2>2 DEF HandedOver
<1>5. CASE StoreBars
  <2>1. bars' = Over(flight[Feed], bars) /\ pending' = pending
    BY <1>5 DEF StoreBars, UpsertBars, writer, Feed
  <2>2. flight[Feed][k] # 0 => bars'[k] = flight[Feed][k]
    BY <2>1 DEF Over
  <2> QED BY <2>1, <2>2 DEF HandedOver
<1>6. CASE StoreFails
  <2>1. pending' = Over(flight[Feed], pending) /\ pending = NoRows
    BY <1>6 DEF StoreFails, Requeued, BarsInv, Feed
  <2>2. pending[k] = 0 /\ (flight[Feed][k] # 0 => pending'[k] = flight[Feed][k])
    BY <1>0, <2>1, NoRowsIsRows, OverIsRows
  <2> QED BY <2>2 DEF HandedOver
<1>7. CASE \/ \E S \in SUBSET Instruments, s \in Scans : RefreshQuotes(s, S)
           \/ \E s \in Scans : RefreshStores(s)
  <2>1. PICK s \in Scans : \E rows : Taking(s, rows)
    BY <1>7 DEF RefreshQuotes, RefreshStores
  <2>2. flight'[Feed] = flight[Feed] /\ pending' = pending
    <3>1. s # Feed BY FeedAssumption DEF Feed
    <3>2. flight'[Feed] = flight[Feed] BY <1>0, <2>1, <3>1, FeedIsThread DEF Taking
    <3>3. pending' = pending BY <1>7 DEF RefreshQuotes, RefreshStores, writer
    <3> QED BY <3>2, <3>3
  <2> QED BY <2>2 DEF HandedOver
<1>8. CASE PollNothing \/ CheckHealth \/ Reporting \/ Tick
           \/ \E s \in Scans : ResetDegraded(s)
  <2>1. UNCHANGED <<pending, flight>>
    BY <1>8 DEF PollNothing, CheckHealth, Reporting, ReportFailure,
      ReportRecovery, MarkIncident, SendAlert, Tick, ResetDegraded,
      writer
  <2> QED BY <1>1, <2>1
<1>9. ~FeedCrash BY DEF FeedCrash
<1> QED BY <1>2, <1>3, <1>4, <1>5, <1>6, <1>7, <1>8, <1>9 DEF FeedNext

BootsInv == boots \in Nat

\* The count of starts is a number.
LEMMA BootsCount == FeedSpec => []BootsInv
<1>1. FeedInit => BootsInv BY DEF FeedInit, BootsInv
<1>2. ASSUME BootsInv, [FeedNext]_feedVars PROVE BootsInv'
  <2>1. boots' = boots \/ boots' = boots + 1
    BY <1>2 DEF FeedNext, feedVars, clocks, Connect, PollNothing, Flush,
      StoreBars, StoreFails, CheckHealth, Reporting, ReportFailure,
      ReportRecovery, MarkIncident, SendAlert, Tick, ResetDegraded,
      PollQuotes, RefreshQuotes, RefreshStores, FeedCrash
  <2> QED BY <1>2, <2>1 DEF BootsInv
<1> QED BY <1>1, <1>2, PTL DEF FeedSpec

\* BarsAreHandedOver of FeedHealth, for all constants: a bar received stays in the
\* buffer or in the flush until a newer one takes its place or the table holds
\* it, whatever writes fail, unless the process dies.
THEOREM NoBarIsLost == FeedSpec => BarsAreHandedOver
<1>1. ASSUME AlertInv, BarsInv, BootsInv, [FeedNext]_feedVars
      PROVE  [boots' = boots => \A k \in Keys : HandedOver(k)]_feedVars
  <2>1. CASE UNCHANGED feedVars BY <2>1
  <2>2. CASE FeedNext BY <1>1, <2>2, StepHandsOver DEF BootsInv
  <2> QED BY <1>1, <2>1, <2>2
<1> QED BY <1>1, AlertInvIsInductive, BarsInvIsInductive, BootsCount, PTL
       DEF FeedSpec, BarsAreHandedOver, HandedOver, Feed
=============================================================================
