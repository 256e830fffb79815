----------------------------- MODULE PaperWorker -----------------------------
(***************************************************************************)
(* The paper worker of engine/collector.py during a trading day: the       *)
(* scheduler thread that takes one slot a minute, the monitor that the     *)
(* feed thread starts between slots, the re-scans started from Telegram,   *)
(* the file lock that keeps scheduled jobs apart, the rows that jobs       *)
(* (paper_job_runs) and scans (scanner_runs) leave behind, and the process *)
(* that dies and starts again.                                             *)
(*                                                                         *)
(* A step is one use of the database, of the file lock or of the network;  *)
(* the paper cycle, which holds the database lock throughout, is one step  *)
(* here, and what it does to the positions is PaperTrading.                *)
(***************************************************************************)
EXTENDS Integers, Sequences, FiniteSets, FiniteSetsExt

CONSTANTS
  Minutes,     \* the minutes of the day the model runs through
  Rescans,     \* threads a Telegram re-scan may start
  SlotMemory,  \* slots remembered before completed_slots is cut back
  MaxJobs,     \* bound: job rows of the feed thread in one process
  MaxRuns,     \* bound: rows of scanner_runs before no re-scan starts
  MaxBoots     \* bound: how often the process is started

Workers == {"scheduler", "feed"}
Threads == Workers \cup Rescans

ASSUME WorkerAssumption ==
  /\ Minutes \subseteq Nat /\ IsFiniteSet(Minutes) /\ Minutes # {}
  /\ Rescans \cap (Workers \cup {"none"}) = {}
  /\ SlotMemory \in Nat \ {0} /\ {MaxJobs, MaxRuns, MaxBoots} \subseteq Nat

VARIABLES
  minute,     \* the wall clock
  boots,      \* processes started so far
  at,         \* where each thread is
  local,      \* the minute the scheduler's iteration began in
  universe,   \* the day's universe: selection due, or tried for now
  completed,  \* completed_slots
  lock,       \* the thread that holds the job file lock
  jobs,       \* paper_job_runs: the rows of this process, as nobody reads others
  runs,       \* scanner_runs
  mine,       \* each thread's job type, job row and run
  faulted     \* a job row of this process could not be written

clocks == <<minute, boots>>
loop == <<local, universe, completed>>
rows == <<jobs, runs>>
vars == <<clocks, at, loop, lock, rows, mine, faulted>>

-----------------------------------------------------------------------------
(* The timetable *)

InHours(m) == 556 <= m /\ m <= 920              \* 09:16 to 15:20

ScheduledJob(m) ==
  IF ~InHours(m) THEN "NONE"
  ELSE IF 575 <= m /\ m % 15 = 5 THEN "FULL_SCAN"
  ELSE IF 568 <= m /\ m <= 913 /\ m % 15 = 13 THEN "NONE"
  ELSE "RISK_MONITOR"

SlotDue(m) == ScheduledJob(m) # "NONE" /\ m \notin completed
UniverseDue(m) == InHours(m) /\ 565 <= m /\ universe = "due"

Nothing == [type |-> "NONE", job |-> 0, run |-> 0]

\* Stages of a job between the acquired lock and its release.
Body == {"insert", "rank", "monitor", "settle", "publish"}
InJob(t) == at[t] \in Body \cup {"start", "fail", "finish", "report"} /\ t \in Workers

Go(t, stage) == at' = [at EXCEPT ![t] = stage]

-----------------------------------------------------------------------------
(* The scheduler thread *)

Remember(m) ==
  completed' = IF Cardinality(completed \cup {m}) > SlotMemory THEN {m} ELSE completed \cup {m}

\* A slot counts as completed before its job has the lock.
TakeSlot(m) ==
  IF SlotDue(m)
  THEN /\ Remember(m)
       /\ mine' = [mine EXCEPT !["scheduler"] = [Nothing EXCEPT !.type = ScheduledJob(m)]]
       /\ Go("scheduler", "acquire")
  ELSE Go("scheduler", "idle") /\ UNCHANGED <<completed, mine>>

SchedulerWakes ==
  /\ at["scheduler"] = "idle"
  /\ SlotDue(minute) \/ UniverseDue(minute)
  /\ local' = minute
  /\ IF UniverseDue(minute) THEN Go("scheduler", "universe") /\ UNCHANGED <<completed, mine>>
                            ELSE TakeSlot(minute)
  /\ UNCHANGED <<clocks, universe, lock, rows, faulted>>

\* The universe is selected in the middle of an iteration, which then goes on
\* with the minute it began in.
BuildUniverse ==
  /\ at["scheduler"] = "universe"
  /\ universe' = "tried"
  /\ TakeSlot(local)
  /\ UNCHANGED <<clocks, local, lock, rows, faulted>>

\* The feed thread's callback, when it is not paused or throttled and there are
\* open trades.
EventDrivenMonitor ==
  /\ at["feed"] = "idle"
  /\ Cardinality({j \in DOMAIN jobs : jobs[j].by = "feed"}) < MaxJobs
  /\ mine' = [mine EXCEPT !["feed"] = [Nothing EXCEPT !.type = "RISK_MONITOR"]]
  /\ Go("feed", "acquire")
  /\ UNCHANGED <<clocks, loop, lock, rows, faulted>>

-----------------------------------------------------------------------------
(* _run_locked_job *)

\* Mutant of AcquireLock: the lock is taken whoever holds it.
AcquireAnyway(t) == lock' = t /\ Go(t, "start")
AcquireLock(t) == IF lock = "none" THEN lock' = t /\ Go(t, "start")
                                   ELSE Go(t, "skip") /\ UNCHANGED lock

TryLock(t) ==
  /\ t \in Workers /\ at[t] = "acquire"
  /\ AcquireLock(t)
  /\ UNCHANGED <<clocks, loop, rows, mine, faulted>>

\* A monitor started by the feed belongs to no slot.
SlotOf(t) == IF t = "scheduler" THEN local ELSE 0
JobRow(t, status) == [by |-> t, type |-> mine[t].type, slot |-> SlotOf(t), status |-> status]

\* Mutant of RecordSkippedJob: a busy lock leaves no row.
SkipSilently(t) ==
  /\ t \in Workers /\ at[t] = "skip"
  /\ Go(t, "idle")
  /\ UNCHANGED <<clocks, loop, lock, rows, mine, faulted>>
RecordSkippedJob(t) ==
  /\ t \in Workers /\ at[t] = "skip"
  /\ jobs' = Append(jobs, JobRow(t, "SKIPPED"))
  /\ Go(t, "idle")
  /\ mine' = [mine EXCEPT ![t] = Nothing]
  /\ UNCHANGED <<clocks, loop, lock, runs, faulted>>

StartJob(t) ==
  /\ t \in Workers /\ at[t] = "start"
  /\ jobs' = Append(jobs, JobRow(t, "RUNNING"))
  /\ mine' = [mine EXCEPT ![t].job = Len(jobs) + 1]
  /\ Go(t, IF mine[t].type = "FULL_SCAN" THEN "insert" ELSE "monitor")
  /\ UNCHANGED <<clocks, loop, lock, runs, faulted>>

EndJob(t, status) ==
  /\ jobs' = [jobs EXCEPT ![mine[t].job].status = status]
  /\ lock' = "none"
  /\ mine' = [mine EXCEPT ![t] = Nothing]
  /\ Go(t, "idle")

\* COMPLETED stands also for the MAX_RUNTIME_EXCEEDED of a job that returned
\* late, FAILED for that of a job stopped by its deadline.
FinishJob(t) ==
  /\ t \in Workers /\ at[t] = "finish"
  /\ EndJob(t, "COMPLETED")
  /\ UNCHANGED <<clocks, loop, runs, faulted>>

ReportFailure(t) ==
  /\ t \in Workers /\ at[t] = "report"
  /\ EndJob(t, "FAILED")
  /\ UNCHANGED <<clocks, loop, runs, faulted>>

\* Mutant of LeaveLock: an exception that escapes keeps the lock.
KeepLock(t) == UNCHANGED lock
LeaveLock(t) == lock' = IF lock = t THEN "none" ELSE lock

\* Writing the job row fails.  Inside the try block the job is then reported as
\* failed; elsewhere the exception escapes: it ends the scheduler thread, while
\* the feed thread catches it and goes on.
JobRowFails(t) ==
  /\ t \in Workers
  /\ faulted' = TRUE
  /\ \/ /\ at[t] = "finish"
        /\ Go(t, "report")
        /\ UNCHANGED <<lock, mine>>
     \/ /\ at[t] \in {"skip", "start", "report"}
        /\ LeaveLock(t)
        /\ mine' = [mine EXCEPT ![t] = Nothing]
        /\ Go(t, IF t = "scheduler" THEN "dead" ELSE "idle")
  /\ UNCHANGED <<clocks, loop, rows>>

-----------------------------------------------------------------------------
(* run_scan and run_risk_monitor *)

\* A re-scan from Telegram takes no job lock.
StartRescan(t) ==
  /\ t \in Rescans /\ at[t] = "idle"
  /\ Len(runs) < MaxRuns
  /\ mine' = [mine EXCEPT ![t] = [Nothing EXCEPT !.type = "FULL_SCAN"]]
  /\ Go(t, "insert")
  /\ UNCHANGED <<clocks, loop, lock, rows, faulted>>

InsertRun(t) ==
  /\ at[t] = "insert"
  /\ runs' = Append(runs, [boot |-> boots, status |-> "RUNNING"])
  /\ mine' = [mine EXCEPT ![t].run = Len(runs) + 1]
  /\ Go(t, "rank")
  /\ UNCHANGED <<clocks, loop, lock, jobs, faulted>>

\* The cycle holds the process-wide database lock from end to end.
RunCycle(t) ==
  /\ at[t] \in {"rank", "monitor"}
  /\ Go(t, IF mine[t].type = "FULL_SCAN" THEN "settle" ELSE "publish")
  /\ UNCHANGED <<clocks, loop, lock, rows, mine, faulted>>

SettleRun(t) ==
  /\ at[t] = "settle"
  /\ runs' = [runs EXCEPT ![mine[t].run].status = "COMPLETED"]
  /\ Go(t, "publish")
  /\ UNCHANGED <<clocks, loop, lock, jobs, mine, faulted>>

\* run_scan or run_risk_monitor has returned or raised: a job goes on to the
\* given stage, the thread of a re-scan ends.
Leave(t, stage) ==
  IF t \in Workers THEN Go(t, stage) /\ UNCHANGED mine
                   ELSE Go(t, "idle") /\ mine' = [mine EXCEPT ![t] = Nothing]

PublishSnapshot(t) ==
  /\ at[t] = "publish"
  /\ Leave(t, "finish")
  /\ UNCHANGED <<clocks, loop, lock, rows, faulted>>

\* A scan records its failure first, unless its row is not there yet.
Raises(t) ==
  IF mine[t].type = "FULL_SCAN" /\ at[t] # "insert" THEN Go(t, "fail") /\ UNCHANGED mine
                                                    ELSE Leave(t, "report")

\* Any part of the body may raise: the deadline, the database, the data or the
\* publication.
BodyRaises(t) ==
  /\ at[t] \in Body
  /\ Raises(t)
  /\ UNCHANGED <<clocks, loop, lock, rows, faulted>>

RecordFailure(t) ==
  /\ at[t] = "fail"
  /\ \/ runs' = [runs EXCEPT ![mine[t].run].status = "FAILED"]
     \/ UNCHANGED runs                 \* the database refuses again
  /\ Leave(t, "report")
  /\ UNCHANGED <<clocks, loop, lock, jobs, faulted>>

-----------------------------------------------------------------------------
(* The clock and the process *)

\* The scheduler polls twice a second: no minute passes while it is idle and
\* has something to do.  A selection that failed is tried again a minute later.
AdvanceMinute ==
  /\ at["scheduler"] = "idle" => ~SlotDue(minute) /\ ~UniverseDue(minute)
  /\ minute < Max(Minutes)
  /\ minute' = Min({m \in Minutes : m > minute})
  /\ \/ UNCHANGED universe
     \/ universe = "tried" /\ universe' = "due"
  /\ UNCHANGED <<boots, at, local, completed, lock, rows, mine, faulted>>

\* A crash or /restart: the kernel releases the lock, the rows stay in the database.
Crash ==
  /\ boots < MaxBoots
  /\ boots' = boots + 1
  /\ at' = [t \in Threads |-> IF t \in Workers THEN "boot" ELSE "idle"]
  /\ lock' = "none"
  /\ completed' = {} /\ universe' = "due"
  /\ mine' = [t \in Threads |-> Nothing] /\ faulted' = FALSE
  /\ local' = minute /\ jobs' = <<>>
  /\ UNCHANGED <<minute, runs>>

\* Mutant of InterruptedRuns: only the newest row is looked at.
LastRunOnly == {r \in DOMAIN runs : runs[r].status = "RUNNING" /\ r = Len(runs)}
InterruptedRuns == {r \in DOMAIN runs : runs[r].status = "RUNNING"}

\* run_worker: open runs are failed before its threads start, while the
\* Telegram thread is already listening.
RecoverIncompleteRuns ==
  /\ at["scheduler"] = "boot"
  /\ runs' = [r \in DOMAIN runs |-> IF r \in InterruptedRuns
                                    THEN [runs[r] EXCEPT !.status = "FAILED"] ELSE runs[r]]
  /\ at' = [at EXCEPT !["scheduler"] = "idle", !["feed"] = "idle"]
  /\ UNCHANGED <<clocks, loop, lock, jobs, mine, faulted>>

-----------------------------------------------------------------------------
Init ==
  /\ minute = Min(Minutes) /\ boots = 1
  /\ at = [t \in Threads |-> IF t \in Workers THEN "boot" ELSE "idle"]
  /\ local = minute /\ universe = "due" /\ completed = {}
  /\ lock = "none"
  /\ jobs = <<>> /\ runs = <<>>
  /\ mine = [t \in Threads |-> Nothing] /\ faulted = FALSE

JobStep(t) == TryLock(t) \/ RecordSkippedJob(t) \/ StartJob(t) \/ FinishJob(t) \/ ReportFailure(t)
BodyStep(t) == \/ InsertRun(t) \/ RunCycle(t) \/ SettleRun(t)
               \/ PublishSnapshot(t) \/ RecordFailure(t)

Next ==
  \/ SchedulerWakes \/ BuildUniverse \/ EventDrivenMonitor
  \/ \E t \in Threads : JobStep(t) \/ BodyStep(t) \/ JobRowFails(t) \/ StartRescan(t) \/ BodyRaises(t)
  \/ AdvanceMinute \/ Crash \/ RecoverIncompleteRuns

Spec == Init /\ [][Next]_vars

\* The threads keep running: network calls have timeouts, and a thread that
\* waits for the database lock gets it in the end.
FairSpec ==
  /\ Spec
  /\ WF_vars(SchedulerWakes) /\ WF_vars(BuildUniverse) /\ WF_vars(RecoverIncompleteRuns)
  /\ \A t \in Threads : WF_vars(JobStep(t) \/ BodyStep(t))

-----------------------------------------------------------------------------
(* Properties *)

\* Scheduled jobs never overlap, and the table says so: whatever a thread of
\* this process runs holds the lock, and unless writing a row failed the only
\* RUNNING row is that of the lock holder.
JobRowsMatchLock ==
  /\ \A t \in Threads : InJob(t) => lock = t
  /\ ~faulted => \A j \in DOMAIN jobs :
       jobs[j].status = "RUNNING" => lock # "none" /\ mine[lock].job = j

\* Once the worker is up, no scan of an earlier process is still RUNNING,
\* wherever that process died.
InterruptedRunsAreFailed ==
  at["scheduler"] # "boot" =>
    \A r \in DOMAIN runs : runs[r].boot < boots => runs[r].status # "RUNNING"

\* Whatever raises, and wherever, the job lock becomes free again.
JobLockIsReleased == lock # "none" ~> lock = "none"

\* A slot the scheduler has taken gets a row that says how it ended, unless the
\* process dies or cannot write its rows.
TakenSlotsAreAnswered ==
  \A m \in Minutes : m \in completed ~>
    \/ m \notin completed \/ faulted
    \/ \E j \in DOMAIN jobs : jobs[j].slot = m /\ jobs[j].status # "RUNNING"

=============================================================================
