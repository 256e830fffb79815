-------------------------- MODULE PaperWorkerProofs --------------------------
(***************************************************************************)
(* JobRowsMatchLock and InterruptedRunsAreFailed of PaperWorker, for every *)
(* timetable, any number of re-scan threads, rows and restarts.  The lock  *)
(* and the table of jobs agree because a job that has not written its row  *)
(* yet has none; the runs of dead processes are closed because every live  *)
(* thread of a new process stamps its runs with the new process.           *)
(***************************************************************************)
EXTENDS PaperWorker, TLAPS

Stages == {"boot", "idle", "dead", "universe", "acquire", "skip", "start", "insert", "rank",
           "monitor", "settle", "publish", "fail", "finish", "report"}
Types == {"NONE", "FULL_SCAN", "RISK_MONITOR"}
Statuses == {"RUNNING", "SKIPPED", "COMPLETED", "FAILED"}
Mine == [type: Types, job: Nat, run: Nat]
Run == [boot: Nat, status: Statuses]

\* A table of jobs: its slots are those of its rows.
JobRows(slots) == [by: Workers, type: Types, slot: slots, status: Statuses]
Slots(table) == {table[j].slot : j \in DOMAIN table}
IsTable(table) == table \in Seq(JobRows(Slots(table)))

\* The parts of the state the argument is about.
Shape ==
  /\ boots \in Nat
  /\ at \in [Threads -> Stages]
  /\ lock \in Workers \cup {"none"}
  /\ IsTable(jobs)
  /\ mine \in [Threads -> Mine]
  /\ runs \in Seq(Run)

\* A job without a row, and the rows of an unfaulted process.
RowIsWritten ==
  \A t \in Workers : at[t] \in {"acquire", "start"} => mine[t].job = 0

LockHolder == \A t \in Threads : InJob(t) <=> lock = t

RunningRow ==
  ~faulted => \A j \in DOMAIN jobs :
    jobs[j].status = "RUNNING" => lock # "none" /\ mine[lock].job = j

\* The two threads of run_worker start together.
BootTogether == at["scheduler"] = "boot" => at["feed"] = "boot"

Locks == RowIsWritten /\ LockHolder /\ RunningRow /\ BootTogether

\* No run is of a process that has not started.
RunsAreDated == \A r \in DOMAIN runs : runs[r].boot <= boots

IInv == Shape /\ Locks /\ RunsAreDated /\ InterruptedRunsAreFailed

-----------------------------------------------------------------------------
(* Tables *)

\* A sequence of rows is a table, whatever slots its rows may have.
LEMMA RowsMakeTable ==
  ASSUME NEW slots, NEW table \in Seq(JobRows(slots))
  PROVE  IsTable(table)
<1> DEFINE R == JobRows(Slots(table))
<1>1. /\ Len(table) \in Nat /\ DOMAIN table = 1..Len(table)
      /\ table = [j \in 1..Len(table) |-> table[j]]
      /\ \A j \in DOMAIN table : table[j] \in JobRows(slots)
  OBVIOUS
<1>2. ASSUME NEW j \in 1..Len(table) PROVE table[j] \in R
  <2>1. table[j] \in JobRows(slots) /\ table[j].slot \in Slots(table)
    BY <1>1 DEF Slots
  <2> QED
    BY <2>1 DEF JobRows
<1> HIDE DEF R
<1>3. table \in Seq(R)
  BY <1>1, <1>2
<1> QED
  BY <1>3 DEF R, IsTable

\* A row appended to a table is its last.
LEMMA AppendedRow ==
  ASSUME NEW table, NEW slot, NEW row, IsTable(table), row \in JobRows({slot})
  PROVE  /\ IsTable(Append(table, row))
         /\ Len(table) \in Nat /\ DOMAIN table = 1..Len(table)
         /\ DOMAIN Append(table, row) = 1..(Len(table) + 1)
         /\ \A j \in DOMAIN table : Append(table, row)[j] = table[j]
         /\ Append(table, row)[Len(table) + 1] = row
<1> DEFINE R == JobRows(Slots(table) \cup {slot})
<1>1. JobRows(Slots(table)) \subseteq R /\ row \in R
  BY DEF JobRows
<1>2. table \in Seq(JobRows(Slots(table)))
  BY DEF IsTable
<1> HIDE DEF R
<1>3. table \in Seq(R)
  BY <1>1, <1>2
<1>4. Append(table, row) \in Seq(R)
  BY <1>1, <1>3
<1>5. IsTable(Append(table, row))
  BY <1>4, RowsMakeTable DEF R
<1> QED
  BY <1>1, <1>3, <1>5

\* The status of a row changes in its place only.
LEMMA UpdatedRow ==
  ASSUME NEW table, NEW k, NEW status \in Statuses, IsTable(table)
  PROVE  LET new == [table EXCEPT ![k].status = status] IN
         /\ IsTable(new)
         /\ DOMAIN new = DOMAIN table
         /\ \A j \in DOMAIN table : IF j = k THEN new[j].status = status
                                              ELSE new[j] = table[j]
<1> DEFINE new == [table EXCEPT ![k].status = status]
<1> DEFINE R == JobRows(Slots(table))
<1> DEFINE changed(j) == [table[j] EXCEPT !.status = status]
<1>1. table \in Seq(R)
  BY DEF IsTable
<1>2. ASSUME NEW j \in DOMAIN table
      PROVE  changed(j) \in R /\ changed(j).status = status
  <2>1. table[j] \in R
    BY <1>1
  <2> QED
    BY <2>1 DEF JobRows
<1>3. new = [j \in DOMAIN table |-> IF j = k THEN changed(j) ELSE table[j]]
  <2>1. new = [table EXCEPT ![k] = changed(k)]
    BY Zenon
  <2> HIDE DEF new, changed
  <2> QED
    BY <2>1
<1> HIDE DEF R, changed, new
<1>4. /\ DOMAIN new = DOMAIN table
      /\ \A j \in DOMAIN table : new[j] = IF j = k THEN changed(j) ELSE table[j]
  BY <1>3
<1>5. new \in Seq(R)
  <2>1. Len(table) \in Nat /\ DOMAIN table = 1..Len(table)
        /\ \A j \in DOMAIN table : table[j] \in R
    BY <1>1
  <2> QED
    BY <1>2, <1>3, <2>1
<1>6. IsTable(new)
  BY <1>5, RowsMakeTable DEF R
<1>7. \A j \in DOMAIN table : IF j = k THEN new[j].status = status ELSE new[j] = table[j]
  BY <1>2, <1>4
<1> QED
  BY <1>4, <1>6, <1>7 DEF new
\* So it does in a table of runs.
LEMMA UpdatedRun ==
  ASSUME NEW table \in Seq(Run), NEW k, NEW status \in Statuses
  PROVE  LET new == [table EXCEPT ![k].status = status] IN
         /\ new \in Seq(Run)
         /\ DOMAIN new = DOMAIN table
         /\ \A r \in DOMAIN table : /\ new[r].boot = table[r].boot
                                   /\ IF r = k THEN new[r].status = status
                                               ELSE new[r] = table[r]
<1> DEFINE new == [table EXCEPT ![k].status = status]
<1> DEFINE changed(r) == [table[r] EXCEPT !.status = status]
<1>1. ASSUME NEW r \in DOMAIN table
      PROVE  changed(r) \in Run /\ changed(r).status = status /\ changed(r).boot = table[r].boot
  <2>1. table[r] \in Run
    OBVIOUS
  <2> QED
    BY <2>1 DEF Run
<1>2. new = [r \in DOMAIN table |-> IF r = k THEN changed(r) ELSE table[r]]
  <2>1. new = [table EXCEPT ![k] = changed(k)]
    BY Zenon
  <2> HIDE DEF new, changed
  <2> QED
    BY <2>1
<1> HIDE DEF changed, new
<1>3. /\ DOMAIN new = DOMAIN table
      /\ \A r \in DOMAIN table : new[r] = IF r = k THEN changed(r) ELSE table[r]
  BY <1>2
<1>4. new \in Seq(Run)
  <2>1. Len(table) \in Nat /\ DOMAIN table = 1..Len(table)
        /\ \A r \in DOMAIN table : table[r] \in Run
    OBVIOUS
  <2> QED
    BY <1>1, <1>2, <2>1
<1> QED
  BY <1>1, <1>3, <1>4 DEF new

-----------------------------------------------------------------------------
(* The lock and the rows of jobs *)

\* The workers and the free lock are told apart.
LEMMA ThreadNames == /\ "none" \notin Threads
                     /\ {"scheduler", "feed"} \subseteq Threads /\ Workers \subseteq Threads
                     /\ \A t \in Threads : t \in Workers \/ t \in Rescans
BY WorkerAssumption DEF Threads, Workers

\* The initial state satisfies the invariant.
LEMMA InitIInv == Init => IInv
<1> SUFFICES ASSUME Init PROVE IInv
  OBVIOUS
<1>1. IsTable(jobs)
  <2>1. jobs \in Seq(JobRows({}))
    BY DEF Init
  <2> QED
    BY <2>1, RowsMakeTable
<1>2. Shape
  <2>1. at \in [Threads -> Stages]
    BY DEF Init, Stages
  <2>2. mine \in [Threads -> Mine]
    BY DEF Init, Nothing, Mine, Types
  <2>3. runs \in Seq(Run) /\ boots \in Nat /\ lock = "none"
    BY DEF Init
  <2> QED
    BY <1>1, <2>1, <2>2, <2>3 DEF Shape
<1>3. \A t \in Threads : ~InJob(t)
  BY DEF Init, InJob, Body
<1>4. Locks
  BY <1>3, ThreadNames DEF Init, Locks, RowIsWritten, LockHolder, RunningRow, BootTogether, Workers
<1> QED
  BY <1>2, <1>4 DEF Init, IInv, RunsAreDated, InterruptedRunsAreFailed

\* A step that touches neither the lock nor a row of a job, and leaves a worker
\* inside its job or outside of it, keeps lock and rows in agreement.
LEMMA QuietStep ==
  ASSUME Shape, Locks, NEW t \in Threads, NEW stage \in Stages, Go(t, stage),
         at[t] # "boot", stage # "boot",
         UNCHANGED <<lock, jobs, faulted>>,
         mine' \in [Threads -> Mine],
         \A u \in Threads \ {t} : mine'[u] = mine[u],
         InJob(t) <=> InJob(t)',
         InJob(t) => mine'[t].job = mine[t].job,
         t \in Workers /\ stage \in {"acquire", "start"} => mine'[t].job = 0
  PROVE  Locks'
<1> USE DEF Shape, Locks
<1>1. at' \in [Threads -> Stages] /\ at'[t] = stage /\ \A u \in Threads \ {t} : at'[u] = at[u]
  BY DEF Go
<1>2. RowIsWritten'
  BY <1>1, ThreadNames DEF RowIsWritten
<1>3. LockHolder'
  BY <1>1 DEF LockHolder, InJob
<1>4. RunningRow'
  <2> SUFFICES ASSUME ~faulted, NEW j \in DOMAIN jobs, jobs[j].status = "RUNNING"
               PROVE  lock # "none" /\ mine'[lock].job = j
    BY DEF RunningRow
  <2>1. lock # "none" /\ mine[lock].job = j /\ lock \in Threads
    BY ThreadNames DEF RunningRow
  <2>2. lock = t => InJob(t)
    BY DEF LockHolder
  <2> QED
    BY <2>1, <2>2
<1>5. BootTogether'
  BY <1>1, ThreadNames DEF BootTogether
<1> QED
  BY <1>2, <1>3, <1>4, <1>5

\* The types survive a step of one thread.
LEMMA StepKeepsShape ==
  ASSUME Shape, NEW t \in Threads, NEW stage \in Stages, Go(t, stage),
         boots' = boots, lock' \in Workers \cup {"none"}, IsTable(jobs'),
         mine' \in [Threads -> Mine],
         runs' \in Seq(Run)
  PROVE  Shape'
BY DEF Shape, Go, IsTable, Slots

\* A job that has no row yet.
LEMMA NewJobIsTyped ==
  ASSUME Shape, NEW t \in Threads, NEW type \in Types,
         mine' = [mine EXCEPT ![t] = [Nothing EXCEPT !.type = type]]
  PROVE  /\ mine' \in [Threads -> Mine]
         /\ \A u \in Threads \ {t} : mine'[u] = mine[u]
         /\ mine'[t].job = 0
BY DEF Shape, Nothing, Mine, Types

LEMMA EndedJobIsTyped ==
  ASSUME Shape, NEW t \in Threads, mine' = [mine EXCEPT ![t] = Nothing]
  PROVE  /\ mine' \in [Threads -> Mine]
         /\ \A u \in Threads \ {t} : mine'[u] = mine[u]
         /\ mine'[t].job = 0
BY DEF Shape, Nothing, Mine, Types

LEMMA RunIsTyped ==
  ASSUME Shape, NEW t \in Threads, NEW r \in Nat, mine' = [mine EXCEPT ![t].run = r]
  PROVE  /\ mine' \in [Threads -> Mine]
         /\ \A u \in Threads \ {t} : mine'[u] = mine[u]
         /\ mine'[t].job = mine[t].job
<1>1. mine[t] \in Mine /\ mine'[t] = [mine[t] EXCEPT !.run = r]
  BY DEF Shape
<1>2. mine'[t] \in Mine /\ mine'[t].job = mine[t].job
  BY <1>1 DEF Mine
<1>3. \A u \in Threads \ {t} : mine'[u] = mine[u]
  BY DEF Shape
<1> QED
  BY <1>2, <1>3 DEF Shape

\* Where a thread is decides whether it is in a job.
LEMMA GoMoves ==
  ASSUME Shape, NEW t \in Threads, NEW stage \in Stages, Go(t, stage)
  PROVE  /\ at'[t] = stage
         /\ InJob(t)' <=> (stage \in Body \cup {"start", "fail", "finish", "report"} /\ t \in Workers)
BY DEF Shape, Go, InJob

\* The scheduler takes a slot, or finds none, outside of any job.
LEMMA SchedulerKeeps ==
  ASSUME IInv, SchedulerWakes \/ BuildUniverse
  PROVE  /\ Shape' /\ Locks' /\ UNCHANGED <<runs, boots>>
         /\ at["scheduler"] # "boot" /\ at'["scheduler"] # "boot"
<1> USE DEF IInv, Stages, Types
<1> DEFINE t == "scheduler"
<1>1. /\ t \in Threads /\ t \in Workers /\ at[t] \in {"idle", "universe"}
      /\ UNCHANGED <<boots, lock, jobs, runs, faulted>>
  BY ThreadNames DEF SchedulerWakes, BuildUniverse, clocks, rows, Workers
<1>2. PICK stage \in {"universe", "idle", "acquire"}, type \in Types :
        /\ Go(t, stage)
        /\ \/ mine' = mine /\ stage # "acquire"
           \/ mine' = [mine EXCEPT ![t] = [Nothing EXCEPT !.type = type]]
  <2>1. \A m : ScheduledJob(m) \in Types
    BY DEF ScheduledJob
  <2>2. ASSUME NEW m, TakeSlot(m)
        PROVE  \/ Go(t, "idle") /\ mine' = mine
               \/ Go(t, "acquire") /\ mine' = [mine EXCEPT ![t] = [Nothing EXCEPT !.type = ScheduledJob(m)]]
    BY <2>2 DEF TakeSlot
  <2>3. \/ Go(t, "universe") /\ mine' = mine
        \/ TakeSlot(minute) \/ TakeSlot(local)
    BY DEF SchedulerWakes, BuildUniverse
  <2> QED
    BY <2>1, <2>2, <2>3
<1>3. /\ mine' \in [Threads -> Mine]
      /\ \A u \in Threads \ {t} : mine'[u] = mine[u]
      /\ stage = "acquire" => mine'[t].job = 0
  <2>1. CASE mine' = mine /\ stage # "acquire"
    BY <2>1 DEF Shape
  <2>2. CASE mine' = [mine EXCEPT ![t] = [Nothing EXCEPT !.type = type]]
    BY <1>1, <2>2, NewJobIsTyped
  <2> QED
    BY <1>2, <2>1, <2>2
<1>4. ~InJob(t) /\ ~InJob(t)'
  BY <1>1, <1>2, GoMoves DEF InJob, Body
<1>5. Locks'
  BY <1>1, <1>2, <1>3, <1>4, QuietStep
<1>6. Shape'
  BY <1>1, <1>2, <1>3, StepKeepsShape DEF Shape
<1> QED
  BY <1>1, <1>2, <1>5, <1>6, GoMoves

\* The feed or a Telegram command begins something, without a row or the lock.
LEMMA BeginningKeeps ==
  ASSUME IInv, EventDrivenMonitor \/ \E r \in Rescans : StartRescan(r)
  PROVE  Shape' /\ Locks' /\ UNCHANGED <<runs, boots>> /\ at'["scheduler"] = at["scheduler"]
<1> USE DEF IInv, Stages, Types
<1>1. PICK t \in Threads, stage \in {"acquire", "insert"}, type \in Types :
        /\ Go(t, stage) /\ at[t] = "idle" /\ t # "scheduler"
        /\ mine' = [mine EXCEPT ![t] = [Nothing EXCEPT !.type = type]]
        /\ t \in Workers <=> stage = "acquire"
        /\ UNCHANGED <<boots, lock, jobs, runs, faulted>>
  BY ThreadNames, WorkerAssumption
  DEF EventDrivenMonitor, StartRescan, clocks, rows, Workers, Threads
<1>2. ~InJob(t) /\ ~InJob(t)'
  BY <1>1, GoMoves DEF InJob, Body
<1>3. Locks'
  BY <1>1, <1>2, NewJobIsTyped, QuietStep
<1>4. Shape'
  BY <1>1, NewJobIsTyped, StepKeepsShape DEF Shape
<1>5. at'["scheduler"] = at["scheduler"]
  BY <1>1, ThreadNames DEF Go, Shape
<1> QED
  BY <1>1, <1>3, <1>4, <1>5

\* The body of a job changes its run and its place in the job, nothing else; the
\* thread of a re-scan is never in a job.
LEMMA BodyKeeps ==
  ASSUME IInv, NEW t \in Threads, BodyStep(t) \/ BodyRaises(t)
  PROVE  /\ Shape' /\ Locks' /\ boots' = boots
         /\ at["scheduler"] # "boot" <=> at'["scheduler"] # "boot"
<1> USE DEF IInv, Stages, Types
<1>1. /\ at[t] \in Body \cup {"fail"}
      /\ UNCHANGED <<boots, lock, jobs, faulted>>
  BY DEF BodyStep, BodyRaises, InsertRun, RunCycle, SettleRun, PublishSnapshot, RecordFailure,
         clocks, rows, Body
<1>2. PICK stage \in Stages :
        /\ Go(t, stage)
        /\ t \in Workers => stage \in Body \cup {"fail", "finish", "report"}
        /\ stage \notin {"boot", "acquire", "start"}
  BY DEF BodyStep, BodyRaises, InsertRun, RunCycle, SettleRun, PublishSnapshot, RecordFailure,
         Raises, Leave, Body
<1>3. /\ mine' \in [Threads -> Mine]
      /\ \A u \in Threads \ {t} : mine'[u] = mine[u]
      /\ t \in Workers => mine'[t].job = mine[t].job
  <2>1. CASE mine' = mine
    BY <2>1 DEF Shape
  <2>2. CASE mine' = [mine EXCEPT ![t] = Nothing] /\ t \notin Workers
    BY <2>2, EndedJobIsTyped
  <2>3. CASE mine' = [mine EXCEPT ![t].run = Len(runs) + 1]
    <3>1. Len(runs) + 1 \in Nat
      BY DEF Shape
    <3> QED
      BY <2>3, <3>1, RunIsTyped
  <2> QED
    BY <2>1, <2>2, <2>3 DEF BodyStep, BodyRaises, InsertRun, RunCycle, SettleRun,
         PublishSnapshot, RecordFailure, Raises, Leave
<1>4. InJob(t) <=> InJob(t)'
  BY <1>1, <1>2, GoMoves DEF InJob, Body
<1>5. Locks'
  <2>1. InJob(t) => t \in Workers
    BY DEF InJob
  <2>2. at[t] # "boot"
    BY <1>1 DEF Body
  <2> QED
    BY <1>1, <1>2, <1>3, <1>4, <2>1, <2>2, QuietStep
<1>6. runs' \in Seq(Run)
  <2>1. CASE InsertRun(t)
    BY <2>1 DEF InsertRun, Shape, Run, Statuses
  <2>2. CASE runs' = runs
    BY <2>2 DEF Shape
  <2>3. CASE \E status \in Statuses : runs' = [runs EXCEPT ![mine[t].run].status = status]
    <3>1. PICK status \in Statuses : runs' = [runs EXCEPT ![mine[t].run].status = status]
      BY <2>3
    <3> QED
      BY <3>1, UpdatedRun DEF Shape
  <2> QED
    BY <2>1, <2>2, <2>3 DEF BodyStep, BodyRaises, RunCycle, SettleRun, PublishSnapshot,
         RecordFailure, rows, Statuses
<1>7. Shape'
  BY <1>1, <1>2, <1>3, <1>6, StepKeepsShape DEF Shape
<1>8. at["scheduler"] # "boot" <=> at'["scheduler"] # "boot"
  BY <1>1, <1>2, ThreadNames DEF Go, Shape, Body
<1> QED
  BY <1>1, <1>5, <1>7, <1>8

\* The lock is taken when it is free.
LEMMA TryLockKeeps ==
  ASSUME IInv, NEW t \in Threads, TryLock(t)
  PROVE  Shape' /\ Locks' /\ UNCHANGED <<runs, boots>>
<1> USE DEF IInv, Stages
<1>1. /\ t \in Workers /\ at[t] = "acquire" /\ ~InJob(t)
      /\ UNCHANGED <<boots, jobs, runs, mine, faulted>>
  BY DEF TryLock, clocks, rows, InJob, Body
<1>2. CASE lock = "none"
  <2>1. lock' = t /\ Go(t, "start") /\ at'[t] = "start" /\ \A u \in Threads \ {t} : at'[u] = at[u]
    BY <1>2 DEF TryLock, AcquireLock, Go, Shape
  <2>2. Shape'
    BY <1>1, <2>1, StepKeepsShape DEF Shape
  <2>3. LockHolder'
    BY <1>1, <1>2, <2>1, ThreadNames DEF Locks, LockHolder, InJob
  <2>4. RowIsWritten' /\ BootTogether'
    BY <1>1, <2>1, ThreadNames DEF Locks, RowIsWritten, BootTogether
  <2>5. RunningRow'
    BY <1>1, <1>2 DEF Locks, RunningRow
  <2> QED
    BY <1>1, <2>2, <2>3, <2>4, <2>5 DEF Locks
<1>3. CASE lock # "none"
  <2>1. Go(t, "skip") /\ lock' = lock
    BY <1>3 DEF TryLock, AcquireLock
  <2>2. ~InJob(t)'
    BY <2>1, GoMoves DEF Body
  <2>3. Locks'
    BY <1>1, <2>1, <2>2, QuietStep DEF Shape
  <2> QED
    BY <1>1, <2>1, <2>3, StepKeepsShape DEF Shape
<1> QED
  BY <1>2, <1>3

\* A thread that found the lock busy leaves a row, which is not RUNNING.
LEMMA SkipKeeps ==
  ASSUME IInv, NEW t \in Threads, RecordSkippedJob(t)
  PROVE  Shape' /\ Locks' /\ UNCHANGED <<runs, boots>>
<1> USE DEF IInv, Stages
<1>1. /\ t \in Workers /\ at[t] = "skip" /\ ~InJob(t) /\ Go(t, "idle")
      /\ mine' = [mine EXCEPT ![t] = Nothing]
      /\ UNCHANGED <<boots, lock, runs, faulted>>
  BY DEF RecordSkippedJob, clocks, InJob, Body
<1>2. \E slot : \E row \in JobRows({slot}) :
        jobs' = Append(jobs, row) /\ row.status = "SKIPPED"
  <2>1. JobRow(t, "SKIPPED") \in JobRows({SlotOf(t)}) /\ JobRow(t, "SKIPPED").status = "SKIPPED"
    BY <1>1 DEF JobRow, JobRows, Shape, Mine, Statuses
  <2> QED
    BY <2>1 DEF RecordSkippedJob
<1>3. /\ IsTable(jobs') /\ DOMAIN jobs' = 1..(Len(jobs) + 1) /\ DOMAIN jobs = 1..Len(jobs)
      /\ \A j \in DOMAIN jobs : jobs'[j] = jobs[j]
      /\ jobs'[Len(jobs) + 1].status = "SKIPPED" /\ Len(jobs) \in Nat
  <2>1. PICK slot : \E row \in JobRows({slot}) : jobs' = Append(jobs, row) /\ row.status = "SKIPPED"
    BY <1>2
  <2>2. PICK row : row \in JobRows({slot}) /\ jobs' = Append(jobs, row) /\ row.status = "SKIPPED"
    BY <2>1
  <2>3. IsTable(jobs)
    BY DEF Shape
  <2>4. /\ IsTable(Append(jobs, row))
        /\ Len(jobs) \in Nat /\ DOMAIN jobs = 1..Len(jobs)
        /\ DOMAIN Append(jobs, row) = 1..(Len(jobs) + 1)
        /\ \A j \in DOMAIN jobs : Append(jobs, row)[j] = jobs[j]
        /\ Append(jobs, row)[Len(jobs) + 1] = row
    BY <2>2, <2>3, AppendedRow
  <2> QED
    BY <2>2, <2>4
<1>4. Shape'
  BY <1>1, <1>3, EndedJobIsTyped, StepKeepsShape DEF Shape
<1>5. at'[t] = "idle" /\ \A u \in Threads \ {t} : at'[u] = at[u] /\ mine'[u] = mine[u]
  BY <1>1 DEF Go, Shape
<1>6. RowIsWritten' /\ LockHolder' /\ BootTogether'
  BY <1>1, <1>5, ThreadNames
  DEF Locks, RowIsWritten, LockHolder, BootTogether, InJob, Body
<1>7. RunningRow'
  <2> SUFFICES ASSUME ~faulted, NEW j \in DOMAIN jobs', jobs'[j].status = "RUNNING"
               PROVE  lock # "none" /\ mine'[lock].job = j
    BY <1>1 DEF RunningRow
  <2>1. j \in DOMAIN jobs /\ jobs[j].status = "RUNNING"
    BY <1>3
  <2>2. lock # "none" /\ mine[lock].job = j /\ lock \in Threads
    BY <2>1, ThreadNames DEF Locks, RunningRow, Shape
  <2>3. lock # t
    BY <1>1 DEF Locks, LockHolder
  <2> QED
    BY <1>5, <2>2, <2>3
<1> QED
  BY <1>1, <1>4, <1>6, <1>7 DEF Locks

\* The lock holder writes its RUNNING row, and no other row is RUNNING: such a
\* row would be its own, and it had none.
LEMMA StartKeeps ==
  ASSUME IInv, NEW t \in Threads, StartJob(t)
  PROVE  Shape' /\ Locks' /\ UNCHANGED <<runs, boots>>
<1> USE DEF IInv, Stages
<1>1. PICK stage \in {"insert", "monitor"} :
        /\ t \in Workers /\ at[t] = "start" /\ InJob(t) /\ Go(t, stage)
        /\ mine' = [mine EXCEPT ![t].job = Len(jobs) + 1]
        /\ UNCHANGED <<boots, lock, runs, faulted>>
  BY DEF StartJob, clocks, InJob
<1>2. \E slot : \E row \in JobRows({slot}) : jobs' = Append(jobs, row)
  <2>1. JobRow(t, "RUNNING") \in JobRows({SlotOf(t)})
    BY <1>1 DEF JobRow, JobRows, Shape, Mine, Statuses
  <2> QED
    BY <2>1 DEF StartJob
<1>3. /\ IsTable(jobs') /\ DOMAIN jobs' = 1..(Len(jobs) + 1) /\ DOMAIN jobs = 1..Len(jobs)
      /\ \A j \in DOMAIN jobs : jobs'[j] = jobs[j]
      /\ Len(jobs) \in Nat
  <2>1. PICK slot : \E row \in JobRows({slot}) : jobs' = Append(jobs, row)
    BY <1>2
  <2>2. PICK row : row \in JobRows({slot}) /\ jobs' = Append(jobs, row)
    BY <2>1
  <2>3. IsTable(jobs)
    BY DEF Shape
  <2>4. /\ IsTable(Append(jobs, row))
        /\ Len(jobs) \in Nat /\ DOMAIN jobs = 1..Len(jobs)
        /\ DOMAIN Append(jobs, row) = 1..(Len(jobs) + 1)
        /\ \A j \in DOMAIN jobs : Append(jobs, row)[j] = jobs[j]
        /\ Append(jobs, row)[Len(jobs) + 1] = row
    BY <2>2, <2>3, AppendedRow
  <2> QED
    BY <2>2, <2>4
<1>4. /\ mine' \in [Threads -> Mine] /\ mine'[t].job = Len(jobs) + 1
      /\ \A u \in Threads \ {t} : mine'[u] = mine[u]
  <2>1. mine[t] \in Mine /\ mine'[t] = [mine[t] EXCEPT !.job = Len(jobs) + 1]
    BY <1>1 DEF Shape
  <2>2. mine'[t] \in Mine /\ mine'[t].job = Len(jobs) + 1
    BY <1>3, <2>1 DEF Mine
  <2> QED
    BY <1>1, <2>2 DEF Shape
<1>5. Shape'
  BY <1>1, <1>3, <1>4, StepKeepsShape DEF Shape
<1>6. at'[t] = stage /\ \A u \in Threads \ {t} : at'[u] = at[u]
  BY <1>1 DEF Go, Shape
<1>7. RowIsWritten' /\ LockHolder' /\ BootTogether'
  BY <1>1, <1>4, <1>6, ThreadNames
  DEF Locks, RowIsWritten, LockHolder, BootTogether, InJob, Body
<1>8. RunningRow'
  <2> SUFFICES ASSUME ~faulted, NEW j \in DOMAIN jobs', jobs'[j].status = "RUNNING"
               PROVE  lock # "none" /\ mine'[lock].job = j
    BY <1>1 DEF RunningRow
  <2>1. lock = t /\ mine[t].job = 0
    BY <1>1 DEF Locks, LockHolder, RowIsWritten
  <2>2. j \notin DOMAIN jobs
    BY <1>3, <2>1 DEF Locks, RunningRow
  <2> QED
    BY <1>3, <1>4, <2>1, <2>2, ThreadNames
<1> QED
  BY <1>1, <1>5, <1>7, <1>8 DEF Locks

\* The lock holder ends its row, the only one that may be RUNNING, and leaves.
LEMMA EndKeeps ==
  ASSUME IInv, NEW t \in Threads, FinishJob(t) \/ ReportFailure(t)
  PROVE  Shape' /\ Locks' /\ UNCHANGED <<runs, boots>>
<1> USE DEF IInv, Stages
<1>1. PICK status \in {"COMPLETED", "FAILED"} :
        /\ jobs' = [jobs EXCEPT ![mine[t].job].status = status]
        /\ t \in Workers /\ at[t] \in {"finish", "report"} /\ InJob(t) /\ Go(t, "idle")
        /\ mine' = [mine EXCEPT ![t] = Nothing] /\ lock' = "none"
        /\ UNCHANGED <<boots, runs, faulted>>
  BY DEF FinishJob, ReportFailure, EndJob, clocks, InJob
<1>2. /\ IsTable(jobs') /\ DOMAIN jobs' = DOMAIN jobs
      /\ \A j \in DOMAIN jobs : IF j = mine[t].job THEN jobs'[j].status = status
                                                   ELSE jobs'[j] = jobs[j]
  <2>1. IsTable(jobs) /\ status \in Statuses
    BY DEF Shape, Statuses
  <2> QED
    BY <1>1, <2>1, UpdatedRow
<1>3. Shape'
  BY <1>1, <1>2, EndedJobIsTyped, StepKeepsShape DEF Shape
<1>4. at'[t] = "idle" /\ \A u \in Threads \ {t} : at'[u] = at[u] /\ mine'[u] = mine[u]
  BY <1>1 DEF Go, Shape
<1>5. lock = t
  BY <1>1 DEF Locks, LockHolder
<1>6. RowIsWritten' /\ LockHolder' /\ BootTogether'
  BY <1>1, <1>4, <1>5, ThreadNames
  DEF Locks, RowIsWritten, LockHolder, BootTogether, InJob, Body
<1>7. RunningRow'
  BY <1>1, <1>2, <1>5 DEF Locks, RunningRow
<1> QED
  BY <1>1, <1>3, <1>6, <1>7 DEF Locks

\* Whoever cannot write its row gives the lock back.
LEMMA RowFailureKeeps ==
  ASSUME IInv, NEW t \in Threads, JobRowFails(t)
  PROVE  Shape' /\ Locks' /\ UNCHANGED <<runs, boots>>
<1> USE DEF IInv, Stages
<1>1. t \in Workers /\ faulted' = TRUE /\ UNCHANGED <<boots, jobs, runs>>
  BY DEF JobRowFails, clocks, rows
<1>2. RunningRow'
  BY <1>1 DEF RunningRow
<1>3. CASE at[t] = "finish" /\ Go(t, "report") /\ UNCHANGED <<lock, mine>>
  <2>1. at'[t] = "report" /\ \A u \in Threads \ {t} : at'[u] = at[u]
    BY <1>3 DEF Go, Shape
  <2>2. Shape'
    BY <1>1, <1>3, StepKeepsShape DEF Shape
  <2>3. RowIsWritten' /\ LockHolder' /\ BootTogether'
    BY <1>1, <1>3, <2>1, ThreadNames
    DEF Locks, RowIsWritten, LockHolder, BootTogether, InJob, Body
  <2> QED
    BY <1>1, <1>2, <2>2, <2>3 DEF Locks
<1>4. CASE /\ at[t] \in {"skip", "start", "report"} /\ LeaveLock(t)
           /\ mine' = [mine EXCEPT ![t] = Nothing]
           /\ Go(t, IF t = "scheduler" THEN "dead" ELSE "idle")
  <2>1. PICK stage \in {"dead", "idle"} : Go(t, stage)
    BY <1>4
  <2>2. at'[t] = stage /\ \A u \in Threads \ {t} : at'[u] = at[u] /\ mine'[u] = mine[u]
    BY <1>4, <2>1 DEF Go, Shape
  <2>3. Shape'
    BY <1>1, <1>4, <2>1, EndedJobIsTyped, StepKeepsShape DEF Shape, LeaveLock
  <2>4. RowIsWritten' /\ BootTogether'
    BY <1>1, <1>4, <2>2, ThreadNames DEF Locks, RowIsWritten, BootTogether
  <2>5. LockHolder'
    <3>1. ~InJob(t)'
      BY <2>1, GoMoves DEF Body
    <3>2. \A u \in Threads \ {t} : InJob(u)' <=> InJob(u)
      BY <2>2 DEF InJob
    <3> QED
      BY <1>4, <3>1, <3>2, ThreadNames DEF Locks, LockHolder, LeaveLock
  <2> QED
    BY <1>1, <1>2, <2>3, <2>4, <2>5 DEF Locks
<1> QED
  BY <1>3, <1>4 DEF JobRowFails

\* A new process has no rows, and the kernel has released the lock.
LEMMA CrashKeeps ==
  ASSUME IInv, Crash
  PROVE  IInv'
<1> USE DEF IInv
<1>1. /\ at' = [t \in Threads |-> IF t \in Workers THEN "boot" ELSE "idle"]
      /\ mine' = [t \in Threads |-> Nothing]
      /\ lock' = "none" /\ jobs' = << >> /\ runs' = runs /\ boots' = boots + 1
  BY DEF Crash
<1>2. IsTable(jobs')
  <2>1. jobs' \in Seq(JobRows({}))
    BY <1>1
  <2> QED
    BY <2>1, RowsMakeTable
<1>3. Shape'
  <2>1. at' \in [Threads -> Stages]
    BY <1>1 DEF Stages
  <2>2. mine' \in [Threads -> Mine]
    BY <1>1 DEF Nothing, Mine, Types
  <2> QED
    BY <1>1, <1>2, <2>1, <2>2 DEF Shape
<1>4. \A t \in Threads : ~InJob(t)'
  BY <1>1 DEF InJob, Body
<1>5. Locks'
  BY <1>1, <1>4, ThreadNames
  DEF Locks, RowIsWritten, LockHolder, RunningRow, BootTogether, Workers
<1>6. RunsAreDated'
  <2> SUFFICES ASSUME NEW r \in DOMAIN runs PROVE runs[r].boot <= boots + 1
    BY <1>1 DEF RunsAreDated
  <2>1. runs[r] \in Run /\ boots \in Nat
    BY DEF Shape
  <2> QED
    BY <2>1 DEF RunsAreDated, Run
<1>7. InterruptedRunsAreFailed'
  BY <1>1, ThreadNames DEF InterruptedRunsAreFailed, Workers
<1> QED
  BY <1>3, <1>5, <1>6, <1>7

\* The new process closes every open run, whoever wrote it.
LEMMA RecoverKeeps ==
  ASSUME IInv, RecoverIncompleteRuns
  PROVE  IInv'
<1> USE DEF IInv
<1> DEFINE failed(r) == IF r \in InterruptedRuns THEN [runs[r] EXCEPT !.status = "FAILED"]
                                                 ELSE runs[r]
<1>1. /\ at["scheduler"] = "boot" /\ at["feed"] = "boot"
      /\ at' = [at EXCEPT !["scheduler"] = "idle", !["feed"] = "idle"]
      /\ UNCHANGED <<boots, lock, jobs, mine, faulted>>
  BY DEF RecoverIncompleteRuns, clocks, Locks, BootTogether
<1>2. ASSUME NEW r \in DOMAIN runs
      PROVE  failed(r) \in Run /\ failed(r).boot = runs[r].boot /\ failed(r).status # "RUNNING"
  <2>1. runs[r] \in Run
    BY DEF Shape
  <2> QED
    BY <2>1 DEF InterruptedRuns, Run, Statuses
<1>3. runs' = [r \in DOMAIN runs |-> failed(r)]
  BY DEF RecoverIncompleteRuns
<1> HIDE DEF failed
<1>4. runs' \in Seq(Run)
  <2>1. Len(runs) \in Nat /\ DOMAIN runs = 1..Len(runs)
    BY DEF Shape
  <2> QED
    BY <1>2, <1>3, <2>1
<1>5. /\ at' \in [Threads -> Stages]
      /\ \A t \in Threads : at'[t] = IF t \in Workers THEN "idle" ELSE at[t]
  BY <1>1, ThreadNames DEF Shape, Stages, Workers
<1>6. Shape'
  BY <1>1, <1>4, <1>5 DEF Shape, IsTable, Slots
<1>7. Locks'
  <2>1. \A t \in Threads : InJob(t)' <=> InJob(t)
    BY <1>1, <1>5, ThreadNames DEF InJob, Body, Workers
  <2> QED
    BY <1>1, <1>5, <2>1, ThreadNames
    DEF Locks, RowIsWritten, LockHolder, RunningRow, BootTogether, Workers
<1>8. RunsAreDated' /\ InterruptedRunsAreFailed'
  BY <1>1, <1>2, <1>3 DEF RunsAreDated, InterruptedRunsAreFailed
<1> QED
  BY <1>6, <1>7, <1>8

-----------------------------------------------------------------------------
(* The runs *)

\* A run that a live thread inserts is one of this process, and only the recovery
\* and the thread itself change a status.
LEMMA BodyKeepsRuns ==
  ASSUME IInv, NEW t \in Threads, BodyStep(t) \/ BodyRaises(t)
  PROVE  RunsAreDated' /\ InterruptedRunsAreFailed'
<1>1. boots' = boots /\ (at["scheduler"] # "boot" <=> at'["scheduler"] # "boot")
  BY BodyKeeps
<1> USE DEF IInv
<1>2. runs \in Seq(Run) /\ boots \in Nat
  BY DEF Shape
<1>3. CASE InsertRun(t)
  <2>1. runs' = Append(runs, [boot |-> boots, status |-> "RUNNING"])
    BY <1>3 DEF InsertRun
  <2>2. /\ DOMAIN runs' = 1..(Len(runs) + 1) /\ DOMAIN runs = 1..Len(runs) /\ Len(runs) \in Nat
        /\ \A r \in DOMAIN runs : runs'[r] = runs[r]
        /\ runs'[Len(runs) + 1].boot = boots
    BY <1>2, <2>1
  <2> QED
    BY <1>1, <1>2, <2>2 DEF RunsAreDated, InterruptedRunsAreFailed
<1>4. CASE runs' = runs
  BY <1>1, <1>4 DEF RunsAreDated, InterruptedRunsAreFailed
<1>5. CASE \E status \in {"COMPLETED", "FAILED"} :
             runs' = [runs EXCEPT ![mine[t].run].status = status]
  <2>1. PICK status \in {"COMPLETED", "FAILED"} :
          runs' = [runs EXCEPT ![mine[t].run].status = status]
    BY <1>5
  <2>2. /\ DOMAIN runs' = DOMAIN runs
        /\ \A r \in DOMAIN runs : /\ runs'[r].boot = runs[r].boot
                                  /\ \/ runs'[r].status = status
                                     \/ runs'[r] = runs[r]
    <3>1. status \in Statuses
      BY DEF Statuses
    <3> QED
      BY <1>2, <2>1, <3>1, UpdatedRun
  <2> QED
    BY <1>1, <2>2 DEF RunsAreDated, InterruptedRunsAreFailed
<1> QED
  BY <1>3, <1>4, <1>5 DEF BodyStep, BodyRaises, RunCycle, SettleRun, PublishSnapshot,
     RecordFailure, rows

\* The remaining steps leave the runs alone, and only a crash ends the process.
LEMMA OthersKeepRuns ==
  ASSUME IInv, UNCHANGED <<runs, boots>>, at'["scheduler"] # "boot" => at["scheduler"] # "boot"
  PROVE  RunsAreDated' /\ InterruptedRunsAreFailed'
BY DEF IInv, RunsAreDated, InterruptedRunsAreFailed

\* Every step of a job's frame leaves the scheduler up.
LEMMA FramesRunWhenUp ==
  ASSUME IInv, NEW t \in Threads, JobStep(t) \/ JobRowFails(t)
  PROVE  at'["scheduler"] # "boot" => at["scheduler"] # "boot"
<1>1. at[t] # "boot" /\ \E stage : at' = [at EXCEPT ![t] = stage]
  BY DEF JobStep, TryLock, AcquireLock, RecordSkippedJob, StartJob, FinishJob, ReportFailure,
         EndJob, JobRowFails, Go
<1>2. PICK stage : at' = [at EXCEPT ![t] = stage]
  BY <1>1
<1>3. t # "scheduler" => at'["scheduler"] = at["scheduler"]
  BY <1>2, ThreadNames DEF IInv, Shape
<1> QED
  BY <1>1, <1>3

-----------------------------------------------------------------------------
(* The theorems *)

\* Every step preserves the invariant.
LEMMA NextKeepsIInv == IInv /\ [Next]_vars => IInv'
<1> SUFFICES ASSUME IInv, [Next]_vars PROVE IInv'
  OBVIOUS
<1>1. CASE SchedulerWakes \/ BuildUniverse
  <2>1. Shape' /\ Locks' /\ UNCHANGED <<runs, boots>>
        /\ at["scheduler"] # "boot" /\ at'["scheduler"] # "boot"
    BY <1>1, SchedulerKeeps
  <2> QED
    BY <2>1, OthersKeepRuns DEF IInv
<1>2. CASE EventDrivenMonitor \/ \E t \in Rescans : StartRescan(t)
  <2>1. Shape' /\ Locks' /\ UNCHANGED <<runs, boots>> /\ at'["scheduler"] = at["scheduler"]
    BY <1>2, BeginningKeeps
  <2> QED
    BY <2>1, OthersKeepRuns DEF IInv
<1>3. ASSUME NEW t \in Threads, JobStep(t) \/ JobRowFails(t) PROVE IInv'
  <2>1. Shape' /\ Locks' /\ UNCHANGED <<runs, boots>>
    BY <1>3, TryLockKeeps, SkipKeeps, StartKeeps, EndKeeps, RowFailureKeeps DEF JobStep
  <2> QED
    <3>1. RunsAreDated' /\ InterruptedRunsAreFailed'
      BY <1>3, <2>1, FramesRunWhenUp, OthersKeepRuns
    <3> QED
      BY <2>1, <3>1 DEF IInv
<1>4. ASSUME NEW t \in Threads, BodyStep(t) \/ BodyRaises(t) PROVE IInv'
  BY <1>4, BodyKeeps, BodyKeepsRuns DEF IInv
<1>5. CASE AdvanceMinute \/ UNCHANGED vars
  BY <1>5 DEF AdvanceMinute, vars, clocks, rows, loop, IInv, Shape, IsTable, Slots, Locks,
     RowIsWritten, LockHolder, InJob, RunningRow, BootTogether, RunsAreDated,
     InterruptedRunsAreFailed
<1>6. CASE Crash
  BY <1>6, CrashKeeps
<1>7. CASE RecoverIncompleteRuns
  BY <1>7, RecoverKeeps
<1>8. ASSUME NEW t \in Threads, StartRescan(t) PROVE IInv'
  BY <1>2, <1>8 DEF StartRescan
<1> QED
  BY <1>1, <1>2, <1>3, <1>4, <1>5, <1>6, <1>7, <1>8 DEF Next

\* The file lock, the threads and both tables stay in agreement.
THEOREM LockAndTablesAgree == Spec => []IInv
BY InitIInv, NextKeepsIInv, PTL DEF Spec

\* Scheduled jobs never overlap, and the table of jobs says so: only the holder
\* of the file lock is in a job, and a RUNNING row is its own.
THEOREM JobsExcludeEachOther == Spec => []JobRowsMatchLock
<1>1. IInv => JobRowsMatchLock
  BY DEF IInv, Locks, LockHolder, RunningRow, JobRowsMatchLock
<1> QED
  BY <1>1, LockAndTablesAgree, PTL

\* Wherever a process dies, the next one leaves none of its runs open once its
\* scheduler is up.
THEOREM RestartsFailOpenRuns == Spec => []InterruptedRunsAreFailed
<1>1. IInv => InterruptedRunsAreFailed
  BY DEF IInv
<1> QED
  BY <1>1, LockAndTablesAgree, PTL
=============================================================================
