--------------------------- MODULE OptionsQuantProofs ---------------------------
(* Proofs about OptionsQuant for any number of calls, spreads, days, failures    *)
(* and unanswered orders: the flag of the server lets one cycle run at a time;   *)
(* the scheduler's messages keep the operator's number of open positions; the    *)
(* day's limits lock its entries (BooksInv); and the legs at the broker stay as  *)
(* near to the stored state as failures explain (LegsInv, over BooksInv).        *)
EXTENDS OptionsQuant, SumTheorems, TLAPS

--------------------------------------------------------------------------------
(* What the operator knows.                                                      *)

\* The end of a job keeps the number: a completed monitor that says nothing found
\* the positions of the previous summary.
LEMMA CompletionKeepsOperator ==
  ASSUME OperatorKnowsPositions, NEW request, NEW book, Completed(request, book)
  PROVE  OperatorKnowsPositions'
<1>1. CASE request = "none"
  BY <1>1 DEF Completed, operator, OperatorKnowsPositions
<1>2. CASE request # "none"
  <2> DEFINE new == SummaryOf(book)
  <2>1. /\ summary' = new
        /\ told' = IF Announced(request, summary, new) THEN new.open ELSE told
    BY <1>2 DEF Completed
  <2>2. CASE Announced(request, summary, new)
    BY <2>1, <2>2 DEF OperatorKnowsPositions
  <2>3. CASE ~Announced(request, summary, new)
    <3>1. told' = told
      BY <2>1, <2>3
    <3>2. summary = NoSummary => told = Nothing
      BY DEF OperatorKnowsPositions, NoSummary
    <3>3. summary # NoSummary => new.open = summary.open
      BY <2>3 DEF Announced
    <3> QED
      BY <2>1, <3>1, <3>2, <3>3 DEF OperatorKnowsPositions
  <2> QED
    BY <2>2, <2>3
<1> QED
  BY <1>1, <1>2

\* The operator's number of open positions is that of the last completed job, for
\* every history of failed, timed-out and completed jobs (latest_completed_summary,
\* notify_completed).
THEOREM OperatorKnowsPositionsAlways == Spec => []OperatorKnowsPositions
<1>1. Init => OperatorKnowsPositions
  BY DEF Init, OperatorKnowsPositions
<1>2. OperatorKnowsPositions /\ [Next]_vars => OperatorKnowsPositions'
  <2> SUFFICES ASSUME OperatorKnowsPositions, [Next]_vars
               PROVE  OperatorKnowsPositions'
    OBVIOUS
  <2>1. ASSUME UNCHANGED operator
        PROVE  OperatorKnowsPositions'
    BY <2>1 DEF operator, OperatorKnowsPositions
  <2>2. ASSUME NEW t, NEW book, Finish(t, book)
        PROVE  OperatorKnowsPositions'
    BY <2>2, CompletionKeepsOperator DEF Finish
  <2>3. ASSUME NEW t, NEW book, PersistNoTrade(t, book)
        PROVE  OperatorKnowsPositions'
    BY <2>2, <2>3 DEF PersistNoTrade
  <2>4. ASSUME NEW t \in Tasks, Proceed(t)
        PROVE  OperatorKnowsPositions'
    <3>1. CASE Abandon(t)
      BY <2>2, <2>3, <3>1 DEF Abandon
    <3>2. CASE NothingToMark(t)
      BY <2>1, <3>2 DEF NothingToMark
    <3>3. ASSUME NEW mark \in Marks, HoldSpread(t, mark)
          PROVE  OperatorKnowsPositions'
      BY <2>2, <2>3, <3>3 DEF HoldSpread
    <3>4. ASSUME NEW mark \in Marks, NEW fails \in BOOLEAN, ExitSpread(t, mark, fails)
          PROVE  OperatorKnowsPositions'
      BY <2>1, <3>4 DEF ExitSpread
    <3>5. CASE StoreExit(t)
      BY <2>1, <3>5 DEF StoreExit
    <3>6. CASE TakeNoOpportunity(t)
      BY <2>3, <3>6 DEF TakeNoOpportunity
    <3>7. CASE TakeOpportunity(t)
      BY <2>1, <3>7 DEF TakeOpportunity
    <3>8. CASE StoreEntry(t)
      BY <2>2, <3>8 DEF StoreEntry
    <3> QED
      BY <2>4, <3>1, <3>2, <3>3, <3>4, <3>5, <3>6, <3>7, <3>8 DEF Proceed, ReadMarket
  <2>5. ASSUME NEW t \in Tasks, BrokerAnswers(t)
        PROVE  OperatorKnowsPositions'
    <3>1. CASE ExitAccepted(t)
      BY <2>1, <3>1 DEF ExitAccepted
    <3>2. CASE EntryAccepted(t)
      BY <2>1, <3>2 DEF EntryAccepted
    <3>3. ASSUME NEW left \in 0..2, ExitFails(t, left) \/ EntryFails(t, left)
          PROVE  OperatorKnowsPositions'
      BY <2>3, <3>3 DEF ExitFails, EntryFails, OrderFails
    <3> QED
      BY <2>5, <3>1, <3>2, <3>3 DEF BrokerAnswers
  <2>6. ASSUME NEW t \in Tasks, ActiveMonitor(t) \/ \E kind \in {"scan", "monitor"} : JobPosts(t, kind)
        PROVE  OperatorKnowsPositions'
    BY <2>1, <2>6 DEF ActiveMonitor, JobPosts, Begin
  <2>7. ASSUME NEW t \in Tasks, JobTimesOut(t) \/ WriteFails(t)
        PROVE  OperatorKnowsPositions'
    BY <2>1, <2>7 DEF JobTimesOut, WriteFails
  <2>8. CASE Crash \/ StartService \/ AdvancePhase
    BY <2>1, <2>8 DEF Crash, StartService, AdvancePhase
  <2>9. CASE UNCHANGED vars
    BY <2>1, <2>9 DEF vars
  <2> QED
    BY <2>4, <2>5, <2>6, <2>7, <2>8, <2>9 DEF Next
<1> QED
  BY <1>1, <1>2, PTL DEF Spec
--------------------------------------------------------------------------------
(* One cycle at a time.                                                          *)

\* A cycle in progress holds the flag, and there is never a second one.
OneCycle ==
  /\ cycleRunning \in BOOLEAN
  /\ DOMAIN cycles = Tasks
  /\ \A t \in Tasks : cycles[t] # NoCycle => cycleRunning = TRUE
  /\ \A t, u \in Tasks : cycles[t] # NoCycle /\ cycles[u] # NoCycle => t = u

\* A cycle starts where the flag is clear.
LEMMA BeginKeepsOneCycle ==
  ASSUME OneCycle, NEW t \in Tasks, NEW cycle,
         cycleRunning = FALSE, cycleRunning' = TRUE, Goto(t, cycle)
  PROVE  OneCycle'
<1>1. \A u \in Tasks : cycles[u] = NoCycle
  BY DEF OneCycle
<1>2. DOMAIN cycles' = Tasks /\ \A u \in Tasks : u # t => cycles'[u] = cycles[u]
  BY DEF OneCycle, Goto
<1> QED
  BY <1>1, <1>2 DEF OneCycle

\* A step of the cycle in progress leaves no other.
LEMMA StepKeepsOneCycle ==
  ASSUME OneCycle, NEW t \in Tasks, NEW cycle, cycles[t] # NoCycle,
         cycleRunning' = cycleRunning, Goto(t, cycle)
  PROVE  OneCycle'
<1>1. \A u \in Tasks : u # t => cycles[u] = NoCycle
  BY DEF OneCycle
<1>2. DOMAIN cycles' = Tasks /\ \A u \in Tasks : u # t => cycles'[u] = cycles[u]
  BY DEF OneCycle, Goto
<1>3. cycleRunning = TRUE
  BY DEF OneCycle
<1> QED
  BY <1>1, <1>2, <1>3 DEF OneCycle

\* Its end, by a return or an exception, clears the flag behind the last cycle.
LEMMA EndKeepsOneCycle ==
  ASSUME OneCycle, NEW t \in Tasks, cycles[t] # NoCycle,
         cycleRunning' = FALSE, Goto(t, NoCycle)
  PROVE  OneCycle'
<1>1. \A u \in Tasks : u # t => cycles[u] = NoCycle
  BY DEF OneCycle
<1>2. DOMAIN cycles' = Tasks /\ \A u \in Tasks : cycles'[u] = NoCycle
  BY <1>1 DEF OneCycle, Goto
<1> QED
  BY <1>2 DEF OneCycle

\* Whatever posts, timers, time-outs, failures and restarts come, at most one cycle
\* is in progress and the flag is set while it is (the server's cycleRunning).
THEOREM OneCycleAtATime == Spec => []OneCycle
<1>1. Init => OneCycle
  BY DEF Init, OneCycle
<1>2. OneCycle /\ [Next]_vars => OneCycle'
  <2> SUFFICES ASSUME OneCycle, [Next]_vars
               PROVE  OneCycle'
    OBVIOUS
  <2>1. ASSUME NEW t \in Tasks, cycles[t].at # "idle" \/ cycles[t].request # "none"
        PROVE  cycles[t] # NoCycle
    BY <2>1 DEF NoCycle
  <2>2. ASSUME NEW t \in Tasks, cycles[t] # NoCycle,
               \E book : Finish(t, book) \/ PersistNoTrade(t, book)
        PROVE  OneCycle'
    BY <2>2, EndKeepsOneCycle DEF Finish, PersistNoTrade, FlagAfter
  <2>3. ASSUME NEW t \in Tasks, cycles[t] # NoCycle, cycleRunning' = cycleRunning,
               \E cycle : Goto(t, cycle)
        PROVE  OneCycle'
    BY <2>3, StepKeepsOneCycle
  <2>4. ASSUME NEW t \in Tasks, Proceed(t)
        PROVE  OneCycle'
    <3>1. CASE Abandon(t)
      BY <2>1, <2>2, <3>1 DEF Abandon, At
    <3>2. CASE NothingToMark(t)
      BY <2>1, <2>3, <3>2 DEF NothingToMark, MarketRead, At
    <3>3. ASSUME NEW mark \in Marks, HoldSpread(t, mark)
          PROVE  OneCycle'
      BY <2>1, <2>2, <3>3 DEF HoldSpread, MarketRead, At
    <3>4. ASSUME NEW mark \in Marks, NEW fails \in BOOLEAN, ExitSpread(t, mark, fails)
          PROVE  OneCycle'
      BY <2>1, <2>3, <3>4 DEF ExitSpread, MarketRead, At
    <3>5. CASE StoreExit(t)
      BY <2>1, <2>3, <3>5 DEF StoreExit, At
    <3>6. CASE TakeNoOpportunity(t)
      BY <2>1, <2>2, <3>6 DEF TakeNoOpportunity, At
    <3>7. CASE TakeOpportunity(t)
      BY <2>1, <2>3, <3>7 DEF TakeOpportunity, At
    <3>8. CASE StoreEntry(t)
      BY <2>1, <2>2, <3>8 DEF StoreEntry, At
    <3> QED
      BY <2>4, <3>1, <3>2, <3>3, <3>4, <3>5, <3>6, <3>7, <3>8 DEF Proceed, ReadMarket
  <2>5. ASSUME NEW t \in Tasks, BrokerAnswers(t)
        PROVE  OneCycle'
    <3>1. CASE ExitAccepted(t)
      BY <2>1, <2>3, <3>1 DEF ExitAccepted, At
    <3>2. CASE EntryAccepted(t)
      BY <2>1, <2>3, <3>2 DEF EntryAccepted, At
    <3>3. ASSUME NEW left \in 0..2, ExitFails(t, left) \/ EntryFails(t, left)
          PROVE  OneCycle'
      BY <2>1, <2>2, <3>3 DEF ExitFails, EntryFails, OrderFails, At
    <3> QED
      BY <2>5, <3>1, <3>2, <3>3 DEF BrokerAnswers
  <2>6. ASSUME NEW t \in Tasks, ActiveMonitor(t) \/ \E kind \in {"scan", "monitor"} : JobPosts(t, kind)
        PROVE  OneCycle'
    <3>1. cycleRunning = FALSE /\ cycleRunning' = TRUE /\ \E cycle : Goto(t, cycle)
      BY <2>6 DEF ActiveMonitor, JobPosts, Begin, MayBegin, OneCycle
    <3> QED
      BY <3>1, BeginKeepsOneCycle
  <2>7. ASSUME NEW t \in Tasks, JobTimesOut(t)
        PROVE  OneCycle'
    BY <2>1, <2>3, <2>7 DEF JobTimesOut
  <2>8. ASSUME NEW t \in Tasks, WriteFails(t)
        PROVE  OneCycle'
    BY <2>1, <2>8, EndKeepsOneCycle DEF WriteFails, FlagAfter
  <2>9. CASE Crash
    BY <2>9 DEF Crash, OneCycle
  <2>10. CASE StartService \/ AdvancePhase \/ UNCHANGED vars
    BY <2>10 DEF StartService, AdvancePhase, service, vars, OneCycle
  <2> QED
    BY <2>4, <2>5, <2>6, <2>7, <2>8, <2>9, <2>10 DEF Next
<1> QED
  BY <1>1, <1>2, PTL DEF Spec

--------------------------------------------------------------------------------
(* What the books of the cycles have to do with the stored one.                  *)

Position == [status: {"NONE", "OPEN", "CLOSED"}, mode: {"NONE", "SHADOW", "UPSTOX_SANDBOX"},
             opened: Nat, closed: Nat, net: Int]
Book == [positions: [Spreads -> Position], stage: {"SHADOW", "FAILED"}]
Cycle == [at: {"begun", "exit", "closed", "entry", "opened"}, kind: {"scan", "monitor"},
          request: {"none", "scan", "monitor"}, book: Book, spread: Nat, net: Int]

\* The day's result leaves room for an entry.
Within(book) == -DailyLossLimit < DayNet(book) /\ 10 * DayNet(book) < 9 * DailyTarget

\* One spread is open at most, it was opened while the result left room, nothing
\* was closed on a later day, and opportunities not yet taken have no row.
BookOK(book) ==
  /\ book \in Book
  /\ \A s, u \in With(book, "OPEN") : s = u
  /\ With(book, "OPEN") # {} => Within(book)
  /\ \A s \in Spreads : /\ book.positions[s].closed <= day
                        /\ s > opportunities => book.positions[s].status = "NONE"

\* Each step of a cycle knows what separates its book from the stored one.
CycleOK(c) ==
  /\ c \in Cycle
  /\ BookOK(c.book)
  /\ c.at \in {"begun", "exit"} => c.book = stored
  /\ c.at = "exit" => /\ c.spread \in With(c.book, "OPEN")
                      /\ c.book.positions[c.spread].mode = "UPSTOX_SANDBOX"
  /\ c.at \in {"closed", "entry"} => With(c.book, "OPEN") = {}
  /\ c.at = "closed" => c.book = stored \/ With(stored, "OPEN") # {}
  /\ c.at = "entry" => /\ c.spread \in Spreads /\ c.spread = opportunities
                       /\ c.book.positions[c.spread].status = "NONE"
                       /\ Within(c.book)

Counters ==
  /\ opportunities \in Nat /\ day \in Nat /\ legs \in [Spreads -> Int]
  /\ forgot \in Nat /\ unknown \in Nat
BooksInv ==
  /\ BookOK(stored) /\ Counters
  /\ \A t \in Tasks : cycles[t] # NoCycle => up = TRUE /\ CycleOK(cycles[t])

\* What the constants' assumption gives the proofs.
LEMMA ConstantsAreInt ==
  /\ MaxSpreads \in Nat /\ Marks \subseteq Int
  /\ DailyTarget \in Nat \ {0} /\ DailyLossLimit \in Nat \ {0}
BY OptionsQuantAssumption

\* The result of a day is an integer.
LEMMA DayNetInt ==
  ASSUME NEW book \in Book
  PROVE  DayNet(book) \in Int
<1> DEFINE S == {s \in With(book, "CLOSED") : book.positions[s].closed = day}
           f == [s \in S |-> book.positions[s].net]
<1>1. IsFiniteSet(Spreads) BY ConstantsAreInt, FS_Interval DEF Spreads
<1>2. S \in SUBSET Spreads BY DEF With
<1>3. IsFiniteSet(S) BY <1>1, <1>2, FS_Subset
<1>4. \A s \in S : f[s] \in Int BY <1>2 DEF Book, Position
<1>5. DayNet(book) = SumFunctionOnSet(f, S) BY DEF DayNet, Net
<1> HIDE DEF S, f
<1> QED BY <1>3, <1>4, <1>5, SumInt

\* Rows that closed today make the day's result.
LEMMA SameDayNet ==
  ASSUME NEW book \in Book, NEW other \in Book,
         \A s \in Spreads : \/ other.positions[s] = book.positions[s]
                            \/ book.positions[s].status # "CLOSED" /\ other.positions[s].status # "CLOSED"
  PROVE  DayNet(other) = DayNet(book)
<1> DEFINE S == {s \in With(book, "CLOSED") : book.positions[s].closed = day}
           R == {s \in With(other, "CLOSED") : other.positions[s].closed = day}
<1>1. R = S BY DEF With
<1>2. \A s \in S : other.positions[s].net = book.positions[s].net BY DEF With
<1>3. [s \in S |-> other.positions[s].net] = [s \in S |-> book.positions[s].net] BY <1>2
<1> QED BY <1>1, <1>3 DEF DayNet, Net

\* A book stays as good as it is while no day passes.
LEMMA BookKept ==
  ASSUME NEW book, BookOK(book), Counters, Counters',
         day' = day, opportunities' >= opportunities
  PROVE  BookOK(book)'
<1>1. DayNet(book)' = DayNet(book) BY DEF DayNet
<1>2. Within(book)' = Within(book) BY <1>1 DEF Within
<1>3. \A s \in Spreads : s > opportunities' => s > opportunities
  BY DEF Counters, Spreads
<1> QED BY <1>2, <1>3 DEF BookOK

\* A STOP that becomes final changes no position.
LEMMA NoTradeBookOK ==
  ASSUME NEW book, BookOK(book)
  PROVE  /\ BookOK(NoTradeBook(book))
         /\ NoTradeBook(book).positions = book.positions
<1>1. NoTradeBook(book) \in Book /\ NoTradeBook(book).positions = book.positions
  BY DEF NoTradeBook, BookOK, Book
<1>2. /\ \A status : With(NoTradeBook(book), status) = With(book, status)
      /\ Within(NoTradeBook(book)) <=> Within(book)
  <2> HIDE DEF NoTradeBook
  <2>1. DayNet(NoTradeBook(book)) = DayNet(book) BY <1>1, SameDayNet DEF BookOK
  <2> QED BY <1>1, <2>1 DEF With, Within
<1> QED BY <1>1, <1>2 DEF BookOK

\* A book whose open spread is closed has none open.
LEMMA ClosedBookOK ==
  ASSUME NEW book, BookOK(book), Counters, NEW s \in With(book, "OPEN"), NEW net \in Int
  PROVE  /\ BookOK(ClosedBook(book, s, net))
         /\ With(ClosedBook(book, s, net), "OPEN") = {}
<1> DEFINE new == ClosedBook(book, s, net)
<1>1. s \in Spreads /\ book.positions[s].status = "OPEN" BY DEF With
<1>2. /\ new \in Book
      /\ new.positions[s].status = "CLOSED" /\ new.positions[s].closed = day
      /\ \A u \in Spreads : u # s => new.positions[u] = book.positions[u]
  <2> DEFINE row == [book.positions[s] EXCEPT !.status = "CLOSED", !.closed = day, !.net = net]
  <2>1. book \in Book /\ day \in Nat BY DEF BookOK, Counters
  <2>2. row \in Position /\ row.status = "CLOSED" /\ row.closed = day
    <3>1. book.positions[s] \in Position BY <1>1, <2>1 DEF Book
    <3> QED BY <2>1, <3>1 DEF Position
  <2>3. new = [book EXCEPT !.positions = [book.positions EXCEPT ![s] = row]]
    BY <1>1, <2>1 DEF ClosedBook, Book, Position
  <2> HIDE DEF row, new
  <2>4. new.positions = [book.positions EXCEPT ![s] = row] /\ new \in Book
    BY <2>1, <2>2, <2>3 DEF Book
  <2> QED BY <1>1, <2>1, <2>2, <2>4 DEF Book
<1> HIDE DEF new
<1>3. With(new, "OPEN") = {} BY <1>1, <1>2 DEF With, BookOK
<1>4. ~(s > opportunities) BY <1>1 DEF BookOK
<1>5. \A u \in Spreads : new.positions[u].closed <= day BY <1>2 DEF BookOK, Counters
<1>6. BookOK(new) BY <1>1, <1>2, <1>3, <1>4, <1>5 DEF BookOK
<1> QED BY <1>3, <1>6 DEF new

\* A book in which an opportunity is opened has that one spread open.
LEMMA OpenedBookIs ==
  ASSUME NEW book, BookOK(book), Counters, NEW s \in Spreads,
         book.positions[s].status = "NONE", With(book, "OPEN") = {}, Within(book),
         NEW mode \in {"SHADOW", "UPSTOX_SANDBOX"}
  PROVE  LET new == OpenedBook(book, s, mode) IN
         /\ new \in Book /\ With(new, "OPEN") = {s} /\ Within(new)
         /\ new.positions[s].mode = mode
         /\ \A u \in Spreads : u # s => new.positions[u] = book.positions[u]
         /\ \A u \in Spreads : new.positions[u].closed <= day
<1> DEFINE new == OpenedBook(book, s, mode)
<1>1. /\ new \in Book /\ new.positions[s].mode = mode
      /\ new.positions[s].status = "OPEN" /\ new.positions[s].closed = 0
      /\ \A u \in Spreads : u # s => new.positions[u] = book.positions[u]
  BY DEF OpenedBook, BookOK, Book, Position, Counters
<1> HIDE DEF new
<1>2. With(new, "OPEN") = {s} BY <1>1 DEF With
<1>3. Within(new)
  <2>1. DayNet(new) = DayNet(book) BY <1>1, SameDayNet DEF BookOK
  <2> QED BY <2>1 DEF Within
<1>4. \A u \in Spreads : new.positions[u].closed <= day BY <1>1 DEF BookOK, Counters
<1> QED BY <1>1, <1>2, <1>3, <1>4 DEF new

\* The gates before an order compare the day's result with both limits.
LEMMA AllowedIsWithin ==
  ASSUME NEW book \in Book, EntryAllowed(book)
  PROVE  Within(book)
<1>1. DayNet(book) \in Int BY DayNetInt
<1>2. ~(10 * DayNet(book) >= 9 * DailyTarget) /\ ~(DayNet(book) <= -DailyLossLimit)
  BY DEF EntryAllowed, DayLocked
<1> HIDE DEF DayNet
<1> QED BY <1>1, <1>2, ConstantsAreInt DEF Within

--------------------------------------------------------------------------------
\* A cycle ends, and what it wrote is a book.
LEMMA EndKeepsBooks ==
  ASSUME BooksInv, OneCycle, NEW t \in Tasks, cycles[t] # NoCycle, Goto(t, NoCycle),
         Counters', BookOK(stored)'
  PROVE  BooksInv'
<1>1. \A u \in Tasks : cycles'[u] = NoCycle BY DEF OneCycle, Goto
<1> QED BY <1>1 DEF BooksInv

\* A cycle goes on, or begins.
LEMMA MoveKeepsBooks ==
  ASSUME BooksInv, OneCycle, NEW t \in Tasks, NEW c, Goto(t, c),
         \A u \in Tasks : u # t => cycles[u] = NoCycle,
         up' = TRUE, Counters', BookOK(stored)', CycleOK(c)'
  PROVE  BooksInv'
<1>1. cycles'[t] = c /\ \A u \in Tasks : u # t => cycles'[u] = NoCycle BY DEF OneCycle, Goto
<1> QED BY <1>1 DEF BooksInv

\* The empty book is one.
LEMMA InitBooks == Init => BooksInv
<1> SUFFICES ASSUME Init PROVE BooksInv OBVIOUS
<1>1. stored = EmptyBook /\ day = 1 /\ opportunities = 0 BY DEF Init
<1>2. EmptyBook \in Book BY DEF EmptyBook, NoRow, Book, Position
<1>3. \A s \in Spreads : EmptyBook.positions[s] = NoRow BY DEF EmptyBook
<1>4. With(EmptyBook, "OPEN") = {} BY <1>3 DEF With, NoRow
<1>5. BookOK(stored) BY <1>1, <1>2, <1>3, <1>4 DEF BookOK, NoRow
<1>6. Counters BY DEF Init, Counters
<1> QED BY <1>5, <1>6 DEF Init, BooksInv

\* Where a cycle stands when a step of it is taken.
LEMMA Alone ==
  ASSUME BooksInv, OneCycle, NEW t \in Tasks, cycles[t] # NoCycle
  PROVE  /\ CycleOK(cycles[t]) /\ BookOK(stored) /\ Counters /\ up = TRUE
         /\ \A u \in Tasks : u # t => cycles[u] = NoCycle
BY DEF BooksInv, OneCycle

\* A cycle begins with the stored book.
LEMMA BeginKeepsBooks ==
  ASSUME BooksInv, OneCycle, NEW t \in Tasks, NEW kind \in {"scan", "monitor"},
         NEW request \in {"none", "scan", "monitor"}, Begin(t, kind, request)
  PROVE  BooksInv'
<1>0. PICK c : c = [NoCycle EXCEPT !.at = "begun", !.kind = kind, !.request = request, !.book = stored]
  OBVIOUS
<1>1. /\ \A u \in Tasks : cycles[u] = NoCycle
      /\ up' = TRUE /\ Goto(t, c)
  BY <1>0 DEF Begin, MayBegin, OneCycle
<1>2. UNCHANGED <<stored, day, opportunities, legs, forgot, unknown>> BY DEF Begin, calendar, bounds
<1>3. BookOK(stored) /\ Counters BY DEF BooksInv
<1>4. Counters' BY <1>2, <1>3 DEF Counters
<1>5. opportunities' >= opportunities BY <1>2, <1>3 DEF Counters
<1>6. BookOK(stored)' BY <1>2, <1>3, <1>4, <1>5, BookKept
<1>7. c = [at |-> "begun", kind |-> kind, request |-> request, book |-> stored, spread |-> 0, net |-> 0]
  BY <1>0 DEF NoCycle
<1>8. c \in Cycle
  <2>1. stored \in Book BY <1>3 DEF BookOK
  <2> QED BY <1>7, <2>1 DEF Cycle
<1>9. c.at = "begun" /\ c.book = stored BY <1>7
<1>10. CycleOK(c)' BY <1>2, <1>6, <1>8, <1>9 DEF CycleOK
<1> QED BY <1>1, <1>4, <1>6, <1>10, MoveKeepsBooks

\* What a cycle writes at its end.
LEMMA FinishKeepsBooks ==
  ASSUME BooksInv, OneCycle, NEW t \in Tasks, cycles[t] # NoCycle, NEW book, BookOK(book),
         Finish(t, book) \/ PersistNoTrade(t, book), Counters', day' = day,
         opportunities' = opportunities
  PROVE  BooksInv'
<1>1. Goto(t, NoCycle) /\ (stored' = book \/ stored' = NoTradeBook(book))
  BY DEF Finish, PersistNoTrade
<1>2. Counters /\ opportunities' >= opportunities BY DEF BooksInv, Counters
<1>3. BookOK(stored)'
  <2>1. BookOK(book)' BY <1>2, BookKept
  <2>2. BookOK(NoTradeBook(book))'
    <3>1. BookOK(NoTradeBook(book)) BY NoTradeBookOK
    <3> HIDE DEF NoTradeBook
    <3> DEFINE other == NoTradeBook(book)
    <3>2. BookOK(other) BY <3>1
    <3>3. BookOK(other)' BY <1>2, <3>2, BookKept
    <3> QED BY <3>3
  <2> QED BY <1>1, <2>1, <2>2
<1> QED BY <1>1, <1>3, EndKeepsBooks

\* A cycle that reads the market keeps its book, closes the open spread in it, or
\* asks the broker to.
LEMMA ExitSpreadKeepsBooks ==
  ASSUME BooksInv, OneCycle, NEW t \in Tasks, NEW mark \in Marks, NEW fails \in BOOLEAN,
         ExitSpread(t, mark, fails)
  PROVE  BooksInv'
<1>1. PICK c : c = cycles[t] OBVIOUS
<1>2. /\ up = TRUE /\ c.at = "begun" /\ c # NoCycle
      /\ UNCHANGED <<stored, up, legs, opportunities, day, forgot, unknown>>
  BY <1>1 DEF ExitSpread, MarketRead, At, NoCycle, calendar, bounds, BooksInv
<1>3. PICK s \in With(c.book, "OPEN") :
        IF c.book.positions[s].mode = "UPSTOX_SANDBOX"
        THEN Goto(t, [c EXCEPT !.at = "exit", !.spread = s, !.net = mark])
        ELSE Goto(t, [c EXCEPT !.at = "closed", !.book = ClosedBook(c.book, s, mark)])
  BY <1>1 DEF ExitSpread
<1>4. /\ CycleOK(c) /\ BookOK(stored) /\ Counters /\ c \in Cycle /\ c.book = stored
      /\ \A u \in Tasks : u # t => cycles[u] = NoCycle
      /\ s \in Nat /\ mark \in Int
  BY <1>1, <1>2, <1>3, Alone, ConstantsAreInt DEF CycleOK, With, Spreads
<1>5. Counters' /\ opportunities' >= opportunities BY <1>2, <1>4 DEF Counters
<1>6. BookOK(stored)' BY <1>2, <1>4, <1>5, BookKept
<1>7. CASE c.book.positions[s].mode = "UPSTOX_SANDBOX"
  <2>1. PICK n : n = [c EXCEPT !.at = "exit", !.spread = s, !.net = mark] OBVIOUS
  <2>2. n \in Cycle /\ n.at = "exit" /\ n.spread = s /\ n.book = c.book
    BY <1>4, <2>1 DEF Cycle
  <2>3. CycleOK(n)' BY <1>2, <1>3, <1>4, <1>6, <1>7, <2>2 DEF CycleOK
  <2> QED BY <1>2, <1>3, <1>4, <1>5, <1>6, <1>7, <2>1, <2>3, MoveKeepsBooks
<1>8. CASE c.book.positions[s].mode # "UPSTOX_SANDBOX"
  <2>1. PICK b : b = ClosedBook(c.book, s, mark) OBVIOUS
  <2>2. PICK n : n = [c EXCEPT !.at = "closed", !.book = b] OBVIOUS
  <2>3. BookOK(b) /\ With(b, "OPEN") = {} BY <1>3, <1>4, <2>1, ClosedBookOK
  <2>4. BookOK(b)' BY <1>2, <1>4, <1>5, <2>3, BookKept
  <2>5. n \in Cycle /\ n.at = "closed" /\ n.book = b
    BY <1>4, <2>2, <2>3 DEF Cycle, BookOK
  <2>6. With(stored, "OPEN") # {} BY <1>3, <1>4
  <2>7. CycleOK(n)' BY <1>2, <2>3, <2>4, <2>5, <2>6 DEF CycleOK
  <2> QED BY <1>2, <1>3, <1>4, <1>5, <1>6, <1>8, <2>1, <2>2, <2>7, MoveKeepsBooks
<1> QED BY <1>7, <1>8

\* The broker's acceptance of an exit closes the spread in the cycle's book.
LEMMA ExitAcceptedKeepsBooks ==
  ASSUME BooksInv, OneCycle, NEW t \in Tasks, ExitAccepted(t)
  PROVE  BooksInv'
<1>1. PICK c : c = cycles[t] OBVIOUS
<1>2. /\ up = TRUE /\ c.at = "exit" /\ c # NoCycle
      /\ UNCHANGED <<stored, up, opportunities, day, forgot, unknown>>
      /\ legs' = [legs EXCEPT ![c.spread] = legs[c.spread] - 2]
  BY <1>1 DEF ExitAccepted, At, NoCycle, calendar, bounds, BooksInv
<1>3. /\ CycleOK(c) /\ BookOK(stored) /\ Counters /\ c \in Cycle /\ c.book = stored
      /\ c.spread \in With(c.book, "OPEN") /\ c.net \in Int
      /\ \A u \in Tasks : u # t => cycles[u] = NoCycle
  BY <1>1, <1>2, Alone DEF CycleOK, Cycle
<1>4. PICK b : b = ClosedBook(c.book, c.spread, c.net) OBVIOUS
<1>5. PICK n : n = [c EXCEPT !.at = "closed", !.spread = 0, !.net = 0, !.book = b] OBVIOUS
<1>6. Goto(t, n) BY <1>1, <1>4, <1>5 DEF ExitAccepted
<1>7. Counters' /\ opportunities' >= opportunities
  <2>1. legs \in [Spreads -> Int] /\ legs[c.spread] \in Int BY <1>3 DEF Counters, With
  <2>2. legs' \in [Spreads -> Int]
    <3>1. legs[c.spread] - 2 \in Int BY <2>1
    <3> QED BY <1>2, <2>1, <3>1
  <2> QED BY <1>2, <1>3, <2>2 DEF Counters
<1>8. BookOK(stored)' BY <1>2, <1>3, <1>7, BookKept
<1>9. BookOK(b) /\ With(b, "OPEN") = {} BY <1>3, <1>4, ClosedBookOK
<1>10. BookOK(b)' BY <1>2, <1>3, <1>7, <1>9, BookKept
<1>11. n \in Cycle /\ n.at = "closed" /\ n.book = b
  <2>1. n = [at |-> "closed", kind |-> c.kind, request |-> c.request, book |-> b,
             spread |-> 0, net |-> 0]
    BY <1>3, <1>5 DEF Cycle
  <2>2. b \in Book /\ c.kind \in {"scan", "monitor"} /\ c.request \in {"none", "scan", "monitor"}
    BY <1>3, <1>9 DEF Cycle, BookOK
  <2> QED BY <2>1, <2>2 DEF Cycle
<1>12. CycleOK(n)' BY <1>2, <1>3, <1>9, <1>10, <1>11 DEF CycleOK
<1> QED BY <1>2, <1>3, <1>6, <1>7, <1>8, <1>12, MoveKeepsBooks

\* An opportunity is taken for a book that the gates have just looked at.
LEMMA TakeOpportunityKeepsBooks ==
  ASSUME BooksInv, OneCycle, NEW t \in Tasks, TakeOpportunity(t)
  PROVE  BooksInv'
<1>1. PICK c : c = cycles[t] OBVIOUS
<1>2. PICK s : s = opportunities + 1 OBVIOUS
<1>3. /\ up = TRUE /\ c.at = "closed" /\ c # NoCycle
      /\ UNCHANGED <<stored, up, legs, day, forgot, unknown>>
      /\ opportunities' = s /\ s \in Spreads /\ EntryAllowed(c.book)
      /\ \/ Goto(t, [c EXCEPT !.at = "entry", !.spread = s])
         \/ Goto(t, [c EXCEPT !.at = "opened", !.book = OpenedBook(c.book, s, "SHADOW")])
  BY <1>1, <1>2 DEF TakeOpportunity, At, NoCycle, calendar, bounds, BooksInv
<1>4. /\ CycleOK(c) /\ BookOK(stored) /\ Counters /\ c \in Cycle /\ BookOK(c.book)
      /\ With(c.book, "OPEN") = {} /\ c.book \in Book
      /\ \A u \in Tasks : u # t => cycles[u] = NoCycle
  BY <1>1, <1>3, Alone DEF CycleOK, BookOK
<1>5. s > opportunities /\ s \in Nat BY <1>2, <1>4 DEF Counters
<1>6. Counters' /\ opportunities' >= opportunities BY <1>3, <1>4, <1>5 DEF Counters
<1>7. BookOK(stored)' /\ BookOK(c.book)' BY <1>3, <1>4, <1>6, BookKept
<1>8. Within(c.book) /\ c.book.positions[s].status = "NONE"
  BY <1>3, <1>4, <1>5, AllowedIsWithin DEF BookOK
<1>9. Within(c.book)' BY <1>3, <1>8 DEF Within, DayNet
<1>10. CASE Goto(t, [c EXCEPT !.at = "entry", !.spread = s])
  <2>1. PICK n : n = [c EXCEPT !.at = "entry", !.spread = s] OBVIOUS
  <2>2. n \in Cycle /\ n.at = "entry" /\ n.book = c.book /\ n.spread = s
    BY <1>4, <1>5, <2>1 DEF Cycle
  <2>3. CycleOK(n)' BY <1>3, <1>4, <1>7, <1>8, <1>9, <2>2 DEF CycleOK
  <2> QED BY <1>3, <1>4, <1>6, <1>7, <1>10, <2>1, <2>3, MoveKeepsBooks
<1>11. CASE Goto(t, [c EXCEPT !.at = "opened", !.book = OpenedBook(c.book, s, "SHADOW")])
  <2>1. PICK b : b = OpenedBook(c.book, s, "SHADOW") OBVIOUS
  <2>2. PICK n : n = [c EXCEPT !.at = "opened", !.book = b] OBVIOUS
  <2>3. BookOK(b)'
    <3>1. /\ b \in Book /\ With(b, "OPEN") = {s} /\ Within(b)
          /\ \A u \in Spreads : u # s => b.positions[u] = c.book.positions[u]
          /\ \A u \in Spreads : b.positions[u].closed <= day
      BY <1>3, <1>4, <1>8, <2>1, OpenedBookIs
    <3>2. Within(b)' BY <1>3, <3>1 DEF Within, DayNet
    <3>3. \A u \in Spreads : u > opportunities' => u # s /\ u > opportunities
      BY <1>3, <1>4, <1>5 DEF Counters, Spreads
    <3> QED BY <1>3, <1>4, <3>1, <3>2, <3>3 DEF BookOK
  <2>4. n \in Cycle /\ n.at = "opened" /\ n.book = b
    BY <1>4, <2>2, <2>3 DEF Cycle, BookOK
  <2>5. CycleOK(n)' BY <2>3, <2>4 DEF CycleOK
  <2> QED BY <1>3, <1>4, <1>6, <1>7, <1>11, <2>1, <2>2, <2>5, MoveKeepsBooks
<1> QED BY <1>3, <1>10, <1>11

\* The broker's acceptance of an entry opens the spread in the cycle's book.
LEMMA EntryAcceptedKeepsBooks ==
  ASSUME BooksInv, OneCycle, NEW t \in Tasks, EntryAccepted(t)
  PROVE  BooksInv'
<1>1. PICK c : c = cycles[t] OBVIOUS
<1>2. /\ up = TRUE /\ c.at = "entry" /\ c # NoCycle
      /\ UNCHANGED <<stored, up, opportunities, day, forgot, unknown>>
      /\ legs' = [legs EXCEPT ![c.spread] = legs[c.spread] + 2]
  BY <1>1 DEF EntryAccepted, At, NoCycle, calendar, bounds, BooksInv
<1>3. /\ CycleOK(c) /\ BookOK(stored) /\ Counters /\ c \in Cycle /\ BookOK(c.book)
      /\ c.spread \in Spreads /\ c.spread = opportunities
      /\ c.book.positions[c.spread].status = "NONE"
      /\ Within(c.book) /\ With(c.book, "OPEN") = {}
      /\ \A u \in Tasks : u # t => cycles[u] = NoCycle
  BY <1>1, <1>2, Alone DEF CycleOK
<1>4. PICK b : b = OpenedBook(c.book, c.spread, "UPSTOX_SANDBOX") OBVIOUS
<1>5. PICK n : n = [c EXCEPT !.at = "opened", !.spread = 0, !.book = b] OBVIOUS
<1>6. Goto(t, n) BY <1>1, <1>4, <1>5 DEF EntryAccepted
<1>7. Counters' /\ opportunities' >= opportunities
  <2>1. legs \in [Spreads -> Int] /\ legs[c.spread] \in Int BY <1>3 DEF Counters
  <2>2. legs' \in [Spreads -> Int]
    <3>1. legs[c.spread] + 2 \in Int BY <2>1
    <3> QED BY <1>2, <2>1, <3>1
  <2> QED BY <1>2, <1>3, <2>2 DEF Counters
<1>8. BookOK(stored)' BY <1>2, <1>3, <1>7, BookKept
<1>9. BookOK(b)
  <2>1. /\ b \in Book /\ With(b, "OPEN") = {c.spread} /\ Within(b)
        /\ \A u \in Spreads : u # c.spread => b.positions[u] = c.book.positions[u]
        /\ \A u \in Spreads : b.positions[u].closed <= day
    BY <1>3, <1>4, OpenedBookIs
  <2>2. \A u \in Spreads : u > opportunities => u # c.spread BY <1>3 DEF Counters, Spreads
  <2> QED BY <1>3, <2>1, <2>2 DEF BookOK
<1>10. BookOK(b)' BY <1>2, <1>3, <1>7, <1>9, BookKept
<1>11. n \in Cycle /\ n.at = "opened" /\ n.book = b
  <2>1. n = [at |-> "opened", kind |-> c.kind, request |-> c.request, book |-> b,
             spread |-> 0, net |-> c.net]
    BY <1>3, <1>5 DEF Cycle
  <2>2. b \in Book /\ c.kind \in {"scan", "monitor"} /\ c.request \in {"none", "scan", "monitor"}
        /\ c.net \in Int
    BY <1>3, <1>9 DEF Cycle, BookOK
  <2> QED BY <2>1, <2>2 DEF Cycle
<1>12. CycleOK(n)' BY <1>10, <1>11 DEF CycleOK
<1> QED BY <1>2, <1>3, <1>6, <1>7, <1>8, <1>12, MoveKeepsBooks

\* A scan that finds nothing open, a time-out of the job that asked, and the write
\* of a monitor's exit leave the cycle where it is or one step on.
LEMMA SmallStepKeepsBooks ==
  ASSUME BooksInv, OneCycle, NEW t \in Tasks, NothingToMark(t) \/ JobTimesOut(t) \/ StoreExit(t)
  PROVE  BooksInv'
<1>1. PICK c : c = cycles[t] OBVIOUS
<1>2. c # NoCycle BY <1>1 DEF NothingToMark, MarketRead, JobTimesOut, StoreExit, At, NoCycle
<1>3. /\ CycleOK(c) /\ BookOK(stored) /\ BookOK(c.book) /\ Counters /\ c \in Cycle /\ up = TRUE
      /\ \A u \in Tasks : u # t => cycles[u] = NoCycle
  BY <1>1, <1>2, Alone DEF CycleOK
<1>4. UNCHANGED <<up, legs, opportunities, day, forgot, unknown>>
  BY DEF NothingToMark, JobTimesOut, StoreExit, calendar, bounds
<1>5. Counters' /\ opportunities' >= opportunities BY <1>3, <1>4 DEF Counters
<1>7. CASE NothingToMark(t)
  <2>1. PICK n : n = [c EXCEPT !.at = "closed"] OBVIOUS
  <2>2. /\ Goto(t, n) /\ stored' = stored /\ c.at = "begun" /\ With(c.book, "OPEN") = {}
    BY <1>1, <1>7, <2>1 DEF NothingToMark, MarketRead, At
  <2>3. n \in Cycle /\ n.at = "closed" /\ n.book = c.book BY <1>3, <2>1 DEF Cycle
  <2>4. BookOK(stored)' /\ BookOK(c.book)' BY <1>3, <1>4, <1>5, <2>2, BookKept
  <2>5. c.book = stored BY <1>3, <2>2 DEF CycleOK
  <2>6. CycleOK(n)' BY <2>2, <2>3, <2>4, <2>5 DEF CycleOK
  <2> QED BY <1>3, <1>4, <1>5, <2>2, <2>4, <2>6, MoveKeepsBooks
<1>8. CASE JobTimesOut(t)
  <2>1. PICK n : n = [c EXCEPT !.request = "none"] OBVIOUS
  <2>2. Goto(t, n) /\ stored' = stored BY <1>1, <1>8, <2>1 DEF JobTimesOut
  <2>3. n \in Cycle /\ n.at = c.at /\ n.book = c.book /\ n.spread = c.spread
    BY <1>3, <2>1 DEF Cycle
  <2>4. BookOK(stored)' /\ BookOK(c.book)' BY <1>3, <1>4, <1>5, <2>2, BookKept
  <2>5. Within(c.book)' = Within(c.book) BY <1>4 DEF Within, DayNet
  <2>6. CycleOK(n)' BY <1>3, <1>4, <2>2, <2>3, <2>4, <2>5 DEF CycleOK
  <2> QED BY <1>3, <1>4, <1>5, <2>2, <2>4, <2>6, MoveKeepsBooks
<1>9. CASE StoreExit(t)
  <2>1. PICK n : n = [c EXCEPT !.at = "begun", !.kind = "scan"] OBVIOUS
  <2>2. Goto(t, n) /\ stored' = c.book BY <1>1, <1>9, <2>1 DEF StoreExit
  <2>3. n \in Cycle /\ n.at = "begun" /\ n.book = c.book BY <1>3, <2>1 DEF Cycle
  <2>4. BookOK(c.book)' BY <1>3, <1>4, <1>5, BookKept
  <2>5. BookOK(stored)' BY <2>2, <2>4
  <2>6. CycleOK(n)' BY <2>2, <2>3, <2>4 DEF CycleOK
  <2> QED BY <1>3, <1>4, <1>5, <2>2, <2>5, <2>6, MoveKeepsBooks
<1> QED BY <1>7, <1>8, <1>9

\* An order that failed, whatever it left at the broker, ends its cycle.
LEMMA OrderFailsKeepsBooks ==
  ASSUME BooksInv, OneCycle, NEW t \in Tasks, NEW left \in 0..2,
         ExitFails(t, left) \/ EntryFails(t, left)
  PROVE  BooksInv'
<1>1. PICK c : c = cycles[t] OBVIOUS
<1>2. /\ c # NoCycle /\ c.at \in {"exit", "entry"} /\ PersistNoTrade(t, c.book)
      /\ UNCHANGED <<opportunities, day, forgot>> /\ unknown' \in {unknown, unknown + 1}
      /\ \/ legs' = [legs EXCEPT ![c.spread] = legs[c.spread] - left]
         \/ legs' = [legs EXCEPT ![c.spread] = legs[c.spread] + left]
  BY <1>1 DEF ExitFails, EntryFails, OrderFails, At, NoCycle, calendar
<1>3. CycleOK(c) /\ BookOK(c.book) /\ Counters BY <1>1, <1>2, Alone DEF CycleOK
<1>4. c.spread \in Spreads BY <1>2, <1>3 DEF CycleOK, With
<1>5. Counters'
  <2>1. legs \in [Spreads -> Int] /\ legs[c.spread] \in Int BY <1>3, <1>4 DEF Counters
  <2>2. legs[c.spread] - left \in Int /\ legs[c.spread] + left \in Int BY <2>1
  <2>3. legs' \in [Spreads -> Int] BY <1>2, <2>1, <2>2
  <2> QED BY <1>2, <1>3, <2>3 DEF Counters
<1> QED BY <1>1, <1>2, <1>3, <1>5, FinishKeepsBooks

\* A cycle that ends with its book unchanged by the broker.
LEMMA EndsKeepBooks ==
  ASSUME BooksInv, OneCycle, NEW t \in Tasks,
         \/ Abandon(t) \/ TakeNoOpportunity(t) \/ StoreEntry(t)
         \/ \E mark \in Marks : HoldSpread(t, mark)
  PROVE  BooksInv'
<1>1. PICK c : c = cycles[t] OBVIOUS
<1>2. /\ c # NoCycle /\ (Finish(t, c.book) \/ PersistNoTrade(t, c.book))
      /\ UNCHANGED <<legs, opportunities, day, forgot, unknown>>
  <2>1. CASE Abandon(t)
    BY <1>1, <2>1 DEF Abandon, At, NoCycle, calendar, bounds
  <2>2. CASE TakeNoOpportunity(t) \/ StoreEntry(t)
    BY <1>1, <2>2 DEF TakeNoOpportunity, StoreEntry, At, NoCycle, calendar, bounds
  <2>3. ASSUME NEW mark \in Marks, HoldSpread(t, mark)
        PROVE  /\ c # NoCycle /\ (Finish(t, c.book) \/ PersistNoTrade(t, c.book))
               /\ UNCHANGED <<legs, opportunities, day, forgot, unknown>>
    BY <1>1, <2>3 DEF HoldSpread, MarketRead, At, NoCycle, calendar, bounds
  <2> QED BY <2>1, <2>2, <2>3
<1>3. BookOK(c.book) /\ Counters BY <1>1, <1>2, Alone DEF CycleOK
<1>4. Counters' BY <1>2, <1>3 DEF Counters
<1> QED BY <1>1, <1>2, <1>3, <1>4, FinishKeepsBooks

\* A day without a closed spread has booked nothing.
LEMMA NewDayKeepsBooks ==
  ASSUME BooksInv, AdvancePhase
  PROVE  BooksInv'
<1>1. /\ UNCHANGED <<stored, up, cycles, legs, opportunities, forgot, unknown>>
      /\ day' = day \/ (day' = day + 1 /\ \A t \in Tasks : cycles[t] = NoCycle)
  BY DEF AdvancePhase, service, bounds
<1>2. BookOK(stored) /\ Counters BY DEF BooksInv
<1>3. Counters' BY <1>1, <1>2 DEF Counters
<1>4. CASE day' = day
  <2>1. BookOK(stored)' BY <1>1, <1>2, <1>3, <1>4, BookKept DEF Counters
  <2>2. ASSUME NEW t \in Tasks, cycles[t] # NoCycle PROVE CycleOK(cycles[t])'
    <3>1. PICK c : c = cycles[t] OBVIOUS
    <3>2. CycleOK(c) /\ BookOK(c.book) BY <2>2, <3>1 DEF BooksInv, CycleOK
    <3>3. BookOK(c.book)' BY <1>1, <1>2, <1>3, <1>4, <3>2, BookKept DEF Counters
    <3>4. Within(c.book)' = Within(c.book) BY <1>4 DEF Within, DayNet
    <3>5. CycleOK(c)' BY <1>1, <3>2, <3>3, <3>4 DEF CycleOK
    <3> QED BY <1>1, <3>1, <3>5
  <2> QED BY <1>1, <1>3, <2>1, <2>2 DEF BooksInv
<1>5. CASE day' = day + 1 /\ \A t \in Tasks : cycles[t] = NoCycle
  <2>1. PICK b : b = stored OBVIOUS
  <2>2. BookOK(b) BY <1>2, <2>1
  <2>3. \A s \in Spreads : b.positions[s].closed <= day /\ b.positions[s].closed \in Nat
    BY <2>2 DEF BookOK, Book, Position
  <2>4. \A s \in Spreads : b.positions[s].closed <= day' /\ b.positions[s].closed # day'
    BY <1>2, <1>5, <2>3 DEF Counters
  <2>5. {s \in With(b, "CLOSED") : b.positions[s].closed = day'} = {} BY <2>4 DEF With
  <2>6. DayNet(b)' = 0 BY <2>5, SumEmpty DEF DayNet, Net
  <2>7. Within(b)' BY <2>6, ConstantsAreInt DEF Within
  <2>8. BookOK(b)' BY <1>1, <2>2, <2>4, <2>7 DEF BookOK
  <2> QED BY <1>1, <1>3, <1>5, <2>1, <2>8 DEF BooksInv
<1> QED BY <1>1, <1>4, <1>5

\* Crashes, failed writes and restarts end cycles and write nothing.
LEMMA ForgottenKeepsBooks ==
  ASSUME BooksInv, OneCycle, Crash \/ StartService \/ \E t \in Tasks : WriteFails(t)
  PROVE  BooksInv'
<1>1. UNCHANGED <<stored, opportunities, day, unknown>> /\ forgot' \in {forgot, forgot + 1}
  BY DEF Crash, StartService, WriteFails, calendar, bounds
<1>2. BookOK(stored) /\ Counters BY DEF BooksInv
<1>3. legs' \in [Spreads -> Int]
  <2>1. CASE Crash
    <3>1. \A s \in Spreads : LegsAfterCrash(s) \subseteq Int
      BY <1>2 DEF LegsAfterCrash, Counters
    <3> QED BY <2>1, <3>1 DEF Crash
  <2> QED BY <1>2, <2>1 DEF StartService, WriteFails, Counters
<1>4. Counters' BY <1>1, <1>2, <1>3 DEF Counters
<1>5. BookOK(stored)' BY <1>1, <1>2, <1>4, BookKept DEF Counters
<1>6. CASE Crash BY <1>4, <1>5, <1>6 DEF Crash, BooksInv
<1>7. CASE StartService
  <2>1. \A t \in Tasks : cycles'[t] = NoCycle BY <1>7 DEF StartService, BooksInv
  <2> QED BY <1>4, <1>5, <2>1 DEF BooksInv
<1>8. ASSUME NEW t \in Tasks, WriteFails(t) PROVE BooksInv'
  BY <1>4, <1>5, <1>8, EndKeepsBooks DEF WriteFails, NoCycle
<1> QED BY <1>6, <1>7, <1>8

\* Every step keeps the books.
LEMMA StepKeepsBooks ==
  ASSUME BooksInv, OneCycle, [Next]_vars
  PROVE  BooksInv'
<1>1. ASSUME NEW t \in Tasks, Proceed(t) PROVE BooksInv'
  <2>1. CASE \/ Abandon(t) \/ TakeNoOpportunity(t) \/ StoreEntry(t)
             \/ \E mark \in Marks : HoldSpread(t, mark)
    BY <2>1, EndsKeepBooks
  <2>2. CASE NothingToMark(t) \/ StoreExit(t) BY <2>2, SmallStepKeepsBooks
  <2>3. CASE \E mark \in Marks, fails \in BOOLEAN : ExitSpread(t, mark, fails)
    BY <2>3, ExitSpreadKeepsBooks
  <2>4. CASE TakeOpportunity(t) BY <2>4, TakeOpportunityKeepsBooks
  <2> QED BY <1>1, <2>1, <2>2, <2>3, <2>4 DEF Proceed, ReadMarket
<1>2. ASSUME NEW t \in Tasks, BrokerAnswers(t) PROVE BooksInv'
  BY <1>2, ExitAcceptedKeepsBooks, EntryAcceptedKeepsBooks, OrderFailsKeepsBooks DEF BrokerAnswers
<1>3. ASSUME NEW t \in Tasks, ActiveMonitor(t) \/ \E kind \in {"scan", "monitor"} : JobPosts(t, kind)
      PROVE  BooksInv'
  BY <1>3, BeginKeepsBooks DEF ActiveMonitor, JobPosts
<1>4. ASSUME NEW t \in Tasks, JobTimesOut(t) PROVE BooksInv' BY <1>4, SmallStepKeepsBooks
<1>5. CASE Crash \/ StartService \/ \E t \in Tasks : WriteFails(t) BY <1>5, ForgottenKeepsBooks
<1>6. CASE AdvancePhase BY <1>6, NewDayKeepsBooks
<1>7. CASE UNCHANGED vars
  <2>1. UNCHANGED <<stored, up, cycles, legs, opportunities, day, forgot, unknown>>
    BY <1>7 DEF vars, service, calendar, bounds
  <2>2. \A b : Within(b)' = Within(b) BY <2>1 DEF Within, DayNet
  <2>3. \A b : BookOK(b)' = BookOK(b) BY <2>1, <2>2 DEF BookOK
  <2>4. \A c : CycleOK(c)' = CycleOK(c) BY <2>1, <2>2, <2>3 DEF CycleOK
  <2> QED BY <2>1, <2>3, <2>4 DEF BooksInv, Counters
<1> QED BY <1>1, <1>2, <1>3, <1>4, <1>5, <1>6, <1>7 DEF Next

\* The invariant of the books.
LEMMA BooksAlways == Spec => []BooksInv
<1>1. OneCycle /\ BooksInv /\ [Next]_vars => BooksInv' BY StepKeepsBooks
<1> QED BY InitBooks, OneCycleAtATime, <1>1, PTL DEF Spec

\* OptionsQuant!DayLimitsLockEntries, for all constants: the gates look at the
\* cycle's own book, in which a spread may just have closed; then the stored one
\* still has it open, and its day's result left room when it was opened.
THEOREM LimitsLockEntries == Spec => DayLimitsLockEntries
<1>1. ASSUME BooksInv, OneCycle, [Next]_vars
      PROVE  opportunities' # opportunities =>
               -DailyLossLimit < BookedToday /\ 10 * BookedToday < 9 * DailyTarget
  <2> SUFFICES ASSUME opportunities' # opportunities PROVE Within(stored)
    <3>1. {s \in Spreads : stored.positions[s].status = "CLOSED" /\ stored.positions[s].closed = day}
            = {s \in With(stored, "CLOSED") : stored.positions[s].closed = day}
      BY DEF With
    <3>2. BookedToday = DayNet(stored) BY <3>1 DEF BookedToday, DayNet
    <3> QED BY <3>2 DEF Within
  <2>1. PICK t \in Tasks : TakeOpportunity(t)
    BY <1>1 DEF Next, Proceed, ReadMarket, BrokerAnswers, ActiveMonitor, JobPosts, Begin, JobTimesOut,
                Abandon, Finish, PersistNoTrade, NothingToMark, HoldSpread, ExitSpread, StoreExit,
                TakeNoOpportunity, StoreEntry, ExitAccepted, EntryAccepted, ExitFails, EntryFails,
                OrderFails, WriteFails, Crash, StartService, AdvancePhase, vars, service
  <2>2. PICK c : c = cycles[t] OBVIOUS
  <2>3. c.at = "closed" /\ c # NoCycle /\ EntryAllowed(c.book)
    BY <2>1, <2>2 DEF TakeOpportunity, At, NoCycle
  <2>4. CycleOK(c) /\ BookOK(stored) BY <1>1, <2>2, <2>3, Alone
  <2>5. CASE With(stored, "OPEN") # {} BY <2>4, <2>5 DEF BookOK
  <2>6. CASE c.book = stored BY <2>3, <2>4, <2>6, AllowedIsWithin DEF BookOK
  <2> QED BY <2>3, <2>4, <2>5, <2>6 DEF CycleOK
<1> QED BY BooksAlways, OneCycleAtATime, <1>1, PTL DEF Spec, DayLimitsLockEntries

--------------------------------------------------------------------------------
(* The legs at the broker, the legs a book calls for, and what lies between.     *)

LegsOf(book) ==
  [s \in Spreads |->
     IF book.positions[s].status = "OPEN" /\ book.positions[s].mode = "UPSTOX_SANDBOX" THEN 2 ELSE 0]
LegCounts == [Spreads -> Int]
Gap(l, m) == SumFunctionOnSet([s \in Spreads |-> Distance(l[s], m[s])], Spreads)

Unexplained == 4 * forgot + 2 * unknown

\* The legs that would be lost if the cycle were forgotten between its steps.
AtStake == [begun |-> 0, exit |-> 0, closed |-> 2, entry |-> 2, opened |-> 4]

\* The broker is as far from a cycle's book as failures explain, and that book no
\* further from the stored one than the cycle's orders; between cycles there is
\* the stored book only.
LegsInv ==
  /\ Resting => Gap(legs, LegsOf(stored)) <= Unexplained
  /\ \A t \in Tasks : cycles[t] # NoCycle =>
       /\ Gap(legs, LegsOf(cycles[t].book)) <= Unexplained
       /\ Gap(LegsOf(cycles[t].book), LegsOf(stored)) <= AtStake[cycles[t].at]

\* There are finitely many spreads.
LEMMA SpreadsFinite == IsFiniteSet(Spreads)
BY ConstantsAreInt, FS_Interval DEF Spreads

\* A book calls for a number of legs of each spread.
LEMMA LegsOfCounts ==
  ASSUME NEW book
  PROVE  LegsOf(book) \in LegCounts
BY DEF LegsOf, LegCounts

\* Distances are natural numbers.
LEMMA DistanceNat ==
  ASSUME NEW a \in Int, NEW b \in Int
  PROVE  Distance(a, b) \in Nat
BY DEF Distance

\* So is their sum.
LEMMA GapNat ==
  ASSUME NEW l \in LegCounts, NEW m \in LegCounts
  PROVE  Gap(l, m) \in Nat
<1> DEFINE f == [s \in Spreads |-> Distance(l[s], m[s])]
<1>1. \A s \in Spreads : f[s] \in Nat BY DistanceNat DEF LegCounts
<1>2. Gap(l, m) = SumFunctionOnSet(f, Spreads) BY DEF Gap
<1> HIDE DEF f
<1> QED BY <1>1, <1>2, SpreadsFinite, SumNat

\* The sum of distances obeys the triangle inequality.
LEMMA GapTriangle ==
  ASSUME NEW l \in LegCounts, NEW m \in LegCounts, NEW n \in LegCounts
  PROVE  Gap(l, n) <= Gap(l, m) + Gap(m, n)
<1> DEFINE f == [s \in Spreads |-> Distance(l[s], n[s])]
           g == [s \in Spreads |-> Distance(l[s], m[s])]
           h == [s \in Spreads |-> Distance(m[s], n[s])]
<1>1. \A s \in Spreads : f[s] \in Int /\ g[s] \in Int /\ h[s] \in Int /\ f[s] <= g[s] + h[s]
  <2>1. ASSUME NEW s \in Spreads PROVE Distance(l[s], n[s]) <= Distance(l[s], m[s]) + Distance(m[s], n[s])
    BY DEF LegCounts, Distance
  <2>2. \A s \in Spreads : f[s] \in Nat /\ g[s] \in Nat /\ h[s] \in Nat BY DistanceNat DEF LegCounts
  <2> QED BY <2>1, <2>2
<1>2. /\ Gap(l, n) = SumFunctionOnSet(f, Spreads)
      /\ Gap(l, m) = SumFunctionOnSet(g, Spreads)
      /\ Gap(m, n) = SumFunctionOnSet(h, Spreads)
  BY DEF Gap
<1> HIDE DEF f, g, h
<1> QED BY <1>1, <1>2, SpreadsFinite, SumBelowTwo

\* Where the difference is that of one spread, or none.
LEMMA GapOne ==
  ASSUME NEW l \in LegCounts, NEW m \in LegCounts, NEW s \in Spreads,
         \A u \in Spreads : u # s => l[u] = m[u]
  PROVE  Gap(l, m) = Distance(l[s], m[s])
<1> DEFINE f == [u \in Spreads |-> Distance(l[u], m[u])]
           One == {s}
<1>1. /\ \A u \in One : f[u] \in Int
      /\ \A u \in Spreads \ One : f[u] = 0
      /\ f[s] = Distance(l[s], m[s]) /\ f[s] \in Int
  BY DEF LegCounts, Distance
<1>2. Gap(l, m) = SumFunctionOnSet(f, Spreads) BY DEF Gap
<1>3. One \in SUBSET Spreads /\ IsFiniteSet(One) /\ s \in One /\ One \ {s} = {} BY FS_Singleton
<1> HIDE DEF f, One
<1>4. SumFunctionOnSet(f, Spreads) = SumFunctionOnSet(f, One)
  BY <1>1, <1>3, SpreadsFinite, SumExtend
<1>5. SumFunctionOnSet(f, One) = f[s] + SumFunctionOnSet(f, One \ {s})
  BY <1>1, <1>3, SumRemove
<1>6. SumFunctionOnSet(f, One \ {s}) = 0 BY <1>3, SumEmpty
<1> QED BY <1>1, <1>2, <1>4, <1>5, <1>6

\* Nothing lies between legs and themselves.
LEMMA GapSelf ==
  ASSUME NEW l \in LegCounts
  PROVE  Gap(l, l) = 0
<1> DEFINE f == [u \in Spreads |-> Distance(l[u], l[u])]
           None == {}
<1>1. None \in SUBSET Spreads /\ (\A u \in None : f[u] \in Int) /\ None = {} OBVIOUS
<1>2. \A u \in Spreads \ None : f[u] = 0 BY DEF LegCounts, Distance
<1>3. Gap(l, l) = SumFunctionOnSet(f, Spreads) BY DEF Gap
<1> HIDE DEF f, None
<1>4. SumFunctionOnSet(f, Spreads) = SumFunctionOnSet(f, None)
  BY <1>1, <1>2, SpreadsFinite, SumExtend
<1> QED BY <1>1, <1>3, <1>4, SumEmpty

\* Both sides move together at one spread.
LEMMA GapMoves ==
  ASSUME NEW l, NEW m, NEW k, NEW n, NEW s \in Spreads,
         \A u \in Spreads : u # s => k[u] = l[u] /\ n[u] = m[u],
         Distance(k[s], n[s]) = Distance(l[s], m[s])
  PROVE  Gap(k, n) = Gap(l, m)
<1>1. \A u \in Spreads : Distance(k[u], n[u]) = Distance(l[u], m[u]) OBVIOUS
<1>2. [u \in Spreads |-> Distance(k[u], n[u])] = [u \in Spreads |-> Distance(l[u], m[u])]
  BY <1>1
<1> QED BY <1>2 DEF Gap

\* What the steps of a cycle do to the legs its book calls for.
LEMMA NoTradeLegs ==
  ASSUME NEW book, BookOK(book)
  PROVE  LegsOf(NoTradeBook(book)) = LegsOf(book)
BY NoTradeBookOK DEF LegsOf

\* A closed spread calls for no legs.
LEMMA ClosedLegs ==
  ASSUME NEW book, BookOK(book), NEW s \in Spreads, NEW net
  PROVE  LegsOf(ClosedBook(book, s, net)) = [LegsOf(book) EXCEPT ![s] = 0]
<1>1. PICK b : b = ClosedBook(book, s, net) OBVIOUS
<1>2. /\ b.positions[s].status = "CLOSED"
      /\ \A u \in Spreads : u # s => b.positions[u] = book.positions[u]
  BY <1>1 DEF ClosedBook, BookOK, Book, Position
<1>3. \A u \in Spreads : LegsOf(b)[u] = [LegsOf(book) EXCEPT ![s] = 0][u] BY <1>2 DEF LegsOf
<1> QED BY <1>1, <1>3 DEF LegsOf

\* An opened spread calls for two legs in the sandbox, for none in the shadow.
LEMMA OpenedLegs ==
  ASSUME NEW book, BookOK(book), Counters, NEW s \in Spreads,
         book.positions[s].status = "NONE", With(book, "OPEN") = {}, Within(book),
         NEW mode \in {"SHADOW", "UPSTOX_SANDBOX"}
  PROVE  /\ LegsOf(book)[s] = 0
         /\ LegsOf(OpenedBook(book, s, mode)) =
              [LegsOf(book) EXCEPT ![s] = IF mode = "UPSTOX_SANDBOX" THEN 2 ELSE 0]
<1>1. PICK b : b = OpenedBook(book, s, mode) OBVIOUS
<1>2. /\ With(b, "OPEN") = {s} /\ b.positions[s].mode = mode
      /\ \A u \in Spreads : u # s => b.positions[u] = book.positions[u]
  BY <1>1, OpenedBookIs
<1>3. b.positions[s].status = "OPEN" BY <1>2 DEF With
<1>4. \A u \in Spreads :
        LegsOf(b)[u] = [LegsOf(book) EXCEPT ![s] = IF mode = "UPSTOX_SANDBOX" THEN 2 ELSE 0][u]
  BY <1>2, <1>3 DEF LegsOf
<1>5. LegsOf(b) = [LegsOf(book) EXCEPT ![s] = IF mode = "UPSTOX_SANDBOX" THEN 2 ELSE 0]
  BY <1>4 DEF LegsOf
<1> QED BY <1>1, <1>5 DEF LegsOf

--------------------------------------------------------------------------------
\* A cycle ends: what counts is the book it leaves.
LEMMA EndKeepsLegs ==
  ASSUME OneCycle, NEW t \in Tasks, cycles[t] # NoCycle, Goto(t, NoCycle),
         Gap(legs', LegsOf(stored')) <= Unexplained'
  PROVE  LegsInv'
<1>1. \A u \in Tasks : cycles'[u] = NoCycle BY DEF OneCycle, Goto
<1>2. Gap(legs, LegsOf(stored))' = Gap(legs', LegsOf(stored')) BY DEF Gap, LegsOf
<1> QED BY <1>1, <1>2 DEF LegsInv

\* A cycle goes on, or begins.
LEMMA MoveKeepsLegs ==
  ASSUME OneCycle, NEW t \in Tasks, NEW c, c # NoCycle, Goto(t, c),
         \A u \in Tasks : u # t => cycles[u] = NoCycle,
         Gap(legs', LegsOf(c.book)) <= Unexplained',
         Gap(LegsOf(c.book), LegsOf(stored')) <= AtStake[c.at]
  PROVE  LegsInv'
<1>1. cycles'[t] = c /\ \A u \in Tasks : u # t => cycles'[u] = NoCycle BY DEF OneCycle, Goto
<1>2. ~Resting' BY <1>1 DEF Resting
<1>3. ASSUME NEW u \in Tasks, cycles'[u] # NoCycle
      PROVE  /\ Gap(legs', LegsOf(cycles'[u].book)) <= Unexplained'
             /\ Gap(LegsOf(cycles'[u].book), LegsOf(stored')) <= AtStake[cycles'[u].at]
  BY <1>1, <1>3
<1> QED BY <1>2, <1>3 DEF LegsInv, Gap, LegsOf

\* No legs at first.
LEMMA InitLegs == Init => LegsInv
<1> SUFFICES ASSUME Init PROVE LegsInv OBVIOUS
<1>1. /\ stored = EmptyBook /\ legs = [s \in Spreads |-> 0] /\ forgot = 0 /\ unknown = 0
      /\ \A t \in Tasks : cycles[t] = NoCycle
  BY DEF Init
<1>2. legs = LegsOf(stored) BY <1>1 DEF LegsOf, EmptyBook, NoRow
<1>3. Gap(legs, LegsOf(stored)) = 0 BY <1>2, LegsOfCounts, GapSelf
<1> QED BY <1>1, <1>3 DEF LegsInv, Unexplained

\* What is known where a cycle stands.
LEMMA Known ==
  ASSUME BooksInv, OneCycle, LegsInv, NEW t \in Tasks, cycles[t] # NoCycle
  PROVE  /\ legs \in LegCounts /\ LegsOf(stored) \in LegCounts /\ LegsOf(cycles[t].book) \in LegCounts
         /\ Gap(legs, LegsOf(cycles[t].book)) <= Unexplained
         /\ Gap(LegsOf(cycles[t].book), LegsOf(stored)) <= AtStake[cycles[t].at]
         /\ Unexplained \in Nat /\ Gap(legs, LegsOf(cycles[t].book)) \in Nat
         /\ Gap(LegsOf(cycles[t].book), LegsOf(stored)) \in Nat
<1>1. legs \in LegCounts /\ Counters BY DEF BooksInv, Counters, LegCounts
<1>2. Unexplained \in Nat BY <1>1 DEF Counters, Unexplained
<1> QED BY <1>1, <1>2, LegsOfCounts, GapNat DEF LegsInv

\* What a cycle writes at its end the broker knows of.
LEMMA FinishKeepsLegs ==
  ASSUME OneCycle, NEW t \in Tasks, cycles[t] # NoCycle, NEW book, BookOK(book),
         Finish(t, book) \/ PersistNoTrade(t, book),
         Gap(legs', LegsOf(book)) <= Unexplained'
  PROVE  LegsInv'
<1>1. Goto(t, NoCycle) /\ LegsOf(stored') = LegsOf(book)
  BY NoTradeLegs DEF Finish, PersistNoTrade
<1> QED BY <1>1, EndKeepsLegs

\* The cycles that end with the broker untouched.
LEMMA EndsKeepLegs ==
  ASSUME BooksInv, OneCycle, LegsInv, NEW t \in Tasks,
         \/ Abandon(t) \/ TakeNoOpportunity(t) \/ StoreEntry(t)
         \/ \E mark \in Marks : HoldSpread(t, mark)
  PROVE  LegsInv'
<1>1. PICK c : c = cycles[t] OBVIOUS
<1>2. /\ c # NoCycle /\ (Finish(t, c.book) \/ PersistNoTrade(t, c.book))
      /\ UNCHANGED <<legs, forgot, unknown>>
  <2>1. CASE Abandon(t)
    BY <1>1, <2>1 DEF Abandon, At, NoCycle, bounds
  <2>2. CASE TakeNoOpportunity(t) \/ StoreEntry(t)
    BY <1>1, <2>2 DEF TakeNoOpportunity, StoreEntry, At, NoCycle, bounds
  <2>3. ASSUME NEW mark \in Marks, HoldSpread(t, mark)
        PROVE  /\ c # NoCycle /\ (Finish(t, c.book) \/ PersistNoTrade(t, c.book))
               /\ UNCHANGED <<legs, forgot, unknown>>
    BY <1>1, <2>3 DEF HoldSpread, MarketRead, At, NoCycle, bounds
  <2> QED BY <2>1, <2>2, <2>3
<1>3. BookOK(c.book) /\ Gap(legs, LegsOf(c.book)) <= Unexplained
  BY <1>1, <1>2, Alone, Known DEF CycleOK
<1>4. Gap(legs', LegsOf(c.book)) <= Unexplained' BY <1>2, <1>3 DEF Unexplained
<1> QED BY <1>1, <1>2, <1>3, <1>4, FinishKeepsLegs

\* An order without an answer leaves two legs at most, and counts for two.
LEMMA OrderFailsKeepsLegs ==
  ASSUME BooksInv, OneCycle, LegsInv, NEW t \in Tasks, NEW left \in 0..2,
         ExitFails(t, left) \/ EntryFails(t, left)
  PROVE  LegsInv'
<1>1. PICK c : c = cycles[t] OBVIOUS
<1>2. /\ c # NoCycle /\ c.at \in {"exit", "entry"} /\ PersistNoTrade(t, c.book)
      /\ forgot' = forgot /\ unknown' = IF left > 0 THEN unknown + 1 ELSE unknown
      /\ \/ legs' = [legs EXCEPT ![c.spread] = legs[c.spread] - left]
         \/ legs' = [legs EXCEPT ![c.spread] = legs[c.spread] + left]
  BY <1>1 DEF ExitFails, EntryFails, OrderFails, At, NoCycle
<1>3. CycleOK(c) /\ BookOK(c.book) /\ Counters BY <1>1, <1>2, Alone DEF CycleOK
<1>4. c.spread \in Spreads BY <1>2, <1>3 DEF CycleOK, With
<1>5. /\ legs \in LegCounts /\ LegsOf(c.book) \in LegCounts
      /\ Gap(legs, LegsOf(c.book)) <= Unexplained /\ Gap(legs, LegsOf(c.book)) \in Nat
  BY <1>1, <1>2, Known
<1>6. PICK k : k = legs' OBVIOUS
<1>7. k \in LegCounts /\ Distance(k[c.spread], legs[c.spread]) = left
      /\ \A u \in Spreads : u # c.spread => k[u] = legs[u]
  BY <1>2, <1>4, <1>5, <1>6 DEF LegCounts, Distance
<1>8. Gap(k, legs) = left BY <1>4, <1>5, <1>7, GapOne
<1>9. Gap(k, LegsOf(c.book)) <= Gap(k, legs) + Gap(legs, LegsOf(c.book))
  BY <1>5, <1>7, GapTriangle
<1>10. Gap(k, LegsOf(c.book)) \in Nat BY <1>5, <1>7, GapNat
<1>11. Unexplained \in Nat /\ Unexplained' = Unexplained + (IF left > 0 THEN 2 ELSE 0)
  BY <1>2, <1>3 DEF Unexplained, Counters
<1>12. Gap(k, LegsOf(c.book)) <= Unexplained'
  BY <1>5, <1>8, <1>9, <1>10, <1>11
<1> QED BY <1>1, <1>2, <1>3, <1>6, <1>12, FinishKeepsLegs

\* An accepted exit, and the book that follows it.
LEMMA ExitAcceptedKeepsLegs ==
  ASSUME BooksInv, OneCycle, LegsInv, NEW t \in Tasks, ExitAccepted(t)
  PROVE  LegsInv'
<1>1. PICK c : c = cycles[t] OBVIOUS
<1>2. /\ c.at = "exit" /\ c # NoCycle /\ UNCHANGED <<stored, forgot, unknown>>
      /\ legs' = [legs EXCEPT ![c.spread] = legs[c.spread] - 2]
  BY <1>1 DEF ExitAccepted, At, NoCycle, bounds
<1>3. /\ CycleOK(c) /\ BookOK(c.book) /\ c.book = stored /\ c \in Cycle
      /\ c.spread \in Spreads /\ c.book.positions[c.spread].status = "OPEN"
      /\ c.book.positions[c.spread].mode = "UPSTOX_SANDBOX"
      /\ \A u \in Tasks : u # t => cycles[u] = NoCycle
  BY <1>1, <1>2, Alone DEF CycleOK, With
<1>4. PICK b : b = ClosedBook(c.book, c.spread, c.net) OBVIOUS
<1>5. PICK n : n = [c EXCEPT !.at = "closed", !.spread = 0, !.net = 0, !.book = b] OBVIOUS
<1>6. Goto(t, n) /\ n.at = "closed" /\ n.book = b /\ n # NoCycle
  BY <1>1, <1>3, <1>4, <1>5 DEF ExitAccepted, Cycle, NoCycle
<1>7. /\ legs \in LegCounts /\ LegsOf(c.book) \in LegCounts
      /\ Gap(legs, LegsOf(c.book)) <= Unexplained
  BY <1>1, <1>2, Known
<1>8. LegsOf(b) = [LegsOf(c.book) EXCEPT ![c.spread] = 0] /\ LegsOf(c.book)[c.spread] = 2
  BY <1>3, <1>4, ClosedLegs DEF LegsOf
<1>9. Gap(legs', LegsOf(b)) <= Unexplained'
  <2>1. PICK k : k = legs' OBVIOUS
  <2>2. /\ \A u \in Spreads : u # c.spread => k[u] = legs[u] /\ LegsOf(b)[u] = LegsOf(c.book)[u]
        /\ Distance(k[c.spread], LegsOf(b)[c.spread]) = Distance(legs[c.spread], LegsOf(c.book)[c.spread])
    BY <1>2, <1>3, <1>7, <1>8, <2>1 DEF LegCounts, Distance
  <2>3. PICK p, q : p = LegsOf(b) /\ q = LegsOf(c.book) OBVIOUS
  <2>4. /\ \A u \in Spreads : u # c.spread => k[u] = legs[u] /\ p[u] = q[u]
        /\ Distance(k[c.spread], p[c.spread]) = Distance(legs[c.spread], q[c.spread])
    BY <2>2, <2>3
  <2>5. Gap(k, p) = Gap(legs, q) BY <1>3, <2>4, GapMoves
  <2> QED BY <1>2, <1>7, <2>1, <2>3, <2>5 DEF Unexplained
<1>10. Gap(LegsOf(b), LegsOf(stored')) <= AtStake[n.at]
  <2>1. \A u \in Spreads : u # c.spread => LegsOf(b)[u] = LegsOf(c.book)[u] BY <1>7, <1>8 DEF LegCounts
  <2>2. LegsOf(b)[c.spread] = 0 BY <1>3, <1>7, <1>8 DEF LegCounts
  <2>3. Gap(LegsOf(b), LegsOf(c.book)) = Distance(LegsOf(b)[c.spread], LegsOf(c.book)[c.spread])
    BY <1>3, <1>7, <2>1, LegsOfCounts, GapOne
  <2>4. Gap(LegsOf(b), LegsOf(c.book)) = 2 BY <1>8, <2>2, <2>3 DEF Distance
  <2> QED BY <1>2, <1>3, <1>6, <2>4 DEF AtStake
<1> QED BY <1>3, <1>6, <1>9, <1>10, MoveKeepsLegs

\* An accepted entry, and the book that follows it.
LEMMA EntryAcceptedKeepsLegs ==
  ASSUME BooksInv, OneCycle, LegsInv, NEW t \in Tasks, EntryAccepted(t)
  PROVE  LegsInv'
<1>1. PICK c : c = cycles[t] OBVIOUS
<1>2. /\ c.at = "entry" /\ c # NoCycle /\ UNCHANGED <<stored, forgot, unknown>>
      /\ legs' = [legs EXCEPT ![c.spread] = legs[c.spread] + 2]
  BY <1>1 DEF EntryAccepted, At, NoCycle, bounds
<1>3. /\ CycleOK(c) /\ BookOK(c.book) /\ c \in Cycle /\ Counters /\ c.spread \in Spreads
      /\ c.book.positions[c.spread].status = "NONE"
      /\ Within(c.book) /\ With(c.book, "OPEN") = {}
      /\ \A u \in Tasks : u # t => cycles[u] = NoCycle
  BY <1>1, <1>2, Alone DEF CycleOK
<1>4. PICK b : b = OpenedBook(c.book, c.spread, "UPSTOX_SANDBOX") OBVIOUS
<1>5. PICK n : n = [c EXCEPT !.at = "opened", !.spread = 0, !.book = b] OBVIOUS
<1>6. Goto(t, n) /\ n.at = "opened" /\ n.book = b /\ n # NoCycle
  BY <1>1, <1>3, <1>4, <1>5 DEF EntryAccepted, Cycle, NoCycle
<1>7. /\ legs \in LegCounts /\ LegsOf(c.book) \in LegCounts /\ LegsOf(stored) \in LegCounts
      /\ Gap(legs, LegsOf(c.book)) <= Unexplained
      /\ Gap(LegsOf(c.book), LegsOf(stored)) <= 2 /\ Gap(LegsOf(c.book), LegsOf(stored)) \in Nat
  BY <1>1, <1>2, Known DEF AtStake
<1>8. LegsOf(b) = [LegsOf(c.book) EXCEPT ![c.spread] = 2] /\ LegsOf(c.book)[c.spread] = 0
  BY <1>3, <1>4, OpenedLegs
<1>9. Gap(legs', LegsOf(b)) <= Unexplained'
  <2>1. PICK k : k = legs' OBVIOUS
  <2>2. /\ \A u \in Spreads : u # c.spread => k[u] = legs[u] /\ LegsOf(b)[u] = LegsOf(c.book)[u]
        /\ Distance(k[c.spread], LegsOf(b)[c.spread]) = Distance(legs[c.spread], LegsOf(c.book)[c.spread])
    BY <1>2, <1>3, <1>7, <1>8, <2>1 DEF LegCounts, Distance
  <2>3. Gap(k, LegsOf(b)) = Gap(legs, LegsOf(c.book)) BY <1>3, <2>2, GapMoves
  <2> QED BY <1>2, <1>7, <2>1, <2>3 DEF Unexplained
<1>10. Gap(LegsOf(b), LegsOf(stored')) <= AtStake[n.at]
  <2>1. \A u \in Spreads : u # c.spread => LegsOf(b)[u] = LegsOf(c.book)[u] BY <1>7, <1>8 DEF LegCounts
  <2>2. LegsOf(b)[c.spread] = 2 BY <1>3, <1>7, <1>8 DEF LegCounts
  <2>3. Gap(LegsOf(b), LegsOf(c.book)) = Distance(LegsOf(b)[c.spread], LegsOf(c.book)[c.spread])
    BY <1>3, <1>7, <2>1, LegsOfCounts, GapOne
  <2>4. Gap(LegsOf(b), LegsOf(c.book)) = 2 BY <1>8, <2>2, <2>3 DEF Distance
  <2>5. Gap(LegsOf(b), LegsOf(stored)) <= Gap(LegsOf(b), LegsOf(c.book)) + Gap(LegsOf(c.book), LegsOf(stored))
    BY <1>7, LegsOfCounts, GapTriangle
  <2>6. Gap(LegsOf(b), LegsOf(stored)) \in Nat BY <1>7, LegsOfCounts, GapNat
  <2>7. Gap(LegsOf(b), LegsOf(stored)) <= 4 BY <1>7, <2>4, <2>5, <2>6
  <2> QED BY <1>2, <1>6, <2>7 DEF AtStake
<1> QED BY <1>3, <1>6, <1>9, <1>10, MoveKeepsLegs

\* A cycle begins with the stored book.
LEMMA BeginKeepsLegs ==
  ASSUME BooksInv, OneCycle, LegsInv, NEW t \in Tasks, NEW kind, NEW request,
         Begin(t, kind, request)
  PROVE  LegsInv'
<1>1. PICK c : c = [NoCycle EXCEPT !.at = "begun", !.kind = kind, !.request = request, !.book = stored]
  OBVIOUS
<1>2. /\ \A u \in Tasks : cycles[u] = NoCycle
      /\ Goto(t, c) /\ UNCHANGED <<stored, legs, forgot, unknown>>
  BY <1>1 DEF Begin, MayBegin, OneCycle, bounds
<1>3. c.at = "begun" /\ c.book = stored /\ c # NoCycle BY <1>1 DEF NoCycle
<1>4. Gap(legs', LegsOf(c.book)) <= Unexplained'
  BY <1>2, <1>3 DEF LegsInv, Resting, Unexplained
<1>5. Gap(LegsOf(c.book), LegsOf(stored')) <= AtStake[c.at]
  <2>1. Gap(LegsOf(stored), LegsOf(stored)) = 0 BY LegsOfCounts, GapSelf
  <2> QED BY <1>2, <1>3, <2>1 DEF AtStake
<1> QED BY <1>2, <1>3, <1>4, <1>5, MoveKeepsLegs

\* The steps that change neither the broker nor what the cycle's book calls for.
LEMMA SmallStepKeepsLegs ==
  ASSUME BooksInv, OneCycle, LegsInv, NEW t \in Tasks,
         NothingToMark(t) \/ JobTimesOut(t) \/ StoreExit(t)
  PROVE  LegsInv'
<1>1. PICK c : c = cycles[t] OBVIOUS
<1>2. /\ c # NoCycle /\ UNCHANGED <<legs, forgot, unknown>>
  BY <1>1 DEF NothingToMark, MarketRead, JobTimesOut, StoreExit, At, NoCycle, bounds
<1>3. /\ c \in Cycle /\ \A u \in Tasks : u # t => cycles[u] = NoCycle
      /\ LegsOf(c.book) \in LegCounts /\ Gap(legs, LegsOf(c.book)) <= Unexplained
      /\ Gap(LegsOf(c.book), LegsOf(stored)) <= AtStake[c.at]
      /\ Gap(LegsOf(c.book), LegsOf(stored)) \in Nat
  BY <1>1, <1>2, Alone, Known DEF CycleOK
<1>4. PICK n : \/ NothingToMark(t) /\ n = [c EXCEPT !.at = "closed"]
               \/ JobTimesOut(t) /\ n = [c EXCEPT !.request = "none"]
               \/ StoreExit(t) /\ n = [c EXCEPT !.at = "begun", !.kind = "scan"]
  OBVIOUS
<1>5. Goto(t, n) /\ n.book = c.book
  BY <1>1, <1>3, <1>4 DEF NothingToMark, JobTimesOut, StoreExit, Cycle
<1>6. n # NoCycle
  <2>1. c.at # "idle" BY <1>3 DEF Cycle
  <2>2. n.at \in {c.at, "closed", "begun"} BY <1>3, <1>4 DEF Cycle
  <2> QED BY <2>1, <2>2 DEF NoCycle
<1>7. Gap(legs', LegsOf(n.book)) <= Unexplained' BY <1>2, <1>3, <1>5 DEF Unexplained
<1>8. Gap(LegsOf(n.book), LegsOf(stored')) <= AtStake[n.at]
  <2>1. CASE NothingToMark(t) /\ n = [c EXCEPT !.at = "closed"]
    <3>1. stored' = stored /\ c.at = "begun" BY <1>1, <2>1 DEF NothingToMark, MarketRead, At
    <3>2. n.at = "closed" BY <1>3, <2>1 DEF Cycle
    <3> QED BY <1>3, <1>5, <3>1, <3>2 DEF AtStake
  <2>2. CASE JobTimesOut(t) /\ n = [c EXCEPT !.request = "none"]
    <3>1. stored' = stored BY <2>2 DEF JobTimesOut
    <3>2. n.at = c.at BY <1>3, <2>2 DEF Cycle
    <3> QED BY <1>3, <1>5, <3>1, <3>2
  <2>3. CASE StoreExit(t) /\ n = [c EXCEPT !.at = "begun", !.kind = "scan"]
    <3>1. stored' = c.book BY <1>1, <2>3 DEF StoreExit
    <3>2. n.at = "begun" BY <1>3, <2>3 DEF Cycle
    <3>3. Gap(LegsOf(c.book), LegsOf(c.book)) = 0 BY <1>3, GapSelf
    <3> QED BY <1>5, <3>1, <3>2, <3>3 DEF AtStake
  <2> QED BY <1>4, <2>1, <2>2, <2>3
<1> QED BY <1>3, <1>5, <1>6, <1>7, <1>8, MoveKeepsLegs

\* Legs are kept apart for orders in the sandbox only: a shadow trade moves none.
LEMMA ShadowLegs ==
  ASSUME NEW book, BookOK(book), NEW s \in Spreads, NEW net,
         book.positions[s].mode # "UPSTOX_SANDBOX"
  PROVE  LegsOf(ClosedBook(book, s, net)) = LegsOf(book)
<1>1. LegsOf(book)[s] = 0 BY DEF LegsOf
<1>2. LegsOf(ClosedBook(book, s, net)) = [LegsOf(book) EXCEPT ![s] = 0] BY ClosedLegs
<1>3. LegsOf(book) \in LegCounts BY LegsOfCounts
<1> QED BY <1>1, <1>2, <1>3 DEF LegCounts

\* A cycle asks for an exit, or closes a shadow trade in its book.
LEMMA ExitSpreadKeepsLegs ==
  ASSUME BooksInv, OneCycle, LegsInv, NEW t \in Tasks, NEW mark \in Marks, NEW fails \in BOOLEAN,
         ExitSpread(t, mark, fails)
  PROVE  LegsInv'
<1>1. PICK c : c = cycles[t] OBVIOUS
<1>2. /\ c.at = "begun" /\ c # NoCycle /\ UNCHANGED <<stored, legs, forgot, unknown>>
  BY <1>1 DEF ExitSpread, MarketRead, At, NoCycle, bounds
<1>3. PICK s \in With(c.book, "OPEN") :
        IF c.book.positions[s].mode = "UPSTOX_SANDBOX"
        THEN Goto(t, [c EXCEPT !.at = "exit", !.spread = s, !.net = mark])
        ELSE Goto(t, [c EXCEPT !.at = "closed", !.book = ClosedBook(c.book, s, mark)])
  BY <1>1 DEF ExitSpread
<1>4. /\ c \in Cycle /\ BookOK(c.book) /\ \A u \in Tasks : u # t => cycles[u] = NoCycle
      /\ Gap(legs, LegsOf(c.book)) <= Unexplained
      /\ Gap(LegsOf(c.book), LegsOf(stored)) <= 0 /\ Gap(LegsOf(c.book), LegsOf(stored)) \in Nat
      /\ s \in Spreads
  <2>1. /\ c \in Cycle /\ BookOK(c.book) /\ s \in Spreads
        /\ \A u \in Tasks : u # t => cycles[u] = NoCycle
    BY <1>1, <1>2, <1>3, Alone DEF CycleOK, With
  <2>2. /\ Gap(legs, LegsOf(c.book)) <= Unexplained
        /\ Gap(LegsOf(c.book), LegsOf(stored)) <= AtStake[c.at]
        /\ Gap(LegsOf(c.book), LegsOf(stored)) \in Nat
    BY <1>1, <1>2, Known
  <2> QED BY <1>2, <2>1, <2>2 DEF AtStake
<1>5. PICK n : Goto(t, n) /\ n.at \in {"exit", "closed"} /\ LegsOf(n.book) = LegsOf(c.book)
  <2>1. CASE c.book.positions[s].mode = "UPSTOX_SANDBOX"
    <3>1. PICK n : n = [c EXCEPT !.at = "exit", !.spread = s, !.net = mark] OBVIOUS
    <3>2. n.at = "exit" /\ n.book = c.book BY <1>4, <3>1 DEF Cycle
    <3> QED BY <1>3, <2>1, <3>1, <3>2
  <2>2. CASE c.book.positions[s].mode # "UPSTOX_SANDBOX"
    <3>1. PICK b : b = ClosedBook(c.book, s, mark) OBVIOUS
    <3>2. PICK n : n = [c EXCEPT !.at = "closed", !.book = b] OBVIOUS
    <3>3. n.at = "closed" /\ n.book = b BY <1>4, <3>2 DEF Cycle
    <3>4. LegsOf(b) = LegsOf(c.book) BY <1>4, <2>2, <3>1, ShadowLegs
    <3> QED BY <1>3, <2>2, <3>1, <3>2, <3>3, <3>4
  <2> QED BY <2>1, <2>2
<1>6. n # NoCycle BY <1>5 DEF NoCycle
<1>7. Gap(legs', LegsOf(n.book)) <= Unexplained' BY <1>2, <1>4, <1>5 DEF Unexplained
<1>8. Gap(LegsOf(n.book), LegsOf(stored')) <= AtStake[n.at] BY <1>2, <1>4, <1>5 DEF AtStake
<1> QED BY <1>4, <1>5, <1>6, <1>7, <1>8, MoveKeepsLegs

\* A cycle asks for an entry, or opens a shadow trade in its book.
LEMMA TakeOpportunityKeepsLegs ==
  ASSUME BooksInv, OneCycle, LegsInv, NEW t \in Tasks, TakeOpportunity(t)
  PROVE  LegsInv'
<1>1. PICK c : c = cycles[t] OBVIOUS
<1>2. PICK s : s = opportunities + 1 OBVIOUS
<1>3. /\ c.at = "closed" /\ c # NoCycle /\ EntryAllowed(c.book) /\ s \in Spreads
      /\ UNCHANGED <<stored, legs, forgot, unknown>>
      /\ \/ Goto(t, [c EXCEPT !.at = "entry", !.spread = s])
         \/ Goto(t, [c EXCEPT !.at = "opened", !.book = OpenedBook(c.book, s, "SHADOW")])
  BY <1>1, <1>2 DEF TakeOpportunity, At, NoCycle, bounds
<1>4. /\ c \in Cycle /\ BookOK(c.book) /\ Counters /\ With(c.book, "OPEN") = {}
      /\ \A u \in Tasks : u # t => cycles[u] = NoCycle
  BY <1>1, <1>3, Alone DEF CycleOK
<1>5. /\ LegsOf(c.book) \in LegCounts /\ Gap(legs, LegsOf(c.book)) <= Unexplained
      /\ Gap(LegsOf(c.book), LegsOf(stored)) <= 2
      /\ Gap(LegsOf(c.book), LegsOf(stored)) \in Nat
  BY <1>1, <1>3, Known DEF AtStake
<1>6. PICK n : Goto(t, n) /\ n.at \in {"entry", "opened"} /\ LegsOf(n.book) = LegsOf(c.book)
  <2>1. CASE Goto(t, [c EXCEPT !.at = "entry", !.spread = s])
    <3>1. PICK n : n = [c EXCEPT !.at = "entry", !.spread = s] OBVIOUS
    <3>2. n.at = "entry" /\ n.book = c.book BY <1>4, <3>1 DEF Cycle
    <3> QED BY <2>1, <3>1, <3>2
  <2>2. CASE Goto(t, [c EXCEPT !.at = "opened", !.book = OpenedBook(c.book, s, "SHADOW")])
    <3>1. PICK b : b = OpenedBook(c.book, s, "SHADOW") OBVIOUS
    <3>2. PICK n : n = [c EXCEPT !.at = "opened", !.book = b] OBVIOUS
    <3>3. n.at = "opened" /\ n.book = b BY <1>4, <3>2 DEF Cycle
    <3>4. c.book.positions[s].status = "NONE" /\ Within(c.book)
      BY <1>2, <1>3, <1>4, AllowedIsWithin DEF BookOK, Counters
    <3>5. LegsOf(c.book)[s] = 0 /\ LegsOf(b) = [LegsOf(c.book) EXCEPT ![s] = 0]
      BY <1>3, <1>4, <3>1, <3>4, OpenedLegs
    <3>6. LegsOf(b) = LegsOf(c.book) BY <1>3, <1>5, <3>5 DEF LegCounts
    <3> QED BY <2>2, <3>1, <3>2, <3>3, <3>6
  <2> QED BY <1>3, <2>1, <2>2
<1>7. n # NoCycle BY <1>6 DEF NoCycle
<1>8. Gap(legs', LegsOf(n.book)) <= Unexplained' BY <1>3, <1>5, <1>6 DEF Unexplained
<1>9. Gap(LegsOf(n.book), LegsOf(stored')) <= AtStake[n.at] BY <1>3, <1>5, <1>6 DEF AtStake
<1> QED BY <1>4, <1>6, <1>7, <1>8, <1>9, MoveKeepsLegs

\* A cycle that is forgotten leaves at most what was at stake, and counts for four.
LEMMA ForgottenLegs ==
  ASSUME BooksInv, OneCycle, LegsInv, NEW t \in Tasks, cycles[t] # NoCycle,
         NEW k \in LegCounts, Gap(k, legs) + AtStake[cycles[t].at] <= 4
  PROVE  Gap(k, LegsOf(stored)) <= Unexplained + 4
<1>1. PICK c : c = cycles[t] OBVIOUS
<1>2. PICK p, q : p = LegsOf(c.book) /\ q = LegsOf(stored) OBVIOUS
<1>3. /\ legs \in LegCounts /\ p \in LegCounts /\ q \in LegCounts
      /\ Gap(legs, p) <= Unexplained /\ Gap(p, q) <= AtStake[c.at]
      /\ Unexplained \in Nat /\ c.at \in {"begun", "exit", "closed", "entry", "opened"}
  BY <1>1, <1>2, Known, Alone DEF CycleOK, Cycle
<1>4. Gap(k, q) <= Gap(k, legs) + Gap(legs, q) BY <1>3, GapTriangle
<1>5. Gap(legs, q) <= Gap(legs, p) + Gap(p, q) BY <1>3, GapTriangle
<1>6. /\ Gap(k, q) \in Nat /\ Gap(k, legs) \in Nat /\ Gap(legs, q) \in Nat
      /\ Gap(legs, p) \in Nat /\ Gap(p, q) \in Nat
  BY <1>3, GapNat
<1>7. AtStake[c.at] \in Nat BY <1>3 DEF AtStake
<1> QED BY <1>1, <1>2, <1>3, <1>4, <1>5, <1>6, <1>7

\* A failed write forgets what the cycle did.
LEMMA WriteFailsKeepsLegs ==
  ASSUME BooksInv, OneCycle, LegsInv, NEW t \in Tasks, WriteFails(t)
  PROVE  LegsInv'
<1>1. /\ cycles[t] # NoCycle /\ Goto(t, NoCycle) /\ UNCHANGED <<stored, legs, unknown>>
      /\ forgot' = forgot + 1
  BY DEF WriteFails, NoCycle
<1>2. cycles[t].at \in {"begun", "exit", "closed", "entry", "opened"} /\ legs \in LegCounts
  BY <1>1, Alone, Known DEF CycleOK, Cycle
<1>3. Gap(legs, legs) = 0 BY <1>2, GapSelf
<1>4. AtStake[cycles[t].at] <= 4 /\ AtStake[cycles[t].at] \in Nat BY <1>2 DEF AtStake
<1>5. Gap(legs, LegsOf(stored)) <= Unexplained + 4 BY <1>1, <1>2, <1>3, <1>4, ForgottenLegs
<1>6. Unexplained' = Unexplained + 4 BY <1>1 DEF Unexplained, BooksInv, Counters
<1> QED BY <1>1, <1>5, <1>6, EndKeepsLegs

\* A crash may cut an order in two, but only the order of the one cycle.
LEMMA CrashKeepsLegs ==
  ASSUME BooksInv, OneCycle, LegsInv, Crash
  PROVE  LegsInv'
<1>1. /\ UNCHANGED <<stored, unknown>> /\ forgot' = forgot + 1 /\ Counters
      /\ \A t \in Tasks : cycles'[t] = NoCycle
      /\ \A s \in Spreads : legs'[s] \in LegsAfterCrash(s)
  BY DEF Crash, BooksInv
<1>2. Unexplained' = Unexplained + 4 /\ Unexplained \in Nat /\ legs \in LegCounts
  BY <1>1 DEF Unexplained, Counters, LegCounts
<1>3. legs' \in LegCounts
  <2>1. \A s \in Spreads : LegsAfterCrash(s) \subseteq Int
    BY <1>2 DEF LegsAfterCrash, LegCounts
  <2> QED BY <2>1 DEF Crash, LegCounts
<1>4. Gap(legs', LegsOf(stored)) <= Unexplained + 4
  <2>1. CASE \A t \in Tasks : cycles[t] = NoCycle
    <3>1. \A s \in Spreads : LegsAfterCrash(s) = {legs[s]}
      BY <2>1 DEF LegsAfterCrash, At, NoCycle
    <3>2. \A s \in Spreads : legs'[s] = legs[s] BY <1>1, <3>1
    <3>3. legs' = legs BY <1>2, <1>3, <3>2 DEF LegCounts
    <3>4. Gap(legs, LegsOf(stored)) <= Unexplained BY <2>1 DEF LegsInv, Resting
    <3>5. Gap(legs, LegsOf(stored)) \in Nat BY <1>2, LegsOfCounts, GapNat
    <3> QED BY <1>2, <3>3, <3>4, <3>5
  <2>2. ASSUME NEW t \in Tasks, cycles[t] # NoCycle
        PROVE  Gap(legs', LegsOf(stored)) <= Unexplained + 4
    <3>1. PICK c : c = cycles[t] OBVIOUS
    <3>2. CycleOK(c) /\ c \in Cycle /\ \A u \in Tasks : u # t => cycles[u] = NoCycle
      BY <2>2, <3>1, Alone DEF CycleOK
    <3>3. PICK k : k = legs' OBVIOUS
    <3>4. ASSUME NEW s \in Spreads, k[s] # legs[s]
          PROVE  c.at \in {"exit", "entry"} /\ c.spread = s /\ Distance(k[s], legs[s]) <= 2
      <4>1. k[s] \in LegsAfterCrash(s) /\ legs[s] \in Int BY <1>1, <1>2, <3>3 DEF LegCounts
      <4>2. \A u \in Tasks : cycles[u].at \in {"exit", "entry"} => u = t BY <3>2 DEF NoCycle
      <4>3. c.at \in {"exit", "entry"} /\ c.spread = s
        BY <3>1, <3>4, <4>1, <4>2 DEF LegsAfterCrash, At
      <4>4. PICK m \in 1..2 : k[s] = legs[s] - m \/ k[s] = legs[s] + m
        BY <3>4, <4>1 DEF LegsAfterCrash
      <4>5. Distance(k[s], legs[s]) <= 2 BY <4>1, <4>4 DEF Distance
      <4> QED BY <4>3, <4>5
    <3>5. k \in LegCounts BY <1>3, <3>3
    <3>6. Gap(k, legs) + AtStake[c.at] <= 4
      <4>1. CASE k = legs
        <5>1. Gap(k, legs) = 0 BY <1>2, <4>1, GapSelf
        <5>2. AtStake[c.at] \in Nat /\ AtStake[c.at] <= 4 BY <3>2 DEF AtStake, Cycle
        <5> QED BY <5>1, <5>2
      <4>2. CASE k # legs
        <5>1. PICK s \in Spreads : k[s] # legs[s] BY <1>2, <3>5, <4>2 DEF LegCounts
        <5>2. /\ c.at \in {"exit", "entry"} /\ Distance(k[s], legs[s]) <= 2
              /\ \A u \in Spreads : u # s => k[u] = legs[u]
          BY <3>4, <5>1
        <5>3. Gap(k, legs) = Distance(k[s], legs[s]) BY <1>2, <3>5, <5>2, GapOne
        <5>4. AtStake[c.at] \in {0, 2} BY <5>2 DEF AtStake
        <5>5. Gap(k, legs) \in Nat BY <1>2, <3>5, GapNat
        <5> QED BY <5>2, <5>3, <5>4, <5>5
      <4> QED BY <4>1, <4>2
    <3> QED BY <2>2, <3>1, <3>3, <3>5, <3>6, ForgottenLegs
  <2> QED BY <2>1, <2>2
<1>5. Gap(legs, LegsOf(stored))' = Gap(legs', LegsOf(stored')) BY DEF Gap, LegsOf
<1> QED BY <1>1, <1>2, <1>4, <1>5 DEF LegsInv

\* The steps that touch neither books nor legs.
LEMMA CalendarKeepsLegs ==
  ASSUME BooksInv, LegsInv, StartService \/ AdvancePhase \/ UNCHANGED vars
  PROVE  LegsInv'
<1>1. UNCHANGED <<stored, cycles, legs, forgot, unknown>>
  BY DEF StartService, AdvancePhase, vars, service, bounds
<1> QED BY <1>1 DEF LegsInv, Resting, Gap, LegsOf, Unexplained

\* Every step keeps the legs.
LEMMA StepKeepsLegs ==
  ASSUME BooksInv, OneCycle, LegsInv, [Next]_vars
  PROVE  LegsInv'
<1>1. ASSUME NEW t \in Tasks, Proceed(t) PROVE LegsInv'
  <2>1. CASE \/ Abandon(t) \/ TakeNoOpportunity(t) \/ StoreEntry(t)
             \/ \E mark \in Marks : HoldSpread(t, mark)
    BY <2>1, EndsKeepLegs
  <2>2. CASE NothingToMark(t) \/ StoreExit(t) BY <2>2, SmallStepKeepsLegs
  <2>3. CASE \E mark \in Marks, fails \in BOOLEAN : ExitSpread(t, mark, fails)
    BY <2>3, ExitSpreadKeepsLegs
  <2>4. CASE TakeOpportunity(t) BY <2>4, TakeOpportunityKeepsLegs
  <2> QED BY <1>1, <2>1, <2>2, <2>3, <2>4 DEF Proceed, ReadMarket
<1>2. ASSUME NEW t \in Tasks, BrokerAnswers(t) PROVE LegsInv'
  BY <1>2, ExitAcceptedKeepsLegs, EntryAcceptedKeepsLegs, OrderFailsKeepsLegs DEF BrokerAnswers
<1>3. ASSUME NEW t \in Tasks, ActiveMonitor(t) \/ \E kind \in {"scan", "monitor"} : JobPosts(t, kind)
      PROVE  LegsInv'
  BY <1>3, BeginKeepsLegs DEF ActiveMonitor, JobPosts
<1>4. ASSUME NEW t \in Tasks, JobTimesOut(t) PROVE LegsInv' BY <1>4, SmallStepKeepsLegs
<1>5. ASSUME NEW t \in Tasks, WriteFails(t) PROVE LegsInv' BY <1>5, WriteFailsKeepsLegs
<1>6. CASE Crash BY <1>6, CrashKeepsLegs
<1>7. CASE StartService \/ AdvancePhase \/ UNCHANGED vars BY <1>7, CalendarKeepsLegs
<1> QED BY <1>1, <1>2, <1>3, <1>4, <1>5, <1>6, <1>7 DEF Next

\* OptionsQuant!BrokerAgreesWithState, for all constants.
THEOREM BrokerAgrees == Spec => []BrokerAgreesWithState
<1>1. OneCycle /\ BooksInv /\ LegsInv /\ [Next]_vars => LegsInv' BY StepKeepsLegs
<1>2. LegsInv => BrokerAgreesWithState
  <2>1. \A s \in Spreads : Distance(legs[s], ExpectedLegs(s)) = Distance(legs[s], LegsOf(stored)[s])
    BY DEF ExpectedLegs, LegsOf
  <2>2. [s \in Spreads |-> Distance(legs[s], ExpectedLegs(s))]
          = [s \in Spreads |-> Distance(legs[s], LegsOf(stored)[s])]
    BY <2>1
  <2> QED BY <2>2 DEF LegsInv, Gap, Unexplained, BrokerAgreesWithState
<1> QED BY InitLegs, BooksAlways, OneCycleAtATime, <1>1, <1>2, PTL DEF Spec
================================================================================
