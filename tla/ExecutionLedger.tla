-------------------------- MODULE ExecutionLedger --------------------------
(***************************************************************************)
(* The ledger of live executions: a worker thread of every process reads   *)
(* the day's fills between two position snapshots, classifies them by      *)
(* walking back from the position, and upserts them; a backfill started    *)
(* with the process does the same for a range of days, under a lock of its *)
(* own.  Every request to Bybit and every database call is a step.         *)
(*                                                                         *)
(* A fill is named by its place in execution order, which the sort key of  *)
(* the code (time, sequence number) recovers.  A window that ends at a     *)
(* cutoff is over when it is fetched, so its pages are read in one step.   *)
(***************************************************************************)
EXTENDS Integers, Sequences, FiniteSets, FiniteSetsExt

CONSTANTS
    Symbol,
    Delta,          \* signed quantities of fills
    MaxFills,       \* fills considered
    MaxDay,         \* trading days considered
    MaxAttempts,    \* MAX_SNAPSHOT_ATTEMPTS
    Syncer,         \* the worker threads, one per process
    Backfiller,     \* the backfill threads
    Deployments     \* the deployments to consider, see DeploymentSpace

Thread == Syncer \cup Backfiller

\* The threads that run, and how many calls of theirs may fail.
DeploymentSpace == [threads : SUBSET Thread, failures : Nat]

ASSUME LedgerAssumption ==
    /\ Delta \subseteq Int \ {0}
    /\ MaxFills \in Nat /\ {MaxDay, MaxAttempts} \subseteq Nat \ {0}
    /\ Syncer \cap Backfiller = {}
    /\ Deployments \subseteq DeploymentSpace

VARIABLES
    fills,      \* what Bybit executed, in order
    day,        \* the current trading day
    rows,       \* live_execution_ledger, by fill
    summaries,  \* runtime_state["live_execution_truth:..."], by day
    thread,     \* what each thread is doing
    misled,     \* a snapshot was taken for consistent that was not
    failures,
    deployment  \* fixed at the start

vars == <<fills, day, rows, summaries, thread, misled, failures, deployment>>

Day == 1..MaxDay
Fill == 1..MaxFills

\* The position of every symbol after the first k fills.
PositionAfter(k) ==
    [s \in Symbol |-> MapThenSumSet(LAMBDA i : fills[i].delta, {i \in 1..k : fills[i].symbol = s})]
Flat == [s \in Symbol |-> 0]
PositionsNow == PositionAfter(Len(fills))

Abs(n) == IF n < 0 THEN -n ELSE n
Opposed(m, n) == (m < 0 /\ n > 0) \/ (m > 0 /\ n < 0)

NoRow == [action |-> "none"]
NoSummary == [completedTrades |-> 0, openPositionSymbols |-> {}]

\* date: the trading day the thread took for the current one; targets: the days
\* it reads and then writes a summary of; read: the fills behind the first
\* position snapshot; cutoff: the fills before the cutoff; anchor: the position
\* to walk back from.
Idle == [pc |-> "idle", date |-> 0, targets |-> {}, attempt |-> 0, read |-> 0, cutoff |-> 0,
         anchor |-> Flat, summary |-> NoSummary]

Init ==
    /\ fills = <<>> /\ day = 1
    /\ rows = [i \in Fill |-> NoRow]
    /\ summaries = [d \in Day |-> NoSummary]
    /\ thread = [t \in Thread |-> Idle]
    /\ misled = FALSE /\ failures = 0
    /\ deployment \in Deployments

-----------------------------------------------------------------------------
(* reconcile_executions *)

\* The fills of the window of these days that ends at the cutoff.
Window(days, cutoff) == {i \in 1..cutoff : fills[i].day \in days}

\* The position after fill i: from the anchor back over the later fills.
WalkedBack(i, executions, anchor) ==
    anchor[fills[i].symbol]
      - MapThenSumSet(LAMBDA j : fills[j].delta,
                      {j \in executions : j > i /\ fills[j].symbol = fills[i].symbol})

\* The row of fill i.  What Bybit says was closed wins when it is more.
Reconciled(i, executions, anchor) ==
    LET delta == fills[i].delta
        after == WalkedBack(i, executions, anchor)
        before == after - delta
        inferred == IF Opposed(before, delta) THEN Min({Abs(before), Abs(delta)}) ELSE 0
        closed == Max({inferred, Min({Abs(delta), fills[i].closed})})
        entry == Max({0, Abs(delta) - closed})
    IN  [positionBefore |-> before, positionAfter |-> after, closedSize |-> closed, entrySize |-> entry,
         action |-> CASE closed > 0 /\ entry > 0 -> "REVERSAL"
                      [] closed > 0 /\ entry = 0 /\ after = 0 -> "FULL_EXIT"
                      [] closed > 0 /\ entry = 0 /\ after # 0 -> "PARTIAL_EXIT"
                      [] closed = 0 /\ before = 0 -> "ENTRY"
                      [] OTHER -> "ADD"]

\* opening_position_snapshot: the position before the first of these fills.
Opening(executions, anchor) ==
    [s \in Symbol |-> anchor[s] - MapThenSumSet(LAMBDA i : fills[i].delta,
                                                {i \in executions : fills[i].symbol = s})]

\* summarize_rows: the completed trades stand for the counters of actions.
Summary(d, open) ==
    [completedTrades |-> Cardinality({i \in DOMAIN fills : /\ fills[i].day = d
                                                           /\ rows[i].action \in {"FULL_EXIT", "REVERSAL"}}),
     openPositionSymbols |-> {s \in Symbol : open[s] # 0}]

-----------------------------------------------------------------------------
(* The threads *)

At(t, pc) == thread[t].pc = pc
Step(t, m) == thread' = [thread EXCEPT ![t] = m]

\* sync of the current or of the previous trading day; before the first day
\* considered there are no fills.
SyncBegins(t, back) ==
    /\ t \in Syncer \cap deployment.threads /\ At(t, "idle") /\ day - back \in Day
    /\ Step(t, [Idle EXCEPT !.pc = "before", !.date = day, !.targets = {day - back}])
    /\ UNCHANGED <<fills, day, rows, summaries, misled, failures, deployment>>

\* _fetch_positions, the first of the two snapshots of an attempt.
ReadPositionsBefore(t) ==
    /\ At(t, "before")
    /\ Step(t, [thread[t] EXCEPT !.pc = "executions", !.read = Len(fills), !.attempt = @ + 1])
    /\ UNCHANGED <<fills, day, rows, summaries, misled, failures, deployment>>

\* The cutoff is now, then _fetch_execution_pages up to it.
ReadExecutions(t) ==
    /\ At(t, "executions")
    /\ Step(t, [thread[t] EXCEPT !.pc = "after", !.cutoff = Len(fills)])
    /\ UNCHANGED <<fills, day, rows, summaries, misled, failures, deployment>>

\* The two snapshots are equal although fills came between them, or fills of the
\* next day are in both.
Misled(t) ==
    /\ PositionAfter(thread[t].read) = PositionsNow
    /\ thread[t].read # Len(fills) \/ \E i \in 1..thread[t].cutoff : fills[i].day > thread[t].date

\* The anchor of the target's walk: the snapshot, or the opening of the day
\* after the target.
Anchor(t) ==
    IF thread[t].targets = {thread[t].date} THEN PositionsNow
    ELSE Opening(Window({thread[t].date}, thread[t].cutoff), PositionsNow)

\* Mutant: the second snapshot is not compared with the first.
ReadPositionsAfterOnly(t) ==
    /\ At(t, "after")
    /\ Step(t, [thread[t] EXCEPT !.pc = "persist", !.anchor = Anchor(t), !.read = 0, !.attempt = 0])
    /\ misled' = (misled \/ Misled(t))
    /\ UNCHANGED <<fills, day, rows, summaries, failures, deployment>>

\* _consistent_current_snapshot: equal positions around the fills are taken for
\* consistent, others read again while attempts are left.
ReadPositionsAfter(t) ==
    /\ At(t, "after")
    /\ IF PositionAfter(thread[t].read) = PositionsNow
       THEN Step(t, [thread[t] EXCEPT !.pc = "persist", !.anchor = Anchor(t), !.read = 0, !.attempt = 0])
       ELSE Step(t, IF thread[t].attempt < MaxAttempts THEN [thread[t] EXCEPT !.pc = "before"] ELSE Idle)
    /\ misled' = (misled \/ Misled(t))
    /\ UNCHANGED <<fills, day, rows, summaries, failures, deployment>>

\* historical_execution_backfill.run: the fills of every day up to now.
BackfillBegins(t) ==
    /\ t \in Backfiller \cap deployment.threads /\ At(t, "idle")
    /\ Step(t, [Idle EXCEPT !.pc = "positions", !.date = day, !.targets = 1..day, !.cutoff = Len(fills)])
    /\ UNCHANGED <<fills, day, rows, summaries, misled, failures, deployment>>

\* The positions behind them, read once.
BackfillPositions(t) ==
    /\ At(t, "positions")
    /\ Step(t, [thread[t] EXCEPT !.pc = "persist", !.anchor = PositionsNow])
    /\ UNCHANGED <<fills, day, rows, summaries, misled, failures, deployment>>

\* Mutant: a row that exists is left as it is.
PersistNew(t) ==
    /\ At(t, "persist")
    /\ LET executions == Window(thread[t].targets, thread[t].cutoff) IN
          rows' = [i \in Fill |-> IF i \in executions /\ rows[i] = NoRow
                                  THEN Reconciled(i, executions, thread[t].anchor) ELSE rows[i]]
    /\ Step(t, [thread[t] EXCEPT !.pc = "rows", !.cutoff = 0])
    /\ UNCHANGED <<fills, day, summaries, misled, failures, deployment>>

\* _persist: every row of the window, inserted or replaced, in one transaction.
Persist(t) ==
    /\ At(t, "persist")
    /\ LET executions == Window(thread[t].targets, thread[t].cutoff) IN
          rows' = [i \in Fill |-> IF i \in executions THEN Reconciled(i, executions, thread[t].anchor)
                                  ELSE rows[i]]
    /\ Step(t, [thread[t] EXCEPT !.pc = "rows", !.cutoff = 0])
    /\ UNCHANGED <<fills, day, summaries, misled, failures, deployment>>

\* _rows_for_date and summarize_rows, for the earliest day left.  A backfill
\* knows the open positions of its last day only.
ReadRows(t) ==
    /\ At(t, "rows")
    /\ LET d == Min(thread[t].targets)
           open == IF t \in Backfiller /\ d # thread[t].date THEN Flat ELSE thread[t].anchor
       IN  Step(t, [thread[t] EXCEPT !.pc = "put", !.summary = Summary(d, open)])
    /\ UNCHANGED <<fills, day, rows, summaries, misled, failures, deployment>>

\* store.put of the day's summary.
PutSummary(t) ==
    /\ At(t, "put")
    /\ LET d == Min(thread[t].targets)
           left == thread[t].targets \ {d}
       IN  /\ summaries' = [summaries EXCEPT ![d] = thread[t].summary]
           /\ Step(t, IF left = {} THEN Idle
                      ELSE [thread[t] EXCEPT !.pc = "rows", !.targets = left, !.summary = NoSummary])
    /\ UNCHANGED <<fills, day, rows, misled, failures, deployment>>

\* A request or the store fails, or the process ends.
Fails(t) ==
    /\ ~At(t, "idle") /\ failures < deployment.failures
    /\ failures' = failures + 1
    /\ Step(t, Idle)
    /\ UNCHANGED <<fills, day, rows, summaries, misled, deployment>>

-----------------------------------------------------------------------------
(* Bybit and the clock *)

\* A fill; its closedSize is what it took from an opposed position.
Executes(s, delta) ==
    /\ Len(fills) < MaxFills
    /\ LET before == PositionsNow[s] IN
          fills' = Append(fills, [symbol |-> s, delta |-> delta, day |-> day,
                                  closed |-> IF Opposed(before, delta) THEN Min({Abs(before), Abs(delta)})
                                                                       ELSE 0])
    /\ UNCHANGED <<day, rows, summaries, thread, misled, failures, deployment>>

NextDay ==
    /\ day < MaxDay
    /\ day' = day + 1
    /\ UNCHANGED <<fills, rows, summaries, thread, misled, failures, deployment>>

ThreadStep(t) ==
    \/ ReadPositionsBefore(t) \/ ReadExecutions(t) \/ ReadPositionsAfter(t)
    \/ BackfillPositions(t) \/ Persist(t) \/ ReadRows(t) \/ PutSummary(t)

Next ==
    \/ \E t \in Syncer, back \in {0, 1} : SyncBegins(t, back)
    \/ \E t \in Backfiller : BackfillBegins(t)
    \/ \E t \in Thread : ThreadStep(t) \/ Fails(t)
    \/ \E s \in Symbol, delta \in Delta : Executes(s, delta)
    \/ NextDay

Spec == Init /\ [][Next]_vars

\* The worker synchronises both days again and again; threads run.
Fairness ==
    /\ \A t \in Syncer, back \in {0, 1} : SF_vars(SyncBegins(t, back))
    /\ \A t \in Thread : WF_vars(ThreadStep(t))

FairSpec == Spec /\ Fairness

-----------------------------------------------------------------------------
(* Properties *)

\* What fill i did, told forward from the exchange's own history.
TrueRow(i) ==
    LET s == fills[i].symbol
        before == PositionAfter(i - 1)[s]
        after == PositionAfter(i)[s]
        closed == IF Abs(after) < Abs(before) /\ ~Opposed(before, after) THEN Abs(before) - Abs(after)
                  ELSE IF Opposed(before, after) THEN Abs(before) ELSE 0
    IN  [positionBefore |-> before, positionAfter |-> after, closedSize |-> closed,
         entrySize |-> Abs(fills[i].delta) - closed,
         action |-> CASE before = 0 -> "ENTRY"
                      [] before # 0 /\ after = 0 -> "FULL_EXIT"
                      [] Opposed(before, after) -> "REVERSAL"
                      [] before # 0 /\ after # 0 /\ ~Opposed(before, after) ->
                            IF Abs(after) > Abs(before) THEN "ADD" ELSE "PARTIAL_EXIT"]

\* A row a synchronisation stored is what the fill really did, whatever was
\* executed, failed or ran beside it, unless the position came back to where it
\* was between its two snapshots or its day had ended
\* (live_execution_ledger._consistent_current_snapshot, reconcile_executions).
RowsTrue ==
    ~misled /\ deployment.threads \cap Backfiller = {} =>
        \A i \in DOMAIN fills : rows[i] # NoRow => rows[i] = TrueRow(i)

\* Wrong rows of the current and of the previous day are repaired: when trading
\* pauses they and the summary of the day become true and stay so, also beside a
\* backfill that read positions too late (LiveExecutionLedgerService.start).
LedgerConverges ==
    <>[](/\ \A i \in DOMAIN fills : fills[i].day >= day - 1 => rows[i] = TrueRow(i)
         /\ summaries[day] = Summary(day, PositionsNow))
=============================================================================
