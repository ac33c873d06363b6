------------------------------- MODULE Replay -------------------------------
(***************************************************************************)
(* Historical Replay: the collector fills the candle cache page by page,   *)
(* starting a session freezes the selected range, and each step request    *)
(* takes the session through three transactions (cursor, strategy and      *)
(* risk, simulated execution) and a finalisation, under an idempotency key *)
(* and a PostgreSQL advisory lock.                                         *)
(*                                                                         *)
(* A transaction is one action.  A process may crash, and another process  *)
(* may run, between any two of them.  Within a process the store's lock is *)
(* held for a whole step, so its other operations wait.                    *)
(***************************************************************************)
EXTENDS ReplayPerformance

CONSTANTS
    Proc,           \* server processes
    Request,        \* request ids of steps
    None,           \* nobody, nothing
    Tapes,          \* the candles the exchange may report
    PageLimit,      \* rows of a kline page
    MaxPages,       \* pages of one synchronisation
    MaxSteps,       \* MAX_STEP_CANDLES
    MaxSyncs,       \* synchronisations considered
    MaxResets,      \* resets considered
    MaxRevisions    \* revisions of reported candles considered

ASSUME ReplayAssumption ==
    /\ \A tape \in Tapes : DOMAIN tape = 1..N /\ \A i \in 1..N : ValidCandle(tape[i])
    /\ {PageLimit, MaxPages, MaxSteps} \subseteq Nat \ {0}
    /\ {MaxSyncs, MaxResets, MaxRevisions} \subseteq Nat
    /\ None \notin Proc \cup Request

VARIABLES
    tape,        \* what the exchange reports for the range
    cache,       \* replay_candles
    sync,        \* the synchronisation each process is running
    snapshot,    \* replay_session_candles
    session,     \* the row of replay_sessions
    account,     \* its balance and equity, replay_trades and the pnl.marked events
    advanced,    \* candles of the candle.advanced events, in sequence order
    requests,    \* replay_step_requests
    proc,        \* the request whose pipeline each process runs
    lock,        \* holder of the session's advisory lock
    lapsed,      \* a step was left unfinished with no recovery marker, or reset under way
    syncs, resets, revisions

data == <<tape, cache, sync, snapshot, syncs, revisions>>
rows == <<session, account, advanced, requests>>
vars == <<data, rows, proc, lock, lapsed, resets>>

Absent == [open |-> 0]
NoSync == [end |-> 0, pages |-> 0, starting |-> FALSE, ready |-> FALSE]
NoRequest == [stage |-> "none"]

Status == {"READY", "RUNNING", "PAUSED", "COMPLETED"}
\* How far the stored response of a request got.
Stage == {"advanced", "strategized", "executed", "final"}

\* cursor 0 is a NULL cursor; pending is summary.pendingFinalStatus.
NoSession == [status |-> "absent", cursor |-> 0, pending |-> None]

Init ==
    /\ tape \in Tapes
    /\ cache = [i \in 1..N |-> Absent]
    /\ sync = [p \in Proc |-> NoSync]
    /\ snapshot = [i \in 1..N |-> Absent]
    /\ session = NoSession
    /\ account = FreshAccount
    /\ advanced = <<>>
    /\ requests = [r \in Request |-> NoRequest]
    /\ proc = [p \in Proc |-> None]
    /\ lock = None
    /\ lapsed = FALSE
    /\ syncs = 0
    /\ resets = 0
    /\ revisions = 0

-----------------------------------------------------------------------------
(* The collector and the start of a session                                *)

\* cached_range_status(...)["complete"]
RangeComplete(candles) == \A i \in 1..N : candles[i] # Absent

\* The exchange corrects a candle it reported before.
Revise ==
    /\ revisions < MaxRevisions
    /\ tape' \in Tapes \ {tape}
    /\ revisions' = revisions + 1
    /\ UNCHANGED <<cache, sync, snapshot, syncs, rows, proc, lock, lapsed, resets>>

\* HistoricalKlineCollector.sync takes the process's sync lock.  A range that is
\* complete is fetched again when forced, and otherwise left alone.
Sync(p, starting) ==
    /\ sync[p] = NoSync
    /\ syncs < MaxSyncs
    /\ starting => session = NoSession
    /\ sync' = [sync EXCEPT ![p] = [end |-> N, pages |-> 0, starting |-> starting, ready |-> FALSE]]
    /\ syncs' = syncs + 1
    /\ UNCHANGED <<tape, cache, snapshot, revisions, rows, proc, lock, lapsed, resets>>

\* ReplaySessionService.start with a range that is complete already.
StartFromCache(p) ==
    /\ sync[p] = NoSync
    /\ session = NoSession
    /\ RangeComplete(cache)
    /\ sync' = [sync EXCEPT ![p] = [NoSync EXCEPT !.starting = TRUE, !.ready = TRUE]]
    /\ UNCHANGED <<tape, cache, snapshot, syncs, revisions, rows, proc, lock, lapsed, resets>>

\* The synchronisation is over: an explicit one returns, a start goes on only
\* when the range is continuous.
SyncDone(p, candles) ==
    IF sync[p].starting /\ RangeComplete(candles)
    THEN [NoSync EXCEPT !.starting = TRUE, !.ready = TRUE] ELSE NoSync

\* parse_kline_page: the exchange answers with its newest rows up to the cursor,
\* perhaps fewer than asked for; rows out of the range or not closed are dropped.
KlinePage(end, count) == [i \in (end - count + 1)..end |-> tape[i]]

\* upsert_replay_candles: a row that exists is replaced.
Upserted(candles, page) == [i \in 1..N |-> IF i \in DOMAIN page THEN page[i] ELSE candles[i]]

\* One page of _run_pages, stored in a transaction of its own.
FetchPage(p) ==
    /\ sync[p].end > 0
    /\ sync[p].pages < MaxPages
    /\ proc[p] = None
    /\ \E count \in 0..Min({PageLimit, sync[p].end}) :
          LET oldest == sync[p].end - count + 1
              fetched == Upserted(cache, KlinePage(sync[p].end, count))
              last == count = 0 \/ oldest <= 1 \/ count < PageLimit
          IN  /\ cache' = fetched
              /\ sync' = [sync EXCEPT ![p] = IF last THEN SyncDone(p, fetched)
                                             ELSE [@ EXCEPT !.end = oldest - 1, !.pages = @ + 1]]
    /\ UNCHANGED <<tape, snapshot, syncs, revisions, rows, proc, lock, lapsed, resets>>

\* The transport gives up, or the page limit is reached: stored pages stay.
SyncFails(p) ==
    /\ sync[p].end > 0
    /\ sync' = [sync EXCEPT ![p] = NoSync]
    /\ UNCHANGED <<tape, cache, snapshot, syncs, revisions, rows, proc, lock, lapsed, resets>>

\* snapshot_session_candles: the session keeps the candles of the cache as they are.
SessionSnapshot == cache

\* repository.create_session: the row, the candle snapshot and the event in one
\* transaction; a session that exists by now is returned as it is.
CreateSession(p) ==
    /\ sync[p].ready
    /\ proc[p] = None
    /\ sync' = [sync EXCEPT ![p] = NoSync]
    /\ IF session = NoSession
       THEN /\ session' = [NoSession EXCEPT !.status = "READY"]
            /\ snapshot' = SessionSnapshot
       ELSE UNCHANGED <<session, snapshot>>
    /\ UNCHANGED <<tape, cache, syncs, revisions, account, advanced, requests, proc, lock, lapsed, resets>>

-----------------------------------------------------------------------------
(* A step                                                                  *)

\* Whoever has the advisory lock keeps it until its pipeline ends.
Acquire(p, r) ==
    /\ proc[p] = None
    /\ lock = None
    /\ proc' = [proc EXCEPT ![p] = r]
    /\ lock' = p

Release(p) ==
    /\ proc' = [proc EXCEPT ![p] = None]
    /\ lock' = None

\* The optimistic cursor and the status test of advance_session.
Steppable(expected) ==
    /\ session.status \in {"READY", "PAUSED"}
    /\ expected = session.cursor

\* Mutant: the batch is not cut at the end of the range.
AdvancePastEnd(p, r) ==
    /\ Acquire(p, r)
    /\ requests[r] = NoRequest
    /\ \E steps \in 1..MaxSteps, expected \in 0..N :
          /\ Steppable(expected)
          /\ RangeComplete(snapshot)
          /\ session.cursor < N
          /\ session' = [session EXCEPT !.status = "PAUSED", !.cursor = @ + steps]
          /\ advanced' = advanced \o [k \in 1..steps |-> session.cursor + k]
          /\ requests' = [requests EXCEPT ![r] = [stage |-> "advanced", lo |-> session.cursor + 1,
                                                  hi |-> session.cursor + steps, status |-> "PAUSED"]]
    /\ UNCHANGED <<data, account, lapsed, resets>>

\* advance_session for a new request id: the cursor moves over the next candles
\* of the snapshot and the response is stored, in one transaction.
AdvanceSession(p, r) ==
    /\ Acquire(p, r)
    /\ requests[r] = NoRequest
    /\ \E steps \in 1..MaxSteps, expected \in 0..N :
          /\ Steppable(expected)
          /\ RangeComplete(snapshot)
          /\ session.cursor < N
          /\ LET lo == session.cursor + 1
                 hi == Min({session.cursor + steps, N})
                 status == IF hi = N THEN "COMPLETED" ELSE "PAUSED"
             IN  /\ session' = [session EXCEPT !.status = status, !.cursor = hi]
                 /\ advanced' = advanced \o [k \in 1..(hi - lo + 1) |-> lo + k - 1]
                 /\ requests' = [requests EXCEPT ![r] =
                        [stage |-> "advanced", lo |-> lo, hi |-> hi, status |-> status]]
    /\ UNCHANGED <<data, account, lapsed, resets>>

\* advance_session for a known request id: the stored response, whatever the
\* session's status and cursor are.  A finished request changes nothing.
RetryStep(p, r) ==
    /\ Acquire(p, r)
    /\ requests[r].stage \in Stage \ {"final"}
    /\ UNCHANGED <<data, rows, lapsed, resets>>

\* replay_strategy_risk.enrich_step.  The decisions are functions of the frozen
\* candles, so that they were taken is all there is to store.
EnrichStrategy(p) ==
    /\ proc[p] # None
    /\ requests[proc[p]].stage = "advanced"
    /\ requests' = [requests EXCEPT ![proc[p]].stage = "strategized"]
    /\ UNCHANGED <<data, session, account, advanced, proc, lock, lapsed, resets>>

\* The marker of a failed pipeline decides the final status before the stored
\* response does.
TargetStatus(r) ==
    IF session.pending # None THEN session.pending
    ELSE IF requests[r].hi = N THEN "COMPLETED" ELSE "PAUSED"

\* The account after replay_simulated_execution.enrich_step, which starts from
\* the locked row and the open trade as they are now.
Executed(r) == ExecuteCandles(account, snapshot, requests[r].lo, requests[r].hi,
                              TargetStatus(r) = "COMPLETED")

\* replay_simulated_execution.enrich_step: fills, exits, marks, the session row
\* and the stored response, in one transaction.
EnrichExecution(p) ==
    /\ proc[p] # None
    /\ requests[proc[p]].stage = "strategized"
    /\ ~Executed(proc[p]).failed
    /\ account' = Executed(proc[p])
    /\ session' = [session EXCEPT !.status = TargetStatus(proc[p]), !.pending = None]
    /\ requests' = [requests EXCEPT ![proc[p]].stage = "executed",
                                    ![proc[p]].status = TargetStatus(proc[p])]
    /\ UNCHANGED <<data, advanced, proc, lock, lapsed, resets>>

\* _finalize_execution_response writes the status of the stored response and
\* clears the recovery markers.
Finalize(p) ==
    /\ proc[p] # None
    /\ requests[proc[p]].stage = "executed"
    /\ session' = [session EXCEPT !.status = requests[proc[p]].status, !.pending = None]
    /\ requests' = [requests EXCEPT ![proc[p]].stage = "final"]
    /\ Release(p)
    /\ UNCHANGED <<data, account, advanced, lapsed, resets>>

\* Mutant: the failed step leaves the session open to the next request.
FailOpen(p) ==
    /\ proc[p] # None
    /\ Release(p)
    /\ UNCHANGED <<data, rows, lapsed, resets>>

\* A transaction of the pipeline fails and rolls back; _mark_recovery_required
\* makes the session refuse every other request.
FailMarked(p) ==
    /\ proc[p] # None
    /\ session' = [session EXCEPT !.status = "RUNNING",
                                  !.pending = IF requests[proc[p]].hi = N THEN "COMPLETED" ELSE "PAUSED"]
    /\ Release(p)
    /\ UNCHANGED <<data, account, advanced, requests, lapsed, resets>>

\* The marker cannot be written either, or the process dies: the advisory lock
\* goes with the connection and the rows stay as the last transaction left them.
FailUnmarked(p) ==
    /\ proc[p] # None
    /\ Release(p)
    /\ lapsed' = TRUE
    /\ UNCHANGED <<data, rows, resets>>

\* Mutant: the events of the run before are kept.
ResetKeepsEvents(p) ==
    /\ proc[p] = None
    /\ session.status \in Status \ {"RUNNING"}
    /\ resets < MaxResets
    /\ session' = [session EXCEPT !.status = "READY", !.cursor = 0, !.pending = None]
    /\ account' = FreshAccount
    /\ resets' = resets + 1
    /\ lapsed' = (lapsed \/ lock # None)
    /\ UNCHANGED <<data, advanced, requests, proc, lock>>

\* repository.reset_session: request history and candles are kept.  It takes the
\* row lock and the lock of its own process, not the advisory lock.
ResetSession(p) ==
    /\ proc[p] = None
    /\ session.status \in Status \ {"RUNNING"}
    /\ resets < MaxResets
    /\ session' = [session EXCEPT !.status = "READY", !.cursor = 0, !.pending = None]
    /\ account' = FreshAccount
    /\ advanced' = <<>>
    /\ resets' = resets + 1
    /\ lapsed' = (lapsed \/ lock # None)
    /\ UNCHANGED <<data, requests, proc, lock>>

Next ==
    \/ Revise
    \/ \E p \in Proc :
          \/ \E starting \in BOOLEAN : Sync(p, starting)
          \/ StartFromCache(p) \/ FetchPage(p) \/ SyncFails(p) \/ CreateSession(p)
          \/ \E r \in Request : AdvanceSession(p, r) \/ RetryStep(p, r)
          \/ EnrichStrategy(p) \/ EnrichExecution(p) \/ Finalize(p)
          \/ FailMarked(p) \/ FailUnmarked(p) \/ ResetSession(p)

Spec == Init /\ [][Next]_vars

-----------------------------------------------------------------------------
(* Properties                                                              *)

Open == IF account.open = NoTrade THEN {} ELSE {account.open}

\* Every row is of its type: the cursor stays in the range, a stored response
\* covers a range of candles, and the advisory lock is held by the one process
\* whose pipeline runs.
TypeOK ==
    /\ tape \in Tapes
    /\ \A i \in 1..N : {cache[i], snapshot[i]} \subseteq {Absent} \cup {t[i] : t \in Tapes}
    /\ session.status \in Status \cup {"absent"} /\ session.cursor \in 0..N
    /\ session.pending \in {None, "PAUSED", "COMPLETED"}
    /\ account.balance \in Nat /\ account.equity \in Nat
    /\ \A r \in Request : requests[r] # NoRequest =>
          /\ requests[r].stage \in Stage
          /\ 1 <= requests[r].lo /\ requests[r].lo <= requests[r].hi /\ requests[r].hi <= N
    /\ \A p \in Proc : proc[p] # None <=> lock = p

\* Since the last reset the session delivered the candles up to its cursor in
\* order and each once, whatever was retried, crashed, raced or reset
\* (replay_step_repository.advance_session).
CandlesInOrder == advanced = [k \in 1..session.cursor |-> k]

\* The steps a session took are invisible in its result: at rest its balance,
\* equity, trades and marks are those of one run over the frozen candles up to
\* the cursor, however the steps were batched, retried or failed, unless a step
\* was left behind with no recovery marker (replay_engine.step).
Deterministic ==
    (~lapsed /\ lock = None /\ session.status \in {"READY", "PAUSED", "COMPLETED"}) =>
        account = ExecuteCandles(FreshAccount, snapshot, 1, session.cursor,
                                 session.status = "COMPLETED")

\* The report agrees with the account and with the marks: what the closed trades
\* made and the open one paid is what the balance moved by, the drawdown kept
\* incrementally is the largest fall from an earlier mark, and the sampled curve
\* has its ends and respects its limit.  This holds after lapses too.
PerformanceAgrees ==
    LET m == calculate_trade_metrics(account.closed, Open)
        equity == [k \in 0..Len(account.marks) |->
                      IF k = 0 THEN InitialBalance ELSE account.marks[k].equity]
        count == Len(account.marks)
        sample == equity_sample_indexes(count, 2)
    IN  /\ m.netRealizedPnl = m.grossProfit - m.grossLoss
        /\ account.balance - InitialBalance =
               m.netRealizedPnl - MapThenSumSet(LAMBDA t : t.fees, Open)
        /\ calculate_drawdown(account.marks).maxAmount =
               Max({equity[pair[1]] - equity[pair[2]] :
                       pair \in {q \in (0..count) \X (0..count) : q[1] <= q[2]}})
        /\ count > 0 => {0, count - 1} \subseteq sample /\ Cardinality(sample) <= 2
=============================================================================
