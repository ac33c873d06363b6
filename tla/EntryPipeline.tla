--------------------------- MODULE EntryPipeline ---------------------------
(***************************************************************************)
(* The Python entry pipeline, run by the orchestrator's single worker      *)
(* thread: hourly watchlist, 15M classification, 5M entry confirmation,    *)
(* entry risk, execution command outbox (direct hand-off to Node, then the *)
(* PostgreSQL mirror), position sizing.                                    *)
(*                                                                         *)
(* Time counts 5M candles: a timestamp t is in the t-th 5M period.  A      *)
(* candidate is the symbol and the 5M candle that confirmed it.  What the  *)
(* indicators, the risk rules and the wallet say is the environment's      *)
(* choice.  Each stage keeps a snapshot in memory, persisted when it is    *)
(* rebuilt and reloaded when the process starts; the outbox keeps its own  *)
(* in memory only.  Statuses are reduced to what the next stage tells      *)
(* apart: "ready" stands for ready, empty and waiting, "failed" for stale  *)
(* and error.                                                              *)
(***************************************************************************)
EXTENDS Integers, Sequences, FiniteSets

CONSTANTS
  Symbol,         \* symbols, numbered in the watchlist's rank order
  QueueLimit,     \* newest confirmed entries kept
  MaxAge,         \* candles a confirmed entry stays valid for
  SetupInterval,  \* candles between two setup cycles, 0 if less than a candle
  StartTick, MaxTick,   \* bounds of the clock
  MaxRestarts,    \* bound on process restarts
  MaxFaults       \* bound on failed market data calls and failed store calls

ASSUME PipelineAssumption ==
  /\ Symbol \subseteq Nat /\ IsFiniteSet(Symbol)
  /\ QueueLimit \in Nat \ {0}
  /\ MaxAge \in Nat /\ SetupInterval \in Nat
  /\ StartTick \in Nat \ {0} /\ MaxTick \in Nat
  /\ MaxRestarts \in Nat /\ MaxFaults \in Nat

VARIABLES
  now,        \* the clock
  pc, ts,     \* stage the worker is in, timestamp of its cycle
  nextRun,    \* nextSetupRunAt
  hourly, class, entry, risk, sizing,  \* snapshots of the stages
  outbox,     \* what the outbox remembers of its last build
  delivered,  \* _DELIVERED
  todo, retry,  \* running outbox build: candidates to post, whether a post failed
  store,      \* whether the process found a healthy store when it started
  saved,      \* persisted snapshots
  offered,    \* candidates a post was attempted for
  rows,       \* candidates with a row in the command table
  restarts, faults

cycle == <<pc, ts, nextRun>>
feed == <<hourly, class, entry>>
handoff == <<outbox, delivered, todo, retry>>
outside == <<offered, rows>>
process == <<store, restarts>>
vars == <<now, cycle, feed, risk, sizing, handoff, process, saved, faults, outside>>

\* Open of the last closed candle that lasts n 5M periods, counted in such candles.
TargetCandle(t, n) == t \div n - 1
None == -1

Candidate == [symbol : Symbol, candle : Int]

\* createdAt is the timestamp of the cycle that confirms the candidate.
CreatedAt(k) == k.candle + 1

Keys(queue) == {queue[i] : i \in DOMAIN queue}

NoHourly == [candle |-> None, rows |-> {}]
NoClass == [status |-> "idle", candle |-> None, rows |-> {}]
NoEntry == [status |-> "idle", candle |-> None, queue |-> <<>>]
NoQueue == [status |-> "idle", fp |-> <<>>, approved |-> {}]
NoOutbox == [fp |-> <<>>, retrying |-> FALSE, waiting |-> FALSE]

Init ==
  /\ now = StartTick
  /\ pc = "idle" /\ ts = StartTick /\ nextRun = StartTick
  /\ hourly = NoHourly /\ class = NoClass /\ entry = NoEntry
  /\ risk = NoQueue /\ sizing = NoQueue
  /\ outbox = NoOutbox /\ delivered = {} /\ todo = {} /\ retry = FALSE
  /\ store = TRUE
  /\ saved = [hourly |-> NoHourly, class |-> NoClass, entry |-> NoEntry,
              risk |-> NoQueue, sizing |-> NoQueue]
  /\ offered = {} /\ rows = {}
  /\ restarts = 0 /\ faults = 0

\* A call to the exchange or to the store fails.
Fault == faults < MaxFaults /\ faults' = faults + 1

\* The rest of a build: the payload is persisted, which may fail, and kept.
Persist(stage, payload) ==
  \/ store /\ saved' = [saved EXCEPT ![stage] = payload] /\ UNCHANGED faults
  \/ store /\ Fault /\ UNCHANGED saved
  \/ ~store /\ UNCHANGED <<saved, faults>>

-----------------------------------------------------------------------------
(* The stages of a cycle, in the order of run_due_once.                     *)

\* At the bound of the clock the last candle lasts for ever and cycles go on in it.
BeginCycle ==
  /\ pc = "idle" /\ (nextRun <= now \/ now = MaxTick)
  /\ ts' = now /\ pc' = "watchlist"
  /\ UNCHANGED <<now, nextRun, feed, risk, sizing, handoff, process, saved, faults, outside>>

\* Which contracts are eligible and trend is the market's choice.
Watchlists == SUBSET Symbol

\* ensure_current of the hourly watchlist: it is rebuilt when its candle is not
\* the last closed one; a failed build keeps the rows and the candle.
EnsureHourly(t) ==
  IF hourly.candle = TargetCandle(t, 12)
    THEN UNCHANGED <<hourly, saved, faults>>
    ELSE \/ \E R \in Watchlists :
              /\ hourly' = [candle |-> TargetCandle(t, 12), rows |-> R]
              /\ Persist("hourly", hourly')
         \/ Fault /\ UNCHANGED <<hourly, saved>>

\* The symbol and the setup schedule have the same interval by default and start
\* together, so both are due in the same cycles.
RunBatch ==
  /\ pc = "watchlist" /\ pc' = "classifier"
  /\ EnsureHourly(ts)
  /\ UNCHANGED <<now, ts, nextRun, class, entry, risk, sizing, handoff, process, outside>>

ClassDue == class.candle # TargetCandle(ts, 3)

SkipClassifier ==
  /\ pc = "classifier" /\ ~ClassDue /\ pc' = "entry"
  /\ UNCHANGED <<now, ts, nextRun, feed, risk, sizing, handoff, process, saved, faults, outside>>

\* A due classifier reads the watchlist through its own ensure_current, on the
\* clock and not on the cycle's timestamp.
RefreshHourly ==
  /\ pc = "classifier" /\ ClassDue /\ pc' = "classify"
  /\ EnsureHourly(now)
  /\ UNCHANGED <<now, ts, nextRun, class, entry, risk, sizing, handoff, process, outside>>

\* Any strategy may grade a watchlist row A+ or A on its closed 15M candles, or none.
Classifications == SUBSET hourly.rows

BuildClass ==
  /\ pc = "classify" /\ pc' = "entry"
  /\ \/ /\ hourly.rows # {}
        /\ \E C \in Classifications :
             class' = [status |-> "ready", candle |-> TargetCandle(ts, 3), rows |-> C]
        /\ Persist("class", class')
     \/ /\ (hourly.rows = {} /\ UNCHANGED faults) \/ (hourly.rows # {} /\ Fault)
        /\ class' = [class EXCEPT !.status = "failed"] /\ UNCHANGED saved
  /\ UNCHANGED <<now, ts, nextRun, hourly, entry, risk, sizing, handoff, process, outside>>

EntryDue == entry.candle # TargetCandle(ts, 1)

ClassCurrent == class.status = "ready" /\ class.candle = TargetCandle(ts, 3)

\* The first 5M candle after the setup's close has not closed yet.
Waiting == TargetCandle(ts, 1) < 3 * (TargetCandle(ts, 3) + 1)

\* A bug that keeps one entry too many.
LimitedLate(queue) == IF Len(queue) <= QueueLimit + 1 THEN queue ELSE Tail(queue)

Limited(queue) ==
  IF Len(queue) <= QueueLimit THEN queue
  ELSE SubSeq(queue, Len(queue) - QueueLimit + 1, Len(queue))

\* These symbols in rank order.
Ranked(S) ==
  [i \in 1..Cardinality(S) |-> CHOOSE s \in S : Cardinality({x \in S : x <= s}) = i]

\* The queue after the symbols of C are confirmed, in the order of their rows.
Confirmed(C) ==
  LET candidate(s) == [symbol |-> s, candle |-> TargetCandle(ts, 1)]
      fresh == {s \in C : candidate(s) \notin Keys(entry.queue)}
  IN  Limited(entry.queue \o [i \in 1..Cardinality(fresh) |-> candidate(Ranked(fresh)[i])])

BuildEntry ==
  /\ pc = "entry" /\ pc' = "risk"
  /\ \/ ~EntryDue /\ UNCHANGED <<entry, saved, faults>>
     \/ /\ EntryDue /\ ClassCurrent
        /\ \E C \in SUBSET class.rows :
             /\ Waiting => C = {}
             /\ entry' = [status |-> "ready", candle |-> TargetCandle(ts, 1),
                          queue |-> IF Waiting THEN entry.queue ELSE Confirmed(C)]
        /\ Persist("entry", entry')
     \/ /\ EntryDue
        /\ \/ ~ClassCurrent /\ UNCHANGED faults
           \/ ClassCurrent /\ ~Waiting /\ class.rows # {} /\ Fault
        /\ entry' = [entry EXCEPT !.status = "failed"] /\ UNCHANGED saved
  /\ UNCHANGED <<now, ts, nextRun, hourly, class, risk, sizing, handoff, process, outside>>

\* A bug that leaves the candle out of the fingerprint.
RiskFingerprintKeysOnly == <<None, Keys(entry.queue)>>

RiskFingerprint == <<entry.candle, Keys(entry.queue)>>

RiskDue == RiskFingerprint # risk.fp \/ risk.status = "failed"

\* Risk decides on every confirmed entry again: an old one is stale; agreement,
\* daily risk, the position guard and the cooldown may block any other.
RiskVerdicts == SUBSET {k \in Keys(entry.queue) : ts - CreatedAt(k) <= MaxAge}

BuildRisk ==
  /\ pc = "risk" /\ pc' = "outbox"
  /\ \/ ~RiskDue /\ UNCHANGED <<risk, saved, faults>>
     \/ /\ RiskDue /\ entry.status = "ready"
        /\ \E A \in RiskVerdicts :
             risk' = [status |-> "ready", fp |-> RiskFingerprint, approved |-> A]
        /\ Persist("risk", risk')
     \/ /\ RiskDue /\ entry.status # "ready"
        /\ risk' = [risk EXCEPT !.status = "failed"] /\ UNCHANGED <<saved, faults>>
  /\ UNCHANGED <<now, ts, nextRun, feed, sizing, handoff, process, outside>>

-----------------------------------------------------------------------------
(* The outbox.                                                              *)

OutboxFingerprint == <<risk.fp, risk.approved, sizing.fp, sizing.approved>>

\* Bugs in the outbox's trigger: no retry, or only sizing's output is watched.
OutboxDueNoRetry == OutboxFingerprint # outbox.fp \/ outbox.waiting
OutboxDueSizingOnly ==
  \/ <<sizing.fp, sizing.approved>> # SubSeq(outbox.fp, 3, Len(outbox.fp))
  \/ outbox.retrying \/ outbox.waiting

OutboxDue == OutboxFingerprint # outbox.fp \/ outbox.retrying \/ outbox.waiting

SkipOutbox ==
  /\ pc = "outbox" /\ ~OutboxDue /\ pc' = "sizing"
  /\ UNCHANGED <<now, ts, nextRun, feed, risk, sizing, handoff, process, saved, faults, outside>>

BeginOutbox ==
  /\ pc = "outbox" /\ OutboxDue /\ pc' = "deliver"
  /\ todo' = risk.approved \ delivered /\ retry' = FALSE
  /\ UNCHANGED <<now, ts, nextRun, feed, risk, sizing, outbox, delivered, process, saved,
                 faults, outside>>

Post(k) ==
  /\ pc = "deliver" /\ k \in todo
  /\ todo' = todo \ {k} /\ offered' = offered \cup {k}
  /\ UNCHANGED <<now, cycle, feed, risk, sizing, outbox, process, saved, faults, rows>>

PostAnswered(k) ==
  /\ Post(k)
  /\ delivered' = delivered \cup {k} /\ UNCHANGED retry

\* A bug that does not count a failed post as one to repeat.
PostFailedUncounted(k) == Post(k) /\ UNCHANGED <<retry, delivered>>

\* Timeout, refusal or connection error: Node may or may not have the candidate, and
\* a repeated post is the same to it (NodeExecution).
PostFailed(k) ==
  /\ Post(k)
  /\ retry' = TRUE /\ UNCHANGED delivered

\* Every sized candidate gets a row unless the store or its validation says no;
\* it waits too when the row cannot be read back or holds another payload.
MirrorPostgres ==
  /\ pc = "deliver" /\ todo = {} /\ pc' = "sizing"
  /\ \E wait \in SUBSET sizing.approved, unwritten \in SUBSET sizing.approved :
       /\ unwritten \subseteq wait
       /\ rows' = rows \cup (sizing.approved \ unwritten)
       /\ outbox' = [fp |-> OutboxFingerprint, retrying |-> retry, waiting |-> wait # {}]
  /\ retry' = FALSE
  /\ UNCHANGED <<now, ts, nextRun, feed, risk, sizing, delivered, todo, process, saved,
                 faults, offered>>

-----------------------------------------------------------------------------
SizingFingerprint == <<risk.fp, risk.approved>>

SizingDue == SizingFingerprint # sizing.fp \/ sizing.status = "failed"

\* Sizing approves what the wallet, the stop and the instrument's limits allow.
SizingVerdicts == SUBSET risk.approved

\* Sizing ends the cycle.
BuildSizing ==
  /\ pc = "sizing" /\ pc' = "idle" /\ nextRun' = ts + SetupInterval
  /\ \/ ~SizingDue /\ UNCHANGED <<sizing, saved, faults>>
     \/ /\ SizingDue /\ risk.status = "ready"
        /\ \E A \in SizingVerdicts :
             sizing' = [status |-> "ready", fp |-> SizingFingerprint, approved |-> A]
        /\ Persist("sizing", sizing')
     \/ /\ SizingDue
        /\ \/ risk.status # "ready" /\ UNCHANGED faults
           \/ risk.status = "ready" /\ risk.approved # {} /\ Fault
        /\ sizing' = [sizing EXCEPT !.status = "failed"] /\ UNCHANGED saved
  /\ UNCHANGED <<now, ts, feed, risk, handoff, process, outside>>

-----------------------------------------------------------------------------
\* The stages of a cycle share its timestamp: only the classifier reads the clock
\* again, so the clock moves between cycles and before that read.
Tick ==
  /\ pc \in {"idle", "classifier"}
  /\ now < MaxTick /\ now' = now + 1
  /\ UNCHANGED <<cycle, feed, risk, sizing, handoff, process, saved, faults, outside>>

\* The process dies at any point and starts again: each stage's install reads its
\* snapshot back from a store that is healthy at that moment.
Restart ==
  /\ restarts < MaxRestarts /\ restarts' = restarts + 1
  /\ pc' = "idle" /\ ts' = now /\ nextRun' = now
  /\ (store' = TRUE /\ UNCHANGED faults) \/ (store' = FALSE /\ Fault)
  /\ hourly' = IF store' THEN saved.hourly ELSE NoHourly
  /\ class' = IF store' THEN saved.class ELSE NoClass
  /\ entry' = IF store' THEN saved.entry ELSE NoEntry
  /\ risk' = IF store' THEN saved.risk ELSE NoQueue
  /\ sizing' = IF store' THEN saved.sizing ELSE NoQueue
  /\ outbox' = NoOutbox /\ delivered' = {} /\ todo' = {} /\ retry' = FALSE
  /\ UNCHANGED <<now, saved, outside>>

Step ==
  \/ BeginCycle \/ RunBatch \/ SkipClassifier \/ RefreshHourly \/ BuildClass
  \/ BuildEntry \/ BuildRisk \/ SkipOutbox \/ BeginOutbox
  \/ \E k \in todo : PostAnswered(k) \/ PostFailed(k)
  \/ MirrorPostgres \/ BuildSizing

Next == Step \/ Tick \/ Restart

Spec == Init /\ [][Next]_vars

-----------------------------------------------------------------------------
(* Properties.                                                              *)

Stage == {"idle", "watchlist", "classifier", "classify", "entry", "risk", "outbox",
          "deliver", "sizing"}
Status == {"idle", "ready", "failed"}
Hourly == [candle : Int, rows : SUBSET Symbol]
Class == [status : Status, candle : Int, rows : SUBSET Symbol]
Entry == [status : Status, candle : Int, queue : Seq(Candidate)]

\* Every snapshot has its shape and the queue of confirmed entries its limit.
TypeOK ==
  /\ now \in Nat /\ ts \in Nat /\ nextRun \in Nat /\ pc \in Stage
  /\ hourly \in Hourly /\ class \in Class /\ entry \in Entry
  /\ Len(entry.queue) <= QueueLimit
  /\ risk.status \in Status /\ risk.approved \subseteq Candidate
  /\ sizing.status \in Status /\ sizing.approved \subseteq Candidate
  /\ outbox.retrying \in BOOLEAN /\ outbox.waiting \in BOOLEAN
  /\ delivered \subseteq Candidate /\ todo \subseteq Candidate /\ retry \in BOOLEAN
  /\ store \in BOOLEAN
  /\ offered \subseteq Candidate /\ rows \subseteq Candidate
  /\ restarts \in 0 .. MaxRestarts /\ faults \in 0 .. MaxFaults

\* An approved candidate that was not delivered makes the outbox due, whatever
\* failed or restarted before: the fingerprint and the retry count never lose it.
UnsentIsDue == risk.approved \ delivered # {} => OutboxDue

\* When the entry stage is up to date, what is posted was confirmed at most MaxAge
\* candles before: every new candle makes risk look at every age again.
HandoffIsFresh ==
  [][\A k \in todo :
       k \notin todo' /\ pc' = "deliver" /\ entry.candle = TargetCandle(ts, 1) =>
         ts - CreatedAt(k) <= MaxAge]_vars

\* A command row appears only for a candidate that was offered to Node directly
\* before: the mirror supports the hand-off and never precedes it.
MirrorFollowsOffer == rows \subseteq offered

\* Time passes and the worker thread runs; of posts repeated for ever, one is answered.
Fairness == WF_vars(Tick) /\ WF_vars(Step) /\ SF_vars(\E k \in todo : PostAnswered(k))

FairSpec == Spec /\ Fairness

\* Approved candidates are all delivered in the end, or risk takes its approval
\* back: no failed post, restart or lost snapshot makes the outbox forget one.
ApprovedIsDelivered == risk.approved # {} ~> risk.approved \subseteq delivered
=============================================================================
