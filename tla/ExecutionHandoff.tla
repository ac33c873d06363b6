-------------------------- MODULE ExecutionHandoff --------------------------
(***************************************************************************)
(* The Python order path: the setup worker queues confirmed candidates and *)
(* execution_handoff.run_once takes the oldest one to the exchange behind  *)
(* a durable claim and the permanent idempotency ledger.  The idempotency, *)
(* race-fix, review-fix and hot-fix installers and the readiness gate of   *)
(* durable_runtime are in place, as secure_server installs them.           *)
(*                                                                         *)
(* Every durable write is a step of its own, so a process may crash, and a *)
(* second process may run, between any two of them.                        *)
(***************************************************************************)
EXTENDS Naturals, Sequences, FiniteSets, SequencesExt

CONSTANTS
    Proc,        \* server processes
    Candidate,   \* candidate keys: symbol, closed candle and side
    None,        \* no candidate
    QueueLimit,  \* SETUP_WORKER_QUEUE_LIMIT
    Deployments  \* the deployments to consider, see DeploymentSpace

\* Two processes at once, crashes, failing store and status calls with gateway
\* answers in place of the exchange's, an operator who stops the bot, and the
\* candidates each process evaluates, which depends on where its batches start.
DeploymentSpace == [overlap : BOOLEAN, crashes : BOOLEAN, faults : BOOLEAN, stops : BOOLEAN,
                    arising : [Proc -> SUBSET Candidate]]

ASSUME HandoffAssumption ==
    /\ Deployments \subseteq DeploymentSpace
    /\ None \notin Candidate
    /\ QueueLimit \in Nat \ {0}

VARIABLES
    active,      \* runtime_state["execution_handoff_active_claim"]
    ledger,      \* runtime_state["execution_idempotency_v1:..."], per candidate
    journal,     \* claim ids of the durable auto_order entries, a second entry as <<id, 2>>
    pendingDb,   \* runtime_state["pending_entry"]
    serial,      \* claim ids drawn so far
    order,       \* the exchange's order of each candidate
    sent,        \* order-create requests sent for each candidate
    misread,     \* history: whether a gateway's answer hid the created order of each candidate
    proc,        \* the memory of each process
    deployment   \* what may happen in this deployment, fixed at the start

store == <<active, ledger, journal, pendingDb, serial>>
exchange == <<order, sent, misread>>
vars == <<store, exchange, proc, deployment>>

ACTIVE_CLAIM_STATES == {"CLAIMED", "SUBMITTED", "UNRESOLVED", "SUBMISSION_UNKNOWN"}
RESOLVED_CLAIM_STATES == {"RESOLVED_FILLED", "RESOLVED_NO_FILL"}
ClaimState == ACTIVE_CLAIM_STATES \cup RESOLVED_CLAIM_STATES \cup {"COMPLETED"}
LedgerState == ClaimState \cup {"RESERVED", "ACTIVE_CLAIM_CONFLICT", "CLAIM_CREATION_ERROR"}

\* An "open" order may still execute, in part or in full; "partialdone" ended
\* with some quantity executed.
OrderState == {"none", "open", "filled", "partialdone", "cancelled", "rejected"}

\* id 0 is no claim; fill is fillDecision.accepted.
Claim == [id : Nat, key : Candidate \cup {None}, state : ClaimState \cup {"none"}, fill : BOOLEAN]
NoClaim == [id |-> 0, key |-> None, state |-> "none", fill |-> FALSE]
Row == [id : Nat, state : LedgerState \cup {"absent"}, fill : BOOLEAN]
NoRow == [id |-> 0, state |-> "absent", fill |-> FALSE]

(***************************************************************************)
(* Answers.  ret is the class of retCode: "ok" is 0, "transport" is -2 and *)
(* "block" any other code, the rejection of the create request, the local  *)
(* protection and agreement blocks and FINAL_FILL_BLOCK_CODE included.     *)
(***************************************************************************)
Verification == {"filled", "cancelled", "rejected", "partial", "timeout", "verification_error",
                 "create_rejected"}
Unresolved == {"partial", "timeout", "verification_error"}
Response == [ret : {"ok", "block", "transport"}, ver : Verification]
NoResponse == [ret |-> "block", ver |-> "create_rejected"]

Steps == {"down", "boot", "idle", "load", "check", "reserve", "create", "created", "conflict",
          "failed", "enrich", "own", "place", "post", "verify", "mark", "sync", "resolve", "journal",
          "noted", "replay", "replayNoted", "replayed", "remove", "complete", "delete", "except"}

Memory == [pc : Steps, ret : Steps, enabled : BOOLEAN, ready : BOOLEAN, started : BOOLEAN,
           queue : Seq(Candidate), seen : SUBSET Candidate, cand : Candidate \cup {None},
           claim : Claim, bound : Nat, pend : Candidate \cup {None}, mem : SUBSET Nat,
           resp : Response]

Down == [pc |-> "down", ret |-> "idle", enabled |-> FALSE, ready |-> FALSE, started |-> FALSE,
         queue |-> <<>>, seen |-> {}, cand |-> None, claim |-> NoClaim, bound |-> 0, pend |-> None,
         mem |-> {}, resp |-> NoResponse]

TypeOK ==
    /\ active \in Claim
    /\ ledger \in [Candidate -> Row]
    /\ journal \subseteq Nat \X {1, 2}
    /\ pendingDb \in Candidate \cup {None}
    /\ serial \in Nat
    /\ order \in [Candidate -> OrderState] /\ sent \in [Candidate -> Nat]
    /\ misread \in [Candidate -> BOOLEAN]
    /\ proc \in [Proc -> Memory]
    /\ deployment \in Deployments

Init ==
    /\ active = NoClaim
    /\ ledger = [c \in Candidate |-> NoRow]
    /\ journal = {} /\ pendingDb = None /\ serial = 0
    /\ order = [c \in Candidate |-> "none"] /\ sent = [c \in Candidate |-> 0]
    /\ misread = [c \in Candidate |-> FALSE]
    /\ proc = [p \in Proc |-> Down]
    /\ deployment \in Deployments

-----------------------------------------------------------------------------
(* Process memory *)

At(p, s) == proc[p].pc = s
Goto(p, s) == proc' = [proc EXCEPT ![p].pc = s]

\* run_once returns: its local variables are gone.
Returned(m, enabled) ==
    [m EXCEPT !.pc = "idle", !.ret = "idle", !.cand = None, !.claim = NoClaim, !.started = FALSE,
              !.resp = NoResponse, !.enabled = enabled]
Return(p, enabled) == proc' = [proc EXCEPT ![p] = Returned(@, enabled)]

\* What an exception leads to: the transition to SUBMISSION_UNKNOWN once the
\* submission has started, the CLAIM_CREATION_ERROR record inside the original
\* _create_claim, a disabled bot while filled accounting is replayed, and
\* otherwise just the end of the run.
Raise(p) ==
    CASE proc[p].started -> Goto(p, "except")
      [] ~proc[p].started /\ proc[p].pc \in {"create", "created"} -> Goto(p, "failed")
      [] ~proc[p].started /\ (\/ proc[p].pc \in {"replay", "replayNoted", "replayed"}
                              \/ proc[p].pc = "sync" /\ proc[p].ret = "remove") -> Return(p, FALSE)
      [] OTHER -> Return(p, proc[p].enabled)

execution_readiness(p) == proc[p].ready /\ active.state \notin ACTIVE_CLAIM_STATES

\* The journal is a multiset that tells once from more than once.
Journaled == {e[1] : e \in journal}
Entered(id) == journal \cup {<<id, IF id \in Journaled THEN 2 ELSE 1>>}

\* The queue without the rows of a key, in their order.
Without(q, c) ==
    LET kept == {i \in DOMAIN q : q[i] # c}
    IN  [n \in 1..Cardinality(kept) |->
            q[CHOOSE i \in kept : Cardinality({j \in kept : j <= i}) = n]]

-----------------------------------------------------------------------------
(* Start, crash and the operator *)

\* startup_reconciliation.reconcile: the exchange or the store cannot be asked, or
\* the active claim decides between a start and a review by the operator.
Reconcile == {"error", IF active.state \in ACTIVE_CLAIM_STATES THEN "operator_review" ELSE "ready"}

\* Mutant: the pending entry is not read back at the start.
BootForgetsPending(p) ==
    /\ At(p, "down")
    /\ deployment.overlap \/ \A q \in Proc : At(q, "down")
    /\ \E status \in Reconcile :
          proc' = [proc EXCEPT ![p].pc = "boot", ![p].mem = Journaled,
                               ![p].claim = active,
                               ![p].ready = status = "ready"]
    /\ UNCHANGED <<store, exchange, deployment>>

\* durable_runtime.install: the journal, the pending entry and the verdict of
\* the reconciliation.
Boot(p) ==
    /\ At(p, "down")
    /\ deployment.overlap \/ \A q \in Proc : At(q, "down")
    /\ \E status \in Reconcile :
          proc' = [proc EXCEPT ![p].pc = "boot", ![p].mem = Journaled, ![p].pend = pendingDb,
                               ![p].claim = active,
                               ![p].ready = status = "ready"]
    /\ UNCHANGED <<store, exchange, deployment>>

\* The ledger row of a claim after the claim was written.
Synced(c) == [ledger EXCEPT ![c.key] = [id |-> c.id, state |-> c.state, fill |-> c.fill]]

\* _same_owner: the active row still carries this claim in this state.
SameOwner(c) == active.id = c.id /\ active.state = c.state

\* _bootstrap_existing_active_claim: the ledger row of a claim found at start
\* is brought up to date; a claim that changed hands meanwhile ends the start.
Bootstrap(p) ==
    /\ At(p, "boot")
    /\ LET c == proc[p].claim IN
          \/ /\ c = NoClaim
             /\ proc' = [proc EXCEPT ![p].pc = "idle"]
             /\ UNCHANGED ledger
          \/ /\ c # NoClaim /\ SameOwner(c)
             /\ ledger' = Synced(c)
             /\ proc' = [proc EXCEPT ![p].pc = "idle", ![p].claim = NoClaim]
          \/ /\ c # NoClaim /\ ~SameOwner(c)
             /\ proc' = [proc EXCEPT ![p] = Down]
             /\ UNCHANGED ledger
    /\ UNCHANGED <<active, journal, pendingDb, serial, exchange, deployment>>

\* A crash or the end of the instance: everything in memory is lost.
Crash(p) ==
    /\ deployment.crashes /\ ~At(p, "down")
    /\ proc' = [proc EXCEPT ![p] = Down]
    /\ UNCHANGED <<store, exchange, deployment>>

\* gated_start_bot: a process that is not ready also loses persistentStateReady.
StartBot(p) ==
    /\ proc[p].pc \notin {"down", "boot"}
    /\ \E storeOk \in BOOLEAN :
          /\ storeOk \/ deployment.faults
          /\ proc' = IF storeOk /\ execution_readiness(p)
                     THEN [proc EXCEPT ![p].enabled = TRUE]
                     ELSE [proc EXCEPT ![p].enabled = FALSE, ![p].ready = FALSE]
    /\ UNCHANGED <<store, exchange, deployment>>

StopBot(p) ==
    /\ deployment.stops /\ proc[p].enabled
    /\ proc' = [proc EXCEPT ![p].enabled = FALSE]
    /\ UNCHANGED <<store, exchange, deployment>>

\* setup_worker._evaluate_symbol on a closed candle this process has not
\* evaluated yet: no setup, or a candidate that _queue_candidate appends, the
\* oldest ones falling out at the limit.
EvaluateSymbol(p, c) ==
    /\ proc[p].pc \notin {"down", "boot"}
    /\ c \in deployment.arising[p] \ proc[p].seen
    /\ \E confirmed \in BOOLEAN :
          LET q == proc[p].queue
              r == IF confirmed /\ c \notin ToSet(q) THEN Append(q, c) ELSE q
          IN proc' = [proc EXCEPT ![p].seen = @ \cup {c},
                                  ![p].queue = IF Len(r) > QueueLimit THEN Tail(r) ELSE r]
    /\ UNCHANGED <<store, exchange, deployment>>

-----------------------------------------------------------------------------
(* run_once up to the claim *)

\* gated_claim_store: the readiness gate and the health of the store.
ClaimStore(p) ==
    /\ At(p, "idle")
    /\ \/ execution_readiness(p) /\ Goto(p, "load")
       \/ ~execution_readiness(p) /\ proc[p].enabled /\ Return(p, FALSE)
       \/ deployment.faults /\ proc[p].enabled /\ Return(p, FALSE)
    /\ UNCHANGED <<store, exchange, deployment>>

\* Mutant: recovery finishes a filled claim without replaying its accounting.
LoadClaimNoReplay(p) ==
    /\ At(p, "load")
    /\ \/ /\ active.state = "RESOLVED_FILLED"
          /\ proc' = [proc EXCEPT ![p].claim = active, ![p].pc = "remove"]
       \/ /\ active.state \in {"RESOLVED_NO_FILL", "COMPLETED"}
          /\ proc' = [proc EXCEPT ![p].claim = active, ![p].pc = "remove"]
       \/ active.state \in ACTIVE_CLAIM_STATES /\ Return(p, FALSE)
       \/ /\ active = NoClaim
          /\ proc[p].queue = <<>> \/ ~proc[p].enabled
          /\ Return(p, proc[p].enabled)
       \/ /\ active = NoClaim /\ proc[p].queue # <<>> /\ proc[p].enabled
          /\ proc' = [proc EXCEPT ![p].cand = Head(proc[p].queue), ![p].pc = "check"]
    /\ UNCHANGED <<store, exchange, deployment>>

\* _load_active_claim, _recover_or_block_existing_claim and the queue's head.
LoadClaim(p) ==
    /\ At(p, "load")
    /\ \/ /\ active.state = "RESOLVED_FILLED"
          /\ proc' = [proc EXCEPT ![p].claim = active, ![p].pc = "replay"]
       \/ /\ active.state \in {"RESOLVED_NO_FILL", "COMPLETED"}
          /\ proc' = [proc EXCEPT ![p].claim = active, ![p].pc = "remove"]
       \/ active.state \in ACTIVE_CLAIM_STATES /\ Return(p, FALSE)
       \/ /\ active = NoClaim
          /\ proc[p].queue = <<>> \/ ~proc[p].enabled
          /\ Return(p, proc[p].enabled)
       \/ /\ active = NoClaim /\ proc[p].queue # <<>> /\ proc[p].enabled
          /\ proc' = [proc EXCEPT ![p].cand = Head(proc[p].queue), ![p].pc = "check"]
    /\ UNCHANGED <<store, exchange, deployment>>

\* _remove_pre_execution_candidate: too old or malformed, or, behind the
\* guards, without a price plan or a size.
RemoveCandidate(p) ==
    /\ proc[p].pc \in {"check", "reserve"}
    /\ proc' = [proc EXCEPT ![p].queue = Without(@, proc[p].cand), ![p].pc = "idle", ![p].cand = None]
    /\ UNCHANGED <<store, exchange, deployment>>

\* The daily risk report or the position guard refuses this cycle.
GuardBlocks(p) ==
    /\ At(p, "check")
    /\ Return(p, proc[p].enabled)
    /\ UNCHANGED <<store, exchange, deployment>>

\* _pending_fill_guard: an acknowledged entry that is still unresolved keeps
\* new entries out.  A fill clears it once its position shows, and the cycle is
\* blocked all the same; an end without a fill clears it and lets this one by.
PendingFillGuard(p) ==
    /\ At(p, "check")
    /\ LET e == proc[p].pend IN
          \/ e = None /\ Goto(p, "reserve") /\ UNCHANGED pendingDb
          \/ /\ e # None /\ order[e] \in {"cancelled", "rejected"}
             /\ proc' = [proc EXCEPT ![p].pend = None, ![p].pc = "reserve"]
             /\ pendingDb' = None
          \/ /\ e # None /\ order[e] = "filled"
             /\ proc' = [proc EXCEPT ![p].pend = None, ![p].pc = "idle", ![p].cand = None]
             /\ pendingDb' = None
    /\ UNCHANGED <<active, ledger, journal, serial, exchange, deployment>>

\* Mutant: the reservation overwrites an existing ledger row.
ReserveOverwrites(p) ==
    /\ At(p, "reserve")
    /\ ledger' = [ledger EXCEPT ![proc[p].cand] = [NoRow EXCEPT !.state = "RESERVED"]]
    /\ Goto(p, "create")
    /\ UNCHANGED <<active, journal, pendingDb, serial, exchange, deployment>>

\* create_claim: once price plan and size stand, reserve the candidate's ledger
\* row before anything else.
Reserve(p) ==
    /\ At(p, "reserve")
    /\ LET c == proc[p].cand IN
          \/ /\ ledger[c] = NoRow
             /\ ledger' = [ledger EXCEPT ![c] = [NoRow EXCEPT !.state = "RESERVED"]]
             /\ Goto(p, "create")
          \/ /\ ledger[c] # NoRow
             /\ Return(p, FALSE)
             /\ UNCHANGED ledger
    /\ UNCHANGED <<active, journal, pendingDb, serial, exchange, deployment>>

\* The original _create_claim: put_if_absent of the only active row.
CreateClaim(p) ==
    /\ At(p, "create")
    /\ LET c == [id |-> serial + 1, key |-> proc[p].cand, state |-> "CLAIMED", fill |-> FALSE] IN
          \/ /\ active = NoClaim
             /\ active' = c /\ serial' = serial + 1
             /\ proc' = [proc EXCEPT ![p].claim = c, ![p].pc = "created"]
          \/ /\ active # NoClaim
             /\ Goto(p, "conflict")
             /\ UNCHANGED <<active, serial>>
    /\ UNCHANGED <<ledger, journal, pendingDb, exchange, deployment>>

\* The row is read back; another claim there is an error.
ReloadClaim(p) ==
    /\ At(p, "created")
    /\ IF SameOwner(proc[p].claim) THEN Goto(p, "enrich") ELSE Raise(p)
    /\ UNCHANGED <<store, exchange, deployment>>

\* The reservation is kept as ACTIVE_CLAIM_CONFLICT and the bot disabled.
ClaimConflict(p) ==
    /\ At(p, "conflict")
    /\ ledger' = [ledger EXCEPT ![proc[p].cand].state = "ACTIVE_CLAIM_CONFLICT"]
    /\ Return(p, FALSE)
    /\ UNCHANGED <<active, journal, pendingDb, serial, exchange, deployment>>

\* The reservation is kept as CLAIM_CREATION_ERROR and the exception goes on.
ClaimCreationError(p) ==
    /\ At(p, "failed")
    /\ ledger' = [ledger EXCEPT ![proc[p].cand].state = "CLAIM_CREATION_ERROR"]
    /\ Return(p, proc[p].enabled)
    /\ UNCHANGED <<active, journal, pendingDb, serial, exchange, deployment>>

\* The identity of the order is written into the claim, unconditionally.
EnrichClaim(p) ==
    /\ At(p, "enrich")
    /\ active' = proc[p].claim
    /\ Goto(p, "own")
    /\ UNCHANGED <<ledger, journal, pendingDb, serial, exchange, deployment>>

\* The ledger row is CLAIMED by this claim, the thread bound to it.
OwnLedger(p) ==
    /\ At(p, "own")
    /\ ledger' = Synced(proc[p].claim)
    /\ proc' = [proc EXCEPT ![p].bound = proc[p].claim.id, ![p].started = TRUE, ![p].pc = "place"]
    /\ UNCHANGED <<active, journal, pendingDb, serial, exchange, deployment>>

-----------------------------------------------------------------------------
(* place_demo_order *)

\* Every block of place_mandatory_protected_order before the order is built;
\* after the cut-over guarded_place_demo_order answers so every time.
BlockedLocally(p) ==
    /\ At(p, "place")
    /\ proc' = [proc EXCEPT ![p].resp = NoResponse, ![p].pc = "mark"]
    /\ UNCHANGED <<store, exchange, deployment>>

\* The claim still owns the active row and its ledger row, both CLAIMED.
OwnsSubmission(p) ==
    LET c == proc[p].claim IN
    /\ proc[p].bound = c.id
    /\ active.id = c.id /\ active.key = c.key /\ active.state = "CLAIMED"
    /\ ledger[c.key].id = c.id /\ ledger[c.key].state = "CLAIMED"

\* generate_order_link_id: ownership is verified and the binding used up.
GenerateOrderLinkId(p) ==
    /\ At(p, "place")
    /\ proc' = [proc EXCEPT ![p].bound = 0,
                            ![p].pc = IF OwnsSubmission(p) THEN "post" ELSE "except"]
    /\ UNCHANGED <<store, exchange, deployment>>

\* POST /v5/order/create.  The answer of an order that was created may be lost,
\* which counts as a transport failure, or be a gateway's: an HTTP error without
\* a JSON body has its status as retCode, and that reads as a rejection.
CreateOrder(p) ==
    /\ At(p, "post")
    /\ LET c == proc[p].claim.key
           Answer(ret) == proc' = [proc EXCEPT
                              ![p].resp = [ret |-> ret, ver |-> "create_rejected"],
                              ![p].pc = "mark"] IN
          /\ sent' = [sent EXCEPT ![c] = @ + 1]
          /\ \/ /\ order[c] = "none"
                /\ order' = [order EXCEPT ![c] = "open"]
                /\ Goto(p, "verify") \/ Answer("transport")
                /\ UNCHANGED misread
             \/ /\ order[c] = "none" /\ deployment.faults
                /\ order' = [order EXCEPT ![c] = "open"]
                /\ Answer("block")
                /\ misread' = [misread EXCEPT ![c] = TRUE]
             \/ /\ order' = [order EXCEPT ![c] = IF @ = "none" THEN "rejected" ELSE @]
                /\ \E ret \in {"block", "transport"} : Answer(ret)
                /\ UNCHANGED misread
    /\ UNCHANGED <<store, deployment>>

\* _classified: what the polled order status says.
Classified(s) ==
    CASE s = "filled" -> "filled"
      [] s = "partialdone" -> "partial"
      [] s \in {"cancelled", "rejected"} -> s
      [] OTHER -> "timeout"

\* Mutant: the unresolved entry is kept in memory only.
FinalizeEntryOrderInMemory(p) ==
    /\ At(p, "verify")
    /\ LET c == proc[p].claim.key IN
       \E v \in {Classified(order[c])} \cup (IF deployment.faults THEN {"verification_error"} ELSE {}) :
          /\ proc' = [proc EXCEPT ![p].resp = [ret |-> IF v = "filled" THEN "ok" ELSE "block", ver |-> v],
                                  ![p].pend = CASE v \in Unresolved -> c
                                                [] v = "filled" /\ @ = c -> None
                                                [] OTHER -> @,
                                  ![p].pc = "mark"]
    /\ UNCHANGED <<active, ledger, journal, pendingDb, serial, exchange, deployment>>

\* finalize_entry_order: retCode 0 only for a full fill; an unresolved
\* acknowledged order becomes the pending entry, in memory and in the store.
FinalizeEntryOrder(p) ==
    /\ At(p, "verify")
    /\ LET c == proc[p].claim.key IN
       \E v \in {Classified(order[c])} \cup (IF deployment.faults THEN {"verification_error"} ELSE {}) :
          /\ proc' = [proc EXCEPT ![p].resp = [ret |-> IF v = "filled" THEN "ok" ELSE "block", ver |-> v],
                                  ![p].pend = CASE v \in Unresolved -> c
                                                [] v = "filled" /\ @ = c -> None
                                                [] OTHER -> @,
                                  ![p].pc = "mark"]
          /\ pendingDb' = CASE v \in Unresolved -> c
                            [] v = "filled" /\ proc[p].pend \in {c, None} -> None
                            [] OTHER -> pendingDb
    /\ UNCHANGED <<active, ledger, journal, serial, exchange, deployment>>

\* _mandatory_fill_decision with the transport rule of the hot-fix.
FillDecision(r) ==
    CASE r.ret = "transport" -> "UNRESOLVED"
      [] r.ret = "block" -> "RESOLVED_NO_FILL"
      [] r.ret = "ok" /\ r.ver = "filled" -> "RESOLVED_FILLED"
      [] r.ret = "ok" /\ r.ver \in {"cancelled", "rejected"} -> "RESOLVED_NO_FILL"
      [] OTHER -> "UNRESOLVED"

-----------------------------------------------------------------------------
(* The claim's transitions *)

\* _transition_claim: the active row first, the ledger row in the next step.
PutClaim(p, c, then) ==
    /\ active' = c
    /\ proc' = [proc EXCEPT ![p].claim = c, ![p].pc = "sync", ![p].ret = then]
    /\ UNCHANGED <<ledger, journal, pendingDb, serial, exchange, deployment>>

\* ensure_claim_metadata and _sync_ledger; the binding ends with the state.
SyncLedger(p) ==
    /\ At(p, "sync")
    /\ LET c == proc[p].claim IN
          IF SameOwner(c)
          THEN /\ ledger' = Synced(c)
               /\ IF proc[p].ret = "idle" THEN Return(p, FALSE)
                  ELSE proc' = [proc EXCEPT ![p].bound = 0, ![p].pc = proc[p].ret]
          ELSE /\ Raise(p)
               /\ UNCHANGED ledger
    /\ UNCHANGED <<active, journal, pendingDb, serial, exchange, deployment>>

MarkSubmitted(p) ==
    /\ At(p, "mark")
    /\ PutClaim(p, [proc[p].claim EXCEPT !.state = "SUBMITTED"], "resolve")

\* Mutant: the raw fill state is written instead of the resolution state.
ResolveRaw(p) ==
    /\ At(p, "resolve")
    /\ PutClaim(p, [proc[p].claim EXCEPT !.state = proc[p].resp.ver], "journal")

Resolve(p) ==
    /\ At(p, "resolve")
    /\ LET s == FillDecision(proc[p].resp) IN
          PutClaim(p, [proc[p].claim EXCEPT !.state = s, !.fill = s = "RESOLVED_FILLED"], "journal")

\* durable_add: the durable entry first, the memory of the process after it.
JournalOrder(p) ==
    /\ At(p, "journal")
    /\ journal' = Entered(proc[p].claim.id)
    /\ Goto(p, "noted")
    /\ UNCHANGED <<active, ledger, pendingDb, serial, exchange, deployment>>

\* The journal in memory, then BOT_STATE: a result that needs review disables
\* the bot and ends the run with the claim still active.
BookResult(p) ==
    /\ At(p, "noted")
    /\ LET noted == [proc EXCEPT ![p].mem = @ \cup {proc[p].claim.id}] IN
          proc' = IF proc[p].claim.state \in RESOLVED_CLAIM_STATES
                  THEN [noted EXCEPT ![p].pc = "remove"]
                  ELSE [noted EXCEPT ![p] = Returned(@, FALSE)]
    /\ UNCHANGED <<store, exchange, deployment>>

\* Mutant: the recovery does not look for the claim's entry.
ReplayAccountingAlways(p) ==
    /\ At(p, "replay")
    /\ Goto(p, "replayNoted") /\ journal' = Entered(proc[p].claim.id)
    /\ UNCHANGED <<active, ledger, pendingDb, serial, exchange, deployment>>

\* _replay_filled_accounting: one journal entry for the claim, unless the
\* entries this process knows already hold it.
ReplayAccounting(p) ==
    /\ At(p, "replay")
    /\ IF proc[p].claim.id \in proc[p].mem
       THEN Goto(p, "replayed") /\ UNCHANGED journal
       ELSE Goto(p, "replayNoted") /\ journal' = Entered(proc[p].claim.id)
    /\ UNCHANGED <<active, ledger, pendingDb, serial, exchange, deployment>>

NoteReplay(p) ==
    /\ At(p, "replayNoted")
    /\ proc' = [proc EXCEPT ![p].mem = @ \cup {proc[p].claim.id}, ![p].pc = "replayed"]
    /\ UNCHANGED <<store, exchange, deployment>>

AccountingRestored(p) ==
    /\ At(p, "replayed")
    /\ PutClaim(p, proc[p].claim, "remove")

\* _complete_resolved_claim: remove_exact_candidate succeeds for an absent key.
RemoveExactCandidate(p) ==
    /\ At(p, "remove")
    /\ proc' = [proc EXCEPT ![p].queue = Without(@, proc[p].claim.key), ![p].pc = "complete"]
    /\ UNCHANGED <<store, exchange, deployment>>

Complete(p) ==
    /\ At(p, "complete")
    /\ PutClaim(p, [proc[p].claim EXCEPT !.state = "COMPLETED"], "delete")

\* _archive_and_clear_claim; nothing reads the archived copy of the claim.
ClearClaim(p) ==
    /\ At(p, "delete")
    /\ active' = NoClaim
    /\ Return(p, proc[p].enabled)
    /\ UNCHANGED <<ledger, journal, pendingDb, serial, exchange, deployment>>

\* The handler of run_once: SUBMISSION_UNKNOWN if the store still takes it.
SubmissionUnknown(p) ==
    /\ At(p, "except")
    /\ \/ /\ active' = [proc[p].claim EXCEPT !.state = "SUBMISSION_UNKNOWN"]
          /\ proc' = [proc EXCEPT ![p].claim = active', ![p].pc = "sync", ![p].ret = "idle",
                                  ![p].started = FALSE, ![p].enabled = FALSE, ![p].bound = 0]
       \/ /\ deployment.faults
          /\ Return(p, FALSE)
          /\ UNCHANGED active
    /\ UNCHANGED <<ledger, journal, pendingDb, serial, exchange, deployment>>

\* A store or exchange call of the step raises before it has an effect.
StoreFault(p) ==
    /\ deployment.faults
    /\ proc[p].pc \in {"load", "reserve", "create", "created", "conflict", "failed", "enrich", "own",
                       "verify", "mark", "sync", "resolve", "journal", "noted", "replay",
                       "replayNoted", "replayed", "complete", "delete"}
    /\ Raise(p)
    /\ UNCHANGED <<store, exchange, deployment>>

-----------------------------------------------------------------------------
(* The exchange *)

\* A live order executes, in part or in full, or ends.
OrderMoves(c) ==
    /\ order[c] = "open"
    /\ \E s \in {"filled", "partialdone", "cancelled"} : order' = [order EXCEPT ![c] = s]
    /\ UNCHANGED <<store, sent, misread, proc, deployment>>

-----------------------------------------------------------------------------

RunOnce(p) ==
    \/ ClaimStore(p) \/ LoadClaim(p) \/ RemoveCandidate(p) \/ GuardBlocks(p) \/ PendingFillGuard(p)
    \/ Reserve(p) \/ CreateClaim(p) \/ ReloadClaim(p) \/ ClaimConflict(p)
    \/ ClaimCreationError(p) \/ EnrichClaim(p) \/ OwnLedger(p) \/ BlockedLocally(p)
    \/ GenerateOrderLinkId(p) \/ CreateOrder(p) \/ FinalizeEntryOrder(p) \/ MarkSubmitted(p)
    \/ SyncLedger(p) \/ Resolve(p) \/ JournalOrder(p) \/ BookResult(p)
    \/ ReplayAccounting(p) \/ NoteReplay(p) \/ AccountingRestored(p) \/ RemoveExactCandidate(p)
    \/ Complete(p) \/ ClearClaim(p) \/ SubmissionUnknown(p) \/ StoreFault(p)

Next ==
    \/ \E p \in Proc : \/ Boot(p) \/ Bootstrap(p) \/ Crash(p) \/ StartBot(p) \/ StopBot(p)
                       \/ RunOnce(p)
                       \/ \E c \in Candidate : EvaluateSymbol(p, c)
    \/ \E c \in Candidate : OrderMoves(c)

Spec == Init /\ [][Next]_vars

-----------------------------------------------------------------------------
(* Properties *)

\* One order request per candidate for ever: not after a crash, a restart that
\* evaluates the same candle again, a store fault, nor from a second process.
SubmittedOnce == \A c \in Candidate : sent[c] <= 1

\* An order that may still execute is held by something durable, its claim or
\* the pending entry, whatever crashed or failed; with one process at a time,
\* and unless a gateway's answer to its own request was read as a rejection.
LiveOrderHeld ==
    ~deployment.overlap =>
        \A c \in Candidate : order[c] = "open" => misread[c] \/ active.key = c \/ pendingDb = c

\* run_once sends no second entry while an earlier order may still execute,
\* except over one whose gateway answer was read as a rejection.
NoEntryOverLive ==
    [][~deployment.overlap =>
          \A c \in Candidate : sent'[c] # sent[c] =>
              \A d \in Candidate \ {c} : order[d] = "open" => misread[d]]_vars

\* A claim finished as filled has its auto_order journal entry, which the
\* daily trade count and the cooldown are computed from.
FilledJournaled ==
    \A c \in Candidate :
        ledger[c].state = "COMPLETED" /\ ledger[c].fill => ledger[c].id \in Journaled

\* Crashes alone never make the recovery journal a claim twice.
JournaledOnce ==
    ~deployment.overlap /\ ~deployment.faults =>
        \A e \in journal : e[2] = 1
=============================================================================
