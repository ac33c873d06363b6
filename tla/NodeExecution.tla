--------------------------- MODULE NodeExecution ---------------------------
(***************************************************************************)
(* The Node.js execution service (node_execution/src): the hybrid command  *)
(* repository (an in-process Map backed by the PostgreSQL table            *)
(* execution_commands), the slot loops of index.js that claim and process  *)
(* commands, and the entry protocol of executor.js against Bybit.          *)
(*                                                                         *)
(* One process instance is modelled, with crashes and restarts.  JavaScript *)
(* runs the code between two awaits atomically, so a step of a slot is the *)
(* code from one await to the next and slots interleave only at awaits.    *)
(* An await that only writes evidence (recordOrder, recordFills) is folded *)
(* into its neighbour: all it can do to this state is fail, which degrades *)
(* PostgreSQL support.                                                     *)
(***************************************************************************)
EXTENDS Naturals, FiniteSets

CONSTANTS
  Cand,        \* candidate keys
  Slot,        \* execution slots (1, 2, 3 in index.js)
  Symbol,      \* traded symbols (a symbol with its side)
  SymbolOf,    \* the symbol of a candidate
  Direct,      \* candidates Python delivers over HTTP
  Mirrored,    \* candidates Python mirrors into execution_commands
  Repriced,    \* candidates whose stop and target Node's live plan changes
  MaxActive,   \* config.maxActiveTrades
  MaxDeliveries, \* bound: how often Python delivers one candidate
  MaxCrashes,  \* bound: process crashes
  DbFaults,    \* whether PostgreSQL calls may fail
  GatewayErrors, \* whether a gateway may answer createOrder with an HTTP error
  NoCand, NoSlot

ASSUME ConstantsOK ==
  /\ SymbolOf \in [Cand -> Symbol]
  /\ Direct \subseteq Cand /\ Mirrored \subseteq Cand /\ Repriced \subseteq Cand
  /\ MaxActive \in Nat /\ MaxDeliveries \in Nat /\ MaxCrashes \in Nat
  /\ DbFaults \in BOOLEAN /\ GatewayErrors \in BOOLEAN
  /\ NoCand \notin Cand /\ NoSlot \notin Slot

VARIABLES
  life,       \* "starting": coordinator before the gate; "running": slot loops
  recovery,   \* runtime.recoveryRequired
  dbReady,    \* support.databaseReady
  mem, memSlot,   \* the Map direct: command state and slot, "NONE" if absent
  db, dbSlot,     \* the table execution_commands, "NONE" if there is no row
  pc,         \* where each slot loop is awaiting
  cand, view, \* the slot's local clone of its command: key and state
  sized,      \* slots whose payload is the plan Node sized, not Python's
  memSized,   \* commands whose copy in the Map carries that plan
  req,        \* the slot's outstanding createOrder request
  late,       \* candidates with an abandoned request still in the network
  order,      \* the exchange's entry order of a candidate, by orderLinkId
  open,       \* candidates whose fill is still open exposure on the exchange
  stops,      \* the stop and target of a symbol's position: whose, which
  submits,    \* createOrder calls made for a candidate (history)
  misread,    \* candidates whose createOrder a gateway error answered (history)
  forgotten,  \* candidates the Map held when the process died (history)
  deliveries, \* HTTP deliveries made by Python (environment bound)
  crashes     \* crashes so far (environment bound)

store == <<mem, memSlot, memSized, db, dbSlot>>
local == <<pc, cand, view, sized>>
exchange == <<req, late, order, open, stops, submits>>
process == <<life, recovery>>
environment == <<misread, forgotten, deliveries, crashes>>
vars == <<process, dbReady, store, local, exchange, environment>>

-----------------------------------------------------------------------------
(* Command states: COMMAND_STATES of execution_command_storage.py.          *)

ACTIVE == {"RESERVED", "ORDER_PENDING", "PARTIALLY_FILLED", "MANAGING", "CLOSING"}
TERMINAL == {"CLOSED", "FAILED"}
CommandState == {"NONE", "AVAILABLE"} \cup ACTIVE \cup TERMINAL

TRANSITIONS ==
  [st \in CommandState |->
    CASE st = "RESERVED"         -> {"ORDER_PENDING", "FAILED"}
      [] st = "ORDER_PENDING"    -> {"PARTIALLY_FILLED", "MANAGING", "FAILED"}
      [] st = "PARTIALLY_FILLED" -> {"MANAGING", "CLOSING", "FAILED"}
      [] st = "MANAGING"         -> {"CLOSING", "CLOSED", "FAILED"}
      [] st = "CLOSING"          -> {"CLOSED", "FAILED"}
      [] OTHER                   -> {}]

\* The points at which a slot loop can be suspended.
Looking == {"idle", "claim", "take"}
Busy == {"evidence", "recovered", "prepare1", "settings", "prepare2", "intent", "send",
         "wait", "failing", "resolve", "protect", "manage", "finish", "closing"}
PcValue == Looking \cup Busy

OrderState == {"none", "live", "filled", "partial", "dead"}

\* What the repository would answer for a candidate: memory wins over a row.
Status(c) == IF mem[c] # "NONE" THEN mem[c] ELSE db[c]
StatusSlot(c) == IF mem[c] # "NONE" THEN memSlot[c] ELSE dbSlot[c]

MemActive == {c \in Cand : mem[c] \in ACTIVE}
DbActive == {c \in Cand : db[c] \in ACTIVE}
\* activeCommands(): memory first, then the rows memory does not shadow.
RowActive == {c \in DbActive : mem[c] \notin ACTIVE}
ActiveCommands == IF dbReady THEN MemActive \cup RowActive ELSE MemActive
SlotOf(c) == IF c \in MemActive THEN memSlot[c] ELSE dbSlot[c]

\* A plan is whose it is and who made it; a position may have none.
NoStops == <<NoCand, "unset">>
Stops == (Cand \cup {NoCand}) \X {"unset", "sized", "delivered", "moved"}

\* The stop and target that the payload in the slot's hands asks for.
PlanOf(s) ==
  <<cand[s], IF s \in sized \/ cand[s] \notin Repriced THEN "sized" ELSE "delivered">>

\* What Bybit's position and order lists show.
OpenSymbols == {SymbolOf[c] : c \in open}
HasPosition(c) == SymbolOf[c] \in OpenSymbols
OtherLiveOrder(c) ==
  \E d \in Cand \ {c} : SymbolOf[d] = SymbolOf[c] /\ order[d] = "live"

-----------------------------------------------------------------------------
Init ==
  /\ life = "starting" /\ recovery = FALSE /\ dbReady = FALSE
  /\ mem = [c \in Cand |-> "NONE"] /\ memSlot = [c \in Cand |-> NoSlot]
  /\ db = [c \in Cand |-> "NONE"] /\ dbSlot = [c \in Cand |-> NoSlot]
  /\ pc = [s \in Slot |-> "idle"]
  /\ cand = [s \in Slot |-> NoCand] /\ view = [s \in Slot |-> "NONE"]
  /\ sized = {} /\ memSized = {} /\ stops = [y \in Symbol |-> NoStops]
  /\ misread = {} /\ forgotten = {}
  /\ req = [s \in Slot |-> "none"] /\ late = {}
  /\ order = [c \in Cand |-> "none"] /\ open = {}
  /\ submits = [c \in Cand |-> 0]
  /\ deliveries = [c \in Cand |-> 0] /\ crashes = 0

-----------------------------------------------------------------------------
(* PostgreSQL support.  A call fails only when DbFaults; _degrade clears    *)
(* databaseReady, and only the coordinator's ping can set it again.         *)

DbCallOk == dbReady
DbCallFails == dbReady /\ DbFaults
\* An awaited evidence write (recordOrder, recordFills): no command changes.
RecordEvidence == dbReady' \in {dbReady} \cup (IF DbFaults THEN {FALSE} ELSE {})

\* Hand the slot's command back to the loop.
Yield(s) ==
  /\ pc' = [pc EXCEPT ![s] = "idle"]
  /\ cand' = [cand EXCEPT ![s] = NoCand]
  /\ view' = [view EXCEPT ![s] = "NONE"]
  /\ sized' = sized \ {s}

Goto(s, l) == pc' = [pc EXCEPT ![s] = l] /\ UNCHANGED <<cand, view, sized>>

\* Mutant: the in-memory copy is written without its slotId.
ShadowNoSlot(s, c, next) ==
  mem' = [mem EXCEPT ![c] = next] /\ memSlot' = [memSlot EXCEPT ![c] = NoSlot]

\* The in-memory copy of the command takes the new state and the slot.
Shadow(s, c, next) ==
  mem' = [mem EXCEPT ![c] = next] /\ memSlot' = [memSlot EXCEPT ![c] = s]

\* The write part of HybridExecutionRepository.transition for slot s.  A row
\* moves only if key, slot and expected state match; a failed or lost update
\* (which may have been applied) leaves a DB_SHADOW in memory instead.
WriteTransition(s, c, next) ==
  LET matches == /\ db[c] = view[s] /\ dbSlot[c] = s
                 /\ next \in TRANSITIONS[view[s]]
  IN \/ /\ mem[c] # "NONE"
        /\ Shadow(s, c, next) /\ RecordEvidence /\ UNCHANGED <<db, dbSlot>>
     \/ /\ mem[c] = "NONE" /\ DbCallOk /\ matches
        /\ db' = [db EXCEPT ![c] = next]
        /\ RecordEvidence
        /\ UNCHANGED <<mem, memSlot, dbSlot>>
     \/ /\ mem[c] = "NONE" /\ (DbCallFails \/ (DbCallOk /\ ~matches))
        /\ db' \in {db} \cup (IF matches THEN {[db EXCEPT ![c] = next]} ELSE {})
        /\ dbReady' = FALSE
        /\ Shadow(s, c, next) /\ UNCHANGED dbSlot
     \/ /\ mem[c] = "NONE" /\ ~dbReady
        /\ Shadow(s, c, next) /\ UNCHANGED <<db, dbSlot, dbReady>>

\* transition, then continue the same command at l.
TransitionTo(s, next, l) ==
  /\ WriteTransition(s, cand[s], next)
  /\ pc' = [pc EXCEPT ![s] = l]
  /\ view' = [view EXCEPT ![s] = next]
  /\ UNCHANGED cand

\* transition as the last step of processCommand.  Only the payload of a pending
\* command is compared with the exchange, and no last step writes that state.
TransitionLast(s, next) ==
  WriteTransition(s, cand[s], next) /\ Yield(s) /\ UNCHANGED memSized

-----------------------------------------------------------------------------
(* Intake and the outbox mirror.                                            *)

\* POST /internal/execution-candidate.  A key already in the Map is answered
\* without a change (duplicate, or rejected as different facts).
AcceptDirectCandidate(c) ==
  /\ c \in Direct /\ ~recovery
  /\ deliveries[c] < MaxDeliveries
  /\ deliveries' = [deliveries EXCEPT ![c] = @ + 1]
  /\ IF mem[c] = "NONE"
       THEN /\ mem' = [mem EXCEPT ![c] = "AVAILABLE"]
            /\ memSlot' = [memSlot EXCEPT ![c] = NoSlot]
       ELSE UNCHANGED <<mem, memSlot>>
  /\ UNCHANGED <<process, dbReady, memSized, db, dbSlot, local, exchange>>
  /\ UNCHANGED <<misread, forgotten, crashes>>

\* publish_execution_command: INSERT ... ON CONFLICT DO NOTHING.
PublishExecutionCommand(c) ==
  /\ c \in Mirrored /\ db[c] = "NONE"
  /\ db' = [db EXCEPT ![c] = "AVAILABLE"]
  /\ dbSlot' = [dbSlot EXCEPT ![c] = NoSlot]
  /\ UNCHANGED <<process, dbReady, mem, memSlot, memSized, local, exchange, environment>>

-----------------------------------------------------------------------------
(* The coordinator: ping, adopt, first-trade gate.                          *)

\* evaluateFirstTradeGate: a position or an order that no active command explains.
Orphans(active) ==
  \/ \E c \in open : \A a \in active : SymbolOf[a] # SymbolOf[c]
  \/ \E c \in Cand \ active : order[c] = "live"

\* One round of the coordinator loop.  adoptActiveCommands keeps the unique
\* slot of every active row and stamps it with this stable owner; too many active
\* commands are an error before the gate is evaluated.
Coordinate ==
  /\ life = "starting"
  /\ \E up \in {TRUE} \cup (IF DbFaults THEN {FALSE} ELSE {}) :
       LET active == IF up THEN MemActive \cup RowActive ELSE MemActive
           tooMany == Cardinality(active) > MaxActive
       IN /\ dbReady' = up
          /\ life' = IF tooMany \/ Orphans(active) THEN "starting" ELSE "running"
          /\ recovery' = IF tooMany THEN recovery ELSE Orphans(active) /\ ~up
  /\ UNCHANGED <<store, local, exchange, environment>>

\* The process dies: memory and local state are lost, requests are abandoned.
Crash ==
  /\ crashes < MaxCrashes
  /\ crashes' = crashes + 1
  /\ forgotten' = forgotten \cup {c \in Cand : mem[c] # "NONE"}
  /\ life' = "starting" /\ recovery' = FALSE /\ dbReady' = FALSE
  /\ mem' = [c \in Cand |-> "NONE"] /\ memSlot' = [c \in Cand |-> NoSlot]
  /\ pc' = [s \in Slot |-> "idle"]
  /\ cand' = [s \in Slot |-> NoCand] /\ view' = [s \in Slot |-> "NONE"]
  /\ sized' = {} /\ memSized' = {}
  /\ late' \in {late \cup X : X \in SUBSET {cand[s] : s \in {t \in Slot : req[t] = "net"}}}
  /\ req' = [s \in Slot |-> "none"]
  /\ UNCHANGED <<db, dbSlot, order, open, stops, submits, misread, deliveries>>

-----------------------------------------------------------------------------
(* The slot loop.                                                           *)

\* Mutant: processCommand without its CLOSING branch.
EntryPointNoClosing(st) ==
  CASE st = "RESERVED" -> "evidence"
    [] st = "ORDER_PENDING" -> "resolve"
    [] st \in {"PARTIALLY_FILLED", "MANAGING"} -> "manage"
    [] st = "CLOSING" -> "idle"

\* processCommand's dispatch on the state of the clone.
EntryPoint(st) ==
  CASE st = "RESERVED" -> "evidence"
    [] st = "ORDER_PENDING" -> "resolve"
    [] st \in {"PARTIALLY_FILLED", "MANAGING"} -> "manage"
    [] st = "CLOSING" -> "closing"

Pick(s, c, st) ==
  /\ pc' = [pc EXCEPT ![s] = EntryPoint(st)]
  /\ cand' = [cand EXCEPT ![s] = c]
  /\ view' = [view EXCEPT ![s] = st]

\* A clone of a copy in the Map has its payload, and one of a row Python's.
PickMemory(s, c, st) ==
  Pick(s, c, st) /\ sized' = IF c \in memSized THEN sized \cup {s} ELSE sized
PickRow(s, c, st) == Pick(s, c, st) /\ UNCHANGED sized

\* verifyLeadership and ownedActiveCommand.
OwnedActiveCommand(s) ==
  LET mine == {c \in MemActive : memSlot[c] = s}
      rows == {c \in DbActive : dbSlot[c] = s}
  IN /\ life = "running" /\ pc[s] = "idle"
     /\ \/ \E c \in mine : PickMemory(s, c, mem[c]) /\ RecordEvidence
        \/ /\ mine = {} /\ DbCallOk
           /\ \/ \E c \in rows : PickRow(s, c, db[c])
              \/ rows = {} /\ Goto(s, "claim")
           /\ UNCHANGED dbReady
        \/ mine = {} /\ DbCallFails /\ Goto(s, "claim") /\ dbReady' = FALSE
        \/ mine = {} /\ ~dbReady /\ Goto(s, "claim") /\ UNCHANGED dbReady
     /\ UNCHANGED <<process, store, exchange, environment>>

\* claim, up to the await of activeCommands: the answer is used after it.
ScanActive(s) ==
  /\ life = "running" /\ pc[s] = "claim"
  /\ RecordEvidence
  /\ LET seen == IF dbReady' THEN MemActive \cup RowActive ELSE MemActive
         room == /\ Cardinality(seen) < MaxActive
                 /\ \A c \in seen : SlotOf(c) # s
     IN Goto(s, IF room THEN "take" ELSE "idle")
  /\ UNCHANGED <<process, store, exchange, environment>>

\* The rest of claim: an available in-process command first, else the row
\* claimed by the database transaction.
TakeDirect(s) ==
  /\ life = "running" /\ pc[s] = "take"
  /\ \E c \in Cand :
       /\ mem[c] = "AVAILABLE"
       /\ mem' = [mem EXCEPT ![c] = "RESERVED"]
       /\ memSlot' = [memSlot EXCEPT ![c] = s]
       /\ PickMemory(s, c, "RESERVED")
  /\ UNCHANGED <<process, dbReady, memSized, db, dbSlot, exchange, environment>>

TakeRow(s) ==
  LET claimable == IF /\ \A c \in DbActive : dbSlot[c] # s
                      /\ Cardinality(DbActive) < MaxActive
                   THEN {c \in Cand : db[c] = "AVAILABLE"} ELSE {}
      reserve(c) == /\ db' = [db EXCEPT ![c] = "RESERVED"]
                    /\ dbSlot' = [dbSlot EXCEPT ![c] = s]
  IN /\ life = "running" /\ pc[s] = "take"
     /\ \A c \in Cand : mem[c] # "AVAILABLE"
     /\ \/ /\ DbCallOk /\ UNCHANGED dbReady
           /\ \/ \E c \in claimable : reserve(c) /\ PickRow(s, c, "RESERVED")
              \/ claimable = {} /\ Yield(s) /\ UNCHANGED <<db, dbSlot>>
        \/ /\ DbCallFails /\ dbReady' = FALSE /\ Yield(s)
           /\ \/ UNCHANGED <<db, dbSlot>>
              \/ \E c \in claimable : reserve(c)
        \/ ~dbReady /\ Yield(s) /\ UNCHANGED <<dbReady, db, dbSlot>>
     /\ UNCHANGED <<process, mem, memSlot, memSized, exchange, environment>>

-----------------------------------------------------------------------------
(* CommandExecutor.execute for a RESERVED command.                          *)

\* hasExchangeEvidence: any order or execution with this orderLinkId.
HasExchangeEvidence(s) ==
  /\ pc[s] = "evidence"
  /\ Goto(s, IF order[cand[s]] # "none" THEN "recovered" ELSE "prepare1")
  /\ UNCHANGED <<process, dbReady, store, exchange, environment>>

\* The command goes on with the payload it was delivered with.
RecoverEvidence(s) ==
  /\ pc[s] = "recovered"
  /\ TransitionTo(s, "ORDER_PENDING", "resolve")
  /\ memSized' = memSized \ {cand[s]} /\ UNCHANGED sized
  /\ UNCHANGED <<process, exchange, environment>>

\* prepareLiveExecution: liveTruth, then buildLiveExecutionPlan.
PrepareLiveExecution(s) ==
  LET c == cand[s] IN
  /\ pc[s] \in {"prepare1", "prepare2"}
  /\ ~HasPosition(c)
  /\ Cardinality(OpenSymbols) < MaxActive
  /\ ~OtherLiveOrder(c)
  /\ Goto(s, IF pc[s] = "prepare1" THEN "settings" ELSE "intent")
  /\ UNCHANGED <<process, dbReady, store, exchange, environment>>

EnsureAccountSettings(s) ==
  /\ pc[s] = "settings"
  /\ Goto(s, "prepare2")
  /\ UNCHANGED <<process, dbReady, store, exchange, environment>>

\* A retryable ExecutionWaitError: the command stays RESERVED for the next
\* cycle.  Market data, limits and margin can cause one in any state.
ExecutionWait(s) ==
  /\ pc[s] \in {"prepare1", "prepare2"}
  /\ Yield(s) /\ RecordEvidence
  /\ UNCHANGED <<process, store, exchange, environment>>

\* A stale candidate, or any other error before submission: FAILED.
PreSubmissionBlocked(s) ==
  /\ pc[s] \in {"evidence", "prepare1", "settings", "prepare2"}
  /\ TransitionLast(s, "FAILED")
  /\ UNCHANGED <<process, exchange, environment>>

\* Mutant: the order is sent while the command is still RESERVED.
SubmissionIntentUnmarked(s) ==
  /\ pc[s] = "intent" /\ Goto(s, "send") /\ RecordEvidence
  /\ UNCHANGED <<process, store, exchange, environment>>

\* SUBMISSION_INTENT is recorded and the command becomes ORDER_PENDING before
\* the order leaves the process.  The plan sized just before goes on in the slot
\* and in the Map's copy, if there is one; the row keeps the payload Python gave.
SubmissionIntent(s) ==
  /\ pc[s] = "intent"
  /\ TransitionTo(s, "ORDER_PENDING", "send")
  /\ sized' = sized \cup {s}
  /\ memSized' = IF mem'[cand[s]] # "NONE" THEN memSized \cup {cand[s]} ELSE memSized
  /\ UNCHANGED <<process, exchange, environment>>

CreateOrder(s) ==
  /\ pc[s] = "send"
  /\ Goto(s, "wait")
  /\ req' = [req EXCEPT ![s] = "net"]
  /\ submits' = [submits EXCEPT ![cand[s]] = @ + 1]
  /\ UNCHANGED <<process, dbReady, store, late, order, open, stops, environment>>

\* An acknowledgement with an orderId: ORDER_ACKNOWLEDGED, resolvePending.
Acknowledged(s) ==
  /\ pc[s] = "wait" /\ req[s] = "ok"
  /\ Goto(s, "resolve") /\ RecordEvidence
  /\ req' = [req EXCEPT ![s] = "none"]
  /\ UNCHANGED <<process, store, late, order, open, stops, submits, environment>>

\* An error that carries a retCode is taken for a definitive rejection.
OrderRejected(s) ==
  /\ pc[s] = "wait" /\ req[s] = "rejected"
  /\ Goto(s, "failing") /\ RecordEvidence
  /\ req' = [req EXCEPT ![s] = "none"]
  /\ UNCHANGED <<process, store, late, order, open, stops, submits, environment>>

\* apiError copies the HTTP status into retCode when the body has none, so a
\* gateway error is indistinguishable from a rejection.
GatewayError(s) ==
  /\ GatewayErrors
  /\ pc[s] = "wait" /\ req[s] \in {"net", "ok"}
  /\ Goto(s, "failing") /\ RecordEvidence
  /\ late' = IF req[s] = "net" THEN late \cup {cand[s]} ELSE late
  /\ req' = [req EXCEPT ![s] = "none"]
  /\ misread' = misread \cup {cand[s]}
  /\ UNCHANGED <<process, store, order, open, stops, submits, forgotten, deliveries, crashes>>

FailRejected(s) ==
  /\ pc[s] = "failing"
  /\ TransitionLast(s, "FAILED")
  /\ UNCHANGED <<process, exchange, environment>>

\* Mutant: every createOrder error is taken for a rejection.
SubmissionUnknownFails(s) ==
  /\ pc[s] = "wait"
  /\ Goto(s, "failing") /\ RecordEvidence
  /\ late' \in {late} \cup (IF req[s] = "net" THEN {late \cup {cand[s]}} ELSE {})
  /\ req' = [req EXCEPT ![s] = "none"]
  /\ UNCHANGED <<process, store, order, open, stops, submits, environment>>

\* A transport error, or an acknowledgement without an orderId: the command
\* stays ORDER_PENDING; the request is lost or still on its way.
SubmissionUnknown(s) ==
  /\ pc[s] = "wait"
  /\ Yield(s) /\ RecordEvidence
  /\ late' \in {late} \cup (IF req[s] = "net" THEN {late \cup {cand[s]}} ELSE {})
  /\ req' = [req EXCEPT ![s] = "none"]
  /\ UNCHANGED <<process, store, order, open, stops, submits, environment>>

-----------------------------------------------------------------------------
(* resolvePending.                                                          *)

\* Mutants: UNKNOWN is taken for FAILED; PARTIAL is left for a later cycle.
WaitForResolutionGivesUp(s) ==
  LET o == order[cand[s]] IN
  /\ pc[s] = "resolve" /\ RecordEvidence
  /\ Goto(s, IF o \in {"filled", "partial"} THEN "protect" ELSE "failing")
  /\ UNCHANGED <<process, store, exchange, environment>>

WaitForResolutionFullOnly(s) ==
  LET o == order[cand[s]] IN
  /\ pc[s] = "resolve" /\ RecordEvidence
  /\ \/ o \in {"none", "live", "partial"} /\ Yield(s)
     \/ o = "filled" /\ Goto(s, "protect")
     \/ o = "dead" /\ Goto(s, "failing")
  /\ UNCHANGED <<process, store, exchange, environment>>

\* waitForResolution until the fill timeout.
WaitForResolution(s) ==
  LET o == order[cand[s]] IN
  /\ pc[s] = "resolve" /\ RecordEvidence
  /\ \/ o \in {"none", "live"} /\ Yield(s)
     \/ o \in {"filled", "partial"} /\ Goto(s, "protect")
     \/ o = "dead" /\ Goto(s, "failing")
  /\ UNCHANGED <<process, store, exchange, environment>>

\* ensureProtection finds the position without stops and sets those of its
\* payload, or finds just those; the command moves on by the resolution that was
\* read before.  Any other stops are an error in every cycle.
EnsureProtection(s) ==
  LET y == SymbolOf[cand[s]] IN
  /\ pc[s] = "protect" /\ HasPosition(cand[s])
  /\ stops[y] \in {NoStops, PlanOf(s)}
  /\ stops' = [stops EXCEPT ![y] = PlanOf(s)]
  /\ TransitionLast(s, IF order[cand[s]] = "filled" THEN "MANAGING" ELSE "PARTIALLY_FILLED")
  /\ UNCHANGED <<process, req, late, order, open, submits, environment>>

\* What a protection check, or a management cycle, may have done to the stops
\* before it fails or ends.
StopsMoved(s) ==
  LET y == SymbolOf[cand[s]] IN
  stops' \in {stops}
    \cup (IF pc[s] = "protect" /\ HasPosition(cand[s]) /\ stops[y] = NoStops
            THEN {[stops EXCEPT ![y] = PlanOf(s)]} ELSE {})
    \cup (IF pc[s] = "manage" /\ HasPosition(cand[s])
            THEN {[stops EXCEPT ![y] = <<cand[s], "moved">>]} ELSE {})

\* A contract check that fails before execute's try, a failed exchange request or
\* a failed check, such as a position that is no longer there: the error reaches
\* the loop and the command keeps its state.
CycleError(s) ==
  /\ pc[s] \in {"evidence", "resolve", "protect", "manage", "closing"}
  /\ StopsMoved(s) /\ Yield(s)
  /\ UNCHANGED <<process, dbReady, store, req, late, order, open, submits, environment>>

-----------------------------------------------------------------------------
(* TradeManager.cycle as the lifecycle sees it, and CLOSING reconciliation. *)

ManageCycle(s) ==
  /\ pc[s] = "manage" /\ HasPosition(cand[s])
  /\ StopsMoved(s)
  /\ IF view[s] = "PARTIALLY_FILLED"
       THEN TransitionLast(s, "MANAGING")
       ELSE Yield(s) /\ RecordEvidence /\ UNCHANGED store
  /\ UNCHANGED <<process, req, late, order, open, submits, environment>>

\* Mutants: CLOSING is skipped; the position list is not consulted.
PositionMissingShortcut(s) ==
  /\ pc[s] = "manage" /\ ~HasPosition(cand[s])
  /\ TransitionTo(s, "CLOSED", "finish")
  /\ UNCHANGED <<process, sized, memSized, exchange, environment>>

PositionMissingUnchecked(s) ==
  /\ pc[s] = "manage"
  /\ TransitionTo(s, "CLOSING", "finish")
  /\ UNCHANGED <<process, sized, memSized, exchange, environment>>

PositionMissing(s) ==
  /\ pc[s] = "manage" /\ ~HasPosition(cand[s])
  /\ TransitionTo(s, "CLOSING", "finish")
  /\ UNCHANGED <<process, sized, memSized, exchange, environment>>

FinishClosed(s) ==
  /\ pc[s] = "finish"
  /\ TransitionLast(s, "CLOSED")
  /\ UNCHANGED <<process, exchange, environment>>

ReconcileClosing(s) ==
  /\ pc[s] = "closing"
  /\ IF HasPosition(cand[s])
       THEN Yield(s) /\ UNCHANGED <<dbReady, store>>
       ELSE TransitionLast(s, "CLOSED")
  /\ UNCHANGED <<process, exchange, environment>>

-----------------------------------------------------------------------------
(* Bybit, as the code uses it: an orderLinkId is accepted at most once.     *)

ExchangeAnswers(s) ==
  LET c == cand[s] IN
  /\ req[s] = "net"
  /\ \/ /\ order[c] = "none"
        /\ order' = [order EXCEPT ![c] = "live"]
        /\ req' = [req EXCEPT ![s] = "ok"]
     \/ /\ req' = [req EXCEPT ![s] = "rejected"]
        /\ UNCHANGED order
  /\ UNCHANGED <<process, dbReady, store, local, late, open, stops, submits, environment>>

LateArrival(c) ==
  /\ c \in late /\ late' = late \ {c}
  /\ order' \in {order} \cup (IF order[c] = "none" THEN {[order EXCEPT ![c] = "live"]} ELSE {})
  /\ UNCHANGED <<process, dbReady, store, local, req, open, stops, submits, environment>>

\* A market IOC order is cancelled, or fills at least in part: the position has
\* the stop and target the order was sent with, or none of its own.
OrderEnds(c) ==
  LET y == SymbolOf[c] IN
  /\ order[c] = "live"
  /\ \/ /\ order' = [order EXCEPT ![c] = "dead"]
        /\ UNCHANGED <<open, stops>>
     \/ \E o \in {"filled", "partial"} :
          /\ order' = [order EXCEPT ![c] = o]
          /\ open' = open \cup {c}
          /\ stops' \in {stops, [stops EXCEPT ![y] = <<c, "sized">>]}
  /\ UNCHANGED <<process, dbReady, store, local, req, late, submits, environment>>

\* Stop loss, take profit or a manual close ends the position of a symbol.
PositionCloses(y) ==
  /\ y \in OpenSymbols
  /\ open' = {c \in open : SymbolOf[c] # y}
  /\ stops' = [stops EXCEPT ![y] = NoStops]
  /\ UNCHANGED <<process, dbReady, store, local, req, late, order, submits, environment>>

-----------------------------------------------------------------------------
SlotStep(s) ==
  \/ OwnedActiveCommand(s) \/ ScanActive(s) \/ TakeDirect(s) \/ TakeRow(s)
  \/ HasExchangeEvidence(s) \/ RecoverEvidence(s) \/ PrepareLiveExecution(s)
  \/ EnsureAccountSettings(s) \/ ExecutionWait(s) \/ PreSubmissionBlocked(s)
  \/ SubmissionIntent(s) \/ CreateOrder(s) \/ Acknowledged(s) \/ OrderRejected(s)
  \/ GatewayError(s) \/ FailRejected(s) \/ SubmissionUnknown(s)
  \/ WaitForResolution(s) \/ EnsureProtection(s) \/ CycleError(s)
  \/ ManageCycle(s) \/ PositionMissing(s) \/ FinishClosed(s) \/ ReconcileClosing(s)

ExchangeStep ==
  \/ \E s \in Slot : ExchangeAnswers(s)
  \/ \E c \in Cand : LateArrival(c) \/ OrderEnds(c)

Next ==
  \/ \E c \in Cand : AcceptDirectCandidate(c) \/ PublishExecutionCommand(c)
  \/ Coordinate
  \/ Crash
  \/ \E s \in Slot : SlotStep(s)
  \/ ExchangeStep
  \/ \E y \in Symbol : PositionCloses(y)

Spec == Init /\ [][Next]_vars

-----------------------------------------------------------------------------
(* Properties.                                                              *)

\* Every variable stays within the values the code can give it.
TypeOK ==
  /\ life \in {"starting", "running"} /\ recovery \in BOOLEAN /\ dbReady \in BOOLEAN
  /\ mem \in [Cand -> CommandState] /\ memSlot \in [Cand -> Slot \cup {NoSlot}]
  /\ db \in [Cand -> CommandState] /\ dbSlot \in [Cand -> Slot \cup {NoSlot}]
  /\ pc \in [Slot -> PcValue]
  /\ cand \in [Slot -> Cand \cup {NoCand}] /\ view \in [Slot -> CommandState]
  /\ sized \subseteq Slot /\ memSized \subseteq Cand /\ stops \in [Symbol -> Stops]
  /\ misread \subseteq Cand /\ forgotten \subseteq Cand
  /\ req \in [Slot -> {"none", "net", "ok", "rejected"}] /\ late \subseteq Cand
  /\ order \in [Cand -> OrderState] /\ open \subseteq Cand
  /\ submits \in [Cand -> Nat] /\ deliveries \in [Cand -> Nat] /\ crashes \in Nat

\* Python posts a candidate and mirrors it as a row, so Node may get it twice, and
\* claim compares neither copy with the other.  Over one channel it is:
Sole(c) == deliveries[c] = 0 \/ db[c] = "NONE"

\* What the process holds only in its Map does not survive it.  A command that
\* came once and was not lost in this way is:
Kept(c) == Sole(c) /\ c \notin forgotten

\* No two slots ever process the same candidate: the readiness endpoint treats
\* a candidate shown by two slots as a fault (httpServer.js readinessSnapshot).
OneSlotPerCandidate ==
  \A s, t \in Slot : pc[s] \in Busy /\ pc[t] \in Busy /\ cand[s] = cand[t] => s = t

\* A slot carries at most one active command among those the process can see,
\* although claim decides on an activeCommands answer that is stale by the time
\* it reserves, and although a candidate may be there twice.
SlotExclusive == \A c, d \in ActiveCommands : SlotOf(c) = SlotOf(d) => c = d

\* createOrder is called at most once for a command that was kept, whatever is
\* lost: the answer, the database, or the process between intent and
\* acknowledgement.
SubmitOnce == \A c \in Cand : Kept(c) => submits[c] <= 1

\* No order of the candidate can still reach the book and no position of it is open.
Flat(c) == c \notin open /\ c \notin late /\ order[c] \in {"none", "dead"}

\* A command is given up as FAILED only when it is flat.
FailedMeansFlat == \A c \in Cand : Status(c) = "FAILED" => Flat(c)

\* The same while PostgreSQL fails and gateways answer, for every kept command
\* whose createOrder no gateway error answered.
FailureIsDefinite ==
  \A c \in Cand : Status(c) = "FAILED" /\ Kept(c) /\ c \notin misread => Flat(c)

\* While the slot loops run, every open position belongs to an active command
\* that the loop of its slot will pick up again.
ManagedExposure ==
  life = "running" =>
    \A c \in open :
      /\ Status(c) \in ACTIVE
      /\ mem[c] # "NONE" \/ dbReady \/ \E s \in Slot : pc[s] \in Busy /\ cand[s] = c

\* While PostgreSQL fails too, the open position of a kept command that no gateway
\* error answered has an active command and a slot, in the Map or in the table.
ExposureOwned ==
  \A c \in open : Kept(c) /\ c \notin misread =>
    Status(c) \in ACTIVE /\ StatusSlot(c) \in Slot

\* One step of the state the repository answers for c, by the transition table.
LegalChange(c) ==
  \/ Status(c)' = Status(c)
  \/ Status(c) = "NONE" /\ Status(c)' = "AVAILABLE"
  \/ Status(c) = "AVAILABLE" /\ Status(c)' = "RESERVED"
  \/ Status(c)' \in TRANSITIONS[Status(c)]

\* That state follows the transition table in memory too, where transition itself
\* checks nothing, and when a shadow replaces a row; so a closed or failed
\* command is never taken up again by this process.
StatusFollowsTable ==
  [][crashes' # crashes \/ \A c \in Cand : Sole(c)' => LegalChange(c)]_vars

\* The repository and the executor implement the command lifecycle: whatever
\* interleaves or fails, the state the repository answers for a command moves
\* along the transition table, positions open only for pending commands, and
\* no command is finished under an open position.
Lifecycle == INSTANCE CommandLifecycle WITH
  phase <- [c \in Cand |-> Status(c)], exposed <- open

LifecycleSpec == Lifecycle!Spec

\* The lifecycle of one command, for the deployments where others are lost.
LifecycleOf(c) == INSTANCE CommandLifecycle WITH
  Cand <- {c}, phase <- [d \in {c} |-> Status(d)], exposed <- open \cap {c}

\* Whatever fails, a kept command that no gateway error answered lives its
\* lifecycle: through crashes, lost answers and a table replaced by memory.
KeptLifecycle ==
  [][\A c \in Cand : (Kept(c) /\ c \notin misread)' =>
       LifecycleOf(c)!Next \/ UNCHANGED <<Status(c), c \in open>>]_vars

-----------------------------------------------------------------------------
(* Fairness.  The coordinator and the slot loops poll forever, so a slot    *)
(* that can step does.  A read of order truth or of a position is repeated  *)
(* in every cycle and is assumed to succeed eventually if it can succeed    *)
(* again and again.  That is no promise about stops that differ from the    *)
(* payload's plan: EnsureProtection is then disabled, and every cycle ends  *)
(* in CycleError.  Bybit answers requests and ends market orders.           *)

PositionRead(s) == EnsureProtection(s) \/ PositionMissing(s) \/ ReconcileClosing(s)

Fairness ==
  /\ WF_vars(Coordinate)
  /\ \A s \in Slot : /\ WF_vars(SlotStep(s)) /\ SF_vars(WaitForResolution(s))
                     /\ SF_vars(PositionRead(s))
  /\ WF_vars(ExchangeStep)

FairSpec == Spec /\ Fairness

\* A fill comes under management, or the position is gone, even when the
\* acknowledgement was lost or the process crashed before it resolved the order;
\* provided that Node's live plan has the prices of the plan Python delivered,
\* which is the one a row still holds in a later cycle.
FillIsManaged ==
  \A c \in Cand \ Repriced :
    c \in open /\ order[c] \in {"filled", "partial"} ~>
      Status(c) \in {"PARTIALLY_FILLED", "MANAGING", "CLOSING", "CLOSED"} \/ c \notin open

\* A managed trade whose position the exchange closed gives its slot back.
ClosedTradeFreesSlot ==
  \A c \in Cand :
    Status(c) \in {"PARTIALLY_FILLED", "MANAGING"} /\ ~HasPosition(c) ~>
      Status(c) = "CLOSED" \/ HasPosition(c)
=============================================================================
