------------------------- MODULE PositionManagement -------------------------
(***************************************************************************)
(* The Python bot and the open positions: bot ticks, staged exits of the   *)
(* R policy (issue1_risk_exit_policy over engines/position_management),    *)
(* guarded entries of the tick and of the manual test order, and the       *)
(* verified kill switch.  Each runs in a thread of its own; every call of  *)
(* Bybit and every durable write is a step.                                *)
(***************************************************************************)
EXTENDS Naturals, Sequences, FiniteSets, FiniteSetsExt

CONSTANTS
    Symbol,
    EntrySize,     \* quantity of an entry
    MaxOpen,       \* maxOpenPositions
    MaxOrders,     \* orders considered
    MaxPositions,  \* positions considered
    Deployments    \* the deployments to consider, see DeploymentSpace

\* The routes in use besides the bot loop ("tick"), the cut-over of automatic
\* entries to Node, crashes, lost, late or failing calls, and positions held
\* while the journal, the last 1000 entries of all kinds, fills with others.
Thread == {"tick", "manage", "manual", "kill"}
DeploymentSpace == [threads : SUBSET Thread, cutover : BOOLEAN, crashes : BOOLEAN, faults : BOOLEAN,
                    forgets : BOOLEAN]

ASSUME PositionAssumption ==
    /\ Symbol # {}
    /\ Deployments \subseteq DeploymentSpace
    /\ {EntrySize, MaxOpen} \subseteq Nat \ {0}
    /\ {MaxOrders, MaxPositions} \subseteq Nat

VARIABLES
    pos,          \* Bybit's position of each symbol
    opened,       \* positions opened so far; the number is the position's openTime
    orders,       \* every order sent, in order
    plan,         \* runtime_state["position_r_plan_v1:..."]: original sizes by position
    journal,      \* stages the bot's journal shows as verified, <<stage, position>>
    unread,       \* such stages in the table that a failed call kept out of the bot's journal
    forgotten,    \* history: positions of which a verified stage fell out of the journal
    pendEntry,    \* the unresolved entry order, durable; 0 is none
    pendPartial,  \* _PENDING_PARTIAL, in memory only
    seen,         \* signal_executed holds the key of the current candle's signal
    enabled,      \* BOT_STATE["enabled"]
    loop,         \* the bot_loop thread has not died of an exception
    thread,       \* what each thread is doing
    killed,       \* the kill switch succeeded with no entry under way, and nobody traded since
    deployment    \* what may happen in this deployment, fixed at the start

exchange == <<pos, opened, orders>>
durable == <<plan, journal, unread, forgotten, pendEntry, seen>>
memory == <<pendPartial, enabled, loop>>
vars == <<exchange, durable, memory, thread, killed, deployment>>

Positions == 1..MaxPositions
NoPosition == [id |-> 0, size |-> 0, stop |-> "none", trail |-> FALSE]
Position == [id : {0} \cup Positions, size : Nat, stop : {"none", "initial", "breakeven"}, trail : BOOLEAN]

\* kind tells the stage of a reduce-only order; "for" is the position its sender
\* saw, "on" the one it executed on.  A "partial" order ended partly executed.
Stages == {"tp1", "tp2"}
Order == [kind : Stages \cup {"entry", "kill"}, sym : Symbol, for : {0} \cup Positions, on : {0} \cup Positions,
          qty : Nat, exec : Nat, state : {"live", "filled", "partial", "cancelled"}, recorded : BOOLEAN]

NoPartial == [order |-> 0, size |-> 0]
\* A row of the position list: r is what the mark price says of the R multiple (1
\* for 1.5R, 2 for 2R), atRisk that the stop is on the risk side of the entry.
View == [id : {0} \cup Positions, size : Nat, r : 0..2, atRisk : BOOLEAN]
NoView == [id |-> 0, size |-> 0, r |-> 0, atRisk |-> FALSE]

Steps == {"idle", "gate", "fetch", "next", "send", "verify", "poll", "record", "breakeven", "trail",
          "recordTrail", "signal", "guard", "current", "place", "finalize", "book", "find", "cancel",
          "close", "flat"}

\* todo: symbols of the pass left; ok: the result so far; current: no start,
\* stop or kill since the tick began.
Local == [pc : Steps, todo : SUBSET Symbol, sym : Symbol, view : [Symbol -> View], stage : Stages,
          order : 0..MaxOrders, ok : BOOLEAN, current : BOOLEAN]
Idle == [pc |-> "idle", todo |-> {}, sym |-> CHOOSE s \in Symbol : TRUE,
         view |-> [s \in Symbol |-> NoView], stage |-> "tp1", order |-> 0, ok |-> TRUE, current |-> TRUE]

TypeOK ==
    /\ pos \in [Symbol -> Position] /\ opened \in {0} \cup Positions
    /\ Len(orders) <= MaxOrders /\ \A k \in DOMAIN orders : orders[k] \in Order /\ orders[k].exec <= orders[k].qty
    /\ plan \in [Positions -> Nat] /\ forgotten \subseteq Positions
    /\ journal \cup unread \subseteq (Stages \cup {"trail"}) \X Positions
    /\ pendEntry \in 0..Len(orders)
    /\ pendPartial \in [order : 0..Len(orders), size : Nat]
    /\ {seen, enabled, loop, killed} \subseteq BOOLEAN
    /\ thread \in [Thread -> Local]
    /\ deployment \in Deployments

Init ==
    /\ pos = [s \in Symbol |-> NoPosition] /\ opened = 0 /\ orders = <<>>
    /\ plan = [i \in Positions |-> 0] /\ journal = {} /\ unread = {} /\ forgotten = {} /\ pendEntry = 0 /\ seen = FALSE
    /\ pendPartial = NoPartial /\ enabled = FALSE /\ loop = TRUE
    /\ thread = [t \in Thread |-> Idle]
    /\ killed = FALSE
    /\ deployment \in Deployments

-----------------------------------------------------------------------------
(* Threads *)

At(t, s) == thread[t].pc = s
Goto(t, s) == thread' = [thread EXCEPT ![t].pc = s]
Begin(t, s) == At(t, "idle") /\ t \in deployment.threads /\ thread' = [thread EXCEPT ![t].pc = s]
End(t) == thread' = [thread EXCEPT ![t] = Idle]

\* A management pass is over: the tick goes on, the route answers.
PassEnds(t) ==
    IF t = "tick" THEN thread' = [thread EXCEPT ![t] = [Idle EXCEPT !.pc = "signal", !.current = thread[t].current]]
    ELSE End(t)

\* An exception leaves the pass; in the bot loop it ends the thread.
Raise(t) == End(t) /\ loop' = (loop /\ t # "tick")

OpenSymbols == {s \in Symbol : pos[s].size > 0}

\* verify_final_fill as its callers use it: a full fill, an end without
\* execution, or unresolved.  A status request may fail.
VerifyFinalFill(k) ==
    LET o == orders[k]
        answer == CASE o.state = "filled" -> "filled"
                    [] o.state = "cancelled" -> "ended"
                    [] OTHER -> "unresolved"
    IN  {answer} \cup (IF deployment.faults THEN {"unresolved"} ELSE {})

\* The position list may be late: it then still shows the size before.
SizesSeen(s, before) == {pos[s].size} \cup (IF deployment.faults THEN {before} ELSE {})

-----------------------------------------------------------------------------
(* A management pass *)

\* guarded_bot_tick takes _EXECUTION_LOCK, a second tick is skipped.
TickBegins == enabled /\ loop /\ Begin("tick", "gate") /\ UNCHANGED <<exchange, durable, memory, killed, deployment>>

\* POST /api/bot/manage-positions runs a pass without that lock.
ManageRequested == Begin("manage", "gate") /\ UNCHANGED <<exchange, durable, memory, killed, deployment>>

\* entry_gate: what it answers about the pending partial close, and what it
\* leaves pending.  Synchronised now, it still blocks this time; a position list
\* that cannot be read counts as synchronised.
GateAnswers ==
    IF pendPartial = NoPartial THEN {[ok |-> TRUE, left |-> NoPartial]}
    ELSE LET o == orders[pendPartial.order]
         IN  UNION {CASE f = "filled" ->
                            {[ok |-> FALSE, left |-> IF size + o.exec <= pendPartial.size
                                                     THEN NoPartial ELSE pendPartial] :
                               size \in SizesSeen(o.sym, pendPartial.size) \cup (IF deployment.faults THEN {0} ELSE {})}
                      [] f = "ended" -> {[ok |-> TRUE, left |-> NoPartial]}
                      [] OTHER -> {[ok |-> FALSE, left |-> pendPartial]} :
                    f \in VerifyFinalFill(pendPartial.order)}

\* _verified_manage_open_positions: an unresolved partial close stops the pass.
ManageGate(t) ==
    /\ At(t, "gate")
    /\ \E a \in GateAnswers :
          /\ pendPartial' = a.left
          /\ IF a.ok THEN Goto(t, "fetch") ELSE PassEnds(t)
    /\ UNCHANGED <<exchange, durable, enabled, loop, killed, deployment>>

\* get_open_positions: one snapshot for the whole pass, at any mark price.
FetchPositions(t) ==
    /\ At(t, "fetch")
    /\ \/ \E r \in [OpenSymbols -> 0..2] :
             thread' = [thread EXCEPT
                 ![t].pc = "next", ![t].todo = OpenSymbols,
                 ![t].view = [s \in Symbol |-> IF s \in OpenSymbols
                                               THEN [id |-> pos[s].id, size |-> pos[s].size, r |-> r[s],
                                                     atRisk |-> pos[s].stop = "initial"]
                                               ELSE NoView]]
       \/ deployment.faults /\ PassEnds(t)
    /\ UNCHANGED <<exchange, durable, memory, killed, deployment>>

\* _load_or_create_plan: the first pass that sees the position fixes its size.
PlanFor(v) == IF plan[v.id] # 0 THEN plan ELSE [plan EXCEPT ![v.id] = v.size]

\* _event_done: the bot's journal holds the verified stage.
Done(stage, v) == <<stage, v.id>> \in journal

\* Mutant: TP2 closes half of the original size.
ClosePctOfOriginal(stage) == IF stage = "tp1" THEN 40 ELSE 84
ClosePct(stage) == IF stage = "tp1" THEN 40 ELSE 50

\* manage_positions decides on one position of the snapshot: TP1 at 1.5R, TP2
\* at 2R once TP1 is done, the trailing stop once TP2 is.  A position whose
\* stop was moved before its plan existed, or a store that fails, is passed over.
Decide(t) ==
    /\ At(t, "next")
    /\ \E s \in thread[t].todo :
          LET v == thread[t].view[s]
              at(pc, stage) == thread' = [thread EXCEPT ![t].pc = pc, ![t].sym = s, ![t].stage = stage]
              skip == thread' = [thread EXCEPT ![t].todo = @ \ {s}, ![t].view[s] = NoView]
          IN  \/ /\ plan[v.id] # 0 \/ v.atRisk
                 /\ plan' = PlanFor(v)
                 /\ CASE v.r >= 1 /\ ~Done("tp1", v) -> at("send", "tp1")
                      [] v.r = 2 /\ Done("tp1", v) /\ ~Done("tp2", v) -> at("send", "tp2")
                      [] Done("tp2", v) /\ ~Done("trail", v) -> at("trail", "tp2")
                      [] OTHER -> skip
              \/ /\ deployment.faults \/ (plan[v.id] = 0 /\ ~v.atRisk)
                 /\ skip
                 /\ UNCHANGED plan
    /\ UNCHANGED <<exchange, journal, unread, forgotten, pendEntry, seen, memory, killed, deployment>>

PassOver(t) ==
    /\ At(t, "next") /\ thread[t].todo = {}
    /\ PassEnds(t)
    /\ UNCHANGED <<exchange, durable, memory, killed, deployment>>

\* The order joins the exchange's book; it is known to its sender or not.
Sent(kind, s, for, qty) ==
    orders' = Append(orders, [kind |-> kind, sym |-> s, for |-> for, on |-> 0, qty |-> qty, exec |-> 0,
                              state |-> "live", recorded |-> FALSE])

\* close_partial_position: a share of the size the snapshot showed, at least the
\* minimum quantity.  A request without an answer counts as rejected.
ClosePartial(t) ==
    /\ At(t, "send")
    /\ LET s == thread[t].sym
           v == thread[t].view[s]
           qty == Max({1, (v.size * ClosePct(thread[t].stage)) \div 100})
       IN  \/ /\ Len(orders) < MaxOrders
              /\ Sent(thread[t].stage, s, v.id, qty)
              /\ \/ thread' = [thread EXCEPT ![t].pc = "verify", ![t].order = Len(orders) + 1]
                 \/ /\ deployment.faults
                    /\ thread' = [thread EXCEPT ![t].pc = "record", ![t].order = Len(orders) + 1, ![t].ok = FALSE]
           \/ /\ thread' = [thread EXCEPT ![t].pc = "record", ![t].order = 0, ![t].ok = FALSE]
              /\ UNCHANGED orders
    /\ UNCHANGED <<pos, opened, durable, memory, killed, deployment>>

\* _partial after the acknowledgement.  An unresolved order becomes the one
\* pending partial close, in memory, whatever was pending before.
VerifyPartial(t) ==
    /\ At(t, "verify")
    /\ \E f \in VerifyFinalFill(thread[t].order) :
          /\ thread' = [thread EXCEPT ![t].pc = IF f = "filled" THEN "poll" ELSE "record", ![t].ok = f = "filled"]
          /\ pendPartial' = IF f = "unresolved"
                            THEN [order |-> thread[t].order, size |-> thread[t].view[thread[t].sym].size]
                            ELSE pendPartial
    /\ UNCHANGED <<exchange, durable, enabled, loop, killed, deployment>>

\* Mutant: the stage is recorded for the row the position list shows last, which
\* is none once the position has closed.
PollReducedRereads(t) ==
    /\ At(t, "poll")
    /\ thread' = [thread EXCEPT ![t].pc = "record", ![t].view[thread[t].sym].id = pos[thread[t].sym].id]
    /\ UNCHANGED <<exchange, durable, memory, killed, deployment>>

\* _poll: the position list must show the size less the executed quantity.
PollReduced(t) ==
    /\ At(t, "poll")
    /\ LET before == thread[t].view[thread[t].sym].size IN
       \E size \in SizesSeen(thread[t].sym, before) :
          LET ok == size + orders[thread[t].order].exec <= before
          IN  /\ thread' = [thread EXCEPT ![t].pc = "record", ![t].ok = ok]
              /\ pendPartial' = IF ok THEN pendPartial ELSE [order |-> thread[t].order, size |-> before]
    /\ UNCHANGED <<exchange, durable, enabled, loop, killed, deployment>>

\* The pass is done with this position.
NextSymbol(t) ==
    LET m == thread[t] IN
    thread' = [thread EXCEPT ![t] = [m EXCEPT !.pc = "next", !.todo = @ \ {m.sym}, !.view[m.sym] = NoView,
                                              !.stage = "tp1", !.order = 0, !.ok = TRUE]]

\* durable_add: the row of the table first, the bot's journal after it and the
\* risk state last; it may raise before, between and behind them.
Journaled(e) == journal' = journal \cup {e} /\ UNCHANGED unread
InTableOnly(e) == unread' = unread \cup {e} /\ UNCHANGED journal

\* _record_stage: a verified stage is journaled under its name, a failed one is not.
RecordStage(t) ==
    /\ At(t, "record")
    /\ LET stage == <<thread[t].stage, thread[t].view[thread[t].sym].id>>
           note == /\ thread[t].ok /\ Journaled(stage)
                   /\ orders' = [orders EXCEPT ![thread[t].order].recorded = TRUE]
           next == IF thread[t].stage = "tp1" THEN "breakeven" ELSE "trail"
       IN  \/ note /\ Goto(t, next) /\ UNCHANGED loop
           \/ deployment.faults /\ Raise(t) /\ note
           \/ deployment.faults /\ Raise(t) /\ thread[t].ok /\ InTableOnly(stage) /\ UNCHANGED orders
           \/ deployment.faults /\ Raise(t) /\ UNCHANGED <<journal, unread, orders>>
           \/ ~thread[t].ok /\ NextSymbol(t) /\ UNCHANGED <<journal, unread, orders, loop>>
    /\ UNCHANGED <<pos, opened, plan, forgotten, pendEntry, seen, pendPartial, enabled, killed, deployment>>

\* _breakeven right behind TP1: the stop of whatever position the symbol has.
\* Its result is journaled under a name nobody looks for: it is never repeated.
Breakeven(t) ==
    /\ At(t, "breakeven")
    /\ LET s == thread[t].sym IN
       pos' \in {pos, [pos EXCEPT ![s].stop = IF pos[s].size > 0 THEN "breakeven" ELSE @]}
    /\ \/ NextSymbol(t) /\ UNCHANGED loop
       \/ deployment.faults /\ Raise(t)
    /\ UNCHANGED <<opened, orders, durable, pendPartial, enabled, killed, deployment>>

\* _trailing: set, and verified when the position list shows it or no position.
SetTrailing(t) ==
    /\ At(t, "trail")
    /\ LET s == thread[t].sym IN
          \/ /\ pos' = [pos EXCEPT ![s].trail = pos[s].size > 0]
             /\ Goto(t, "recordTrail")
          \/ /\ pos' \in {pos, [pos EXCEPT ![s].trail = pos[s].size > 0]}
             /\ NextSymbol(t)
    /\ UNCHANGED <<opened, orders, durable, memory, killed, deployment>>

RecordTrailing(t) ==
    /\ At(t, "recordTrail")
    /\ LET stage == <<"trail", thread[t].view[thread[t].sym].id>>
       IN  \/ Journaled(stage) /\ NextSymbol(t) /\ UNCHANGED loop
           \/ deployment.faults /\ Raise(t) /\ (Journaled(stage) \/ InTableOnly(stage))
           \/ deployment.faults /\ Raise(t) /\ UNCHANGED <<journal, unread>>
    /\ UNCHANGED <<exchange, plan, forgotten, pendEntry, seen, pendPartial, enabled, killed, deployment>>

-----------------------------------------------------------------------------
(* Entries *)

\* The manual test order, behind the daily loss gate and sizing.
ManualRequested ==
    /\ Begin("manual", "guard")
    /\ killed' = FALSE
    /\ UNCHANGED <<exchange, durable, memory, deployment>>

\* The tick has no signal, or the daily loss gate, sizing or the risk check blocks
\* it, or it goes on with the best symbol.
SelectSignal ==
    /\ At("tick", "signal")
    /\ End("tick") \/ Goto("tick", "guard")
    /\ UNCHANGED <<exchange, durable, memory, killed, deployment>>

\* _pending_fill_guard: see ExecutionHandoff.
PendingEntryAnswers ==
    IF pendEntry = 0 THEN {[ok |-> TRUE, left |-> 0]}
    ELSE {CASE f = "filled" -> [ok |-> FALSE, left |-> IF pos[orders[pendEntry].sym].size > 0 THEN 0 ELSE pendEntry]
            [] f = "ended" -> [ok |-> TRUE, left |-> 0]
            [] OTHER -> [ok |-> FALSE, left |-> pendEntry] : f \in VerifyFinalFill(pendEntry)}

\* collect_open_positions: every page of the position list, or a failure.
CollectOpenPositions ==
    {[ok |-> TRUE, symbols |-> OpenSymbols]}
    \cup (IF deployment.faults THEN {[ok |-> FALSE, symbols |-> {}]} ELSE {})

\* protection_gate: every position has a stop; the target of its entry stays.
ProtectionGate(list) == list.ok /\ \A s \in list.symbols : pos[s].stop # "none"

\* existing_position_guard: no position of the symbol, and room for another.
ExistingPositionGuard(s) == s \notin OpenSymbols /\ Cardinality(OpenSymbols) < MaxOpen

\* _protected_existing_position_guard: partial close, unresolved entry, protection
\* of what is open, and the symbol's own position.
PositionGuard(t) ==
    /\ At(t, "guard")
    /\ \E a \in GateAnswers, e \in PendingEntryAnswers, list \in CollectOpenPositions, s \in Symbol :
          /\ pendPartial' = a.left
          /\ pendEntry' = IF a.ok THEN e.left ELSE pendEntry
          /\ IF a.ok /\ e.ok /\ ProtectionGate(list) /\ ExistingPositionGuard(s)
             THEN thread' = [thread EXCEPT ![t].pc = IF t = "tick" THEN "current" ELSE "place", ![t].sym = s]
             ELSE End(t)
    /\ UNCHANGED <<exchange, plan, journal, unread, forgotten, seen, enabled, loop, killed, deployment>>

\* python_execution_cutover: the engine of the tick executes nothing any more.
BlockedByCutover == deployment.cutover

\* Mutant: an execution is taken as current whatever happened since.
CurrentUnchecked ==
    /\ At("tick", "current")
    /\ IF BlockedByCutover \/ seen THEN End("tick") ELSE Goto("tick", "place")
    /\ UNCHANGED <<exchange, durable, memory, killed, deployment>>

\* engine.execute: blocked after the cut-over; before it guarded_execute tests
\* execution_is_current and the identity of the closed-candle signal.
ExecuteGuard ==
    /\ At("tick", "current")
    /\ IF BlockedByCutover \/ ~enabled \/ ~thread["tick"].current \/ seen
       THEN End("tick") ELSE Goto("tick", "place")
    /\ UNCHANGED <<exchange, durable, memory, killed, deployment>>

\* place_mandatory_protected_order: blocked, rejected, acknowledged or lost.
PlaceEntry(t) ==
    /\ At(t, "place")
    /\ \/ /\ Len(orders) < MaxOrders
          /\ Sent("entry", thread[t].sym, 0, EntrySize)
          /\ \/ thread' = [thread EXCEPT ![t].pc = "finalize", ![t].order = Len(orders) + 1]
             \/ deployment.faults /\ End(t)
       \/ End(t) /\ UNCHANGED orders
    /\ UNCHANGED <<pos, opened, durable, memory, killed, deployment>>

\* finalize_entry_order: an unresolved order becomes the pending entry.
FinalizeEntry(t) ==
    /\ At(t, "finalize")
    /\ \E f \in VerifyFinalFill(thread[t].order) :
          /\ pendEntry' = IF f = "unresolved" THEN thread[t].order ELSE pendEntry
          /\ IF t = "tick"
             THEN thread' = [thread EXCEPT ![t].pc = "book", ![t].ok = f = "filled",
                                           ![t].order = IF f = "unresolved" THEN @ ELSE 0]
             ELSE End(t)
    /\ UNCHANGED <<exchange, plan, journal, unread, forgotten, seen, memory, killed, deployment>>

\* The auto_order entry, the signal_executed entry of a filled order, and the
\* fill-aware tick, which disables the bot over an unresolved one.
BookSignal ==
    /\ At("tick", "book")
    /\ LET m == thread["tick"] IN
          \/ /\ seen' = (seen \/ m.ok) /\ enabled' = (enabled /\ m.order = 0)
             /\ End("tick") /\ UNCHANGED loop
          \/ /\ deployment.faults /\ Raise("tick")
             /\ seen' \in {seen, seen \/ m.ok} /\ UNCHANGED enabled
    /\ UNCHANGED <<exchange, plan, journal, unread, forgotten, pendEntry, pendPartial, killed, deployment>>

-----------------------------------------------------------------------------
(* The operator *)

\* A start, a stop and the kill switch advance the generation.
NewGeneration(th) == [th EXCEPT !["tick"].current = th["tick"].pc = "idle"]

StartBot ==
    /\ enabled' = TRUE /\ loop' = TRUE /\ killed' = FALSE
    /\ thread' = NewGeneration(thread)
    /\ UNCHANGED <<exchange, durable, pendPartial, deployment>>

StopBot ==
    /\ enabled' = FALSE
    /\ thread' = NewGeneration(thread)
    /\ UNCHANGED <<exchange, durable, pendPartial, loop, killed, deployment>>

KillRequested ==
    /\ At("kill", "idle") /\ "kill" \in deployment.threads
    /\ enabled' = FALSE
    /\ thread' = [NewGeneration(thread) EXCEPT !["kill"].pc = "find"]
    /\ UNCHANGED <<exchange, durable, pendPartial, loop, killed, deployment>>

\* No entry order is live or about to be sent, and the bot was not started again.
NoEntryUnderWay ==
    /\ ~enabled
    /\ \A k \in DOMAIN orders : orders[k].kind = "entry" => orders[k].state # "live"
    /\ \A t \in Thread : thread[t].pc \notin {"place", "finalize"}
    /\ At("manual", "idle")

\* The switch answers: flat and every close order accepted.
KillAnswers(success) == End("kill") /\ killed' = (success /\ NoEntryUnderWay)

\* execute_verified_kill_switch: an account that is flat already is a success,
\* with no order cancelled.
KillFinds ==
    /\ At("kill", "find")
    /\ \/ OpenSymbols = {} /\ KillAnswers(TRUE)
       \/ /\ OpenSymbols # {}
          /\ thread' = [thread EXCEPT !["kill"].pc = "cancel", !["kill"].todo = OpenSymbols]
          /\ UNCHANGED killed
       \/ deployment.faults /\ KillAnswers(FALSE)
    /\ UNCHANGED <<exchange, durable, memory, deployment>>

\* cancel-all of the symbol; its result is not looked at.  A journal that raises
\* leaves the rest undone.
KillCancels ==
    /\ At("kill", "cancel")
    /\ \/ deployment.faults /\ KillAnswers(FALSE) /\ UNCHANGED orders
       \/ \E s \in thread["kill"].todo :
          /\ orders' \in {[k \in DOMAIN orders |->
                              IF orders[k].sym = s /\ orders[k].state = "live"
                              THEN [orders[k] EXCEPT !.state = "cancelled"] ELSE orders[k]]}
                         \cup (IF deployment.faults THEN {orders} ELSE {})
          /\ thread' = [thread EXCEPT !["kill"].pc = "close", !["kill"].sym = s]
          /\ UNCHANGED killed
    /\ UNCHANGED <<pos, opened, durable, memory, deployment>>

\* close_symbol_positions: a reduce-only order for what the symbol has now; none
\* at all, or a rejected one, counts as a failure.
KillCloses ==
    /\ At("kill", "close")
    /\ LET s == thread["kill"].sym
           left == thread["kill"].todo \ {s}
           then(ok) == thread' = [thread EXCEPT !["kill"].todo = left, !["kill"].ok = @ /\ ok,
                                                !["kill"].pc = IF left = {} THEN "flat" ELSE "cancel"]
       IN  \/ /\ s \in OpenSymbols /\ Len(orders) < MaxOrders
              /\ Sent("kill", s, pos[s].id, pos[s].size)
              /\ then(TRUE)
           \/ /\ s \notin OpenSymbols \/ deployment.faults \/ Len(orders) >= MaxOrders
              /\ then(FALSE)
              /\ UNCHANGED orders
    /\ UNCHANGED <<pos, opened, durable, memory, killed, deployment>>

\* The verification polls: flat in one of them, or the attempts are used up.
KillVerifies ==
    /\ At("kill", "flat")
    /\ \/ OpenSymbols = {} /\ KillAnswers(thread["kill"].ok)
       \/ (OpenSymbols # {} \/ deployment.faults) /\ KillAnswers(FALSE)
    /\ UNCHANGED <<exchange, durable, memory, deployment>>

-----------------------------------------------------------------------------
(* The exchange, the clock and crashes *)

\* A live order executes in full, in part or not at all; reduce-only orders
\* take no more than the position has.
OrderExecutes(k) ==
    /\ orders[k].state = "live"
    /\ LET o == orders[k]
           s == o.sym
           entry == o.kind = "entry"
           full == IF entry THEN o.qty ELSE Min({o.qty, pos[s].size})
       IN  \/ /\ full > 0
              /\ entry => opened < MaxPositions
              /\ \E exec \in {full} \cup (IF deployment.faults THEN {1} ELSE {}) :
                    LET fresh == entry /\ pos[s].size = 0
                        id == IF fresh THEN opened + 1 ELSE pos[s].id
                        size == IF entry THEN pos[s].size + exec ELSE pos[s].size - exec
                    IN  /\ orders' = [orders EXCEPT ![k].exec = exec, ![k].on = id,
                                                    ![k].state = IF exec = o.qty THEN "filled" ELSE "partial"]
                        /\ opened' = IF fresh THEN id ELSE opened
                        /\ pos' = [pos EXCEPT ![s] =
                               CASE size = 0 -> NoPosition
                                 [] fresh -> [id |-> id, size |-> size, stop |-> "initial", trail |-> FALSE]
                                 [] OTHER -> [@ EXCEPT !.size = size]]
           \/ /\ orders' = [orders EXCEPT ![k].state = "cancelled"]
              /\ UNCHANGED <<pos, opened>>
    /\ UNCHANGED <<durable, memory, thread, killed, deployment>>

\* Node, the execution authority after the cut-over, opens a position; neither
\* a stop nor the kill switch of this process reaches it.
NodeOpens(s) ==
    /\ deployment.cutover /\ pos[s] = NoPosition /\ opened < MaxPositions
    /\ opened' = opened + 1
    /\ pos' = [pos EXCEPT ![s] = [id |-> opened + 1, size |-> EntrySize, stop |-> "initial", trail |-> FALSE]]
    /\ killed' = FALSE
    /\ UNCHANGED <<orders, durable, memory, thread, deployment>>

\* The stop, the target or the trailing stop closes the position.
ProtectionHits(s) ==
    /\ pos[s].size > 0
    /\ pos' = [pos EXCEPT ![s] = NoPosition]
    /\ UNCHANGED <<opened, orders, durable, memory, thread, killed, deployment>>

\* A candle closes: the next signal has another identity.
NextCandle ==
    /\ seen
    /\ seen' = FALSE
    /\ UNCHANGED <<exchange, plan, journal, unread, forgotten, pendEntry, memory, thread, killed, deployment>>

\* The process ends and starts again, disabled: threads and the pending partial
\* close are gone, the journal is read from the table and the pending entry loaded.
Restart ==
    /\ deployment.crashes
    /\ thread # [t \in Thread |-> Idle] \/ enabled \/ pendPartial # NoPartial
    /\ thread' = [t \in Thread |-> Idle]
    /\ pendPartial' = NoPartial /\ enabled' = FALSE /\ loop' = TRUE
    /\ journal' = journal \cup unread /\ unread' = {}
    /\ UNCHANGED <<exchange, plan, forgotten, pendEntry, seen, killed, deployment>>

\* A thousand younger entries push a stage out of what the bot's journal holds
\* and a start loads.  Which stage goes first is left open.
JournalForgets ==
    /\ deployment.forgets
    /\ \E e \in journal \cup unread :
          /\ journal' = journal \ {e} /\ unread' = unread \ {e}
          /\ forgotten' = forgotten \cup {e[2]}
    /\ UNCHANGED <<exchange, plan, pendEntry, seen, memory, thread, killed, deployment>>

Manage(t) ==
    \/ ManageGate(t) \/ FetchPositions(t) \/ Decide(t) \/ PassOver(t) \/ ClosePartial(t)
    \/ VerifyPartial(t) \/ PollReduced(t) \/ RecordStage(t) \/ Breakeven(t) \/ SetTrailing(t)
    \/ RecordTrailing(t)

Next ==
    \/ TickBegins \/ ManageRequested \/ ManualRequested \/ SelectSignal \/ ExecuteGuard \/ BookSignal
    \/ \E t \in {"tick", "manage"} : Manage(t)
    \/ \E t \in {"tick", "manual"} : PositionGuard(t) \/ PlaceEntry(t) \/ FinalizeEntry(t)
    \/ StartBot \/ StopBot \/ KillRequested \/ KillFinds \/ KillCancels \/ KillCloses \/ KillVerifies
    \/ \E k \in DOMAIN orders : OrderExecutes(k)
    \/ \E s \in Symbol : NodeOpens(s) \/ ProtectionHits(s)
    \/ NextCandle \/ Restart \/ JournalForgets

Spec == Init /\ [][Next]_vars

-----------------------------------------------------------------------------
(* Properties *)

\* The reduce-only orders that executed on a position.
Reductions(id) == {k \in DOMAIN orders : orders[k].kind # "entry" /\ orders[k].on = id /\ orders[k].exec > 0}

\* What TP1 and TP2 leave of a position of this size.
Runner(size) ==
    LET rest == size - (size * 40) \div 100 IN rest - (rest * 50) \div 100

\* Staged exits keep the 30% runner: with one manager, whatever failed, timed
\* out or crashed, a position whose executed reductions were all recorded as
\* verified stages of that position, none of which the journal has forgotten
\* since, still has it (issue1_risk_exit_policy).
RunnerKept ==
    deployment.threads \cap {"tick", "manage"} # {"tick", "manage"} =>
        \A s \in Symbol :
            LET p == pos[s] IN
            /\ p.id # 0 /\ plan[p.id] # 0 /\ p.id \notin forgotten
            /\ \A k \in Reductions(p.id) : orders[k].recorded /\ orders[k].for = p.id
            => p.size >= Runner(plan[p.id])

\* After a kill switch that succeeded with no entry under way the account stays
\* flat until the operator starts the bot or sends an order, or Node trades: a
\* tick it overtook opens nothing (guarded_execute, execute_verified_kill_switch).
KillHolds == killed => OpenSymbols = {}

\* "Verified, idempotent management of open Bybit positions": TP1 executes on a
\* position once.
ClosedOnce ==
    \A s \in Symbol : pos[s].id # 0 =>
        Cardinality({k \in Reductions(pos[s].id) : orders[k].kind = "tp1"}) <= 1
=============================================================================
