-------------------------- MODULE TradeManagement --------------------------
(***************************************************************************)
(* node_execution/src/tradeManager.js: one managed trade, from the first   *)
(* management cycle to the closed position, against the exchange and the   *)
(* management state of the repository.                                     *)
(*                                                                         *)
(* Prices are distances from the initial stop in units of 0.5R, counted in *)
(* the direction of the trade, so one model serves Buy and Sell: the entry *)
(* is 2, TP1 is 5, TP2 is 6 and the trail is 1 behind the mark.            *)
(* Quantities are multiples of qtyStep.  A step is the code between two    *)
(* awaits; any exchange call may fail, and a call that fails may still     *)
(* have been carried out.                                                  *)
(***************************************************************************)
EXTENDS Integers, FiniteSets

CONSTANTS
  Sizes,      \* filled quantities a trade may start with
  Marks,      \* mark prices that occur
  MinQty,     \* lotSizeFilter.minOrderQty, in steps
  CallFaults, \* whether an exchange call may fail
  MaxCrashes  \* bound: process crashes

ASSUME ConstantsOK ==
  /\ Sizes \subseteq Nat \ {0} /\ Marks \subseteq Nat
  /\ MinQty \in Nat \ {0} /\ CallFaults \in BOOLEAN /\ MaxCrashes \in Nat

Entry == 2
InitialStop == 0
Tp1Price == 5
Tp2Price == 6
TrailingDistance == 1
Tp1ClosePct == 40
Tp2ClosePct == 30
Action == {"tp1", "tp2"}
NoTrail == InitialStop

VARIABLES
  size0,    \* the quantity that was filled
  mark,     \* the exchange's mark price
  qty,      \* the open quantity on the exchange
  stop, take,  \* the position's stop loss and take profit
  closed,   \* quantity filled by the close order of each action, -1: no order
  flying,   \* close orders sent whose answer was given up: [action, quantity]
  memory,   \* management Map entry; a set of at most one state
  table,    \* runtime_state row; a set of at most one state
  dbReady,  \* support.databaseReady
  pc,       \* where cycle is awaiting
  seen,     \* the mark price read at the top of the cycle
  have,     \* the position size last read by the cycle
  local,    \* cycle's local management state
  result,   \* lifecycle state of the command
  crashes,
  anew      \* the trade was begun anew while its row could not be read (history)

exchange == <<size0, mark, qty, stop, take, closed, flying>>
vars == <<exchange, memory, table, dbReady, pc, seen, have, local, result, crashes, anew>>

\* The parts of the management state that later cycles depend on.
State == [initialQty : Nat, tp1Done : BOOLEAN, tp2Done : BOOLEAN, trailingStop : Nat]
NewState(q) == [initialQty |-> q, tp1Done |-> FALSE, tp2Done |-> FALSE, trailingStop |-> NoTrail]

Init ==
  /\ size0 \in Sizes /\ qty = size0
  /\ mark \in {m \in Marks : m > InitialStop /\ m < Tp2Price}
  /\ stop = InitialStop /\ take = Tp2Price
  /\ closed = [a \in Action |-> -1] /\ flying = {}
  /\ memory = {} /\ table = {} /\ dbReady = TRUE
  /\ pc = "idle" /\ seen = Entry /\ have = 0 /\ local = NewState(size0)
  /\ result = "MANAGING" /\ crashes = 0 /\ anew = FALSE

-----------------------------------------------------------------------------
(* The repository's management state: Map first, then the row.              *)

Stored == IF memory # {} THEN memory ELSE IF dbReady THEN table ELSE {}

PutManagementState(st) ==
  /\ memory' = {st}
  /\ table' = IF dbReady THEN {st} ELSE table
  /\ UNCHANGED dbReady

\* A PostgreSQL call of this cycle or of another slot fails.  A call of this
\* cycle that fails is this step just before it (not applied) or just after.
Degrade ==
  /\ CallFaults /\ dbReady /\ dbReady' = FALSE
  /\ UNCHANGED <<exchange, memory, table, pc, seen, have, local, result, crashes, anew>>

\* An exception: the cycle ends, its local state is dropped, nothing is saved.
Throw ==
  /\ pc' = "idle"
  /\ UNCHANGED <<memory, table, dbReady, seen, have, local, result, crashes, anew>>

Resume(l) ==
  /\ pc' = l
  /\ UNCHANGED <<memory, table, dbReady, seen, have, local, result, crashes, anew>>

-----------------------------------------------------------------------------
(* TradeManager.cycle                                                       *)

\* Position, ticker and instrument are read; the state is loaded or created.
BeginCycle ==
  /\ pc = "idle" /\ result = "MANAGING" /\ qty > 0
  /\ seen' = mark /\ have' = qty
  /\ \/ /\ Stored # {}
        /\ local' \in Stored
        /\ memory' = Stored /\ UNCHANGED <<table, dbReady, anew>>
     \/ /\ Stored = {}
        /\ local' = NewState(qty)
        /\ PutManagementState(NewState(qty))
        /\ anew' = (anew \/ table # {})
  /\ pc' = "tp1"
  /\ UNCHANGED <<exchange, result, crashes>>

\* closeMissingPosition stamps the stored state with the reason, which no later
\* cycle reads, and finishClosed takes the command through CLOSING to CLOSED.
StampStored ==
  /\ memory' = Stored
  /\ table' = IF dbReady THEN Stored ELSE table

\* Mutant: a trade without a management state is skipped.
CloseMissingPositionIfKnown ==
  /\ pc = "idle" /\ result = "MANAGING" /\ qty = 0 /\ Stored # {}
  /\ StampStored /\ result' = "CLOSED"
  /\ UNCHANGED <<exchange, dbReady, pc, seen, have, local, crashes, anew>>

CloseMissingPosition ==
  /\ pc = "idle" /\ result = "MANAGING" /\ qty = 0
  /\ StampStored /\ result' = "CLOSED"
  /\ UNCHANGED <<exchange, dbReady, pc, seen, have, local, crashes, anew>>

Done(a) == IF a = "tp1" THEN local.tp1Done ELSE local.tp2Done
TargetPrice(a) == IF a = "tp1" THEN Tp1Price ELSE Tp2Price
ClosePct(a) == IF a = "tp1" THEN Tp1ClosePct ELSE Tp2ClosePct
NextStep(a) == IF a = "tp1" THEN "recheck1" ELSE "recheck2"
WaitStep(a) == IF a = "tp1" THEN "wait1" ELSE "wait2"

SkipTarget(a) ==
  /\ pc = a /\ (Done(a) \/ seen < TargetPrice(a))
  /\ Resume(NextStep(a))
  /\ UNCHANGED exchange

\* closeFraction: the quantity, floored to the step and not below the minimum
\* unless the whole position is that small.
Desired(a) == LET d == (local.initialQty * ClosePct(a)) \div 100
              IN IF d < have THEN d ELSE have
CloseQuantity(a) == IF Desired(a) < MinQty THEN have ELSE Desired(a)
\* Mutant: a quantity below the minimum closes the whole position.
BelowMinimumIgnored(a) == FALSE

BelowMinimum(a) == Desired(a) < MinQty /\ have > MinQty

DueAt(a) == pc = a /\ ~Done(a) /\ seen >= TargetPrice(a)

CloseBelowMinimum(a) ==
  /\ DueAt(a) /\ BelowMinimum(a)
  /\ Throw /\ UNCHANGED exchange

\* findOrder and executions already show this action's orderLinkId.
FindPriorClose(a) ==
  /\ DueAt(a) /\ ~BelowMinimum(a) /\ closed[a] >= 0
  /\ Resume(WaitStep(a)) /\ UNCHANGED exchange

\* Bybit fills a reduce-only market order up to the open quantity, and accepts
\* an orderLinkId once.
Fill(a, q) ==
  /\ closed[a] = -1
  /\ closed' = [closed EXCEPT ![a] = IF q < qty THEN q ELSE qty]
  /\ qty' = IF q < qty THEN qty - q ELSE 0
  /\ UNCHANGED <<size0, mark, stop, take>>

SubmitClose(a) ==
  /\ DueAt(a) /\ ~BelowMinimum(a) /\ closed[a] = -1
  /\ \/ Fill(a, CloseQuantity(a)) /\ UNCHANGED flying /\ Resume(WaitStep(a))
     \/ /\ CallFaults /\ Throw
        /\ \/ Fill(a, CloseQuantity(a)) /\ UNCHANGED flying
           \/ /\ flying' \in {flying, flying \cup {[action |-> a, quantity |-> CloseQuantity(a)]}}
              /\ UNCHANGED <<size0, mark, qty, stop, take, closed>>

\* Mutant: TP1 is marked done without moving the stop.
CloseVerifiedNoBreakEven(a) ==
  /\ pc = WaitStep(a) /\ closed[a] > 0
  /\ pc' = NextStep(a)
  /\ local' = IF a = "tp1" THEN [local EXCEPT !.tp1Done = TRUE] ELSE [local EXCEPT !.tp2Done = TRUE]
  /\ UNCHANGED <<exchange, memory, table, dbReady, seen, have, result, crashes, anew>>

\* waitForResolution: only a filled quantity counts.
CloseVerified(a) ==
  /\ pc = WaitStep(a) /\ closed[a] > 0
  /\ IF a = "tp1"
       THEN pc' = "breakeven" /\ local' = [local EXCEPT !.tp1Done = TRUE]
       ELSE pc' = "recheck2" /\ local' = [local EXCEPT !.tp2Done = TRUE]
  /\ UNCHANGED <<exchange, memory, table, dbReady, seen, have, result, crashes, anew>>

CloseUnverified(a) ==
  /\ pc = WaitStep(a) /\ (closed[a] <= 0 \/ CallFaults)
  /\ Throw /\ UNCHANGED exchange

\* setTradingStop.  Bybit refuses a stop that the mark has passed and a stop on
\* a closed position; otherwise the call is applied, or fails with or without
\* effect.
SetTradingStop(sl, tp, onSuccess) ==
  LET accepted == qty > 0 /\ sl < mark
      applied == stop' = sl /\ take' = tp
      refused == UNCHANGED <<stop, take>>
  IN \/ accepted /\ applied /\ onSuccess
     \/ ~accepted /\ refused /\ Throw
     \/ CallFaults /\ accepted /\ applied /\ Throw
     \/ CallFaults /\ refused /\ Throw

MoveBreakEven ==
  /\ pc = "breakeven"
  /\ SetTradingStop(Entry, Tp2Price, Resume("recheck1"))
  /\ UNCHANGED <<size0, mark, qty, closed, flying>>

\* currentPosition after a target: its size, or the trade is over.
Recheck(l, next) ==
  /\ pc = l
  /\ \/ /\ qty > 0 /\ have' = qty /\ pc' = next
        /\ UNCHANGED <<memory, table, dbReady, result>>
     \/ /\ qty = 0 /\ result' = "CLOSED" /\ pc' = "idle"
        /\ PutManagementState(local) /\ UNCHANGED have
  /\ UNCHANGED <<exchange, seen, local, crashes, anew>>

RecheckAfterTp1 == Recheck("recheck1", "tp2")
RecheckAfterTp2 == Recheck("recheck2", "trail")

ReadError ==
  /\ CallFaults /\ pc \in {"tp1", "tp2", "recheck1", "recheck2"}
  /\ Throw /\ UNCHANGED exchange

\* Mutant: the trail follows the mark in both directions.
TighterBothWays == seen - TrailingDistance

\* The runner's trail: never looser than the last one this state remembers.
Tighter == LET proposed == seen - TrailingDistance
           IN IF proposed > local.trailingStop THEN proposed ELSE local.trailingStop
TrailDue == local.tp2Done /\ Tighter < seen /\ Tighter # local.trailingStop

Trail ==
  /\ pc = "trail" /\ TrailDue
  /\ SetTradingStop(Tighter, take,
       /\ pc' = "save"
       /\ local' = [local EXCEPT !.trailingStop = Tighter]
       /\ UNCHANGED <<memory, table, dbReady, seen, have, result, crashes, anew>>)
  /\ UNCHANGED <<size0, mark, qty, closed, flying>>

NoTrailUpdate ==
  /\ pc = "trail" /\ ~TrailDue
  /\ Resume("save") /\ UNCHANGED exchange

\* The management state is saved once, at the end of the cycle.
SaveState ==
  /\ pc = "save"
  /\ PutManagementState(local)
  /\ pc' = "idle"
  /\ UNCHANGED <<exchange, seen, have, local, result, crashes, anew>>

-----------------------------------------------------------------------------
(* The process and the exchange.                                            *)

Crash ==
  /\ crashes < MaxCrashes /\ crashes' = crashes + 1
  /\ pc' = "idle" /\ memory' = {}
  /\ dbReady' \in IF CallFaults THEN BOOLEAN ELSE {TRUE}
  /\ UNCHANGED <<exchange, table, seen, have, local, result, anew>>

PriceMoves ==
  /\ qty > 0 /\ mark' \in Marks \ {mark}
  /\ UNCHANGED <<size0, qty, stop, take, closed, flying, memory, table, dbReady,
                 pc, seen, have, local, result, crashes, anew>>

LateClose ==
  /\ \E f \in flying :
       /\ flying' = flying \ {f}
       /\ \/ Fill(f.action, f.quantity)
          \/ closed[f.action] # -1 /\ UNCHANGED <<size0, mark, qty, stop, take, closed>>
  /\ UNCHANGED <<memory, table, dbReady, pc, seen, have, local, result, crashes, anew>>

\* tpslMode Full: a trigger closes the whole position.
StopTriggers ==
  /\ qty > 0 /\ mark <= stop /\ qty' = 0
  /\ UNCHANGED <<size0, mark, stop, take, closed, flying, memory, table, dbReady,
                 pc, seen, have, local, result, crashes, anew>>

TakeProfitTriggers ==
  /\ qty > 0 /\ mark >= take /\ qty' = 0
  /\ UNCHANGED <<size0, mark, stop, take, closed, flying, memory, table, dbReady,
                 pc, seen, have, local, result, crashes, anew>>

-----------------------------------------------------------------------------
Cycle ==
  \/ BeginCycle \/ CloseMissingPosition
  \/ \E a \in Action : \/ SkipTarget(a) \/ CloseBelowMinimum(a) \/ FindPriorClose(a)
                       \/ SubmitClose(a) \/ CloseVerified(a) \/ CloseUnverified(a)
  \/ MoveBreakEven \/ RecheckAfterTp1 \/ RecheckAfterTp2 \/ ReadError
  \/ Trail \/ NoTrailUpdate \/ SaveState

Next == Cycle \/ Degrade \/ Crash \/ PriceMoves \/ LateClose \/ StopTriggers \/ TakeProfitTriggers

Spec == Init /\ [][Next]_vars

-----------------------------------------------------------------------------
(* Properties.                                                              *)

\* Every variable stays within the values the code can give it.
TypeOK ==
  /\ size0 \in Nat /\ mark \in Marks /\ qty \in Nat /\ stop \in Nat /\ take \in Nat
  /\ closed \in [Action -> Int]
  /\ \A f \in flying : f.action \in Action /\ f.quantity \in Nat
  /\ memory \subseteq State /\ table \subseteq State /\ dbReady \in BOOLEAN
  /\ pc \in {"idle", "tp1", "wait1", "breakeven", "recheck1", "tp2", "wait2",
              "recheck2", "trail", "save"}
  /\ seen \in Nat /\ have \in Nat /\ local \in State
  /\ result \in {"MANAGING", "CLOSED"} /\ crashes \in Nat /\ anew \in BOOLEAN

Taken == {a \in Action : closed[a] > 0}
TakenQty == (IF "tp1" \in Taken THEN closed["tp1"] ELSE 0)
          + (IF "tp2" \in Taken THEN closed["tp2"] ELSE 0)

\* However often cycles fail, repeat and restart, the two targets together take
\* at most 40 + 30 percent: the runner is left for the trail.  A position of the
\* minimum size is closed whole.
RunnerKept == size0 > MinQty => 100 * TakenQty <= (Tp1ClosePct + Tp2ClosePct) * size0

\* A management state that was saved with TP1 done was saved after the stop had
\* been moved to break-even, and nothing moves it back below.
BreakEvenHeld ==
  \A st \in memory \cup table : st.tp1Done /\ qty > 0 => stop >= Entry

\* The exchange's stop is never looser than a trail that the process remembers or
\* the row holds, through failed cycles, restarts and a row that is behind, unless
\* a process that could not read the row began the trade anew: it moves the stop
\* back to break-even, and a later process that reads the row believes its trail.
TrailHeld ==
  ~anew => \A st \in memory \cup table : st.tp2Done /\ qty > 0 => stop >= st.trailingStop

\* slotLoop polls a managed command forever, so a cycle that can step does.
FairSpec == Spec /\ WF_vars(Cycle)

\* A position that the exchange closed, at whatever point of a cycle, is noticed
\* by this or a later cycle and the command is closed.
CloseIsNoticed == qty = 0 ~> result = "CLOSED"
=============================================================================
