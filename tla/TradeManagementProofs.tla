----------------------- MODULE TradeManagementProofs -----------------------
(***************************************************************************)
(* Proofs about TradeManagement: types, the quantities the two targets may *)
(* take, the break-even stop and the trail.                                *)
(***************************************************************************)
EXTENDS TradeManagement, TLAPS

-----------------------------------------------------------------------------
(* The inductive invariant.                                                 *)

\* Every management state there is: the cycle's own and the two stored ones.
States == {local} \cup memory \cup table

\* A Map entry and a row are at most one state each.
Single == /\ \A x, y \in memory : x = y
          /\ \A x, y \in table : x = y

\* What a management state says of the trade.
Sane ==
  /\ qty <= size0
  /\ \A st \in States :
       /\ st.initialQty <= size0
       /\ st.tp1Done => closed["tp1"] > 0
       /\ st.tp2Done => st.tp1Done
       /\ ~st.tp2Done => st.trailingStop = NoTrail

\* The cycle never forgets what the Map entry it started from knew, and reaches
\* TP2 only with TP1 done in the state it works on.
CycleKnows ==
  /\ pc # "idle" => \A m \in memory :
       /\ m.tp1Done => local.tp1Done
       /\ m.tp2Done => local.tp2Done
       /\ m.trailingStop <= local.trailingStop
  /\ pc \in {"wait1", "breakeven"} => ~local.tp2Done
  /\ pc = "breakeven" => local.tp1Done
  /\ pc \in {"recheck1", "tp2"} => local.tp1Done \/ seen < Tp1Price
  /\ pc = "wait2" => local.tp1Done /\ seen >= Tp2Price

\* A quantity that the close order of target a may have.
Takes(a, q) == q >= MinQty /\ 100 * q <= ClosePct(a) * size0

\* Until TP1 is filled the whole position is open, and between TP1 and TP2 what
\* TP1 left of it is, so neither target is ever sized from a small remainder.
Quantities == size0 > MinQty =>
  /\ closed["tp1"] > 0 => Takes("tp1", closed["tp1"])
  /\ closed["tp2"] > 0 => 100 * closed["tp2"] <= Tp2ClosePct * size0
  /\ \A f \in flying : /\ Takes(f.action, f.quantity)
                       /\ f.action = "tp2" => closed["tp1"] > 0
  /\ closed["tp1"] = -1 => qty \in {0, size0}
  /\ closed["tp1"] > 0 /\ closed["tp2"] = -1 => qty \in {0, size0 - closed["tp1"]}
  /\ pc = "tp1" /\ closed["tp1"] = -1 => have = size0
  /\ pc = "tp2" /\ seen >= Tp2Price /\ closed["tp2"] = -1 => have = size0 - closed["tp1"]

\* The stop is at break-even for every state that has TP1 done, and a state that
\* has TP2 done has moved its trail up to TP2 or is about to.
Stops == qty > 0 =>
  /\ \A st \in memory \cup table :
       /\ st.tp1Done => stop >= Entry
       /\ st.tp2Done => st.trailingStop >= Tp2Price - TrailingDistance
  /\ pc \notin {"idle", "breakeven"} /\ local.tp1Done => stop >= Entry
  /\ pc # "idle" /\ local.tp2Done =>
       \/ local.trailingStop >= Tp2Price - TrailingDistance
       \/ seen >= Tp2Price /\ pc # "save"

Inv == TypeOK /\ Single /\ Sane /\ CycleKnows /\ Quantities /\ Stops

\* While no process began the trade anew, the stop is behind no trail and the row
\* never ahead of the Map entry.
Trails ==
  /\ pc # "idle" => memory # {}
  /\ ~anew =>
       /\ qty > 0 => /\ \A st \in memory \cup table : st.tp2Done => stop >= st.trailingStop
                     /\ pc # "idle" /\ local.tp2Done => stop >= local.trailingStop
       /\ \A t \in table, m \in memory :
            t.tp2Done => m.tp2Done /\ t.trailingStop <= m.trailingStop

-----------------------------------------------------------------------------
(* Each action keeps the invariant.                                         *)

LEMMA BeginCycleStep == ASSUME Inv, BeginCycle PROVE Inv'
<1>1. TypeOK'
  <2> DEFINE new == NewState(qty)
  <2>3. new \in State BY DEF Inv, TypeOK, NewState, State, NoTrail, InitialStop
  <2>4. Stored \subseteq State BY DEF Inv, TypeOK, Stored
  <2> HIDE DEF new
  <2>1. memory' \subseteq State /\ table' \subseteq State /\ local' \in State
    BY <2>3, <2>4 DEF Inv, TypeOK, BeginCycle, PutManagementState, new
  <2>2. seen' \in Nat /\ have' \in Nat /\ dbReady' \in BOOLEAN
    BY ConstantsOK DEF Inv, TypeOK, BeginCycle, PutManagementState
  <2> QED BY <2>1, <2>2 DEF Inv, TypeOK, BeginCycle, exchange
<1>2. Single'
  BY ConstantsOK DEF Inv, TypeOK, Single, BeginCycle, exchange, PutManagementState,
     Stored
<1>3. Sane'
  BY ConstantsOK DEF Inv, TypeOK, Single, Sane, CycleKnows, BeginCycle, exchange,
     PutManagementState, Stored, NewState, Action, State, States, InitialStop, NoTrail
<1>4. CycleKnows'
  BY ConstantsOK DEF Inv, TypeOK, Single, Sane, CycleKnows, BeginCycle, exchange,
     PutManagementState, Stored, NewState, Action, State, States, InitialStop, NoTrail
<1>5. Quantities'
  BY ConstantsOK DEF Inv, TypeOK, Single, Sane, CycleKnows, Quantities, BeginCycle,
     exchange, PutManagementState, Stored, NewState, Tp1ClosePct, Tp2ClosePct, Takes
<1>6. Stops'
  BY ConstantsOK DEF Inv, TypeOK, Single, Sane, CycleKnows, Stops, BeginCycle,
     exchange, PutManagementState, Stored, NewState
<1> QED BY <1>1, <1>2, <1>3, <1>4, <1>5, <1>6 DEF Inv

LEMMA CloseMissingPositionStep == ASSUME Inv, CloseMissingPosition PROVE Inv'
<1>1. TypeOK'
  BY ConstantsOK DEF Inv, TypeOK, Single, CloseMissingPosition, exchange, Stored,
     StampStored
<1>2. Single'
  BY ConstantsOK DEF Inv, TypeOK, Single, CloseMissingPosition, exchange, Stored,
     StampStored
<1>3. Sane'
  BY ConstantsOK DEF Inv, TypeOK, Single, Sane, CycleKnows, CloseMissingPosition,
     exchange, Stored, StampStored, Action, State, States, InitialStop, NoTrail,
     Tp1Price
<1>4. CycleKnows'
  BY DEF CycleKnows, CloseMissingPosition, exchange
<1>5. Quantities'
  BY ConstantsOK DEF Inv, TypeOK, Single, Sane, CycleKnows, Quantities,
     CloseMissingPosition, exchange, Stored, StampStored, Action, Tp2ClosePct, Takes
<1>6. Stops'
  BY DEF Stops, CloseMissingPosition, exchange, Stored, StampStored, Action
<1> QED BY <1>1, <1>2, <1>3, <1>4, <1>5, <1>6 DEF Inv

LEMMA SkipTargetStep == ASSUME Inv, NEW a \in Action, SkipTarget(a) PROVE Inv'
<1>1. TypeOK'
  BY ConstantsOK DEF Inv, TypeOK, Single, SkipTarget, exchange, Resume, Done,
     NextStep, TargetPrice, Action, State
<1>2. Single'
  BY ConstantsOK DEF Inv, TypeOK, Single, SkipTarget, exchange, Resume, Done
<1>3. Sane'
  BY ConstantsOK DEF Inv, TypeOK, Single, Sane, CycleKnows, SkipTarget, exchange,
     Resume, Done, NextStep, TargetPrice, Action, State, States, InitialStop
<1>4. CycleKnows'
  BY ConstantsOK DEF Inv, TypeOK, Single, Sane, CycleKnows, SkipTarget, exchange,
     Resume, Done, NextStep, TargetPrice, Action, State, States, InitialStop
<1>5. Quantities'
  BY ConstantsOK DEF Inv, TypeOK, Single, Sane, CycleKnows, Quantities, SkipTarget,
     exchange, Resume, Done, NextStep, ClosePct, Tp1ClosePct, Tp2ClosePct, Takes
<1>6. Stops'
  BY ConstantsOK DEF Inv, TypeOK, Single, Sane, CycleKnows, Stops, SkipTarget,
     exchange, Resume, Done, NextStep, TargetPrice, Action, State, States
<1> QED BY <1>1, <1>2, <1>3, <1>4, <1>5, <1>6 DEF Inv

LEMMA CloseBelowMinimumStep == ASSUME Inv, NEW a \in Action, CloseBelowMinimum(a) PROVE Inv'
<1>1. TypeOK'
  BY ConstantsOK DEF Inv, TypeOK, Single, CloseBelowMinimum, exchange, Throw, Done
<1>2. Single'
  BY ConstantsOK DEF Inv, TypeOK, Single, CloseBelowMinimum, exchange, Throw, Done
<1>3. Sane'
  BY ConstantsOK DEF Inv, TypeOK, Single, Sane, CycleKnows, CloseBelowMinimum,
     exchange, Throw, Done, DueAt, BelowMinimum, TargetPrice, Action, State, States
<1>4. CycleKnows'
  BY DEF Sane, CycleKnows, CloseBelowMinimum, exchange, Throw, Done, DueAt, BelowMinimum
<1>5. Quantities'
  BY ConstantsOK DEF Inv, TypeOK, Single, Sane, CycleKnows, Quantities,
     CloseBelowMinimum, exchange, Throw, Done, DueAt, Takes
<1>6. Stops'
  BY ConstantsOK DEF Inv, TypeOK, Single, Sane, CycleKnows, Stops, CloseBelowMinimum,
     exchange, Throw, Done, DueAt
<1> QED BY <1>1, <1>2, <1>3, <1>4, <1>5, <1>6 DEF Inv

LEMMA FindPriorCloseStep == ASSUME Inv, NEW a \in Action, FindPriorClose(a) PROVE Inv'
<1>1. TypeOK'
  BY ConstantsOK DEF Inv, TypeOK, Single, FindPriorClose, exchange, Resume, Done,
     DueAt, BelowMinimum, WaitStep, TargetPrice
<1>2. Single'
  BY ConstantsOK DEF Inv, TypeOK, Single, FindPriorClose, exchange, Resume, Done
<1>3. Sane'
  BY ConstantsOK DEF Inv, TypeOK, Single, Sane, CycleKnows, FindPriorClose, exchange,
     Resume, Done, DueAt, BelowMinimum, States, InitialStop, NoTrail, Tp1Price, Tp2Price
<1>4. CycleKnows'
  BY ConstantsOK DEF Inv, TypeOK, Single, Sane, CycleKnows, FindPriorClose, exchange,
     Resume, Done, DueAt, BelowMinimum, WaitStep, TargetPrice, Action, State, States,
     InitialStop, NoTrail, Tp1Price, Tp2Price
<1>5. Quantities'
  BY ConstantsOK DEF Inv, TypeOK, Single, Sane, CycleKnows, Quantities,
     FindPriorClose, exchange, Resume, Done, DueAt, BelowMinimum, WaitStep, TargetPrice,
     Action, Tp2ClosePct, Takes
<1>6. Stops'
  BY ConstantsOK DEF Inv, TypeOK, Single, Sane, CycleKnows, Stops, FindPriorClose,
     exchange, Resume, Done, DueAt, BelowMinimum, WaitStep, TargetPrice, Action
<1> QED BY <1>1, <1>2, <1>3, <1>4, <1>5, <1>6 DEF Inv
\* The quantity a cycle asks for is a natural number within the target's share
\* of the filled quantity, and at least the minimum.
LEMMA CloseQuantityType ==
  ASSUME TypeOK, NEW a \in Action
  PROVE  CloseQuantity(a) \in Nat
<1>1. local.initialQty \in Nat /\ have \in Nat BY DEF TypeOK, State
<1>2. CASE a = "tp1"
  BY <1>1, <1>2 DEF CloseQuantity, Desired, ClosePct, Tp1ClosePct
<1>3. CASE a = "tp2"
  BY <1>1, <1>3 DEF CloseQuantity, Desired, ClosePct, Tp2ClosePct
<1> QED BY <1>2, <1>3 DEF Action

LEMMA CloseQuantityTakes ==
  ASSUME Inv, NEW a \in Action, DueAt(a), ~BelowMinimum(a), closed[a] = -1, size0 > MinQty
  PROVE  Takes(a, CloseQuantity(a)) /\ (a = "tp2" => closed["tp1"] > 0)
<1>1. /\ local.initialQty \in Nat /\ have \in Nat /\ size0 \in Nat /\ MinQty \in Nat \ {0}
      /\ local.initialQty <= size0 /\ closed["tp1"] \in Int
  BY ConstantsOK DEF Inv, TypeOK, State, Sane, States, Action
<1>2. CASE a = "tp1"
  <2>1. have = size0 BY <1>2 DEF Inv, Quantities, DueAt
  <2> QED
    BY <1>1, <1>2, <2>1 DEF CloseQuantity, Desired, BelowMinimum, Takes, ClosePct,
       Tp1ClosePct
<1>3. CASE a = "tp2"
  <2>1. closed["tp1"] > 0
    BY <1>3 DEF Inv, TypeOK, CycleKnows, Sane, States, DueAt, TargetPrice, Tp1Price,
       Tp2Price
  <2>2. have = size0 - closed["tp1"] BY <1>3 DEF Inv, Quantities, DueAt, TargetPrice
  <2>3. closed["tp1"] >= MinQty /\ 100 * closed["tp1"] <= 40 * size0
    BY <2>1 DEF Inv, Quantities, Takes, ClosePct, Tp1ClosePct
  <2>4. have > MinQty BY <1>1, <2>2, <2>3
  <2> QED
    BY <1>1, <1>3, <2>1, <2>4 DEF CloseQuantity, Desired, BelowMinimum, Takes,
       ClosePct, Tp2ClosePct
<1> QED BY <1>2, <1>3 DEF Action
\* A fill, at once or late, of an order whose quantity the target may have.
LEMMA FillKeeps ==
  ASSUME Inv, NEW a \in Action, NEW q \in Nat, Fill(a, q),
         size0 > MinQty => Takes(a, q) /\ (a = "tp2" => closed["tp1"] > 0)
  PROVE  /\ qty' \in Nat /\ qty' <= qty /\ closed' \in [Action -> Int]
         /\ closed["tp1"] > 0 => closed'["tp1"] = closed["tp1"]
         /\ size0 > MinQty =>
              /\ closed'["tp1"] > 0 => Takes("tp1", closed'["tp1"])
              /\ closed'["tp2"] > 0 => 100 * closed'["tp2"] <= Tp2ClosePct * size0
              /\ closed'["tp1"] = -1 => qty' \in {0, size0}
              /\ closed'["tp1"] > 0 /\ closed'["tp2"] = -1 => qty' \in {0, size0 - closed'["tp1"]}
              /\ closed'["tp1"] = -1 => closed["tp1"] = -1
              /\ closed'["tp2"] = -1 => closed["tp2"] = -1
<1>1. qty \in Nat /\ closed \in [Action -> Int] /\ size0 \in Nat /\ qty <= size0
  BY DEF Inv, TypeOK, Sane
<1>2. qty' \in Nat /\ qty' <= qty /\ closed' \in [Action -> Int]
  BY <1>1 DEF Fill
<1>3. CASE a = "tp1"
  BY <1>1, <1>2, <1>3 DEF Fill, Action, Inv, Quantities, Takes, ClosePct, Tp1ClosePct,
     Tp2ClosePct
<1>4. CASE a = "tp2"
  BY <1>1, <1>2, <1>4 DEF Fill, Action, Inv, Quantities, Takes, ClosePct, Tp1ClosePct,
     Tp2ClosePct
<1> QED BY <1>3, <1>4, <1>2 DEF Action

LEMMA SubmitCloseStep == ASSUME Inv, NEW a \in Action, SubmitClose(a) PROVE Inv'
<1> DEFINE q == CloseQuantity(a)
<1>1. q \in Nat BY CloseQuantityType DEF Inv
<1>2. size0 > MinQty => Takes(a, q) /\ (a = "tp2" => closed["tp1"] > 0)
  BY CloseQuantityTakes DEF SubmitClose
<1>3. /\ pc = a /\ pc' \in {"idle", WaitStep(a)}
      /\ UNCHANGED <<size0, mark, stop, take, memory, table, dbReady, seen, have, local, result, crashes, anew>>
  BY DEF SubmitClose, DueAt, Resume, Throw, Fill
<1>4. \/ Fill(a, q) /\ UNCHANGED flying
      \/ /\ flying' \in {flying, flying \cup {[action |-> a, quantity |-> q]}}
         /\ UNCHANGED <<qty, closed>>
  BY DEF SubmitClose
<1>5. (local.tp1Done /\ seen >= Tp2Price) \/ a = "tp1"
  BY DEF Inv, TypeOK, CycleKnows, SubmitClose, DueAt, TargetPrice, Tp1Price, Tp2Price,
     Action
<1>6. ~Done(a) BY DEF SubmitClose, DueAt
<1> HIDE DEF q
<1>7. CASE Fill(a, q) /\ UNCHANGED flying
  <2>1. /\ qty' \in Nat /\ qty' <= qty /\ closed' \in [Action -> Int]
        /\ closed["tp1"] > 0 => closed'["tp1"] = closed["tp1"]
        /\ size0 > MinQty =>
              /\ closed'["tp1"] > 0 => Takes("tp1", closed'["tp1"])
              /\ closed'["tp2"] > 0 => 100 * closed'["tp2"] <= Tp2ClosePct * size0
              /\ closed'["tp1"] = -1 => qty' \in {0, size0}
              /\ closed'["tp1"] > 0 /\ closed'["tp2"] = -1 => qty' \in {0, size0 - closed'["tp1"]}
              /\ closed'["tp1"] = -1 => closed["tp1"] = -1
              /\ closed'["tp2"] = -1 => closed["tp2"] = -1
    BY <1>1, <1>2, <1>7, FillKeeps
  <2> HIDE DEF Fill
  <2>2. TypeOK' BY <1>3, <1>7, <2>1 DEF Inv, TypeOK, WaitStep
  <2>3. Single' BY <1>3 DEF Inv, Single
  <2>4. Sane' BY <1>3, <2>1 DEF Inv, TypeOK, Sane, States
  <2>5. CycleKnows'
    BY <1>3, <1>5, <1>6 DEF Inv, TypeOK, Sane, States, CycleKnows, WaitStep, Action,
       Done
  <2>6. Quantities'
    BY <1>3, <1>7, <2>1 DEF Inv, TypeOK, Quantities, WaitStep, Action, Takes
  <2>7. Stops' BY <1>3, <2>1 DEF Inv, TypeOK, Stops, WaitStep, Action
  <2> QED BY <2>2, <2>3, <2>4, <2>5, <2>6, <2>7 DEF Inv
<1>8. CASE /\ flying' \in {flying, flying \cup {[action |-> a, quantity |-> q]}}
           /\ UNCHANGED <<qty, closed>>
  <2>2. TypeOK' BY <1>1, <1>3, <1>8 DEF Inv, TypeOK, WaitStep
  <2>3. Single' BY <1>3 DEF Inv, Single
  <2>4. Sane' BY <1>3, <1>8 DEF Inv, TypeOK, Sane, States
  <2>5. CycleKnows'
    BY <1>3, <1>5, <1>6 DEF Inv, TypeOK, Sane, States, CycleKnows, WaitStep, Action,
       Done
  <2>6. Quantities'
    BY <1>2, <1>3, <1>8 DEF Inv, TypeOK, Quantities, WaitStep, Action, Takes
  <2>7. Stops' BY <1>3, <1>8 DEF Inv, TypeOK, Stops, WaitStep, Action
  <2> QED BY <2>2, <2>3, <2>4, <2>5, <2>6, <2>7 DEF Inv
<1> QED BY <1>4, <1>7, <1>8

LEMMA CloseVerifiedStep == ASSUME Inv, NEW a \in Action, CloseVerified(a) PROVE Inv'
<1>1. TypeOK'
  BY ConstantsOK DEF Inv, TypeOK, Single, CloseVerified, exchange, WaitStep, Action,
     State
<1>2. Single'
  BY ConstantsOK DEF Inv, TypeOK, Single, CloseVerified, exchange
<1>3. Sane'
  BY ConstantsOK DEF Inv, TypeOK, Single, Sane, CycleKnows, CloseVerified, exchange,
     WaitStep, Action, State, States
<1>4. CycleKnows'
  BY ConstantsOK DEF Inv, TypeOK, Single, Sane, CycleKnows, CloseVerified, exchange,
     WaitStep, Action, State, States
<1>5. Quantities'
  BY ConstantsOK DEF Inv, TypeOK, Single, Sane, CycleKnows, Quantities,
     CloseVerified, exchange, WaitStep, Action, State, Takes
<1>6. Stops'
  <2>1. CASE a = "tp1"
    BY <2>1 DEF Inv, TypeOK, CycleKnows, Stops, CloseVerified, WaitStep, exchange,
       State
  <2>2. CASE a = "tp2"
    BY <2>2 DEF Inv, TypeOK, CycleKnows, Stops, CloseVerified, WaitStep, exchange
  <2> QED BY <2>1, <2>2 DEF Action
<1> QED BY <1>1, <1>2, <1>3, <1>4, <1>5, <1>6 DEF Inv

LEMMA CloseUnverifiedStep == ASSUME Inv, NEW a \in Action, CloseUnverified(a) PROVE Inv'
<1>1. TypeOK'
  BY ConstantsOK DEF Inv, TypeOK, Single, CloseUnverified, exchange, Throw, WaitStep
<1>2. Single'
  BY ConstantsOK DEF Inv, TypeOK, Single, CloseUnverified, exchange, Throw, WaitStep
<1>3. Sane'
  BY ConstantsOK DEF Inv, TypeOK, Single, Sane, CycleKnows, CloseUnverified,
     exchange, Throw, WaitStep, Action, State, States, InitialStop, NoTrail, Tp1Price
<1>4. CycleKnows'
  BY DEF Sane, CycleKnows, CloseUnverified, exchange, Throw, WaitStep, Action, State
<1>5. Quantities'
  BY ConstantsOK DEF Inv, TypeOK, Single, Sane, CycleKnows, Quantities,
     CloseUnverified, exchange, Throw, WaitStep, Action, Tp2ClosePct, Takes
<1>6. Stops'
  BY ConstantsOK DEF Inv, TypeOK, Single, Sane, CycleKnows, Stops, CloseUnverified,
     exchange, Throw, WaitStep, Action
<1> QED BY <1>1, <1>2, <1>3, <1>4, <1>5, <1>6 DEF Inv

LEMMA MoveBreakEvenStep == ASSUME Inv, MoveBreakEven PROVE Inv'
<1>1. TypeOK'
  BY ConstantsOK DEF Inv, TypeOK, Single, MoveBreakEven, Resume, Throw, SetTradingStop,
     Action, State, Entry, Tp2Price
<1>2. Single'
  BY ConstantsOK DEF Inv, TypeOK, Single, MoveBreakEven, Resume, Throw, SetTradingStop
<1>3. Sane'
  BY ConstantsOK DEF Inv, TypeOK, Single, Sane, CycleKnows, MoveBreakEven, Resume,
     Throw, SetTradingStop, Action, State, States, Entry, InitialStop, NoTrail
<1>4. CycleKnows'
  BY ConstantsOK DEF Inv, TypeOK, Single, Sane, CycleKnows, MoveBreakEven, Resume,
     Throw, SetTradingStop, Action, State
<1>5. Quantities'
  BY ConstantsOK DEF Inv, TypeOK, Single, Sane, CycleKnows, Quantities,
     MoveBreakEven, Resume, Throw, SetTradingStop, Action, Tp1ClosePct, Tp2ClosePct,
     Takes
<1>6. Stops'
  BY ConstantsOK DEF Inv, TypeOK, Single, Sane, CycleKnows, Stops, MoveBreakEven,
     Resume, Throw, SetTradingStop, Action, State, States, Entry, InitialStop
<1> QED BY <1>1, <1>2, <1>3, <1>4, <1>5, <1>6 DEF Inv

LEMMA RecheckAfterTp1Step == ASSUME Inv, RecheckAfterTp1 PROVE Inv'
<1>1. TypeOK'
  BY ConstantsOK DEF Inv, TypeOK, Single, RecheckAfterTp1, exchange,
     PutManagementState, Recheck
<1>2. Single'
  BY ConstantsOK DEF Inv, TypeOK, Single, RecheckAfterTp1, exchange,
     PutManagementState, Recheck
<1>3. Sane'
  BY ConstantsOK DEF Inv, TypeOK, Single, Sane, CycleKnows, RecheckAfterTp1,
     exchange, PutManagementState, Recheck, Action, State, States, InitialStop, NoTrail,
     Tp1Price
<1>4. CycleKnows'
  BY ConstantsOK DEF Inv, TypeOK, Single, Sane, CycleKnows, RecheckAfterTp1,
     exchange, PutManagementState, Recheck, Action, State
<1>5. Quantities'
  BY ConstantsOK DEF Inv, TypeOK, Single, Sane, CycleKnows, Quantities,
     RecheckAfterTp1, exchange, PutManagementState, Recheck, Action, State, States,
     InitialStop, NoTrail, Tp1Price, Tp2Price, ClosePct, Tp1ClosePct, Tp2ClosePct, Takes
<1>6. Stops'
  BY ConstantsOK DEF Inv, TypeOK, Single, Sane, CycleKnows, Stops, RecheckAfterTp1,
     exchange, PutManagementState, Recheck, Action
<1> QED BY <1>1, <1>2, <1>3, <1>4, <1>5, <1>6 DEF Inv

LEMMA RecheckAfterTp2Step == ASSUME Inv, RecheckAfterTp2 PROVE Inv'
<1>1. TypeOK'
  BY ConstantsOK DEF Inv, TypeOK, Single, RecheckAfterTp2, exchange,
     PutManagementState, Recheck
<1>2. Single'
  BY ConstantsOK DEF Inv, TypeOK, Single, RecheckAfterTp2, exchange,
     PutManagementState, Recheck
<1>3. Sane'
  BY ConstantsOK DEF Inv, TypeOK, Single, Sane, CycleKnows, RecheckAfterTp2,
     exchange, PutManagementState, Recheck, Action, State, States, InitialStop, NoTrail,
     Tp1Price
<1>4. CycleKnows'
  BY ConstantsOK DEF Inv, TypeOK, Single, Sane, CycleKnows, RecheckAfterTp2,
     exchange, PutManagementState, Recheck, Action, State
<1>5. Quantities'
  BY ConstantsOK DEF Inv, TypeOK, Single, Sane, CycleKnows, Quantities,
     RecheckAfterTp2, exchange, PutManagementState, Recheck, Action, Tp2ClosePct, Takes
<1>6. Stops'
  BY ConstantsOK DEF Inv, TypeOK, Single, Sane, CycleKnows, Stops, RecheckAfterTp2,
     exchange, PutManagementState, Recheck, Action
<1> QED BY <1>1, <1>2, <1>3, <1>4, <1>5, <1>6 DEF Inv

LEMMA ReadErrorStep == ASSUME Inv, ReadError PROVE Inv'
<1>1. TypeOK'
  BY ConstantsOK DEF Inv, TypeOK, Single, ReadError, exchange, Throw, Action
<1>2. Single'
  BY ConstantsOK DEF Inv, TypeOK, Single, ReadError, exchange, Throw, Action
<1>3. Sane'
  BY ConstantsOK DEF Inv, Sane, CycleKnows, ReadError, exchange, Throw, Action,
     State, States
<1>4. CycleKnows'
  BY DEF Sane, CycleKnows, ReadError, exchange, Throw, Action, State, States
<1>5. Quantities'
  BY ConstantsOK DEF Inv, TypeOK, Single, Sane, CycleKnows, Quantities, ReadError,
     exchange, Throw, Action, State, Takes
<1>6. Stops'
  BY ConstantsOK DEF Inv, TypeOK, Single, Sane, CycleKnows, Stops, ReadError,
     exchange, Throw, Action, State
<1> QED BY <1>1, <1>2, <1>3, <1>4, <1>5, <1>6 DEF Inv

LEMMA TrailStep == ASSUME Inv, Trail PROVE Inv'
<1>1. TypeOK'
  BY ConstantsOK DEF Inv, TypeOK, Single, Trail, Throw, SetTradingStop, Tighter,
     TrailDue, Action, State, TrailingDistance
<1>2. Single'
  BY ConstantsOK DEF Inv, TypeOK, Single, Trail, Throw, SetTradingStop, Tighter
<1>3. Sane'
  BY ConstantsOK DEF Inv, TypeOK, Single, Sane, CycleKnows, Trail, Throw,
     SetTradingStop, Tighter, TrailDue, Action, State, States, InitialStop, NoTrail
<1>4. CycleKnows'
  BY ConstantsOK DEF Inv, TypeOK, Single, Sane, CycleKnows, Trail, Throw,
     SetTradingStop, Tighter, TrailDue, Action, State, States, InitialStop, NoTrail,
     Tp1Price, Tp2Price, TrailingDistance
<1>5. Quantities'
  BY ConstantsOK DEF Inv, TypeOK, Single, Sane, CycleKnows, Quantities, Trail, Throw,
     SetTradingStop, Tighter, TrailDue, ClosePct, Tp1ClosePct, Tp2ClosePct, Takes
<1>6. Stops'
  BY ConstantsOK DEF Inv, TypeOK, Single, Sane, CycleKnows, Stops, Trail, Throw,
     SetTradingStop, Tighter, TrailDue, Action, State, States, Entry, InitialStop,
     NoTrail, Tp1Price, Tp2Price, TrailingDistance
<1> QED BY <1>1, <1>2, <1>3, <1>4, <1>5, <1>6 DEF Inv

LEMMA NoTrailUpdateStep == ASSUME Inv, NoTrailUpdate PROVE Inv'
<1>1. TypeOK'
  BY ConstantsOK DEF Inv, TypeOK, Single, NoTrailUpdate, exchange, Resume, Tighter
<1>2. Single'
  BY ConstantsOK DEF Inv, TypeOK, Single, NoTrailUpdate, exchange, Resume, Tighter
<1>3. Sane'
  BY ConstantsOK DEF Inv, TypeOK, Single, Sane, CycleKnows, NoTrailUpdate, exchange,
     Resume, Tighter, TrailDue, Action, State, States, InitialStop, NoTrail
<1>4. CycleKnows'
  BY ConstantsOK DEF Inv, TypeOK, Single, Sane, CycleKnows, NoTrailUpdate, exchange,
     Resume, Tighter, TrailDue, Action
<1>5. Quantities'
  BY ConstantsOK DEF Inv, TypeOK, Single, Sane, CycleKnows, Quantities,
     NoTrailUpdate, exchange, Resume, Tighter, TrailDue, ClosePct, Tp1ClosePct,
     Tp2ClosePct, Takes
<1>6. Stops'
  BY ConstantsOK DEF Inv, TypeOK, Single, Sane, CycleKnows, Stops, NoTrailUpdate,
     exchange, Resume, Tighter, TrailDue, Action, State, States, Entry, InitialStop,
     NoTrail, Tp1Price, Tp2Price, TrailingDistance
<1> QED BY <1>1, <1>2, <1>3, <1>4, <1>5, <1>6 DEF Inv

LEMMA SaveStateStep == ASSUME Inv, SaveState PROVE Inv'
<1>1. TypeOK'
  BY ConstantsOK DEF Inv, TypeOK, Single, SaveState, exchange, PutManagementState,
     Action
<1>2. Single'
  BY ConstantsOK DEF Inv, TypeOK, Single, SaveState, exchange, PutManagementState,
     Action
<1>3. Sane'
  BY ConstantsOK DEF Inv, Sane, CycleKnows, SaveState, exchange, PutManagementState,
     Action, State, States
<1>4. CycleKnows'
  BY DEF CycleKnows, SaveState, exchange
<1>5. Quantities'
  BY ConstantsOK DEF Inv, TypeOK, Single, Sane, CycleKnows, Quantities, SaveState,
     exchange, PutManagementState, Action, State, Takes
<1>6. Stops'
  BY ConstantsOK DEF Inv, TypeOK, Single, Sane, CycleKnows, Stops, SaveState,
     exchange, PutManagementState, Action, State
<1> QED BY <1>1, <1>2, <1>3, <1>4, <1>5, <1>6 DEF Inv

LEMMA DegradeStep == ASSUME Inv, Degrade PROVE Inv'
<1>1. TypeOK'
  BY DEF Inv, TypeOK, Single, Degrade, exchange
<1>2. Single'
  BY DEF Inv, TypeOK, Single, Degrade, exchange
<1>3. Sane'
  BY ConstantsOK DEF Inv, Sane, CycleKnows, Degrade, exchange, Action, State, States,
     InitialStop
<1>4. CycleKnows'
  BY ConstantsOK DEF Inv, Sane, CycleKnows, Degrade, exchange
<1>5. Quantities'
  BY ConstantsOK DEF Inv, TypeOK, Single, Sane, CycleKnows, Quantities, Degrade,
     exchange, Action, State, States, ClosePct, Tp1ClosePct, Tp2ClosePct, Takes
<1>6. Stops'
  BY ConstantsOK DEF Inv, TypeOK, Single, Sane, CycleKnows, Stops, Degrade, exchange,
     Action, State, States
<1> QED BY <1>1, <1>2, <1>3, <1>4, <1>5, <1>6 DEF Inv

LEMMA CrashStep == ASSUME Inv, Crash PROVE Inv'
<1>1. TypeOK'
  <2>1. CASE CallFaults
    BY <2>1 DEF Inv, TypeOK, Crash, exchange
  <2>2. CASE ~CallFaults
    BY <2>2 DEF Inv, TypeOK, Crash, exchange
  <2> QED BY <2>1, <2>2
<1>2. Single'
  BY DEF Inv, TypeOK, Single, Crash, exchange
<1>3. Sane'
  BY ConstantsOK DEF Inv, Sane, CycleKnows, Crash, exchange, Action, State, States,
     InitialStop
<1>4. CycleKnows'
  BY DEF CycleKnows, Crash, exchange
<1>5. Quantities'
  BY ConstantsOK DEF Inv, TypeOK, Single, Sane, CycleKnows, Quantities, Crash,
     exchange, Action, State, States, ClosePct, Tp1ClosePct, Tp2ClosePct, Takes
<1>6. Stops'
  BY ConstantsOK DEF Inv, TypeOK, Single, Sane, CycleKnows, Stops, Crash, exchange,
     Action, State, States
<1> QED BY <1>1, <1>2, <1>3, <1>4, <1>5, <1>6 DEF Inv

LEMMA PriceMovesStep == ASSUME Inv, PriceMoves PROVE Inv'
<1>1. TypeOK'
  BY DEF Inv, TypeOK, Single, PriceMoves, Action
<1>2. Single'
  BY DEF Inv, TypeOK, Single, PriceMoves, Action
<1>3. Sane'
  BY ConstantsOK DEF Inv, Sane, CycleKnows, PriceMoves, Action, State, States,
     InitialStop, NoTrail
<1>4. CycleKnows'
  BY ConstantsOK DEF Inv, Sane, CycleKnows, PriceMoves, Action
<1>5. Quantities'
  BY ConstantsOK DEF Inv, Sane, CycleKnows, Quantities, PriceMoves, Tp1ClosePct,
     Tp2ClosePct, Takes
<1>6. Stops'
  BY ConstantsOK DEF Inv, Stops, PriceMoves
<1> QED BY <1>1, <1>2, <1>3, <1>4, <1>5, <1>6 DEF Inv

LEMMA LateCloseStep == ASSUME Inv, LateClose PROVE Inv'
<1>1. TypeOK'
  BY DEF Inv, TypeOK, Single, LateClose, Fill
<1>2. Single'
  BY DEF Inv, TypeOK, Single, LateClose, Fill
<1>3. Sane'
  BY ConstantsOK DEF Inv, TypeOK, Single, Sane, CycleKnows, LateClose, Fill, Action,
     State, States, InitialStop
<1>4. CycleKnows'
  BY ConstantsOK DEF Inv, Sane, CycleKnows, LateClose, Fill
<1>5. Quantities'
  BY ConstantsOK DEF Inv, TypeOK, Single, Sane, CycleKnows, Quantities, LateClose,
     Fill, Action, State, States, InitialStop, NoTrail, Tp1Price, Tp2Price, ClosePct,
     Tp1ClosePct, Tp2ClosePct, Takes
<1>6. Stops'
  BY ConstantsOK DEF Inv, TypeOK, Single, Sane, CycleKnows, Stops, LateClose, Fill,
     Action, State, States
<1> QED BY <1>1, <1>2, <1>3, <1>4, <1>5, <1>6 DEF Inv

LEMMA StopTriggersStep == ASSUME Inv, StopTriggers PROVE Inv'
<1>1. TypeOK'
  BY DEF Inv, TypeOK, Single, StopTriggers, Action
<1>2. Single'
  BY DEF Inv, TypeOK, Single, StopTriggers, Action
<1>3. Sane'
  BY ConstantsOK DEF Inv, TypeOK, Single, Sane, CycleKnows, StopTriggers, Action,
     State, States, InitialStop, NoTrail
<1>4. CycleKnows'
  BY ConstantsOK DEF Inv, Sane, CycleKnows, StopTriggers, Action
<1>5. Quantities'
  BY ConstantsOK DEF Inv, Sane, CycleKnows, Quantities, StopTriggers, Tp1ClosePct,
     Tp2ClosePct, Takes
<1>6. Stops'
  BY DEF Stops, StopTriggers
<1> QED BY <1>1, <1>2, <1>3, <1>4, <1>5, <1>6 DEF Inv

LEMMA TakeProfitTriggersStep == ASSUME Inv, TakeProfitTriggers PROVE Inv'
<1>1. TypeOK'
  BY DEF Inv, TypeOK, Single, TakeProfitTriggers, Action
<1>2. Single'
  BY DEF Inv, TypeOK, Single, TakeProfitTriggers, Action
<1>3. Sane'
  BY ConstantsOK DEF Inv, TypeOK, Single, Sane, CycleKnows, TakeProfitTriggers,
     Action, State, States, InitialStop, NoTrail
<1>4. CycleKnows'
  BY ConstantsOK DEF Inv, Sane, CycleKnows, TakeProfitTriggers, Action
<1>5. Quantities'
  BY ConstantsOK DEF Inv, Sane, CycleKnows, Quantities, TakeProfitTriggers,
     Tp1ClosePct, Tp2ClosePct, Takes
<1>6. Stops'
  BY DEF Stops, TakeProfitTriggers
<1> QED BY <1>1, <1>2, <1>3, <1>4, <1>5, <1>6 DEF Inv

-----------------------------------------------------------------------------
(* The theorems.                                                            *)

LEMMA InvInit == ASSUME Init PROVE Inv
<1>1. anew \in BOOLEAN BY DEF Init
<1>2. TypeOK
  BY <1>1, ConstantsOK DEF Init, TypeOK, State, NewState, NoTrail, InitialStop, Entry, Tp2Price, Action
<1> QED
  BY <1>2, ConstantsOK DEF Init, Inv, Single, Sane, CycleKnows, Quantities, Stops,
     States, State, NewState, NoTrail, InitialStop, Entry, Tp1Price, Tp2Price, Action

LEMMA InvStep == ASSUME Inv, [Next]_vars PROVE Inv'
<1>1. CASE Cycle
  BY <1>1, BeginCycleStep, CloseMissingPositionStep, SkipTargetStep,
     CloseBelowMinimumStep, FindPriorCloseStep, SubmitCloseStep, CloseVerifiedStep,
     CloseUnverifiedStep, MoveBreakEvenStep, RecheckAfterTp1Step, RecheckAfterTp2Step,
     ReadErrorStep, TrailStep, NoTrailUpdateStep, SaveStateStep DEF Cycle
<1>2. CASE Degrade BY <1>2, DegradeStep
<1>3. CASE Crash BY <1>3, CrashStep
<1>4. CASE PriceMoves BY <1>4, PriceMovesStep
<1>5. CASE LateClose BY <1>5, LateCloseStep
<1>6. CASE StopTriggers BY <1>6, StopTriggersStep
<1>7. CASE TakeProfitTriggers BY <1>7, TakeProfitTriggersStep
<1>8. CASE UNCHANGED vars
  BY <1>8 DEF vars, exchange, Inv, TypeOK, Single, Sane, CycleKnows, Quantities, Stops,
     States, Takes
<1> QED BY <1>1, <1>2, <1>3, <1>4, <1>5, <1>6, <1>7, <1>8 DEF Next

\* The inductive invariant holds: each action of the cycle, the process and the
\* exchange keeps it.
THEOREM InvHolds == Spec => []Inv
<1>1. Init => Inv BY InvInit
<1>2. Inv /\ [Next]_vars => Inv' BY InvStep
<1> QED BY <1>1, <1>2, PTL DEF Spec

\* Whatever tradeManager.cycle, the exchange and a restart do to a trade, every
\* variable keeps its type.
THEOREM TypeCorrect == Spec => []TypeOK
<1>1. Inv => TypeOK BY DEF Inv
<1> QED BY <1>1, InvHolds, PTL

\* For every filled quantity above the minimum, however often cycles are repeated,
\* fail or restart, and whenever a close order given up by closeFraction still
\* fills, the two targets take at most 70 percent: the runner stays for the trail.
THEOREM RunnerIsKept == Spec => []RunnerKept
<1>1. Inv => RunnerKept
  BY ConstantsOK DEF Inv, TypeOK, Quantities, RunnerKept, TakenQty, Taken, Takes,
     ClosePct, Tp1ClosePct, Tp2ClosePct, Action
<1> QED BY <1>1, InvHolds, PTL

\* A stored management state that has TP1 done belongs to a position whose stop
\* setTradingStop has moved to break-even, and no later cycle, not even one that
\* starts over with a new state, moves it below.
THEOREM BreakEvenIsHeld == Spec => []BreakEvenHeld
<1>1. Inv => BreakEvenHeld BY DEF Inv, Stops, BreakEvenHeld
<1> QED BY <1>1, InvHolds, PTL

-----------------------------------------------------------------------------
(* The trail.                                                               *)

\* No step of the cycle, the process or the exchange loosens a remembered trail.
LEMMA TrailsStep == ASSUME Inv, Inv', Trails, [Next]_vars PROVE Trails'
<1>1. ASSUME BeginCycle PROVE Trails'
  BY <1>1, ConstantsOK DEF Inv, TypeOK, Single, Sane, CycleKnows, Stops,
     Trails, BeginCycle, exchange, PutManagementState, Stored, NewState, Action,
     NoTrail
<1>2. ASSUME CloseMissingPosition PROVE Trails'
  BY <1>2, ConstantsOK DEF Inv, TypeOK, Single, Sane, CycleKnows, Stops,
     Trails, CloseMissingPosition, exchange, Stored, StampStored, Action, State
<1>3. ASSUME NEW a \in Action, SkipTarget(a) PROVE Trails'
  BY <1>3, ConstantsOK DEF Inv, Stops, Trails, SkipTarget, exchange,
     Resume, Done, NextStep, Action, NoTrail
<1>4. ASSUME NEW a \in Action, CloseBelowMinimum(a) PROVE Trails'
  BY <1>4, ConstantsOK DEF Inv, Stops, Trails, CloseBelowMinimum,
     exchange, Throw, Done, DueAt, Action, NoTrail
<1>5. ASSUME NEW a \in Action, FindPriorClose(a) PROVE Trails'
  BY <1>5, ConstantsOK DEF Inv, Stops, Trails, FindPriorClose, exchange,
     Resume, Done, DueAt, WaitStep, Action, State, States, Entry, InitialStop, NoTrail
<1>6. ASSUME NEW a \in Action, SubmitClose(a) PROVE Trails'
  <2>1. CloseQuantity(a) \in Nat BY CloseQuantityType, <1>6 DEF Inv
  <2>2. /\ pc # "idle" /\ qty' <= qty /\ qty \in Nat
        /\ UNCHANGED <<stop, memory, table, dbReady, local, anew>>
    BY <1>6, <2>1 DEF SubmitClose, DueAt, Fill, Resume, Throw, Action, Inv, TypeOK
  <2> QED BY <2>2 DEF Trails, Inv, TypeOK
<1>7. ASSUME NEW a \in Action, CloseVerified(a) PROVE Trails'
  BY <1>7, ConstantsOK DEF Inv, TypeOK, Single, Sane, CycleKnows, Stops,
     Trails, CloseVerified, exchange, WaitStep, Action, State, States, Entry, InitialStop,
     NoTrail
<1>8. ASSUME NEW a \in Action, CloseUnverified(a) PROVE Trails'
  BY <1>8, ConstantsOK DEF Inv, Stops, Trails, CloseUnverified, exchange,
     Throw, WaitStep, Action, State
<1>9. ASSUME MoveBreakEven PROVE Trails'
  <2>1. /\ stop' \in {stop, Entry} /\ pc = "breakeven"
        /\ UNCHANGED <<qty, memory, table, dbReady, local, anew>>
    BY <1>9 DEF MoveBreakEven, SetTradingStop, Resume, Throw
  <2>2. ~local.tp2Done /\ \A m \in memory : ~m.tp2Done
    BY <2>1 DEF Inv, CycleKnows
  <2>3. ~anew => \A t \in table : ~t.tp2Done BY <2>1, <2>2 DEF Trails
  <2> QED BY <2>1, <2>2 DEF Trails
<1>10. ASSUME RecheckAfterTp1 PROVE Trails'
  BY <1>10, ConstantsOK DEF Inv, TypeOK, Single, Sane, CycleKnows, Stops,
     Trails, RecheckAfterTp1, exchange, PutManagementState, Recheck, Action, State
<1>11. ASSUME RecheckAfterTp2 PROVE Trails'
  BY <1>11, ConstantsOK DEF Inv, TypeOK, Single, Sane, CycleKnows, Stops,
     Trails, RecheckAfterTp2, exchange, PutManagementState, Recheck, Action, State
<1>12. ASSUME ReadError PROVE Trails'
  BY <1>12, ConstantsOK DEF Inv, Stops, Trails, ReadError, exchange,
     Throw, Action, State, States, Entry, InitialStop, NoTrail
<1>13. ASSUME Trail PROVE Trails'
  <2>1. /\ stop' \in {stop, Tighter} /\ pc = "trail" /\ local' \in {local, [local EXCEPT !.trailingStop = Tighter]}
        /\ pc' # "idle" => stop' = Tighter /\ local' = [local EXCEPT !.trailingStop = Tighter]
        /\ UNCHANGED <<qty, memory, table, dbReady, anew>>
    BY <1>13 DEF Trail, SetTradingStop, Throw
  <2>2. Tighter \in Nat /\ Tighter > local.trailingStop /\ local \in State
    BY <1>13 DEF Trail, TrailDue, Tighter, Inv, TypeOK, State, TrailingDistance
  <2> HIDE DEF Tighter
  <2>3. /\ \A m \in memory : m.trailingStop <= Tighter /\ m.trailingStop \in Nat
        /\ \A t \in table : t.trailingStop \in Nat
        /\ stop \in Nat /\ memory # {}
    BY <2>1, <2>2 DEF Inv, TypeOK, CycleKnows, State, Trails
  <2>4. ~anew => \A t \in table : t.tp2Done => t.trailingStop <= Tighter
    BY <2>2, <2>3 DEF Trails
  <2> QED BY <2>1, <2>2, <2>3, <2>4 DEF Trails, State
<1>14. ASSUME NoTrailUpdate PROVE Trails'
  BY <1>14, ConstantsOK DEF Inv, Stops, Trails, NoTrailUpdate, exchange,
     Resume, Tighter, TrailDue, Action, NoTrail
<1>15. ASSUME SaveState PROVE Trails'
  BY <1>15, ConstantsOK DEF Inv, TypeOK, Single, Sane, CycleKnows, Stops,
     Trails, SaveState, exchange, PutManagementState, Action, State, States, Entry,
     InitialStop, NoTrail
<1>16. ASSUME Degrade PROVE Trails'
  BY <1>16, ConstantsOK DEF Inv, Stops, Trails, Degrade, exchange,
     InitialStop, NoTrail
<1>17. ASSUME Crash PROVE Trails'
  <2>1. memory' = {} /\ pc' = "idle" /\ UNCHANGED <<qty, stop, table, anew>>
    BY <1>17 DEF Crash, exchange
  <2> QED BY <2>1 DEF Trails
<1>18. ASSUME PriceMoves PROVE Trails'
  BY <1>18, ConstantsOK DEF Inv, Stops, Trails, PriceMoves, Action,
     NoTrail
<1>19. ASSUME LateClose PROVE Trails'
  BY <1>19, ConstantsOK DEF Inv, TypeOK, Single, Sane, CycleKnows, Stops,
     Trails, LateClose, Fill, InitialStop, NoTrail
<1>20. ASSUME StopTriggers PROVE Trails'
  BY <1>20, ConstantsOK DEF Inv, Stops, Trails, StopTriggers, Action,
     NoTrail
<1>21. ASSUME TakeProfitTriggers PROVE Trails'
  BY <1>21, ConstantsOK DEF Inv, Stops, Trails, TakeProfitTriggers,
     Action, NoTrail
<1>22. CASE UNCHANGED vars
  BY <1>22 DEF Trails, vars, exchange
<1> QED
  BY <1>1, <1>2, <1>3, <1>4, <1>5, <1>6, <1>7, <1>8, <1>9, <1>10, <1>11, <1>12, <1>13,
     <1>14, <1>15, <1>16, <1>17, <1>18, <1>19, <1>20, <1>21, <1>22 DEF Next, Cycle

\* The stop on the exchange is never looser than a trail that the Map entry or the
\* row remembers: cycle only tightens, and a state is stored after the stop has
\* moved.  Only a process that begins the trade anew beside an unreadable row ends it.
THEOREM TrailIsHeld == Spec => []TrailHeld
<1>1. Init => Inv /\ Trails
  BY InvInit, ConstantsOK DEF Init, Trails
<1>2. Inv /\ Trails /\ [Next]_vars => Inv' /\ Trails' BY InvStep, TrailsStep
<1>3. Trails => TrailHeld BY DEF Trails, TrailHeld
<1> QED BY <1>1, <1>2, <1>3, PTL DEF Spec
=============================================================================
