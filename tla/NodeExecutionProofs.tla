------------------------ MODULE NodeExecutionProofs ------------------------
(***************************************************************************)
(* Proofs about NodeExecution for any number of candidates, slots,         *)
(* symbols, deliveries and crashes, for any mix of the two channels and    *)
(* whatever PostgreSQL and the gateways do: no theorem assumes more of the *)
(* constants than ConstantsOK, and what a deployment loses is a condition  *)
(* on the state (Sole, Kept, Clean).  Inv carries type correctness, the    *)
(* ownership of commands, single submission and the slots' exclusiveness;  *)
(* Flow adds what the exchange may still do to a command and gives the     *)
(* safety of giving a command up and the command's lifecycle.              *)
(***************************************************************************)
EXTENDS NodeExecution, TLAPS, FiniteSetTheorems

-----------------------------------------------------------------------------
(* The inductive invariant.                                                 *)

\* A slot that processes something processes a candidate, and only a slot that
\* waits for createOrder has a request.
Working ==
  \A s \in Slot :
    /\ pc[s] \in Busy => cand[s] \in Cand
    /\ req[s] # "none" => pc[s] = "wait"

\* The state a slot believes its command to be in, at each await.
ViewAt(l) ==
  CASE l \in {"evidence", "recovered", "prepare1", "settings", "prepare2", "intent"} -> {"RESERVED"}
    [] l \in {"send", "wait", "failing", "resolve", "protect"} -> {"ORDER_PENDING"}
    [] l = "manage" -> {"PARTIALLY_FILLED", "MANAGING"}
    [] OTHER -> {"CLOSING"}

Views == \A s \in Slot : pc[s] \in Busy => view[s] \in ViewAt(pc[s])

\* The stored command that a slot's clone must agree with: in memory when it is
\* there and else in the table.
Holds(c, s, st) ==
  IF mem[c] # "NONE" THEN mem[c] = st /\ memSlot[c] = s ELSE db[c] = st /\ dbSlot[c] = s

\* A command that came once is stored as the slot that works on it believes.
Owner ==
  \A s \in Slot : pc[s] \in Busy /\ Sole(cand[s]) => Holds(cand[s], s, view[s])

\* Memory holds what was delivered to it and, once PostgreSQL is lost, shadows
\* of rows; an active command has a slot.
Channels ==
  /\ \A c \in Cand : mem[c] # "NONE" =>
       deliveries[c] # 0 \/ (db[c] # "NONE" /\ life = "running" /\ ~dbReady)
  /\ life = "starting" => MemActive = {} /\ \A s \in Slot : pc[s] = "idle"
  /\ \A c \in MemActive : memSlot[c] \in Slot
  /\ \A c \in DbActive : dbSlot[c] \in Slot

\* A kept command that can still reach createOrder has not been there.
FreshCommand(c) ==
  /\ submits[c] \in {0, 1}
  /\ Status(c) \in {"NONE", "AVAILABLE", "RESERVED"} => submits[c] = 0

Fresh ==
  /\ \A c \in Cand : Kept(c) => FreshCommand(c)
  /\ \A s \in Slot : pc[s] = "send" /\ Kept(cand[s]) => submits[cand[s]] = 0

\* The active commands the process can see that bear a slot, in memory or a row.
Held(s) ==
  {c \in MemActive : memSlot[c] = s} \cup
    (IF dbReady THEN {c \in DbActive : dbSlot[c] = s} ELSE {})

\* A slot that claims bears none, and a slot that works only the one it works on.
OnlyOwn(s) ==
  /\ pc[s] \in {"claim", "take"} => Held(s) = {}
  /\ pc[s] \in Busy => Held(s) \subseteq {cand[s]}

\* No slot bears two commands, and no two active rows have one slot.
Slots ==
  /\ \A s \in Slot : OnlyOwn(s) /\ \A c, d \in Held(s) : c = d
  /\ \A c, d \in DbActive : dbSlot[c] = dbSlot[d] => c = d

Typed == TypeOK /\ Working
Inv == Typed /\ Views /\ Owner /\ Channels /\ Fresh /\ Slots

-----------------------------------------------------------------------------
(* Type correctness.                                                        *)

\* A command transition keeps the repository typed and changes nothing else.
LEMMA WriteTransitionTyped ==
  ASSUME TypeOK, NEW s \in Slot, NEW c \in Cand, NEW next \in CommandState,
         WriteTransition(s, c, next)
  PROVE  /\ mem' \in [Cand -> CommandState] /\ memSlot' \in [Cand -> Slot \cup {NoSlot}]
         /\ db' \in [Cand -> CommandState] /\ dbSlot' \in [Cand -> Slot \cup {NoSlot}]
         /\ dbReady' \in BOOLEAN
  <1>1. Shadow(s, c, next) => /\ mem' \in [Cand -> CommandState]
                             /\ memSlot' \in [Cand -> Slot \cup {NoSlot}]
    BY DEF Shadow, TypeOK
  <1>2. [db EXCEPT ![c] = next] \in [Cand -> CommandState] /\ db \in [Cand -> CommandState]
    BY DEF TypeOK
  <1>3. mem' \in [Cand -> CommandState] /\ memSlot' \in [Cand -> Slot \cup {NoSlot}]
    BY <1>1 DEF WriteTransition, TypeOK
  <1>4. db' = db \/ db' = [db EXCEPT ![c] = next]
    BY DEF WriteTransition
  <1>5. dbSlot' = dbSlot /\ dbReady' \in BOOLEAN
    BY DEF WriteTransition, RecordEvidence, TypeOK
  <1>6. QED
    BY <1>2, <1>3, <1>4, <1>5 DEF TypeOK

\* What a cycle did to a position's stops before it failed or ended is a plan.
LEMMA StopsTyped ==
  ASSUME TypeOK, NEW s \in Slot, StopsMoved(s), cand[s] \in Cand
  PROVE  stops' \in [Symbol -> Stops]
  <1>1. /\ PlanOf(s) \in Stops
        /\ <<cand[s], "moved">> \in Stops
    BY DEF PlanOf, Stops
  <1>2. /\ stops \in [Symbol -> Stops]
        /\ SymbolOf[cand[s]] \in Symbol
    BY ConstantsOK DEF TypeOK
  <1>3. \/ stops' = stops
        \/ stops' = [stops EXCEPT ![SymbolOf[cand[s]]] = PlanOf(s)]
        \/ stops' = [stops EXCEPT ![SymbolOf[cand[s]]] = <<cand[s], "moved">>]
    BY DEF StopsMoved
  <1>4. QED
    BY <1>1, <1>2, <1>3

\* Taking up an active command leaves the slot's locals typed and working.
LEMMA PickTyped ==
  ASSUME Typed, NEW s \in Slot, NEW c \in Cand, NEW st \in ACTIVE, Pick(s, c, st),
         pc[s] \in Looking, UNCHANGED req
  PROVE  /\ pc' \in [Slot -> PcValue]
         /\ cand' \in [Slot -> Cand \cup {NoCand}]
         /\ view' \in [Slot -> CommandState]
         /\ Working'
  BY DEF Typed, TypeOK, Working, Pick, EntryPoint, ACTIVE, CommandState, PcValue,
         Looking, Busy

\* Every step keeps the types, and a busy slot keeps a command to work on.
LEMMA TypedStep == ASSUME Typed, [Next]_vars PROVE Typed'
<1> USE ConstantsOK DEF Typed, TypeOK, Working, process, local, exchange, store, environment
<1>1. CASE \E c \in Cand : AcceptDirectCandidate(c)
  BY <1>1 DEF AcceptDirectCandidate, CommandState
<1>2. CASE \E c \in Cand : PublishExecutionCommand(c)
  BY <1>2 DEF PublishExecutionCommand, CommandState
<1>3. CASE Coordinate
  BY <1>3 DEF Coordinate
<1>4. CASE Crash
  <2>1. {cand[s] : s \in {t \in Slot : req[t] = "net"}} \subseteq Cand
    BY DEF Busy
  <2>2. late' \subseteq Cand
    BY <1>4, <2>1 DEF Crash
  <2>3. recovery' \in BOOLEAN /\ dbReady' \in BOOLEAN /\ life' \in {"starting", "running"}
    BY <1>4 DEF Crash
  <2>4. /\ mem' \in [Cand -> CommandState] /\ memSlot' \in [Cand -> Slot \cup {NoSlot}]
        /\ pc' \in [Slot -> PcValue] /\ cand' \in [Slot -> Cand \cup {NoCand}]
        /\ view' \in [Slot -> CommandState] /\ crashes' \in Nat
        /\ req' \in [Slot -> {"none", "net", "ok", "rejected"}]
    BY <1>4 DEF Crash, CommandState, PcValue, Looking
  <2>5. Working'
    BY <1>4 DEF Crash, Busy
  <2>6. /\ db' \in [Cand -> CommandState] /\ dbSlot' \in [Cand -> Slot \cup {NoSlot}]
        /\ sized' \subseteq Slot /\ memSized' \subseteq Cand /\ stops' \in [Symbol -> Stops]
        /\ misread' \subseteq Cand /\ forgotten' \subseteq Cand
        /\ order' \in [Cand -> OrderState] /\ open' \subseteq Cand
        /\ submits' \in [Cand -> Nat] /\ deliveries' \in [Cand -> Nat]
    BY <1>4 DEF Crash
  <2>7. QED
    BY <2>2, <2>3, <2>4, <2>5, <2>6
<1>5. ASSUME NEW s \in Slot, OwnedActiveCommand(s) PROVE Typed'
  <2>1. ASSUME NEW c \in Cand, NEW st \in ACTIVE, Pick(s, c, st), dbReady' \in BOOLEAN,
               sized' \subseteq Slot
        PROVE  Typed'
    <3>1. pc[s] \in Looking /\ UNCHANGED <<process, store, exchange, environment>>
      BY <1>5 DEF OwnedActiveCommand, Looking
    <3>2. QED
      BY <2>1, <3>1, PickTyped
  <2>2. CASE \E c \in MemActive \cup DbActive : \E st \in ACTIVE :
               Pick(s, c, st) /\ sized' \subseteq Slot /\ dbReady' \in BOOLEAN
    BY <2>1, <2>2 DEF MemActive, DbActive
  <2>3. CASE Goto(s, "claim") /\ dbReady' \in BOOLEAN
    BY <1>5, <2>3 DEF OwnedActiveCommand, Goto, PcValue, Looking, Busy
  <2>4. dbReady' \in BOOLEAN
    BY <1>5 DEF OwnedActiveCommand, RecordEvidence
  <2>5. QED
    BY <1>5, <2>2, <2>3, <2>4 DEF OwnedActiveCommand, PickMemory, PickRow, MemActive, DbActive
<1>6. ASSUME NEW s \in Slot, ScanActive(s) PROVE Typed'
  BY <1>6
  DEF ScanActive, Goto, RecordEvidence, CommandState, ACTIVE, TERMINAL, PcValue, Looking,
      Busy
<1>7. ASSUME NEW s \in Slot, TakeDirect(s) PROVE Typed'
  BY <1>7
  DEF TakeDirect, PickMemory, Pick, EntryPoint, CommandState, ACTIVE, TERMINAL, PcValue, Looking,
      Busy
<1>8. ASSUME NEW s \in Slot, TakeRow(s) PROVE Typed'
  <2>a. dbReady' \in BOOLEAN
    BY <1>8 DEF TakeRow
  <2>b. \/ UNCHANGED <<db, dbSlot>>
        \/ \E c \in Cand : /\ db' = [db EXCEPT ![c] = "RESERVED"]
                           /\ dbSlot' = [dbSlot EXCEPT ![c] = s]
    BY <1>8 DEF TakeRow
  <2>1. /\ db' \in [Cand -> CommandState] /\ dbSlot' \in [Cand -> Slot \cup {NoSlot}]
        /\ dbReady' \in BOOLEAN
    BY <2>a, <2>b DEF CommandState, ACTIVE
  <2>2. CASE \E c \in Cand : PickRow(s, c, "RESERVED")
    BY <1>8, <2>1, <2>2, PickTyped DEF TakeRow, PickRow, ACTIVE, Looking
  <2>3. CASE Yield(s)
    BY <1>8, <2>1, <2>3 DEF TakeRow, Yield, CommandState, PcValue, Looking, Busy
  <2>4. QED
    BY <1>8, <2>2, <2>3 DEF TakeRow
<1>9. ASSUME NEW s \in Slot, HasExchangeEvidence(s) PROVE Typed'
  BY <1>9
  DEF HasExchangeEvidence, Goto, CommandState, ACTIVE, TERMINAL, PcValue, Looking, Busy
<1>10. ASSUME NEW s \in Slot, RecoverEvidence(s) PROVE Typed'
  BY <1>10, WriteTransitionTyped
  DEF RecoverEvidence, TransitionTo, CommandState, ACTIVE, TERMINAL, PcValue, Looking,
      Busy
<1>11. ASSUME NEW s \in Slot, PrepareLiveExecution(s) PROVE Typed'
  BY <1>11
  DEF PrepareLiveExecution, Goto, CommandState, ACTIVE, TERMINAL, PcValue, Looking, Busy
<1>12. ASSUME NEW s \in Slot, EnsureAccountSettings(s) PROVE Typed'
  BY <1>12
  DEF EnsureAccountSettings, Goto, CommandState, ACTIVE, TERMINAL, PcValue, Looking, Busy
<1>13. ASSUME NEW s \in Slot, ExecutionWait(s) PROVE Typed'
  BY <1>13
  DEF ExecutionWait, Yield, RecordEvidence, CommandState, ACTIVE, TERMINAL, PcValue,
      Looking, Busy
<1>14. ASSUME NEW s \in Slot, PreSubmissionBlocked(s) PROVE Typed'
  BY <1>14, WriteTransitionTyped
  DEF PreSubmissionBlocked, TransitionLast, Yield, CommandState, ACTIVE, TERMINAL,
      PcValue, Looking, Busy
<1>15. ASSUME NEW s \in Slot, SubmissionIntent(s) PROVE Typed'
  BY <1>15, WriteTransitionTyped
  DEF SubmissionIntent, TransitionTo, CommandState, ACTIVE, TERMINAL, PcValue, Looking,
      Busy
<1>16. ASSUME NEW s \in Slot, CreateOrder(s) PROVE Typed'
  BY <1>16 DEF CreateOrder, Goto, CommandState, ACTIVE, TERMINAL, PcValue, Looking, Busy
<1>17. ASSUME NEW s \in Slot, Acknowledged(s) PROVE Typed'
  BY <1>17
  DEF Acknowledged, Goto, RecordEvidence, CommandState, ACTIVE, TERMINAL, PcValue,
      Looking, Busy
<1>18. ASSUME NEW s \in Slot, OrderRejected(s) PROVE Typed'
  BY <1>18
  DEF OrderRejected, Goto, RecordEvidence, CommandState, ACTIVE, TERMINAL, PcValue,
      Looking, Busy
<1>19. ASSUME NEW s \in Slot, GatewayError(s) PROVE Typed'
  BY <1>19
  DEF GatewayError, Goto, RecordEvidence, CommandState, ACTIVE, TERMINAL, PcValue,
      Looking, Busy
<1>20. ASSUME NEW s \in Slot, FailRejected(s) PROVE Typed'
  BY <1>20, WriteTransitionTyped
  DEF FailRejected, TransitionLast, Yield, CommandState, ACTIVE, TERMINAL, PcValue,
      Looking, Busy
<1>21. ASSUME NEW s \in Slot, SubmissionUnknown(s) PROVE Typed'
  <2>1. cand[s] \in Cand
    BY <1>21 DEF SubmissionUnknown, Busy
  <2>2. late' = late \/ late' = late \cup {cand[s]}
    BY <1>21 DEF SubmissionUnknown
  <2>3. dbReady' \in BOOLEAN
    BY <1>21 DEF SubmissionUnknown, RecordEvidence
  <2>4. QED
    BY <1>21, <2>1, <2>2, <2>3
    DEF SubmissionUnknown, Yield, CommandState, PcValue, Looking, Busy
<1>22. ASSUME NEW s \in Slot, WaitForResolution(s) PROVE Typed'
  <2>1. dbReady' \in BOOLEAN
    BY <1>22 DEF WaitForResolution, RecordEvidence
  <2>2. CASE Yield(s)
    BY <1>22, <2>1, <2>2 DEF WaitForResolution, Yield, CommandState, PcValue, Looking, Busy
  <2>3. CASE \E l \in {"protect", "failing"} : Goto(s, l)
    BY <1>22, <2>1, <2>3 DEF WaitForResolution, Goto, PcValue, Looking, Busy
  <2>4. QED
    BY <1>22, <2>2, <2>3 DEF WaitForResolution
<1>23. ASSUME NEW s \in Slot, EnsureProtection(s) PROVE Typed'
  BY <1>23, WriteTransitionTyped
  DEF EnsureProtection, TransitionLast, Yield, PlanOf, Stops, CommandState, ACTIVE, TERMINAL,
      PcValue,
      Looking, Busy
<1>24. ASSUME NEW s \in Slot, CycleError(s) PROVE Typed'
  <2>1. stops' \in [Symbol -> Stops]
    BY <1>24, StopsTyped DEF CycleError, Busy
  <2>2. QED
    BY <1>24, <2>1 DEF CycleError, Yield, CommandState, PcValue, Looking, Busy
<1>25. ASSUME NEW s \in Slot, ManageCycle(s) PROVE Typed'
  <2>1. stops' \in [Symbol -> Stops]
    BY <1>25, StopsTyped DEF ManageCycle, Busy
  <2>2. CASE TransitionLast(s, "MANAGING")
    BY <1>25, <2>1, <2>2, WriteTransitionTyped
    DEF ManageCycle, TransitionLast, Yield, CommandState, ACTIVE, TERMINAL, PcValue,
        Looking, Busy
  <2>3. CASE Yield(s) /\ dbReady' \in BOOLEAN /\ UNCHANGED store
    BY <1>25, <2>1, <2>3 DEF ManageCycle, Yield, CommandState, PcValue, Looking, Busy
  <2>4. QED
    BY <1>25, <2>2, <2>3 DEF ManageCycle, RecordEvidence
<1>26. ASSUME NEW s \in Slot, PositionMissing(s) PROVE Typed'
  BY <1>26, WriteTransitionTyped
  DEF PositionMissing, TransitionTo, CommandState, ACTIVE, TERMINAL, PcValue, Looking,
      Busy
<1>27. ASSUME NEW s \in Slot, FinishClosed(s) PROVE Typed'
  BY <1>27, WriteTransitionTyped
  DEF FinishClosed, TransitionLast, Yield, CommandState, ACTIVE, TERMINAL, PcValue,
      Looking, Busy
<1>28. ASSUME NEW s \in Slot, ReconcileClosing(s) PROVE Typed'
  <2>1. CASE TransitionLast(s, "CLOSED")
    BY <1>28, <2>1, WriteTransitionTyped
    DEF ReconcileClosing, TransitionLast, Yield, CommandState, ACTIVE, TERMINAL, PcValue,
        Looking, Busy
  <2>2. CASE Yield(s) /\ dbReady' \in BOOLEAN /\ UNCHANGED store
    BY <1>28, <2>2 DEF ReconcileClosing, Yield, CommandState, PcValue, Looking, Busy
  <2>3. QED
    BY <1>28, <2>1, <2>2 DEF ReconcileClosing, RecordEvidence
<1>29. CASE \E s \in Slot : ExchangeAnswers(s)
  BY <1>29 DEF ExchangeAnswers, OrderState
<1>30. CASE \E c \in Cand : LateArrival(c)
  BY <1>30 DEF LateArrival, OrderState
<1>31. CASE \E c \in Cand : OrderEnds(c)
  <2>1. PICK c \in Cand : OrderEnds(c)
    BY <1>31
  <2>2. stops' \in [Symbol -> Stops]
    BY <2>1 DEF OrderEnds, Stops
  <2>3. order' \in [Cand -> OrderState] /\ open' \subseteq Cand
    BY <2>1 DEF OrderEnds, OrderState
  <2>4. QED
    BY <2>1, <2>2, <2>3 DEF OrderEnds
<1>32. CASE \E y \in Symbol : PositionCloses(y)
  BY <1>32 DEF PositionCloses, Stops, NoStops
<1>33. CASE UNCHANGED vars
  BY <1>33 DEF vars
<1>34. QED
  BY <1>1, <1>2, <1>3, <1>4, <1>5, <1>6, <1>7, <1>8, <1>9, <1>10, <1>11, <1>12, <1>13,
     <1>14, <1>15, <1>16, <1>17, <1>18, <1>19, <1>20, <1>21, <1>22, <1>23, <1>24, <1>25,
     <1>26, <1>27, <1>28, <1>29, <1>30, <1>31, <1>32, <1>33
  DEF Next, SlotStep, ExchangeStep

\* The service starts well typed: Maps empty, slots idle.
LEMMA InitTyped == ASSUME Init PROVE Typed
<1>1. recovery \in BOOLEAN /\ dbReady \in BOOLEAN /\ late \subseteq Cand /\ open \subseteq Cand
  BY DEF Init
<1>2. /\ life \in {"starting", "running"}
      /\ mem \in [Cand -> CommandState] /\ memSlot \in [Cand -> Slot \cup {NoSlot}]
      /\ db \in [Cand -> CommandState] /\ dbSlot \in [Cand -> Slot \cup {NoSlot}]
      /\ pc \in [Slot -> PcValue] /\ cand \in [Slot -> Cand \cup {NoCand}]
      /\ view \in [Slot -> CommandState]
      /\ req \in [Slot -> {"none", "net", "ok", "rejected"}]
      /\ order \in [Cand -> OrderState] /\ submits \in [Cand -> Nat]
      /\ deliveries \in [Cand -> Nat] /\ crashes \in Nat
      /\ sized \subseteq Slot /\ memSized \subseteq Cand /\ stops \in [Symbol -> Stops]
      /\ misread \subseteq Cand /\ forgotten \subseteq Cand
  BY DEF Init, NoStops, Stops, CommandState, PcValue, Looking, OrderState
<1>3. Working
  BY DEF Init, Working, Busy
<1>4. QED
  BY <1>1, <1>2, <1>3 DEF Typed, TypeOK

\* Every reachable state is well typed, for every set of candidates and slots and
\* whatever PostgreSQL, the network and the exchange do.
THEOREM TypeCorrect == Spec => []TypeOK
<1>1. Init => Typed
  BY InitTyped
<1>2. Typed /\ [Next]_vars => Typed'
  BY TypedStep
<1>3. Typed => TypeOK
  BY DEF Typed
<1>4. QED
  BY <1>1, <1>2, <1>3, PTL DEF Spec

-----------------------------------------------------------------------------
(* Ownership and single submission.                                         *)

\* Only the locals of slot s change.
OnlySlot(s) == \A t \in Slot \ {s} : pc'[t] = pc[t] /\ cand'[t] = cand[t] /\ view'[t] = view[t]

\* PostgreSQL support can only be lost.
SupportKept == dbReady' = dbReady \/ dbReady' = FALSE

\* A command that came once came once before, and one that was kept was kept.
Worn ==
  /\ \A d \in Cand : Sole(d)' => Sole(d)
  /\ \A d \in Cand : Kept(d)' => Kept(d)

\* Every command that came once moves along the transition table.
Lawful == \A d \in Cand : Sole(d)' => LegalChange(d)

\* A command that two slots work on came twice.
LEMMA OwnerUnique ==
  ASSUME Typed, Owner, NEW s \in Slot, NEW t \in Slot, pc[s] \in Busy, pc[t] \in Busy,
         cand[s] = cand[t], Sole(cand[s])
  PROVE  s = t
  BY DEF Owner, Holds

\* What the transition table leads to.
LEMMA TransitionFacts ==
  ASSUME NEW st \in CommandState, NEW next \in TRANSITIONS[st]
  PROVE  /\ next \in CommandState \ {"NONE", "AVAILABLE", "RESERVED"}
         /\ next = "ORDER_PENDING" => st = "RESERVED"
  BY DEF TRANSITIONS, CommandState, ACTIVE, TERMINAL

\* A busy slot's view is an active state and, of a command that came once, the
\* state the repository answers.
LEMMA BusyFacts ==
  ASSUME Inv, NEW s \in Slot, pc[s] \in Busy
  PROVE  /\ cand[s] \in Cand
         /\ view[s] \in ACTIVE
         /\ Sole(cand[s]) => Status(cand[s]) = view[s]
         /\ life = "running"
  <1>1. cand[s] \in Cand
    BY DEF Inv, Typed, Working
  <1>2. view[s] \in ACTIVE
    BY DEF Inv, Views, ViewAt, ACTIVE, Busy
  <1>3. Sole(cand[s]) => Status(cand[s]) = view[s]
    BY <1>1 DEF Inv, Owner, Status, Holds
  <1>4. life = "running"
    BY DEF Inv, Channels, Typed, TypeOK, Busy
  <1>5. QED
    BY <1>1, <1>2, <1>3, <1>4

\* Where PostgreSQL support can only be lost, no slot comes to bear more.
LEMMA HeldShrinks ==
  ASSUME SupportKept, UNCHANGED store, NEW t \in Slot
  PROVE  Held(t)' \subseteq Held(t)
  BY DEF SupportKept, store, Held, MemActive, DbActive

\* A step of slot s that adds nothing to what the other slots bear.
LEMMA SlotsStep ==
  ASSUME Slots, NEW s \in Slot, OnlySlot(s),
         \A t \in Slot \ {s} : Held(t)' \subseteq Held(t),
         OnlyOwn(s)', \A c, d \in Held(s)' : c = d,
         \A c, d \in DbActive' : dbSlot'[c] = dbSlot'[d] => c = d
  PROVE  Slots'
  <1>1. ASSUME NEW t \in Slot \ {s} PROVE OnlyOwn(t)' /\ \A c, d \in Held(t)' : c = d
    <2>1. pc'[t] = pc[t] /\ cand'[t] = cand[t] /\ Held(t)' \subseteq Held(t)
      BY DEF OnlySlot
    <2>2. OnlyOwn(t) /\ \A c, d \in Held(t) : c = d
      BY DEF Slots
    <2>3. QED
      BY <2>1, <2>2 DEF OnlyOwn
  <1>2. QED
    BY <1>1 DEF Slots

\* A step of a slot that leaves the repository alone.
LEMMA LocalStep ==
  ASSUME Inv, Typed', NEW s \in Slot, life = "running",
         UNCHANGED <<store, life, submits, deliveries, forgotten>>, SupportKept, OnlySlot(s),
         pc'[s] \in Busy => /\ view'[s] \in ViewAt(pc'[s])
                            /\ Sole(cand'[s]) => Holds(cand'[s], s, view'[s])
                            /\ pc'[s] = "send" => pc[s] = "send" /\ cand'[s] = cand[s]
                            /\ Held(s)' \subseteq {cand'[s]},
         pc'[s] \in {"claim", "take"} => Held(s)' = {}
  PROVE  Inv' /\ Lawful
  <1> USE DEF store
  <1>1. Views'
    BY DEF Inv, Views, OnlySlot
  <1>2. \A d \in Cand : (Sole(d)' <=> Sole(d)) /\ (Kept(d)' <=> Kept(d))
    BY DEF Sole, Kept
  <1>3. Owner'
    <2>1. ASSUME NEW t \in Slot, pc'[t] \in Busy, Sole(cand[t])' PROVE Holds(cand[t], t, view[t])'
      <3>1. PICK d \in Cand : d = cand'[t]
        BY <2>1 DEF Typed, Working
      <3>2. Sole(d) /\ Sole(d)'
        BY <1>2, <2>1, <3>1 DEF Sole
      <3>3. CASE t = s
        BY <2>1, <3>1, <3>2, <3>3 DEF Holds, Sole
      <3>4. CASE t # s
        BY <2>1, <3>1, <3>2, <3>4 DEF OnlySlot, Inv, Owner, Holds
      <3>5. QED
        BY <3>3, <3>4
    <2>2. QED
      BY <2>1 DEF Owner
  <1>4. Channels'
    BY DEF Inv, Channels, SupportKept, MemActive, DbActive
  <1>5. \A c \in Cand : Status(c)' = Status(c)
    BY DEF Status
  <1>6. Fresh'
    <2>1. \A c \in Cand : Kept(c)' => FreshCommand(c)'
      BY <1>2, <1>5 DEF Inv, Fresh, FreshCommand
    <2>2. ASSUME NEW t \in Slot, pc'[t] = "send", Kept(cand[t])' PROVE submits'[cand'[t]] = 0
      <3>1. PICK d \in Cand : d = cand'[t]
        BY <2>2 DEF Typed, Working, Busy
      <3>2. Kept(d)
        BY <1>2, <2>2, <3>1 DEF Kept, Sole
      <3>3. pc[t] = "send" /\ cand[t] = d
        BY <2>2, <3>1 DEF OnlySlot, Busy
      <3>4. QED
        BY <3>1, <3>2, <3>3 DEF Inv, Fresh
    <2>3. QED
      BY <2>1, <2>2 DEF Fresh
  <1>7. Slots'
    <2>1. \A t \in Slot : Held(t)' \subseteq Held(t)
      BY HeldShrinks
    <2>2. OnlyOwn(s)'
      BY DEF OnlyOwn
    <2>3. \A c, d \in Held(s)' : c = d
      BY <2>1 DEF Inv, Slots
    <2>4. \A c, d \in DbActive' : dbSlot'[c] = dbSlot'[d] => c = d
      BY DEF Inv, Slots, DbActive
    <2>5. QED
      BY <2>1, <2>2, <2>3, <2>4, SlotsStep DEF Inv
  <1>8. QED
    BY <1>1, <1>3, <1>4, <1>5, <1>6, <1>7 DEF Inv, Lawful, LegalChange

\* What writing a transition of slot s does to the repository.
Written(s, c, next) ==
  /\ \A d \in Cand \ {c} : mem'[d] = mem[d] /\ memSlot'[d] = memSlot[d] /\ db'[d] = db[d]
  /\ dbSlot' = dbSlot
  /\ db'[c] = db[c] \/ (db'[c] = next /\ db[c] = view[s] /\ dbSlot[c] = s)
  /\ mem'[c] # "NONE" => mem'[c] = next /\ memSlot'[c] = s
  /\ mem'[c] = "NONE" => mem[c] = "NONE" /\ db'[c] = next /\ dbSlot[c] = s
  /\ mem[c] = "NONE" /\ mem'[c] # "NONE" => dbReady' = FALSE
  /\ SupportKept

\* The transition table, or the Map alone, and never the slot of a row.
LEMMA TransitionWrites ==
  ASSUME Inv, NEW s \in Slot, NEW c \in Cand, NEW next, next # "NONE",
         WriteTransition(s, c, next)
  PROVE  Written(s, c, next)
  <1>1. TypeOK
    BY DEF Inv, Typed
  <1>2. CASE mem[c] # "NONE"
    BY <1>1, <1>2
    DEF WriteTransition, Shadow, TypeOK, RecordEvidence, SupportKept, Written
  <1>3. CASE mem[c] = "NONE"
    <2>1. CASE /\ db' = [db EXCEPT ![c] = next] /\ db[c] = view[s] /\ dbSlot[c] = s
               /\ RecordEvidence /\ UNCHANGED <<mem, memSlot, dbSlot>>
      BY <1>1, <1>3, <2>1 DEF TypeOK, RecordEvidence, SupportKept, Written
    <2>2. CASE /\ db' = db \/ (db' = [db EXCEPT ![c] = next] /\ db[c] = view[s] /\ dbSlot[c] = s)
               /\ dbReady' = FALSE /\ Shadow(s, c, next) /\ UNCHANGED dbSlot
      BY <1>1, <1>3, <2>2 DEF TypeOK, Shadow, SupportKept, Written
    <2>3. CASE Shadow(s, c, next) /\ ~dbReady /\ UNCHANGED <<db, dbSlot, dbReady>>
      BY <1>1, <1>3, <2>3 DEF TypeOK, Shadow, SupportKept, Written
    <2>4. QED
      BY <1>3, <2>1, <2>2, <2>3 DEF WriteTransition
  <1>4. QED
    BY <1>2, <1>3

\* A transition moves the status of the slot's command and of no other.
LEMMA TransitionStatus ==
  ASSUME Inv, NEW s \in Slot, NEW c \in Cand, NEW next, next # "NONE",
         WriteTransition(s, c, next)
  PROVE  Status(c)' = next /\ \A d \in Cand \ {c} : Status(d)' = Status(d)
  <1>1. Written(s, c, next)
    BY TransitionWrites
  <1>2. QED
    BY <1>1 DEF Status, Written

\* A step of a slot that transitions its command.
LEMMA TransitionStep ==
  ASSUME Inv, Typed', NEW s \in Slot, pc[s] \in Busy, NEW next \in TRANSITIONS[view[s]],
         WriteTransition(s, cand[s], next),
         UNCHANGED <<life, submits, deliveries, forgotten>>, OnlySlot(s),
         pc'[s] \in Busy => cand'[s] = cand[s] /\ view'[s] = next /\ next \in ViewAt(pc'[s]),
         pc'[s] \notin {"claim", "take"}
  PROVE  Inv' /\ Lawful
  <1>1. PICK c \in Cand : c = cand[s]
    BY BusyFacts
  <1>2. view[s] \in ACTIVE /\ (Sole(c) => Status(c) = view[s]) /\ life = "running"
    BY <1>1, BusyFacts
  <1>3. /\ next \in CommandState \ {"NONE", "AVAILABLE", "RESERVED"}
        /\ next = "ORDER_PENDING" => view[s] = "RESERVED"
    BY <1>2, TransitionFacts DEF CommandState
  <1>4. Written(s, c, next)
    <2>1. WriteTransition(s, c, next)
      BY <1>1 DEF WriteTransition, Shadow
    <2>2. QED
      BY <1>3, <2>1, TransitionWrites
  <1>5. Status(c)' = next /\ \A d \in Cand \ {c} : Status(d)' = Status(d)
    BY <1>3, <1>4 DEF Written, Status
  <1>6. Worn
    BY <1>2, <1>3, <1>4 DEF Written, Worn, Sole, Kept, ACTIVE
  <1>7. ASSUME NEW t \in Slot \ {s}, pc[t] \in Busy, Sole(cand[t]) PROVE cand[t] \in Cand \ {c}
    BY <1>1, <1>7, OwnerUnique, BusyFacts DEF Inv
  <1>8. Views'
    BY DEF Inv, Views, OnlySlot
  <1>9. Owner'
    <2>1. ASSUME NEW t \in Slot \ {s}, pc'[t] \in Busy, Sole(cand[t])'
          PROVE  Holds(cand[t], t, view[t])'
      <3>1. pc[t] \in Busy /\ cand'[t] = cand[t] /\ view'[t] = view[t]
        BY <2>1 DEF OnlySlot
      <3>2. PICK d \in Cand : d = cand[t]
        BY <3>1, BusyFacts
      <3>3. Sole(d)
        BY <1>6, <2>1, <3>1, <3>2 DEF Worn, Sole
      <3>4. d # c /\ Holds(d, t, view[t])
        BY <1>7, <3>1, <3>2, <3>3 DEF Inv, Owner
      <3>5. QED
        BY <1>4, <3>1, <3>2, <3>4 DEF Written, Holds
    <2>2. ASSUME pc'[s] \in Busy PROVE Holds(c, s, next)'
      BY <1>3, <1>4, <2>2 DEF Written, Holds
    <2>3. QED
      BY <1>1, <2>1, <2>2 DEF Owner, Holds
  <1>10. DbActive' \subseteq DbActive
    BY <1>2, <1>4 DEF Written, DbActive
  <1>11. Channels'
    <2>1. ASSUME NEW d \in Cand, mem'[d] # "NONE"
          PROVE  deliveries'[d] # 0 \/ (db'[d] # "NONE" /\ life' = "running" /\ ~dbReady')
      <3>1. CASE mem[d] # "NONE"
        BY <1>2, <1>3, <1>4, <3>1 DEF Written, Inv, Channels, SupportKept
      <3>2. CASE mem[d] = "NONE"
        <4>1. d = c /\ dbReady' = FALSE
          BY <1>4, <2>1, <3>2 DEF Written
        <4>2. Sole(c) => db[c] = view[s]
          BY <1>1, <3>2, <4>1 DEF Inv, Owner, Holds
        <4>3. QED
          BY <1>2, <1>3, <1>4, <4>1, <4>2 DEF Written, Sole, ACTIVE
      <3>3. QED
        BY <3>1, <3>2
    <2>2. \A d \in MemActive' : memSlot'[d] \in Slot
      <3>1. SUFFICES ASSUME NEW d \in Cand, mem'[d] \in ACTIVE PROVE memSlot'[d] \in Slot
        BY DEF MemActive
      <3>2. CASE d = c
        BY <1>4, <3>1, <3>2 DEF Written, ACTIVE
      <3>3. CASE d # c
        BY <1>4, <3>1, <3>3 DEF Written, Inv, Channels, MemActive
      <3>4. QED
        BY <3>2, <3>3
    <2>3. \A d \in DbActive' : dbSlot'[d] \in Slot
      BY <1>4, <1>10 DEF Written, Inv, Channels
    <2>4. QED
      BY <1>2, <2>1, <2>2, <2>3 DEF Channels
  <1>12. Fresh'
    <2>1. ASSUME NEW d \in Cand, Kept(d)' PROVE FreshCommand(d)'
      BY <1>3, <1>5, <1>6, <2>1 DEF Worn, Inv, Fresh, FreshCommand
    <2>2. ASSUME NEW t \in Slot, pc'[t] = "send", Kept(cand[t])' PROVE submits'[cand'[t]] = 0
      <3>1. PICK d \in Cand : d = cand'[t]
        BY <2>2 DEF Typed, Working, Busy
      <3>2. Kept(d) /\ Sole(d)
        BY <1>6, <2>2, <3>1 DEF Worn, Kept, Sole
      <3>3. CASE t = s
        <4>1. d = c /\ Status(c) = "RESERVED"
          BY <1>1, <1>2, <1>3, <2>2, <3>1, <3>2, <3>3 DEF ViewAt, Busy
        <4>2. QED
          BY <3>1, <3>2, <4>1 DEF Inv, Fresh, FreshCommand
      <3>4. CASE t # s
        BY <2>2, <3>1, <3>2, <3>4 DEF OnlySlot, Inv, Fresh
      <3>5. QED
        BY <3>3, <3>4
    <2>3. QED
      BY <2>1, <2>2 DEF Fresh
  <1>13. Lawful
    <2>1. ASSUME NEW d \in Cand, Sole(d)' PROVE LegalChange(d)
      BY <1>2, <1>5, <1>6, <2>1 DEF Worn, LegalChange
    <2>2. QED
      BY <2>1 DEF Lawful
  <1>14. Slots'
    <2>1. ASSUME NEW t \in Slot \ {s} PROVE Held(t)' \subseteq Held(t)
      BY <1>2, <1>4, <1>10 DEF Written, Held, MemActive, DbActive, SupportKept, ACTIVE
    <2>2. Held(s)' \subseteq {c}
      <3>1. Held(s) \subseteq {c}
        BY <1>1 DEF Inv, Slots, OnlyOwn
      <3>2. QED
        BY <1>4, <1>10, <3>1 DEF Written, Held, MemActive, SupportKept
    <2>3. OnlyOwn(s)'
      BY <1>1, <2>2 DEF OnlyOwn
    <2>4. \A d, e \in DbActive' : dbSlot'[d] = dbSlot'[e] => d = e
      BY <1>4, <1>10 DEF Written, Inv, Slots
    <2>5. Slots
      BY DEF Inv
    <2>6. QED
      BY <2>1, <2>2, <2>3, <2>4, <2>5, SlotsStep
  <1>15. QED
    BY <1>8, <1>9, <1>11, <1>12, <1>13, <1>14 DEF Inv

\* A slot that moves to another await with the same command.
LEMMA GotoStep ==
  ASSUME Inv, Typed', NEW s \in Slot, pc[s] \in Busy, NEW l \in Busy \ {"send"}, Goto(s, l),
         view[s] \in ViewAt(l), SupportKept,
         UNCHANGED <<store, life, submits, deliveries, forgotten>>
  PROVE  Inv' /\ Lawful
  <1>1. life = "running"
    BY BusyFacts
  <1>2. OnlySlot(s) /\ pc'[s] = l /\ cand'[s] = cand[s] /\ view'[s] = view[s]
    BY DEF OnlySlot, Goto, Inv, Typed, TypeOK
  <1>3. Sole(cand[s]) => Holds(cand[s], s, view[s])
    BY DEF Inv, Owner
  <1>4. Held(s)' \subseteq {cand[s]}
    BY HeldShrinks DEF Inv, Slots, OnlyOwn
  <1>5. QED
    BY <1>1, <1>2, <1>3, <1>4, LocalStep DEF Busy

\* A slot that hands its command back to the loop without a transition.
LEMMA YieldStep ==
  ASSUME Inv, Typed', NEW s \in Slot, life = "running", Yield(s),
         UNCHANGED <<store, life, submits, deliveries, forgotten>>, SupportKept
  PROVE  Inv' /\ Lawful
  <1>1. OnlySlot(s) /\ pc'[s] = "idle" /\ "idle" \notin Busy
    BY DEF OnlySlot, Yield, Inv, Typed, TypeOK, Busy
  <1>2. QED
    BY <1>1, LocalStep

\* A slot that transitions its command and goes on with it.
LEMMA TransitionToStep ==
  ASSUME Inv, Typed', NEW s \in Slot, pc[s] \in Busy, NEW next \in TRANSITIONS[view[s]],
         NEW l \in Busy, next \in ViewAt(l), TransitionTo(s, next, l),
         UNCHANGED <<life, submits, deliveries, forgotten>>
  PROVE  Inv' /\ Lawful
  <1>1. OnlySlot(s) /\ pc'[s] = l /\ cand'[s] = cand[s] /\ view'[s] = next
    BY DEF OnlySlot, TransitionTo, Inv, Typed, TypeOK
  <1>2. QED
    BY <1>1, TransitionStep DEF TransitionTo, Busy

\* A slot whose transition is the last step of processCommand.
LEMMA TransitionLastStep ==
  ASSUME Inv, Typed', NEW s \in Slot, pc[s] \in Busy, NEW next \in TRANSITIONS[view[s]],
         TransitionLast(s, next), UNCHANGED <<life, submits, deliveries, forgotten>>
  PROVE  Inv' /\ Lawful
  <1>1. OnlySlot(s) /\ pc'[s] = "idle" /\ "idle" \notin Busy
    BY DEF OnlySlot, TransitionLast, Yield, Inv, Typed, TypeOK, Busy
  <1>2. QED
    BY <1>1, TransitionStep DEF TransitionLast

\* Slot s takes up the one active command it bears.
LEMMA PickStep ==
  ASSUME Inv, Typed', NEW s \in Slot, life = "running", NEW c \in Cand, NEW st \in ACTIVE,
         Pick(s, c, st), Sole(c) => Holds(c, s, st), c \in Held(s),
         UNCHANGED <<store, life, submits, deliveries, forgotten>>, SupportKept
  PROVE  Inv' /\ Lawful
  <1>1. OnlySlot(s) /\ pc'[s] = EntryPoint(st) /\ cand'[s] = c /\ view'[s] = st
    BY DEF OnlySlot, Pick, Inv, Typed, TypeOK
  <1>2. st \in ViewAt(EntryPoint(st)) /\ EntryPoint(st) \notin {"send", "claim", "take"}
    BY DEF EntryPoint, ViewAt, ACTIVE
  <1>3. Held(s)' \subseteq {c}
    BY HeldShrinks DEF Inv, Slots
  <1>4. QED
    BY <1>1, <1>2, <1>3, LocalStep

-----------------------------------------------------------------------------
(* The invariant is inductive.                                              *)

\* Nothing is stored, claimed or sent when the service is first started.
LEMMA InvInit == ASSUME Init PROVE Inv
  <1>1. Typed
    BY InitTyped
  <1>2. Views /\ Owner
    BY DEF Init, Views, Owner, Busy
  <1>3. Channels
    BY DEF Init, Channels, MemActive, DbActive, ACTIVE
  <1>4. Fresh
    BY DEF Init, Fresh, FreshCommand, Status
  <1>5. Slots
    BY DEF Init, Slots, OnlyOwn, Held, MemActive, DbActive, ACTIVE, Busy
  <1>6. QED
    BY <1>1, <1>2, <1>3, <1>4, <1>5 DEF Inv

\* A delivery creates a command only where memory has none.
LEMMA AcceptStep ==
  ASSUME Inv, Typed', NEW c \in Cand, AcceptDirectCandidate(c)
  PROVE  Inv' /\ Lawful
  <1> USE DEF AcceptDirectCandidate, process, local, exchange
  <1>1. /\ \A d \in Cand \ {c} :
             mem'[d] = mem[d] /\ memSlot'[d] = memSlot[d] /\ deliveries'[d] = deliveries[d]
        /\ mem[c] # "NONE" => mem' = mem /\ memSlot' = memSlot
        /\ mem[c] = "NONE" => mem'[c] = "AVAILABLE"
        /\ deliveries'[c] # 0
    BY DEF Inv, Typed, TypeOK
  <1>2. Worn /\ (Sole(c)' => db[c] = "NONE")
    BY <1>1 DEF Worn, Sole, Kept
  <1>3. Views'
    BY DEF Inv, Views
  <1>4. Owner'
    <2>1. ASSUME NEW s \in Slot, pc[s] \in Busy, Sole(cand[s])' PROVE Holds(cand[s], s, view[s])'
      <3>1. PICK d \in Cand : d = cand[s]
        BY <2>1, BusyFacts
      <3>2. Sole(d) /\ Holds(d, s, view[s]) /\ view[s] # "NONE"
        BY <1>2, <2>1, <3>1, BusyFacts DEF Worn, Sole, Inv, Owner, ACTIVE
      <3>3. CASE d = c
        BY <1>1, <1>2, <2>1, <3>1, <3>2, <3>3 DEF Holds, Sole
      <3>4. CASE d # c
        BY <1>1, <3>1, <3>2, <3>4 DEF Holds
      <3>5. QED
        BY <3>3, <3>4
    <2>2. QED
      BY <2>1 DEF Owner
  <1>5. /\ MemActive' = MemActive /\ DbActive' = DbActive
        /\ \A d \in MemActive : memSlot'[d] = memSlot[d]
    BY <1>1 DEF MemActive, DbActive, ACTIVE
  <1>6. Channels'
    BY <1>1, <1>5 DEF Inv, Channels
  <1>7. \A d \in Cand : Sole(d)' =>
          Status(d)' = Status(d) \/ (Status(d) = "NONE" /\ Status(d)' = "AVAILABLE")
    BY <1>1, <1>2 DEF Status
  <1>8. Fresh'
    <2>1. \A d \in Cand : Kept(d)' => FreshCommand(d)'
      BY <1>2, <1>7 DEF Worn, Kept, Inv, Fresh, FreshCommand
    <2>2. ASSUME NEW s \in Slot, pc[s] = "send", Kept(cand[s])' PROVE submits[cand[s]] = 0
      <3>1. PICK d \in Cand : d = cand[s]
        BY <2>2, BusyFacts DEF Busy
      <3>2. Kept(d)
        BY <1>2, <2>2, <3>1 DEF Worn, Kept, Sole
      <3>3. QED
        BY <2>2, <3>1, <3>2 DEF Inv, Fresh
    <2>3. QED
      BY <2>1, <2>2 DEF Fresh
  <1>9. Slots'
    BY <1>5 DEF Inv, Slots, OnlyOwn, Held
  <1>10. QED
    BY <1>3, <1>4, <1>6, <1>7, <1>8, <1>9 DEF Inv, Lawful, LegalChange

\* The outbox inserts a row only where there is none.
LEMMA PublishStep ==
  ASSUME Inv, Typed', NEW c \in Cand, PublishExecutionCommand(c)
  PROVE  Inv' /\ Lawful
  <1> USE DEF PublishExecutionCommand, process, local, exchange, environment
  <1>1. /\ \A d \in Cand \ {c} : db'[d] = db[d] /\ dbSlot'[d] = dbSlot[d]
        /\ db[c] = "NONE" /\ db'[c] = "AVAILABLE"
    BY DEF Inv, Typed, TypeOK
  <1>2. Worn /\ (Sole(c)' => deliveries[c] = 0)
    BY <1>1 DEF Worn, Sole, Kept
  <1>3. Sole(c)' => mem[c] = "NONE"
    BY <1>1, <1>2 DEF Inv, Channels
  <1>4. Views'
    BY DEF Inv, Views
  <1>5. Owner'
    <2>1. ASSUME NEW s \in Slot, pc[s] \in Busy, Sole(cand[s])' PROVE Holds(cand[s], s, view[s])'
      <3>1. PICK d \in Cand : d = cand[s]
        BY <2>1, BusyFacts
      <3>2. Sole(d) /\ Holds(d, s, view[s]) /\ view[s] # "NONE"
        BY <1>2, <2>1, <3>1, BusyFacts DEF Worn, Sole, Inv, Owner, ACTIVE
      <3>3. CASE d = c
        BY <1>1, <3>1, <3>2, <3>3, <2>1, <1>3 DEF Holds, Sole
      <3>4. CASE d # c
        BY <1>1, <3>1, <3>2, <3>4 DEF Holds
      <3>5. QED
        BY <3>3, <3>4
    <2>2. QED
      BY <2>1 DEF Owner
  <1>6. MemActive' = MemActive /\ DbActive' = DbActive /\ c \notin DbActive
    BY <1>1 DEF MemActive, DbActive, ACTIVE
  <1>7. Channels'
    BY <1>1, <1>6 DEF Inv, Channels, DbActive
  <1>8. \A d \in Cand : Sole(d)' =>
          Status(d)' = Status(d) \/ (Status(d) = "NONE" /\ Status(d)' = "AVAILABLE")
    BY <1>1, <1>3 DEF Status
  <1>9. Fresh'
    <2>1. \A d \in Cand : Kept(d)' => FreshCommand(d)'
      BY <1>2, <1>8 DEF Worn, Kept, Inv, Fresh, FreshCommand
    <2>2. ASSUME NEW s \in Slot, pc[s] = "send", Kept(cand[s])' PROVE submits[cand[s]] = 0
      <3>1. PICK d \in Cand : d = cand[s]
        BY <2>2, BusyFacts DEF Busy
      <3>2. Kept(d)
        BY <1>2, <2>2, <3>1 DEF Worn, Kept, Sole
      <3>3. QED
        BY <2>2, <3>1, <3>2 DEF Inv, Fresh
    <2>3. QED
      BY <2>1, <2>2 DEF Fresh
  <1>10. Slots'
    <2>1. \A d \in DbActive : dbSlot'[d] = dbSlot[d]
      BY <1>1, <1>6 DEF DbActive
    <2>2. \A t \in Slot : Held(t)' = Held(t)
      BY <1>6, <2>1 DEF Held
    <2>3. \A t \in Slot : OnlyOwn(t)'
      BY <2>2 DEF Inv, Slots, OnlyOwn
    <2>4. QED
      BY <1>6, <2>1, <2>2, <2>3 DEF Inv, Slots
  <1>11. QED
    BY <1>4, <1>5, <1>7, <1>8, <1>9, <1>10 DEF Inv, Lawful, LegalChange

\* claim reserves an in-process command.
LEMMA TakeDirectStep ==
  ASSUME Inv, Typed', NEW s \in Slot, TakeDirect(s)
  PROVE  Inv' /\ Lawful
  <1> USE DEF process, exchange, environment
  <1>1. PICK c \in Cand : /\ mem[c] = "AVAILABLE"
                          /\ mem' = [mem EXCEPT ![c] = "RESERVED"]
                          /\ memSlot' = [memSlot EXCEPT ![c] = s]
                          /\ Pick(s, c, "RESERVED")
    BY DEF TakeDirect, PickMemory
  <1>2. UNCHANGED <<life, dbReady, db, dbSlot, submits, deliveries, forgotten>> /\ life = "running"
    BY DEF TakeDirect
  <1>3. OnlySlot(s) /\ pc'[s] = "evidence" /\ cand'[s] = c /\ view'[s] = "RESERVED"
    BY <1>1 DEF OnlySlot, Pick, EntryPoint, Inv, Typed, TypeOK
  <1>4. /\ \A d \in Cand \ {c} : mem'[d] = mem[d] /\ memSlot'[d] = memSlot[d]
        /\ mem'[c] = "RESERVED" /\ memSlot'[c] = s
    BY <1>1 DEF Inv, Typed, TypeOK
  <1>5. \A d \in Cand : (Sole(d)' <=> Sole(d)) /\ (Kept(d)' <=> Kept(d))
    BY <1>2 DEF Sole, Kept
  <1>6. Views'
    BY <1>3 DEF Inv, Views, ViewAt, OnlySlot
  <1>7. Owner'
    <2>1. ASSUME NEW t \in Slot, pc'[t] \in Busy, Sole(cand[t])' PROVE Holds(cand[t], t, view[t])'
      <3>1. CASE t = s
        BY <1>3, <1>4, <3>1 DEF Holds
      <3>2. CASE t # s
        <4>1. pc[t] \in Busy /\ cand'[t] = cand[t] /\ view'[t] = view[t]
          BY <1>3, <2>1, <3>2 DEF OnlySlot
        <4>2. PICK d \in Cand : d = cand[t]
          BY <4>1, BusyFacts
        <4>3. Holds(d, t, view[t]) /\ view[t] # "AVAILABLE"
          BY <1>5, <2>1, <4>1, <4>2, BusyFacts DEF Sole, Inv, Owner, ACTIVE
        <4>4. d # c
          BY <1>1, <4>3 DEF Holds
        <4>5. QED
          BY <1>2, <1>4, <4>1, <4>2, <4>3, <4>4 DEF Holds
      <3>3. QED
        BY <3>1, <3>2
    <2>2. QED
      BY <2>1 DEF Owner
  <1>8. Channels'
    BY <1>1, <1>2, <1>4 DEF Inv, Channels, MemActive, DbActive
  <1>9. \A d \in Cand : Status(d)' = Status(d) \/ (d = c /\ Status(c) = "AVAILABLE" /\ Status(c)' = "RESERVED")
    BY <1>1, <1>2, <1>4 DEF Status
  <1>10. Fresh'
    <2>1. \A d \in Cand : Kept(d)' => FreshCommand(d)'
      BY <1>2, <1>5, <1>9 DEF Inv, Fresh, FreshCommand
    <2>2. QED
      BY <1>2, <1>3, <1>5, <2>1 DEF Inv, Fresh, OnlySlot, Kept, Sole
  <1>11. Slots'
    <2>1. Held(s) = {} /\ DbActive' = DbActive
      BY <1>2 DEF TakeDirect, Inv, Slots, OnlyOwn, DbActive
    <2>2. Held(s)' \subseteq {c}
      BY <1>2, <1>4, <2>1 DEF Held, MemActive
    <2>3. ASSUME NEW t \in Slot \ {s} PROVE Held(t)' \subseteq Held(t)
      BY <1>2, <1>4, <2>1 DEF Held, MemActive
    <2>4. OnlyOwn(s)' /\ Slots
      BY <1>3, <2>2 DEF OnlyOwn, Inv
    <2>5. QED
      BY <1>2, <1>3, <2>1, <2>2, <2>3, <2>4, SlotsStep DEF Slots
  <1>12. QED
    BY <1>6, <1>7, <1>8, <1>9, <1>10, <1>11 DEF Inv, Lawful, LegalChange

\* claimExecutionCommand reserves a row; a claim whose answer was lost leaves a
\* reserved row that no slot processes.
LEMMA TakeRowStep ==
  ASSUME Inv, Typed', NEW s \in Slot, TakeRow(s)
  PROVE  Inv' /\ Lawful
  <1> USE DEF process, exchange, environment
  <1>1. /\ UNCHANGED <<life, mem, memSlot, memSized, submits, deliveries, forgotten>>
        /\ life = "running" /\ SupportKept
    BY DEF TakeRow, SupportKept, DbCallOk, DbCallFails, Inv, Typed, TypeOK
  <1>2. CASE UNCHANGED <<db, dbSlot>> /\ Yield(s)
    BY <1>1, <1>2, YieldStep DEF store
  <1>3. ASSUME NEW c \in Cand, dbReady, db[c] = "AVAILABLE", \A d \in DbActive : dbSlot[d] # s,
               db' = [db EXCEPT ![c] = "RESERVED"], dbSlot' = [dbSlot EXCEPT ![c] = s],
               Pick(s, c, "RESERVED") \/ Yield(s)
        PROVE  Inv' /\ Lawful
    <2>1. Sole(c) => mem[c] = "NONE"
      BY <1>3 DEF Inv, Channels, Sole
    <2>2. /\ OnlySlot(s)
          /\ pc'[s] \in Busy => pc'[s] = "evidence" /\ cand'[s] = c /\ view'[s] = "RESERVED"
          /\ pc'[s] \notin {"claim", "take", "send"}
      BY <1>3 DEF OnlySlot, Pick, Yield, EntryPoint, Inv, Typed, TypeOK, Busy
    <2>3. /\ \A d \in Cand \ {c} : db'[d] = db[d] /\ dbSlot'[d] = dbSlot[d]
          /\ db'[c] = "RESERVED" /\ dbSlot'[c] = s
      BY <1>3 DEF Inv, Typed, TypeOK
    <2>4. \A d \in Cand : (Sole(d)' => Sole(d)) /\ (Kept(d)' => Kept(d))
      BY <1>1, <1>3, <2>3 DEF Sole, Kept
    <2>5. Views'
      BY <2>2 DEF Inv, Views, ViewAt, OnlySlot
    <2>6. Owner'
      <3>1. ASSUME NEW t \in Slot, pc'[t] \in Busy, Sole(cand[t])' PROVE Holds(cand[t], t, view[t])'
        <4>1. PICK d \in Cand : d = cand'[t]
          BY <3>1 DEF Typed, Working
        <4>2. Sole(d)
          BY <2>4, <3>1, <4>1 DEF Sole
        <4>3. CASE t = s
          BY <1>1, <2>1, <2>2, <2>3, <3>1, <4>1, <4>2, <4>3 DEF Holds
        <4>4. CASE t # s
          <5>1. pc[t] \in Busy /\ cand[t] = d /\ view'[t] = view[t]
            BY <2>2, <3>1, <4>1, <4>4 DEF OnlySlot
          <5>2. Holds(d, t, view[t]) /\ view[t] # "AVAILABLE"
            BY <4>2, <5>1, BusyFacts DEF Inv, Owner, ACTIVE
          <5>3. d # c
            BY <1>3, <2>1, <4>2, <5>2 DEF Holds
          <5>4. QED
            BY <1>1, <2>3, <4>1, <5>1, <5>2, <5>3 DEF Holds
        <4>5. QED
          BY <4>3, <4>4
      <3>2. QED
        BY <3>1 DEF Owner
    <2>7. DbActive' \subseteq DbActive \cup {c} /\ MemActive' = MemActive
      BY <1>1, <2>3 DEF DbActive, MemActive
    <2>8. Channels'
      BY <1>1, <1>3, <2>3, <2>7 DEF Inv, Channels, SupportKept, DbActive
    <2>9. /\ \A d \in Cand \ {c} : Status(d)' = Status(d)
          /\ Sole(c) => Status(c) = "AVAILABLE" /\ Status(c)' = "RESERVED"
      BY <1>1, <1>3, <2>1, <2>3 DEF Status
    <2>10. Fresh'
      <3>1. \A d \in Cand : Kept(d)' => FreshCommand(d)'
        BY <1>1, <2>4, <2>9 DEF Inv, Fresh, FreshCommand, Kept
      <3>2. ASSUME NEW t \in Slot, pc'[t] = "send", Kept(cand[t])' PROVE submits'[cand'[t]] = 0
        <4>1. PICK d \in Cand : d = cand'[t]
          BY <3>2 DEF Typed, Working, Busy
        <4>2. Kept(d) /\ t # s
          BY <2>2, <2>4, <3>2, <4>1 DEF Kept, Sole
        <4>3. QED
          BY <1>1, <2>2, <3>2, <4>1, <4>2 DEF Inv, Fresh, OnlySlot
      <3>3. QED
        BY <3>1, <3>2 DEF Fresh
    <2>11. Slots'
      <3>1. Held(s) = {}
        BY DEF TakeRow, Inv, Slots, OnlyOwn
      <3>2. Held(s)' \subseteq {c}
        BY <1>1, <1>3, <2>3, <2>7, <3>1 DEF Held, SupportKept
      <3>3. ASSUME NEW t \in Slot \ {s} PROVE Held(t)' \subseteq Held(t)
        BY <1>1, <1>3, <2>3, <2>7 DEF Held, SupportKept
      <3>4. OnlyOwn(s)' /\ Slots
        BY <2>2, <3>2 DEF OnlyOwn, Inv
      <3>5. ASSUME NEW d \in DbActive', NEW e \in DbActive', dbSlot'[d] = dbSlot'[e] PROVE d = e
        <4>1. d \in Cand /\ e \in Cand
          BY DEF DbActive
        <4>2. CASE d = c /\ e # c
          BY <1>3, <2>3, <2>7, <3>5, <4>1, <4>2
        <4>3. CASE e = c /\ d # c
          BY <1>3, <2>3, <2>7, <3>5, <4>1, <4>3
        <4>4. CASE d # c /\ e # c
          BY <2>3, <2>7, <3>4, <3>5, <4>1, <4>4 DEF Slots
        <4>5. QED
          BY <4>2, <4>3, <4>4
      <3>6. QED
        BY <2>2, <3>2, <3>3, <3>4, <3>5, SlotsStep
    <2>12. QED
      BY <2>4, <2>5, <2>6, <2>8, <2>9, <2>10, <2>11 DEF Inv, Lawful, LegalChange
  <1>4. \/ UNCHANGED <<db, dbSlot>> /\ Yield(s)
        \/ \E c \in Cand : /\ dbReady /\ db[c] = "AVAILABLE" /\ \A d \in DbActive : dbSlot[d] # s
                           /\ db' = [db EXCEPT ![c] = "RESERVED"]
                           /\ dbSlot' = [dbSlot EXCEPT ![c] = s]
                           /\ Pick(s, c, "RESERVED") \/ Yield(s)
    BY DEF TakeRow, PickRow, DbCallOk, DbCallFails
  <1>5. QED
    BY <1>2, <1>3, <1>4

\* The one step that submits: the command is ORDER_PENDING and was never sent.
LEMMA CreateOrderStep ==
  ASSUME Inv, Typed', NEW s \in Slot, CreateOrder(s)
  PROVE  Inv' /\ Lawful
  <1> USE DEF process, store, environment
  <1>1. UNCHANGED <<life, dbReady, mem, memSlot, db, dbSlot, deliveries, forgotten, cand, view>> /\ pc[s] = "send"
    BY DEF CreateOrder, Goto
  <1>2. OnlySlot(s) /\ pc'[s] = "wait" /\ pc[s] \in Busy
    BY DEF CreateOrder, Goto, OnlySlot, Inv, Typed, TypeOK, Busy
  <1>3. PICK c \in Cand : c = cand[s]
    BY <1>2, BusyFacts
  <1>4. Sole(c) => Status(c) = "ORDER_PENDING"
    BY <1>1, <1>2, <1>3, BusyFacts DEF Inv, Views, ViewAt
  <1>5. (Kept(c) => submits'[c] = 1) /\ \A d \in Cand \ {c} : submits'[d] = submits[d]
    BY <1>1, <1>3 DEF CreateOrder, Inv, Fresh, Typed, TypeOK
  <1>6. \A d \in Cand : (Sole(d)' <=> Sole(d)) /\ (Kept(d)' <=> Kept(d))
    BY <1>1 DEF Sole, Kept
  <1>7. Views'
    BY <1>1, <1>2 DEF Inv, Views, ViewAt, OnlySlot, Busy
  <1>8. Owner'
    BY <1>1, <1>2 DEF Inv, Owner, Holds, Sole, OnlySlot, Busy
  <1>9. Channels'
    BY <1>1, <1>2, BusyFacts DEF Inv, Channels, MemActive, DbActive
  <1>10. \A d \in Cand : Status(d)' = Status(d)
    BY <1>1 DEF Status
  <1>11. Fresh'
    <2>1. ASSUME NEW t \in Slot, pc'[t] = "send", Kept(cand[t])' PROVE submits'[cand'[t]] = 0
      <3>1. t # s /\ pc[t] = "send" /\ pc[t] \in Busy
        BY <1>2, <2>1 DEF OnlySlot, Busy
      <3>2. PICK d \in Cand : d = cand[t]
        BY <3>1, BusyFacts
      <3>3. Kept(d) /\ Sole(d) /\ cand'[t] = d
        BY <1>1, <1>6, <2>1, <3>2 DEF Kept, Sole
      <3>4. d # c
        BY <1>2, <1>3, <3>1, <3>2, <3>3, OwnerUnique DEF Inv
      <3>5. QED
        BY <1>5, <3>1, <3>2, <3>3, <3>4 DEF Inv, Fresh
    <2>2. ASSUME NEW d \in Cand, Kept(d)' PROVE FreshCommand(d)'
      BY <1>4, <1>5, <1>6, <1>10, <2>2 DEF Inv, Fresh, FreshCommand, Kept
    <2>3. QED
      BY <2>1, <2>2 DEF Fresh
  <1>12. Slots'
    BY <1>1, <1>2 DEF Inv, Slots, OnlyOwn, OnlySlot, Held, MemActive, DbActive, Busy
  <1>13. QED
    BY <1>7, <1>8, <1>9, <1>10, <1>11, <1>12 DEF Inv, Lawful, LegalChange

\* A restart forgets the memory; a command that is kept was not in it.
LEMMA CrashStep ==
  ASSUME Inv, Typed', Crash
  PROVE  Inv' /\ \A d \in Cand : Kept(d)' => Status(d)' = Status(d)
  <1>1. Views' /\ Owner'
    BY DEF Crash, Views, Owner, Busy
  <1>2. MemActive' = {} /\ DbActive' = DbActive
    BY DEF Crash, MemActive, DbActive, ACTIVE
  <1>3. Channels'
    BY <1>2 DEF Crash, Inv, Channels
  <1>4. \A d \in Cand : Kept(d)' => Kept(d) /\ Status(d)' = Status(d)
    BY DEF Crash, Kept, Sole, Status
  <1>5. Fresh'
    <2>1. ASSUME NEW d \in Cand, Kept(d)' PROVE FreshCommand(d)'
      BY <1>4, <2>1 DEF Crash, Inv, Fresh, FreshCommand
    <2>2. \A s \in Slot : pc'[s] # "send"
      BY DEF Crash
    <2>3. QED
      BY <2>1, <2>2 DEF Fresh
  <1>6. Slots'
    <2>1. \A t \in Slot : Held(t)' = {} /\ OnlyOwn(t)'
      BY <1>2 DEF Crash, Held, OnlyOwn
    <2>2. QED
      BY <1>2, <2>1 DEF Crash, Inv, Slots
  <1>7. QED
    BY <1>1, <1>3, <1>4, <1>5, <1>6 DEF Inv

\* The coordinator can bring PostgreSQL back only before the slot loops run, when
\* the Map has no active command.
LEMMA CoordinateStep ==
  ASSUME Inv, Typed', Coordinate
  PROVE  Inv' /\ Lawful
  <1> USE DEF store, local, exchange, environment
  <1>1. /\ UNCHANGED <<mem, memSlot, db, dbSlot, pc, cand, view, submits, deliveries, forgotten>>
        /\ life = "starting"
    BY DEF Coordinate
  <1>2. Views' /\ Owner'
    BY <1>1 DEF Inv, Views, Owner, Sole, Holds
  <1>3. MemActive = {} /\ MemActive' = {} /\ DbActive' = DbActive /\ \A s \in Slot : pc[s] = "idle"
    BY <1>1 DEF Inv, Channels, MemActive, DbActive
  <1>4. Channels'
    BY <1>1, <1>3 DEF Inv, Channels
  <1>5. \A d \in Cand : Status(d)' = Status(d)
    BY <1>1 DEF Status
  <1>6. Fresh'
    BY <1>1, <1>5 DEF Inv, Fresh, FreshCommand, Kept, Sole
  <1>7. Slots'
    <2>1. \A s \in Slot : OnlyOwn(s)'
      BY <1>1, <1>3 DEF OnlyOwn, Busy
    <2>2. \A s \in Slot : \A c, d \in Held(s)' : c = d
      BY <1>1, <1>3 DEF Held, Inv, Slots
    <2>3. QED
      BY <1>1, <1>3, <2>1, <2>2 DEF Inv, Slots
  <1>8. QED
    BY <1>2, <1>4, <1>5, <1>6, <1>7 DEF Inv, Lawful, LegalChange

\* A step that touches none of the state the invariant speaks about.
LEMMA IdleStep ==
  ASSUME Inv, Typed', UNCHANGED <<life, dbReady, store, local, submits, deliveries, forgotten>>
  PROVE  Inv' /\ Lawful
  <1> USE DEF store, local
  <1>1. Views' /\ Owner' /\ Channels'
    BY DEF Inv, Views, Owner, Sole, Holds, Channels, MemActive, DbActive
  <1>2. \A d \in Cand : Status(d)' = Status(d)
    BY DEF Status
  <1>3. Fresh'
    BY <1>2 DEF Inv, Fresh, FreshCommand, Kept, Sole
  <1>4. Slots'
    BY DEF Inv, Slots, OnlyOwn, Held, MemActive, DbActive
  <1>5. QED
    BY <1>1, <1>2, <1>3, <1>4 DEF Inv, Lawful, LegalChange

\* The steps of a slot that processes a command.
LEMMA BusyStep ==
  ASSUME Inv, Typed', NEW s \in Slot, pc[s] \in Busy, SlotStep(s)
  PROVE  Inv' /\ Lawful
  <1> USE DEF process, exchange, environment
  <1>0. life = "running" /\ view[s] \in ViewAt(pc[s])
    BY BusyFacts DEF Inv, Views
  <1>a. dbReady' = dbReady => SupportKept
    BY DEF SupportKept
  <1>b. RecordEvidence => SupportKept
    BY DEF SupportKept, RecordEvidence
  <1>1. CASE HasExchangeEvidence(s)
    BY <1>0, <1>a, <1>1, GotoStep DEF HasExchangeEvidence, ViewAt, Busy
  <1>2. CASE RecoverEvidence(s)
    BY <1>0, <1>2, TransitionToStep
    DEF RecoverEvidence, ViewAt, TRANSITIONS, CommandState, ACTIVE, Busy
  <1>3. CASE PrepareLiveExecution(s)
    BY <1>0, <1>a, <1>3, GotoStep DEF PrepareLiveExecution, ViewAt, Busy
  <1>4. CASE EnsureAccountSettings(s)
    BY <1>0, <1>a, <1>4, GotoStep DEF EnsureAccountSettings, ViewAt, Busy
  <1>5. CASE ExecutionWait(s)
    BY <1>0, <1>b, <1>5, YieldStep DEF ExecutionWait
  <1>6. CASE PreSubmissionBlocked(s)
    BY <1>0, <1>6, TransitionLastStep
    DEF PreSubmissionBlocked, ViewAt, TRANSITIONS, CommandState, ACTIVE, Busy
  <1>7. CASE SubmissionIntent(s)
    BY <1>0, <1>7, TransitionToStep
    DEF SubmissionIntent, ViewAt, TRANSITIONS, CommandState, ACTIVE, Busy
  <1>8. CASE CreateOrder(s)
    BY <1>8, CreateOrderStep
  <1>9. CASE Acknowledged(s)
    BY <1>0, <1>b, <1>9, GotoStep DEF Acknowledged, ViewAt, Busy
  <1>10. CASE OrderRejected(s)
    BY <1>0, <1>b, <1>10, GotoStep DEF OrderRejected, ViewAt, Busy
  <1>11. CASE GatewayError(s)
    BY <1>0, <1>b, <1>11, GotoStep DEF GatewayError, ViewAt, Busy
  <1>12. CASE FailRejected(s)
    BY <1>0, <1>12, TransitionLastStep
    DEF FailRejected, ViewAt, TRANSITIONS, CommandState, ACTIVE, Busy
  <1>13. CASE SubmissionUnknown(s)
    BY <1>0, <1>b, <1>13, YieldStep DEF SubmissionUnknown
  <1>14. CASE WaitForResolution(s)
    <2>1. SupportKept /\ UNCHANGED <<store, life, submits, deliveries, forgotten>> /\ pc[s] = "resolve"
      BY <1>b, <1>14 DEF WaitForResolution
    <2>2. CASE Yield(s)
      BY <1>0, <2>1, <2>2, YieldStep
    <2>3. CASE \E l \in {"protect", "failing"} : Goto(s, l)
      BY <1>0, <2>1, <2>3, GotoStep DEF ViewAt, Busy
    <2>4. QED
      BY <1>14, <2>2, <2>3 DEF WaitForResolution
  <1>15. CASE EnsureProtection(s)
    BY <1>0, <1>15, TransitionLastStep
    DEF EnsureProtection, ViewAt, TRANSITIONS, CommandState, ACTIVE, Busy
  <1>16. CASE CycleError(s)
    BY <1>0, <1>a, <1>16, YieldStep DEF CycleError
  <1>17. CASE ManageCycle(s)
    <2>1. CASE view[s] = "PARTIALLY_FILLED"
      BY <1>17, <2>1, TransitionLastStep DEF ManageCycle, TRANSITIONS, CommandState, ACTIVE
    <2>2. CASE view[s] # "PARTIALLY_FILLED"
      BY <1>0, <1>b, <1>17, <2>2, YieldStep DEF ManageCycle
    <2>3. QED
      BY <2>1, <2>2
  <1>18. CASE PositionMissing(s)
    BY <1>0, <1>18, TransitionToStep
    DEF PositionMissing, ViewAt, TRANSITIONS, CommandState, ACTIVE, Busy
  <1>19. CASE FinishClosed(s)
    BY <1>0, <1>19, TransitionLastStep
    DEF FinishClosed, ViewAt, TRANSITIONS, CommandState, ACTIVE, Busy
  <1>20. CASE ReconcileClosing(s)
    <2>1. CASE HasPosition(cand[s])
      BY <1>0, <1>a, <1>20, <2>1, YieldStep DEF ReconcileClosing
    <2>2. CASE ~HasPosition(cand[s])
      BY <1>0, <1>20, <2>2, TransitionLastStep
      DEF ReconcileClosing, ViewAt, TRANSITIONS, CommandState, ACTIVE
    <2>3. QED
      BY <2>1, <2>2
  <1>21. QED
    BY <1>1, <1>2, <1>3, <1>4, <1>5, <1>6, <1>7, <1>8, <1>9, <1>10, <1>11, <1>12, <1>13,
       <1>14, <1>15, <1>16, <1>17, <1>18, <1>19, <1>20
    DEF SlotStep, OwnedActiveCommand, ScanActive, TakeDirect, TakeRow, Busy

\* The steps of a slot that looks for a command.
LEMMA LookingStep ==
  ASSUME Inv, Typed', NEW s \in Slot, pc[s] \in Looking, SlotStep(s)
  PROVE  Inv' /\ Lawful
  <1> USE DEF process, exchange, environment
  <1>1. CASE OwnedActiveCommand(s)
    <2>1. /\ life = "running" /\ UNCHANGED <<store, life, submits, deliveries, forgotten>>
          /\ SupportKept
      BY <1>1 DEF OwnedActiveCommand, SupportKept, RecordEvidence, DbCallFails
    <2>2. ASSUME NEW c \in MemActive, memSlot[c] = s, Pick(s, c, mem[c])
          PROVE  Inv' /\ Lawful
      <3>1. c \in Held(s) /\ c \in Cand /\ mem[c] \in ACTIVE
        BY <2>2 DEF Held, MemActive
      <3>2. Holds(c, s, mem[c])
        BY <2>2, <3>1 DEF Holds, ACTIVE
      <3>3. QED
        BY <2>1, <2>2, <3>1, <3>2, PickStep
    <2>3. ASSUME NEW c \in DbActive, dbReady, dbSlot[c] = s, Pick(s, c, db[c])
          PROVE  Inv' /\ Lawful
      <3>1. c \in Held(s) /\ c \in Cand /\ db[c] \in ACTIVE
        BY <2>3 DEF Held, DbActive
      <3>2. Sole(c) => Holds(c, s, db[c])
        BY <2>3, <3>1 DEF Inv, Channels, Sole, Holds, ACTIVE
      <3>3. QED
        BY <2>1, <2>3, <3>1, <3>2, PickStep
    <2>4. CASE Goto(s, "claim")
      <3>1. OnlySlot(s) /\ pc'[s] = "claim" /\ "claim" \notin Busy
        BY <2>4 DEF OnlySlot, Goto, Inv, Typed, TypeOK, Busy
      <3>2. {c \in MemActive : memSlot[c] = s} = {}
        BY <1>1, <2>4, <3>1
        DEF OwnedActiveCommand, PickMemory, Pick, EntryPoint, MemActive, ACTIVE, Inv, Typed, TypeOK
      <3>3. dbReady' => {c \in DbActive : dbSlot[c] = s} = {}
        BY <1>1, <2>4, <3>1, <3>2
        DEF OwnedActiveCommand, PickRow, Pick, EntryPoint, DbActive, ACTIVE, Inv, Typed, TypeOK
      <3>4. Held(s)' = {}
        BY <2>1, <3>2, <3>3 DEF Held, MemActive, DbActive, store
      <3>5. QED
        BY <2>1, <3>1, <3>4, LocalStep
    <2>5. QED
      BY <1>1, <2>2, <2>3, <2>4 DEF OwnedActiveCommand, PickMemory, PickRow, DbCallOk
  <1>2. CASE ScanActive(s)
    <2>1. /\ life = "running" /\ UNCHANGED <<store, life, submits, deliveries, forgotten>> /\ SupportKept
          /\ \E l \in {"take", "idle"} : Goto(s, l)
      BY <1>2 DEF ScanActive, SupportKept, RecordEvidence
    <2>2. OnlySlot(s) /\ pc'[s] \notin Busy
      BY <2>1 DEF OnlySlot, Goto, Inv, Typed, TypeOK, Busy
    <2>3. Held(s)' = {}
      BY <1>2, <2>1, HeldShrinks DEF ScanActive, Inv, Slots, OnlyOwn
    <2>4. QED
      BY <2>1, <2>2, <2>3, LocalStep
  <1>3. CASE TakeDirect(s)
    BY <1>3, TakeDirectStep
  <1>4. CASE TakeRow(s)
    BY <1>4, TakeRowStep
  <1>5. QED
    BY <1>1, <1>2, <1>3, <1>4
    DEF SlotStep, HasExchangeEvidence, RecoverEvidence, PrepareLiveExecution,
        EnsureAccountSettings,
        ExecutionWait, PreSubmissionBlocked, SubmissionIntent, CreateOrder, Acknowledged, OrderRejected,
        GatewayError, FailRejected, SubmissionUnknown, WaitForResolution, EnsureProtection, CycleError,
        ManageCycle, PositionMissing, FinishClosed, ReconcileClosing, Looking

\* The invariant is inductive, and every step but a crash is legal.
LEMMA InvStep ==
  ASSUME Inv, [Next]_vars
  PROVE  Inv' /\ (crashes' # crashes \/ Lawful)
  <1>0. Typed'
    BY TypedStep DEF Inv
  <1>1. CASE \E c \in Cand : AcceptDirectCandidate(c)
    BY <1>0, <1>1, AcceptStep
  <1>2. CASE \E c \in Cand : PublishExecutionCommand(c)
    BY <1>0, <1>2, PublishStep
  <1>3. CASE Coordinate
    BY <1>0, <1>3, CoordinateStep
  <1>4. CASE Crash
    <2>1. crashes' # crashes
      BY <1>4 DEF Crash, Inv, Typed, TypeOK
    <2>2. QED
      BY <1>0, <1>4, <2>1, CrashStep
  <1>5. CASE \E s \in Slot : SlotStep(s)
    BY <1>0, <1>5, BusyStep, LookingStep DEF Inv, Typed, TypeOK, PcValue
  <1>6. CASE ExchangeStep
    BY <1>0, <1>6, IdleStep
    DEF ExchangeStep, ExchangeAnswers, LateArrival, OrderEnds, process, environment
  <1>7. CASE \E y \in Symbol : PositionCloses(y)
    BY <1>0, <1>7, IdleStep DEF PositionCloses, process, environment
  <1>8. CASE UNCHANGED vars
    BY <1>0, <1>8, IdleStep DEF vars, process, exchange, environment
  <1>9. QED
    BY <1>1, <1>2, <1>3, <1>4, <1>5, <1>6, <1>7, <1>8 DEF Next

\* createOrder is called at most once for a command that was kept: for any number
\* of slots, whatever answer is lost, delayed or interleaved, through outages of
\* PostgreSQL and restarts.
THEOREM EntrySubmittedOnce == Spec => []SubmitOnce
<1>1. Init => Inv
  BY InvInit
<1>2. Inv /\ [Next]_vars => Inv'
  BY InvStep
<1>3. Inv => SubmitOnce
  BY DEF Inv, Fresh, FreshCommand, SubmitOnce
<1>4. QED
  BY <1>1, <1>2, <1>3, PTL DEF Spec

\* Only a candidate that came over both channels is processed by two slots, as
\* the run node_channels shows that it is; one that came once never is, through
\* database outages, retried writes and restarts.
SharedOnlyIfTwice ==
  \A s, t \in Slot :
    pc[s] \in Busy /\ pc[t] \in Busy /\ cand[s] = cand[t] /\ s # t => ~Sole(cand[s])

\* OneSlotPerCandidate for every candidate but those: the fault the readiness
\* endpoint reports needs a double delivery.
THEOREM CommandOwnedBySlot == Spec => []SharedOnlyIfTwice
<1>1. Init => Inv
  BY InvInit
<1>2. Inv /\ [Next]_vars => Inv'
  BY InvStep
<1>3. Inv => SharedOnlyIfTwice
  BY OwnerUnique DEF Inv, SharedOnlyIfTwice
<1>4. QED
  BY <1>1, <1>2, <1>3, PTL DEF Spec

\* Between crashes the state answered for a command that came once follows the
\* transition table, although the in-memory half of the repository checks no
\* transition.
THEOREM TransitionsLegal == Spec => StatusFollowsTable
<1>1. Init => Inv
  BY InvInit
<1>2. Inv /\ [Next]_vars => Inv'
  BY InvStep
<1>3. Inv /\ [Next]_vars => [crashes' # crashes \/ \A c \in Cand : Sole(c)' => LegalChange(c)]_vars
  BY InvStep DEF Lawful
<1>4. QED
  BY <1>1, <1>2, <1>3, PTL DEF Spec, StatusFollowsTable

\* A slot carries at most one active command among those the process can see,
\* whatever PostgreSQL, restarts, double deliveries and the other slots do between
\* the scan of the active commands and the reservation.
THEOREM SlotCarriesOne == Spec => []SlotExclusive
<1>1. Init => Inv
  BY InvInit
<1>2. Inv /\ [Next]_vars => Inv'
  BY InvStep
<1>3. ASSUME Inv, NEW c \in ActiveCommands, NEW d \in ActiveCommands, SlotOf(c) = SlotOf(d)
      PROVE  c = d
  <2>1. SlotOf(c) \in Slot /\ c \in Held(SlotOf(c)) /\ d \in Held(SlotOf(c))
    BY <1>3 DEF Inv, Channels, ActiveCommands, SlotOf, Held, RowActive, DbActive, MemActive
  <2>2. QED
    BY <1>3, <2>1 DEF Inv, Slots
<1>4. Inv => SlotExclusive
  BY <1>3 DEF SlotExclusive
<1>5. QED
  BY <1>1, <1>2, <1>4, PTL DEF Spec

-----------------------------------------------------------------------------
(* What the exchange may still do to a command.                             *)

\* A kept command whose createOrder no gateway error answered.
Clean(c) == Kept(c) /\ c \notin misread

\* The order, the abandoned request and the position of a command, against the
\* state the repository answers for it.
Settled(c) ==
  /\ submits[c] = 0 => order[c] = "none" /\ c \notin late /\ c \notin open
  /\ c \in late => order[c] = "none"
  /\ c \in open => order[c] \in {"filled", "partial"}
  /\ c \in late \/ order[c] = "live" => Status(c) = "ORDER_PENDING"
  /\ Status(c) = "FAILED" => order[c] \in {"none", "dead"}
  /\ Status(c) \in {"PARTIALLY_FILLED", "MANAGING", "CLOSING", "CLOSED"} =>
       order[c] \in {"filled", "partial"}
  /\ Status(c) \in {"CLOSING", "CLOSED"} => c \notin open

\* What a slot may conclude at an await from what it read before.
Informed(s) ==
  /\ pc[s] = "wait" => submits[cand[s]] # 0 /\ cand[s] \notin late
  /\ req[s] \in {"net", "rejected"} => order[cand[s]] = "none"
  /\ pc[s] = "failing" => order[cand[s]] \in {"none", "dead"} /\ cand[s] \notin late
  /\ pc[s] = "protect" => order[cand[s]] \in {"filled", "partial"}
  /\ pc[s] = "finish" => cand[s] \notin open

Flow ==
  /\ \A c \in Cand : Clean(c) => Settled(c)
  /\ \A s \in Slot : cand[s] \in Cand /\ Clean(cand[s]) => Informed(s)

\* No step cleans a command.
Tainting == \A d \in Cand : Clean(d)' => Clean(d)

\* A step leaves every command but c alone, on the exchange and in the repository.
OnlyCommand(c) ==
  \A d \in Cand \ {c} :
    /\ Status(d)' = Status(d)
    /\ order'[d] = order[d] /\ submits'[d] = submits[d]
    /\ (d \in late' <=> d \in late) /\ (d \in open' <=> d \in open)

\* A step takes command c along the transition table, never to a terminal state
\* under an open position, or fills the order of a pending command.
Promised(c) ==
  \/ Status(c)' = Status(c) /\ (c \in open' => c \in open)
  \/ /\ Status(c)' \in LifecycleOf(c)!ALLOWED_TRANSITIONS(Status(c))
     /\ Status(c)' \in TERMINAL => c \notin open
     /\ (c \in open' <=> c \in open)
  \/ Status(c)' = Status(c) /\ Status(c) = "ORDER_PENDING" /\ c \in open'

\* The slot goes on with its command or gives it back.
Holding(s, c) == cand'[s] = c \/ cand'[s] = NoCand

\* What a slot that processes a clean command knows of it.
Known(s, c) == Status(c) = view[s] /\ FreshCommand(c) /\ Settled(c) /\ Informed(s)

LEMMA BusyKnows ==
  ASSUME Inv, Flow, NEW s \in Slot, pc[s] \in Busy, NEW c \in Cand, c = cand[s]
  PROVE  view[s] \in ViewAt(pc[s]) /\ (Clean(c) => Known(s, c))
  <1>1. Clean(c) => Status(c) = view[s]
    BY BusyFacts DEF Clean, Kept
  <1>2. QED
    BY <1>1 DEF Inv, Views, Fresh, Flow, Clean, Known

\* Deliveries add up, rows stay, and what was forgotten or misread remains so.
LEMMA CleanStep ==
  ASSUME Inv, Inv', [Next]_vars
  PROVE  Tainting
  <1>1. \A d \in Cand : Sole(d)' => Sole(d)
    <2>1. ASSUME UNCHANGED <<db, deliveries>> PROVE \A d \in Cand : Sole(d)' => Sole(d)
      BY <2>1 DEF Sole
    <2>2. ASSUME NEW c \in Cand, AcceptDirectCandidate(c)
          PROVE  \A d \in Cand : Sole(d)' => Sole(d)
      BY <2>2 DEF AcceptDirectCandidate, Sole, Inv, Typed, TypeOK
    <2>3. ASSUME NEW c \in Cand, PublishExecutionCommand(c)
          PROVE  \A d \in Cand : Sole(d)' => Sole(d)
      BY <2>3 DEF PublishExecutionCommand, Sole, environment, Inv, Typed, TypeOK
    <2>4. ASSUME NEW s \in Slot, SlotStep(s)
          PROVE  \A d \in Cand : Sole(d)' => Sole(d)
      <3>1. deliveries' = deliveries
        BY <2>4 DEF SlotStep, OwnedActiveCommand, ScanActive, TakeDirect, TakeRow,
           HasExchangeEvidence, RecoverEvidence, PrepareLiveExecution, EnsureAccountSettings,
           ExecutionWait, PreSubmissionBlocked, SubmissionIntent, CreateOrder, Acknowledged,
           OrderRejected, GatewayError, FailRejected, SubmissionUnknown, WaitForResolution,
           EnsureProtection, CycleError, ManageCycle, PositionMissing, FinishClosed,
           ReconcileClosing, environment
      <3>2. ASSUME NEW c \in Cand, NEW next, next # "NONE", WriteTransition(s, c, next)
            PROVE  \A d \in Cand : db'[d] = "NONE" => db[d] = "NONE"
        <4>1. Written(s, c, next)
          BY <3>2, TransitionWrites
        <4>2. QED
          BY <3>2, <4>1 DEF Written
      <3>3. \A d \in Cand : db'[d] = "NONE" => db[d] = "NONE"
        <4>1. CASE UNCHANGED db
          BY <4>1
        <4>2. CASE TakeRow(s)
          BY <4>2 DEF TakeRow, Inv, Typed, TypeOK
        <4>3. CASE pc[s] \in Busy /\ ~UNCHANGED db
          <5>1. PICK c \in Cand : c = cand[s]
            BY <4>3, BusyFacts
          <5>2. \E next \in CommandState \ {"NONE"} : WriteTransition(s, cand[s], next)
            BY <2>4, <4>3 DEF SlotStep, OwnedActiveCommand, ScanActive, TakeDirect, TakeRow,
               HasExchangeEvidence, RecoverEvidence, PrepareLiveExecution, EnsureAccountSettings,
               ExecutionWait, PreSubmissionBlocked, SubmissionIntent, CreateOrder, Acknowledged,
               OrderRejected, GatewayError, FailRejected, SubmissionUnknown, WaitForResolution,
               EnsureProtection, CycleError, ManageCycle, PositionMissing, FinishClosed,
               ReconcileClosing, TransitionTo, TransitionLast, store, Busy, CommandState, ACTIVE,
               TERMINAL
          <5>3. PICK next \in CommandState \ {"NONE"} : WriteTransition(s, cand[s], next)
            BY <5>2
          <5>4. WriteTransition(s, c, next)
            BY <5>1, <5>3 DEF WriteTransition, Shadow
          <5>5. QED
            BY <3>2, <5>4
        <4>4. QED
          BY <2>4, <4>1, <4>2, <4>3 DEF SlotStep, OwnedActiveCommand, ScanActive, TakeDirect,
             HasExchangeEvidence, RecoverEvidence, PrepareLiveExecution, EnsureAccountSettings,
             ExecutionWait, PreSubmissionBlocked, SubmissionIntent, CreateOrder, Acknowledged,
             OrderRejected, GatewayError, FailRejected, SubmissionUnknown, WaitForResolution,
             EnsureProtection, CycleError, ManageCycle, PositionMissing, FinishClosed,
             ReconcileClosing, store, Busy
      <3>4. QED
        BY <3>1, <3>3 DEF Sole
    <2>5. QED
      BY <2>1, <2>2, <2>3, <2>4 DEF Next, ExchangeStep, Coordinate, Crash, ExchangeAnswers,
         LateArrival, OrderEnds, PositionCloses, store, environment, vars
  <1>2. forgotten \subseteq forgotten' /\ misread \subseteq misread'
    BY DEF Next, ExchangeStep, AcceptDirectCandidate, PublishExecutionCommand, Coordinate,
       Crash, ExchangeAnswers, LateArrival, OrderEnds, PositionCloses, environment, vars,
       SlotStep, OwnedActiveCommand, ScanActive, TakeDirect, TakeRow,
       HasExchangeEvidence, RecoverEvidence, PrepareLiveExecution, EnsureAccountSettings,
       ExecutionWait, PreSubmissionBlocked, SubmissionIntent, CreateOrder, Acknowledged,
       OrderRejected, GatewayError, FailRejected, SubmissionUnknown, WaitForResolution,
       EnsureProtection, CycleError, ManageCycle, PositionMissing, FinishClosed,
       ReconcileClosing
  <1>3. QED
    BY <1>1, <1>2 DEF Tainting, Clean, Kept

\* A step of a slot that only concerns its command keeps the flow of the others.
LEMMA FlowLift ==
  ASSUME Inv, Inv', Flow, Tainting, NEW s \in Slot, pc[s] \in Busy, NEW c \in Cand, c = cand[s],
         OnlySlot(s), \A t \in Slot \ {s} : req'[t] = req[t],
         OnlyCommand(c), Holding(s, c),
         Clean(c) /\ Clean(c)' => Settled(c)' /\ Informed(s)'
  PROVE  Flow'
  <1>1. ASSUME NEW d \in Cand, Clean(d)' PROVE Settled(d)'
    <2>1. Clean(d)
      BY <1>1 DEF Tainting
    <2>2. CASE d = c
      BY <1>1, <2>1, <2>2
    <2>3. CASE d # c
      BY <2>1, <2>3 DEF Flow, Settled, OnlyCommand
    <2>4. QED
      BY <2>2, <2>3
  <1>2. ASSUME NEW t \in Slot \ {s}, cand'[t] \in Cand, Clean(cand[t])' PROVE Informed(t)'
    <2>1. PICK d \in Cand : d = cand'[t]
      BY <1>2
    <2>2. pc'[t] = pc[t] /\ cand[t] = d /\ req'[t] = req[t]
      BY <2>1 DEF OnlySlot
    <2>3. Clean(d)'
      BY <1>2, <2>1 DEF Clean, Kept, Sole
    <2>4. Clean(d) /\ Sole(d)
      BY <2>3 DEF Tainting, Clean, Kept
    <2>5. CASE pc[t] \in Busy
      <3>1. d # c
        BY <2>2, <2>4, <2>5, OwnerUnique DEF Inv
      <3>2. Informed(t)
        BY <2>2, <2>4 DEF Flow
      <3>3. /\ order'[d] = order[d] /\ submits'[d] = submits[d]
            /\ (d \in late' <=> d \in late) /\ (d \in open' <=> d \in open)
        BY <3>1 DEF OnlyCommand
      <3>4. QED
        BY <2>1, <2>2, <3>2, <3>3 DEF Informed
    <2>6. CASE pc[t] \notin Busy
      BY <2>2, <2>6 DEF Informed, Inv, Typed, Working, Busy
    <2>7. QED
      BY <2>5, <2>6
  <1>3. ASSUME cand'[s] \in Cand, Clean(cand[s])' PROVE Informed(s)'
    <2>1. cand'[s] = c
      BY <1>3, ConstantsOK DEF Holding
    <2>2. Clean(c)'
      BY <1>3, <2>1 DEF Clean, Kept, Sole
    <2>3. QED
      BY <2>2 DEF Tainting
  <1>4. QED
    BY <1>1, <1>2, <1>3 DEF Flow

\* One lemma per step of a slot: it keeps the flow, concerns the slot's command
\* only, and moves that command as the lifecycle promises.
LEMMA FlowHasExchangeEvidence ==
  ASSUME Inv, Inv', Flow, Tainting, NEW s \in Slot, pc[s] \in Busy,
         NEW c \in Cand, c = cand[s], HasExchangeEvidence(s)
  PROVE  Flow' /\ OnlyCommand(c) /\ (Clean(c) => Promised(c))
<1>1. view[s] \in ViewAt(pc[s]) /\ (Clean(c) => Known(s, c))
  BY BusyKnows
<1>2. \A d \in Cand : Status(d)' = Status(d)
  BY DEF HasExchangeEvidence, Status, store
<1>3. OnlySlot(s) /\ Holding(s, c) /\ \A t \in Slot \ {s} : req'[t] = req[t]
  BY DEF HasExchangeEvidence, Goto, OnlySlot, Holding, exchange, Inv, Typed, TypeOK
<1>4. OnlyCommand(c) /\ (Clean(c) => Promised(c))
  BY <1>2 DEF HasExchangeEvidence, OnlyCommand, Promised, exchange, Inv, Typed, TypeOK
<1>5. Clean(c) => Settled(c)' /\ Informed(s)'
  BY <1>1, <1>2 DEF HasExchangeEvidence, Goto, Known, Settled, Informed, FreshCommand, ViewAt,
     Busy, exchange, Inv, Typed, TypeOK, Working
<1>6. QED
  BY <1>3, <1>4, <1>5, FlowLift

LEMMA FlowPrepareLiveExecution ==
  ASSUME Inv, Inv', Flow, Tainting, NEW s \in Slot, pc[s] \in Busy,
         NEW c \in Cand, c = cand[s], PrepareLiveExecution(s)
  PROVE  Flow' /\ OnlyCommand(c) /\ (Clean(c) => Promised(c))
<1>1. view[s] \in ViewAt(pc[s]) /\ (Clean(c) => Known(s, c))
  BY BusyKnows
<1>2. \A d \in Cand : Status(d)' = Status(d)
  BY DEF PrepareLiveExecution, Status, store
<1>3. OnlySlot(s) /\ Holding(s, c) /\ \A t \in Slot \ {s} : req'[t] = req[t]
  BY DEF PrepareLiveExecution, Goto, OnlySlot, Holding, exchange, Inv, Typed, TypeOK
<1>4. OnlyCommand(c) /\ (Clean(c) => Promised(c))
  BY <1>2 DEF PrepareLiveExecution, OnlyCommand, Promised, exchange, Inv, Typed, TypeOK
<1>5. Clean(c) => Settled(c)' /\ Informed(s)'
  BY <1>1, <1>2 DEF PrepareLiveExecution, Goto, Known, Settled, Informed, FreshCommand,
     ViewAt, Busy, exchange, Inv, Typed, TypeOK, Working
<1>6. QED
  BY <1>3, <1>4, <1>5, FlowLift

LEMMA FlowEnsureAccountSettings ==
  ASSUME Inv, Inv', Flow, Tainting, NEW s \in Slot, pc[s] \in Busy,
         NEW c \in Cand, c = cand[s], EnsureAccountSettings(s)
  PROVE  Flow' /\ OnlyCommand(c) /\ (Clean(c) => Promised(c))
<1>1. view[s] \in ViewAt(pc[s]) /\ (Clean(c) => Known(s, c))
  BY BusyKnows
<1>2. \A d \in Cand : Status(d)' = Status(d)
  BY DEF EnsureAccountSettings, Status, store
<1>3. OnlySlot(s) /\ Holding(s, c) /\ \A t \in Slot \ {s} : req'[t] = req[t]
  BY DEF EnsureAccountSettings, Goto, OnlySlot, Holding, exchange, Inv, Typed, TypeOK
<1>4. OnlyCommand(c) /\ (Clean(c) => Promised(c))
  BY <1>2 DEF EnsureAccountSettings, OnlyCommand, Promised, exchange, Inv, Typed,
     TypeOK
<1>5. Clean(c) => Settled(c)' /\ Informed(s)'
  BY <1>1, <1>2 DEF EnsureAccountSettings, Goto, Known, Settled, Informed, FreshCommand,
     ViewAt, Busy, exchange, Inv, Typed, TypeOK, Working
<1>6. QED
  BY <1>3, <1>4, <1>5, FlowLift

LEMMA FlowExecutionWait ==
  ASSUME Inv, Inv', Flow, Tainting, NEW s \in Slot, pc[s] \in Busy,
         NEW c \in Cand, c = cand[s], ExecutionWait(s)
  PROVE  Flow' /\ OnlyCommand(c) /\ (Clean(c) => Promised(c))
<1>1. view[s] \in ViewAt(pc[s]) /\ (Clean(c) => Known(s, c))
  BY BusyKnows
<1>2. \A d \in Cand : Status(d)' = Status(d)
  BY DEF ExecutionWait, Status, store
<1>3. OnlySlot(s) /\ Holding(s, c) /\ \A t \in Slot \ {s} : req'[t] = req[t]
  BY DEF ExecutionWait, Yield, OnlySlot, Holding, exchange, Inv, Typed, TypeOK
<1>4. OnlyCommand(c) /\ (Clean(c) => Promised(c))
  BY <1>2 DEF ExecutionWait, OnlyCommand, Promised, exchange, Inv, Typed, TypeOK
<1>5. Clean(c) => Settled(c)' /\ Informed(s)'
  BY <1>1, <1>2 DEF ExecutionWait, Yield, Known, Settled, Informed, FreshCommand, ViewAt,
     Busy, exchange, Inv, Typed, TypeOK, Working
<1>6. QED
  BY <1>3, <1>4, <1>5, FlowLift

LEMMA FlowCreateOrder ==
  ASSUME Inv, Inv', Flow, Tainting, NEW s \in Slot, pc[s] \in Busy,
         NEW c \in Cand, c = cand[s], CreateOrder(s)
  PROVE  Flow' /\ OnlyCommand(c) /\ (Clean(c) => Promised(c))
<1>1. view[s] \in ViewAt(pc[s]) /\ (Clean(c) => Known(s, c))
  BY BusyKnows
<1>2. \A d \in Cand : Status(d)' = Status(d)
  BY DEF CreateOrder, Status, store
<1>3. OnlySlot(s) /\ Holding(s, c) /\ \A t \in Slot \ {s} : req'[t] = req[t]
  BY DEF CreateOrder, Goto, OnlySlot, Holding, Inv, Typed, TypeOK
<1>4. OnlyCommand(c) /\ (Clean(c) => Promised(c))
  BY <1>2 DEF CreateOrder, OnlyCommand, Promised, Inv, Typed, TypeOK
<1>5. pc[s] = "send" /\ req'[s] = "net" /\ (Clean(c) => submits[c] = 0 /\ submits'[c] = 1)
  BY DEF CreateOrder, Inv, Fresh, Typed, TypeOK, Clean
<1>6. pc'[s] = "wait" /\ cand'[s] = c /\ UNCHANGED <<late, order, open>>
  BY DEF CreateOrder, Goto, Inv, Typed, TypeOK
<1>7. Clean(c) => Settled(c)' /\ Informed(s)'
  BY <1>1, <1>2, <1>5, <1>6 DEF Known, Settled, Informed, ViewAt
<1>8. QED
  BY <1>3, <1>4, <1>7, FlowLift

LEMMA FlowAcknowledged ==
  ASSUME Inv, Inv', Flow, Tainting, NEW s \in Slot, pc[s] \in Busy,
         NEW c \in Cand, c = cand[s], Acknowledged(s)
  PROVE  Flow' /\ OnlyCommand(c) /\ (Clean(c) => Promised(c))
<1>1. view[s] \in ViewAt(pc[s]) /\ (Clean(c) => Known(s, c))
  BY BusyKnows
<1>2. \A d \in Cand : Status(d)' = Status(d)
  BY DEF Acknowledged, Status, store
<1>3. OnlySlot(s) /\ Holding(s, c) /\ \A t \in Slot \ {s} : req'[t] = req[t]
  BY DEF Acknowledged, Goto, OnlySlot, Holding, Inv, Typed, TypeOK
<1>4. OnlyCommand(c) /\ (Clean(c) => Promised(c))
  BY <1>2 DEF Acknowledged, OnlyCommand, Promised, Inv, Typed, TypeOK
<1>5. Clean(c) => Settled(c)' /\ Informed(s)'
  BY <1>1, <1>2 DEF Acknowledged, Goto, Known, Settled, Informed, FreshCommand, ViewAt, Busy,
     Inv, Typed, TypeOK, Working
<1>6. QED
  BY <1>3, <1>4, <1>5, FlowLift

LEMMA FlowOrderRejected ==
  ASSUME Inv, Inv', Flow, Tainting, NEW s \in Slot, pc[s] \in Busy,
         NEW c \in Cand, c = cand[s], OrderRejected(s)
  PROVE  Flow' /\ OnlyCommand(c) /\ (Clean(c) => Promised(c))
<1>1. view[s] \in ViewAt(pc[s]) /\ (Clean(c) => Known(s, c))
  BY BusyKnows
<1>2. \A d \in Cand : Status(d)' = Status(d)
  BY DEF OrderRejected, Status, store
<1>3. OnlySlot(s) /\ Holding(s, c) /\ \A t \in Slot \ {s} : req'[t] = req[t]
  BY DEF OrderRejected, Goto, OnlySlot, Holding, Inv, Typed, TypeOK
<1>4. OnlyCommand(c) /\ (Clean(c) => Promised(c))
  BY <1>2 DEF OrderRejected, OnlyCommand, Promised, Inv, Typed, TypeOK
<1>5. Clean(c) => Settled(c)' /\ Informed(s)'
  BY <1>1, <1>2 DEF OrderRejected, Goto, Known, Settled, Informed, FreshCommand, ViewAt, Busy,
     Inv, Typed, TypeOK, Working
<1>6. QED
  BY <1>3, <1>4, <1>5, FlowLift

LEMMA FlowSubmissionUnknown ==
  ASSUME Inv, Inv', Flow, Tainting, NEW s \in Slot, pc[s] \in Busy,
         NEW c \in Cand, c = cand[s], SubmissionUnknown(s)
  PROVE  Flow' /\ OnlyCommand(c) /\ (Clean(c) => Promised(c))
<1>1. view[s] \in ViewAt(pc[s]) /\ (Clean(c) => Known(s, c))
  BY BusyKnows
<1>2. \A d \in Cand : Status(d)' = Status(d)
  BY DEF SubmissionUnknown, Status, store
<1>3. OnlySlot(s) /\ Holding(s, c) /\ \A t \in Slot \ {s} : req'[t] = req[t]
  BY DEF SubmissionUnknown, Yield, OnlySlot, Holding, Inv, Typed, TypeOK
<1>4. OnlyCommand(c) /\ (Clean(c) => Promised(c))
  BY <1>2 DEF SubmissionUnknown, OnlyCommand, Promised, Inv, Typed, TypeOK
<1>5. Clean(c) => Settled(c)' /\ Informed(s)'
  BY <1>1, <1>2 DEF SubmissionUnknown, Yield, Known, Settled, Informed, FreshCommand, ViewAt,
     Busy, Inv, Typed, TypeOK, Working
<1>6. QED
  BY <1>3, <1>4, <1>5, FlowLift

LEMMA FlowWaitForResolution ==
  ASSUME Inv, Inv', Flow, Tainting, NEW s \in Slot, pc[s] \in Busy,
         NEW c \in Cand, c = cand[s], WaitForResolution(s)
  PROVE  Flow' /\ OnlyCommand(c) /\ (Clean(c) => Promised(c))
<1>1. view[s] \in ViewAt(pc[s]) /\ (Clean(c) => Known(s, c))
  BY BusyKnows
<1>2. \A d \in Cand : Status(d)' = Status(d)
  BY DEF WaitForResolution, Status, store
<1>3. OnlySlot(s) /\ Holding(s, c) /\ \A t \in Slot \ {s} : req'[t] = req[t]
  BY DEF WaitForResolution, Goto, Yield, OnlySlot, Holding, exchange, Inv, Typed, TypeOK
<1>4. OnlyCommand(c) /\ (Clean(c) => Promised(c))
  BY <1>2 DEF WaitForResolution, OnlyCommand, Promised, exchange, Inv, Typed, TypeOK
<1>5. Clean(c) => Settled(c)' /\ Informed(s)'
  BY <1>1, <1>2 DEF WaitForResolution, Goto, Yield, Known, Settled, Informed, FreshCommand,
     ViewAt, Busy, exchange, Inv, Typed, TypeOK, Working
<1>6. QED
  BY <1>3, <1>4, <1>5, FlowLift

LEMMA FlowCycleError ==
  ASSUME Inv, Inv', Flow, Tainting, NEW s \in Slot, pc[s] \in Busy,
         NEW c \in Cand, c = cand[s], CycleError(s)
  PROVE  Flow' /\ OnlyCommand(c) /\ (Clean(c) => Promised(c))
<1>1. view[s] \in ViewAt(pc[s]) /\ (Clean(c) => Known(s, c))
  BY BusyKnows
<1>2. \A d \in Cand : Status(d)' = Status(d)
  BY DEF CycleError, Status, store
<1>3. OnlySlot(s) /\ Holding(s, c) /\ \A t \in Slot \ {s} : req'[t] = req[t]
  BY DEF CycleError, Yield, OnlySlot, Holding, exchange, Inv, Typed, TypeOK
<1>4. OnlyCommand(c) /\ (Clean(c) => Promised(c))
  BY <1>2 DEF CycleError, OnlyCommand, Promised, exchange, Inv, Typed, TypeOK
<1>5. Clean(c) => Settled(c)' /\ Informed(s)'
  BY <1>1, <1>2 DEF CycleError, Yield, Known, Settled, Informed, FreshCommand, ViewAt, Busy,
     exchange, Inv, Typed, TypeOK, Working
<1>6. QED
  BY <1>3, <1>4, <1>5, FlowLift

LEMMA FlowRecoverEvidence ==
  ASSUME Inv, Inv', Flow, Tainting, NEW s \in Slot, pc[s] \in Busy,
         NEW c \in Cand, c = cand[s], RecoverEvidence(s)
  PROVE  Flow' /\ OnlyCommand(c) /\ (Clean(c) => Promised(c))
<1>1. view[s] \in ViewAt(pc[s]) /\ (Clean(c) => Known(s, c))
  BY BusyKnows
<1> DEFINE next == "ORDER_PENDING"
<1>2. next # "NONE"
  OBVIOUS
<1>3. WriteTransition(s, c, next)
  BY DEF RecoverEvidence, TransitionTo, WriteTransition, Shadow
<1>4. Status(c)' = next /\ \A d \in Cand \ {c} : Status(d)' = Status(d)
  BY <1>2, <1>3, TransitionStatus
<1>5. OnlySlot(s) /\ Holding(s, c) /\ \A t \in Slot \ {s} : req'[t] = req[t]
  BY DEF RecoverEvidence, TransitionTo, OnlySlot, Holding, exchange, Inv, Typed, TypeOK
<1>6. OnlyCommand(c)
  BY <1>4 DEF RecoverEvidence, OnlyCommand, exchange
<1>7. Clean(c) => Promised(c)
  BY <1>1, <1>4 DEF RecoverEvidence, Promised, LifecycleOf!ALLOWED_TRANSITIONS, TERMINAL,
     Known, Settled, Informed, FreshCommand, ViewAt, exchange, Inv, Typed, TypeOK
<1>8. Clean(c) => Settled(c)' /\ Informed(s)'
  BY <1>1, <1>4 DEF RecoverEvidence, TransitionTo, Known, Settled, Informed, FreshCommand,
     ViewAt, Busy, exchange, Inv, Typed, TypeOK, Working
<1>9. QED
  BY <1>5, <1>6, <1>7, <1>8, FlowLift

LEMMA FlowPreSubmissionBlocked ==
  ASSUME Inv, Inv', Flow, Tainting, NEW s \in Slot, pc[s] \in Busy,
         NEW c \in Cand, c = cand[s], PreSubmissionBlocked(s)
  PROVE  Flow' /\ OnlyCommand(c) /\ (Clean(c) => Promised(c))
<1>1. view[s] \in ViewAt(pc[s]) /\ (Clean(c) => Known(s, c))
  BY BusyKnows
<1> DEFINE next == "FAILED"
<1>2. next # "NONE"
  OBVIOUS
<1>3. WriteTransition(s, c, next)
  BY DEF PreSubmissionBlocked, TransitionLast, WriteTransition, Shadow
<1>4. Status(c)' = next /\ \A d \in Cand \ {c} : Status(d)' = Status(d)
  BY <1>2, <1>3, TransitionStatus
<1>5. OnlySlot(s) /\ Holding(s, c) /\ \A t \in Slot \ {s} : req'[t] = req[t]
  BY DEF PreSubmissionBlocked, TransitionLast, Yield, OnlySlot, Holding, exchange, Inv, Typed,
     TypeOK
<1>6. OnlyCommand(c)
  BY <1>4 DEF PreSubmissionBlocked, OnlyCommand, exchange
<1>7. Clean(c) => Promised(c)
  BY <1>1, <1>4 DEF PreSubmissionBlocked, Promised, LifecycleOf!ALLOWED_TRANSITIONS,
     TERMINAL, Known, Settled, Informed, FreshCommand, ViewAt, exchange, Inv, Typed, TypeOK
<1>8. Clean(c) => Settled(c)' /\ Informed(s)'
  BY <1>1, <1>4 DEF PreSubmissionBlocked, TransitionLast, Yield, Known, Settled, Informed,
     FreshCommand, ViewAt, Busy, exchange, Inv, Typed, TypeOK, Working
<1>9. QED
  BY <1>5, <1>6, <1>7, <1>8, FlowLift

LEMMA FlowSubmissionIntent ==
  ASSUME Inv, Inv', Flow, Tainting, NEW s \in Slot, pc[s] \in Busy,
         NEW c \in Cand, c = cand[s], SubmissionIntent(s)
  PROVE  Flow' /\ OnlyCommand(c) /\ (Clean(c) => Promised(c))
<1>1. view[s] \in ViewAt(pc[s]) /\ (Clean(c) => Known(s, c))
  BY BusyKnows
<1> DEFINE next == "ORDER_PENDING"
<1>2. next # "NONE"
  OBVIOUS
<1>3. WriteTransition(s, c, next)
  BY DEF SubmissionIntent, TransitionTo, WriteTransition, Shadow
<1>4. Status(c)' = next /\ \A d \in Cand \ {c} : Status(d)' = Status(d)
  BY <1>2, <1>3, TransitionStatus
<1>5. OnlySlot(s) /\ Holding(s, c) /\ \A t \in Slot \ {s} : req'[t] = req[t]
  BY DEF SubmissionIntent, TransitionTo, OnlySlot, Holding, exchange, Inv, Typed, TypeOK
<1>6. OnlyCommand(c)
  BY <1>4 DEF SubmissionIntent, OnlyCommand, exchange
<1>7. Clean(c) => Promised(c)
  BY <1>1, <1>4 DEF SubmissionIntent, Promised, LifecycleOf!ALLOWED_TRANSITIONS,
     TERMINAL, Known, Settled, Informed, FreshCommand, ViewAt, exchange, Inv, Typed, TypeOK
<1>8. Clean(c) => Settled(c)' /\ Informed(s)'
  BY <1>1, <1>4 DEF SubmissionIntent, TransitionTo, Known, Settled, Informed, FreshCommand,
     ViewAt, Busy, exchange, Inv, Typed, TypeOK, Working
<1>9. QED
  BY <1>5, <1>6, <1>7, <1>8, FlowLift

LEMMA FlowFailRejected ==
  ASSUME Inv, Inv', Flow, Tainting, NEW s \in Slot, pc[s] \in Busy,
         NEW c \in Cand, c = cand[s], FailRejected(s)
  PROVE  Flow' /\ OnlyCommand(c) /\ (Clean(c) => Promised(c))
<1>1. view[s] \in ViewAt(pc[s]) /\ (Clean(c) => Known(s, c))
  BY BusyKnows
<1> DEFINE next == "FAILED"
<1>2. next # "NONE"
  OBVIOUS
<1>3. WriteTransition(s, c, next)
  BY DEF FailRejected, TransitionLast, WriteTransition, Shadow
<1>4. Status(c)' = next /\ \A d \in Cand \ {c} : Status(d)' = Status(d)
  BY <1>2, <1>3, TransitionStatus
<1>5. OnlySlot(s) /\ Holding(s, c) /\ \A t \in Slot \ {s} : req'[t] = req[t]
  BY DEF FailRejected, TransitionLast, Yield, OnlySlot, Holding, exchange, Inv, Typed, TypeOK
<1>6. OnlyCommand(c)
  BY <1>4 DEF FailRejected, OnlyCommand, exchange
<1>7. Clean(c) => Promised(c)
  BY <1>1, <1>4 DEF FailRejected, Promised, LifecycleOf!ALLOWED_TRANSITIONS, TERMINAL,
     Known, Settled, Informed, FreshCommand, ViewAt, exchange, Inv, Typed, TypeOK
<1>8. Clean(c) => Settled(c)' /\ Informed(s)'
  BY <1>1, <1>4 DEF FailRejected, TransitionLast, Yield, Known, Settled, Informed,
     FreshCommand, ViewAt, Busy, exchange, Inv, Typed, TypeOK, Working
<1>9. QED
  BY <1>5, <1>6, <1>7, <1>8, FlowLift

LEMMA FlowEnsureProtection ==
  ASSUME Inv, Inv', Flow, Tainting, NEW s \in Slot, pc[s] \in Busy,
         NEW c \in Cand, c = cand[s], EnsureProtection(s)
  PROVE  Flow' /\ OnlyCommand(c) /\ (Clean(c) => Promised(c))
<1>1. view[s] \in ViewAt(pc[s]) /\ (Clean(c) => Known(s, c))
  BY BusyKnows
<1> DEFINE next == IF order[cand[s]] = "filled" THEN "MANAGING" ELSE "PARTIALLY_FILLED"
<1>2. next # "NONE"
  OBVIOUS
<1>3. WriteTransition(s, c, next)
  BY DEF EnsureProtection, TransitionLast, WriteTransition, Shadow
<1>4. Status(c)' = next /\ \A d \in Cand \ {c} : Status(d)' = Status(d)
  BY <1>2, <1>3, TransitionStatus
<1>5. OnlySlot(s) /\ Holding(s, c) /\ \A t \in Slot \ {s} : req'[t] = req[t]
  BY DEF EnsureProtection, TransitionLast, Yield, OnlySlot, Holding, exchange, Inv, Typed,
     TypeOK
<1>6. OnlyCommand(c)
  BY <1>4 DEF EnsureProtection, OnlyCommand, exchange
<1>7. Clean(c) => Promised(c)
  BY <1>1, <1>4 DEF EnsureProtection, Promised, LifecycleOf!ALLOWED_TRANSITIONS,
     TERMINAL, Known, Settled, Informed, FreshCommand, ViewAt, exchange, Inv, Typed, TypeOK,
     HasPosition, OpenSymbols
<1>8. Clean(c) => Settled(c)' /\ Informed(s)'
  BY <1>1, <1>4 DEF EnsureProtection, TransitionLast, Yield, Known, Settled, Informed,
     FreshCommand, ViewAt, Busy, exchange, Inv, Typed, TypeOK, Working, HasPosition,
     OpenSymbols
<1>9. QED
  BY <1>5, <1>6, <1>7, <1>8, FlowLift

LEMMA FlowPositionMissing ==
  ASSUME Inv, Inv', Flow, Tainting, NEW s \in Slot, pc[s] \in Busy,
         NEW c \in Cand, c = cand[s], PositionMissing(s)
  PROVE  Flow' /\ OnlyCommand(c) /\ (Clean(c) => Promised(c))
<1>1. view[s] \in ViewAt(pc[s]) /\ (Clean(c) => Known(s, c))
  BY BusyKnows
<1> DEFINE next == "CLOSING"
<1>2. next # "NONE"
  OBVIOUS
<1>3. WriteTransition(s, c, next)
  BY DEF PositionMissing, TransitionTo, WriteTransition, Shadow
<1>4. Status(c)' = next /\ \A d \in Cand \ {c} : Status(d)' = Status(d)
  BY <1>2, <1>3, TransitionStatus
<1>5. OnlySlot(s) /\ Holding(s, c) /\ \A t \in Slot \ {s} : req'[t] = req[t]
  BY DEF PositionMissing, TransitionTo, OnlySlot, Holding, exchange, Inv, Typed, TypeOK
<1>6. OnlyCommand(c)
  BY <1>4 DEF PositionMissing, OnlyCommand, exchange
<1>7. Clean(c) => Promised(c)
  BY <1>1, <1>4 DEF PositionMissing, Promised, LifecycleOf!ALLOWED_TRANSITIONS, TERMINAL,
     Known, Settled, Informed, FreshCommand, ViewAt, exchange, Inv, Typed, TypeOK, HasPosition,
     OpenSymbols
<1>8. Clean(c) => Settled(c)' /\ Informed(s)'
  BY <1>1, <1>4 DEF PositionMissing, TransitionTo, Known, Settled, Informed, FreshCommand,
     ViewAt, Busy, exchange, Inv, Typed, TypeOK, Working, HasPosition, OpenSymbols
<1>9. QED
  BY <1>5, <1>6, <1>7, <1>8, FlowLift

LEMMA FlowFinishClosed ==
  ASSUME Inv, Inv', Flow, Tainting, NEW s \in Slot, pc[s] \in Busy,
         NEW c \in Cand, c = cand[s], FinishClosed(s)
  PROVE  Flow' /\ OnlyCommand(c) /\ (Clean(c) => Promised(c))
<1>1. view[s] \in ViewAt(pc[s]) /\ (Clean(c) => Known(s, c))
  BY BusyKnows
<1> DEFINE next == "CLOSED"
<1>2. next # "NONE"
  OBVIOUS
<1>3. WriteTransition(s, c, next)
  BY DEF FinishClosed, TransitionLast, WriteTransition, Shadow
<1>4. Status(c)' = next /\ \A d \in Cand \ {c} : Status(d)' = Status(d)
  BY <1>2, <1>3, TransitionStatus
<1>5. OnlySlot(s) /\ Holding(s, c) /\ \A t \in Slot \ {s} : req'[t] = req[t]
  BY DEF FinishClosed, TransitionLast, Yield, OnlySlot, Holding, exchange, Inv, Typed, TypeOK
<1>6. OnlyCommand(c)
  BY <1>4 DEF FinishClosed, OnlyCommand, exchange
<1>7. Clean(c) => Promised(c)
  BY <1>1, <1>4 DEF FinishClosed, Promised, LifecycleOf!ALLOWED_TRANSITIONS, TERMINAL,
     Known, Settled, Informed, FreshCommand, ViewAt, exchange, Inv, Typed, TypeOK
<1>8. Clean(c) => Settled(c)' /\ Informed(s)'
  BY <1>1, <1>4 DEF FinishClosed, TransitionLast, Yield, Known, Settled, Informed,
     FreshCommand, ViewAt, Busy, exchange, Inv, Typed, TypeOK, Working
<1>9. QED
  BY <1>5, <1>6, <1>7, <1>8, FlowLift

LEMMA FlowManageCycle ==
  ASSUME Inv, Inv', Flow, Tainting, NEW s \in Slot, pc[s] \in Busy,
         NEW c \in Cand, c = cand[s], ManageCycle(s)
  PROVE  Flow' /\ OnlyCommand(c) /\ (Clean(c) => Promised(c))
<1>1. view[s] \in ViewAt(pc[s]) /\ (Clean(c) => Known(s, c))
  BY BusyKnows
<1>2. OnlySlot(s) /\ Holding(s, c) /\ \A t \in Slot \ {s} : req'[t] = req[t]
  BY DEF ManageCycle, TransitionLast, Yield, OnlySlot, Holding, exchange, Inv, Typed, TypeOK
<1>3. \/ Status(c)' = Status(c) /\ \A d \in Cand \ {c} : Status(d)' = Status(d)
      \/ view[s] = "PARTIALLY_FILLED" /\ Status(c)' = "MANAGING" /\ \A d \in Cand \ {c} : Status(d)' = Status(d)
  <2>1. CASE view[s] = "PARTIALLY_FILLED"
    <3>2. WriteTransition(s, c, "MANAGING")
      BY <2>1 DEF ManageCycle, TransitionLast, WriteTransition, Shadow
    <3>3. QED
      BY <2>1, <3>2, TransitionStatus
  <2>2. CASE view[s] # "PARTIALLY_FILLED"
    BY <2>2 DEF ManageCycle, Status, store
  <2>3. QED
    BY <2>1, <2>2
<1>4. OnlyCommand(c)
  BY <1>3 DEF ManageCycle, OnlyCommand, exchange
<1>5. Clean(c) => Promised(c)
  BY <1>1, <1>3 DEF ManageCycle, Promised, LifecycleOf!ALLOWED_TRANSITIONS, TERMINAL,
     Known, Settled, ViewAt, exchange, Inv, Typed, TypeOK, HasPosition, OpenSymbols
<1>6. Clean(c) => Settled(c)' /\ Informed(s)'
  BY <1>1, <1>3 DEF ManageCycle, TransitionLast, Yield, Known, Settled, Informed, ViewAt,
     Busy, exchange, Inv, Typed, TypeOK, Working, HasPosition, OpenSymbols
<1>7. QED
  BY <1>2, <1>4, <1>5, <1>6, FlowLift

LEMMA FlowReconcileClosing ==
  ASSUME Inv, Inv', Flow, Tainting, NEW s \in Slot, pc[s] \in Busy,
         NEW c \in Cand, c = cand[s], ReconcileClosing(s)
  PROVE  Flow' /\ OnlyCommand(c) /\ (Clean(c) => Promised(c))
<1>1. view[s] \in ViewAt(pc[s]) /\ (Clean(c) => Known(s, c))
  BY BusyKnows
<1>2. OnlySlot(s) /\ Holding(s, c) /\ \A t \in Slot \ {s} : req'[t] = req[t]
  BY DEF ReconcileClosing, TransitionLast, Yield, OnlySlot, Holding, exchange, Inv, Typed,
     TypeOK
<1>3. \/ Status(c)' = Status(c) /\ \A d \in Cand \ {c} : Status(d)' = Status(d)
      \/ ~HasPosition(c) /\ Status(c)' = "CLOSED" /\ \A d \in Cand \ {c} : Status(d)' = Status(d)
  <2>1. CASE ~HasPosition(c)
    <3>2. WriteTransition(s, c, "CLOSED")
      BY <2>1 DEF ReconcileClosing, TransitionLast, WriteTransition, Shadow
    <3>3. QED
      BY <2>1, <3>2, TransitionStatus
  <2>2. CASE HasPosition(c)
    BY <2>2 DEF ReconcileClosing, Status, store
  <2>3. QED
    BY <2>1, <2>2
<1>4. OnlyCommand(c)
  BY <1>3 DEF ReconcileClosing, OnlyCommand, exchange
<1>5. Clean(c) => Promised(c)
  BY <1>1, <1>3 DEF ReconcileClosing, Promised, LifecycleOf!ALLOWED_TRANSITIONS,
     TERMINAL, Known, Settled, ViewAt, exchange, Inv, Typed, TypeOK, HasPosition, OpenSymbols
<1>6. Clean(c) => Settled(c)' /\ Informed(s)'
  BY <1>1, <1>3 DEF ReconcileClosing, TransitionLast, Yield, Known, Settled, Informed, ViewAt,
     Busy, exchange, Inv, Typed, TypeOK, Working, HasPosition, OpenSymbols
<1>7. QED
  BY <1>2, <1>4, <1>5, <1>6, FlowLift

\* A gateway error taints the slot's command: nothing is promised of it any more.
LEMMA FlowGatewayError ==
  ASSUME Inv, Inv', Flow, Tainting, NEW s \in Slot, pc[s] \in Busy,
         NEW c \in Cand, c = cand[s], GatewayError(s)
  PROVE  Flow' /\ OnlyCommand(c) /\ ~Clean(c)'
<1>1. \A d \in Cand : Status(d)' = Status(d)
  BY DEF GatewayError, Status, store
<1>2. OnlySlot(s) /\ Holding(s, c) /\ \A t \in Slot \ {s} : req'[t] = req[t]
  BY DEF GatewayError, Goto, OnlySlot, Holding, Inv, Typed, TypeOK
<1>3. OnlyCommand(c)
  BY <1>1 DEF GatewayError, OnlyCommand, Inv, Typed, TypeOK
<1>4. ~Clean(c)'
  BY DEF GatewayError, Clean
<1>5. QED
  BY <1>2, <1>3, <1>4, FlowLift

\* A step that leaves the exchange alone and takes no command past RESERVED.
LEMMA FlowUntouched ==
  ASSUME Inv, Inv', Flow, Tainting, UNCHANGED exchange,
         \A d \in Cand : Clean(d)' =>
           Status(d)' = Status(d) \/ (Status(d)' \in {"AVAILABLE", "RESERVED"}
                                        /\ Status(d) \in {"NONE", "AVAILABLE", "RESERVED"}),
         \A s \in Slot : pc'[s] \in Busy => \/ pc'[s] = EntryPoint(view'[s])
                                            \/ pc'[s] = pc[s] /\ cand'[s] = cand[s]
  PROVE  Flow'
  <1>1. ASSUME NEW d \in Cand, Clean(d)' PROVE Settled(d)'
    <2>1. Clean(d) /\ Settled(d)
      BY <1>1 DEF Tainting, Flow
    <2>2. FreshCommand(d)'
      BY <1>1 DEF Inv, Fresh, Clean
    <2>3. QED
      BY <1>1, <2>1, <2>2 DEF Settled, FreshCommand, exchange
  <1>2. ASSUME NEW s \in Slot, cand'[s] \in Cand, Clean(cand[s])' PROVE Informed(s)'
    <2>1. PICK d \in Cand : d = cand'[s]
      BY <1>2
    <2>2. CASE pc'[s] = pc[s] /\ cand'[s] = cand[s]
      <3>1. Clean(d)'
        BY <1>2, <2>1 DEF Clean, Kept, Sole
      <3>2. Informed(s)
        BY <2>1, <2>2, <3>1 DEF Tainting, Flow
      <3>3. QED
        BY <2>2, <3>2 DEF Informed, exchange
    <2>3. CASE pc'[s] \notin Busy \/ pc'[s] = EntryPoint(view'[s])
      <3>1. pc'[s] \in Busy => view'[s] \in ACTIVE
        BY DEF Inv, Views, ViewAt, ACTIVE, Busy
      <3>2. pc'[s] \notin {"wait", "failing", "protect", "finish"}
        BY <2>3, <3>1 DEF EntryPoint, ACTIVE, Busy
      <3>3. req'[s] = "none"
        BY <3>2 DEF Inv, Typed, Working, TypeOK
      <3>4. QED
        BY <3>2, <3>3 DEF Informed
    <2>4. QED
      BY <2>2, <2>3
  <1>3. QED
    BY <1>1, <1>2 DEF Flow

\* A step leaves every status alone, or claims one available command.
Claims ==
  \/ \A d \in Cand : Status(d)' = Status(d)
  \/ \E c \in Cand : /\ Status(c) = "AVAILABLE" /\ Status(c)' = "RESERVED"
                     /\ \A d \in Cand \ {c} : Status(d)' = Status(d)

\* The steps of a slot without a command: the scan and the claims.
LEMMA FlowLooking ==
  ASSUME Inv, Inv', Flow, Tainting, NEW s \in Slot, pc[s] \in Looking, SlotStep(s)
  PROVE  Flow' /\ Claims /\ UNCHANGED exchange
  <1>1. UNCHANGED exchange
    BY DEF SlotStep, OwnedActiveCommand, ScanActive, TakeDirect, TakeRow,
       HasExchangeEvidence, RecoverEvidence, PrepareLiveExecution, EnsureAccountSettings,
       ExecutionWait, PreSubmissionBlocked, SubmissionIntent, CreateOrder, Acknowledged,
       OrderRejected, GatewayError, FailRejected, SubmissionUnknown, WaitForResolution,
       EnsureProtection, CycleError, ManageCycle, PositionMissing, FinishClosed,
       ReconcileClosing, Looking
  <1>2. OwnedActiveCommand(s) \/ ScanActive(s) \/ TakeDirect(s) \/ TakeRow(s)
    BY DEF SlotStep, HasExchangeEvidence, RecoverEvidence, PrepareLiveExecution,
       EnsureAccountSettings, ExecutionWait, PreSubmissionBlocked, SubmissionIntent,
       CreateOrder, Acknowledged, OrderRejected, GatewayError, FailRejected,
       SubmissionUnknown, WaitForResolution, EnsureProtection, CycleError, ManageCycle,
       PositionMissing, FinishClosed, ReconcileClosing, Looking
  <1>3. /\ pc'[s] \in {"claim", "take", "idle"} \/ \E st : pc'[s] = EntryPoint(st) /\ view'[s] = st
        /\ \A t \in Slot \ {s} : pc'[t] = pc[t] /\ cand'[t] = cand[t]
    BY <1>2 DEF OwnedActiveCommand, ScanActive, TakeDirect, TakeRow, Goto, Yield, Pick,
       PickMemory, PickRow, Inv, Typed, TypeOK
  <1>4. Claims
    <2>1. CASE OwnedActiveCommand(s) \/ ScanActive(s)
      BY <2>1 DEF OwnedActiveCommand, ScanActive, store, Claims, Status
    <2>2. CASE TakeDirect(s)
      BY <2>2 DEF TakeDirect, Claims, Status, Inv, Typed, TypeOK
    <2>3. CASE TakeRow(s)
      <3>1. UNCHANGED <<mem, memSlot>>
        BY <2>3 DEF TakeRow
      <3>2. \/ db' = db
            \/ \E c \in Cand : db[c] = "AVAILABLE" /\ db' = [db EXCEPT ![c] = "RESERVED"]
        BY <2>3 DEF TakeRow, DbCallOk, DbCallFails
      <3>3. CASE db' = db
        BY <3>1, <3>3 DEF Claims, Status
      <3>4. ASSUME NEW c \in Cand, db[c] = "AVAILABLE", db' = [db EXCEPT ![c] = "RESERVED"]
            PROVE  Claims
        BY <3>1, <3>4 DEF Claims, Status, Inv, Typed, TypeOK
      <3>5. QED
        BY <3>2, <3>3, <3>4
    <2>4. QED
      BY <1>2, <2>1, <2>2, <2>3
  <1>5. \A d \in Cand : \/ Status(d)' = Status(d)
                        \/ Status(d)' = "RESERVED" /\ Status(d) = "AVAILABLE"
    BY <1>4 DEF Claims
  <1>6. \A t \in Slot : pc'[t] \in Busy => \/ pc'[t] = EntryPoint(view'[t])
                                           \/ pc'[t] = pc[t] /\ cand'[t] = cand[t]
    BY <1>3 DEF Busy
  <1>7. QED
    BY <1>1, <1>4, <1>5, <1>6, FlowUntouched

\* Delivery and mirroring make one command available.
LEMMA FlowIntake ==
  ASSUME Inv, Inv', Flow, Tainting, NEW c \in Cand,
         AcceptDirectCandidate(c) \/ PublishExecutionCommand(c)
  PROVE  /\ Flow' /\ UNCHANGED exchange
         /\ Clean(c)' => Status(c)' = Status(c) \/ (Status(c) = "NONE" /\ Status(c)' = "AVAILABLE")
         /\ \A d \in Cand \ {c} : Status(d)' = Status(d)
  <1>1. UNCHANGED exchange /\ UNCHANGED local
    BY DEF AcceptDirectCandidate, PublishExecutionCommand
  <1>2. /\ Clean(c)' => Status(c)' = Status(c) \/ (Status(c) = "NONE" /\ Status(c)' = "AVAILABLE")
        /\ \A d \in Cand \ {c} : Status(d)' = Status(d)
    <2>1. CASE AcceptDirectCandidate(c)
      <3>1. Clean(c)' => db[c] = "NONE"
        BY <2>1 DEF AcceptDirectCandidate, Clean, Kept, Sole, Inv, Typed, TypeOK
      <3>2. QED
        BY <2>1, <3>1 DEF AcceptDirectCandidate, Status, Inv, Typed, TypeOK
    <2>2. CASE PublishExecutionCommand(c)
      BY <2>2 DEF PublishExecutionCommand, Status, Inv, Typed, TypeOK
    <2>3. QED
      BY <2>1, <2>2
  <1>3. \A d \in Cand : Clean(d)' =>
          Status(d)' = Status(d) \/ (Status(d)' = "AVAILABLE" /\ Status(d) = "NONE")
    BY <1>2
  <1>4. QED
    BY <1>1, <1>2, <1>3, FlowUntouched DEF local

\* A restart forgets what was only in the Map.
LEMMA FlowCrash ==
  ASSUME Inv, Inv', Flow, Tainting, Crash
  PROVE  Flow' /\ open' = open /\ \A d \in Cand : Clean(d)' => Status(d)' = Status(d)
  <1>1. open' = open /\ \A d \in Cand : Clean(d)' => Status(d)' = Status(d)
    BY CrashStep DEF Clean, Crash, Inv
  <1>2. \A d \in late' : d \in late \/ \E t \in Slot : req[t] = "net" /\ cand[t] = d
    BY DEF Crash
  <1>3. ASSUME NEW d \in Cand, Clean(d), NEW t \in Slot, req[t] = "net", cand[t] = d
        PROVE  order[d] = "none" /\ submits[d] # 0 /\ Status(d) = "ORDER_PENDING"
    <2>1. pc[t] = "wait" /\ pc[t] \in Busy
      BY <1>3 DEF Inv, Typed, Working, Busy
    <2>2. Known(t, d) /\ view[t] = "ORDER_PENDING"
      BY <1>3, <2>1, BusyKnows DEF ViewAt
    <2>3. QED
      BY <1>3, <2>1, <2>2 DEF Known, Informed
  <1>4. ASSUME NEW d \in Cand, Clean(d)' PROVE Settled(d)'
    <2>1. Clean(d) /\ Settled(d) /\ Status(d)' = Status(d)
      BY <1>1, <1>4 DEF Tainting, Flow
    <2>2. order'[d] = order[d] /\ submits'[d] = submits[d] /\ open' = open
      BY DEF Crash
    <2>3. d \in late' => d \in late \/ (order[d] = "none" /\ submits[d] # 0 /\ Status(d) = "ORDER_PENDING")
      BY <1>2, <1>3, <2>1
    <2>4. QED
      BY <2>1, <2>2, <2>3 DEF Settled
  <1>5. \A s \in Slot : Informed(s)'
    BY DEF Crash, Informed
  <1>6. QED
    BY <1>1, <1>4, <1>5 DEF Flow

\* The exchange answers a request, or a request that was given up arrives.
LEMMA FlowRequest ==
  ASSUME Inv, Inv', Flow, Tainting,
         (\E s \in Slot : ExchangeAnswers(s)) \/ (\E c \in Cand : LateArrival(c))
  PROVE  Flow' /\ open' = open /\ UNCHANGED store
  <1>1. ASSUME NEW s \in Slot, ExchangeAnswers(s) PROVE Flow'
    <2>1. pc[s] = "wait" /\ pc[s] \in Busy
      BY <1>1 DEF ExchangeAnswers, Inv, Typed, Working, Busy
    <2>2. PICK c \in Cand : c = cand[s]
      BY <2>1, BusyFacts
    <2>3. view[s] \in ViewAt(pc[s]) /\ (Clean(c) => Known(s, c))
      BY <2>1, <2>2, BusyKnows
    <2>4. \A d \in Cand : Status(d)' = Status(d)
      BY <1>1 DEF ExchangeAnswers, Status, store
    <2>5. /\ OnlySlot(s) /\ Holding(s, c) /\ OnlyCommand(c)
          /\ \A t \in Slot \ {s} : req'[t] = req[t]
      BY <1>1, <2>2, <2>4 DEF ExchangeAnswers, OnlySlot, Holding, OnlyCommand, local, Inv,
         Typed, TypeOK
    <2>6. Clean(c) => Settled(c)' /\ Informed(s)'
      BY <1>1, <2>1, <2>2, <2>3, <2>4 DEF ExchangeAnswers, local, Known, Settled, Informed,
         ViewAt, Inv, Typed, TypeOK
    <2>7. QED
      BY <2>1, <2>2, <2>5, <2>6, FlowLift
  <1>2. ASSUME NEW c \in Cand, LateArrival(c) PROVE Flow'
    <2>1. \A d \in Cand : Status(d)' = Status(d) /\ (Clean(d)' <=> Clean(d))
      BY <1>2 DEF LateArrival, Status, store, Clean, Kept, Sole, environment
    <2>2. /\ \A d \in Cand \ {c} : order'[d] = order[d]
          /\ order'[c] = order[c] \/ (order[c] = "none" /\ order'[c] = "live")
          /\ c \in late /\ late' = late \ {c} /\ UNCHANGED <<req, open, submits, local>>
      BY <1>2 DEF LateArrival, Inv, Typed, TypeOK
    <2>3. \A d \in Cand : Clean(d) => Settled(d)'
      BY <2>1, <2>2 DEF Flow, Settled
    <2>4. ASSUME NEW t \in Slot, cand'[t] \in Cand, Clean(cand[t])' PROVE Informed(t)'
      <3>1. PICK d \in Cand : d = cand[t] /\ cand'[t] = d
        BY <2>2, <2>4 DEF local
      <3>2. Clean(d)
        BY <2>1, <2>4, <3>1 DEF Clean, Kept, Sole
      <3>3. Informed(t) /\ Settled(d)
        BY <3>1, <3>2 DEF Flow
      <3>4. d = c => pc[t] # "wait" /\ Status(d) = "ORDER_PENDING" /\ order[d] = "none"
        BY <2>2, <3>1, <3>3 DEF Informed, Settled
      <3>5. pc[t] \in Busy => Status(d) = view[t] /\ view[t] \in ViewAt(pc[t])
        BY <3>1, <3>2, BusyKnows DEF Known
      <3>6. CASE d = c
        BY <2>2, <3>1, <3>3, <3>4, <3>6 DEF Informed, local, Inv, Typed, Working
      <3>7. CASE d # c
        BY <2>2, <3>1, <3>3, <3>7 DEF Informed, local
      <3>8. QED
        BY <3>6, <3>7
    <2>5. QED
      BY <2>1, <2>3, <2>4 DEF Flow
  <1>3. QED
    BY <1>1, <1>2 DEF ExchangeAnswers, LateArrival

\* A market order ends while its command waits for it.
LEMMA FlowOrderEnds ==
  ASSUME Inv, Inv', Flow, Tainting, NEW c \in Cand, OrderEnds(c)
  PROVE  Flow' /\ UNCHANGED store /\ OnlyCommand(c) /\ (Clean(c) => Promised(c))
  <1>1. Clean(c) => /\ order[c] = "live" /\ submits[c] # 0 /\ c \notin late
                    /\ c \notin open /\ Status(c) = "ORDER_PENDING"
    BY DEF OrderEnds, Flow, Settled
  <1>2. \A d \in Cand : Status(d)' = Status(d) /\ (Clean(d)' <=> Clean(d))
    BY DEF OrderEnds, Status, store, Clean, Kept, Sole, environment
  <1>3. /\ \A d \in Cand \ {c} : order'[d] = order[d] /\ (d \in open' <=> d \in open)
        /\ order'[c] \in {"filled", "partial", "dead"}
        /\ c \in open' /\ c \notin open => order'[c] # "dead"
        /\ UNCHANGED <<req, late, submits, local>>
    BY DEF OrderEnds, Inv, Typed, TypeOK
  <1>4. \A d \in Cand : Clean(d)' => Settled(d)'
    BY <1>1, <1>2, <1>3 DEF Flow, Settled
  <1>5. ASSUME NEW t \in Slot, cand'[t] \in Cand, Clean(cand[t])' PROVE Informed(t)'
    <2>1. PICK d \in Cand : d = cand[t] /\ cand'[t] = d
      BY <1>3, <1>5 DEF local
    <2>2. Clean(d)
      BY <1>2, <1>5, <2>1 DEF Clean, Kept, Sole
    <2>3. Informed(t)
      BY <2>1, <2>2 DEF Flow
    <2>4. CASE d = c
      <3>1. pc[t] # "finish"
        BY <1>1, <2>1, <2>2, <2>4, BusyKnows DEF Known, ViewAt, Busy
      <3>2. QED
        BY <1>1, <1>3, <2>1, <2>2, <2>3, <2>4, <3>1 DEF Informed, local
    <2>5. CASE d # c
      BY <1>3, <2>1, <2>3, <2>5 DEF Informed, local
    <2>6. QED
      BY <2>4, <2>5
  <1>6. Flow'
    BY <1>4, <1>5 DEF Flow
  <1>7. OnlyCommand(c) /\ (Clean(c) => Promised(c))
    BY <1>1, <1>2, <1>3 DEF OnlyCommand, Promised
  <1>8. QED
    BY <1>6, <1>7 DEF OrderEnds

\* A position ends on the exchange, by its stop or by hand.
LEMMA FlowPositionCloses ==
  ASSUME Inv, Inv', Flow, Tainting, NEW y \in Symbol, PositionCloses(y)
  PROVE  Flow' /\ open' \subseteq open /\ UNCHANGED store
  <1>1. open' \subseteq open /\ UNCHANGED <<req, late, order, submits, local, store>>
    BY DEF PositionCloses
  <1>2. \A d \in Cand : Status(d)' = Status(d) /\ (Clean(d)' <=> Clean(d))
    BY DEF PositionCloses, Status, store, Clean, Kept, Sole, environment
  <1>3. \A d \in Cand : Clean(d)' => Settled(d)'
    BY <1>1, <1>2 DEF Flow, Settled
  <1>4. ASSUME NEW t \in Slot, cand'[t] \in Cand, Clean(cand[t])' PROVE Informed(t)'
    <2>1. PICK d \in Cand : d = cand[t] /\ cand'[t] = d
      BY <1>1, <1>4 DEF local
    <2>2. Clean(d)
      BY <1>2, <1>4, <2>1 DEF Clean, Kept, Sole
    <2>3. QED
      BY <1>1, <2>1, <2>2 DEF Flow, Informed, local
  <1>5. QED
    BY <1>1, <1>3, <1>4 DEF Flow

\* Every clean command is taken as promised.
Promises == \A d \in Cand : Clean(d)' => Promised(d)

LEMMA OnlyPromise ==
  ASSUME NEW c \in Cand, OnlyCommand(c), Clean(c)' => Promised(c)
  PROVE  Promises
  BY DEF OnlyCommand, Promises, Promised

LEMMA StillPromise ==
  ASSUME \A d \in Cand : Clean(d)' => Status(d)' = Status(d), open' \subseteq open
  PROVE  Promises
  BY DEF Promises, Promised

\* The slot steps.
LEMMA FlowSlot ==
  ASSUME Inv, Inv', Flow, Tainting, NEW s \in Slot, SlotStep(s)
  PROVE  Flow' /\ Promises
  <1>1. CASE pc[s] \in Busy
    <2>1. PICK c \in Cand : c = cand[s]
      BY <1>1, BusyFacts
    <2>2. Flow' /\ OnlyCommand(c) /\ (Clean(c)' => Promised(c))
      <3>1. Clean(c)' => Clean(c)
        BY DEF Tainting
      <3>2. QED
        BY <1>1, <2>1, <3>1, FlowHasExchangeEvidence, FlowRecoverEvidence,
           FlowPrepareLiveExecution, FlowEnsureAccountSettings, FlowExecutionWait,
           FlowPreSubmissionBlocked, FlowSubmissionIntent, FlowCreateOrder,
           FlowAcknowledged, FlowOrderRejected, FlowGatewayError, FlowFailRejected,
           FlowSubmissionUnknown, FlowWaitForResolution, FlowEnsureProtection,
           FlowCycleError, FlowManageCycle, FlowPositionMissing, FlowFinishClosed,
           FlowReconcileClosing
        DEF SlotStep, OwnedActiveCommand, ScanActive, TakeDirect, TakeRow, Busy
    <2>3. QED
      BY <2>2, OnlyPromise
  <1>2. CASE pc[s] \in Looking
    <2>1. Flow' /\ Claims /\ open' = open
      BY <1>2, FlowLooking DEF exchange
    <2>2. Promises
      BY <2>1 DEF Claims, Promises, Promised, LifecycleOf!ALLOWED_TRANSITIONS, TERMINAL
    <2>3. QED
      BY <2>1, <2>2
  <1>3. QED
    BY <1>1, <1>2 DEF Inv, Typed, TypeOK, PcValue

\* The flow is inductive over the invariant, and every step keeps its promises.
LEMMA FlowStep ==
  ASSUME Inv, Flow, [Next]_vars
  PROVE  Flow' /\ Promises
  <1>0. Inv' /\ Tainting
    BY InvStep, CleanStep
  <1>a. ASSUME UNCHANGED store PROVE \A d \in Cand : Status(d)' = Status(d)
    BY <1>a DEF Status, store
  <1>1. ASSUME NEW c \in Cand, AcceptDirectCandidate(c) \/ PublishExecutionCommand(c)
        PROVE  Flow' /\ Promises
    <2>1. /\ Flow' /\ open' = open
          /\ Clean(c)' => Status(c)' = Status(c) \/ (Status(c) = "NONE" /\ Status(c)' = "AVAILABLE")
          /\ \A d \in Cand \ {c} : Status(d)' = Status(d)
      BY <1>0, <1>1, FlowIntake DEF exchange
    <2>2. QED
      BY <2>1 DEF Promises, Promised, LifecycleOf!ALLOWED_TRANSITIONS, TERMINAL
  <1>2. CASE Coordinate \/ UNCHANGED vars
    <2>1. UNCHANGED <<exchange, store, local>>
      BY <1>2 DEF Coordinate, vars
    <2>2. Flow'
      BY <1>0, <1>a, <2>1, FlowUntouched DEF local
    <2>3. QED
      BY <1>a, <2>1, <2>2, StillPromise DEF exchange
  <1>3. CASE Crash
    BY <1>0, <1>3, FlowCrash, StillPromise
  <1>4. ASSUME NEW s \in Slot, SlotStep(s) PROVE Flow' /\ Promises
    BY <1>0, <1>4, FlowSlot
  <1>5. CASE (\E s \in Slot : ExchangeAnswers(s)) \/ (\E c \in Cand : LateArrival(c))
    BY <1>0, <1>5, <1>a, FlowRequest, StillPromise
  <1>6. ASSUME NEW c \in Cand, OrderEnds(c) PROVE Flow' /\ Promises
    BY <1>0, <1>6, FlowOrderEnds, OnlyPromise DEF Tainting
  <1>7. ASSUME NEW y \in Symbol, PositionCloses(y) PROVE Flow' /\ Promises
    BY <1>0, <1>7, <1>a, FlowPositionCloses, StillPromise
  <1>8. QED
    BY <1>1, <1>2, <1>3, <1>4, <1>5, <1>6, <1>7 DEF Next, ExchangeStep

\* Initially nothing has been submitted.
LEMMA FlowInit == ASSUME Init PROVE Flow
  BY DEF Init, Flow, Settled, Informed, Status

\* A kept command is given up as FAILED only when no order of it can still reach
\* the book and no position of it is open, unless a gateway error answered its
\* createOrder: for any number of slots and candidates, through lost answers,
\* abandoned requests, outages of PostgreSQL and restarts.
THEOREM FailedIsFlat == Spec => []FailureIsDefinite
<1>1. Init => Inv /\ Flow
  BY InvInit, FlowInit
<1>2. Inv /\ Flow /\ [Next]_vars => Inv' /\ Flow'
  BY InvStep, FlowStep
<1>3. Inv /\ Flow => FailureIsDefinite
  BY DEF Flow, Settled, Clean, FailureIsDefinite, Flat
<1>4. QED
  BY <1>1, <1>2, <1>3, PTL DEF Spec

\* The open position of a clean command has an active command, and that a slot.
LEMMA ExposureActive ==
  ASSUME Inv, Flow, NEW c \in open, Clean(c)
  PROVE  /\ c \in Cand /\ Status(c) \in ACTIVE /\ StatusSlot(c) \in Slot
         /\ c \in MemActive \/ (mem[c] = "NONE" /\ c \in DbActive)
  <1>1. c \in Cand /\ Status(c) \in CommandState
    BY DEF Inv, Typed, TypeOK, Status
  <1>2. submits[c] # 0 /\ Status(c) \notin {"FAILED", "CLOSED", "CLOSING"}
    BY <1>1 DEF Flow, Settled
  <1>3. Status(c) \notin {"NONE", "AVAILABLE", "RESERVED"}
    BY <1>1, <1>2 DEF Inv, Fresh, FreshCommand, Clean
  <1>4. Status(c) \in ACTIVE
    BY <1>1, <1>2, <1>3 DEF CommandState, ACTIVE, TERMINAL
  <1>5. c \in MemActive \/ (mem[c] = "NONE" /\ c \in DbActive)
    BY <1>1, <1>4 DEF Status, MemActive, DbActive
  <1>6. QED
    BY <1>1, <1>4, <1>5 DEF Inv, Channels, StatusSlot, MemActive, ACTIVE

\* Whatever fails, the open position of a kept command that no gateway error
\* answered has an active command whose slot will pick it up.
THEOREM ExposureIsManaged == Spec => []ExposureOwned
<1>1. Init => Inv /\ Flow
  BY InvInit, FlowInit
<1>2. Inv /\ Flow /\ [Next]_vars => Inv' /\ Flow'
  BY InvStep, FlowStep
<1>3. Inv /\ Flow => ExposureOwned
  BY ExposureActive DEF ExposureOwned, Clean
<1>4. QED
  BY <1>1, <1>2, <1>3, PTL DEF Spec

\* A command taken as promised takes a step of its lifecycle.
LEMMA PromiseRefines ==
  ASSUME NEW c \in Cand, Promised(c)
  PROVE  LifecycleOf(c)!Next
  <1>1. CASE Status(c)' = Status(c) /\ (c \in open' => c \in open)
    <2>1. LifecycleOf(c)!Flatten
      BY <1>1 DEF LifecycleOf!Flatten
    <2>2. QED
      BY <2>1 DEF LifecycleOf!Next
  <1>2. CASE /\ Status(c)' \in LifecycleOf(c)!ALLOWED_TRANSITIONS(Status(c))
             /\ Status(c)' \in TERMINAL => c \notin open
             /\ (c \in open' <=> c \in open)
    <2> DEFINE phase == [d \in {c} |-> Status(d)]
    <2>1. phase' = [phase EXCEPT ![c] = Status(c)'] /\ phase[c] = Status(c)
      OBVIOUS
    <2>2. /\ (open \cap {c})' = open \cap {c}
          /\ Status(c)' \in TERMINAL => c \notin open \cap {c}
      BY <1>2
    <2>3. LifecycleOf(c)!Advance(c)
      BY <1>2, <2>1, <2>2
      DEF LifecycleOf!Advance, LifecycleOf!TERMINAL_COMMAND_STATES, TERMINAL
    <2>4. QED
      BY <2>3 DEF LifecycleOf!Next
  <1>3. CASE Status(c)' = Status(c) /\ Status(c) = "ORDER_PENDING" /\ c \in open'
    <2>1. LifecycleOf(c)!Fill(c)
      BY <1>3 DEF LifecycleOf!Fill
    <2>2. QED
      BY <2>1 DEF LifecycleOf!Next
  <1>4. QED
    BY <1>1, <1>2, <1>3 DEF Promised

\* Every kept command that no gateway error answered implements the command
\* lifecycle: each step of a slot, the coordinator, the intake, the exchange or a
\* restart is a legal transition of it, the fill of its pending order, the end of
\* its position, or a stutter.
THEOREM ImplementsLifecycle == Spec => KeptLifecycle
<1>1. Init => Inv /\ Flow
  BY InvInit, FlowInit
<1>2. Inv /\ Flow /\ [Next]_vars => Inv' /\ Flow'
  BY InvStep, FlowStep
<1>3. Inv /\ Flow /\ [Next]_vars =>
        [\A c \in Cand : (Kept(c) /\ c \notin misread)' =>
           LifecycleOf(c)!Next \/ UNCHANGED <<Status(c), c \in open>>]_vars
  <2>1. ASSUME Inv, Flow, [Next]_vars, NEW c \in Cand, (Kept(c) /\ c \notin misread)'
        PROVE  LifecycleOf(c)!Next
    BY <2>1, FlowStep, PromiseRefines DEF Promises, Clean
  <2>2. QED
    BY <2>1
<1>4. QED
  BY <1>1, <1>2, <1>3, PTL DEF Spec, KeptLifecycle

-----------------------------------------------------------------------------
(* How many positions there are.                                            *)

\* The open positions of kept commands that no gateway error answered.
OwnExposure == {c \in open : Clean(c)}

\* While the process can read its rows, or its Map has no active command, the
\* exchange holds no more of those positions than there are slots.
ExposureBound ==
  dbReady \/ MemActive = {} => Cardinality(OwnExposure) <= Cardinality(Slot)

\* Bybit never holds more positions than the service has slots, although no
\* executor checks a limit when its order fills: each position has a command of
\* its own, and each such command a slot of its own.
THEOREM PositionsAreBounded == ASSUME IsFiniteSet(Slot) PROVE Spec => []ExposureBound
<1>1. Init => Inv /\ Flow
  BY InvInit, FlowInit
<1>2. Inv /\ Flow /\ [Next]_vars => Inv' /\ Flow'
  BY InvStep, FlowStep
<1>3. ASSUME Inv, Flow, dbReady \/ MemActive = {}
      PROVE  Cardinality(OwnExposure) <= Cardinality(Slot)
  <2> DEFINE f == [c \in OwnExposure |-> StatusSlot(c)]
  <2>1. \A c \in OwnExposure : StatusSlot(c) \in Slot
    BY <1>3, ExposureActive DEF OwnExposure
  <2>2. ASSUME NEW c \in OwnExposure, NEW d \in OwnExposure, StatusSlot(c) = StatusSlot(d)
        PROVE  c = d
    <3>1. /\ c \in MemActive \/ (mem[c] = "NONE" /\ c \in DbActive)
          /\ d \in MemActive \/ (mem[d] = "NONE" /\ d \in DbActive)
      BY <1>3, ExposureActive DEF OwnExposure
    <3>2. CASE dbReady
      <4>1. c \in Held(StatusSlot(c)) /\ d \in Held(StatusSlot(c))
        BY <2>2, <3>1, <3>2 DEF Held, StatusSlot, MemActive, ACTIVE
      <4>2. QED
        BY <1>3, <2>1, <4>1 DEF Inv, Slots
    <3>3. CASE MemActive = {}
      <4>1. c \in DbActive /\ d \in DbActive /\ dbSlot[c] = dbSlot[d]
        BY <2>2, <3>1, <3>3 DEF StatusSlot
      <4>2. QED
        BY <1>3, <4>1 DEF Inv, Slots
    <3>4. QED
      BY <1>3, <3>2, <3>3
  <2>3. f \in Injection(OwnExposure, Slot)
    BY <2>1, <2>2 DEF Injection, IsInjective
  <2>4. QED
    BY <2>3, FS_Injection
<1>4. Inv /\ Flow => ExposureBound
  BY <1>3 DEF ExposureBound
<1>5. QED
  BY <1>1, <1>2, <1>4, PTL DEF Spec
=============================================================================
