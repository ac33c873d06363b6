---------------------- MODULE PositionManagementProofs ----------------------
(***************************************************************************)
(* Proofs about the Python bot and the open positions, for any number of   *)
(* symbols, positions and orders and every deployment.                     *)
(***************************************************************************)
EXTENDS PositionManagement, TLAPS

-----------------------------------------------------------------------------
(* The inductive type invariant *)

\* The steps of a management pass that work on the snapshot of the positions.
Managing == {"next", "send", "verify", "poll", "record", "breakeven", "trail", "recordTrail"}

\* A thread knows orders that were sent, and its pass works on positions that
\* the snapshot showed.
Located(m, n) ==
  /\ m.order <= n
  /\ m.pc \in Managing => \A s \in m.todo : m.view[s].id \in Positions
  /\ m.pc \in Managing \ {"next"} => m.sym \in m.todo

ThreadsTyped == thread \in [Thread -> Local] /\ \A t \in Thread : Located(thread[t], Len(orders))

PositionsTyped ==
  /\ pos \in [Symbol -> Position] /\ opened \in {0} \cup Positions
  /\ \A s \in Symbol : pos[s].size > 0 => pos[s].id \in Positions

OrdersTyped ==
  /\ orders \in Seq(Order) /\ Len(orders) <= MaxOrders
  /\ \A k \in DOMAIN orders : orders[k].exec <= orders[k].qty

StoreTyped ==
  /\ plan \in [Positions -> Nat] /\ forgotten \subseteq Positions
  /\ journal \cup unread \subseteq (Stages \cup {"trail"}) \X Positions
  /\ pendEntry \in 0..Len(orders)
  /\ pendPartial \in [order : 0..Len(orders), size : Nat]
  /\ {seen, enabled, loop, killed} \subseteq BOOLEAN
  /\ deployment \in Deployments

Typed == ThreadsTyped /\ PositionsTyped /\ OrdersTyped /\ StoreTyped

\* Records by their fields.
IsLocal(m) ==
  /\ m = [f \in DOMAIN m |-> m[f]]
  /\ DOMAIN m = {"pc", "todo", "sym", "view", "stage", "order", "ok", "current"}
  /\ m.pc \in Steps /\ m.todo \subseteq Symbol /\ m.sym \in Symbol /\ m.view \in [Symbol -> View]
  /\ m.stage \in Stages /\ m.order \in 0..MaxOrders /\ m.ok \in BOOLEAN /\ m.current \in BOOLEAN

\* The state of a thread by its fields: the provers do not see it in a set of records.
LEMMA LocalFields == ASSUME NEW m PROVE m \in Local <=> IsLocal(m)
<1>1. ASSUME m \in Local PROVE IsLocal(m)
  BY <1>1 DEF Local, IsLocal
<1>2. ASSUME IsLocal(m) PROVE m \in Local
  BY <1>2 DEF Local, IsLocal
<1>3. QED
  BY <1>1, <1>2

IsView(v) ==
  /\ v = [f \in DOMAIN v |-> v[f]] /\ DOMAIN v = {"id", "size", "r", "atRisk"}
  /\ v.id \in {0} \cup Positions /\ v.size \in Nat /\ v.r \in 0..2 /\ v.atRisk \in BOOLEAN

\* The same of a row of the position list a pass works on.
LEMMA ViewFields == ASSUME NEW v PROVE v \in View <=> IsView(v)
<1>1. ASSUME v \in View PROVE IsView(v)
  BY <1>1 DEF View, IsView
<1>2. ASSUME IsView(v) PROVE v \in View
  BY <1>2 DEF View, IsView
<1>3. QED
  BY <1>1, <1>2

IsPosition(p) ==
  /\ p = [f \in DOMAIN p |-> p[f]] /\ DOMAIN p = {"id", "size", "stop", "trail"}
  /\ p.id \in {0} \cup Positions /\ p.size \in Nat
  /\ p.stop \in {"none", "initial", "breakeven"} /\ p.trail \in BOOLEAN

\* The same of a position.
LEMMA PositionFields == ASSUME NEW p PROVE p \in Position <=> IsPosition(p)
<1>1. ASSUME p \in Position PROVE IsPosition(p)
  BY <1>1 DEF Position, IsPosition
<1>2. ASSUME IsPosition(p) PROVE p \in Position
  BY <1>2 DEF Position, IsPosition
<1>3. QED
  BY <1>1, <1>2

IsOrder(o) ==
  /\ o = [f \in DOMAIN o |-> o[f]]
  /\ DOMAIN o = {"kind", "sym", "for", "on", "qty", "exec", "state", "recorded"}
  /\ o.kind \in Stages \cup {"entry", "kill"} /\ o.sym \in Symbol /\ o.for \in {0} \cup Positions
  /\ o.on \in {0} \cup Positions /\ o.qty \in Nat /\ o.exec \in Nat
  /\ o.state \in {"live", "filled", "partial", "cancelled"} /\ o.recorded \in BOOLEAN

\* The same of an order.
LEMMA OrderFields == ASSUME NEW o PROVE o \in Order <=> IsOrder(o)
<1>1. ASSUME o \in Order PROVE IsOrder(o)
  BY <1>1 DEF Order, IsOrder
<1>2. ASSUME IsOrder(o) PROVE o \in Order
  BY <1>2 DEF Order, IsOrder
<1>3. QED
  BY <1>1, <1>2

\* A thread that does nothing.
LEMMA IdleTyped == Idle \in Local
  BY PositionAssumption DEF Idle, Local, Steps, NoView, View, Stages

\* The larger of 1 and n: the least quantity of a partial close.
LEMMA MaxOne == ASSUME NEW n \in Nat PROVE Max({1, n}) = IF n > 1 THEN n ELSE 1
  BY DEF Max

\* The smaller of two: what a reduce-only order can take.
LEMMA MinTwo == ASSUME NEW m \in Nat, NEW n \in Nat PROVE Min({m, n}) = IF m > n THEN n ELSE m
  BY DEF Min

\* A step writes the state of one thread.
OnlyThread(t, m) ==
  /\ thread' = [u \in Thread |-> thread'[u]]
  /\ thread'[t] = m /\ \A u \in Thread \ {t} : thread'[u] = thread[u]

\* A step of one thread keeps the types of all of them when it keeps those of that one.
LEMMA ThreadsKept ==
  ASSUME ThreadsTyped, NEW t \in Thread, NEW m, OnlyThread(t, m), IsLocal(m),
         Len(orders) \in Nat, Len(orders') \in Nat, Len(orders) <= Len(orders'), Located(m, Len(orders'))
  PROVE  ThreadsTyped'
<1>1. m \in Local
  BY LocalFields
<1>2. thread' \in [Thread -> Local]
  BY <1>1 DEF OnlyThread, ThreadsTyped
<1>3. ASSUME NEW u \in Thread \ {t} PROVE Located(thread'[u], Len(orders'))
  <2>1. thread[u] \in Local /\ Located(thread[u], Len(orders)) /\ thread'[u] = thread[u]
    BY DEF ThreadsTyped, OnlyThread
  <2>2. thread[u].order \in Nat
    BY <2>1, LocalFields DEF IsLocal
  <2>3. QED
    BY <2>1, <2>2 DEF Located
<1>4. QED
  BY <1>2, <1>3 DEF ThreadsTyped, OnlyThread

-----------------------------------------------------------------------------
(* Type correctness.                                                        *)

\* What the type invariant says of one thread.
LEMMA ThreadKnown ==
  ASSUME Typed, NEW t \in Thread
  PROVE  /\ IsLocal(thread[t]) /\ Located(thread[t], Len(orders)) /\ Len(orders) \in Nat
         /\ Len(orders) <= MaxOrders /\ MaxOrders \in Nat
         /\ \A s \in Symbol : IsView(thread[t].view[s])
<1>1. IsLocal(thread[t])
  BY LocalFields DEF Typed, ThreadsTyped
<1>2. QED
  BY <1>1, ViewFields, PositionAssumption DEF IsLocal, Typed, ThreadsTyped, OrdersTyped

\* A thread goes on to another step.
LEMMA Goes ==
  ASSUME Typed, NEW t \in Thread, NEW s \in Steps, thread' = [thread EXCEPT ![t].pc = s],
         s \in Managing => thread[t].pc \in Managing \ {"next"},
         Len(orders') \in Nat, Len(orders) <= Len(orders')
  PROVE  ThreadsTyped' /\ OnlyThread(t, [thread[t] EXCEPT !.pc = s])
<1> DEFINE m == [thread[t] EXCEPT !.pc = s]
<1>1. OnlyThread(t, m)
  BY DEF OnlyThread, Typed, ThreadsTyped
<1>2. m = [thread[t] EXCEPT !.pc = s]
  OBVIOUS
<1>3. IsLocal(thread[t]) /\ Located(thread[t], Len(orders)) /\ Len(orders) \in Nat
  BY ThreadKnown
<1> HIDE DEF m
<1>4. IsLocal(m)
  BY <1>2, ThreadKnown DEF IsLocal
<1>5. Located(m, Len(orders'))
  BY <1>2, <1>3 DEF IsLocal, Located
<1>6. QED
  BY <1>1, <1>4, <1>5, <1>2, ThreadsKept, ThreadKnown DEF Typed

\* A thread ends.
LEMMA Ends ==
  ASSUME Typed, NEW t \in Thread, End(t), Len(orders') \in Nat, Len(orders) <= Len(orders')
  PROVE  ThreadsTyped' /\ OnlyThread(t, Idle)
<1>1. OnlyThread(t, Idle)
  BY DEF OnlyThread, Typed, ThreadsTyped, End
<1>2. IsLocal(Idle) /\ Idle.order = 0 /\ Idle.pc = "idle"
  BY IdleTyped, LocalFields DEF Idle
<1>3. Located(Idle, Len(orders'))
  BY <1>2 DEF Located, Managing
<1>4. QED
  BY <1>1, <1>2, <1>3, ThreadsKept, ThreadKnown DEF Typed

\* A pass ends: the route answers, the tick goes on to the signals.
LEMMA PassEndsTyped ==
  ASSUME Typed, NEW t \in Thread, PassEnds(t), Len(orders') \in Nat, Len(orders) <= Len(orders')
  PROVE  ThreadsTyped'
<1>1. CASE t # "tick"
  BY <1>1, Ends DEF PassEnds
<1>2. CASE t = "tick"
  <2> DEFINE m == [Idle EXCEPT !.pc = "signal", !.current = thread[t].current]
  <2>1. OnlyThread(t, m)
    BY <1>2 DEF OnlyThread, Typed, ThreadsTyped, PassEnds
  <2>2. IsLocal(Idle) /\ Idle.order = 0
    BY IdleTyped, LocalFields DEF Idle
  <2>3. IsLocal(m)
    BY <2>2, ThreadKnown DEF IsLocal, Steps
  <2>4. Located(m, Len(orders'))
    BY <2>2 DEF Located, IsLocal, Managing
  <2>5. QED
    BY <2>1, <2>3, <2>4, ThreadsKept, ThreadKnown DEF Typed
<1>3. QED
  BY <1>1, <1>2

\* A pass goes on to the next position of its snapshot.
LEMMA NextSymbolTyped ==
  ASSUME Typed, NEW t \in Thread, thread[t].pc \in Managing, NextSymbol(t),
         Len(orders') \in Nat, Len(orders) <= Len(orders')
  PROVE  ThreadsTyped'
<1> DEFINE s == thread[t].sym
           m == [thread[t] EXCEPT !.pc = "next", !.todo = @ \ {s}, !.view[s] = NoView,
                                  !.stage = "tp1", !.order = 0, !.ok = TRUE]
<1>1. OnlyThread(t, m)
  BY DEF OnlyThread, Typed, ThreadsTyped, NextSymbol
<1>2. m = [thread[t] EXCEPT !.pc = "next", !.todo = @ \ {s}, !.view[s] = NoView,
                                  !.stage = "tp1", !.order = 0, !.ok = TRUE]
  OBVIOUS
<1>3. IsLocal(thread[t]) /\ Located(thread[t], Len(orders)) /\ Len(orders) \in Nat
  BY ThreadKnown
<1>4. s \in Symbol
  BY <1>3 DEF IsLocal
<1>5. MaxOrders \in Nat
  BY PositionAssumption
<1> HIDE DEF m, s
<1>6. NoView \in View
  BY DEF NoView, View
<1>7. IsLocal(m)
  <2>1. m = [f \in DOMAIN m |-> m[f]]
    BY <1>2, <1>3 DEF IsLocal
  <2>2. DOMAIN m = DOMAIN thread[t]
    BY <1>2, <1>3 DEF IsLocal
  <2>3. m.view = [thread[t].view EXCEPT ![s] = NoView] /\ m.todo = thread[t].todo \ {s}
    BY <1>2, <1>3 DEF IsLocal
  <2>4. m.pc = "next" /\ m.stage = "tp1" /\ m.order = 0 /\ m.ok = TRUE
        /\ m.sym = thread[t].sym /\ m.current = thread[t].current
    BY <1>2, <1>3 DEF IsLocal
  <2>5. m.view \in [Symbol -> View]
    BY <2>3, <1>6, <1>3, <1>4 DEF IsLocal
  <2>6. m.pc \in Steps /\ m.stage \in Stages
    BY <2>4 DEF Steps, Stages
  <2>7. m.order \in 0..MaxOrders
    BY <2>4, <1>5
  <2>8. m.ok \in BOOLEAN
    BY <2>4
  <2>9. m.current \in BOOLEAN /\ m.sym \in Symbol
    BY <2>4, <1>3 DEF IsLocal
  <2>10. m.todo \subseteq Symbol
    BY <2>3, <1>3 DEF IsLocal
  <2>11. DOMAIN m = {"pc", "todo", "sym", "view", "stage", "order", "ok", "current"}
    BY <2>2, <1>3 DEF IsLocal
  <2>12. QED
    BY <2>1, <2>5, <2>6, <2>7, <2>8, <2>9, <2>10, <2>11 DEF IsLocal
<1>8. Located(m, Len(orders'))
  BY <1>2, <1>3, <1>4 DEF Located, IsLocal
<1>9. QED
  BY <1>1, <1>7, <1>8, ThreadsKept, ThreadKnown DEF Typed

\* A new order is the last one.
LEMMA SentTyped ==
  ASSUME Typed, NEW kind \in Stages \cup {"entry", "kill"}, NEW s \in Symbol,
         NEW for \in {0} \cup Positions, NEW qty \in Nat, Sent(kind, s, for, qty), Len(orders) < MaxOrders
  PROVE  OrdersTyped' /\ Len(orders') = Len(orders) + 1
<1> DEFINE o == [kind |-> kind, sym |-> s, for |-> for, on |-> 0, qty |-> qty, exec |-> 0,
                 state |-> "live", recorded |-> FALSE]
<1>1. o \in Order
  BY DEF Order, Positions
<1>2. orders' = Append(orders, o)
  BY DEF Sent
<1> HIDE DEF o
<1>3. orders' \in Seq(Order) /\ Len(orders') = Len(orders) + 1
  BY <1>1, <1>2 DEF Typed, OrdersTyped
<1>4. Len(orders') <= MaxOrders
  BY <1>3, PositionAssumption DEF Typed, OrdersTyped
<1>5. ASSUME NEW k \in DOMAIN orders' PROVE orders'[k].exec <= orders'[k].qty
  <2>1. k \in DOMAIN orders \/ k = Len(orders) + 1
    BY <1>3 DEF Typed, OrdersTyped
  <2>2. orders'[k] = o \/ (k \in DOMAIN orders /\ orders'[k] = orders[k])
    BY <1>1, <1>2, <2>1 DEF Typed, OrdersTyped
  <2>3. o.exec <= o.qty
    BY DEF o
  <2>4. QED
    BY <2>2, <2>3 DEF Typed, OrdersTyped
<1>6. QED
  BY <1>3, <1>4, <1>5 DEF OrdersTyped

\* The store and the positions do not look at the orders beyond their number.
LEMMA StoreKept ==
  ASSUME Typed, UNCHANGED <<durable, memory, deployment>>, killed' \in BOOLEAN,
         Len(orders') \in Nat, Len(orders) <= Len(orders')
  PROVE  StoreTyped'
<1>1. pendPartial' \in [order : 0..Len(orders'), size : Nat]
  BY DEF Typed, StoreTyped, OrdersTyped, memory
<1>2. QED
  BY <1>1 DEF Typed, StoreTyped, OrdersTyped, durable, memory

\* The positions are as they were.
LEMMA PositionsKept == ASSUME Typed, UNCHANGED <<pos, opened>> PROVE PositionsTyped'
  BY DEF Typed, PositionsTyped

\* The orders are as they were.
LEMMA OrdersKept == ASSUME Typed, UNCHANGED orders PROVE OrdersTyped' /\ Len(orders') \in Nat /\ Len(orders) <= Len(orders')
  BY DEF Typed, OrdersTyped

\* Writing one field.
LEMMA Writes ==
  ASSUME NEW m \in Local
  PROVE  /\ \A x \in Steps : [m EXCEPT !.pc = x] \in Local
         /\ \A x \in SUBSET Symbol : [m EXCEPT !.todo = x] \in Local
         /\ \A x \in Symbol : [m EXCEPT !.sym = x] \in Local
         /\ \A x \in [Symbol -> View] : [m EXCEPT !.view = x] \in Local
         /\ \A x \in Stages : [m EXCEPT !.stage = x] \in Local
         /\ \A x \in 0..MaxOrders : [m EXCEPT !.order = x] \in Local
         /\ \A x \in BOOLEAN : [m EXCEPT !.ok = x] \in Local
         /\ \A x \in BOOLEAN : [m EXCEPT !.current = x] \in Local
  BY DEF Local

\* The updates of a thread that several steps share.
LEMMA WritesOrder ==
  ASSUME Typed, NEW t \in Thread, NEW s \in Steps, NEW k \in 0..MaxOrders, Len(orders') \in Nat,
         Len(orders) <= Len(orders'), k <= Len(orders'),
         s \in Managing => thread[t].pc \in Managing \ {"next"},
         thread' = [thread EXCEPT ![t].pc = s, ![t].order = k]
  PROVE  ThreadsTyped'
<1>1. thread[t] \in Local /\ IsLocal(thread[t]) /\ Located(thread[t], Len(orders))
  BY LocalFields DEF Typed, ThreadsTyped
<1> DEFINE m == [thread[t] EXCEPT !.pc = s, !.order = k]
<1>2. OnlyThread(t, m)
  BY DEF OnlyThread, Typed, ThreadsTyped
<1>3. m \in Local
  BY <1>1, Writes
<1>4. m.todo = thread[t].todo /\ m.view = thread[t].view /\ m.order = k /\ m.pc = s /\ m.sym = thread[t].sym
  BY <1>1 DEF IsLocal
<1> HIDE DEF m
<1>5. Located(m, Len(orders'))
  BY <1>1, <1>4 DEF Located
<1>6. QED
  BY <1>2, <1>3, <1>5, ThreadsKept, LocalFields DEF Typed, OrdersTyped

\* A step that also says whether the order was right.
LEMMA WritesOrderOk ==
  ASSUME Typed, NEW t \in Thread, NEW s \in Steps, NEW k \in 0..MaxOrders, NEW b \in BOOLEAN,
         Len(orders') \in Nat, Len(orders) <= Len(orders'), k <= Len(orders'),
         s \in Managing => thread[t].pc \in Managing \ {"next"},
         \/ thread' = [thread EXCEPT ![t].pc = s, ![t].order = k, ![t].ok = b]
         \/ thread' = [thread EXCEPT ![t].pc = s, ![t].ok = b, ![t].order = k]
  PROVE  ThreadsTyped'
<1>1. thread[t] \in Local /\ IsLocal(thread[t]) /\ Located(thread[t], Len(orders))
  BY LocalFields DEF Typed, ThreadsTyped
<1>2. PICK m : \/ m = [thread[t] EXCEPT !.pc = s, !.order = k, !.ok = b] /\ OnlyThread(t, m)
               \/ m = [thread[t] EXCEPT !.pc = s, !.ok = b, !.order = k] /\ OnlyThread(t, m)
  BY DEF OnlyThread, Typed, ThreadsTyped
<1>3. m \in Local
  <2>1. CASE m = [thread[t] EXCEPT !.pc = s, !.order = k, !.ok = b]
    BY <1>1, <2>1, Writes
  <2>2. CASE m = [thread[t] EXCEPT !.pc = s, !.ok = b, !.order = k]
    BY <1>1, <2>2, Writes
  <2>3. QED
    BY <1>2, <2>1, <2>2
<1>4. m.todo = thread[t].todo /\ m.view = thread[t].view /\ m.order = k /\ m.pc = s /\ m.sym = thread[t].sym
  BY <1>1, <1>2 DEF IsLocal
<1>5. Located(m, Len(orders'))
  BY <1>1, <1>4 DEF Located
<1>6. QED
  BY <1>2, <1>3, <1>5, ThreadsKept, LocalFields DEF Typed, OrdersTyped

\* A step that says only that.
LEMMA WritesOk ==
  ASSUME Typed, NEW t \in Thread, NEW s \in Steps, NEW b \in BOOLEAN,
         Len(orders') \in Nat, Len(orders) <= Len(orders'),
         s \in Managing => thread[t].pc \in Managing \ {"next"},
         thread' = [thread EXCEPT ![t].pc = s, ![t].ok = b]
  PROVE  ThreadsTyped'
<1>1. thread[t] \in Local /\ IsLocal(thread[t]) /\ Located(thread[t], Len(orders))
  BY LocalFields DEF Typed, ThreadsTyped
<1> DEFINE m == [thread[t] EXCEPT !.pc = s, !.ok = b]
<1>2. OnlyThread(t, m)
  BY DEF OnlyThread, Typed, ThreadsTyped
<1>3. m \in Local
  BY <1>1, Writes
<1>4. m.todo = thread[t].todo /\ m.view = thread[t].view /\ m.order = thread[t].order /\ m.pc = s /\ m.sym = thread[t].sym
  BY <1>1 DEF IsLocal
<1> HIDE DEF m
<1>5. Located(m, Len(orders'))
  BY <1>1, <1>4 DEF Located, IsLocal
<1>6. QED
  BY <1>2, <1>3, <1>5, ThreadsKept, LocalFields DEF Typed, OrdersTyped

\* Replacing orders in their places leaves as many.
LEMMA SameLength ==
  ASSUME NEW S, NEW p \in Seq(S), NEW q, q = [i \in DOMAIN p |-> q[i]], \A i \in DOMAIN p : q[i] \in S
  PROVE  q \in Seq(S) /\ Len(q) = Len(p)
  OBVIOUS

\* The gate of a pass keeps the types.
LEMMA ManageGateTyped ==
  ASSUME Typed, NEW t \in {"tick", "manage"}, ManageGate(t) PROVE Typed'
<1>1. OrdersTyped' /\ PositionsTyped' /\ Len(orders') \in Nat /\ Len(orders) <= Len(orders') /\ t \in Thread
  BY OrdersKept, PositionsKept DEF ManageGate, exchange, Thread
<1>2. ThreadsTyped'
  BY <1>1, Goes, PassEndsTyped DEF ManageGate, Goto, Managing, Steps
<1>3. pendPartial' = pendPartial \/ pendPartial' = NoPartial
  BY DEF ManageGate, GateAnswers
<1>4. StoreTyped'
  BY <1>1, <1>3 DEF ManageGate, durable, exchange, Typed, StoreTyped, NoPartial
<1>5. QED
  BY <1>1, <1>2, <1>4 DEF Typed

\* The snapshot of a pass: every row that it lists is of a position.
LEMMA FetchPositionsTyped ==
  ASSUME Typed, NEW t \in {"tick", "manage"}, FetchPositions(t) PROVE Typed'
<1>1. /\ OrdersTyped' /\ PositionsTyped' /\ Len(orders') \in Nat /\ Len(orders) <= Len(orders')
      /\ StoreTyped' /\ t \in Thread
  BY OrdersKept, PositionsKept, StoreKept DEF FetchPositions, exchange, Thread, Typed, StoreTyped
<1>2. ASSUME NEW r \in [OpenSymbols -> 0..2], NEW view,
             view = [s \in Symbol |-> IF s \in OpenSymbols
                                      THEN [id |-> pos[s].id, size |-> pos[s].size, r |-> r[s],
                                            atRisk |-> pos[s].stop = "initial"]
                                      ELSE NoView],
             thread' = [thread EXCEPT ![t].pc = "next", ![t].todo = OpenSymbols, ![t].view = view]
      PROVE  ThreadsTyped'
  <2> DEFINE m == [thread[t] EXCEPT !.pc = "next", !.todo = OpenSymbols, !.view = view]
  <2>1. OnlyThread(t, m)
    BY <1>1, <1>2 DEF OnlyThread, Typed, ThreadsTyped
  <2>2. ASSUME NEW s \in Symbol PROVE view[s] \in View /\ (s \in OpenSymbols => view[s].id \in Positions)
    <3>1. pos[s] \in Position /\ IsPosition(pos[s])
      BY PositionFields DEF Typed, PositionsTyped
    <3>2. CASE s \in OpenSymbols
      BY <1>2, <3>1, <3>2 DEF IsPosition, View, OpenSymbols, Typed, PositionsTyped
    <3>3. CASE s \notin OpenSymbols
      BY <1>2, <3>3 DEF NoView, View
    <3>4. QED
      BY <3>2, <3>3
  <2>3. view \in [Symbol -> View] /\ OpenSymbols \subseteq Symbol
    BY <1>2, <2>2 DEF OpenSymbols
  <2>4. thread[t] \in Local /\ IsLocal(thread[t]) /\ Located(thread[t], Len(orders))
    BY <1>1, LocalFields DEF Typed, ThreadsTyped
  <2>5. m \in Local
    BY <2>3, <2>4, Writes DEF Steps
  <2>6. m.todo = OpenSymbols /\ m.view = view /\ m.order = thread[t].order /\ m.pc = "next"
    BY <2>4 DEF IsLocal
  <2> HIDE DEF m
  <2>7. Located(m, Len(orders'))
    BY <1>1, <2>2, <2>3, <2>4, <2>6 DEF Located, FetchPositions, exchange
  <2>8. QED
    BY <1>1, <2>1, <2>5, <2>7, ThreadsKept, LocalFields DEF Typed, OrdersTyped
<1>3. ThreadsTyped'
  BY <1>1, <1>2, PassEndsTyped DEF FetchPositions
<1>4. QED
  BY <1>1, <1>3 DEF Typed

\* A partial close: the order is the last one, if there is one.
LEMMA ClosePartialTyped ==
  ASSUME Typed, NEW t \in {"tick", "manage"}, ClosePartial(t) PROVE Typed'
<1> DEFINE s == thread[t].sym
           v == thread[t].view[s]
           qty == Max({1, (v.size * ClosePct(thread[t].stage)) \div 100})
<1>1. t \in Thread
  BY DEF Thread
<1>2. IsLocal(thread[t]) /\ IsView(v) /\ s \in Symbol
  BY <1>1, ThreadKnown DEF IsLocal
<1>3. qty \in Nat
  <2>1. v.size \in Nat /\ ClosePct(thread[t].stage) \in {40, 50}
    BY <1>2 DEF IsView, ClosePct
  <2>2. (v.size * ClosePct(thread[t].stage)) \div 100 \in Nat
    BY <2>1
  <2>3. QED
    BY <2>2, MaxOne
<1>4. /\ OrdersTyped' /\ Len(orders') \in Nat /\ Len(orders) <= Len(orders')
      /\ \/ Len(orders') = Len(orders) + 1 /\ thread' = [thread EXCEPT ![t].pc = "verify", ![t].order = Len(orders) + 1]
         \/ Len(orders') = Len(orders) + 1
            /\ thread' = [thread EXCEPT ![t].pc = "record", ![t].order = Len(orders) + 1, ![t].ok = FALSE]
         \/ thread' = [thread EXCEPT ![t].pc = "record", ![t].order = 0, ![t].ok = FALSE]
  <2>1. CASE /\ Len(orders) < MaxOrders
             /\ Sent(thread[t].stage, s, v.id, qty)
    <3>1. thread[t].stage \in Stages \cup {"entry", "kill"} /\ v.id \in {0} \cup Positions
      BY <1>2 DEF IsLocal, IsView
    <3> HIDE DEF qty, v, s
    <3>2. OrdersTyped' /\ Len(orders') = Len(orders) + 1
      BY <1>2, <1>3, <2>1, <3>1, SentTyped
    <3>3. Len(orders) \in Nat
      BY <1>1, ThreadKnown
    <3>4. QED
      BY <3>2, <3>3 DEF ClosePartial
  <2>2. CASE ~(Len(orders) < MaxOrders /\ Sent(thread[t].stage, s, v.id, qty))
    <3>1. UNCHANGED orders /\ thread' = [thread EXCEPT ![t].pc = "record", ![t].order = 0, ![t].ok = FALSE]
      BY <2>2 DEF ClosePartial
    <3>2. QED
      BY <3>1, OrdersKept
  <2>3. QED
    BY <2>1, <2>2
<1>5. ThreadsTyped'
  <2>1. thread[t].pc \in Managing \ {"next"} /\ {"verify", "record"} \subseteq Steps
    BY DEF Managing, ClosePartial, At, Steps
  <2>2. Len(orders) + 1 = Len(orders') => Len(orders) + 1 \in 0..MaxOrders
    BY <1>4, PositionAssumption DEF OrdersTyped
  <2>3. 0 \in 0..MaxOrders /\ 0 <= Len(orders') /\ FALSE \in BOOLEAN
    BY <1>4, PositionAssumption
  <2>4. ASSUME NEW k \in 0..MaxOrders, k <= Len(orders'),
               thread' = [thread EXCEPT ![t].pc = "verify", ![t].order = k]
        PROVE  ThreadsTyped'
    BY <1>1, <1>4, <2>1, <2>4, WritesOrder
  <2>5. ASSUME NEW k \in 0..MaxOrders, k <= Len(orders'),
               thread' = [thread EXCEPT ![t].pc = "record", ![t].order = k, ![t].ok = FALSE]
        PROVE  ThreadsTyped'
    BY <1>1, <1>4, <2>1, <2>3, <2>5, WritesOrderOk
  <2>6. CASE thread' = [thread EXCEPT ![t].pc = "record", ![t].order = 0, ![t].ok = FALSE]
    <3>1. PICK k \in 0..MaxOrders : k = 0
      BY <2>3
    <3>2. QED
      BY <2>3, <2>5, <2>6, <3>1
  <2>7. CASE Len(orders') = Len(orders) + 1
    <3>1. PICK k \in 0..MaxOrders : k = Len(orders) + 1 /\ k <= Len(orders')
      BY <2>2, <2>7, <1>4
    <3>2. QED
      BY <1>4, <2>4, <2>5, <2>6, <3>1
  <2>8. QED
    BY <1>4, <2>7, <2>6
<1>6. PositionsTyped' /\ StoreTyped'
  BY <1>4, PositionsKept, StoreKept DEF ClosePartial, Typed, StoreTyped
<1>7. QED
  BY <1>4, <1>5, <1>6 DEF Typed

\* The verification of a partial close and the poll of the position list.
LEMMA VerifyPartialTyped ==
  ASSUME Typed, NEW t \in {"tick", "manage"}, VerifyPartial(t) \/ PollReduced(t) PROVE Typed'
<1>1. t \in Thread /\ IsLocal(thread[t]) /\ Located(thread[t], Len(orders)) /\ IsView(thread[t].view[thread[t].sym])
  BY ThreadKnown DEF Thread, IsLocal
<1>2. OrdersTyped' /\ PositionsTyped' /\ Len(orders') \in Nat /\ Len(orders) <= Len(orders')
  BY OrdersKept, PositionsKept DEF VerifyPartial, PollReduced, exchange
<1>3. \E s \in {"poll", "record"}, b \in BOOLEAN : thread' = [thread EXCEPT ![t].pc = s, ![t].ok = b]
  <2>1. CASE VerifyPartial(t)
    <3>1. PICK f : thread' = [thread EXCEPT ![t].pc = IF f = "filled" THEN "poll" ELSE "record",
                                            ![t].ok = f = "filled"]
      BY <2>1 DEF VerifyPartial
    <3>2. (f = "filled") \in BOOLEAN /\ (IF f = "filled" THEN "poll" ELSE "record") \in {"poll", "record"}
      OBVIOUS
    <3>3. QED
      BY <3>1, <3>2
  <2>2. CASE PollReduced(t)
    <3>1. PICK size : thread' = [thread EXCEPT ![t].pc = "record", ![t].ok = size + orders[thread[t].order].exec
                                                                  <= thread[t].view[thread[t].sym].size]
      BY <2>2 DEF PollReduced
    <3>2. (size + orders[thread[t].order].exec <= thread[t].view[thread[t].sym].size) \in BOOLEAN
      OBVIOUS
    <3>3. QED
      BY <3>1, <3>2
  <2>3. QED
    BY <2>1, <2>2
<1>4. ThreadsTyped'
  <2>1. thread[t].pc \in Managing \ {"next"} /\ {"poll", "record"} \subseteq Steps
    BY DEF Managing, VerifyPartial, PollReduced, At, Steps
  <2>2. QED
    BY <1>1, <1>2, <1>3, <2>1, WritesOk
<1>5. pendPartial' = pendPartial
      \/ pendPartial' = [order |-> thread[t].order, size |-> thread[t].view[thread[t].sym].size]
  BY DEF VerifyPartial, PollReduced
<1>6. pendPartial' \in [order : 0..Len(orders), size : Nat]
  BY <1>1, <1>5 DEF IsLocal, IsView, Located, Typed, StoreTyped
<1>7. StoreTyped'
  BY <1>2, <1>6 DEF VerifyPartial, PollReduced, durable, exchange, Typed, StoreTyped
<1>8. QED
  BY <1>2, <1>4, <1>7 DEF Typed

\* The journal names positions only.
LEMMA RecordStageTyped ==
  ASSUME Typed, NEW t \in {"tick", "manage"}, RecordStage(t) PROVE Typed'
<1> DEFINE k == thread[t].order
           v == thread[t].view[thread[t].sym]
<1>1. t \in Thread /\ IsLocal(thread[t]) /\ Located(thread[t], Len(orders)) /\ v.id \in Positions
      /\ thread[t].pc = "record"
  BY ThreadKnown DEF Thread, IsLocal, Located, RecordStage, At, Managing
<1>2. OrdersTyped' /\ Len(orders') = Len(orders)
  <2>1. CASE orders' = orders
    BY <2>1, OrdersKept
  <2>2. CASE orders' = [orders EXCEPT ![k].recorded = TRUE]
    <3>1. Len(orders') = Len(orders) /\ DOMAIN orders' = DOMAIN orders
      BY <2>2 DEF Typed, OrdersTyped
    <3>2. ASSUME NEW i \in DOMAIN orders PROVE orders'[i] \in Order /\ orders'[i].exec <= orders'[i].qty
      <4>1. orders[i] \in Order /\ IsOrder(orders[i]) /\ orders[i].exec <= orders[i].qty
        BY OrderFields DEF Typed, OrdersTyped
      <4>2. orders'[i] = orders[i] \/ orders'[i] = [orders[i] EXCEPT !.recorded = TRUE]
        BY <2>2 DEF Typed, OrdersTyped
      <4>3. QED
        BY <4>1, <4>2 DEF Order, IsOrder
    <3>3. orders' \in Seq(Order)
      BY <2>2, <3>1, <3>2, SameLength DEF Typed, OrdersTyped
    <3>4. QED
      BY <3>1, <3>2, <3>3 DEF Typed, OrdersTyped
  <2>3. QED
    BY <2>1, <2>2 DEF RecordStage
<1>3. Len(orders') \in Nat /\ Len(orders) <= Len(orders')
  BY <1>1, <1>2, ThreadKnown
<1>4. ThreadsTyped'
  <2>1. CASE Goto(t, "breakeven") \/ Goto(t, "trail")
    BY <1>1, <1>3, <2>1, Goes DEF Goto, Managing, Steps
  <2>2. CASE Raise(t)
    BY <1>1, <1>3, <2>2, Ends DEF Raise
  <2>3. CASE NextSymbol(t)
    BY <1>1, <1>3, <2>3, NextSymbolTyped DEF Managing
  <2>4. QED
    BY <2>1, <2>2, <2>3 DEF RecordStage
<1>5. /\ journal' = journal \/ journal' = journal \cup {<<thread[t].stage, v.id>>}
      /\ unread' = unread \/ unread' = unread \cup {<<thread[t].stage, v.id>>}
  BY DEF RecordStage, Journaled, InTableOnly
<1>6. loop' \in BOOLEAN
  BY DEF RecordStage, Raise, Typed, StoreTyped
<1>7. StoreTyped'
  BY <1>1, <1>2, <1>5, <1>6 DEF RecordStage, IsLocal, Typed, StoreTyped
<1>8. PositionsTyped'
  BY PositionsKept DEF RecordStage
<1>9. QED
  BY <1>2, <1>4, <1>7, <1>8 DEF Typed

\* Break-even and the trailing stop.
LEMMA SteppedAside ==
  ASSUME Typed, NEW t \in {"tick", "manage"}, Breakeven(t) \/ SetTrailing(t) \/ RecordTrailing(t) PROVE Typed'
<1>1. t \in Thread /\ IsLocal(thread[t]) /\ Located(thread[t], Len(orders))
      /\ thread[t].view[thread[t].sym].id \in Positions
      /\ thread[t].pc \in Managing \ {"next"} /\ thread[t].sym \in Symbol
  BY ThreadKnown DEF Thread, IsLocal, Located, Breakeven, SetTrailing, RecordTrailing, At, Managing
<1>2. OrdersTyped' /\ Len(orders') \in Nat /\ Len(orders) <= Len(orders') /\ Len(orders') = Len(orders)
  BY OrdersKept DEF Breakeven, SetTrailing, RecordTrailing, exchange
<1>3. PositionsTyped'
  <2>1. CASE pos' = pos
    BY <2>1, PositionsKept DEF Breakeven, SetTrailing, RecordTrailing, exchange
  <2>2. ASSUME NEW s \in Symbol, NEW x \in {"none", "initial", "breakeven"}, NEW b \in BOOLEAN,
               \/ pos' = [pos EXCEPT ![s].stop = x]
               \/ pos' = [pos EXCEPT ![s].trail = b]
        PROVE  PositionsTyped'
    <3>1. ASSUME NEW y \in Symbol PROVE pos'[y] \in Position /\ pos'[y].size = pos[y].size /\ pos'[y].id = pos[y].id
      <4>1. pos[y] \in Position /\ IsPosition(pos[y])
        BY PositionFields DEF Typed, PositionsTyped
      <4>2. pos'[y] = pos[y] \/ pos'[y] = [pos[y] EXCEPT !.stop = x] \/ pos'[y] = [pos[y] EXCEPT !.trail = b]
        BY <2>2 DEF Typed, PositionsTyped
      <4>3. QED
        BY <4>1, <4>2 DEF Position, IsPosition
    <3>2. pos' \in [Symbol -> Position]
      BY <2>2, <3>1 DEF Typed, PositionsTyped
    <3>3. opened' = opened
      BY DEF Breakeven, SetTrailing, RecordTrailing, exchange
    <3>4. QED
      BY <3>1, <3>2, <3>3 DEF Typed, PositionsTyped
  <2> DEFINE s == thread[t].sym
  <2>3. CASE pos' = [pos EXCEPT ![s].stop = IF pos[s].size > 0 THEN "breakeven" ELSE @]
    <3>1. pos[s].stop \in {"none", "initial", "breakeven"}
      BY <1>1, PositionFields DEF IsPosition, Typed, PositionsTyped
    <3> DEFINE x == IF pos[s].size > 0 THEN "breakeven" ELSE pos[s].stop
    <3>2. x \in {"none", "initial", "breakeven"} /\ pos' = [pos EXCEPT ![s].stop = x]
      BY <2>3, <3>1
    <3> HIDE DEF x
    <3>3. QED
      BY <1>1, <2>2, <3>2
  <2>4. CASE pos' = [pos EXCEPT ![s].trail = pos[s].size > 0]
    <3>1. (pos[s].size > 0) \in BOOLEAN
      OBVIOUS
    <3>2. QED
      BY <1>1, <2>2, <2>4, <3>1
  <2>5. QED
    BY <2>1, <2>3, <2>4 DEF Breakeven, SetTrailing, RecordTrailing, exchange
<1>4. ThreadsTyped'
  BY <1>1, <1>2, Goes, Ends, NextSymbolTyped DEF Breakeven, SetTrailing, RecordTrailing, Raise,
     Goto, Managing, Steps
<1>5. /\ journal' = journal \/ journal' = journal \cup {<<"trail", thread[t].view[thread[t].sym].id>>}
      /\ unread' = unread \/ unread' = unread \cup {<<"trail", thread[t].view[thread[t].sym].id>>}
  BY DEF Breakeven, SetTrailing, RecordTrailing, Journaled, InTableOnly, durable
<1>6. loop' \in BOOLEAN
  BY DEF Breakeven, SetTrailing, RecordTrailing, Raise, memory, Typed, StoreTyped
<1>7. StoreTyped'
  BY <1>1, <1>2, <1>5, <1>6 DEF Breakeven, SetTrailing, RecordTrailing, Raise, durable, memory,
     exchange, Typed, StoreTyped
<1>8. QED
  BY <1>2, <1>3, <1>4, <1>7 DEF Typed

\* The decision on one position of the snapshot.
LEMMA DecideTyped ==
  ASSUME Typed, NEW t \in {"tick", "manage"}, Decide(t) PROVE Typed'
<1>1. t \in Thread /\ thread[t].pc = "next"
  BY DEF Thread, Decide, At
<1>2. OrdersTyped' /\ PositionsTyped' /\ Len(orders') \in Nat /\ Len(orders) <= Len(orders')
  BY OrdersKept, PositionsKept DEF Decide, exchange
<1>3. thread[t] \in Local /\ IsLocal(thread[t]) /\ Located(thread[t], Len(orders))
  BY <1>1, LocalFields DEF Typed, ThreadsTyped
<1>4. PICK s \in thread[t].todo :
        /\ \/ plan' = plan
           \/ plan' = PlanFor(thread[t].view[s])
        /\ \/ \E pc \in {"send", "trail"}, stage \in Stages :
                thread' = [thread EXCEPT ![t].pc = pc, ![t].sym = s, ![t].stage = stage]
           \/ thread' = [thread EXCEPT ![t].todo = @ \ {s}, ![t].view[s] = NoView]
  BY DEF Decide, Stages
<1>5. s \in Symbol /\ IsView(thread[t].view[s]) /\ thread[t].view[s].id \in Positions
  BY <1>1, <1>3, ThreadKnown DEF IsLocal, Located, Managing
<1>6. plan' \in [Positions -> Nat]
  BY <1>4, <1>5 DEF PlanFor, IsView, Typed, StoreTyped
<1>7. StoreTyped'
  BY <1>2, <1>6 DEF Decide, Typed, StoreTyped, memory
<1>8. ASSUME NEW pc \in {"send", "trail"}, NEW stage \in Stages,
             thread' = [thread EXCEPT ![t].pc = pc, ![t].sym = s, ![t].stage = stage]
      PROVE  ThreadsTyped'
  <2> DEFINE m == [thread[t] EXCEPT !.pc = pc, !.sym = s, !.stage = stage]
  <2>1. OnlyThread(t, m)
    BY <1>1, <1>8 DEF OnlyThread, Typed, ThreadsTyped
  <2>2. pc \in Steps
    BY DEF Steps
  <2>3. m \in Local
    BY <1>3, <1>5, <2>2, Writes
  <2>4. m.todo = thread[t].todo /\ m.view = thread[t].view /\ m.order = thread[t].order /\ m.sym = s
    BY <1>3 DEF IsLocal
  <2> HIDE DEF m
  <2>5. Located(m, Len(orders'))
    BY <1>1, <1>2, <1>3, <2>4 DEF Located, IsLocal, Managing, Typed, OrdersTyped
  <2>6. QED
    BY <1>1, <1>2, <2>1, <2>3, <2>5, ThreadsKept, LocalFields DEF Typed, OrdersTyped
<1>9. ASSUME thread' = [thread EXCEPT ![t].todo = @ \ {s}, ![t].view[s] = NoView]
      PROVE  ThreadsTyped'
  <2> DEFINE m == [thread[t] EXCEPT !.todo = @ \ {s}, !.view[s] = NoView]
  <2>1. OnlyThread(t, m)
    BY <1>1, <1>9 DEF OnlyThread, Typed, ThreadsTyped
  <2>2. NoView \in View
    BY DEF NoView, View
  <2>3. m = [f \in DOMAIN m |-> m[f]] /\ DOMAIN m = DOMAIN thread[t]
    BY <1>3 DEF IsLocal
  <2>4. /\ m.todo = thread[t].todo \ {s} /\ m.view = [thread[t].view EXCEPT ![s] = NoView]
        /\ m.order = thread[t].order /\ m.sym = thread[t].sym /\ m.pc = thread[t].pc
        /\ m.ok = thread[t].ok /\ m.stage = thread[t].stage /\ m.current = thread[t].current
    BY <1>3 DEF IsLocal
  <2> HIDE DEF m
  <2>5. IsLocal(m)
    BY <1>3, <1>5, <2>2, <2>3, <2>4 DEF IsLocal
  <2>6. Located(m, Len(orders'))
    BY <1>1, <1>2, <1>3, <1>5, <2>4 DEF Located, IsLocal, Managing, Typed, OrdersTyped
  <2>7. QED
    BY <1>1, <1>2, <2>1, <2>5, <2>6, ThreadsKept DEF Typed, OrdersTyped
<1>10. QED
  BY <1>2, <1>4, <1>7, <1>8, <1>9 DEF Typed

\* The guard of an entry.
LEMMA GuardTyped ==
  ASSUME Typed, NEW t \in {"tick", "manual"}, PositionGuard(t) PROVE Typed'
<1>1. t \in Thread
  BY DEF Thread
<1>2. OrdersTyped' /\ PositionsTyped' /\ Len(orders') \in Nat /\ Len(orders) <= Len(orders')
  BY OrdersKept, PositionsKept DEF PositionGuard, exchange
<1>3. thread[t] \in Local /\ IsLocal(thread[t]) /\ Located(thread[t], Len(orders))
  BY <1>1, LocalFields DEF Typed, ThreadsTyped
<1>4. PICK a \in GateAnswers, e \in PendingEntryAnswers, s \in Symbol :
        /\ pendPartial' = a.left /\ pendEntry' \in {e.left, pendEntry}
        /\ \/ End(t)
           \/ \E pc \in {"current", "place"} : thread' = [thread EXCEPT ![t].pc = pc, ![t].sym = s]
  BY DEF PositionGuard
<1>5. a.left \in {pendPartial, NoPartial}
  BY DEF GateAnswers
<1>6. e.left \in {pendEntry, 0}
  BY DEF PendingEntryAnswers
<1>7. StoreTyped'
  BY <1>2, <1>4, <1>5, <1>6 DEF PositionGuard, exchange, NoPartial, Typed, StoreTyped
<1>8. ASSUME NEW pc \in {"current", "place"}, thread' = [thread EXCEPT ![t].pc = pc, ![t].sym = s]
      PROVE  ThreadsTyped'
  <2> DEFINE m == [thread[t] EXCEPT !.pc = pc, !.sym = s]
  <2>1. OnlyThread(t, m)
    BY <1>1, <1>8 DEF OnlyThread, Typed, ThreadsTyped
  <2>2. pc \in Steps
    BY DEF Steps
  <2>3. m \in Local
    BY <1>3, <2>2, Writes
  <2>4. m.pc = pc /\ m.order = thread[t].order
    BY <1>3 DEF IsLocal
  <2> HIDE DEF m
  <2>5. Located(m, Len(orders'))
    BY <1>2, <1>3, <2>4 DEF Located, IsLocal, Managing, Typed, OrdersTyped
  <2>6. QED
    BY <1>1, <1>2, <2>1, <2>3, <2>5, ThreadsKept, LocalFields DEF Typed, OrdersTyped
<1>9. ASSUME End(t) PROVE ThreadsTyped'
  BY <1>1, <1>2, <1>9, Ends
<1>10. QED
  BY <1>2, <1>4, <1>7, <1>8, <1>9 DEF Typed

\* An entry order is placed.
LEMMA PlaceEntryTyped ==
  ASSUME Typed, NEW t \in {"tick", "manual"}, PlaceEntry(t) PROVE Typed'
<1>1. t \in Thread
  BY DEF Thread
<1>2. thread[t] \in Local /\ IsLocal(thread[t]) /\ Len(orders) \in Nat
  BY <1>1, LocalFields DEF Typed, ThreadsTyped, OrdersTyped
<1>3. OrdersTyped' /\ (Len(orders') = Len(orders) \/ Len(orders') = Len(orders) + 1)
  <2>1. CASE UNCHANGED orders
    BY <2>1, OrdersKept
  <2>2. CASE Len(orders) < MaxOrders /\ Sent("entry", thread[t].sym, 0, EntrySize)
    <3>1. EntrySize \in Nat /\ thread[t].sym \in Symbol /\ "entry" \in Stages \cup {"entry", "kill"}
          /\ 0 \in {0} \cup Positions
      BY <1>2, PositionAssumption DEF IsLocal
    <3>2. QED
      BY <2>2, <3>1, SentTyped
  <2>3. QED
    BY <2>1, <2>2 DEF PlaceEntry
<1>4. Len(orders') \in Nat /\ Len(orders) <= Len(orders')
  BY <1>2, <1>3
<1>5. ThreadsTyped'
  <2>1. CASE End(t)
    BY <1>1, <1>4, <2>1, Ends
  <2>2. CASE Sent("entry", thread[t].sym, 0, EntrySize) /\ thread' = [thread EXCEPT ![t].pc = "finalize", ![t].order = Len(orders) + 1]
    <3>1. Len(orders') = Len(orders) + 1
      BY <2>2 DEF Sent, Typed, OrdersTyped
    <3>2. PICK k \in 0..MaxOrders : k = Len(orders) + 1
      BY <1>2, <1>3, <3>1, PositionAssumption DEF OrdersTyped
    <3>3. "finalize" \in Steps /\ "finalize" \notin Managing
      BY DEF Steps, Managing
    <3>4. k <= Len(orders')
      BY <1>4, <3>1, <3>2
    <3>5. thread' = [thread EXCEPT ![t].pc = "finalize", ![t].order = k]
      BY <2>2, <3>2
    <3>6. QED
      BY <1>1, <1>4, <3>3, <3>4, <3>5, WritesOrder
  <2>3. QED
    BY <2>1, <2>2 DEF PlaceEntry
<1>6. PositionsTyped' /\ StoreTyped'
  BY <1>4, PositionsKept, StoreKept DEF PlaceEntry, Typed, StoreTyped
<1>7. QED
  BY <1>3, <1>5, <1>6 DEF Typed

\* An entry order is finalised.
LEMMA FinalizeTyped ==
  ASSUME Typed, NEW t \in {"tick", "manual"}, FinalizeEntry(t) PROVE Typed'
<1>1. t \in Thread
  BY DEF Thread
<1>2. OrdersTyped' /\ PositionsTyped' /\ Len(orders') \in Nat /\ Len(orders) <= Len(orders')
  BY OrdersKept, PositionsKept DEF FinalizeEntry, exchange
<1>3. thread[t] \in Local /\ IsLocal(thread[t]) /\ Located(thread[t], Len(orders))
  BY <1>1, LocalFields DEF Typed, ThreadsTyped
<1>4. pendEntry' \in {thread[t].order, pendEntry}
  BY DEF FinalizeEntry
<1>5. StoreTyped'
  BY <1>2, <1>3, <1>4 DEF FinalizeEntry, exchange, memory, Located, IsLocal, Typed, StoreTyped
<1>6. CASE t = "tick"
  <2>1. PICK f : thread' = [thread EXCEPT ![t].pc = "book", ![t].ok = f = "filled",
                                          ![t].order = IF f = "unresolved" THEN @ ELSE 0]
    BY <1>6 DEF FinalizeEntry
  <2> DEFINE k == IF f = "unresolved" THEN thread[t].order ELSE 0
             b == f = "filled"
  <2>2. k \in 0..MaxOrders /\ k <= Len(orders') /\ b \in BOOLEAN
    BY <1>2, <1>3, PositionAssumption DEF IsLocal, Located
  <2>3. "book" \in Steps /\ "book" \notin Managing
    BY DEF Steps, Managing
  <2>4. thread' = [thread EXCEPT ![t].pc = "book", ![t].ok = b, ![t].order = k]
    BY <2>1
  <2> HIDE DEF k, b
  <2>5. ThreadsTyped'
    BY <1>1, <1>2, <2>2, <2>3, <2>4, WritesOrderOk
  <2>6. QED
    BY <1>2, <1>5, <2>5 DEF Typed
<1>7. CASE t # "tick"
  BY <1>1, <1>2, <1>5, <1>7, Ends DEF FinalizeEntry, Typed
<1>8. QED
  BY <1>6, <1>7

\* The steps that begin, end or forward a thread and leave the rest alone.
LEMMA SimpleTyped ==
  ASSUME Typed,
         \/ TickBegins \/ ManageRequested \/ ManualRequested \/ SelectSignal \/ ExecuteGuard
         \/ \E t \in {"tick", "manage"} : PassOver(t)
  PROVE  Typed'
<1> USE DEF TickBegins, ManageRequested, ManualRequested, SelectSignal, ExecuteGuard, PassOver
<1>1. OrdersTyped' /\ PositionsTyped' /\ Len(orders') \in Nat /\ Len(orders) <= Len(orders')
  BY OrdersKept, PositionsKept DEF exchange
<1>2. StoreTyped'
  BY <1>1, StoreKept DEF Typed, StoreTyped
<1>3. ThreadsTyped'
  <2>1. ASSUME NEW t \in Thread, NEW s \in {"gate", "guard", "place"}, thread' = [thread EXCEPT ![t].pc = s]
        PROVE  ThreadsTyped'
    <3>1. s \in Steps /\ s \notin Managing
      BY DEF Steps, Managing
    <3>2. QED
      BY <1>1, <2>1, <3>1, Goes
  <2>2. ASSUME NEW t \in Thread, End(t) \/ PassEnds(t) PROVE ThreadsTyped'
    BY <1>1, <2>2, Ends, PassEndsTyped
  <2>3. QED
    BY <2>1, <2>2 DEF Begin, Goto, Thread
<1>4. QED
  BY <1>1, <1>2, <1>3 DEF Typed

\* The signal is booked.
LEMMA BookSignalTyped == ASSUME Typed, BookSignal PROVE Typed'
<1>1. OrdersTyped' /\ PositionsTyped' /\ Len(orders') \in Nat /\ Len(orders) <= Len(orders')
  BY OrdersKept, PositionsKept DEF BookSignal, exchange
<1>2. ThreadsTyped'
  BY <1>1, Ends DEF BookSignal, Raise, Thread
<1>3. IsLocal(thread["tick"])
  BY ThreadKnown DEF Thread
<1>4. seen' \in BOOLEAN /\ enabled' \in BOOLEAN /\ loop' \in BOOLEAN
  <2>1. seen' \in {seen, seen \/ thread["tick"].ok}
    BY DEF BookSignal
  <2>2. enabled' \in {enabled, enabled /\ thread["tick"].order = 0}
    BY DEF BookSignal
  <2>3. loop' \in {loop, loop /\ "tick" # "tick"}
    BY DEF BookSignal, Raise
  <2>4. QED
    BY <1>3, <2>1, <2>2, <2>3 DEF IsLocal, Typed, StoreTyped
<1>5. StoreTyped'
  BY <1>1, <1>4 DEF BookSignal, exchange, Typed, StoreTyped
<1>6. QED
  BY <1>1, <1>2, <1>5 DEF Typed

\* Advancing the generation marks a running tick.
LEMMA NewGenerationTyped ==
  ASSUME Typed, Len(orders') \in Nat, Len(orders) <= Len(orders'), thread' = NewGeneration(thread)
  PROVE  ThreadsTyped' /\ OnlyThread("tick", [thread["tick"] EXCEPT !.current = thread["tick"].pc = "idle"])
<1> DEFINE b == thread["tick"].pc = "idle"
           m == [thread["tick"] EXCEPT !.current = b]
<1>1. "tick" \in Thread /\ b \in BOOLEAN
  BY DEF Thread
<1>2. thread["tick"] \in Local /\ IsLocal(thread["tick"]) /\ Located(thread["tick"], Len(orders))
  BY <1>1, LocalFields DEF Typed, ThreadsTyped
<1>3. OnlyThread("tick", m)
  BY <1>1 DEF OnlyThread, NewGeneration, Typed, ThreadsTyped
<1>4. m \in Local
  BY <1>1, <1>2, Writes
<1>5. m.todo = thread["tick"].todo /\ m.view = thread["tick"].view /\ m.order = thread["tick"].order
      /\ m.sym = thread["tick"].sym /\ m.pc = thread["tick"].pc
  BY <1>2 DEF IsLocal
<1> HIDE DEF m
<1>6. Located(m, Len(orders'))
  BY <1>2, <1>5 DEF Located, IsLocal, Typed, OrdersTyped
<1>7. QED
  BY <1>1, <1>3, <1>4, <1>6, ThreadsKept, LocalFields DEF Typed, OrdersTyped, m

\* The bot is started or stopped.
LEMMA StartStopTyped == ASSUME Typed, StartBot \/ StopBot PROVE Typed'
<1>1. OrdersTyped' /\ PositionsTyped' /\ Len(orders') \in Nat /\ Len(orders) <= Len(orders')
  BY OrdersKept, PositionsKept DEF StartBot, StopBot, exchange
<1>2. ThreadsTyped'
  BY <1>1, NewGenerationTyped DEF StartBot, StopBot
<1>3. StoreTyped'
  BY <1>1 DEF StartBot, StopBot, exchange, durable, Typed, StoreTyped
<1>4. QED
  BY <1>1, <1>2, <1>3 DEF Typed

\* The kill switch begins.
LEMMA KillRequestedTyped == ASSUME Typed, KillRequested PROVE Typed'
<1>1. OrdersTyped' /\ PositionsTyped' /\ Len(orders') \in Nat /\ Len(orders) <= Len(orders') /\ "kill" \in Thread
  BY OrdersKept, PositionsKept DEF KillRequested, exchange, Thread
<1> DEFINE g == NewGeneration(thread)
           m == [thread["kill"] EXCEPT !.pc = "find"]
<1>2. thread["tick"] \in Local /\ IsLocal(thread["tick"]) /\ Located(thread["tick"], Len(orders))
      /\ thread["kill"] \in Local /\ IsLocal(thread["kill"]) /\ Located(thread["kill"], Len(orders))
  BY <1>1, LocalFields DEF Typed, ThreadsTyped, Thread
<1>3. (thread["tick"].pc = "idle") \in BOOLEAN /\ "find" \in Steps /\ "find" \notin Managing
  BY DEF Steps, Managing
<1>4. PICK n : n = [thread["tick"] EXCEPT !.current = thread["tick"].pc = "idle"]
  OBVIOUS
<1>5. g = [u \in Thread |-> g[u]] /\ g["tick"] = n /\ \A u \in Thread \ {"tick"} : g[u] = thread[u]
  BY <1>4 DEF NewGeneration, Typed, ThreadsTyped, Thread
<1>6. /\ thread' = [u \in Thread |-> thread'[u]]
      /\ thread'["tick"] = n /\ thread'["kill"] = m
      /\ \A u \in Thread \ {"tick", "kill"} : thread'[u] = thread[u]
  <2> HIDE DEF g, m
  <2>1. thread' = [g EXCEPT !["kill"].pc = "find"]
    BY DEF KillRequested, g
  <2>2. QED
    BY <1>1, <1>5, <2>1 DEF m, Thread
<1>7. n \in Local /\ m \in Local
  BY <1>2, <1>3, <1>4, Writes
<1>8. /\ n.todo = thread["tick"].todo /\ n.view = thread["tick"].view /\ n.order = thread["tick"].order
      /\ n.sym = thread["tick"].sym /\ n.pc = thread["tick"].pc
      /\ m.pc = "find" /\ m.order = thread["kill"].order
  BY <1>2, <1>4 DEF IsLocal
<1> HIDE DEF g, m
<1>9. Located(n, Len(orders')) /\ Located(m, Len(orders'))
  BY <1>1, <1>2, <1>3, <1>8 DEF Located, IsLocal, Typed, OrdersTyped
<1>10. ThreadsTyped'
  <2>1. ASSUME NEW u \in Thread PROVE thread'[u] \in Local /\ Located(thread'[u], Len(orders'))
    <3>1. thread[u] \in Local /\ IsLocal(thread[u]) /\ Located(thread[u], Len(orders))
      BY LocalFields DEF Typed, ThreadsTyped
    <3>2. Located(thread[u], Len(orders'))
      BY <3>1 DEF Located, KillRequested, exchange
    <3>3. QED
      BY <1>6, <1>7, <1>9, <3>1, <3>2
  <2>2. thread' \in [Thread -> Local]
    BY <1>6, <2>1
  <2>3. QED
    BY <2>1, <2>2 DEF ThreadsTyped
<1>11. StoreTyped'
  BY <1>1 DEF KillRequested, exchange, durable, Typed, StoreTyped
<1>12. QED
  BY <1>1, <1>10, <1>11 DEF Typed

\* The switch answers: killed is set only with nobody about to trade.
LEMMA KillAnswersTyped ==
  ASSUME Typed, NEW success \in BOOLEAN, KillAnswers(success), Len(orders') \in Nat, Len(orders) <= Len(orders')
  PROVE  ThreadsTyped' /\ killed' \in BOOLEAN
<1>1. "kill" \in Thread
  BY DEF Thread
<1>2. ThreadsTyped'
  BY <1>1, Ends DEF KillAnswers
<1>3. NoEntryUnderWay \in BOOLEAN
  BY DEF NoEntryUnderWay
<1>4. QED
  BY <1>2, <1>3 DEF KillAnswers

\* The kill switch looks for positions, first and last.
LEMMA KillFindsTyped == ASSUME Typed, KillFinds \/ KillVerifies PROVE Typed'
<1>1. "kill" \in Thread /\ thread["kill"] \in Local /\ IsLocal(thread["kill"]) /\ Located(thread["kill"], Len(orders))
  BY LocalFields DEF Typed, ThreadsTyped, Thread
<1>2. OrdersTyped' /\ PositionsTyped' /\ Len(orders') \in Nat /\ Len(orders) <= Len(orders')
  BY OrdersKept, PositionsKept DEF KillFinds, KillVerifies, exchange
<1>3. ASSUME NEW b \in BOOLEAN, KillAnswers(b) PROVE ThreadsTyped' /\ killed' \in BOOLEAN
  BY <1>2, <1>3, KillAnswersTyped
<1>4. ASSUME thread' = [thread EXCEPT !["kill"].pc = "cancel", !["kill"].todo = OpenSymbols]
      PROVE  ThreadsTyped'
  <2> DEFINE m == [thread["kill"] EXCEPT !.pc = "cancel", !.todo = OpenSymbols]
  <2>1. OnlyThread("kill", m)
    BY <1>1, <1>4 DEF OnlyThread, Typed, ThreadsTyped
  <2>2. "cancel" \in Steps /\ "cancel" \notin Managing /\ OpenSymbols \in SUBSET Symbol
    BY DEF Steps, Managing, OpenSymbols
  <2>3. m \in Local
    BY <1>1, <2>2, Writes
  <2>4. m.order = thread["kill"].order /\ m.pc = "cancel"
    BY <1>1 DEF IsLocal
  <2> HIDE DEF m
  <2>5. Located(m, Len(orders'))
    BY <1>1, <1>2, <2>2, <2>4 DEF Located, IsLocal, Typed, OrdersTyped
  <2>6. QED
    BY <1>1, <1>2, <2>1, <2>3, <2>5, ThreadsKept, LocalFields DEF Typed, OrdersTyped
<1>5. thread["kill"].ok \in BOOLEAN /\ TRUE \in BOOLEAN /\ FALSE \in BOOLEAN
  BY <1>1 DEF IsLocal
<1>6. ThreadsTyped' /\ killed' \in BOOLEAN
  BY <1>3, <1>4, <1>5 DEF KillFinds, KillVerifies, Typed, StoreTyped
<1>7. StoreTyped'
  BY <1>2, <1>6, StoreKept DEF KillFinds, KillVerifies
<1>8. QED
  BY <1>2, <1>6, <1>7 DEF Typed

\* cancel-all ends the live orders of the symbol.
CancelAll(s) ==
  [k \in DOMAIN orders |-> IF orders[k].sym = s /\ orders[k].state = "live"
                           THEN [orders[k] EXCEPT !.state = "cancelled"] ELSE orders[k]]

\* Cancelling the live orders of a symbol keeps the orders' types.
LEMMA CancelTyped ==
  ASSUME Typed, NEW s, orders' = CancelAll(s)
  PROVE  OrdersTyped' /\ Len(orders') = Len(orders)
<1>1. ASSUME NEW i \in DOMAIN orders PROVE orders'[i] \in Order /\ orders'[i].exec <= orders'[i].qty
  <2>1. orders[i] \in Order /\ IsOrder(orders[i]) /\ orders[i].exec <= orders[i].qty
    BY OrderFields DEF Typed, OrdersTyped
  <2>2. orders'[i] = orders[i] \/ orders'[i] = [orders[i] EXCEPT !.state = "cancelled"]
    BY DEF CancelAll
  <2>3. QED
    BY <2>1, <2>2 DEF Order, IsOrder
<1>2. orders' = [i \in DOMAIN orders |-> orders'[i]] /\ DOMAIN orders' = DOMAIN orders
  BY DEF CancelAll
<1>3. orders' \in Seq(Order) /\ Len(orders') = Len(orders)
  BY <1>1, <1>2, SameLength DEF Typed, OrdersTyped
<1>4. QED
  BY <1>1, <1>2, <1>3 DEF Typed, OrdersTyped

\* The kill switch cancels.
LEMMA KillCancelsTyped == ASSUME Typed, KillCancels PROVE Typed'
<1>1. "kill" \in Thread /\ thread["kill"] \in Local /\ IsLocal(thread["kill"]) /\ Located(thread["kill"], Len(orders))
      /\ Len(orders) \in Nat
  BY LocalFields DEF Typed, ThreadsTyped, OrdersTyped, Thread
<1>2. OrdersTyped' /\ Len(orders') = Len(orders)
  <2>1. orders' = orders \/ \E s : orders' = CancelAll(s)
    BY DEF KillCancels, CancelAll
  <2>2. QED
    BY <2>1, CancelTyped, OrdersKept
<1>3. Len(orders') \in Nat /\ Len(orders) <= Len(orders')
  BY <1>1, <1>2
<1>4. ASSUME KillAnswers(FALSE) PROVE ThreadsTyped' /\ killed' \in BOOLEAN
  BY <1>3, <1>4, KillAnswersTyped
<1>5. ASSUME NEW s \in Symbol, thread' = [thread EXCEPT !["kill"].pc = "close", !["kill"].sym = s]
      PROVE  ThreadsTyped'
  <2> DEFINE m == [thread["kill"] EXCEPT !.pc = "close", !.sym = s]
  <2>1. OnlyThread("kill", m)
    BY <1>1, <1>5 DEF OnlyThread, Typed, ThreadsTyped
  <2>2. "close" \in Steps /\ "close" \notin Managing
    BY DEF Steps, Managing
  <2>3. m \in Local
    BY <1>1, <2>2, Writes
  <2>4. m.order = thread["kill"].order /\ m.pc = "close"
    BY <1>1 DEF IsLocal
  <2> HIDE DEF m
  <2>5. Located(m, Len(orders'))
    BY <1>1, <1>2, <2>2, <2>4 DEF Located
  <2>6. QED
    BY <1>1, <1>3, <2>1, <2>3, <2>5, ThreadsKept, LocalFields DEF Typed, OrdersTyped
<1>6. thread["kill"].todo \subseteq Symbol
  BY <1>1 DEF IsLocal
<1>7. ThreadsTyped' /\ killed' \in BOOLEAN
  BY <1>4, <1>5, <1>6 DEF KillCancels, Typed, StoreTyped
<1>8. StoreTyped' /\ PositionsTyped'
  BY <1>3, <1>7, StoreKept, PositionsKept DEF KillCancels
<1>9. QED
  BY <1>2, <1>7, <1>8 DEF Typed

\* The kill switch closes a position.
LEMMA KillClosesTyped == ASSUME Typed, KillCloses PROVE Typed'
<1> DEFINE s == thread["kill"].sym
<1>1. "kill" \in Thread /\ thread["kill"] \in Local /\ IsLocal(thread["kill"]) /\ Located(thread["kill"], Len(orders))
      /\ Len(orders) \in Nat /\ s \in Symbol
  BY LocalFields DEF Typed, ThreadsTyped, OrdersTyped, Thread, IsLocal
<1>2. OrdersTyped' /\ Len(orders') \in Nat /\ Len(orders) <= Len(orders')
  <2>1. CASE Len(orders) < MaxOrders /\ Sent("kill", s, pos[s].id, pos[s].size)
    <3>1. IsPosition(pos[s])
      BY <1>1, PositionFields DEF Typed, PositionsTyped
    <3>2. pos[s].id \in {0} \cup Positions /\ pos[s].size \in Nat /\ "kill" \in Stages \cup {"entry", "kill"}
      BY <3>1 DEF IsPosition
    <3> HIDE DEF s
    <3>3. OrdersTyped' /\ Len(orders') = Len(orders) + 1
      BY <1>1, <2>1, <3>2, SentTyped
    <3>4. QED
      BY <1>1, <3>3
  <2>2. CASE UNCHANGED orders
    BY <2>2, OrdersKept
  <2>3. QED
    BY <2>1, <2>2 DEF KillCloses
<1>3. ThreadsTyped'
  <2>1. PICK b \in BOOLEAN, left \in SUBSET Symbol, pc \in {"flat", "cancel"} :
          OnlyThread("kill", [thread["kill"] EXCEPT !.todo = left, !.ok = @ /\ b, !.pc = pc])
    <3> DEFINE left == thread["kill"].todo \ {s}
               pc == IF left = {} THEN "flat" ELSE "cancel"
    <3>1. PICK b \in BOOLEAN : thread' = [thread EXCEPT !["kill"].todo = left, !["kill"].ok = @ /\ b, !["kill"].pc = pc]
      BY DEF KillCloses
    <3>2. left \in SUBSET Symbol /\ pc \in {"flat", "cancel"}
      BY <1>1 DEF IsLocal
    <3> HIDE DEF left, pc
    <3>3. OnlyThread("kill", [thread["kill"] EXCEPT !.todo = left, !.ok = @ /\ b, !.pc = pc])
      BY <1>1, <3>1 DEF OnlyThread, Typed, ThreadsTyped
    <3>4. QED
      BY <3>2, <3>3
  <2>2. pc \in Steps /\ pc \notin Managing
    BY DEF Steps, Managing
  <2> DEFINE m == [thread["kill"] EXCEPT !.todo = left, !.ok = @ /\ b, !.pc = pc]
  <2>3. PICK ok \in BOOLEAN : m = [thread["kill"] EXCEPT !.todo = left, !.ok = ok, !.pc = pc]
    BY <1>1, <2>1 DEF IsLocal
  <2>4. OnlyThread("kill", m)
    BY <2>1
  <2> HIDE DEF m
  <2>5. m \in Local
    BY <1>1, <2>2, <2>3, Writes
  <2>6. m.order = thread["kill"].order /\ m.pc = pc
    BY <1>1, <2>3 DEF IsLocal
  <2>7. Located(m, Len(orders'))
    BY <1>1, <1>2, <2>2, <2>6 DEF Located, IsLocal
  <2>8. QED
    BY <1>1, <1>2, <2>4, <2>5, <2>7, ThreadsKept, LocalFields DEF Typed, OrdersTyped
<1>4. StoreTyped' /\ PositionsTyped'
  BY <1>2, StoreKept, PositionsKept DEF KillCloses, Typed, StoreTyped
<1>5. QED
  BY <1>2, <1>3, <1>4 DEF Typed

\* An order never executes more than it asked for, and a reduce-only one never more than
\* the position has.
LEMMA OrderExecutesTyped ==
  ASSUME Typed, NEW k \in DOMAIN orders, OrderExecutes(k) PROVE Typed'
<1> DEFINE s == orders[k].sym
<1>1. IsOrder(orders[k]) /\ s \in Symbol /\ Len(orders) \in Nat /\ IsPosition(pos[s]) /\ MaxPositions \in Nat
  BY OrderFields, PositionFields, PositionAssumption DEF Typed, OrdersTyped, PositionsTyped, IsOrder
<1>2. ASSUME NEW o \in Order, o.exec <= o.qty, orders' = [orders EXCEPT ![k] = o]
      PROVE  OrdersTyped' /\ Len(orders') = Len(orders)
  <2>1. orders' \in Seq(Order) /\ Len(orders') = Len(orders) /\ DOMAIN orders' = DOMAIN orders
    BY <1>2 DEF Typed, OrdersTyped
  <2>2. \A i \in DOMAIN orders : orders'[i] = orders[i] \/ orders'[i] = o
    BY <1>2 DEF Typed, OrdersTyped
  <2>3. QED
    BY <1>2, <2>1, <2>2 DEF Typed, OrdersTyped
<1>3. ASSUME orders' = [orders EXCEPT ![k].state = "cancelled"] /\ UNCHANGED <<pos, opened>>
      PROVE  OrdersTyped' /\ PositionsTyped' /\ Len(orders') = Len(orders)
  <2> DEFINE o == [orders[k] EXCEPT !.state = "cancelled"]
  <2>1. o \in Order /\ o.exec = orders[k].exec /\ o.qty = orders[k].qty
    BY <1>1, OrderFields DEF IsOrder, Order
  <2>2. orders[k].exec <= orders[k].qty /\ orders' = [orders EXCEPT ![k] = o]
    BY <1>3 DEF Typed, OrdersTyped
  <2> HIDE DEF o
  <2>3. QED
    BY <1>2, <1>3, <2>1, <2>2, PositionsKept
<1> DEFINE entry == orders[k].kind = "entry"
           full == IF entry THEN orders[k].qty ELSE Min({orders[k].qty, pos[s].size})
           fresh == entry /\ pos[s].size = 0
           id == IF fresh THEN opened + 1 ELSE pos[s].id
           Size(e) == IF entry THEN pos[s].size + e ELSE pos[s].size - e
<1>4. ASSUME full > 0, entry => opened < MaxPositions, NEW exec \in {full, 1},
             orders' = [orders EXCEPT ![k].exec = exec, ![k].on = id,
                                      ![k].state = IF exec = orders[k].qty THEN "filled" ELSE "partial"],
             opened' = IF fresh THEN id ELSE opened,
             NEW p, pos' = [pos EXCEPT ![s] = p],
             NEW size, size = Size(exec),
             \/ p = NoPosition
             \/ fresh /\ p = [id |-> id, size |-> size, stop |-> "initial", trail |-> FALSE]
             \/ ~fresh /\ p = [pos[s] EXCEPT !.size = size]
      PROVE  OrdersTyped' /\ PositionsTyped' /\ Len(orders') = Len(orders)
  <2> DEFINE o == [orders[k] EXCEPT !.exec = exec, !.on = id,
                                    !.state = IF exec = orders[k].qty THEN "filled" ELSE "partial"]
  <2>1. orders[k].qty \in Nat /\ pos[s].size \in Nat /\ full \in Nat /\ full <= orders[k].qty
        /\ (~entry => full <= pos[s].size)
    BY <1>1, MinTwo DEF IsOrder, IsPosition
  <2>2. exec \in Nat /\ exec > 0 /\ exec <= orders[k].qty /\ (~entry => exec <= pos[s].size)
    BY <1>4, <2>1
  <2>3. size \in Nat /\ (fresh => size > 0)
    BY <1>4, <2>1, <2>2
  <2>4. id \in {0} \cup Positions /\ (fresh => id \in Positions) /\ (~fresh => id = pos[s].id)
        /\ opened' \in {0} \cup Positions
    BY <1>1, <1>4 DEF IsPosition, Positions, Typed, PositionsTyped
  <2>5. ~fresh /\ size > 0 => pos[s].id \in Positions
    BY <1>1, <1>4, <2>1, <2>2 DEF IsPosition, Typed, PositionsTyped
  <2> HIDE DEF fresh, id, full
  <2>6. OrdersTyped' /\ Len(orders') = Len(orders)
    <3>1. (IF exec = orders[k].qty THEN "filled" ELSE "partial") \in {"live", "filled", "partial", "cancelled"}
      OBVIOUS
    <3>2. PICK st \in {"live", "filled", "partial", "cancelled"} :
             st = IF exec = orders[k].qty THEN "filled" ELSE "partial"
      BY <3>1
    <3>3. o = [orders[k] EXCEPT !.exec = exec, !.on = id, !.state = st] /\ orders' = [orders EXCEPT ![k] = o]
      BY <1>4, <3>2 DEF Typed, OrdersTyped
    <3> HIDE DEF o
    <3>4. o = [f \in DOMAIN o |-> o[f]] /\ DOMAIN o = DOMAIN orders[k]
      BY <1>1, <3>3 DEF IsOrder
    <3>5. /\ o.kind = orders[k].kind /\ o.sym = s /\ o.for = orders[k].for /\ o.qty = orders[k].qty
          /\ o.recorded = orders[k].recorded /\ o.exec = exec /\ o.on = id /\ o.state = st
      BY <1>1, <3>3 DEF IsOrder
    <3>6. IsOrder(o)
      BY <1>1, <2>2, <2>4, <3>2, <3>4, <3>5 DEF IsOrder
    <3>7. QED
      BY <1>2, <2>2, <3>3, <3>6, <3>5, OrderFields
  <2>7. p \in Position /\ (p.size > 0 => p.id \in Positions)
    <3>1. CASE p = NoPosition
      BY <3>1 DEF NoPosition, Position
    <3>2. CASE fresh /\ p = [id |-> id, size |-> size, stop |-> "initial", trail |-> FALSE]
      BY <2>3, <2>4, <3>2 DEF Position
    <3>3. CASE ~fresh /\ p = [pos[s] EXCEPT !.size = size]
      BY <1>1, <2>3, <2>5, <3>3, PositionFields DEF IsPosition
    <3>4. QED
      BY <1>4, <3>1, <3>2, <3>3
  <2>8. PositionsTyped'
    BY <1>1, <1>4, <2>4, <2>7 DEF Typed, PositionsTyped
  <2>9. QED
    BY <2>6, <2>8
<1>5. ASSUME ~(orders' = [orders EXCEPT ![k].state = "cancelled"] /\ UNCHANGED <<pos, opened>>)
      PROVE  OrdersTyped' /\ PositionsTyped' /\ Len(orders') = Len(orders)
  <2>1. PICK exec \in {full} \cup {1} :
          LET size == IF entry THEN pos[s].size + exec ELSE pos[s].size - exec IN
          /\ full > 0 /\ (entry => opened < MaxPositions)
          /\ orders' = [orders EXCEPT ![k].exec = exec, ![k].on = id,
                                      ![k].state = IF exec = orders[k].qty THEN "filled" ELSE "partial"]
          /\ opened' = IF fresh THEN id ELSE opened
          /\ \E p :
               /\ pos' = [pos EXCEPT ![s] = p]
               /\ \/ p = NoPosition
                  \/ fresh /\ p = [id |-> id, size |-> size, stop |-> "initial", trail |-> FALSE]
                  \/ ~fresh /\ p = [pos[s] EXCEPT !.size = size]
    BY <1>5 DEF OrderExecutes
  <2>2. QED
    BY <1>4, <2>1
<1>6. OrdersTyped' /\ PositionsTyped' /\ Len(orders') = Len(orders)
  BY <1>3, <1>5
<1> HIDE DEF s
<1>7. Len(orders') \in Nat /\ Len(orders) <= Len(orders')
  BY <1>1, <1>6
<1>8. killed' = killed /\ UNCHANGED <<durable, memory, thread, deployment>>
  BY DEF OrderExecutes
<1>9. killed' \in BOOLEAN
  BY <1>8 DEF Typed, StoreTyped
<1>10. StoreTyped' /\ ThreadsTyped'
  BY <1>6, <1>7, <1>8, <1>9, StoreKept DEF Typed, ThreadsTyped
<1>11. QED
  BY <1>6, <1>10 DEF Typed

\* Node, the protection of a position, the clock and a restart.
LEMMA EnvironmentTyped ==
  ASSUME Typed, (\E s \in Symbol : NodeOpens(s) \/ ProtectionHits(s)) \/ NextCandle \/ Restart \/ JournalForgets
  PROVE  Typed'
<1>1. OrdersTyped' /\ Len(orders') \in Nat /\ Len(orders) <= Len(orders') /\ orders' = orders
  BY OrdersKept DEF NodeOpens, ProtectionHits, NextCandle, Restart, JournalForgets, exchange
<1>2. PositionsTyped'
  <2>1. CASE UNCHANGED <<pos, opened>>
    BY <2>1, PositionsKept
  <2>2. ASSUME NEW s \in Symbol, NodeOpens(s) PROVE PositionsTyped'
    <3>1. opened + 1 \in Positions /\ EntrySize \in Nat
      BY <2>2, PositionAssumption DEF NodeOpens, Positions, Typed, PositionsTyped
    <3>2. [id |-> opened + 1, size |-> EntrySize, stop |-> "initial", trail |-> FALSE] \in Position
      BY <3>1 DEF Position
    <3>3. QED
      BY <2>2, <3>1, <3>2 DEF NodeOpens, Typed, PositionsTyped
  <2>3. ASSUME NEW s \in Symbol, ProtectionHits(s) PROVE PositionsTyped'
    <3>1. NoPosition \in Position /\ NoPosition.size = 0
      BY DEF NoPosition, Position
    <3>2. QED
      BY <2>3, <3>1 DEF ProtectionHits, Typed, PositionsTyped
  <2>4. QED
    BY <2>1, <2>2, <2>3 DEF NextCandle, Restart, JournalForgets, exchange
<1>3. ThreadsTyped'
  <2>1. CASE thread' = thread
    BY <1>1, <2>1 DEF Typed, ThreadsTyped
  <2>2. CASE thread' = [t \in Thread |-> Idle]
    <3>1. Idle \in Local /\ Idle.order = 0 /\ Idle.pc = "idle"
      BY IdleTyped DEF Idle
    <3>2. Located(Idle, Len(orders'))
      BY <1>1, <3>1 DEF Located, Managing
    <3>3. QED
      BY <2>2, <3>1, <3>2 DEF ThreadsTyped
  <2>3. QED
    BY <2>1, <2>2 DEF NodeOpens, ProtectionHits, NextCandle, Restart, JournalForgets
<1>4. NoPartial \in [order : 0..Len(orders), size : Nat]
  BY <1>1 DEF NoPartial
<1>9. /\ journal' \cup unread' \subseteq (Stages \cup {"trail"}) \X Positions
      /\ forgotten' \subseteq Positions
  BY DEF NodeOpens, ProtectionHits, NextCandle, Restart, JournalForgets, durable, Typed, StoreTyped
<1>5. plan' = plan /\ pendEntry' = pendEntry /\ pendPartial' \in {pendPartial, NoPartial}
  BY DEF NodeOpens, ProtectionHits, NextCandle, Restart, JournalForgets, durable, memory
<1>6. seen' \in {seen, FALSE} /\ enabled' \in {enabled, FALSE} /\ loop' \in {loop, TRUE} /\ killed' \in {killed, FALSE}
      /\ deployment' = deployment
  BY DEF NodeOpens, ProtectionHits, NextCandle, Restart, JournalForgets, durable, memory
<1>7. StoreTyped'
  BY <1>1, <1>4, <1>5, <1>6, <1>9 DEF Typed, StoreTyped
<1>8. QED
  BY <1>1, <1>2, <1>3, <1>7 DEF Typed

\* The start.
LEMMA InitTyped == ASSUME Init PROVE Typed
<1>1. orders \in Seq(Order) /\ Len(orders) = 0 /\ DOMAIN orders = {}
  BY DEF Init
<1>2. OrdersTyped
  BY <1>1, PositionAssumption DEF OrdersTyped
<1>3. PositionsTyped
  BY DEF Init, PositionsTyped, NoPosition, Position
<1>4. ThreadsTyped
  <2>1. Idle \in Local /\ Idle.order = 0 /\ Idle.pc = "idle"
    BY IdleTyped DEF Idle
  <2>2. Located(Idle, Len(orders))
    BY <1>1, <2>1 DEF Located, Managing
  <2>3. QED
    BY <2>1, <2>2 DEF Init, ThreadsTyped
<1>5. NoPartial \in [order : 0..Len(orders), size : Nat]
  BY <1>1 DEF NoPartial
<1>6. plan \in [Positions -> Nat] /\ {seen, enabled, loop, killed} \subseteq BOOLEAN
  BY DEF Init
<1>7. StoreTyped
  BY <1>1, <1>5, <1>6 DEF Init, StoreTyped
<1>8. QED
  BY <1>2, <1>3, <1>4, <1>7 DEF Typed

\* Every step keeps the types.
LEMMA TypedStep == ASSUME Typed, [Next]_vars PROVE Typed'
<1>1. CASE UNCHANGED vars
  BY <1>1 DEF vars, exchange, durable, memory, Typed, ThreadsTyped, PositionsTyped, OrdersTyped,
     StoreTyped
<1>2. CASE Next
  BY <1>2, ManageGateTyped, FetchPositionsTyped, DecideTyped, ClosePartialTyped, VerifyPartialTyped,
     RecordStageTyped, SteppedAside, GuardTyped, PlaceEntryTyped, FinalizeTyped, SimpleTyped,
     BookSignalTyped, StartStopTyped, KillRequestedTyped, KillFindsTyped, KillCancelsTyped,
     KillClosesTyped, OrderExecutesTyped, EnvironmentTyped
  DEF Next, Manage
<1>3. QED
  BY <1>1, <1>2

\* They are those of the type invariant.
LEMMA TypedIsTypeOK == Typed => TypeOK
<1>1. ASSUME Typed PROVE \A k \in DOMAIN orders : orders[k] \in Order /\ orders[k].exec <= orders[k].qty
  BY <1>1 DEF Typed, OrdersTyped
<1>2. QED
  BY <1>1 DEF Typed, ThreadsTyped, PositionsTyped, OrdersTyped, StoreTyped, TypeOK

\* The variables keep their types: no thread, order or journal entry names a
\* position, an order or a symbol that was never there.
THEOREM TypeCorrect == Spec => []TypeOK
<1>1. Init => Typed
  BY InitTyped
<1>2. Typed /\ [Next]_vars => Typed'
  BY TypedStep
<1>3. QED
  BY <1>1, <1>2, TypedIsTypeOK, PTL DEF Spec

-----------------------------------------------------------------------------
(* The kill switch *)

\* No entry order is live, and nobody is about to send or to finalise one.
EntriesEnded == \A k \in DOMAIN orders : orders[k].kind = "entry" => orders[k].state # "live"
Placing == {"place", "finalize"}
NobodyPlaces == thread["manual"].pc = "idle" /\ \A t \in Thread : thread[t].pc \notin Placing

\* What a switch that succeeded with no entry under way leaves behind.
Quiet == killed => ~enabled /\ EntriesEnded /\ NobodyPlaces /\ OpenSymbols = {}

\* The condition under which the switch notes its success, in two parts.
LEMMA UnderWay == NoEntryUnderWay <=> ~enabled /\ EntriesEnded /\ NobodyPlaces
  BY DEF NoEntryUnderWay, EntriesEnded, NobodyPlaces, Placing, At

\* A step of one thread that does not lead it to placing an entry.
LEMMA PlacesNothing ==
  ASSUME Typed, NobodyPlaces, NEW t \in Thread \ {"manual"},
         \A u \in Thread \ {t} : thread'[u] = thread[u], thread'[t].pc \notin Placing
  PROVE  NobodyPlaces'
  BY DEF NobodyPlaces, Thread

\* Nothing changes what an order was sent for, and none comes back to life.
LEMMA StayEnded ==
  ASSUME EntriesEnded, DOMAIN orders' = DOMAIN orders,
         \A k \in DOMAIN orders : orders'[k].kind = orders[k].kind
                                  /\ (orders'[k].state = "live" => orders[k].state = "live")
  PROVE  EntriesEnded'
  BY DEF EntriesEnded

\* A reduce-only order is no entry.
LEMMA SentEnded ==
  ASSUME Typed, EntriesEnded, NEW kind, kind # "entry", NEW s, NEW for, NEW qty, Sent(kind, s, for, qty)
  PROVE  EntriesEnded'
<1> DEFINE o == [kind |-> kind, sym |-> s, for |-> for, on |-> 0, qty |-> qty, exec |-> 0,
                 state |-> "live", recorded |-> FALSE]
<1>1. orders' = Append(orders, o) /\ o.kind # "entry"
  BY DEF Sent
<1> HIDE DEF o
<1>2. \A k \in DOMAIN orders' : orders'[k] = o \/ (k \in DOMAIN orders /\ orders'[k] = orders[k])
  BY <1>1 DEF Typed, OrdersTyped
<1>3. QED
  BY <1>1, <1>2 DEF EntriesEnded

\* Where the common ways to go on lead a thread.
Leads(t, steps) ==
  (\A u \in Thread \ {t} : thread'[u] = thread[u]) /\ thread'[t].pc \in steps

\* They lead to no other step.
LEMMA LeadsOn ==
  ASSUME Typed, NEW t \in Thread
  PROVE  /\ End(t) => Leads(t, {"idle"})
         /\ PassEnds(t) => Leads(t, {"idle", "signal"})
         /\ NextSymbol(t) => Leads(t, {"next"})
         /\ \A s : Goto(t, s) => Leads(t, {s})
<1>1. IsLocal(thread[t])
  BY ThreadKnown
<1>2. End(t) => Leads(t, {"idle"})
  BY DEF Leads, End, Idle, Typed, ThreadsTyped
<1>3. PassEnds(t) => Leads(t, {"idle", "signal"})
  <2>1. CASE t = "tick"
    <3> DEFINE m == [Idle EXCEPT !.pc = "signal", !.current = thread[t].current]
    <3>1. m.pc = "signal"
      BY DEF Idle
    <3>2. PassEnds(t) => thread' = [thread EXCEPT ![t] = m]
      BY <2>1 DEF PassEnds
    <3> HIDE DEF m
    <3>3. QED
      BY <3>1, <3>2 DEF Leads, Typed, ThreadsTyped
  <2>2. CASE t # "tick"
    BY <1>2, <2>2 DEF PassEnds, Leads
  <2>3. QED
    BY <2>1, <2>2
<1>4. NextSymbol(t) => Leads(t, {"next"})
  <2> DEFINE m == [thread[t] EXCEPT !.pc = "next", !.todo = @ \ {thread[t].sym}, !.view[thread[t].sym] = NoView,
                                    !.stage = "tp1", !.order = 0, !.ok = TRUE]
  <2>1. m.pc = "next"
    BY <1>1 DEF IsLocal
  <2>2. NextSymbol(t) => thread' = [thread EXCEPT ![t] = m]
    BY DEF NextSymbol
  <2> HIDE DEF m
  <2>3. QED
    BY <2>1, <2>2 DEF Leads, Typed, ThreadsTyped
<1>5. ASSUME NEW s, Goto(t, s) PROVE Leads(t, {s})
  BY <1>1, <1>5 DEF Goto, Leads, IsLocal, Typed, ThreadsTyped
<1>6. QED
  BY <1>2, <1>3, <1>4, <1>5

\* A pass never places an entry, and it leaves the switch and the bot's enabling alone.
LEMMA ManageQuiet == ASSUME Typed, Quiet, NEW t \in {"tick", "manage"}, Manage(t) PROVE Quiet'
<1>1. t \in Thread \ {"manual"} /\ IsLocal(thread[t])
  BY ThreadKnown DEF Thread
<1>2. (\A u \in Thread \ {t} : thread'[u] = thread[u]) /\ thread'[t].pc \notin Placing
  <2>1. CASE ManageGate(t) \/ FetchPositions(t) \/ PassOver(t)
    <3>1. CASE PassEnds(t) \/ Goto(t, "fetch")
      BY <1>1, <3>1, LeadsOn DEF Leads, Placing
    <3>2. CASE FetchPositions(t) /\ ~PassEnds(t)
      BY <1>1, <3>2 DEF FetchPositions, Placing, IsLocal, Typed, ThreadsTyped
    <3>3. QED
      BY <2>1, <3>1, <3>2 DEF ManageGate, PassOver
  <2>2. CASE Decide(t)
    BY <1>1, <2>2 DEF Decide, At, Placing, IsLocal, Typed, ThreadsTyped
  <2>3. CASE ClosePartial(t)
    BY <1>1, <2>3 DEF ClosePartial, Placing, IsLocal, Typed, ThreadsTyped
  <2>4. CASE VerifyPartial(t)
    BY <1>1, <2>4 DEF VerifyPartial, Placing, IsLocal, Typed, ThreadsTyped
  <2>5. CASE PollReduced(t)
    BY <1>1, <2>5 DEF PollReduced, Placing, IsLocal, Typed, ThreadsTyped
  <2>6. CASE RecordStage(t)
    <3>1. End(t) \/ NextSymbol(t) \/ Goto(t, "breakeven") \/ Goto(t, "trail")
      BY <2>6 DEF RecordStage, Raise, Goto
    <3>2. QED
      BY <1>1, <3>1, LeadsOn DEF Leads, Placing
  <2>7. CASE Breakeven(t) \/ SetTrailing(t) \/ RecordTrailing(t)
    <3>1. End(t) \/ NextSymbol(t) \/ Goto(t, "recordTrail")
      BY <2>7 DEF Breakeven, SetTrailing, RecordTrailing, Raise
    <3>2. QED
      BY <1>1, <3>1, LeadsOn DEF Leads, Placing
  <2>8. QED
    BY <2>1, <2>2, <2>3, <2>4, <2>5, <2>6, <2>7 DEF Manage
<1>3. EntriesEnded => EntriesEnded'
  <2>1. CASE ClosePartial(t)
    <3>1. thread[t].stage # "entry"
      BY <1>1 DEF IsLocal, Stages
    <3>2. CASE UNCHANGED orders
      BY <3>2 DEF EntriesEnded
    <3>3. CASE ~UNCHANGED orders
      <4>1. PICK s, v, qty : Sent(thread[t].stage, s, v, qty)
        BY <2>1, <3>3 DEF ClosePartial
      <4>2. QED
        BY <3>1, <4>1, SentEnded
    <3>4. QED
      BY <3>2, <3>3
  <2>2. CASE RecordStage(t)
    <3>1. orders' = orders \/ orders' = [orders EXCEPT ![thread[t].order].recorded = TRUE]
      BY <2>2 DEF RecordStage
    <3>2. DOMAIN orders' = DOMAIN orders
      BY <3>1 DEF Typed, OrdersTyped
    <3>3. ASSUME NEW k \in DOMAIN orders PROVE orders'[k].kind = orders[k].kind /\ orders'[k].state = orders[k].state
      <4>1. IsOrder(orders[k])
        BY OrderFields DEF Typed, OrdersTyped
      <4>2. orders'[k] = orders[k] \/ orders'[k] = [orders[k] EXCEPT !.recorded = TRUE]
        BY <3>1 DEF Typed, OrdersTyped
      <4>3. QED
        BY <4>1, <4>2 DEF IsOrder
    <3>4. QED
      BY <3>2, <3>3, StayEnded
  <2>3. CASE ~ClosePartial(t) /\ ~RecordStage(t)
    BY <2>3 DEF Manage, ManageGate, FetchPositions, Decide, PassOver, VerifyPartial, PollReduced,
       Breakeven, SetTrailing, RecordTrailing,
                exchange, EntriesEnded
  <2>4. QED
    BY <2>1, <2>2, <2>3
<1>4. OpenSymbols' = OpenSymbols
  <2>1. CASE pos' = pos
    BY <2>1 DEF OpenSymbols
  <2>2. CASE pos' # pos
    <3>1. ASSUME NEW y \in Symbol PROVE pos'[y].size = pos[y].size
      <4>1. IsPosition(pos[y])
        BY PositionFields DEF Typed, PositionsTyped
      <4>2. PICK s, b, x : pos' = [pos EXCEPT ![s].stop = x] \/ pos' = [pos EXCEPT ![s].trail = b]
        BY <2>2 DEF Manage, ManageGate, FetchPositions, Decide, PassOver, ClosePartial,
           VerifyPartial, PollReduced, RecordStage,
                    Breakeven, SetTrailing, RecordTrailing, exchange
      <4>3. QED
        BY <4>1, <4>2 DEF IsPosition, Typed, PositionsTyped
    <3>2. QED
      BY <3>1 DEF OpenSymbols
  <2>3. QED
    BY <2>1, <2>2
<1>5. killed' = killed /\ enabled' = enabled
  BY DEF Manage, ManageGate, FetchPositions, Decide, PassOver, ClosePartial, VerifyPartial,
     PollReduced, RecordStage, Breakeven,
         SetTrailing, RecordTrailing, memory
<1>6. QED
  BY <1>1, <1>2, <1>3, <1>4, <1>5, PlacesNothing DEF Quiet

\* The tick's entry path: without the bot enabled it ends before it places.
LEMMA TickQuiet ==
  ASSUME Typed, Quiet,
         \/ TickBegins \/ ManageRequested \/ SelectSignal \/ ExecuteGuard \/ BookSignal \/ PositionGuard("tick")
  PROVE  Quiet'
<1>1. {"tick", "manage"} \subseteq Thread \ {"manual"} /\ IsLocal(thread["tick"]) /\ IsLocal(thread["manage"])
  BY ThreadKnown DEF Thread
<1>2. ASSUME ~enabled
      PROVE  \E t \in {"tick", "manage"} :
               (\A u \in Thread \ {t} : thread'[u] = thread[u]) /\ thread'[t].pc \notin Placing
  <2>1. CASE TickBegins \/ ManageRequested
    BY <1>1, <2>1 DEF TickBegins, ManageRequested, Begin, Placing, IsLocal, Typed, ThreadsTyped
  <2>2. CASE SelectSignal \/ ExecuteGuard
    BY <1>1, <1>2, <2>2 DEF SelectSignal, ExecuteGuard, Goto, End, Idle, Placing, IsLocal, Typed,
       ThreadsTyped
  <2>3. CASE BookSignal
    BY <1>1, <2>3 DEF BookSignal, Raise, End, Idle, Placing, Typed, ThreadsTyped
  <2>4. CASE PositionGuard("tick")
    <3>1. End("tick") \/ \E s : thread' = [thread EXCEPT !["tick"].pc = "current", !["tick"].sym = s]
      BY <2>4 DEF PositionGuard
    <3>2. QED
      BY <1>1, <3>1 DEF End, Idle, Placing, IsLocal, Typed, ThreadsTyped
  <2>5. QED
    BY <2>1, <2>2, <2>3, <2>4
<1>3. /\ orders' = orders /\ pos' = pos /\ killed' = killed /\ (~enabled => ~enabled')
  <2>1. orders' = orders /\ pos' = pos /\ killed' = killed
    BY DEF TickBegins, ManageRequested, SelectSignal, ExecuteGuard, BookSignal, PositionGuard, exchange
  <2>2. enabled' = enabled \/ enabled' = (enabled /\ thread["tick"].order = 0)
    BY DEF TickBegins, ManageRequested, SelectSignal, ExecuteGuard, BookSignal, PositionGuard, memory
  <2>3. ~enabled => ~enabled'
    BY <2>2
  <2>4. QED
    BY <2>1, <2>3
<1>4. OpenSymbols' = OpenSymbols /\ (EntriesEnded => EntriesEnded')
  BY <1>3 DEF OpenSymbols, EntriesEnded
<1>5. QED
  BY <1>1, <1>2, <1>3, <1>4, PlacesNothing DEF Quiet

\* Nobody is at the steps that place an entry; a manual order and a start take
\* back what the switch promised.
LEMMA EntryQuiet ==
  ASSUME Typed, Quiet, NEW t \in {"tick", "manual"},
         \/ ManualRequested \/ StartBot \/ PlaceEntry(t) \/ FinalizeEntry(t) \/ PositionGuard("manual")
  PROVE  Quiet'
<1>1. t \in Thread
  BY DEF Thread
<1>2. ~killed'
  <2>1. CASE ManualRequested \/ StartBot
    BY <2>1 DEF ManualRequested, StartBot
  <2>2. CASE PlaceEntry(t) \/ FinalizeEntry(t) \/ PositionGuard("manual")
    BY <1>1, <2>2 DEF PlaceEntry, FinalizeEntry, PositionGuard, At, Quiet, NobodyPlaces, Placing
  <2>3. QED
    BY <2>1, <2>2
<1>3. QED
  BY <1>2 DEF Quiet

\* The switch answers: with success only over a flat account.
LEMMA AnswersQuiet ==
  ASSUME Typed, NEW b \in BOOLEAN, b => OpenSymbols = {}, KillAnswers(b), UNCHANGED <<pos, orders, enabled>>
  PROVE  Quiet'
<1>1. ASSUME killed' PROVE OpenSymbols = {} /\ ~enabled /\ EntriesEnded /\ NobodyPlaces
  BY <1>1, UnderWay DEF KillAnswers
<1>2. (\A u \in Thread \ {"kill"} : thread'[u] = thread[u]) /\ thread'["kill"].pc \notin Placing /\ "kill" \in Thread \ {"manual"}
  BY DEF KillAnswers, End, Idle, Placing, Thread, Typed, ThreadsTyped
<1>3. OpenSymbols' = OpenSymbols /\ (EntriesEnded => EntriesEnded')
  BY DEF OpenSymbols, EntriesEnded
<1>4. QED
  BY <1>1, <1>2, <1>3, PlacesNothing DEF Quiet

\* Advancing the generation leaves every thread where it is.
LEMMA NewGenerationPlaces ==
  ASSUME Typed
  PROVE  LET g == NewGeneration(thread)
         IN  /\ \A u \in Thread : g[u].pc = thread[u].pc
             /\ \A u \in Thread \ {"kill"} : [g EXCEPT !["kill"].pc = "find"][u] = g[u]
             /\ [g EXCEPT !["kill"].pc = "find"]["kill"].pc = "find"
<1>1. "tick" \in Thread /\ "kill" \in Thread /\ IsLocal(thread["tick"]) /\ IsLocal(thread["kill"])
  BY ThreadKnown DEF Thread
<1>2. QED
  BY <1>1 DEF NewGeneration, IsLocal, Thread, Typed, ThreadsTyped

\* The switch: it answers with success over a flat account only.
LEMMA KillQuiet ==
  ASSUME Typed, Quiet, StopBot \/ KillRequested \/ KillFinds \/ KillCancels \/ KillCloses \/ KillVerifies
  PROVE  Quiet'
<1>1. "kill" \in Thread \ {"manual"} /\ "tick" \in Thread \ {"manual"}
      /\ IsLocal(thread["kill"]) /\ IsLocal(thread["tick"])
  BY ThreadKnown DEF Thread
<1>2. pos' = pos /\ (~enabled => ~enabled')
  <2>1. pos' = pos /\ (enabled' = enabled \/ enabled' = FALSE)
    BY DEF StopBot, KillRequested, KillFinds, KillCancels, KillCloses, KillVerifies, exchange, memory
  <2>2. QED
    BY <2>1
<1>3. OpenSymbols' = OpenSymbols
  BY <1>2 DEF OpenSymbols
<1>4. CASE KillFinds \/ KillVerifies
  <2>1. UNCHANGED <<pos, orders, enabled>> /\ thread["kill"].ok \in BOOLEAN
    BY <1>1, <1>4 DEF KillFinds, KillVerifies, exchange, memory, IsLocal
  <2>2. CASE \E b \in BOOLEAN : (b => OpenSymbols = {}) /\ KillAnswers(b)
    BY <2>1, <2>2, AnswersQuiet
  <2>3. CASE killed' = killed /\ thread' = [thread EXCEPT !["kill"].pc = "cancel", !["kill"].todo = OpenSymbols]
    <3>1. (\A u \in Thread \ {"kill"} : thread'[u] = thread[u]) /\ thread'["kill"].pc \notin Placing
      BY <1>1, <2>3 DEF Placing, IsLocal, Typed, ThreadsTyped
    <3>2. EntriesEnded => EntriesEnded'
      BY <2>1 DEF EntriesEnded
    <3>3. QED
      BY <1>1, <1>2, <1>3, <2>3, <3>1, <3>2, PlacesNothing DEF Quiet
  <2>4. QED
    BY <1>4, <2>1, <2>2, <2>3 DEF KillFinds, KillVerifies
<1>5. CASE KillCancels /\ KillAnswers(FALSE)
  BY <1>5 DEF KillAnswers, Quiet
<1>6. CASE KillCancels /\ ~KillAnswers(FALSE)
  <2>1. PICK s : /\ thread' = [thread EXCEPT !["kill"].pc = "close", !["kill"].sym = s] /\ killed' = killed
                 /\ (orders' = orders \/ orders' = CancelAll(s))
    BY <1>6 DEF KillCancels, CancelAll
  <2>2. (\A u \in Thread \ {"kill"} : thread'[u] = thread[u]) /\ thread'["kill"].pc \notin Placing
    BY <1>1, <2>1 DEF Placing, IsLocal, Typed, ThreadsTyped
  <2>3. DOMAIN orders' = DOMAIN orders
    BY <2>1 DEF CancelAll
  <2>4. ASSUME NEW k \in DOMAIN orders
        PROVE  orders'[k].kind = orders[k].kind /\ (orders'[k].state = "live" => orders[k].state = "live")
    BY <2>1, OrderFields DEF CancelAll, Typed, OrdersTyped, IsOrder
  <2>5. QED
    BY <1>1, <1>2, <1>3, <2>1, <2>2, <2>3, <2>4, StayEnded, PlacesNothing DEF Quiet
<1>7. CASE KillCloses
  <2>1. killed' = killed /\ (orders' = orders \/ \E s, id, size : Sent("kill", s, id, size))
    BY <1>7 DEF KillCloses
  <2>2. (\A u \in Thread \ {"kill"} : thread'[u] = thread[u]) /\ thread'["kill"].pc \notin Placing
    BY <1>1, <1>7 DEF KillCloses, Placing, IsLocal, Typed, ThreadsTyped
  <2>3. EntriesEnded => EntriesEnded'
    BY <2>1, SentEnded DEF EntriesEnded
  <2>4. QED
    BY <1>1, <1>2, <1>3, <2>1, <2>2, <2>3, PlacesNothing DEF Quiet
<1>8. CASE StopBot \/ KillRequested
  <2>1. killed' = killed /\ orders' = orders
    BY <1>8 DEF StopBot, KillRequested, exchange
  <2>2. \A u \in Thread : thread'[u].pc = thread[u].pc \/ (u = "kill" /\ thread'[u].pc = "find")
    BY <1>1, <1>8, NewGenerationPlaces DEF StopBot, KillRequested
  <2>3. NobodyPlaces => NobodyPlaces'
    BY <1>1, <2>2 DEF NobodyPlaces, Placing, Thread
  <2>4. QED
    BY <1>2, <1>3, <2>1, <2>3 DEF Quiet, EntriesEnded
<1>9. QED
  BY <1>4, <1>5, <1>6, <1>7, <1>8

\* The exchange: with every entry ended and no position, nothing can execute.
LEMMA ExchangeQuiet ==
  ASSUME Typed, Quiet,
         \/ \E k \in DOMAIN orders : OrderExecutes(k)
         \/ \E s \in Symbol : NodeOpens(s) \/ ProtectionHits(s)
         \/ NextCandle \/ Restart \/ JournalForgets
  PROVE  Quiet'
<1>1. ASSUME NEW k \in DOMAIN orders, OrderExecutes(k) PROVE Quiet'
  <2>1. IsOrder(orders[k]) /\ orders[k].sym \in Symbol
    BY OrderFields DEF Typed, OrdersTyped, IsOrder
  <2>2. UNCHANGED <<enabled, thread, killed>>
    BY <1>1 DEF OrderExecutes, memory
  <2>3. ASSUME killed PROVE EntriesEnded' /\ pos' = pos
    <3>1. orders[k].kind # "entry" /\ pos[orders[k].sym].size = 0
      <4>1. ~(pos[orders[k].sym].size > 0) /\ pos[orders[k].sym].size \in Nat
        BY <2>1, <2>3, PositionFields DEF Quiet, OpenSymbols, Typed, PositionsTyped, IsPosition
      <4>2. orders[k].kind # "entry"
        BY <1>1, <2>3 DEF Quiet, EntriesEnded, OrderExecutes
      <4>3. QED
        BY <4>1, <4>2
    <3>2. Min({orders[k].qty, pos[orders[k].sym].size}) = 0
      BY <2>1, <3>1, MinTwo DEF IsOrder
    <3>3. orders' = [orders EXCEPT ![k].state = "cancelled"] /\ pos' = pos
      <4>1. (orders' = [orders EXCEPT ![k].state = "cancelled"] /\ UNCHANGED <<pos, opened>>)
            \/ (IF orders[k].kind = "entry" THEN orders[k].qty
                ELSE Min({orders[k].qty, pos[orders[k].sym].size})) > 0
        BY <1>1 DEF OrderExecutes
      <4>2. QED
        BY <3>1, <3>2, <4>1
    <3>4. DOMAIN orders' = DOMAIN orders
      BY <3>3 DEF Typed, OrdersTyped
    <3>5. ASSUME NEW i \in DOMAIN orders
          PROVE orders'[i].kind = orders[i].kind /\ (orders'[i].state = "live" => orders[i].state = "live")
      BY <3>3, OrderFields DEF Typed, OrdersTyped, IsOrder
    <3>6. QED
      BY <2>3, <3>3, <3>4, <3>5, StayEnded DEF Quiet
  <2>4. QED
    BY <2>2, <2>3 DEF Quiet, NobodyPlaces, OpenSymbols
<1>2. ASSUME NEW s \in Symbol, NodeOpens(s) PROVE Quiet'
  BY <1>2 DEF NodeOpens, Quiet
<1>3. ASSUME NEW s \in Symbol, ProtectionHits(s) PROVE Quiet'
  <2>1. OpenSymbols' \subseteq OpenSymbols
    BY <1>3 DEF ProtectionHits, NoPosition, OpenSymbols, Typed, PositionsTyped
  <2>2. QED
    BY <1>3, <2>1 DEF ProtectionHits, memory, Quiet, EntriesEnded, NobodyPlaces
<1>4. CASE NextCandle \/ JournalForgets
  BY <1>4 DEF NextCandle, JournalForgets, exchange, memory, Quiet, EntriesEnded, NobodyPlaces, OpenSymbols
<1>5. CASE Restart
  BY <1>5 DEF Restart, exchange, Quiet, EntriesEnded, NobodyPlaces, OpenSymbols, Idle, Placing, Thread
<1>6. QED
  BY <1>1, <1>2, <1>3, <1>4, <1>5

\* Every step keeps it.
LEMMA QuietStep == ASSUME Typed, Quiet, [Next]_vars PROVE Quiet'
<1>1. CASE UNCHANGED vars
  BY <1>1 DEF vars, exchange, memory, Quiet, EntriesEnded, NobodyPlaces, OpenSymbols
<1>2. CASE Next
  BY <1>2, ManageQuiet, TickQuiet, EntryQuiet, KillQuiet, ExchangeQuiet DEF Next
<1>3. QED
  BY <1>1, <1>2

\* After a kill switch that succeeded with no entry under way the account stays
\* flat until the bot is started, an order is sent by hand or Node trades:
\* whatever thread the switch overtook, whatever order of the past still works.
THEOREM KillIsHeld == Spec => []KillHolds
<1>1. Init => Typed /\ Quiet
  BY InitTyped DEF Init, Quiet
<1>2. Typed /\ Quiet /\ [Next]_vars => Typed' /\ Quiet'
  BY TypedStep, QuietStep
<1>3. Typed /\ Quiet => KillHolds
  BY DEF Quiet, KillHolds
<1>4. QED
  BY <1>1, <1>2, <1>3, PTL DEF Spec

-----------------------------------------------------------------------------
(* One manager: what the staged exits leave *)

Alone == deployment.threads \cap {"tick", "manage"} # {"tick", "manage"}
Manager == IF "tick" \in deployment.threads THEN "tick" ELSE "manage"
mgr == thread[Manager]

OthersIdle == \A t \in {"tick", "manage"} : t \notin deployment.threads => thread[t].pc = "idle"

\* The order of a partial close whose result is not recorded yet; 0 is none.
Pending == {"verify", "poll", "record"}
InFlight == IF mgr.pc \in Pending THEN mgr.order ELSE 0

\* But for that order, the reductions of a position are recorded as its stages.
Accounted(i) == \A k \in Reductions(i) \ {InFlight} : orders[k].recorded /\ orders[k].for = i

\* The size of a symbol's position before that order executed.
Before(s) == pos[s].size + (IF InFlight \in Reductions(pos[s].id) THEN orders[InFlight].exec ELSE 0)

\* What is left at least of a position of this original size, by the journal.
AfterTp1(size) == IF size < 3 THEN 1 ELSE size - (size * 40) \div 100
Floor(i) ==
  IF <<"tp1", i>> \notin journal THEN plan[i]
  ELSE IF <<"tp2", i>> \notin journal THEN AfterTp1(plan[i]) ELSE Runner(plan[i])

\* An order that is live has not executed, and executes on a position that opened.
OrdersNumbered ==
  \A k \in DOMAIN orders :
    orders[k].on <= opened /\ (orders[k].state = "live" => orders[k].exec = 0 /\ ~orders[k].recorded)

\* Positions are numbered as they open; one that has not opened has no plan.
Numbered ==
  /\ \A s \in Symbol : (pos[s].id # 0 <=> pos[s].size > 0) /\ pos[s].id <= opened
  /\ \A x, y \in Symbol : pos[x].id = pos[y].id /\ pos[x].id # 0 => x = y
  /\ OrdersNumbered
  /\ \A i \in Positions : i > opened => plan[i] = 0

\* A row of the snapshot names a position of its symbol; until its own stage was
\* recorded it shows no more than there is.
Late == {"breakeven", "trail", "recordTrail"}
Row(s) ==
  \A i \in Positions : mgr.view[s].id = i =>
    /\ mgr.view[s].size > 0 /\ i <= opened
    /\ \A y \in Symbol : pos[y].id = i \/ mgr.view[y].id = i => y = s
    /\ \/ mgr.pc \in Late /\ s = mgr.sym
       \/ Accounted(i) /\ pos[s].id = i => mgr.view[s].size <= Before(s)

\* A stage is under way once, with a share of what the snapshot showed.
Share(stage, size) == Max({1, (size * ClosePct(stage)) \div 100})
StageOpen(stage, i) ==
  IF stage = "tp1" THEN <<"tp1", i>> \notin journal
  ELSE <<"tp1", i>> \in journal /\ <<"tp2", i>> \notin journal
Sends(o, v) == ~o.recorded /\ o.kind = mgr.stage /\ o.for = v.id /\ o.qty = Share(mgr.stage, v.size)
Verified == mgr.pc = "poll" \/ (mgr.pc = "record" /\ mgr.ok)
Staged ==
  /\ mgr.pc \in Pending \cup {"send"} =>
       \/ StageOpen(mgr.stage, mgr.view[mgr.sym].id)
       \/ mgr.view[mgr.sym].id \in forgotten
  /\ mgr.pc \in Pending /\ mgr.order # 0 => Sends(orders[mgr.order], mgr.view[mgr.sym])
  /\ mgr.pc = "verify" \/ Verified => mgr.order # 0
  /\ Verified => orders[mgr.order].state = "filled"

Kept ==
  \A s \in Symbol, i \in Positions :
    pos[s].id = i /\ plan[i] # 0 /\ i \notin forgotten /\ Accounted(i) => Before(s) >= Floor(i)

Rows == \A s \in Symbol : Row(s)
RunnerInv == Alone => OthersIdle /\ Numbered /\ Rows /\ Staged /\ Kept

\* Positions keep their number or close; at most one opens, with the next number.
Renumbered ==
  /\ opened' \in {opened, opened + 1}
  /\ \A s \in Symbol :
       /\ pos'[s].id # 0 <=> pos'[s].size > 0
       /\ \/ pos'[s].id \in {0, pos[s].id}
          \/ /\ opened' = opened + 1 /\ pos'[s].id = opened + 1
             /\ \A y \in Symbol \ {s} : pos'[y].id = pos[y].id

\* An order as it was, or withdrawn.
SameOrder(o, n) ==
  /\ n.kind = o.kind /\ n.on = o.on /\ n.exec = o.exec /\ n.recorded = o.recorded /\ n.for = o.for /\ n.qty = o.qty
  /\ n.state = o.state \/ (o.state = "live" /\ n.state = "cancelled")

\* The orders of the past are as they were; new ones have not executed.
SameBook ==
  /\ DOMAIN orders \subseteq DOMAIN orders'
  /\ \A k \in DOMAIN orders : SameOrder(orders[k], orders'[k])
  /\ \A k \in DOMAIN orders' \ DOMAIN orders : orders'[k].exec = 0 /\ ~orders'[k].recorded /\ orders'[k].on = 0

\* A position is as large as it was, gone, or new.
SamePositions ==
  \A s \in Symbol :
    pos'[s].id \in {0, opened + 1} \/ (pos'[s].id = pos[s].id /\ pos'[s].size = pos[s].size)

\* What a position whose reductions are accounted for is after a step, it was before:
\* the step opened it, or it was accounted for and no larger.
Grow(s, i) ==
  pos'[s].id = i /\ Accounted(i)' =>
    \/ i > opened
    \/ pos[s].id = i /\ Accounted(i) /\ Before(s) \in Nat /\ Before(s)' \in Nat /\ Before(s)' >= Before(s)

Grows == \A s \in Symbol, i \in Positions : Grow(s, i)

\* A manager's snapshot keeps its rows or drops them; the row whose stage was
\* recorded is dropped before the pass goes on.
Watch(m, n) ==
  \A s \in Symbol : \/ n.view[s] = NoView
                    \/ /\ n.view[s] = m.view[s]
                       /\ m.pc \in Late /\ s = m.sym => n.pc \in Late /\ s = n.sym

\* A manager where it was: only its tick may have become stale.
SameStage(m, n) ==
  n.pc = m.pc /\ n.sym = m.sym /\ n.view = m.view /\ n.stage = m.stage /\ n.order = m.order /\ n.ok = m.ok

\* What the type invariant says of the manager.
LEMMA ManagerKnown ==
  ASSUME Typed
  PROVE  /\ Manager \in {"tick", "manage"} /\ Manager \in Thread /\ IsLocal(mgr) /\ Located(mgr, Len(orders))
         /\ \A s \in Symbol : IsView(mgr.view[s])
         /\ InFlight \in Nat /\ (InFlight # 0 => InFlight \in DOMAIN orders /\ mgr.pc \in Pending /\ InFlight = mgr.order)
         /\ (mgr.order # 0 => mgr.order \in DOMAIN orders)
<1>1. Manager \in {"tick", "manage"} /\ Manager \in Thread
  BY DEF Manager, Thread
<1>2. IsLocal(mgr) /\ Located(mgr, Len(orders)) /\ \A s \in Symbol : IsView(mgr.view[s])
  BY <1>1, ThreadKnown DEF mgr
<1>3. mgr.order \in Nat /\ mgr.order <= Len(orders) /\ DOMAIN orders = 1..Len(orders) /\ Len(orders) \in Nat
  BY <1>2, PositionAssumption DEF IsLocal, Located, Typed, OrdersTyped
<1>4. QED
  BY <1>1, <1>2, <1>3 DEF InFlight

\* What the type invariant says of the orders and the positions.
LEMMA BookKnown ==
  ASSUME Typed
  PROVE  /\ DOMAIN orders = 1..Len(orders) /\ Len(orders) \in Nat /\ 0 \notin DOMAIN orders
         /\ \A k \in DOMAIN orders : IsOrder(orders[k]) /\ orders[k].exec <= orders[k].qty
         /\ \A s \in Symbol : IsPosition(pos[s])
         /\ opened \in Nat /\ (opened = 0 \/ opened \in Positions)
         /\ plan \in [Positions -> Nat]
  BY OrderFields, PositionFields, PositionAssumption DEF Typed, OrdersTyped, PositionsTyped, StoreTyped, Positions

\* The size before the order in flight executed is a number.
LEMMA BeforeNat == ASSUME Typed, NEW s \in Symbol PROVE Before(s) \in Nat
<1>1. IsPosition(pos[s]) /\ \A k \in DOMAIN orders : orders[k].exec \in Nat
  BY BookKnown DEF IsOrder
<1>2. InFlight \in Reductions(pos[s].id) => InFlight \in DOMAIN orders
  BY DEF Reductions
<1>3. QED
  BY <1>1, <1>2 DEF Before, IsPosition

\* New and withdrawn orders keep the numbering.
LEMMA BookNumbered == ASSUME Typed, OrdersNumbered, Renumbered, SameBook PROVE OrdersNumbered'
<1>1. opened \in Nat /\ opened' \in Nat /\ opened <= opened'
  BY BookKnown DEF Renumbered
<1>2. ASSUME NEW k \in DOMAIN orders'
      PROVE  orders'[k].on <= opened' /\ (orders'[k].state = "live" => orders'[k].exec = 0 /\ ~orders'[k].recorded)
  <2>1. CASE k \in DOMAIN orders
    <3>1. IsOrder(orders[k])
      BY <2>1, BookKnown
    <3>2. orders[k].on \in Nat
      BY <3>1 DEF IsOrder, Positions
    <3>3. QED
      BY <1>1, <2>1, <3>2 DEF SameBook, SameOrder, OrdersNumbered
  <2>2. CASE k \notin DOMAIN orders
    BY <1>1, <1>2, <2>2 DEF SameBook
  <2>3. QED
    BY <2>1, <2>2
<1>3. QED
  BY <1>2 DEF OrdersNumbered

\* So do positions that keep their number.
LEMMA NumberedKept ==
  ASSUME Typed, Typed', Numbered, Renumbered, OrdersNumbered', plan' = plan
  PROVE  Numbered'
<1>1. opened \in Nat /\ opened' \in Nat /\ opened <= opened'
  BY BookKnown DEF Renumbered
<1>2. \A s \in Symbol : pos'[s].id \in Nat /\ pos[s].id \in Nat
  BY DEF Typed, PositionsTyped, Position, Positions
<1>3. \A s \in Symbol : (pos'[s].id # 0 <=> pos'[s].size > 0) /\ pos'[s].id <= opened'
  BY <1>1, <1>2 DEF Renumbered, Numbered
<1>4. ASSUME NEW x \in Symbol, NEW y \in Symbol, pos'[x].id = pos'[y].id, pos'[x].id # 0 PROVE x = y
  BY <1>1, <1>2, <1>4 DEF Renumbered, Numbered
<1>6. \A i \in Positions : i > opened' => plan'[i] = 0
  BY <1>1 DEF Numbered, Positions
<1>7. QED
  BY <1>3, <1>4, <1>6 DEF Numbered

\* The journal says the same of the stages of a position that is not forgotten.
JournalKept ==
  /\ forgotten \subseteq forgotten'
  /\ \A i : i \notin forgotten' =>
         /\ (<<"tp1", i>> \in journal') <=> (<<"tp1", i>> \in journal)
         /\ (<<"tp2", i>> \in journal') <=> (<<"tp2", i>> \in journal)

\* It asks no more to be left of such a position.
FloorsStay ==
  /\ forgotten \subseteq forgotten'
  /\ \A i \in Positions \ forgotten' :
       plan[i] # 0 => Floor(i) \in Int /\ Floor(i)' \in Int /\ Floor(i)' <= Floor(i)

\* The floors depend on the plans and the journal only.
LEMMA FloorsSame == ASSUME Typed, plan' = plan, JournalKept PROVE FloorsStay
<1>1. ASSUME NEW i \in Positions \ forgotten' PROVE Floor(i)' = Floor(i) /\ Floor(i) \in Int
  <2>1. Floor(i)' = Floor(i)
    <3>1. /\ (<<"tp1", i>> \in journal') <=> (<<"tp1", i>> \in journal)
          /\ (<<"tp2", i>> \in journal') <=> (<<"tp2", i>> \in journal)
      BY <1>1 DEF JournalKept
    <3>2. plan'[i] = plan[i]
      OBVIOUS
    <3>3. QED
      BY <3>1, <3>2 DEF Floor
  <2>2. plan[i] \in Nat
    BY BookKnown
  <2>3. QED
    BY <2>1, <2>2 DEF Floor, AfterTp1, Runner
<1>2. QED
  BY <1>1 DEF FloorsStay, JournalKept

\* The floor holds after a step that takes from no position that is accounted for.
LEMMA KeptGrows ==
  ASSUME Typed, Numbered, Kept, Grows, plan' = plan, FloorsStay
  PROVE  Kept'
<1>1. SUFFICES ASSUME NEW s \in Symbol, NEW i \in Positions, pos'[s].id = i, plan'[i] # 0,
                      i \notin forgotten', Accounted(i)'
               PROVE  Before(s)' >= Floor(i)'
  BY DEF Kept
<1>2. ~(i > opened)
  BY <1>1 DEF Numbered
<1>3. pos[s].id = i /\ Accounted(i) /\ Before(s) \in Nat /\ Before(s)' \in Nat /\ Before(s)' >= Before(s)
  BY <1>1, <1>2 DEF Grows, Grow
<1>4. Before(s) >= Floor(i)
  BY <1>1, <1>3 DEF Kept, FloorsStay
<1>5. Floor(i) \in Int /\ Floor(i)' \in Int /\ Floor(i)' <= Floor(i)
  BY <1>1 DEF FloorsStay
<1>6. QED
  BY <1>3, <1>4, <1>5

\* So do the rows of the snapshot, for as long as they are kept.
LEMMA RowsGrow ==
  ASSUME Typed, Numbered, Rows, Grows, Renumbered, Watch(mgr, mgr')
  PROVE  Rows'
<1>1. SUFFICES ASSUME NEW s \in Symbol, NEW i \in Positions, mgr'.view[s].id = i PROVE
         /\ mgr'.view[s].size > 0 /\ i <= opened'
         /\ \A y \in Symbol : pos'[y].id = i \/ mgr'.view[y].id = i => y = s
         /\ \/ mgr'.pc \in Late /\ s = mgr'.sym
            \/ Accounted(i)' /\ pos'[s].id = i => mgr'.view[s].size <= Before(s)'
  BY DEF Rows, Row
<1>2. i # 0 /\ i \in Nat /\ NoView.id = 0
  BY DEF Positions, NoView
<1>3. mgr'.view[s] = mgr.view[s] /\ mgr.view[s].id = i
      /\ (mgr.pc \in Late /\ s = mgr.sym => mgr'.pc \in Late /\ s = mgr'.sym)
  BY <1>1, <1>2 DEF Watch
<1>4. /\ mgr.view[s].size > 0 /\ i <= opened
      /\ \A y \in Symbol : pos[y].id = i \/ mgr.view[y].id = i => y = s
      /\ \/ mgr.pc \in Late /\ s = mgr.sym
         \/ Accounted(i) /\ pos[s].id = i => mgr.view[s].size <= Before(s)
  BY <1>3 DEF Rows, Row
<1>5. opened \in Nat /\ opened' \in Nat /\ opened <= opened' /\ mgr.view[s].size \in Nat
  <2>1. opened \in Nat /\ opened' \in {opened, opened + 1}
    BY BookKnown DEF Renumbered
  <2>2. IsView(mgr.view[s])
    BY ManagerKnown
  <2>3. QED
    BY <2>1, <2>2 DEF IsView
<1>6. ASSUME NEW y \in Symbol, pos'[y].id = i \/ mgr'.view[y].id = i PROVE y = s
  <2>1. CASE pos'[y].id = i
    BY <1>2, <1>4, <1>5, <2>1 DEF Renumbered
  <2>2. CASE mgr'.view[y].id = i
    BY <1>2, <1>4, <2>2 DEF Watch
  <2>3. QED
    BY <1>6, <2>1, <2>2
<1>7. ASSUME ~(mgr'.pc \in Late /\ s = mgr'.sym), Accounted(i)', pos'[s].id = i
      PROVE  mgr'.view[s].size <= Before(s)'
  <2>1. pos[s].id = i /\ Accounted(i) /\ Before(s) \in Nat /\ Before(s)' \in Nat /\ Before(s)' >= Before(s)
    BY <1>2, <1>4, <1>5, <1>7 DEF Grows, Grow
  <2>2. mgr.view[s].size <= Before(s)
    BY <1>3, <1>4, <1>7, <2>1
  <2>3. QED
    BY <1>3, <1>5, <2>1, <2>2
<1>8. i <= opened'
  BY <1>2, <1>4, <1>5
<1>9. QED
  BY <1>3, <1>4, <1>6, <1>7, <1>8

\* With no execution a position is accounted for only if it was: forgetting the
\* order in flight leaves a reduction that is not recorded.
LEMMA GrowsSame ==
  ASSUME Typed, Numbered, Staged, SameBook, SamePositions,
         InFlight' = InFlight \/ InFlight' \notin DOMAIN orders
  PROVE  Grows
<1>1. SUFFICES ASSUME NEW s \in Symbol, NEW i \in Positions, pos'[s].id = i, Accounted(i)', ~(i > opened)
               PROVE  pos[s].id = i /\ Accounted(i) /\ Before(s) \in Nat /\ Before(s)' \in Nat /\ Before(s)' >= Before(s)
  BY DEF Grows, Grow
<1>2. i \in Nat /\ i # 0 /\ opened \in Nat
  BY BookKnown DEF Positions
<1>3. pos[s].id = i /\ pos'[s].size = pos[s].size
  BY <1>1, <1>2 DEF SamePositions
<1>4. Reductions(i)' = Reductions(i)
  <2>1. ASSUME NEW k \in DOMAIN orders' PROVE k \in DOMAIN orders \/ ~(orders'[k].exec > 0)
    BY DEF SameBook
  <2>2. ASSUME NEW k \in DOMAIN orders PROVE k \in Reductions(i)' <=> k \in Reductions(i)
    BY DEF SameBook, SameOrder, Reductions
  <2>3. Reductions(i)' \subseteq DOMAIN orders /\ Reductions(i) \subseteq DOMAIN orders
    BY <2>1 DEF Reductions
  <2>4. QED
    BY <2>2, <2>3
<1>5. Reductions(i) \subseteq DOMAIN orders
  BY DEF Reductions
<1>6. \A k \in Reductions(i) \ {InFlight'} : orders[k].recorded /\ orders[k].for = i
  BY <1>1, <1>4, <1>5 DEF Accounted, SameBook, SameOrder
<1>7. Before(s) \in Nat
  BY BeforeNat
<1>8. CASE InFlight' = InFlight
  <2>1. Accounted(i)
    BY <1>6, <1>8 DEF Accounted
  <2>2. Before(s)' = Before(s)
    <3>1. CASE InFlight \in Reductions(i)
      BY <1>1, <1>3, <1>4, <1>5, <1>8, <3>1 DEF Before, SameBook, SameOrder
    <3>2. CASE InFlight \notin Reductions(i)
      BY <1>1, <1>3, <1>4, <1>8, <3>2 DEF Before
    <3>3. QED
      BY <3>1, <3>2
  <2>3. QED
    BY <1>3, <1>7, <2>1, <2>2
<1>9. CASE InFlight' \notin DOMAIN orders
  <2>1. \A k \in Reductions(i) : orders[k].recorded /\ orders[k].for = i
    BY <1>5, <1>6, <1>9
  <2>2. InFlight \notin Reductions(i)
    <3>1. ASSUME InFlight \in Reductions(i) PROVE FALSE
      <4>1. InFlight \in DOMAIN orders /\ InFlight # 0
        BY <1>5, <3>1, BookKnown
      <4>2. ~orders[InFlight].recorded
        BY <4>1, ManagerKnown DEF Staged, Sends
      <4>3. QED
        BY <2>1, <3>1, <4>2
    <3>2. QED
      BY <3>1
  <2>3. Before(s) = pos[s].size + 0 /\ Before(s)' = pos'[s].size + 0
    BY <1>1, <1>3, <1>4, <1>5, <1>9, <2>2 DEF Before
  <2>4. QED
    BY <1>3, <1>7, <2>1, <2>3 DEF Accounted
<1>10. QED
  BY <1>1, <1>8, <1>9

\* What an order is for does not change, and a filled one stays filled.
SameTerms ==
  \A k \in DOMAIN orders :
    LET o == orders[k]
        n == orders'[k]
    IN  /\ n.kind = o.kind /\ n.for = o.for /\ n.qty = o.qty /\ n.recorded = o.recorded
        /\ o.state = "filled" => n.state = "filled"

\* A stage that was not taken is not taken later, unless its position is forgotten.
LEMMA StageStaysOpen ==
  ASSUME JournalKept, mgr'.stage = mgr.stage, mgr'.view[mgr'.sym].id = mgr.view[mgr.sym].id,
         StageOpen(mgr.stage, mgr.view[mgr.sym].id) \/ mgr.view[mgr.sym].id \in forgotten
  PROVE  StageOpen(mgr.stage, mgr.view[mgr.sym].id)' \/ mgr'.view[mgr'.sym].id \in forgotten'
<1> DEFINE i == mgr.view[mgr.sym].id
<1>1. CASE i \in forgotten'
  BY <1>1
<1>2. CASE i \notin forgotten'
  <2>1. /\ (<<"tp1", i>> \in journal') <=> (<<"tp1", i>> \in journal)
        /\ (<<"tp2", i>> \in journal') <=> (<<"tp2", i>> \in journal)
    BY <1>2 DEF JournalKept
  <2>2. StageOpen(mgr.stage, i)
    BY <1>2 DEF JournalKept
  <2>3. QED
    BY <2>1, <2>2 DEF StageOpen
<1>3. QED
  BY <1>1, <1>2

\* A stage under way stays under way while its order keeps its terms.
LEMMA StagedSame ==
  ASSUME Typed, Staged, SameTerms, JournalKept, SameStage(mgr, mgr')
  PROVE  Staged'
<1>1. mgr.order # 0 => mgr.order \in DOMAIN orders
  BY ManagerKnown
<1>2. StageOpen(mgr.stage, mgr.view[mgr.sym].id) \/ mgr.view[mgr.sym].id \in forgotten
      => StageOpen(mgr.stage, mgr.view[mgr.sym].id)' \/ mgr'.view[mgr'.sym].id \in forgotten'
  BY StageStaysOpen DEF SameStage
<1>3. Verified' = Verified
  BY DEF SameStage, Verified
<1>4. mgr.order # 0 => (Sends(orders[mgr.order], mgr.view[mgr.sym])' <=> Sends(orders[mgr.order], mgr.view[mgr.sym]))
                       /\ (orders[mgr.order].state = "filled" => orders'[mgr.order].state = "filled")
  BY <1>1 DEF SameStage, Sends, Share, ClosePct, SameTerms
<1>5. QED
  BY <1>2, <1>3, <1>4 DEF Staged, SameStage

\* A manager that is elsewhere has no stage under way.
LEMMA StagedAway ==
  ASSUME mgr'.pc \notin Pending \cup {"send"} PROVE Staged' /\ InFlight' = 0
  BY DEF Staged, Verified, Pending, InFlight

\* Whoever is not the manager is still idle.
Others == OthersIdle' /\ deployment' = deployment

\* A step that executes nothing and takes the manager to another place.
LEMMA CalmAway ==
  ASSUME Typed, Typed', Alone, RunnerInv, Others, Renumbered, SameBook, SamePositions, plan' = plan, FloorsStay,
         Watch(mgr, mgr'), mgr'.pc \notin Pending \cup {"send"}
  PROVE  RunnerInv'
<1>1. Numbered /\ Rows /\ Staged /\ Kept
  BY DEF RunnerInv
<1>2. Grows
  BY <1>1, StagedAway, GrowsSame, BookKnown
<1>3. QED
  BY <1>1, <1>2, StagedAway, BookNumbered, NumberedKept, KeptGrows, RowsGrow
     DEF RunnerInv, Others, Numbered

\* A step that executes nothing and leaves the manager where it was.
LEMMA CalmOther ==
  ASSUME Typed, Typed', Alone, RunnerInv, Others, Renumbered, SameBook, SamePositions, plan' = plan, JournalKept,
         SameStage(mgr, mgr')
  PROVE  RunnerInv'
<1>1. Numbered /\ Rows /\ Staged /\ Kept
  BY DEF RunnerInv
<1>2. InFlight' = InFlight
  BY DEF SameStage, InFlight
<1>3. Grows
  BY <1>1, <1>2, GrowsSame
<1>4. Watch(mgr, mgr')
  BY DEF Watch, SameStage
<1>5. SameTerms
  BY DEF SameBook, SameOrder, SameTerms
<1>6. QED
  BY <1>1, <1>3, <1>4, <1>5, StagedSame, FloorsSame, BookNumbered, NumberedKept, KeptGrows, RowsGrow
     DEF RunnerInv, Others, Numbered

\* A step of a stage under way that executes nothing.
LEMMA Calm ==
  ASSUME Typed, Typed', Alone, RunnerInv, Others, Renumbered, SameBook, SamePositions, plan' = plan, JournalKept,
         Watch(mgr, mgr'), InFlight' = InFlight \/ InFlight' \notin DOMAIN orders, Staged'
  PROVE  RunnerInv'
<1>1. Numbered /\ Rows /\ Staged /\ Kept
  BY DEF RunnerInv
<1>2. Grows
  BY <1>1, GrowsSame
<1>3. QED
  BY <1>1, <1>2, FloorsSame, BookNumbered, NumberedKept, KeptGrows, RowsGrow
     DEF RunnerInv, Others, Numbered

\* A thread that manages is the one manager.
LEMMA ManagerActs ==
  ASSUME Typed, Alone, OthersIdle, NEW t \in {"tick", "manage"}, t \in deployment.threads \/ thread[t].pc # "idle",
         \A u \in Thread \ {t} : thread'[u] = thread[u], deployment' = deployment
  PROVE  t = Manager /\ mgr = thread[t] /\ mgr' = thread'[t] /\ Others
<1>1. t \in deployment.threads
  BY DEF OthersIdle
<1>2. t = Manager /\ Manager' = t
  BY <1>1 DEF Manager, Alone
<1>3. OthersIdle'
  BY <1>1 DEF OthersIdle, Thread
<1>4. QED
  BY <1>2, <1>3 DEF mgr, Others

\* A step of the others leaves the manager where it was.
LEMMA ManagerStands ==
  ASSUME Typed, OthersIdle, deployment' = deployment, \A u \in {"tick", "manage"} : SameStage(thread[u], thread'[u])
  PROVE  SameStage(mgr, mgr') /\ Others
<1>1. Manager' = Manager /\ Manager \in {"tick", "manage"}
  BY DEF Manager
<1>2. OthersIdle'
  BY DEF OthersIdle, SameStage
<1>3. mgr' = thread'[Manager] /\ mgr = thread[Manager]
  BY <1>1 DEF mgr
<1>4. QED
  BY <1>1, <1>2, <1>3 DEF Others

\* Positions as they were.
LEMMA PlacesSame == ASSUME Typed, Numbered, pos' = pos, opened' = opened PROVE Renumbered /\ SamePositions
  BY DEF Renumbered, SamePositions, Numbered

\* Orders as they were.
LEMMA BookSame == ASSUME Typed, orders' = orders PROVE SameBook
  BY DEF SameBook, SameOrder

\* One order more.
LEMMA BookSent ==
  ASSUME Typed, NEW kind, NEW s, NEW id, NEW qty, Sent(kind, s, id, qty)
  PROVE  /\ SameBook /\ DOMAIN orders' = 1..Len(orders) + 1 /\ Len(orders) + 1 \notin DOMAIN orders
         /\ LET o == orders'[Len(orders) + 1] IN o.kind = kind /\ o.for = id /\ o.qty = qty /\ ~o.recorded
<1> DEFINE o == [kind |-> kind, sym |-> s, for |-> id, on |-> 0, qty |-> qty, exec |-> 0,
                 state |-> "live", recorded |-> FALSE]
<1>1. orders' = Append(orders, o)
  BY DEF Sent
<1>2. o.kind = kind /\ o.for = id /\ o.qty = qty /\ o.recorded = FALSE /\ o.exec = 0 /\ o.on = 0
  OBVIOUS
<1> HIDE DEF o
<1>3. DOMAIN orders' = 1..Len(orders) + 1 /\ orders'[Len(orders) + 1] = o /\ DOMAIN orders = 1..Len(orders)
      /\ Len(orders) \in Nat /\ \A k \in DOMAIN orders : orders'[k] = orders[k]
  BY <1>1 DEF Typed, OrdersTyped
<1>4. \A k \in DOMAIN orders' \ DOMAIN orders : k = Len(orders) + 1
  BY <1>3
<1>5. QED
  BY <1>2, <1>3, <1>4 DEF SameBook, SameOrder

\* The kill switch withdraws the live orders of a symbol.
LEMMA BookCancelled ==
  ASSUME Typed, NEW s, orders' = CancelAll(s) PROVE SameBook
<1>1. DOMAIN orders' = DOMAIN orders
  BY DEF CancelAll
<1>2. ASSUME NEW k \in DOMAIN orders PROVE SameOrder(orders[k], orders'[k])
  <2>1. IsOrder(orders[k])
    BY BookKnown
  <2>2. orders'[k] = orders[k] \/ (orders[k].state = "live" /\ orders'[k] = [orders[k] EXCEPT !.state = "cancelled"])
    BY DEF CancelAll
  <2>3. QED
    BY <2>1, <2>2 DEF SameOrder, IsOrder
<1>3. QED
  BY <1>1, <1>2 DEF SameBook

\* The exchange ends an order without execution.
LEMMA BookWithdrawn ==
  ASSUME Typed, NEW k \in DOMAIN orders, orders[k].state = "live", orders' = [orders EXCEPT ![k].state = "cancelled"]
  PROVE  SameBook
<1>1. DOMAIN orders' = DOMAIN orders
  BY DEF Typed, OrdersTyped
<1>2. ASSUME NEW j \in DOMAIN orders PROVE SameOrder(orders[j], orders'[j])
  <2>1. IsOrder(orders[j])
    BY BookKnown
  <2>2. orders'[j] = orders[j] \/ (orders[j].state = "live" /\ orders'[j] = [orders[j] EXCEPT !.state = "cancelled"])
    BY DEF Typed, OrdersTyped
  <2>3. QED
    BY <2>1, <2>2 DEF SameOrder, IsOrder
<1>3. QED
  BY <1>1, <1>2 DEF SameBook

\* The operator, the kill switch and the manual order leave the manager where it was.
LEMMA Bystanders ==
  ASSUME Typed,
         \/ ManualRequested \/ StartBot \/ StopBot \/ KillRequested \/ KillFinds \/ KillCancels \/ KillCloses \/ KillVerifies
         \/ PositionGuard("manual") \/ PlaceEntry("manual") \/ FinalizeEntry("manual") \/ NextCandle
  PROVE  deployment' = deployment /\ \A u \in {"tick", "manage"} : SameStage(thread[u], thread'[u])
<1>1. deployment' = deployment
  BY DEF ManualRequested, StartBot, StopBot, KillRequested, KillFinds, KillCancels, KillCloses, KillVerifies,
         PositionGuard, PlaceEntry, FinalizeEntry, NextCandle
<1>2. {"tick", "manage", "manual", "kill"} = Thread /\ IsLocal(thread["tick"])
  BY ThreadKnown DEF Thread
<1>3. CASE StartBot \/ StopBot \/ KillRequested
  BY <1>2, <1>3 DEF StartBot, StopBot, KillRequested, NewGeneration, SameStage, IsLocal, Typed, ThreadsTyped
<1>4. CASE KillFinds \/ KillCancels \/ KillCloses \/ KillVerifies
  BY <1>2, <1>4 DEF KillFinds, KillCancels, KillCloses, KillVerifies, KillAnswers, End, SameStage, Typed, ThreadsTyped
<1>5. CASE ManualRequested \/ PositionGuard("manual") \/ PlaceEntry("manual") \/ FinalizeEntry("manual") \/ NextCandle
  BY <1>2, <1>5 DEF ManualRequested, PositionGuard, PlaceEntry, FinalizeEntry, NextCandle, Begin, End,
       SameStage, Typed, ThreadsTyped
<1>6. QED
  BY <1>1, <1>3, <1>4, <1>5

\* They execute nothing.
LEMMA BystandersRunner ==
  ASSUME Typed, Typed', Alone, RunnerInv,
         \/ ManualRequested \/ StartBot \/ StopBot \/ KillRequested \/ KillFinds \/ KillCancels \/ KillCloses \/ KillVerifies
         \/ PositionGuard("manual") \/ PlaceEntry("manual") \/ FinalizeEntry("manual") \/ NextCandle
  PROVE  RunnerInv'
<1>1. SameStage(mgr, mgr') /\ Others
  BY Bystanders, ManagerStands DEF RunnerInv
<1>2. pos' = pos /\ opened' = opened /\ plan' = plan /\ JournalKept
  BY DEF JournalKept, ManualRequested, StartBot, StopBot, KillRequested, KillFinds, KillCancels, KillCloses, KillVerifies,
         PositionGuard, PlaceEntry, FinalizeEntry, NextCandle, exchange, durable
<1>3. orders' = orders \/ (\E kind, s, id, qty : Sent(kind, s, id, qty)) \/ \E s : orders' = CancelAll(s)
  <2>1. CASE KillCancels
    BY <2>1 DEF KillCancels, CancelAll
  <2>2. CASE ~KillCancels
    BY <2>2 DEF ManualRequested, StartBot, StopBot, KillRequested, KillFinds, KillCloses, KillVerifies,
         PositionGuard, PlaceEntry, FinalizeEntry, NextCandle, exchange
  <2>3. QED
    BY <2>1, <2>2
<1>4. SameBook
  BY <1>3, BookSame, BookSent, BookCancelled
<1>5. QED
  BY <1>1, <1>2, <1>4, PlacesSame, CalmOther DEF RunnerInv

\* The manager goes on with its snapshot or drops it.
LEMMA ManagerLeads ==
  ASSUME Typed, Alone, OthersIdle, NEW t \in {"tick", "manage"}, t \in deployment.threads \/ thread[t].pc # "idle",
         \A u \in Thread \ {t} : thread'[u] = thread[u], deployment' = deployment,
         \/ \A s \in Symbol : thread'[t].view[s] = NoView
         \/ thread[t].pc \notin Late /\ thread'[t].view = thread[t].view,
         thread'[t].pc \notin Pending \cup {"send"}
  PROVE  Watch(mgr, mgr') /\ Others /\ mgr'.pc \notin Pending \cup {"send"}
  BY ManagerActs DEF Watch

\* The tick's entry path.
LEMMA TickRunner ==
  ASSUME Typed, Typed', Alone, RunnerInv,
         \/ TickBegins \/ ManageRequested \/ SelectSignal \/ ExecuteGuard \/ BookSignal
         \/ PositionGuard("tick") \/ PlaceEntry("tick") \/ FinalizeEntry("tick")
  PROVE  RunnerInv'
<1>1. {"tick", "manage"} \subseteq Thread /\ IsLocal(thread["tick"]) /\ IsLocal(thread["manage"])
  BY ThreadKnown DEF Thread
<1>2. Idle.pc = "idle" /\ \A s \in Symbol : Idle.view[s] = NoView
  BY DEF Idle
<1>3. \E t \in {"tick", "manage"} :
        /\ t \in deployment.threads \/ thread[t].pc # "idle"
        /\ \A u \in Thread \ {t} : thread'[u] = thread[u]
        /\ thread[t].pc \notin Late
        /\ thread'[t] = Idle \/ (thread'[t].view = thread[t].view /\ thread'[t].pc \notin Pending \cup {"send"})
  <2>1. CASE TickBegins \/ ManageRequested
    BY <1>1, <2>1 DEF TickBegins, ManageRequested, Begin, At, Late, Pending, IsLocal, Typed, ThreadsTyped
  <2>2. CASE SelectSignal \/ ExecuteGuard
    BY <1>1, <2>2 DEF SelectSignal, ExecuteGuard, Goto, End, At, Late, Pending, IsLocal, Typed, ThreadsTyped
  <2>3. CASE BookSignal
    BY <1>1, <2>3 DEF BookSignal, Raise, End, At, Late, Typed, ThreadsTyped
  <2>4. CASE PositionGuard("tick")
    <3>1. End("tick") \/ \E s : thread' = [thread EXCEPT !["tick"].pc = "current", !["tick"].sym = s]
      BY <2>4 DEF PositionGuard
    <3>2. thread["tick"].pc = "guard"
      BY <2>4 DEF PositionGuard, At
    <3>3. QED
      BY <1>1, <3>1, <3>2 DEF End, Late, Pending, IsLocal, Typed, ThreadsTyped
  <2>5. CASE PlaceEntry("tick")
    <3>1. End("tick") \/ \E k : thread' = [thread EXCEPT !["tick"].pc = "finalize", !["tick"].order = k]
      BY <2>5 DEF PlaceEntry
    <3>2. thread["tick"].pc = "place"
      BY <2>5 DEF PlaceEntry, At
    <3>3. QED
      BY <1>1, <3>1, <3>2 DEF End, Late, Pending, IsLocal, Typed, ThreadsTyped
  <2>6. CASE FinalizeEntry("tick")
    <3>1. \E f : thread' = [thread EXCEPT !["tick"].pc = "book", !["tick"].ok = f = "filled",
                                         !["tick"].order = IF f = "unresolved" THEN @ ELSE 0]
      BY <2>6 DEF FinalizeEntry
    <3>2. thread["tick"].pc = "finalize"
      BY <2>6 DEF FinalizeEntry, At
    <3>3. QED
      BY <1>1, <3>1, <3>2 DEF Late, Pending, IsLocal, Typed, ThreadsTyped
  <2>7. QED
    BY <2>1, <2>2, <2>3, <2>4, <2>5, <2>6
<1>4. deployment' = deployment /\ pos' = pos /\ opened' = opened /\ plan' = plan /\ JournalKept
  BY DEF JournalKept, TickBegins, ManageRequested, SelectSignal, ExecuteGuard, BookSignal, PositionGuard, PlaceEntry,
         FinalizeEntry, exchange, durable
<1>5. orders' = orders \/ \E kind, s, id, qty : Sent(kind, s, id, qty)
  BY DEF TickBegins, ManageRequested, SelectSignal, ExecuteGuard, BookSignal, PositionGuard, PlaceEntry,
         FinalizeEntry, exchange
<1>6. SameBook
  BY <1>5, BookSame, BookSent
<1>7. Watch(mgr, mgr') /\ Others /\ mgr'.pc \notin Pending \cup {"send"}
  <2>1. PICK t \in {"tick", "manage"} :
        /\ t \in deployment.threads \/ thread[t].pc # "idle"
        /\ \A u \in Thread \ {t} : thread'[u] = thread[u]
        /\ thread[t].pc \notin Late
        /\ thread'[t] = Idle \/ (thread'[t].view = thread[t].view /\ thread'[t].pc \notin Pending \cup {"send"})
    BY <1>3
  <2>2. thread'[t].pc \notin Pending \cup {"send"}
    BY <1>2, <2>1 DEF Pending
  <2>3. QED
    BY <1>2, <1>4, <2>1, <2>2, ManagerLeads DEF RunnerInv
<1>8. QED
  BY <1>4, <1>6, <1>7, PlacesSame, FloorsSame, CalmAway DEF RunnerInv

\* Nobody moves.
LEMMA StandsStill == ASSUME thread' = thread PROVE \A u \in {"tick", "manage"} : SameStage(thread[u], thread'[u])
  BY DEF SameStage

\* Node opens a position, or a protection closes one.
LEMMA PlacesRunner ==
  ASSUME Typed, Typed', Alone, RunnerInv, NEW s \in Symbol, NodeOpens(s) \/ ProtectionHits(s)
  PROVE  RunnerInv'
<1>1. deployment' = deployment /\ orders' = orders /\ plan' = plan /\ JournalKept /\ thread' = thread
  BY DEF JournalKept, NodeOpens, ProtectionHits, durable
<1>2. SameStage(mgr, mgr') /\ Others
  BY <1>1, StandsStill, ManagerStands DEF RunnerInv
<1>3. opened \in Nat /\ \A y \in Symbol : pos[y].id # 0 <=> pos[y].size > 0
  BY BookKnown DEF RunnerInv, Numbered
<1>4. \A y \in Symbol \ {s} : pos'[y] = pos[y]
  BY DEF NodeOpens, ProtectionHits, Typed, PositionsTyped
<1>5. Renumbered /\ SamePositions
  <2>1. CASE NodeOpens(s)
    <3>1. opened' = opened + 1 /\ pos'[s].id = opened + 1 /\ pos'[s].size = EntrySize
      BY <2>1 DEF NodeOpens, Typed, PositionsTyped
    <3>2. EntrySize > 0 /\ opened + 1 # 0
      BY <1>3, PositionAssumption
    <3>3. QED
      BY <1>3, <1>4, <3>1, <3>2 DEF Renumbered, SamePositions
  <2>2. CASE ProtectionHits(s)
    <3>1. opened' = opened /\ pos'[s].id = 0 /\ pos'[s].size = 0
      BY <2>2 DEF ProtectionHits, NoPosition, Typed, PositionsTyped
    <3>2. QED
      BY <1>3, <1>4, <3>1 DEF Renumbered, SamePositions
  <2>3. QED
    BY <2>1, <2>2
<1>6. QED
  BY <1>1, <1>2, <1>5, BookSame, CalmOther

\* What the journal forgets it forgets of one position.
LEMMA ForgetsRunner ==
  ASSUME Typed, Typed', Alone, RunnerInv, JournalForgets
  PROVE  RunnerInv'
<1>1. /\ deployment' = deployment /\ pos' = pos /\ opened' = opened /\ orders' = orders
      /\ plan' = plan /\ thread' = thread
  BY DEF JournalForgets, exchange
<1>2. JournalKept
  BY DEF JournalForgets, JournalKept
<1>3. SameStage(mgr, mgr') /\ Others
  BY <1>1, StandsStill, ManagerStands DEF RunnerInv
<1>4. QED
  BY <1>1, <1>2, <1>3, BookSame, PlacesSame, CalmOther DEF RunnerInv

\* An order that executed: what it did to its symbol's position.
ExecutedAt(k, s, exec) ==
  LET id == pos[s].id
      entry == orders[k].kind = "entry"
      fresh == entry /\ pos[s].size = 0
      size == IF entry THEN pos[s].size + exec ELSE pos[s].size - exec
  IN  /\ exec > 0 /\ (~entry => exec <= pos[s].size)
      /\ orders'[k].exec = exec /\ orders'[k].on = (IF fresh THEN opened + 1 ELSE id)
      /\ orders'[k].state \in {"filled", "partial"}
      /\ orders'[k].kind = orders[k].kind /\ orders'[k].for = orders[k].for /\ orders'[k].qty = orders[k].qty
      /\ orders'[k].recorded = orders[k].recorded
      /\ opened' = (IF fresh THEN opened + 1 ELSE opened)
      /\ pos'[s].size = size /\ pos'[s].id = (IF size = 0 THEN 0 ELSE IF fresh THEN opened + 1 ELSE id)

\* An execution in full or in part, by its effect.
LEMMA Executed ==
  ASSUME Typed, Numbered, NEW k \in DOMAIN orders, OrderExecutes(k)
  PROVE  \/ orders' = [orders EXCEPT ![k].state = "cancelled"] /\ pos' = pos /\ opened' = opened
         \/ /\ DOMAIN orders' = DOMAIN orders /\ \A j \in DOMAIN orders \ {k} : orders'[j] = orders[j]
            /\ \A s \in Symbol \ {orders[k].sym} : pos'[s] = pos[s]
            /\ \E exec \in Nat : ExecutedAt(k, orders[k].sym, exec)
<1> DEFINE o == orders[k]
           s == orders[k].sym
           entry == o.kind = "entry"
           full == IF entry THEN o.qty ELSE Min({o.qty, pos[s].size})
           fresh == entry /\ pos[s].size = 0
           id == IF fresh THEN opened + 1 ELSE pos[s].id
<1>1. IsOrder(o) /\ s \in Symbol /\ IsPosition(pos[s])
  BY BookKnown DEF IsOrder
<1>2. full \in Nat /\ (~entry => full <= pos[s].size)
  BY <1>1, MinTwo DEF IsOrder, IsPosition
<1>3. CASE ~(orders' = [orders EXCEPT ![k].state = "cancelled"] /\ pos' = pos /\ opened' = opened)
  <2>1. PICK exec \in {full} \cup {1} :
          LET size == IF entry THEN pos[s].size + exec ELSE pos[s].size - exec IN
          /\ full > 0
          /\ orders' = [orders EXCEPT ![k].exec = exec, ![k].on = id,
                                      ![k].state = IF exec = o.qty THEN "filled" ELSE "partial"]
          /\ opened' = IF fresh THEN id ELSE opened
          /\ \E p :
               /\ pos' = [pos EXCEPT ![s] = p]
               /\ \/ size = 0 /\ p = NoPosition
                  \/ fresh /\ p = [id |-> id, size |-> size, stop |-> "initial", trail |-> FALSE]
                  \/ size # 0 /\ ~fresh /\ p = [pos[s] EXCEPT !.size = size]
    BY <1>3 DEF OrderExecutes
  <2> DEFINE left == IF entry THEN pos[s].size + exec ELSE pos[s].size - exec
  <2>2. PICK p : /\ pos' = [pos EXCEPT ![s] = p]
                 /\ \/ left = 0 /\ p = NoPosition
                    \/ fresh /\ p = [id |-> id, size |-> left, stop |-> "initial", trail |-> FALSE]
                    \/ left # 0 /\ ~fresh /\ p = [pos[s] EXCEPT !.size = left]
    BY <2>1
  <2>3. full > 0
    BY <2>1
  <2>4. exec \in Nat /\ exec > 0 /\ (~entry => exec <= pos[s].size)
    BY <1>1, <1>2, <2>1, <2>3 DEF IsPosition
  <2>5. p.size = left /\ p.id = IF left = 0 THEN 0 ELSE id
    <3>1. CASE left = 0 /\ p = NoPosition
      BY <3>1 DEF NoPosition
    <3>2. CASE fresh /\ p = [id |-> id, size |-> left, stop |-> "initial", trail |-> FALSE]
      <4>1. left # 0
        BY <2>4, <3>2
      <4>2. p.size = left /\ p.id = id
        BY <3>2
      <4>3. QED
        BY <4>1, <4>2
    <3>3. CASE left # 0 /\ ~fresh /\ p = [pos[s] EXCEPT !.size = left]
      BY <1>1, <3>3 DEF IsPosition
    <3>4. QED
      BY <2>2, <3>1, <3>2, <3>3
  <2>6. pos'[s] = p /\ \A y \in Symbol \ {s} : pos'[y] = pos[y]
    BY <1>1, <2>2 DEF Typed, PositionsTyped
  <2>7. PICK n : /\ n = [o EXCEPT !.exec = exec, !.on = id, !.state = IF exec = o.qty THEN "filled" ELSE "partial"]
                 /\ orders'[k] = n
    BY <2>1 DEF Typed, OrdersTyped
  <2>8. DOMAIN orders' = DOMAIN orders /\ \A j \in DOMAIN orders \ {k} : orders'[j] = orders[j]
    BY <2>1 DEF Typed, OrdersTyped
  <2>9. /\ n.exec = exec /\ n.on = id /\ n.state \in {"filled", "partial"} /\ n.kind = o.kind /\ n.for = o.for /\ n.qty = o.qty
        /\ n.recorded = o.recorded
    BY <1>1, <2>7 DEF IsOrder
  <2>10. ExecutedAt(k, s, exec)
    <3>1. opened' = IF fresh THEN opened + 1 ELSE opened
      BY <2>1
    <3>2. QED
      BY <2>4, <2>5, <2>6, <2>7, <2>9, <3>1 DEF ExecutedAt
  <2>11. QED
    BY <2>4, <2>6, <2>8, <2>10
<1>4. QED
  BY <1>3

\* An execution takes from a position that is accounted for only as the order in
\* flight of its own stage.
LEMMA ExecutedGrows ==
  ASSUME Typed, Numbered, InFlight' = InFlight, NEW k \in DOMAIN orders, orders[k].state = "live",
         DOMAIN orders' = DOMAIN orders, \A j \in DOMAIN orders \ {k} : orders'[j] = orders[j],
         \A s \in Symbol \ {orders[k].sym} : pos'[s] = pos[s],
         NEW exec \in Nat, ExecutedAt(k, orders[k].sym, exec)
  PROVE  Grows
<1>1. SUFFICES ASSUME NEW s \in Symbol, NEW i \in Positions, pos'[s].id = i, Accounted(i)', ~(i > opened)
               PROVE  pos[s].id = i /\ Accounted(i) /\ Before(s) \in Nat /\ Before(s)' \in Nat /\ Before(s)' >= Before(s)
  BY DEF Grows, Grow
<1>2. i \in Nat /\ i # 0 /\ opened \in Nat /\ i # opened + 1
  BY <1>1, BookKnown DEF Positions
<1>3. orders[k].sym \in Symbol /\ IsOrder(orders[k]) /\ IsPosition(pos[s]) /\ pos[s].size \in Nat
  BY BookKnown DEF IsOrder, IsPosition
<1>4. orders[k].exec = 0 /\ ~orders[k].recorded /\ \A j \in Positions : k \notin Reductions(j)
  BY DEF Numbered, OrdersNumbered, Reductions
<1>5. \A j \in DOMAIN orders \ {k} : j \in Reductions(i)' <=> j \in Reductions(i)
  BY DEF Reductions
<1>6. Reductions(i) \subseteq DOMAIN orders /\ Reductions(i)' \subseteq DOMAIN orders
  BY DEF Reductions
<1>7. Accounted(i)
  BY <1>1, <1>4, <1>5, <1>6 DEF Accounted
<1>8. Before(s) \in Nat
  BY BeforeNat
<1>9. ASSUME k \notin Reductions(i)', pos[s].id = i, pos'[s].size \in Nat, pos'[s].size >= pos[s].size
      PROVE  Before(s)' \in Nat /\ Before(s)' >= Before(s)
  <2>1. Reductions(i)' = Reductions(i)
    BY <1>4, <1>5, <1>6, <1>9
  <2>2. CASE InFlight \in Reductions(i)
    <3>1. orders'[InFlight] = orders[InFlight] /\ InFlight \in DOMAIN orders
      BY <1>4, <1>6, <2>2
    <3>2. Before(s)' = pos'[s].size + orders[InFlight].exec /\ Before(s) = pos[s].size + orders[InFlight].exec
      BY <1>1, <1>9, <2>1, <2>2, <3>1 DEF Before
    <3>3. orders[InFlight].exec \in Nat
      BY <3>1, BookKnown DEF IsOrder
    <3>4. QED
      BY <1>3, <1>9, <3>2, <3>3
  <2>3. CASE InFlight \notin Reductions(i)
    <3>1. Before(s)' = pos'[s].size + 0 /\ Before(s) = pos[s].size + 0
      BY <1>1, <1>9, <2>1, <2>3 DEF Before
    <3>2. QED
      BY <1>3, <1>9, <3>1
  <2>4. QED
    BY <2>2, <2>3
<1>10. CASE s # orders[k].sym
  <2>1. pos'[s] = pos[s]
    BY <1>10
  <2>2. orders'[k].on # i
    BY <1>1, <1>2, <1>3, <1>10, <2>1 DEF ExecutedAt, Numbered
  <2>3. k \notin Reductions(i)'
    BY <2>2 DEF Reductions
  <2>4. QED
    BY <1>1, <1>3, <1>7, <1>8, <1>9, <2>1, <2>3
<1>11. CASE s = orders[k].sym /\ orders[k].kind = "entry"
  <2>1. pos[s].id = i /\ pos'[s].size = pos[s].size + exec
    BY <1>1, <1>2, <1>11 DEF ExecutedAt
  <2>2. k \notin Reductions(i)'
    BY <1>11 DEF Reductions, ExecutedAt
  <2>3. QED
    BY <1>3, <1>7, <1>8, <1>9, <2>1, <2>2
<1>12. CASE s = orders[k].sym /\ orders[k].kind # "entry"
  <2>1. pos[s].id = i /\ pos'[s].size = pos[s].size - exec /\ exec <= pos[s].size /\ exec > 0
        /\ orders'[k].exec = exec /\ orders'[k].on = i /\ orders'[k].kind # "entry" /\ ~orders'[k].recorded
    BY <1>1, <1>2, <1>4, <1>12 DEF ExecutedAt
  <2>2. k \in Reductions(i)'
    BY <2>1 DEF Reductions
  <2>3. InFlight = k
    BY <1>1, <2>1, <2>2 DEF Accounted
  <2>4. Before(s)' = pos'[s].size + exec
    BY <1>1, <2>1, <2>2, <2>3 DEF Before
  <2>5. Before(s) = pos[s].size + 0
    BY <1>4, <2>1, <2>3 DEF Before
  <2>6. QED
    BY <1>3, <1>7, <1>8, <2>1, <2>4, <2>5
<1>13. QED
  BY <1>10, <1>11, <1>12

\* It opens at most one position, with the next number.
LEMMA ExecutedNumbered ==
  ASSUME Typed, Numbered, NEW k \in DOMAIN orders, orders[k].state = "live",
         DOMAIN orders' = DOMAIN orders, \A j \in DOMAIN orders \ {k} : orders'[j] = orders[j],
         \A s \in Symbol \ {orders[k].sym} : pos'[s] = pos[s],
         NEW exec \in Nat, ExecutedAt(k, orders[k].sym, exec)
  PROVE  Renumbered /\ OrdersNumbered'
<1> DEFINE s == orders[k].sym
<1>1. s \in Symbol /\ opened \in Nat /\ \A y \in Symbol : pos[y].id \in Nat /\ pos[y].size \in Nat
  <2>1. IsOrder(orders[k]) /\ opened \in Nat /\ \A y \in Symbol : IsPosition(pos[y])
    BY BookKnown
  <2>2. s \in Symbol
    BY <2>1 DEF IsOrder
  <2>3. ASSUME NEW y \in Symbol PROVE pos[y].id \in Nat /\ pos[y].size \in Nat
    <3>1. IsPosition(pos[y])
      BY <2>1
    <3>2. QED
      BY <3>1 DEF IsPosition, Positions
  <2>4. QED
    BY <2>1, <2>2, <2>3
<1> HIDE DEF s
<1>2. opened' \in {opened, opened + 1}
  BY DEF ExecutedAt
<1>3. \A y \in Symbol \ {s} : (pos'[y].id # 0 <=> pos'[y].size > 0) /\ pos'[y].id = pos[y].id
  BY DEF s, Numbered
<1>4. pos'[s].id # 0 <=> pos'[s].size > 0
  BY <1>1 DEF s, ExecutedAt, Numbered
<1>5. pos'[s].id \in {0, pos[s].id} \/ (opened' = opened + 1 /\ pos'[s].id = opened + 1)
  BY DEF s, ExecutedAt
<1>6. Renumbered
  BY <1>1, <1>2, <1>3, <1>4, <1>5 DEF Renumbered
<1>7. orders'[k].on <= opened' /\ orders'[k].state # "live"
  BY <1>1 DEF s, ExecutedAt, Numbered
<1>8. ASSUME NEW j \in DOMAIN orders \ {k} PROVE orders'[j].on <= opened'
  <2>1. orders[j].on \in Nat /\ orders[j].on <= opened
    BY BookKnown DEF IsOrder, Positions, Numbered, OrdersNumbered
  <2>2. QED
    BY <1>1, <1>2, <2>1
<1>9. QED
  BY <1>6, <1>7, <1>8 DEF OrdersNumbered, Numbered

\* The exchange executes an order or ends it.
LEMMA OrderRunner ==
  ASSUME Typed, Typed', Alone, RunnerInv, NEW k \in DOMAIN orders, OrderExecutes(k)
  PROVE  RunnerInv'
<1>1. deployment' = deployment /\ plan' = plan /\ JournalKept /\ thread' = thread /\ orders[k].state = "live"
  BY DEF JournalKept, OrderExecutes, durable
<1>2. SameStage(mgr, mgr') /\ Others
  BY <1>1, StandsStill, ManagerStands DEF RunnerInv
<1>3. Numbered /\ Rows /\ Staged /\ Kept
  BY DEF RunnerInv
<1>4. CASE orders' = [orders EXCEPT ![k].state = "cancelled"] /\ pos' = pos /\ opened' = opened
  BY <1>1, <1>2, <1>3, <1>4, BookWithdrawn, PlacesSame, CalmOther
<1>5. CASE ~(orders' = [orders EXCEPT ![k].state = "cancelled"] /\ pos' = pos /\ opened' = opened)
  <2>1. /\ DOMAIN orders' = DOMAIN orders /\ \A j \in DOMAIN orders \ {k} : orders'[j] = orders[j]
        /\ \A s \in Symbol \ {orders[k].sym} : pos'[s] = pos[s]
        /\ \E exec \in Nat : ExecutedAt(k, orders[k].sym, exec)
    BY <1>3, <1>5, Executed
  <2>2. PICK exec \in Nat : ExecutedAt(k, orders[k].sym, exec)
    BY <2>1
  <2>3. InFlight' = InFlight /\ Watch(mgr, mgr')
    BY <1>2 DEF SameStage, InFlight, Watch
  <2>4. Grows /\ Renumbered /\ OrdersNumbered'
    BY <1>1, <1>3, <2>1, <2>2, <2>3, ExecutedGrows, ExecutedNumbered
  <2>5. SameTerms
    BY <1>1, <2>1, <2>2 DEF SameTerms, ExecutedAt
  <2>6. QED
    BY <1>1, <1>2, <1>3, <2>3, <2>4, <2>5, StagedSame, FloorsSame, NumberedKept, KeptGrows, RowsGrow
       DEF RunnerInv, Others
<1>6. QED
  BY <1>4, <1>5

\* What the stages leave, in order.
LEMMA StageFloors ==
  ASSUME NEW p \in Nat, p >= 1
  PROVE  /\ AfterTp1(p) \in Nat /\ Runner(p) \in Nat
         /\ Runner(p) <= AfterTp1(p) /\ AfterTp1(p) <= p /\ Runner(p) >= 1
<1> DEFINE r == p - (p * 40) \div 100
<1>1. r \in Nat /\ r <= p /\ r >= 1 /\ (p < 3 => r = p)
  OBVIOUS
<1>2. Runner(p) = r - (r * 50) \div 100
  BY DEF Runner
<1> HIDE DEF r
<1>3. Runner(p) \in Nat /\ Runner(p) <= r /\ Runner(p) >= 1 /\ (r <= 2 => Runner(p) = 1)
  BY <1>1, <1>2
<1>4. AfterTp1(p) = IF p < 3 THEN 1 ELSE r
  BY DEF AfterTp1, r
<1>5. QED
  BY <1>1, <1>3, <1>4

\* A restart forgets the stage under way: its order, if it executes, is never recorded.
LEMMA RestartRunner ==
  ASSUME Typed, Typed', Alone, RunnerInv, Restart
  PROVE  RunnerInv'
<1>1. /\ deployment' = deployment /\ pos' = pos /\ opened' = opened /\ plan' = plan
      /\ journal \subseteq journal' /\ forgotten' = forgotten
      /\ orders' = orders /\ \A t \in Thread : thread'[t] = Idle
  BY DEF Restart, exchange
<1>2. Idle.pc = "idle" /\ \A s \in Symbol : Idle.view[s] = NoView
  BY DEF Idle
<1>3. mgr' = Idle /\ Others
  BY <1>1, <1>2 DEF mgr, Manager, Others, OthersIdle, Thread
<1>4. Watch(mgr, mgr') /\ mgr'.pc \notin Pending \cup {"send"}
  BY <1>2, <1>3 DEF Watch, Pending
<1>5. FloorsStay
  <2>1. ASSUME NEW i \in Positions, plan[i] # 0
        PROVE  Floor(i) \in Int /\ Floor(i)' \in Int /\ Floor(i)' <= Floor(i)
    <3>1. plan[i] \in Nat /\ plan[i] >= 1
      BY <2>1, BookKnown
    <3>2. /\ AfterTp1(plan[i]) \in Nat /\ Runner(plan[i]) \in Nat
          /\ Runner(plan[i]) <= AfterTp1(plan[i]) /\ AfterTp1(plan[i]) <= plan[i]
      BY <3>1, StageFloors
    <3>3. QED
      BY <1>1, <3>1, <3>2 DEF Floor
  <2>2. QED
    BY <1>1, <2>1 DEF FloorsStay
<1>6. QED
  BY <1>1, <1>3, <1>4, <1>5, BookSame, PlacesSame, CalmAway DEF RunnerInv

\* TP1 takes 40% of what the snapshot showed, at least one unit.
LEMMA Tp1Leaves ==
  ASSUME NEW p \in Nat, NEW v \in Nat, NEW b \in Nat, NEW e \in Nat, p >= 1, v >= 1, b >= p, v <= b,
         e <= (IF (v * 40) \div 100 > 1 THEN (v * 40) \div 100 ELSE 1), b - e >= 1
  PROVE  b - e >= AfterTp1(p)
<1>1. CASE p < 3
  BY <1>1 DEF AfterTp1
<1>2. CASE p >= 3
  <2>1. AfterTp1(p) = p - (p * 40) \div 100
    BY <1>2 DEF AfterTp1
  <2>2. CASE e <= 1
    <3>1. (p * 40) \div 100 >= 1
      BY <1>2
    <3>2. QED
      BY <2>1, <2>2, <3>1
  <2>3. CASE e <= (v * 40) \div 100
    <3>1. (v * 40) \div 100 <= (b * 40) \div 100
      OBVIOUS
    <3>2. b - (b * 40) \div 100 >= p - (p * 40) \div 100
      OBVIOUS
    <3>3. QED
      BY <2>1, <2>3, <3>1, <3>2
  <2>4. QED
    BY <2>2, <2>3
<1>3. QED
  BY <1>1, <1>2

\* TP2 takes half of what the snapshot showed, at least one unit.
LEMMA Tp2Leaves ==
  ASSUME NEW p \in Nat, NEW v \in Nat, NEW b \in Nat, NEW e \in Nat, p >= 1, v >= 1, b >= AfterTp1(p), v <= b,
         e <= (IF (v * 50) \div 100 > 1 THEN (v * 50) \div 100 ELSE 1), b - e >= 1
  PROVE  b - e >= Runner(p)
<1>1. CASE p < 3
  <2>1. p = 1 \/ p = 2
    BY <1>1
  <2>2. Runner(p) = 1
    BY <2>1 DEF Runner
  <2>3. QED
    BY <2>2
<1>2. CASE p >= 3
  <2> DEFINE r == p - (p * 40) \div 100
  <2>1. r \in Nat /\ r >= 2 /\ b >= r
    BY <1>2 DEF AfterTp1
  <2>2. Runner(p) = r - (r * 50) \div 100
    BY DEF Runner
  <2> HIDE DEF r
  <2>3. CASE e <= 1
    <3>1. (r * 50) \div 100 >= 1
      BY <2>1
    <3>2. QED
      BY <2>1, <2>2, <2>3, <3>1
  <2>4. CASE e <= (v * 50) \div 100
    <3>1. (v * 50) \div 100 <= (b * 50) \div 100
      OBVIOUS
    <3>2. b - (b * 50) \div 100 >= r - (r * 50) \div 100
      BY <2>1
    <3>3. QED
      BY <2>1, <2>2, <2>4, <3>1, <3>2
  <2>5. QED
    BY <2>3, <2>4
<1>3. QED
  BY <1>1, <1>2

\* A pass ends or goes on to the next position.
LEMMA ManagerPasses ==
  ASSUME Typed, Alone, OthersIdle, NEW t \in {"tick", "manage"}, thread[t].pc # "idle",
         deployment' = deployment, End(t) \/ PassEnds(t) \/ NextSymbol(t)
  PROVE  Watch(mgr, mgr') /\ Others /\ mgr'.pc \notin Pending \cup {"send"}
<1>1. t \in Thread /\ IsLocal(thread[t])
  BY ThreadKnown DEF Thread
<1>2. CASE End(t) \/ PassEnds(t)
  <2>1. \A u \in Thread \ {t} : thread'[u] = thread[u]
    BY <1>1, <1>2 DEF End, PassEnds, Typed, ThreadsTyped
  <2>2. (\A s \in Symbol : thread'[t].view[s] = NoView) /\ thread'[t].pc \in {"idle", "signal"}
    <3>1. PICK n : n \in {Idle, [Idle EXCEPT !.pc = "signal", !.current = thread[t].current]} /\ thread'[t] = n
      BY <1>1, <1>2 DEF End, PassEnds, Typed, ThreadsTyped
    <3>2. n.pc \in {"idle", "signal"} /\ n.view = Idle.view
      <4>1. IsLocal(Idle) /\ Idle.pc = "idle"
        BY IdleTyped, LocalFields DEF Idle
      <4>2. QED
        BY <3>1, <4>1 DEF IsLocal
    <3>3. \A s \in Symbol : Idle.view[s] = NoView
      BY DEF Idle
    <3>4. QED
      BY <3>1, <3>2, <3>3
  <2>3. QED
    BY <2>1, <2>2, ManagerLeads DEF Pending
<1>3. CASE NextSymbol(t)
  <2> DEFINE m == thread[t]
  <2>1. PICK n : /\ n = [m EXCEPT !.pc = "next", !.todo = @ \ {m.sym}, !.view[m.sym] = NoView,
                                  !.stage = "tp1", !.order = 0, !.ok = TRUE]
                 /\ thread' = [thread EXCEPT ![t] = n]
    BY <1>3 DEF NextSymbol
  <2>2. n.pc = "next" /\ n.view = [m.view EXCEPT ![m.sym] = NoView]
    BY <1>1, <2>1 DEF IsLocal
  <2>3. thread'[t] = n /\ \A u \in Thread \ {t} : thread'[u] = thread[u]
    BY <1>1, <2>1 DEF Typed, ThreadsTyped
  <2>4. Watch(m, n)
    BY <1>1, <2>2 DEF Watch, IsLocal
  <2>5. mgr = m /\ mgr' = n /\ Others
    BY <2>3, ManagerActs
  <2>6. QED
    BY <2>2, <2>4, <2>5 DEF Pending
<1>4. QED
  BY <1>2, <1>3

\* The gate of a pass and its end.
LEMMA GateRunner ==
  ASSUME Typed, Typed', Alone, RunnerInv, NEW t \in {"tick", "manage"}, ManageGate(t) \/ PassOver(t)
  PROVE  RunnerInv'
<1>1. t \in Thread /\ IsLocal(thread[t]) /\ thread[t].pc \in {"gate", "next"} /\ OthersIdle
  BY ThreadKnown DEF Thread, ManageGate, PassOver, At, RunnerInv
<1>2. deployment' = deployment /\ pos' = pos /\ opened' = opened /\ plan' = plan /\ JournalKept /\ orders' = orders
  BY DEF JournalKept, ManageGate, PassOver, exchange, durable
<1>3. Watch(mgr, mgr') /\ Others /\ mgr'.pc \notin Pending \cup {"send"}
  <2>1. CASE PassEnds(t)
    BY <1>1, <1>2, <2>1, ManagerPasses
  <2>2. CASE Goto(t, "fetch")
    <3>1. thread'[t].view = thread[t].view /\ thread'[t].pc = "fetch" /\ \A u \in Thread \ {t} : thread'[u] = thread[u]
      BY <1>1, <2>2 DEF Goto, IsLocal, Typed, ThreadsTyped
    <3>2. QED
      BY <1>1, <1>2, <3>1, ManagerLeads DEF Late, Pending
  <2>3. QED
    BY <2>1, <2>2 DEF ManageGate, PassOver
<1>4. QED
  BY <1>2, <1>3, BookSame, PlacesSame, FloorsSame, CalmAway DEF RunnerInv

\* Positions with another stop or trailing stop.
LEMMA PlacesMarked ==
  ASSUME Typed, Numbered, opened' = opened,
         \A s \in Symbol : pos'[s].id = pos[s].id /\ pos'[s].size = pos[s].size
  PROVE  Renumbered /\ SamePositions
  BY DEF Renumbered, SamePositions, Numbered

\* Break-even and the trailing stop.
LEMMA ProtectRunner ==
  ASSUME Typed, Typed', Alone, RunnerInv, NEW t \in {"tick", "manage"},
         Breakeven(t) \/ SetTrailing(t) \/ RecordTrailing(t)
  PROVE  RunnerInv'
<1>1. t \in Thread /\ IsLocal(thread[t]) /\ thread[t].pc \in Late /\ thread[t].pc # "idle" /\ OthersIdle
  BY ThreadKnown DEF Thread, Breakeven, SetTrailing, RecordTrailing, At, Late, RunnerInv
<1>2. deployment' = deployment /\ opened' = opened /\ plan' = plan /\ orders' = orders
  BY DEF Breakeven, SetTrailing, RecordTrailing, exchange, durable
<1>3. \A s \in Symbol : pos'[s].id = pos[s].id /\ pos'[s].size = pos[s].size
  <2>1. pos' = pos \/ \E s, b, x : pos' = [pos EXCEPT ![s].stop = x] \/ pos' = [pos EXCEPT ![s].trail = b]
    BY DEF Breakeven, SetTrailing, RecordTrailing, exchange
  <2>2. ASSUME NEW y \in Symbol PROVE pos'[y].id = pos[y].id /\ pos'[y].size = pos[y].size
    <3>1. IsPosition(pos[y])
      BY BookKnown
    <3>2. pos'[y] = pos[y] \/ (\E x : pos'[y] = [pos[y] EXCEPT !.stop = x]) \/ \E b : pos'[y] = [pos[y] EXCEPT !.trail = b]
      BY <2>1 DEF Typed, PositionsTyped
    <3>3. QED
      BY <3>1, <3>2 DEF IsPosition
  <2>3. QED
    BY <2>2
<1>4. FloorsStay
  <2>1. forgotten' = forgotten /\ (journal' = journal \/ \E i : journal' = journal \cup {<<"trail", i>>})
    BY DEF Breakeven, SetTrailing, RecordTrailing, Journaled, InTableOnly, durable
  <2>2. JournalKept
    BY <2>1 DEF JournalKept
  <2>3. QED
    BY <1>2, <2>2, FloorsSame
<1>5. Watch(mgr, mgr') /\ Others /\ mgr'.pc \notin Pending \cup {"send"}
  <2>1. CASE NextSymbol(t) \/ End(t)
    BY <1>1, <1>2, <2>1, ManagerPasses
  <2>2. CASE Goto(t, "recordTrail")
    <3>1. /\ thread'[t].view = thread[t].view /\ thread'[t].pc = "recordTrail" /\ thread'[t].sym = thread[t].sym
          /\ \A u \in Thread \ {t} : thread'[u] = thread[u]
      BY <1>1, <2>2 DEF Goto, IsLocal, Typed, ThreadsTyped
    <3>2. mgr = thread[t] /\ mgr' = thread'[t] /\ Others
      BY <1>1, <1>2, <3>1, ManagerActs
    <3>3. QED
      BY <3>1, <3>2 DEF Watch, Late, Pending
  <2>3. QED
    BY <2>1, <2>2 DEF Breakeven, SetTrailing, RecordTrailing, Raise
<1>6. QED
  BY <1>2, <1>3, <1>4, <1>5, BookSame, PlacesMarked, CalmAway DEF RunnerInv

\* The verification of a partial close and the poll of the position list.
LEMMA VerifyRunner ==
  ASSUME Typed, Typed', Alone, RunnerInv, NEW t \in {"tick", "manage"}, VerifyPartial(t) \/ PollReduced(t)
  PROVE  RunnerInv'
<1>1. t \in Thread /\ IsLocal(thread[t]) /\ thread[t].pc \in {"verify", "poll"} /\ OthersIdle
  BY ThreadKnown DEF Thread, VerifyPartial, PollReduced, At, RunnerInv
<1>2. deployment' = deployment /\ pos' = pos /\ opened' = opened /\ plan' = plan /\ JournalKept /\ orders' = orders
  BY DEF JournalKept, VerifyPartial, PollReduced, exchange, durable
<1>3. \E s \in {"poll", "record"}, b \in BOOLEAN :
        /\ thread' = [thread EXCEPT ![t].pc = s, ![t].ok = b]
        /\ s = "poll" \/ b => thread[t].pc = "poll" \/ orders[thread[t].order].state = "filled"
  <2>1. CASE VerifyPartial(t)
    <3>1. PICK f : /\ f \in VerifyFinalFill(thread[t].order)
                   /\ thread' = [thread EXCEPT ![t].pc = IF f = "filled" THEN "poll" ELSE "record",
                                               ![t].ok = f = "filled"]
      BY <2>1 DEF VerifyPartial
    <3>2. (f = "filled") \in BOOLEAN /\ (IF f = "filled" THEN "poll" ELSE "record") \in {"poll", "record"}
      OBVIOUS
    <3>3. f = "filled" => orders[thread[t].order].state = "filled"
      BY <3>1 DEF VerifyFinalFill
    <3>4. QED
      BY <3>1, <3>2, <3>3
  <2>2. CASE PollReduced(t)
    <3>1. PICK size : thread' = [thread EXCEPT ![t].pc = "record", ![t].ok = size + orders[thread[t].order].exec
                                                                  <= thread[t].view[thread[t].sym].size]
      BY <2>2 DEF PollReduced
    <3>2. (size + orders[thread[t].order].exec <= thread[t].view[thread[t].sym].size) \in BOOLEAN
      OBVIOUS
    <3>3. thread[t].pc = "poll"
      BY <2>2 DEF PollReduced, At
    <3>4. QED
      BY <3>1, <3>2, <3>3
  <2>3. QED
    BY <2>1, <2>2
<1>4. PICK s \in {"poll", "record"}, b \in BOOLEAN :
        /\ thread' = [thread EXCEPT ![t].pc = s, ![t].ok = b]
        /\ s = "poll" \/ b => thread[t].pc = "poll" \/ orders[thread[t].order].state = "filled"
  BY <1>3
<1>5. /\ thread'[t].pc = s /\ thread'[t].ok = b /\ thread'[t].view = thread[t].view /\ thread'[t].sym = thread[t].sym
      /\ thread'[t].stage = thread[t].stage /\ thread'[t].order = thread[t].order
      /\ \A u \in Thread \ {t} : thread'[u] = thread[u]
  BY <1>1, <1>4 DEF IsLocal, Typed, ThreadsTyped
<1>6. mgr = thread[t] /\ mgr' = thread'[t] /\ Others
  BY <1>1, <1>2, <1>5, ManagerActs
<1>7. Watch(mgr, mgr') /\ InFlight' = InFlight
  BY <1>1, <1>5, <1>6 DEF Watch, Late, InFlight, Pending
<1>8. Staged'
  <2>1. Staged
    BY DEF RunnerInv
  <2>2. mgr.order # 0 /\ (mgr.pc = "poll" => orders[mgr.order].state = "filled")
    BY <1>1, <1>6, <2>1 DEF Staged, Verified
  <2>3. /\ StageOpen(mgr.stage, mgr.view[mgr.sym].id) \/ mgr.view[mgr.sym].id \in forgotten
        /\ Sends(orders[mgr.order], mgr.view[mgr.sym])
    BY <1>1, <1>6, <2>1, <2>2 DEF Staged, Pending
  <2>4. /\ StageOpen(mgr.stage, mgr.view[mgr.sym].id)' \/ mgr'.view[mgr'.sym].id \in forgotten'
        /\ Sends(orders[mgr.order], mgr.view[mgr.sym])'
    <3>1. mgr'.stage = mgr.stage /\ mgr'.view[mgr'.sym].id = mgr.view[mgr.sym].id
      BY <1>5, <1>6
    <3>2. StageOpen(mgr.stage, mgr.view[mgr.sym].id)' \/ mgr'.view[mgr'.sym].id \in forgotten'
      BY <1>2, <2>3, <3>1, StageStaysOpen
    <3>3. QED
      BY <1>2, <1>5, <1>6, <2>3, <3>2 DEF Sends, Share, ClosePct
  <2>5. Verified' => orders'[mgr'.order].state = "filled"
    BY <1>1, <1>2, <1>4, <1>5, <1>6, <2>2 DEF Verified
  <2>6. QED
    BY <1>5, <1>6, <2>2, <2>4, <2>5 DEF Staged
<1>9. QED
  BY <1>2, <1>6, <1>7, <1>8, BookSame, PlacesSame, Calm DEF RunnerInv

\* The snapshot shows what there is.
LEMMA FetchRunner ==
  ASSUME Typed, Typed', Alone, RunnerInv, NEW t \in {"tick", "manage"}, FetchPositions(t)
  PROVE  RunnerInv'
<1>1. t \in Thread /\ IsLocal(thread[t]) /\ thread[t].pc = "fetch" /\ OthersIdle
  BY ThreadKnown DEF Thread, FetchPositions, At, RunnerInv
<1>2. deployment' = deployment /\ pos' = pos /\ opened' = opened /\ plan' = plan /\ JournalKept /\ orders' = orders
  BY DEF JournalKept, FetchPositions, exchange, durable
<1>3. CASE PassEnds(t)
  BY <1>1, <1>2, <1>3, ManagerPasses, BookSame, PlacesSame, FloorsSame, CalmAway DEF RunnerInv
<1>4. CASE ~PassEnds(t)
  <2>1. PICK r \in [OpenSymbols -> 0..2] :
             thread' = [thread EXCEPT
                 ![t].pc = "next", ![t].todo = OpenSymbols,
                 ![t].view = [s \in Symbol |-> IF s \in OpenSymbols
                                               THEN [id |-> pos[s].id, size |-> pos[s].size, r |-> r[s],
                                                     atRisk |-> pos[s].stop = "initial"]
                                               ELSE NoView]]
    BY <1>4 DEF FetchPositions
  <2> DEFINE view == [s \in Symbol |-> IF s \in OpenSymbols
                                       THEN [id |-> pos[s].id, size |-> pos[s].size, r |-> r[s],
                                             atRisk |-> pos[s].stop = "initial"]
                                       ELSE NoView]
  <2>2. \A s \in Symbol : /\ s \in OpenSymbols => view[s].id = pos[s].id /\ view[s].size = pos[s].size
                          /\ s \notin OpenSymbols => view[s].id = 0
    BY DEF NoView
  <2> HIDE DEF view
  <2>3. thread'[t].pc = "next" /\ thread'[t].view = view /\ \A u \in Thread \ {t} : thread'[u] = thread[u]
    BY <1>1, <2>1 DEF view, IsLocal, Typed, ThreadsTyped
  <2>4. mgr = thread[t] /\ mgr' = thread'[t] /\ Others
    BY <1>1, <1>2, <2>3, ManagerActs
  <2>5. mgr'.pc \notin Pending \cup {"send"} \cup Late /\ mgr'.view = view
    BY <2>3, <2>4 DEF Pending, Late
  <2>6. InFlight' = 0 /\ Staged' /\ 0 \notin DOMAIN orders
    BY <2>5, StagedAway, BookKnown
  <2>7. Numbered /\ Kept /\ Staged /\ SameBook /\ Renumbered /\ SamePositions /\ FloorsStay
    BY <1>2, BookSame, PlacesSame, FloorsSame DEF RunnerInv
  <2>8. Numbered' /\ Kept'
    BY <1>2, <2>6, <2>7, GrowsSame, KeptGrows, BookNumbered, NumberedKept DEF Numbered
  <2>9. ASSUME NEW s \in Symbol, NEW i \in Positions, view[s].id = i
        PROVE /\ view[s].size > 0 /\ i <= opened
              /\ \A y \in Symbol : pos[y].id = i \/ view[y].id = i => y = s
              /\ view[s].size <= Before(s)'
    <3>1. i # 0
      BY DEF Positions
    <3>2. s \in OpenSymbols /\ pos[s].id = i /\ view[s].size = pos[s].size
      BY <2>2, <2>9, <3>1
    <3>3. view[s].size > 0 /\ i <= opened
      BY <2>7, <3>2 DEF OpenSymbols, Numbered
    <3>4. \A y \in Symbol : pos[y].id = i \/ view[y].id = i => y = s
      BY <2>2, <2>7, <3>1, <3>2 DEF Numbered
    <3>5. 0 \notin Reductions(pos[s].id)'
      BY <1>2, <2>6 DEF Reductions
    <3>6. Before(s)' = pos[s].size + 0
      BY <1>2, <2>6, <3>5 DEF Before
    <3>7. pos[s].size \in Nat
      BY BookKnown DEF IsPosition
    <3>8. QED
      BY <3>2, <3>3, <3>4, <3>6, <3>7
  <2>10. Rows'
    BY <1>2, <2>5, <2>9 DEF Rows, Row
  <2>11. QED
    BY <2>4, <2>6, <2>8, <2>10 DEF RunnerInv, Others
<1>5. QED
  BY <1>3, <1>4

\* A stage sends a share of what the snapshot showed, once.
LEMMA CloseRunner ==
  ASSUME Typed, Typed', Alone, RunnerInv, NEW t \in {"tick", "manage"}, ClosePartial(t)
  PROVE  RunnerInv'
<1> DEFINE s == thread[t].sym
           v == thread[t].view[s]
           qty == Max({1, (v.size * ClosePct(thread[t].stage)) \div 100})
<1>1. t \in Thread /\ IsLocal(thread[t]) /\ thread[t].pc = "send" /\ OthersIdle
  BY ThreadKnown DEF Thread, ClosePartial, At, RunnerInv
<1>2. deployment' = deployment /\ pos' = pos /\ opened' = opened /\ plan' = plan /\ JournalKept
  BY DEF JournalKept, ClosePartial, durable
<1>3. \/ /\ Sent(thread[t].stage, s, v.id, qty)
         /\ \/ thread' = [thread EXCEPT ![t].pc = "verify", ![t].order = Len(orders) + 1]
            \/ thread' = [thread EXCEPT ![t].pc = "record", ![t].order = Len(orders) + 1, ![t].ok = FALSE]
      \/ /\ orders' = orders
         /\ thread' = [thread EXCEPT ![t].pc = "record", ![t].order = 0, ![t].ok = FALSE]
  BY DEF ClosePartial
<1> HIDE DEF qty
<1>4. /\ thread'[t].view = thread[t].view /\ thread'[t].sym = s /\ thread'[t].stage = thread[t].stage
      /\ \A u \in Thread \ {t} : thread'[u] = thread[u]
      /\ thread'[t].pc = "verify" \/ (thread'[t].pc = "record" /\ ~thread'[t].ok)
      /\ \/ /\ Sent(thread[t].stage, s, v.id, qty) /\ thread'[t].order = Len(orders) + 1
         \/ orders' = orders /\ thread'[t].order = 0 /\ thread'[t].pc = "record"
  BY <1>1, <1>3 DEF IsLocal, Typed, ThreadsTyped
<1>5. mgr = thread[t] /\ mgr' = thread'[t] /\ Others
  BY <1>1, <1>2, <1>4, ManagerActs
<1>6. Watch(mgr, mgr')
  BY <1>1, <1>4, <1>5 DEF Watch, Late
<1>7. SameBook /\ (mgr'.order = 0 \/ (mgr'.order = Len(orders) + 1 /\ Len(orders) + 1 \notin DOMAIN orders
                     /\ LET o == orders'[Len(orders) + 1]
                        IN  o.kind = thread[t].stage /\ o.for = v.id /\ o.qty = qty /\ ~o.recorded))
  BY <1>4, <1>5, BookSame, BookSent
<1>8. InFlight' \notin DOMAIN orders /\ Len(orders) + 1 # 0
  BY <1>7, BookKnown DEF InFlight
<1>9. Staged'
  <2>1. StageOpen(mgr.stage, mgr.view[mgr.sym].id) \/ mgr.view[mgr.sym].id \in forgotten
    BY <1>1, <1>5 DEF RunnerInv, Staged
  <2>2. StageOpen(mgr.stage, mgr.view[mgr.sym].id)' \/ mgr'.view[mgr'.sym].id \in forgotten'
    <3>1. mgr'.stage = mgr.stage /\ mgr'.view[mgr'.sym].id = mgr.view[mgr.sym].id
      BY <1>4, <1>5
    <3>2. QED
      BY <1>2, <2>1, <3>1, StageStaysOpen
  <2>3. qty = Share(mgr.stage, v.size)
    BY <1>5 DEF qty, Share
  <2>4. mgr'.order # 0 => Sends(orders[mgr.order], mgr.view[mgr.sym])'
    BY <1>4, <1>5, <1>7, <2>3 DEF Sends, Share, ClosePct
  <2>5. mgr'.pc = "verify" => mgr'.order # 0
    BY <1>4, <1>5, <1>8
  <2>6. ~Verified'
    BY <1>4, <1>5 DEF Verified
  <2>7. QED
    BY <2>2, <2>4, <2>5, <2>6 DEF Staged
<1>10. QED
  BY <1>2, <1>5, <1>6, <1>7, <1>8, <1>9, PlacesSame, Calm DEF RunnerInv

\* The plan of a position is what the snapshot showed of it, no more than there is.
LEMMA DecideRunner ==
  ASSUME Typed, Typed', Alone, RunnerInv, NEW t \in {"tick", "manage"}, Decide(t)
  PROVE  RunnerInv'
<1>1. t \in Thread /\ IsLocal(thread[t]) /\ Located(thread[t], Len(orders)) /\ thread[t].pc = "next" /\ OthersIdle
  BY ThreadKnown DEF Thread, Decide, At, RunnerInv
<1>2. deployment' = deployment /\ pos' = pos /\ opened' = opened /\ journal' = journal /\ forgotten' = forgotten /\ JournalKept /\ orders' = orders
  BY DEF JournalKept, Decide, exchange
<1>3. PICK s \in thread[t].todo :
        /\ plan' = plan \/ plan' = PlanFor(thread[t].view[s])
        /\ \/ \E pc \in {"send", "trail"}, stage \in Stages :
                /\ thread' = [thread EXCEPT ![t].pc = pc, ![t].sym = s, ![t].stage = stage]
                /\ pc = "send" => StageOpen(stage, thread[t].view[s].id)
           \/ thread' = [thread EXCEPT ![t].todo = @ \ {s}, ![t].view[s] = NoView]
  BY DEF Decide, Stages, StageOpen, Done
<1> DEFINE v == thread[t].view[s]
<1>4. s \in Symbol /\ IsView(v) /\ v.id \in Positions
  BY <1>1, ThreadKnown DEF IsLocal, Located, Managing
<1>5. /\ \A u \in Thread \ {t} : thread'[u] = thread[u]
      /\ \A y \in Symbol : thread'[t].view[y] \in {thread[t].view[y], NoView}
      /\ thread'[t].pc \in {"next", "send", "trail"}
      /\ thread'[t].pc = "send" => StageOpen(thread'[t].stage, thread'[t].view[thread'[t].sym].id)
  <2>1. CASE \E pc \in {"send", "trail"}, stage \in Stages :
                /\ thread' = [thread EXCEPT ![t].pc = pc, ![t].sym = s, ![t].stage = stage]
                /\ pc = "send" => StageOpen(stage, thread[t].view[s].id)
    BY <1>1, <2>1 DEF IsLocal, Typed, ThreadsTyped
  <2>2. CASE thread' = [thread EXCEPT ![t].todo = @ \ {s}, ![t].view[s] = NoView]
    <3>1. PICK n : n = [thread[t] EXCEPT !.todo = @ \ {s}, !.view[s] = NoView] /\ thread' = [thread EXCEPT ![t] = n]
      BY <2>2
    <3>2. n.view = [thread[t].view EXCEPT ![s] = NoView] /\ n.pc = "next"
      BY <1>1, <3>1 DEF IsLocal
    <3>3. thread'[t] = n /\ \A u \in Thread \ {t} : thread'[u] = thread[u]
      BY <1>1, <3>1 DEF Typed, ThreadsTyped
    <3>4. QED
      BY <1>1, <3>2, <3>3 DEF IsLocal
  <2>3. QED
    BY <1>3, <2>1, <2>2
<1>6. mgr = thread[t] /\ mgr' = thread'[t] /\ Others
  BY <1>1, <1>2, <1>5, ManagerActs
<1>7. Watch(mgr, mgr')
  BY <1>1, <1>5, <1>6 DEF Watch, Late
<1>8. InFlight = 0 /\ InFlight' = 0
  BY <1>1, <1>5, <1>6 DEF InFlight, Pending
<1>9. Staged'
  <2>1. mgr'.pc = "send" => StageOpen(mgr.stage, mgr.view[mgr.sym].id)'
    BY <1>2, <1>5, <1>6 DEF StageOpen
  <2>2. mgr'.pc \notin Pending /\ ~Verified' /\ mgr'.pc # "verify"
    BY <1>5, <1>6 DEF Pending, Verified
  <2>3. QED
    BY <2>1, <2>2 DEF Staged
<1>10. Numbered /\ Rows /\ Kept /\ Staged /\ SameBook /\ Renumbered /\ SamePositions
  BY <1>2, BookSame, PlacesSame DEF RunnerInv
<1>11. Rows'
  BY <1>7, <1>8, <1>10, GrowsSame, RowsGrow
<1>12. v.size > 0 /\ v.id <= opened /\ (\A y \in Symbol : pos[y].id = v.id => y = s)
       /\ (Accounted(v.id) /\ pos[s].id = v.id => v.size <= Before(s))
  <2>1. mgr.view[s].id = v.id /\ ~(mgr.pc \in Late)
    BY <1>1, <1>6 DEF Late
  <2>2. QED
    BY <1>4, <1>6, <1>10, <2>1 DEF Rows, Row
<1>13. \A i \in Positions : plan'[i] = plan[i] \/ (i = v.id /\ plan'[i] = v.size)
  BY <1>3, <1>4 DEF PlanFor, Typed, StoreTyped
<1>14. Numbered'
  <2>1. \A i \in Positions : i > opened => plan'[i] = 0
    <3>1. opened \in Nat /\ v.id \in Nat
      BY <1>4, BookKnown DEF Positions
    <3>2. QED
      BY <1>10, <1>12, <1>13, <3>1 DEF Numbered
  <2>2. QED
    BY <1>2, <1>10, <2>1 DEF Numbered, OrdersNumbered
<1>15. ASSUME NEW y \in Symbol, NEW i \in Positions, pos'[y].id = i, plan'[i] # 0, i \notin forgotten', Accounted(i)'
       PROVE  Before(y)' >= Floor(i)'
  <2>1. Accounted(i) /\ pos[y].id = i /\ Before(y)' = Before(y)
    BY <1>2, <1>8, <1>15 DEF Accounted, Reductions, Before
  <2>2. CASE plan'[i] = plan[i]
    <3>1. Floor(i)' = Floor(i)
      BY <1>2, <2>2 DEF Floor
    <3>2. QED
      BY <1>2, <1>10, <1>15, <2>1, <2>2, <3>1 DEF Kept
  <2>3. CASE i = v.id /\ plan'[i] = v.size
    <3>1. y = s /\ v.size <= Before(s) /\ v.size >= 1 /\ v.size \in Nat
      BY <1>4, <1>12, <2>1, <2>3 DEF IsView
    <3>2. /\ AfterTp1(v.size) \in Nat /\ Runner(v.size) \in Nat
          /\ Runner(v.size) <= AfterTp1(v.size) /\ AfterTp1(v.size) <= v.size
      BY <3>1, StageFloors
    <3>3. Floor(i)' \in {v.size, AfterTp1(v.size), Runner(v.size)}
      BY <2>3 DEF Floor
    <3>4. Before(s) \in Nat
      BY <1>4, BeforeNat
    <3>5. QED
      BY <2>1, <3>1, <3>2, <3>3, <3>4
  <2>4. QED
    BY <1>13, <2>2, <2>3
<1>16. Kept'
  BY <1>15 DEF Kept
<1>17. QED
  BY <1>6, <1>9, <1>11, <1>14, <1>16 DEF RunnerInv, Others

\* A recorded stage lowers the floor by no less than its order took.
LEMMA RecordRunner ==
  ASSUME Typed, Typed', Alone, RunnerInv, NEW t \in {"tick", "manage"}, RecordStage(t)
  PROVE  RunnerInv'
<1> DEFINE k == thread[t].order
           sym == thread[t].sym
           v == thread[t].view[sym]
           stage == thread[t].stage
<1>1. t \in Thread /\ IsLocal(thread[t]) /\ Located(thread[t], Len(orders)) /\ thread[t].pc = "record" /\ OthersIdle
  BY ThreadKnown DEF Thread, RecordStage, At, RunnerInv
<1>2. deployment' = deployment /\ pos' = pos /\ opened' = opened /\ plan' = plan /\ forgotten' = forgotten
  BY DEF RecordStage
<1>3. Numbered /\ Rows /\ Kept /\ Staged /\ Renumbered /\ SamePositions
  BY <1>2, PlacesSame DEF RunnerInv
<1>4. CASE (End(t) \/ NextSymbol(t)) /\ UNCHANGED <<journal, orders>>
  <2>1. JournalKept
    BY <1>2, <1>4 DEF JournalKept
  <2>2. QED
    BY <1>1, <1>2, <1>3, <1>4, <2>1, ManagerPasses, BookSame, FloorsSame, CalmAway
<1>5. CASE /\ journal' = journal \cup {<<stage, v.id>>} /\ thread[t].ok
           /\ orders' = [orders EXCEPT ![k].recorded = TRUE]
           /\ Goto(t, "breakeven") \/ Goto(t, "trail") \/ End(t)
  <2>2. /\ \A u \in Thread \ {t} : thread'[u] = thread[u]
        /\ \/ thread'[t].view = thread[t].view /\ thread'[t].pc \in Late /\ thread'[t].sym = sym
           \/ thread'[t] = Idle
    BY <1>1, <1>5 DEF Goto, End, IsLocal, Late, Typed, ThreadsTyped
  <2>3. mgr = thread[t] /\ mgr' = thread'[t] /\ Others
    BY <1>1, <1>2, <2>2, ManagerActs
  <2>4. IsView(v) /\ v.id \in Positions /\ sym \in Symbol /\ stage \in Stages
    BY <1>1, ThreadKnown DEF IsLocal, Located, Managing
  <2>5. /\ v.id \notin forgotten => StageOpen(stage, v.id)
        /\ k # 0 /\ k \in DOMAIN orders
        /\ orders[k].state = "filled" /\ ~orders[k].recorded /\ orders[k].for = v.id /\ orders[k].qty = Share(stage, v.size)
    <3>1. Verified /\ mgr.pc \in Pending
      BY <1>1, <1>5, <2>3 DEF Verified, Pending
    <3>2. k # 0 /\ orders[k].state = "filled"
      BY <1>3, <2>3, <3>1 DEF Staged
    <3>3. (v.id \notin forgotten => StageOpen(stage, v.id)) /\ Sends(orders[k], v)
      BY <1>3, <2>3, <3>1, <3>2 DEF Staged
    <3>4. k \in DOMAIN orders
      BY <2>3, <3>2, ManagerKnown
    <3>5. QED
      BY <2>3, <3>2, <3>3, <3>4 DEF Sends
  <2>6. InFlight = k /\ InFlight' = 0 /\ 0 \notin DOMAIN orders /\ mgr'.pc \notin Pending \cup {"send"} /\ Staged'
    <3>1. mgr'.pc \notin Pending \cup {"send"}
      BY <2>2, <2>3 DEF Late, Pending, Idle
    <3>2. QED
      BY <1>1, <2>3, <3>1, StagedAway, BookKnown DEF InFlight, Pending
  <2>7. /\ DOMAIN orders' = DOMAIN orders
        /\ \A j \in DOMAIN orders : /\ orders'[j].kind = orders[j].kind /\ orders'[j].on = orders[j].on
                                    /\ orders'[j].exec = orders[j].exec /\ orders'[j].for = orders[j].for
                                    /\ orders'[j].state = orders[j].state
                                    /\ j # k => orders'[j].recorded = orders[j].recorded
    <3>1. DOMAIN orders' = DOMAIN orders
      BY <1>5 DEF Typed, OrdersTyped
    <3>2. ASSUME NEW j \in DOMAIN orders
          PROVE  /\ orders'[j].kind = orders[j].kind /\ orders'[j].on = orders[j].on
                 /\ orders'[j].exec = orders[j].exec /\ orders'[j].for = orders[j].for
                 /\ orders'[j].state = orders[j].state
                 /\ j # k => orders'[j].recorded = orders[j].recorded
      <4>1. IsOrder(orders[j])
        BY BookKnown
      <4>2. (j # k /\ orders'[j] = orders[j]) \/ (j = k /\ orders'[j] = [orders[j] EXCEPT !.recorded = TRUE])
        BY <1>5 DEF Typed, OrdersTyped
      <4>3. QED
        BY <4>1, <4>2 DEF IsOrder
    <3>3. QED
      BY <3>1, <3>2
  <2>8. /\ v.size > 0 /\ v.size \in Nat /\ \A y \in Symbol : pos[y].id = v.id \/ mgr.view[y].id = v.id => y = sym
        /\ (Accounted(v.id) /\ pos[sym].id = v.id => v.size <= Before(sym))
    <3>1. mgr.view[sym].id = v.id /\ ~(mgr.pc \in Late)
      BY <1>1, <2>3 DEF Late
    <3>2. QED
      BY <1>3, <2>3, <2>4, <3>1 DEF Rows, Row, IsView
  <2>9. \A i \in Positions : Reductions(i)' = Reductions(i) /\ Reductions(i) \subseteq DOMAIN orders
    BY <2>7 DEF Reductions
  <2>10. ASSUME NEW i \in Positions, Accounted(i)'
         PROVE  \A j \in Reductions(i) : (j # k => orders[j].recorded) /\ orders[j].for = i
    BY <2>6, <2>7, <2>9, <2>10 DEF Accounted
  <2>11. \A y \in Symbol, i \in Positions : pos[y].id = i /\ Accounted(i)' => Before(y)' = pos[y].size + 0
    BY <1>2, <2>6, <2>9 DEF Before
  <2>12. \A y \in Symbol : pos[y].size \in Nat
    BY BookKnown DEF IsPosition
  <2>13. ASSUME NEW y \in Symbol, NEW i \in Positions, pos[y].id = i, Accounted(i)', k \notin Reductions(i)
         PROVE  Accounted(i) /\ Before(y) = pos[y].size + 0
    BY <2>6, <2>10, <2>13 DEF Accounted, Before
  <2>14. ASSUME NEW y \in Symbol, NEW i \in Positions, i # v.id PROVE Grow(y, i)
    <3>1. SUFFICES ASSUME pos[y].id = i, Accounted(i)'
                   PROVE  Accounted(i) /\ Before(y) \in Nat /\ Before(y)' \in Nat /\ Before(y)' >= Before(y)
      BY <1>2 DEF Grow
    <3>2. k \notin Reductions(i)
      BY <2>5, <2>10, <2>14, <3>1
    <3>3. Accounted(i) /\ Before(y) = pos[y].size + 0 /\ Before(y)' = pos[y].size + 0
      BY <2>11, <2>13, <3>1, <3>2
    <3>4. QED
      BY <2>12, <3>3
  <2>15. Rows'
    <3>1. SUFFICES ASSUME NEW s \in Symbol, NEW i \in Positions, mgr'.view[s].id = i PROVE
            /\ mgr'.view[s].size > 0 /\ i <= opened'
            /\ \A y \in Symbol : pos'[y].id = i \/ mgr'.view[y].id = i => y = s
            /\ \/ mgr'.pc \in Late /\ s = mgr'.sym
               \/ Accounted(i)' /\ pos'[s].id = i => mgr'.view[s].size <= Before(s)'
      BY DEF Rows, Row
    <3>2. mgr'.view = mgr.view /\ mgr'.pc \in Late /\ mgr'.sym = sym /\ ~(mgr.pc \in Late)
      <4>1. thread'[t] # Idle
        BY <2>3, <3>1 DEF Idle, NoView, Positions
      <4>2. QED
        BY <1>1, <2>2, <2>3, <4>1 DEF Late
    <3>3. /\ mgr.view[s].size > 0 /\ i <= opened
          /\ \A y \in Symbol : pos[y].id = i \/ mgr.view[y].id = i => y = s
          /\ Accounted(i) /\ pos[s].id = i => mgr.view[s].size <= Before(s)
      BY <1>3, <3>1, <3>2 DEF Rows, Row
    <3>4. ASSUME s # sym, Accounted(i)', pos[s].id = i PROVE mgr.view[s].size <= Before(s)'
      <4>1. i # v.id
        BY <2>4, <2>8, <3>4
      <4>2. Grow(s, i)
        BY <2>14, <4>1
      <4>3. ~(i > opened)
        BY <3>3, BookKnown DEF Positions
      <4>4. Accounted(i) /\ Before(s) \in Nat /\ Before(s)' \in Nat /\ Before(s)' >= Before(s)
        BY <1>2, <3>4, <4>2, <4>3 DEF Grow
      <4>5. mgr.view[s].size \in Nat
        BY ManagerKnown DEF IsView
      <4>6. QED
        BY <3>3, <3>4, <4>4, <4>5
    <3>5. QED
      BY <1>2, <3>2, <3>3, <3>4
  <2>16. Numbered'
    BY <1>2, <1>3, <2>5, <2>7 DEF Numbered, OrdersNumbered
  <2>17. ASSUME NEW y \in Symbol, NEW i \in Positions, pos'[y].id = i, plan'[i] # 0, i \notin forgotten', Accounted(i)'
         PROVE  Before(y)' >= Floor(i)'
    <3>1. pos[y].id = i /\ plan[i] \in Nat /\ plan[i] >= 1 /\ Before(y)' = pos[y].size + 0 /\ pos[y].size >= 1
      <4>1. pos[y].size > 0 /\ pos[y].id = i /\ plan[i] \in Nat /\ plan[i] # 0
        BY <1>2, <1>3, <2>17, BookKnown DEF Numbered, Positions
      <4>2. QED
        BY <2>11, <2>12, <2>17, <4>1
    <3>2. /\ AfterTp1(plan[i]) \in Nat /\ Runner(plan[i]) \in Nat
          /\ Runner(plan[i]) <= AfterTp1(plan[i]) /\ AfterTp1(plan[i]) <= plan[i] /\ Runner(plan[i]) >= 1
      BY <3>1, StageFloors
    <3>3. Floor(i) \in Nat /\ Floor(i)' \in Nat /\ Floor(i)' <= Floor(i)
      BY <1>2, <1>5, <3>1, <3>2 DEF Floor
    <3>4. CASE k \notin Reductions(i)
      <4>1. Accounted(i) /\ Before(y) = pos[y].size + 0
        BY <2>13, <2>17, <3>1, <3>4
      <4>2. Before(y) >= Floor(i)
        BY <1>2, <1>3, <2>17, <3>1, <4>1 DEF Kept
      <4>3. QED
        BY <2>12, <3>1, <3>3, <4>1, <4>2
    <3>5. CASE k \in Reductions(i)
      <4>1. i = v.id /\ y = sym
        BY <2>5, <2>8, <2>10, <2>17, <3>1, <3>5
      <4>2. Accounted(i)
        BY <2>6, <2>10, <2>17 DEF Accounted
      <4>3. Before(y) = pos[y].size + orders[k].exec
        BY <2>6, <3>1, <3>5 DEF Before
      <4>4. Before(y) >= Floor(i) /\ v.size <= Before(y)
        BY <1>2, <1>3, <2>8, <2>17, <3>1, <4>1, <4>2 DEF Kept
      <4>5. orders[k].exec \in Nat /\ orders[k].exec <= Share(stage, v.size)
        <5>1. IsOrder(orders[k]) /\ orders[k].exec <= orders[k].qty
          BY <2>5, BookKnown
        <5>2. QED
          BY <2>5, <5>1 DEF IsOrder
      <4> DEFINE b == Before(y)
                 e == orders[k].exec
      <4>6. b \in Nat /\ pos[y].size = b - e /\ b - e >= 1
              /\ e \in Nat /\ e <= Share(stage, v.size) /\ b >= Floor(i) /\ v.size <= b
        BY <2>12, <3>1, <4>3, <4>4, <4>5
      <4> HIDE DEF b, e
      <4>7. CASE stage = "tp1"
        <5>1. Floor(i) = plan[i] /\ (Floor(i)' = AfterTp1(plan[i]) \/ Floor(i)' = Runner(plan[i]))
          BY <1>2, <1>5, <2>5, <2>17, <4>1, <4>7 DEF Floor, StageOpen
        <5>2. Share(stage, v.size) = IF (v.size * 40) \div 100 > 1 THEN (v.size * 40) \div 100 ELSE 1
          <6>1. ClosePct(stage) = 40 /\ (v.size * 40) \div 100 \in Nat
            BY <2>8, <4>7 DEF ClosePct
          <6>2. Share(stage, v.size) = Max({1, (v.size * 40) \div 100})
            BY <6>1 DEF Share
          <6>3. QED
            BY <6>1, <6>2, MaxOne
        <5>3. b - e >= AfterTp1(plan[i])
          <6>1. PICK p \in Nat, w \in Nat : p = plan[i] /\ w = v.size
            BY <2>8, <3>1
          <6>2. /\ p >= 1 /\ w >= 1 /\ b >= p /\ w <= b /\ b - e >= 1 /\ b \in Nat /\ e \in Nat
                /\ e <= IF (w * 40) \div 100 > 1 THEN (w * 40) \div 100 ELSE 1
            BY <2>8, <3>1, <4>6, <5>1, <5>2, <6>1
          <6>3. b - e >= AfterTp1(p)
            BY <6>2, Tp1Leaves
          <6>4. QED
            BY <6>1, <6>3
        <5>4. QED
          BY <2>12, <3>1, <3>2, <4>6, <5>1, <5>3
      <4>8. CASE stage = "tp2"
        <5>1. Floor(i) = AfterTp1(plan[i]) /\ Floor(i)' = Runner(plan[i])
          BY <1>2, <1>5, <2>5, <2>17, <4>1, <4>8 DEF Floor, StageOpen
        <5>2. Share(stage, v.size) = IF (v.size * 50) \div 100 > 1 THEN (v.size * 50) \div 100 ELSE 1
          <6>1. ClosePct(stage) = 50 /\ (v.size * 50) \div 100 \in Nat
            BY <2>8, <4>8 DEF ClosePct
          <6>2. Share(stage, v.size) = Max({1, (v.size * 50) \div 100})
            BY <6>1 DEF Share
          <6>3. QED
            BY <6>1, <6>2, MaxOne
        <5>3. b - e >= Runner(plan[i])
          <6>1. PICK p \in Nat, w \in Nat : p = plan[i] /\ w = v.size
            BY <2>8, <3>1
          <6>2. /\ p >= 1 /\ w >= 1 /\ b >= AfterTp1(p) /\ w <= b /\ b - e >= 1 /\ b \in Nat /\ e \in Nat
                /\ e <= IF (w * 50) \div 100 > 1 THEN (w * 50) \div 100 ELSE 1
            BY <2>8, <3>1, <4>6, <5>1, <5>2, <6>1
          <6>3. b - e >= Runner(p)
            BY <6>2, Tp2Leaves
          <6>4. QED
            BY <6>1, <6>3
        <5>4. QED
          BY <2>12, <3>1, <3>2, <4>6, <5>1, <5>3
      <4>9. QED
        BY <2>4, <4>7, <4>8 DEF Stages
    <3>6. QED
      BY <3>4, <3>5
  <2>18. Kept'
    BY <2>17 DEF Kept
  <2>19. QED
    BY <2>3, <2>6, <2>15, <2>16, <2>18 DEF RunnerInv, Others
<1>6. QED
  BY <1>4, <1>5 DEF RecordStage, Raise, Journaled, InTableOnly

\* Every step keeps it.
LEMMA RunnerStep == ASSUME Typed, RunnerInv, [Next]_vars PROVE RunnerInv'
<1>1. Typed'
  BY TypedStep
<1>2. deployment' = deployment
  BY DEF Next, vars, TickBegins, ManageRequested, ManualRequested, SelectSignal, ExecuteGuard, BookSignal, Manage,
         ManageGate, FetchPositions, Decide, PassOver, ClosePartial, VerifyPartial, PollReduced, RecordStage,
         Breakeven, SetTrailing, RecordTrailing, PositionGuard, PlaceEntry, FinalizeEntry, StartBot, StopBot,
         KillRequested, KillFinds, KillCancels, KillCloses, KillVerifies, OrderExecutes, NodeOpens, ProtectionHits,
         NextCandle, Restart, JournalForgets
<1>3. CASE ~Alone
  BY <1>2, <1>3 DEF RunnerInv, Alone
<1>4. CASE Alone /\ UNCHANGED vars
  <2>1. pos' = pos /\ opened' = opened /\ orders' = orders /\ plan' = plan /\ JournalKept /\ thread' = thread
    BY <1>4 DEF JournalKept, vars, exchange, durable
  <2>2. SameStage(mgr, mgr') /\ Others
    BY <1>2, <1>4, <2>1, StandsStill, ManagerStands DEF RunnerInv
  <2>3. QED
    BY <1>1, <1>4, <2>1, <2>2, BookSame, PlacesSame, CalmOther DEF RunnerInv
<1>5. CASE Alone /\ Next
  <2>1. CASE \E t \in {"tick", "manage"} : Manage(t)
    BY <1>1, <1>5, <2>1, GateRunner, FetchRunner, DecideRunner, CloseRunner, VerifyRunner, RecordRunner, ProtectRunner
       DEF Manage
  <2>2. CASE ~\E t \in {"tick", "manage"} : Manage(t)
    BY <1>1, <1>5, <2>2, BystandersRunner, TickRunner, OrderRunner, PlacesRunner, RestartRunner, ForgetsRunner
       DEF Next
  <2>3. QED
    BY <2>1, <2>2
<1>6. QED
  BY <1>3, <1>4, <1>5

\* At the start there is no position.
LEMMA RunnerInit == ASSUME Init PROVE RunnerInv
<1>1. Typed
  BY InitTyped
<1>2. mgr = Idle /\ OthersIdle /\ InFlight = 0
  BY DEF Init, mgr, Manager, OthersIdle, InFlight, Pending, Idle, Thread
<1>3. Numbered
  BY DEF Init, Numbered, OrdersNumbered, NoPosition
<1>4. Rows
  <2>1. \A s \in Symbol : mgr.view[s] = NoView
    BY <1>2 DEF Idle
  <2>2. QED
    BY <2>1 DEF Rows, Row, NoView, Positions
<1>5. Staged
  BY <1>2 DEF Staged, Verified, Pending, Idle
<1>6. Kept
  BY DEF Init, Kept
<1>7. QED
  BY <1>2, <1>3, <1>4, <1>5, <1>6 DEF RunnerInv

\* When every reduction is recorded the order in flight is none of them.
LEMMA RunnerInvKeeps == ASSUME Typed, RunnerInv PROVE RunnerKept
<1>1. SUFFICES ASSUME Alone, NEW s \in Symbol, pos[s].id # 0, plan[pos[s].id] # 0, pos[s].id \notin forgotten,
                      \A k \in Reductions(pos[s].id) : orders[k].recorded /\ orders[k].for = pos[s].id
               PROVE  pos[s].size >= Runner(plan[pos[s].id])
  BY DEF RunnerKept, Alone
<1> DEFINE i == pos[s].id
<1>2. i \in Positions /\ pos[s].size \in Nat
  BY <1>1, BookKnown DEF IsPosition
<1>3. plan[i] \in Nat /\ plan[i] >= 1
  BY <1>1, <1>2, BookKnown
<1>4. Kept /\ Staged
  BY <1>1 DEF RunnerInv
<1> HIDE DEF i
<1>5. Accounted(i)
  BY <1>1 DEF i, Accounted
<1>6. InFlight \notin Reductions(i)
  <2>1. ASSUME InFlight \in Reductions(i) PROVE FALSE
    <3>1. InFlight \in DOMAIN orders /\ InFlight # 0
      BY <2>1, BookKnown DEF Reductions
    <3>2. ~orders[InFlight].recorded
      BY <1>4, <3>1, ManagerKnown DEF Staged, Sends
    <3>3. QED
      BY <1>1, <2>1, <3>2 DEF i
  <2>2. QED
    BY <2>1
<1>7. Before(s) = pos[s].size + 0
  BY <1>6 DEF Before, i
<1>8. Before(s) >= Floor(i)
  BY <1>1, <1>2, <1>4, <1>5 DEF Kept, i
<1>9. Floor(i) \in Nat /\ Floor(i) >= Runner(plan[i]) /\ Runner(plan[i]) \in Nat
  BY <1>3, StageFloors DEF Floor
<1>10. QED
  BY <1>2, <1>7, <1>8, <1>9 DEF i

\* The staged exits of one manager keep the 30% runner: whatever fails, times out
\* or crashes, however the exchange executes and whoever else trades, a position
\* whose reductions were all recorded as its stages has what TP1 and TP2 leave.
THEOREM RunnerIsKept == Spec => []RunnerKept
<1>1. Init => Typed /\ RunnerInv
  BY InitTyped, RunnerInit
<1>2. Typed /\ RunnerInv /\ [Next]_vars => Typed' /\ RunnerInv'
  BY TypedStep, RunnerStep
<1>3. Typed /\ RunnerInv => RunnerKept
  BY RunnerInvKeeps
<1>4. QED
  BY <1>1, <1>2, <1>3, PTL DEF Spec
=============================================================================
