----------------------- MODULE ExecutionHandoffProofs -----------------------
(***************************************************************************)
(* Proofs about the order path, for every set of processes and candidates, *)
(* every queue limit and every deployment: crashes, failing store calls    *)
(* and any number of processes at once included.                           *)
(***************************************************************************)
EXTENDS ExecutionHandoff, TLAPS, FiniteSetTheorems

\* Records: writing one field leaves the others.  No state is "absent" but that
\* of a ledger row nobody wrote.
IsClaim(c) == DOMAIN c = {"id", "key", "state", "fill"}

IsRow(r) == DOMAIN r = {"id", "state", "fill"}

IsMemory(m) ==
  DOMAIN m = {"pc", "ret", "enabled", "ready", "started", "queue", "seen", "cand", "claim",
              "bound", "pend", "mem", "resp"}

MemoryOk(m) ==
  /\ IsMemory(m)
  /\ IsClaim(m.claim) /\ m.claim.state # "absent"
  /\ m.ret \in {"idle", "resolve", "journal", "remove", "delete"}

Shapes ==
  /\ DOMAIN ledger = Candidate /\ \A c \in Candidate : IsRow(ledger[c])
  /\ IsClaim(active) /\ active.state # "absent"
  /\ DOMAIN proc = Proc /\ \A p \in Proc : MemoryOk(proc[p])
  /\ sent \in [Candidate -> Nat]

\* A process that reserved a ledger row and may still send the order for it.
SubmitStep == {"create", "created", "enrich", "own", "place", "post"}
Submitting(p, c) == proc[p].pc \in SubmitStep /\ proc[p].cand = c

\* Only a candidate with a ledger row is on its way to the exchange, in one
\* process, and no request was sent for it before.
Reserved ==
  \A c \in Candidate :
    /\ ledger[c] = NoRow => sent[c] = 0 /\ \A p \in Proc : ~Submitting(p, c)
    /\ \A p, q \in Proc : Submitting(p, c) /\ Submitting(q, c) => p = q
    /\ \A p \in Proc : Submitting(p, c) => sent[c] = 0

\* The claim of such a process is for its candidate.
ClaimsCandidate ==
  \A p \in Proc : proc[p].pc \in SubmitStep \ {"create"} => proc[p].claim.key = proc[p].cand

HandoffInv == Shapes /\ Reserved /\ ClaimsCandidate /\ SubmittedOnce

-----------------------------------------------------------------------------
(* Pieces of a step: the memory of one process, the ledger, the active row *)

OnlyMemory(p) ==
  /\ DOMAIN proc' = Proc /\ \A q \in Proc \ {p} : proc'[q] = proc[q]
  /\ MemoryOk(proc'[p])

LedgerKept ==
  /\ DOMAIN ledger' = Candidate
  /\ \A c \in Candidate : IsRow(ledger'[c]) /\ (ledger'[c] = NoRow => ledger[c] = NoRow)

ActiveKept == IsClaim(active') /\ active'.state # "absent"

\* The process goes on with the candidate it had reserved, or with none.
StaysWithCandidate(p) ==
  proc'[p].pc \in SubmitStep =>
    /\ proc[p].pc \in SubmitStep /\ proc'[p].cand = proc[p].cand
    /\ proc'[p].pc # "create" => proc'[p].claim.key = proc'[p].cand

LEMMA LocalStep ==
  ASSUME HandoffInv, NEW p \in Proc, OnlyMemory(p), LedgerKept, ActiveKept, sent' = sent,
         StaysWithCandidate(p)
  PROVE  HandoffInv'
<1>1. Shapes'
  BY DEF HandoffInv, Shapes, OnlyMemory, LedgerKept, ActiveKept
<1>2. ASSUME NEW q \in Proc, NEW c, Submitting(q, c)' PROVE Submitting(q, c)
  BY <1>2 DEF Submitting, OnlyMemory, StaysWithCandidate
<1>3. Reserved'
  BY <1>2 DEF HandoffInv, Reserved, LedgerKept
<1>4. ClaimsCandidate'
  BY DEF HandoffInv, ClaimsCandidate, OnlyMemory, StaysWithCandidate, SubmitStep
<1>5. SubmittedOnce' BY DEF HandoffInv, SubmittedOnce
<1> QED BY <1>1, <1>3, <1>4, <1>5 DEF HandoffInv

LEMMA LedgerSame == ASSUME Shapes, ledger' = ledger PROVE LedgerKept
BY DEF Shapes, LedgerKept

LEMMA LedgerSynced ==
  ASSUME Shapes, NEW c, c.state # "absent", ledger' = Synced(c) PROVE LedgerKept
<1>1. ASSUME NEW d \in Candidate PROVE IsRow(ledger'[d]) /\ (ledger'[d] = NoRow => ledger[d] = NoRow)
  <2>1. CASE d = c.key
    <3>1. ledger'[d] = [id |-> c.id, state |-> c.state, fill |-> c.fill] BY <2>1 DEF Synced, Shapes
    <3> QED BY <3>1 DEF IsRow, NoRow
  <2>2. CASE d # c.key BY <2>2 DEF Synced, Shapes
  <2> QED BY <2>1, <2>2
<1> QED BY <1>1 DEF LedgerKept, Synced, Shapes

\* A row in which only the state is written.
LEMMA LedgerMarked ==
  ASSUME Shapes, NEW c, NEW s \in {"RESERVED", "ACTIVE_CLAIM_CONFLICT", "CLAIM_CREATION_ERROR"},
         \/ ledger' = [ledger EXCEPT ![c].state = s]
         \/ ledger' = [ledger EXCEPT ![c] = [NoRow EXCEPT !.state = s]]
  PROVE  LedgerKept
<1>1. ASSUME NEW d \in Candidate PROVE IsRow(ledger'[d]) /\ (ledger'[d] = NoRow => ledger[d] = NoRow)
  <2>1. CASE d = c
    <3>1. ledger'[d] \in {[ledger[d] EXCEPT !.state = s], [NoRow EXCEPT !.state = s]}
      BY <2>1 DEF Shapes
    <3>2. IsRow(ledger[d]) BY DEF Shapes
    <3>3. IsRow(ledger'[d]) /\ ledger'[d].state = s BY <3>1, <3>2 DEF IsRow, NoRow
    <3> QED BY <3>3 DEF NoRow
  <2>2. CASE d # c BY <2>2 DEF Shapes
  <2> QED BY <2>1, <2>2
<1> QED BY <1>1 DEF LedgerKept, Shapes

LEMMA Goes ==
  ASSUME Shapes, NEW p \in Proc, NEW s, Goto(p, s)
  PROVE  /\ OnlyMemory(p) /\ proc'[p].pc = s
         /\ proc'[p].cand = proc[p].cand /\ proc'[p].claim = proc[p].claim
BY DEF Shapes, Goto, OnlyMemory, MemoryOk, IsMemory

LEMMA Ends ==
  ASSUME Shapes, NEW p \in Proc, NEW enabled, Return(p, enabled)
  PROVE  OnlyMemory(p) /\ StaysWithCandidate(p)
<1>1. proc'[p] = Returned(proc[p], enabled) /\ DOMAIN proc' = Proc
      /\ \A q \in Proc \ {p} : proc'[q] = proc[q]
  BY DEF Shapes, Return
<1>2. IsMemory(proc[p]) BY DEF Shapes, MemoryOk
<1>3. MemoryOk(Returned(proc[p], enabled)) /\ Returned(proc[p], enabled).pc = "idle"
  BY <1>2 DEF Returned, MemoryOk, IsMemory, IsClaim, NoClaim
<1> QED BY <1>1, <1>3 DEF OnlyMemory, StaysWithCandidate, SubmitStep

LEMMA Raises ==
  ASSUME Shapes, NEW p \in Proc, Raise(p)
  PROVE  OnlyMemory(p) /\ StaysWithCandidate(p)
<1>1. \/ Goto(p, "except") \/ Goto(p, "failed") \/ Return(p, FALSE) \/ Return(p, proc[p].enabled)
  BY DEF Raise
<1>2. CASE Goto(p, "except") \/ Goto(p, "failed")
  BY <1>2, Goes DEF StaysWithCandidate, SubmitStep
<1> QED BY <1>1, <1>2, Ends

LEMMA Puts ==
  ASSUME HandoffInv, NEW p \in Proc, NEW c, IsClaim(c), c.state # "absent",
         NEW then \in {"resolve", "journal", "remove", "delete"}, PutClaim(p, c, then)
  PROVE  HandoffInv'
<1>1. Shapes BY DEF HandoffInv
<1>2. OnlyMemory(p) /\ proc'[p].pc = "sync"
  BY <1>1 DEF Shapes, PutClaim, OnlyMemory, MemoryOk, IsMemory
<1>3. LedgerKept /\ ActiveKept /\ sent' = sent
  BY <1>1, LedgerSame DEF PutClaim, ActiveKept, exchange
<1> QED BY <1>2, <1>3, LocalStep DEF StaysWithCandidate, SubmitStep

LEMMA Restated ==
  ASSUME NEW c, IsClaim(c), NEW s, NEW f
  PROVE  /\ IsClaim([c EXCEPT !.state = s]) /\ [c EXCEPT !.state = s].state = s
         /\ IsClaim([c EXCEPT !.state = s, !.fill = f])
         /\ [c EXCEPT !.state = s, !.fill = f].state = s
         /\ [c EXCEPT !.state = s].key = c.key
BY DEF IsClaim

-----------------------------------------------------------------------------
LEMMA HandoffInit == Init => HandoffInv
<1> SUFFICES ASSUME Init PROVE HandoffInv OBVIOUS
<1>1. Shapes
  BY DEF Init, Shapes, NoRow, IsRow, NoClaim, IsClaim, Down, MemoryOk, IsMemory
<1>2. \A p \in Proc : proc[p].pc = "down" BY DEF Init, Down
<1> QED BY <1>1, <1>2 DEF HandoffInv, Reserved, ClaimsCandidate, SubmittedOnce, Init, Submitting,
                          SubmitStep

\* Steps of a process that write its memory only, and not the claim it submits.
LEMMA MemoryStep ==
  ASSUME HandoffInv, NEW p \in Proc, OnlyMemory(p), StaysWithCandidate(p),
         ledger' = ledger, active' = active, sent' = sent
  PROVE  HandoffInv'
<1>1. LedgerKept BY LedgerSame DEF HandoffInv
<1>2. ActiveKept BY DEF HandoffInv, Shapes, ActiveKept
<1> QED BY <1>1, <1>2, LocalStep

LEMMA StartStep ==
  ASSUME HandoffInv, NEW p \in Proc,
         Boot(p) \/ Bootstrap(p) \/ Crash(p) \/ StartBot(p) \/ StopBot(p)
  PROVE  HandoffInv'
<1>0. Shapes BY DEF HandoffInv
<1> USE DEF Shapes, MemoryOk
<1>1. CASE Boot(p)
  <2>1. PICK m, b : proc' = [proc EXCEPT ![p].pc = "boot", ![p].mem = m, ![p].pend = pendingDb,
                                         ![p].claim = active, ![p].ready = b]
    BY <1>1 DEF Boot
  <2>2. OnlyMemory(p) /\ proc'[p].pc = "boot" BY <1>0, <2>1 DEF OnlyMemory, IsMemory
  <2> QED BY <1>1, <2>2, MemoryStep DEF Boot, store, exchange, StaysWithCandidate, SubmitStep
<1>2. CASE Bootstrap(p)
  <2>1. OnlyMemory(p) /\ proc'[p].pc \in {"idle", "down"}
    BY <1>0, <1>2 DEF Bootstrap, OnlyMemory, IsMemory, Down, NoClaim, IsClaim
  <2>2. StaysWithCandidate(p) BY <2>1 DEF StaysWithCandidate, SubmitStep
  <2>3. LedgerKept BY <1>0, <1>2, LedgerSame, LedgerSynced DEF Bootstrap
  <2>4. ActiveKept /\ sent' = sent BY <1>0, <1>2 DEF Bootstrap, ActiveKept, exchange
  <2> QED BY <2>1, <2>2, <2>3, <2>4, LocalStep
<1>3. CASE Crash(p)
  <2>1. OnlyMemory(p) /\ proc'[p].pc = "down"
    BY <1>0, <1>3 DEF Crash, OnlyMemory, IsMemory, Down, NoClaim, IsClaim
  <2> QED BY <1>3, <2>1, MemoryStep DEF Crash, store, exchange, StaysWithCandidate, SubmitStep
<1>4. CASE StartBot(p) \/ StopBot(p)
  <2>1. OnlyMemory(p) /\ proc'[p].pc = proc[p].pc /\ proc'[p].cand = proc[p].cand
        /\ proc'[p].claim = proc[p].claim
    BY <1>0, <1>4 DEF StartBot, StopBot, OnlyMemory, IsMemory
  <2>2. StaysWithCandidate(p) BY <2>1 DEF StaysWithCandidate, HandoffInv, ClaimsCandidate
  <2> QED BY <1>4, <2>1, <2>2, MemoryStep DEF StartBot, StopBot, store, exchange
<1> QED BY <1>1, <1>2, <1>3, <1>4

LEMMA EvaluateStep ==
  ASSUME HandoffInv, NEW p \in Proc, NEW c, EvaluateSymbol(p, c) PROVE HandoffInv'
<1>1. Shapes BY DEF HandoffInv
<1>2. OnlyMemory(p) /\ proc'[p].pc = proc[p].pc /\ proc'[p].cand = proc[p].cand
      /\ proc'[p].claim = proc[p].claim
  BY <1>1 DEF EvaluateSymbol, OnlyMemory, Shapes, MemoryOk, IsMemory
<1>3. StaysWithCandidate(p) BY <1>2 DEF StaysWithCandidate, HandoffInv, ClaimsCandidate
<1> QED BY <1>2, <1>3, MemoryStep DEF EvaluateSymbol, store, exchange

\* run_once before the reservation.
LEMMA BeforeClaim ==
  ASSUME HandoffInv, NEW p \in Proc,
         ClaimStore(p) \/ LoadClaim(p) \/ RemoveCandidate(p) \/ GuardBlocks(p) \/ PendingFillGuard(p)
  PROVE  HandoffInv'
<1>0. Shapes BY DEF HandoffInv
<1>1. CASE ClaimStore(p)
  <2>1. Goto(p, "load") \/ Return(p, FALSE) BY <1>1 DEF ClaimStore
  <2>2. OnlyMemory(p) /\ StaysWithCandidate(p)
    <3>1. CASE Goto(p, "load")
      <4>1. OnlyMemory(p) /\ proc'[p].pc = "load" BY <1>0, <3>1, Goes
      <4> QED BY <4>1 DEF StaysWithCandidate, SubmitStep
    <3>2. CASE Return(p, FALSE) BY <1>0, <3>2, Ends
    <3> QED BY <2>1, <3>1, <3>2
  <2> QED BY <1>1, <2>2, MemoryStep DEF ClaimStore, store, exchange
<1>2. CASE LoadClaim(p)
  <2>1. OnlyMemory(p) /\ StaysWithCandidate(p)
    <3>1. CASE \E enabled : Return(p, enabled) BY <1>0, <3>1, Ends
    <3>2. CASE ~\E enabled : Return(p, enabled)
      <4>1. \/ proc' = [proc EXCEPT ![p].claim = active, ![p].pc = "replay"]
            \/ proc' = [proc EXCEPT ![p].claim = active, ![p].pc = "remove"]
            \/ proc' = [proc EXCEPT ![p].cand = Head(proc[p].queue), ![p].pc = "check"]
        BY <1>2, <3>2 DEF LoadClaim
      <4>2. OnlyMemory(p) /\ proc'[p].pc \in {"replay", "remove", "check"}
        BY <1>0, <4>1 DEF Shapes, OnlyMemory, MemoryOk, IsMemory
      <4> QED BY <4>2 DEF StaysWithCandidate, SubmitStep
    <3> QED BY <3>1, <3>2
  <2> QED BY <1>2, <2>1, MemoryStep DEF LoadClaim, store, exchange
<1>3. CASE RemoveCandidate(p)
  <2>1. OnlyMemory(p) /\ proc'[p].pc = "idle"
    BY <1>0, <1>3 DEF RemoveCandidate, Shapes, OnlyMemory, MemoryOk, IsMemory
  <2> QED BY <1>3, <2>1, MemoryStep
          DEF RemoveCandidate, store, exchange, StaysWithCandidate, SubmitStep
<1>4. CASE GuardBlocks(p) BY <1>0, <1>4, Ends, MemoryStep DEF GuardBlocks, store, exchange
<1>5. CASE PendingFillGuard(p)
  <2>1. OnlyMemory(p) /\ proc'[p].pc \in {"reserve", "idle"}
    <3>1. CASE Goto(p, "reserve") BY <1>0, <3>1, Goes
    <3>2. CASE ~Goto(p, "reserve")
      BY <1>0, <1>5, <3>2 DEF PendingFillGuard, Shapes, OnlyMemory, MemoryOk, IsMemory
    <3> QED BY <3>1, <3>2
  <2> QED BY <1>5, <2>1, MemoryStep DEF PendingFillGuard, exchange, StaysWithCandidate, SubmitStep
<1> QED BY <1>1, <1>2, <1>3, <1>4, <1>5

\* The reservation: the candidate had no row, so nobody works on it and no
\* request was sent for it.
LEMMA ReserveStep == ASSUME HandoffInv, NEW p \in Proc, Reserve(p) PROVE HandoffInv'
<1> DEFINE c == proc[p].cand
<1>0. Shapes BY DEF HandoffInv
<1>1. CASE ledger[c] # NoRow
  BY <1>0, <1>1, Ends, MemoryStep DEF Reserve, exchange
<1>2. CASE ledger[c] = NoRow
  <2>1. ledger' = [ledger EXCEPT ![c] = [NoRow EXCEPT !.state = "RESERVED"]] /\ Goto(p, "create")
    BY <1>2 DEF Reserve
  <2>2. LedgerKept BY <1>0, <2>1, LedgerMarked
  <2>3. OnlyMemory(p) /\ proc'[p].pc = "create" /\ proc'[p].cand = c
    BY <1>0, <2>1, Goes
  <2>4. Shapes'
    BY <1>0, <2>2, <2>3 DEF Shapes, OnlyMemory, LedgerKept, Reserve, exchange
  <2>5. Reserved'
    <3> SUFFICES ASSUME NEW d \in Candidate
                 PROVE  /\ ledger'[d] = NoRow => sent'[d] = 0 /\ \A q \in Proc : ~Submitting(q, d)'
                        /\ \A q, r \in Proc : Submitting(q, d)' /\ Submitting(r, d)' => q = r
                        /\ \A q \in Proc : Submitting(q, d)' => sent'[d] = 0
      BY DEF Reserved
    <3>1. sent' = sent BY DEF Reserve, exchange
    <3>2. \A q \in Proc \ {p} : Submitting(q, d)' <=> Submitting(q, d)
      BY <2>3 DEF OnlyMemory, Submitting
    <3>3. CASE d = c
      <4>1. sent[d] = 0 /\ \A q \in Proc : ~Submitting(q, d)
        BY <1>2, <3>3 DEF HandoffInv, Reserved
      <4>2. ledger'[d] # NoRow BY <1>0, <2>1, <3>3 DEF Shapes, NoRow
      <4> QED BY <4>1, <4>2, <3>1, <3>2
    <3>4. CASE d # c
      <4>1. ~Submitting(p, d)' BY <2>3, <3>4 DEF Submitting
      <4> QED BY <4>1, <2>2, <3>1, <3>2 DEF HandoffInv, Reserved, LedgerKept
    <3> QED BY <3>3, <3>4
  <2>6. ClaimsCandidate'
    BY <2>3 DEF HandoffInv, ClaimsCandidate, OnlyMemory
  <2>7. SubmittedOnce' BY DEF HandoffInv, SubmittedOnce, Reserve, exchange
  <2> QED BY <2>4, <2>5, <2>6, <2>7 DEF HandoffInv
<1> QED BY <1>1, <1>2

LEMMA ClaimSteps ==
  ASSUME HandoffInv, NEW p \in Proc,
         \/ CreateClaim(p) \/ ReloadClaim(p) \/ ClaimConflict(p) \/ ClaimCreationError(p)
         \/ EnrichClaim(p) \/ OwnLedger(p)
  PROVE  HandoffInv'
<1>0. Shapes BY DEF HandoffInv
<1>a. ASSUME proc[p].pc \in SubmitStep \ {"create"} PROVE proc[p].claim.key = proc[p].cand
  BY <1>a DEF HandoffInv, ClaimsCandidate
<1>1. CASE CreateClaim(p)
  <2> DEFINE c == [id |-> serial + 1, key |-> proc[p].cand, state |-> "CLAIMED", fill |-> FALSE]
  <2>1. CASE active = NoClaim
    <3>1. active' = c /\ proc' = [proc EXCEPT ![p].claim = c, ![p].pc = "created"]
          /\ proc[p].pc = "create"
      BY <1>1, <2>1 DEF CreateClaim, At
    <3>2. OnlyMemory(p) /\ proc'[p].pc = "created" /\ proc'[p].claim = c
          /\ proc'[p].cand = proc[p].cand
      BY <1>0, <3>1 DEF Shapes, OnlyMemory, MemoryOk, IsMemory, IsClaim
    <3>3. StaysWithCandidate(p) BY <3>1, <3>2 DEF StaysWithCandidate, SubmitStep
    <3>4. LedgerKept /\ ActiveKept /\ sent' = sent
      BY <1>0, <1>1, <3>1, LedgerSame DEF CreateClaim, exchange, ActiveKept, IsClaim
    <3> QED BY <3>2, <3>3, <3>4, LocalStep
  <2>2. CASE active # NoClaim
    <3>1. Goto(p, "conflict") /\ active' = active BY <1>1, <2>2 DEF CreateClaim
    <3> QED BY <1>0, <1>1, <3>1, Goes, MemoryStep
            DEF CreateClaim, exchange, StaysWithCandidate, SubmitStep
  <2> QED BY <2>1, <2>2
<1>2. CASE ReloadClaim(p)
  <2>1. OnlyMemory(p) /\ StaysWithCandidate(p)
    <3>1. CASE Goto(p, "enrich")
      BY <1>0, <1>2, <1>a, <3>1, Goes DEF ReloadClaim, At, StaysWithCandidate, SubmitStep
    <3>2. CASE Raise(p) BY <1>0, <3>2, Raises
    <3> QED BY <1>2, <3>1, <3>2 DEF ReloadClaim
  <2> QED BY <1>2, <2>1, MemoryStep DEF ReloadClaim, store, exchange
<1>3. CASE ClaimConflict(p) \/ ClaimCreationError(p)
  <2>1. OnlyMemory(p) /\ StaysWithCandidate(p)
    BY <1>0, <1>3, Ends DEF ClaimConflict, ClaimCreationError
  <2>2. LedgerKept
    BY <1>0, <1>3, LedgerMarked DEF ClaimConflict, ClaimCreationError
  <2>3. ActiveKept /\ sent' = sent
    BY <1>0, <1>3 DEF ClaimConflict, ClaimCreationError, exchange, Shapes, ActiveKept
  <2> QED BY <2>1, <2>2, <2>3, LocalStep
<1>4. CASE EnrichClaim(p)
  <2>1. OnlyMemory(p) /\ StaysWithCandidate(p)
    BY <1>0, <1>4, <1>a, Goes DEF EnrichClaim, At, StaysWithCandidate, SubmitStep
  <2>2. LedgerKept BY <1>0, <1>4, LedgerSame DEF EnrichClaim
  <2>3. ActiveKept /\ sent' = sent
    BY <1>0, <1>4 DEF EnrichClaim, exchange, Shapes, MemoryOk, ActiveKept
  <2> QED BY <2>1, <2>2, <2>3, LocalStep
<1>5. CASE OwnLedger(p)
  <2>1. OnlyMemory(p) /\ proc'[p].pc = "place" /\ proc'[p].cand = proc[p].cand
        /\ proc'[p].claim = proc[p].claim
    BY <1>0, <1>5 DEF OwnLedger, Shapes, OnlyMemory, MemoryOk, IsMemory
  <2>2. StaysWithCandidate(p)
    BY <1>5, <1>a, <2>1 DEF OwnLedger, At, StaysWithCandidate, SubmitStep
  <2>3. LedgerKept BY <1>0, <1>5, LedgerSynced DEF OwnLedger, Shapes, MemoryOk
  <2>4. ActiveKept /\ sent' = sent BY <1>0, <1>5 DEF OwnLedger, exchange, Shapes, ActiveKept
  <2> QED BY <2>1, <2>2, <2>3, <2>4, LocalStep
<1> QED BY <1>1, <1>2, <1>3, <1>4, <1>5

\* The order request: the process leaves the steps that may send one.
LEMMA CreateOrderStep == ASSUME HandoffInv, NEW p \in Proc, CreateOrder(p) PROVE HandoffInv'
<1> DEFINE c == proc[p].claim.key
<1>0. Shapes BY DEF HandoffInv
<1>1. sent' = [sent EXCEPT ![c] = @ + 1] /\ proc[p].pc = "post" BY DEF CreateOrder, At
<1>2. OnlyMemory(p) /\ proc'[p].pc \in {"verify", "mark"}
  <2>1. CASE Goto(p, "verify") BY <1>0, <2>1, Goes
  <2>2. CASE ~Goto(p, "verify")
    <3>1. PICK r : proc' = [proc EXCEPT ![p].resp = r, ![p].pc = "mark"] BY <2>2 DEF CreateOrder
    <3> QED BY <1>0, <3>1 DEF Shapes, OnlyMemory, MemoryOk, IsMemory
  <2> QED BY <2>1, <2>2
<1>3. Submitting(p, c)
  BY <1>1 DEF HandoffInv, ClaimsCandidate, Submitting, SubmitStep
<1>4. ledger' = ledger /\ active' = active BY DEF CreateOrder, store
<1>5. Shapes'
  <2>1. sent' \in [Candidate -> Nat]
    <3>1. sent \in [Candidate -> Nat] BY <1>0 DEF Shapes
    <3>2. CASE c \in Candidate BY <1>1, <3>1, <3>2
    <3>3. CASE c \notin Candidate
      <4>1. sent' = sent BY <1>1, <3>1, <3>3
      <4> QED BY <3>1, <4>1
    <3> QED BY <3>2, <3>3
  <2>2. DOMAIN proc' = Proc /\ \A q \in Proc : MemoryOk(proc'[q])
    BY <1>0, <1>2 DEF Shapes, OnlyMemory
  <2> QED BY <1>0, <1>4, <2>1, <2>2 DEF Shapes
<1>6. ASSUME NEW d \in Candidate
      PROVE  ~Submitting(p, d)' /\ \A q \in Proc \ {p} : Submitting(q, d)' <=> Submitting(q, d)
  BY <1>2 DEF OnlyMemory, Submitting, SubmitStep
<1>7. Reserved'
  <2> SUFFICES ASSUME NEW d \in Candidate
               PROVE  /\ ledger'[d] = NoRow => sent'[d] = 0 /\ \A q \in Proc : ~Submitting(q, d)'
                      /\ \A q, r \in Proc : Submitting(q, d)' /\ Submitting(r, d)' => q = r
                      /\ \A q \in Proc : Submitting(q, d)' => sent'[d] = 0
    BY DEF Reserved
  <2>1. CASE d = c
    <3>1. ledger[d] # NoRow /\ \A q \in Proc \ {p} : ~Submitting(q, d)
      BY <1>3, <2>1 DEF HandoffInv, Reserved
    <3> QED BY <1>4, <1>6, <3>1
  <2>2. CASE d # c
    <3>1. sent'[d] = sent[d] BY <1>0, <1>1, <2>2 DEF Shapes
    <3> QED BY <1>4, <1>6, <3>1 DEF HandoffInv, Reserved
  <2> QED BY <2>1, <2>2
<1>8. ClaimsCandidate'
  BY <1>2 DEF HandoffInv, ClaimsCandidate, OnlyMemory, SubmitStep
<1>9. SubmittedOnce'
  <2> SUFFICES ASSUME NEW d \in Candidate PROVE sent'[d] <= 1 BY DEF SubmittedOnce
  <2>1. CASE d = c
    <3>1. sent[d] = 0 BY <1>3, <2>1 DEF HandoffInv, Reserved
    <3> QED BY <1>0, <1>1, <2>1, <3>1 DEF Shapes
  <2>2. CASE d # c BY <1>0, <1>1, <2>2 DEF Shapes, HandoffInv, SubmittedOnce
  <2> QED BY <2>1, <2>2
<1> QED BY <1>5, <1>7, <1>8, <1>9 DEF HandoffInv

\* What happens between the claim and the order request, or after the request,
\* and writes neither the active claim nor the ledger.
LEMMA PlaceSteps ==
  ASSUME HandoffInv, NEW p \in Proc,
         BlockedLocally(p) \/ GenerateOrderLinkId(p) \/ FinalizeEntryOrder(p)
  PROVE  HandoffInv'
<1>0. Shapes BY DEF HandoffInv
<1>1. CASE BlockedLocally(p)
  <2>1. OnlyMemory(p) /\ proc'[p].pc = "mark"
    BY <1>0, <1>1 DEF BlockedLocally, Shapes, OnlyMemory, MemoryOk, IsMemory
  <2> QED BY <1>1, <2>1, MemoryStep
          DEF BlockedLocally, store, exchange, StaysWithCandidate, SubmitStep
<1>2. CASE GenerateOrderLinkId(p)
  <2>1. PICK s \in {"post", "except"} : proc' = [proc EXCEPT ![p].bound = 0, ![p].pc = s]
    BY <1>2 DEF GenerateOrderLinkId
  <2>2. OnlyMemory(p) /\ proc'[p].pc = s /\ proc'[p].cand = proc[p].cand
        /\ proc'[p].claim = proc[p].claim
    BY <1>0, <2>1 DEF Shapes, OnlyMemory, MemoryOk, IsMemory
  <2>3. proc[p].pc = "place" BY <1>2 DEF GenerateOrderLinkId, At
  <2>4. StaysWithCandidate(p)
    BY <2>2, <2>3 DEF HandoffInv, ClaimsCandidate, StaysWithCandidate, SubmitStep
  <2> QED BY <1>2, <2>2, <2>4, MemoryStep DEF GenerateOrderLinkId, store, exchange
<1>3. CASE FinalizeEntryOrder(p)
  <2>1. PICK r, e : proc' = [proc EXCEPT ![p].resp = r, ![p].pend = e, ![p].pc = "mark"]
    <3> DEFINE c == proc[p].claim.key
    <3>1. PICK v : proc' = [proc EXCEPT
              ![p].resp = [ret |-> IF v = "filled" THEN "ok" ELSE "block", ver |-> v],
              ![p].pend = CASE v \in Unresolved -> c [] v = "filled" /\ @ = c -> None [] OTHER -> @,
              ![p].pc = "mark"]
      BY <1>3 DEF FinalizeEntryOrder
    <3> DEFINE pend == CASE v \in Unresolved -> c
                         [] v = "filled" /\ proc[p].pend = c -> None
                         [] OTHER -> proc[p].pend
    <3>2. proc' = [proc EXCEPT
              ![p].resp = [ret |-> IF v = "filled" THEN "ok" ELSE "block", ver |-> v],
              ![p].pend = pend, ![p].pc = "mark"]
      BY <3>1
    <3> QED BY <3>2
  <2>2. OnlyMemory(p) /\ proc'[p].pc = "mark"
    BY <1>0, <2>1 DEF Shapes, OnlyMemory, MemoryOk, IsMemory
  <2> QED BY <1>3, <2>2, MemoryStep DEF FinalizeEntryOrder, exchange, StaysWithCandidate, SubmitStep
<1> QED BY <1>1, <1>2, <1>3

\* The claim's transitions.
LEMMA TransitionSteps ==
  ASSUME HandoffInv, NEW p \in Proc,
         \/ MarkSubmitted(p) \/ SyncLedger(p) \/ Resolve(p) \/ AccountingRestored(p)
         \/ Complete(p) \/ ClearClaim(p) \/ SubmissionUnknown(p)
  PROVE  HandoffInv'
<1>0. Shapes BY DEF HandoffInv
<1>a. IsClaim(proc[p].claim) /\ proc[p].claim.state # "absent" BY <1>0 DEF Shapes, MemoryOk
<1>1. CASE MarkSubmitted(p) BY <1>1, <1>a, Restated, Puts DEF MarkSubmitted
<1>2. CASE SyncLedger(p)
  <2> DEFINE c == proc[p].claim
  <2>1. CASE SameOwner(c)
    <3>1. LedgerKept BY <1>0, <1>2, <1>a, <2>1, LedgerSynced DEF SyncLedger
    <3>2. OnlyMemory(p) /\ StaysWithCandidate(p)
      <4>1. CASE proc[p].ret = "idle" BY <1>0, <1>2, <2>1, <4>1, Ends DEF SyncLedger
      <4>2. CASE proc[p].ret # "idle"
        <5>1. proc' = [proc EXCEPT ![p].bound = 0, ![p].pc = proc[p].ret]
          BY <1>2, <2>1, <4>2 DEF SyncLedger
        <5>2. OnlyMemory(p) /\ proc'[p].pc = proc[p].ret
          BY <1>0, <5>1 DEF Shapes, OnlyMemory, MemoryOk, IsMemory
        <5> QED BY <1>0, <5>2 DEF Shapes, MemoryOk, StaysWithCandidate, SubmitStep
      <4> QED BY <4>1, <4>2
    <3>3. ActiveKept /\ sent' = sent BY <1>0, <1>2 DEF SyncLedger, Shapes, ActiveKept, exchange
    <3> QED BY <3>1, <3>2, <3>3, LocalStep
  <2>2. CASE ~SameOwner(c)
    <3>1. Raise(p) /\ ledger' = ledger BY <1>2, <2>2 DEF SyncLedger
    <3>2. OnlyMemory(p) /\ StaysWithCandidate(p) BY <1>0, <3>1, Raises
    <3> QED BY <1>2, <3>1, <3>2, MemoryStep DEF SyncLedger, exchange
  <2> QED BY <2>1, <2>2
<1>3. CASE Resolve(p)
  <2> DEFINE s == FillDecision(proc[p].resp)
  <2>1. PutClaim(p, [proc[p].claim EXCEPT !.state = s, !.fill = s = "RESOLVED_FILLED"], "journal")
    BY <1>3 DEF Resolve
  <2>2. s # "absent" BY DEF FillDecision
  <2> DEFINE d == [proc[p].claim EXCEPT !.state = s, !.fill = s = "RESOLVED_FILLED"]
  <2>3. IsClaim(d) /\ d.state = s BY <1>a DEF IsClaim
  <2> HIDE DEF s, d
  <2>4. PutClaim(p, d, "journal") BY <2>1 DEF s, d
  <2> QED BY <2>2, <2>3, <2>4, Puts
<1>4. CASE AccountingRestored(p) BY <1>4, <1>a, Puts DEF AccountingRestored
<1>5. CASE Complete(p) BY <1>5, <1>a, Restated, Puts DEF Complete
<1>6. CASE ClearClaim(p)
  <2>1. OnlyMemory(p) /\ StaysWithCandidate(p) BY <1>0, <1>6, Ends DEF ClearClaim
  <2>2. LedgerKept BY <1>0, <1>6, LedgerSame DEF ClearClaim
  <2>3. ActiveKept /\ sent' = sent
    BY <1>6 DEF ClearClaim, ActiveKept, NoClaim, IsClaim, exchange
  <2> QED BY <2>1, <2>2, <2>3, LocalStep
<1>7. CASE SubmissionUnknown(p)
  <2>0. ledger' = ledger /\ sent' = sent BY <1>7 DEF SubmissionUnknown, exchange
  <2>1. CASE active' = [proc[p].claim EXCEPT !.state = "SUBMISSION_UNKNOWN"] /\ ~Return(p, FALSE)
    <3>1. proc' = [proc EXCEPT ![p].claim = active', ![p].pc = "sync", ![p].ret = "idle",
                               ![p].started = FALSE, ![p].enabled = FALSE, ![p].bound = 0]
      BY <1>7, <2>1 DEF SubmissionUnknown
    <3>2. ActiveKept BY <1>a, <2>1 DEF ActiveKept, IsClaim
    <3>3. OnlyMemory(p) /\ proc'[p].pc = "sync"
      BY <1>0, <3>1, <3>2 DEF Shapes, OnlyMemory, MemoryOk, IsMemory, ActiveKept
    <3>4. LedgerKept BY <1>0, <2>0, LedgerSame
    <3> QED BY <2>0, <3>2, <3>3, <3>4, LocalStep DEF StaysWithCandidate, SubmitStep
  <2>2. CASE active' = active /\ Return(p, FALSE)
    BY <1>0, <2>0, <2>2, Ends, MemoryStep
  <2>3. CASE active' = [proc[p].claim EXCEPT !.state = "SUBMISSION_UNKNOWN"] /\ Return(p, FALSE)
    <3>1. OnlyMemory(p) /\ StaysWithCandidate(p) BY <1>0, <2>3, Ends
    <3>2. ActiveKept BY <1>a, <2>3 DEF ActiveKept, IsClaim
    <3>3. LedgerKept BY <1>0, <2>0, LedgerSame
    <3> QED BY <2>0, <3>1, <3>2, <3>3, LocalStep
  <2> QED BY <1>7, <2>1, <2>2, <2>3 DEF SubmissionUnknown
<1> QED BY <1>1, <1>2, <1>3, <1>4, <1>5, <1>6, <1>7

\* The journal, the queue and exceptions.
LEMMA BookingSteps ==
  ASSUME HandoffInv, NEW p \in Proc,
         \/ JournalOrder(p) \/ BookResult(p) \/ ReplayAccounting(p) \/ NoteReplay(p)
         \/ RemoveExactCandidate(p) \/ StoreFault(p)
  PROVE  HandoffInv'
<1>0. Shapes BY DEF HandoffInv
<1>1. CASE JournalOrder(p)
  BY <1>0, <1>1, Goes, MemoryStep DEF JournalOrder, exchange, StaysWithCandidate, SubmitStep
<1>2. CASE BookResult(p)
  <2> DEFINE noted == [proc EXCEPT ![p].mem = @ \cup {proc[p].claim.id}]
  <2>1. DOMAIN noted = Proc /\ MemoryOk(noted[p]) /\ \A q \in Proc \ {p} : noted[q] = proc[q]
    BY <1>0 DEF Shapes, MemoryOk, IsMemory
  <2>2. \/ proc' = [noted EXCEPT ![p].pc = "remove"]
        \/ proc' = [noted EXCEPT ![p] = Returned(@, FALSE)]
    BY <1>2 DEF BookResult
  <2> HIDE DEF noted
  <2>3. MemoryOk(Returned(noted[p], FALSE)) /\ Returned(noted[p], FALSE).pc = "idle"
    BY <2>1 DEF Returned, MemoryOk, IsMemory, IsClaim, NoClaim
  <2>4. CASE proc' = [noted EXCEPT ![p].pc = "remove"]
    <3>1. OnlyMemory(p) /\ proc'[p].pc = "remove"
      BY <2>1, <2>4 DEF OnlyMemory, MemoryOk, IsMemory
    <3> QED BY <1>2, <3>1, MemoryStep DEF BookResult, store, exchange, StaysWithCandidate, SubmitStep
  <2>5. CASE proc' = [noted EXCEPT ![p] = Returned(@, FALSE)]
    <3>1. OnlyMemory(p) /\ proc'[p].pc = "idle" BY <2>1, <2>3, <2>5 DEF OnlyMemory
    <3> QED BY <1>2, <3>1, MemoryStep DEF BookResult, store, exchange, StaysWithCandidate, SubmitStep
  <2> QED BY <2>2, <2>4, <2>5
<1>3. CASE ReplayAccounting(p)
  <2>1. Goto(p, "replayed") \/ Goto(p, "replayNoted") BY <1>3 DEF ReplayAccounting
  <2>2. OnlyMemory(p) /\ proc'[p].pc \in {"replayed", "replayNoted"} BY <1>0, <2>1, Goes
  <2> QED BY <1>3, <2>2, MemoryStep DEF ReplayAccounting, exchange, StaysWithCandidate, SubmitStep
<1>4. CASE NoteReplay(p) \/ RemoveExactCandidate(p)
  <2>1. OnlyMemory(p) /\ proc'[p].pc \in {"replayed", "complete"}
    BY <1>0, <1>4 DEF NoteReplay, RemoveExactCandidate, Shapes, OnlyMemory, MemoryOk, IsMemory
  <2> QED BY <1>4, <2>1, MemoryStep
          DEF NoteReplay, RemoveExactCandidate, store, exchange, StaysWithCandidate, SubmitStep
<1>5. CASE StoreFault(p) BY <1>0, <1>5, Raises, MemoryStep DEF StoreFault, store, exchange
<1> QED BY <1>1, <1>2, <1>3, <1>4, <1>5

LEMMA HandoffStep == HandoffInv /\ [Next]_vars => HandoffInv'
<1> SUFFICES ASSUME HandoffInv, [Next]_vars PROVE HandoffInv' OBVIOUS
<1>1. ASSUME NEW p \in Proc, RunOnce(p) PROVE HandoffInv'
  BY <1>1, BeforeClaim, ReserveStep, ClaimSteps, CreateOrderStep, PlaceSteps, TransitionSteps,
     BookingSteps DEF RunOnce
<1>2. ASSUME ledger' = ledger, active' = active, sent' = sent, proc' = proc PROVE HandoffInv'
  BY <1>2 DEF HandoffInv, Shapes, Reserved, ClaimsCandidate, SubmittedOnce, Submitting
<1>3. ASSUME NEW c \in Candidate, OrderMoves(c) PROVE HandoffInv'
  BY <1>2, <1>3 DEF OrderMoves, store
<1>4. CASE UNCHANGED vars BY <1>2, <1>4 DEF vars, store, exchange
<1> QED BY <1>1, <1>3, <1>4, StartStep, EvaluateStep DEF Next

\* One order request per candidate for ever: the permanent ledger row is put
\* before the claim, and no path gives it back (execution_handoff.run_once,
\* execution_idempotency._reservation).
THEOREM OrderSubmittedOnce == Spec => []SubmittedOnce
<1>1. HandoffInv => SubmittedOnce BY DEF HandoffInv
<1> QED BY HandoffInit, HandoffStep, <1>1, PTL DEF Spec

-----------------------------------------------------------------------------
(* One process at a time: the order that may still execute.                 *)

\* Where the process has no claim of its own, where no order may be open, and
\* where its claim was not transitioned yet.
Unclaimed == {"down", "boot", "idle", "load", "check", "reserve", "create", "conflict", "failed"}
Entering == {"reserve", "create", "created", "enrich", "own", "place", "post"}
Claiming == {"created", "enrich", "own", "place", "post", "verify", "mark"}

\* The claim is resolved or completed.
Finishing(m) ==
  \/ m.pc \in {"replay", "replayNoted", "replayed", "remove", "complete", "delete"}
  \/ m.pc = "sync" /\ m.ret \in {"remove", "delete"}

\* The order was answered and its claim is not resolved yet.
Answered(m) ==
  \/ m.pc \in {"mark", "resolve"}
  \/ m.pc = "sync" /\ m.ret = "resolve"

\* What a process knows at each step while no other is up.
Knows(m) ==
  /\ m.pc # "down" => m.pend = pendingDb
  /\ m.pc \in {"check", "reserve", "create"} => active = NoClaim
  /\ m.pc \notin Unclaimed => m.claim = active
  /\ m.started => m.pc \notin Unclaimed
  /\ m.pc = "down" => ~m.enabled
  /\ m.pc \in Claiming => m.claim.state = "CLAIMED"
  /\ Finishing(m) => m.claim.state \notin ACTIVE_CLAIM_STATES
  /\ m.pc \in Entering => \A c \in Candidate : order[c] = "open" => misread[c]
  /\ m.pc = "verify" => \A c \in Candidate : order[c] = "open" => misread[c] \/ c = m.claim.key
  /\ Answered(m) => \/ m.resp.ret = "transport"
                    \/ \A c \in Candidate : order[c] = "open" => misread[c] \/ pendingDb = c

\* An order that may still execute is held by a claim that is not resolved, or
\* by the pending entry; an order nobody requested does not exist.
Held ==
  /\ DOMAIN order = Candidate /\ DOMAIN misread = Candidate
  /\ \A c \in Candidate : sent[c] = 0 => order[c] = "none"
  /\ \A c \in Candidate :
       order[c] = "open" => \/ misread[c]
                            \/ active.key = c /\ active.state \in ACTIVE_CLAIM_STATES
                            \/ pendingDb = c

OnlyUp(p) == \A q \in Proc \ {p} : proc[q].pc = "down"

AloneInv ==
  ~deployment.overlap =>
    /\ \A p, q \in Proc : proc[p].pc # "down" /\ proc[q].pc # "down" => p = q
    /\ \A p \in Proc : Knows(proc[p])
    /\ Held

\* What the one process that is up does keeps the invariant if it keeps its own
\* part of it.
LEMMA AloneLift ==
  ASSUME AloneInv, NEW p \in Proc, deployment' = deployment, ~deployment.overlap,
         OnlyMemory(p), OnlyUp(p), Knows(proc[p])', Held'
  PROVE  AloneInv'
<1>1. \A q \in Proc \ {p} : proc'[q].pc = "down" /\ proc'[q] = proc[q]
  BY DEF OnlyMemory, OnlyUp
<1>2. \A q \in Proc \ {p} : Knows(proc[q])'
  BY <1>1 DEF AloneInv, Knows, Unclaimed, Claiming, Entering, Finishing, Answered
<1> QED BY <1>1, <1>2 DEF AloneInv
\* run_once returns, or a step raises, and the order and what holds it stay.
LEMMA AloneReturn ==
  ASSUME HandoffInv, NEW p \in Proc, NEW enabled, Held, Return(p, enabled),
         UNCHANGED <<pendingDb, active, order, sent, misread>>, proc[p].pend = pendingDb
  PROVE  Knows(proc[p])' /\ Held'
<1>1. proc'[p] = Returned(proc[p], enabled) BY DEF HandoffInv, Shapes, Return
<1>2. IsMemory(proc[p]) BY DEF HandoffInv, Shapes, MemoryOk
<1>3. proc'[p].pc = "idle" /\ proc'[p].pend = pendingDb' /\ proc'[p].started = FALSE
  BY <1>1, <1>2 DEF Returned, IsMemory
<1>4. Knows(proc[p])'
  BY <1>3 DEF Knows, Unclaimed, Claiming, Entering, Finishing, Answered
<1> QED BY <1>4 DEF Held

LEMMA AloneRaise ==
  ASSUME HandoffInv, NEW p \in Proc, Knows(proc[p]), Held, Raise(p), proc[p].pc # "down",
         UNCHANGED <<pendingDb, active, order, sent, misread>>
  PROVE  Knows(proc[p])' /\ Held'
<1>1. Held' BY DEF Held
<1>2. CASE \E enabled : Return(p, enabled) BY <1>2, AloneReturn DEF Knows
<1>3. CASE proc[p].started /\ Goto(p, "except")
  BY <1>1, <1>3 DEF HandoffInv, Shapes, MemoryOk, IsMemory, Goto, Knows, Unclaimed,
     Claiming, Entering, Finishing, Answered
<1>4. CASE ~proc[p].started /\ Goto(p, "failed")
  BY <1>1, <1>4 DEF HandoffInv, Shapes, MemoryOk, IsMemory, Goto, Knows, Unclaimed,
     Claiming, Entering, Finishing, Answered
<1> QED BY <1>2, <1>3, <1>4 DEF Raise

LEMMA AloneBoot ==
  ASSUME HandoffInv, NEW p \in Proc, Knows(proc[p]), Held, Boot(p)
  PROVE  Knows(proc[p])' /\ Held'
  BY HandoffAssumption DEF Boot, Knows, Held, Unclaimed, Claiming, Entering, Finishing,
     Answered, ACTIVE_CLAIM_STATES, RESOLVED_CLAIM_STATES, NoClaim, IsClaim, At, Goto,
     Return, Returned, Raise, PutClaim, SameOwner, store, exchange, Shapes, MemoryOk,
     IsMemory, Unresolved, Classified, FillDecision, NoResponse, Down, HandoffInv

LEMMA AloneBootstrap ==
  ASSUME HandoffInv, NEW p \in Proc, Knows(proc[p]), Held, Bootstrap(p)
  PROVE  Knows(proc[p])' /\ Held'
  BY HandoffAssumption DEF Bootstrap, Knows, Held, Unclaimed, Claiming, Entering,
     Finishing, Answered, ACTIVE_CLAIM_STATES, RESOLVED_CLAIM_STATES, NoClaim, IsClaim,
     At, Goto, Return, Returned, Raise, PutClaim, SameOwner, store, exchange, Shapes,
     MemoryOk, IsMemory, Unresolved, Classified, FillDecision, NoResponse, Down,
     HandoffInv

LEMMA AloneCrash ==
  ASSUME HandoffInv, NEW p \in Proc, Knows(proc[p]), Held, Crash(p)
  PROVE  Knows(proc[p])' /\ Held'
  BY HandoffAssumption DEF Crash, Knows, Held, Unclaimed, Claiming, Entering,
     Finishing, Answered, ACTIVE_CLAIM_STATES, RESOLVED_CLAIM_STATES, NoClaim, IsClaim,
     At, Goto, Return, Returned, Raise, PutClaim, SameOwner, store, exchange, Shapes,
     MemoryOk, IsMemory, Unresolved, Classified, FillDecision, NoResponse, Down,
     HandoffInv

LEMMA AloneStartBot ==
  ASSUME HandoffInv, NEW p \in Proc, Knows(proc[p]), Held, StartBot(p)
  PROVE  Knows(proc[p])' /\ Held'
  BY HandoffAssumption DEF StartBot, Knows, Held, Unclaimed, Claiming, Entering,
     Finishing, Answered, ACTIVE_CLAIM_STATES, RESOLVED_CLAIM_STATES, NoClaim, IsClaim,
     At, Goto, Return, Returned, Raise, PutClaim, SameOwner, store, exchange, Shapes,
     MemoryOk, IsMemory, Unresolved, Classified, FillDecision, NoResponse, Down,
     HandoffInv

LEMMA AloneStopBot ==
  ASSUME HandoffInv, NEW p \in Proc, Knows(proc[p]), Held, StopBot(p)
  PROVE  Knows(proc[p])' /\ Held'
  BY HandoffAssumption DEF StopBot, Knows, Held, Unclaimed, Claiming, Entering,
     Finishing, Answered, ACTIVE_CLAIM_STATES, RESOLVED_CLAIM_STATES, NoClaim, IsClaim,
     At, Goto, Return, Returned, Raise, PutClaim, SameOwner, store, exchange, Shapes,
     MemoryOk, IsMemory, Unresolved, Classified, FillDecision, NoResponse, Down,
     HandoffInv

LEMMA AloneClaimStore ==
  ASSUME HandoffInv, NEW p \in Proc, Knows(proc[p]), Held, ClaimStore(p)
  PROVE  Knows(proc[p])' /\ Held'
<1>1. CASE Goto(p, "load")
  BY <1>1 DEF ClaimStore, Knows, Held, Unclaimed, Claiming, Entering, Finishing,
     Answered, ACTIVE_CLAIM_STATES, NoClaim, IsClaim, At, Goto, Return, Returned, store,
     exchange, Shapes, MemoryOk, IsMemory, NoResponse, HandoffInv
<1>2. CASE Return(p, FALSE)
  BY <1>2, AloneReturn DEF ClaimStore, At, store, exchange, Knows
<1> QED BY <1>1, <1>2 DEF ClaimStore

LEMMA AloneLoadClaim ==
  ASSUME HandoffInv, NEW p \in Proc, Knows(proc[p]), Held, LoadClaim(p)
  PROVE  Knows(proc[p])' /\ Held'
<1>1. CASE \E enabled : Return(p, enabled)
  BY <1>1, AloneReturn DEF LoadClaim, At, store, exchange, Knows
<1>2. CASE /\ active.state = "RESOLVED_FILLED"
           /\ proc' = [proc EXCEPT ![p].claim = active, ![p].pc = "replay"]
  BY <1>2 DEF LoadClaim, Knows, Held, Unclaimed, Claiming, Entering, Finishing,
     Answered, ACTIVE_CLAIM_STATES, NoClaim, IsClaim, At, Return, Returned, store,
     exchange, Shapes, MemoryOk, IsMemory, NoResponse, HandoffInv
<1>3. CASE /\ active.state \in {"RESOLVED_NO_FILL", "COMPLETED"}
           /\ proc' = [proc EXCEPT ![p].claim = active, ![p].pc = "remove"]
  BY <1>3 DEF LoadClaim, Knows, Held, Unclaimed, Claiming, Entering, Finishing,
     Answered, ACTIVE_CLAIM_STATES, NoClaim, IsClaim, At, Return, Returned, store,
     exchange, Shapes, MemoryOk, IsMemory, NoResponse, HandoffInv
<1>4. CASE active = NoClaim /\ proc' = [proc EXCEPT ![p].cand = Head(proc[p].queue), ![p].pc = "check"]
  BY <1>4 DEF LoadClaim, Knows, Held, Unclaimed, Claiming, Entering, Finishing,
     Answered, ACTIVE_CLAIM_STATES, NoClaim, IsClaim, At, Return, Returned, store,
     exchange, Shapes, MemoryOk, IsMemory, NoResponse, HandoffInv
<1> QED BY <1>1, <1>2, <1>3, <1>4 DEF LoadClaim

LEMMA AloneRemoveCandidate ==
  ASSUME HandoffInv, NEW p \in Proc, Knows(proc[p]), Held, RemoveCandidate(p)
  PROVE  Knows(proc[p])' /\ Held'
  BY HandoffAssumption DEF RemoveCandidate, Knows, Held, Unclaimed, Claiming, Entering,
     Finishing, Answered, ACTIVE_CLAIM_STATES, RESOLVED_CLAIM_STATES, NoClaim, IsClaim,
     At, Goto, Return, Returned, Raise, PutClaim, SameOwner, store, exchange, Shapes,
     MemoryOk, IsMemory, Unresolved, Classified, FillDecision, NoResponse, Down,
     HandoffInv

LEMMA AloneGuardBlocks ==
  ASSUME HandoffInv, NEW p \in Proc, Knows(proc[p]), Held, GuardBlocks(p)
  PROVE  Knows(proc[p])' /\ Held'
  BY HandoffAssumption DEF GuardBlocks, Knows, Held, Unclaimed, Claiming, Entering,
     Finishing, Answered, ACTIVE_CLAIM_STATES, RESOLVED_CLAIM_STATES, NoClaim, IsClaim,
     At, Goto, Return, Returned, Raise, PutClaim, SameOwner, store, exchange, Shapes,
     MemoryOk, IsMemory, Unresolved, Classified, FillDecision, NoResponse, Down,
     HandoffInv

LEMMA AlonePendingFillGuard ==
  ASSUME HandoffInv, NEW p \in Proc, Knows(proc[p]), Held, PendingFillGuard(p)
  PROVE  Knows(proc[p])' /\ Held'
  BY HandoffAssumption DEF PendingFillGuard, Knows, Held, Unclaimed, Claiming,
     Entering, Finishing, Answered, ACTIVE_CLAIM_STATES, RESOLVED_CLAIM_STATES, NoClaim,
     IsClaim, At, Goto, Return, Returned, Raise, PutClaim, SameOwner, store, exchange,
     Shapes, MemoryOk, IsMemory, Unresolved, Classified, FillDecision, NoResponse, Down,
     HandoffInv

LEMMA AloneReserve ==
  ASSUME HandoffInv, NEW p \in Proc, Knows(proc[p]), Held, Reserve(p)
  PROVE  Knows(proc[p])' /\ Held'
<1>1. CASE Goto(p, "create")
  BY <1>1 DEF Reserve, Knows, Held, Unclaimed, Claiming, Entering, Finishing, Answered,
     ACTIVE_CLAIM_STATES, NoClaim, IsClaim, At, Goto, Return, Returned, exchange, Shapes,
     MemoryOk, IsMemory, NoResponse, HandoffInv
<1>2. CASE Return(p, FALSE)
  BY <1>2, AloneReturn DEF Reserve, At, exchange, Knows
<1> QED BY <1>1, <1>2 DEF Reserve

LEMMA AloneCreateClaim ==
  ASSUME HandoffInv, NEW p \in Proc, Knows(proc[p]), Held, CreateClaim(p)
  PROVE  Knows(proc[p])' /\ Held'
  BY HandoffAssumption DEF CreateClaim, Knows, Held, Unclaimed, Claiming, Entering,
     Finishing, Answered, ACTIVE_CLAIM_STATES, RESOLVED_CLAIM_STATES, NoClaim, IsClaim,
     At, Goto, Return, Returned, Raise, PutClaim, SameOwner, store, exchange, Shapes,
     MemoryOk, IsMemory, Unresolved, Classified, FillDecision, NoResponse, Down,
     HandoffInv

LEMMA AloneReloadClaim ==
  ASSUME HandoffInv, NEW p \in Proc, Knows(proc[p]), Held, ReloadClaim(p)
  PROVE  Knows(proc[p])' /\ Held'
  BY HandoffAssumption DEF ReloadClaim, Knows, Held, Unclaimed, Claiming, Entering,
     Finishing, Answered, ACTIVE_CLAIM_STATES, RESOLVED_CLAIM_STATES, NoClaim, IsClaim,
     At, Goto, Return, Returned, Raise, PutClaim, SameOwner, store, exchange, Shapes,
     MemoryOk, IsMemory, Unresolved, Classified, FillDecision, NoResponse, Down,
     HandoffInv

LEMMA AloneClaimConflict ==
  ASSUME HandoffInv, NEW p \in Proc, Knows(proc[p]), Held, ClaimConflict(p)
  PROVE  Knows(proc[p])' /\ Held'
  BY HandoffAssumption DEF ClaimConflict, Knows, Held, Unclaimed, Claiming, Entering,
     Finishing, Answered, ACTIVE_CLAIM_STATES, RESOLVED_CLAIM_STATES, NoClaim, IsClaim,
     At, Goto, Return, Returned, Raise, PutClaim, SameOwner, store, exchange, Shapes,
     MemoryOk, IsMemory, Unresolved, Classified, FillDecision, NoResponse, Down,
     HandoffInv

LEMMA AloneClaimCreationError ==
  ASSUME HandoffInv, NEW p \in Proc, Knows(proc[p]), Held, ClaimCreationError(p)
  PROVE  Knows(proc[p])' /\ Held'
  BY HandoffAssumption DEF ClaimCreationError, Knows, Held, Unclaimed, Claiming,
     Entering, Finishing, Answered, ACTIVE_CLAIM_STATES, RESOLVED_CLAIM_STATES, NoClaim,
     IsClaim, At, Goto, Return, Returned, Raise, PutClaim, SameOwner, store, exchange,
     Shapes, MemoryOk, IsMemory, Unresolved, Classified, FillDecision, NoResponse, Down,
     HandoffInv

LEMMA AloneEnrichClaim ==
  ASSUME HandoffInv, NEW p \in Proc, Knows(proc[p]), Held, EnrichClaim(p)
  PROVE  Knows(proc[p])' /\ Held'
  BY HandoffAssumption DEF EnrichClaim, Knows, Held, Unclaimed, Claiming, Entering,
     Finishing, Answered, ACTIVE_CLAIM_STATES, RESOLVED_CLAIM_STATES, NoClaim, IsClaim,
     At, Goto, Return, Returned, Raise, PutClaim, SameOwner, store, exchange, Shapes,
     MemoryOk, IsMemory, Unresolved, Classified, FillDecision, NoResponse, Down,
     HandoffInv

LEMMA AloneOwnLedger ==
  ASSUME HandoffInv, NEW p \in Proc, Knows(proc[p]), Held, OwnLedger(p)
  PROVE  Knows(proc[p])' /\ Held'
  BY HandoffAssumption DEF OwnLedger, Knows, Held, Unclaimed, Claiming, Entering,
     Finishing, Answered, ACTIVE_CLAIM_STATES, RESOLVED_CLAIM_STATES, NoClaim, IsClaim,
     At, Goto, Return, Returned, Raise, PutClaim, SameOwner, store, exchange, Shapes,
     MemoryOk, IsMemory, Unresolved, Classified, FillDecision, NoResponse, Down,
     HandoffInv

LEMMA AloneBlockedLocally ==
  ASSUME HandoffInv, NEW p \in Proc, Knows(proc[p]), Held, BlockedLocally(p)
  PROVE  Knows(proc[p])' /\ Held'
  BY HandoffAssumption DEF BlockedLocally, Knows, Held, Unclaimed, Claiming, Entering,
     Finishing, Answered, ACTIVE_CLAIM_STATES, RESOLVED_CLAIM_STATES, NoClaim, IsClaim,
     At, Goto, Return, Returned, Raise, PutClaim, SameOwner, store, exchange, Shapes,
     MemoryOk, IsMemory, Unresolved, Classified, FillDecision, NoResponse, Down,
     HandoffInv

LEMMA AloneGenerateOrderLinkId ==
  ASSUME HandoffInv, NEW p \in Proc, Knows(proc[p]), Held, GenerateOrderLinkId(p)
  PROVE  Knows(proc[p])' /\ Held'
  BY HandoffAssumption DEF GenerateOrderLinkId, Knows, Held, Unclaimed, Claiming,
     Entering, Finishing, Answered, ACTIVE_CLAIM_STATES, RESOLVED_CLAIM_STATES, NoClaim,
     IsClaim, At, Goto, Return, Returned, Raise, PutClaim, SameOwner, store, exchange,
     Shapes, MemoryOk, IsMemory, Unresolved, Classified, FillDecision, NoResponse, Down,
     HandoffInv

LEMMA AloneCreateOrder ==
  ASSUME HandoffInv, NEW p \in Proc, Knows(proc[p]), Held, CreateOrder(p)
  PROVE  Knows(proc[p])' /\ Held'
  BY HandoffAssumption DEF CreateOrder, Knows, Held, Unclaimed, Claiming, Entering,
     Finishing, Answered, ACTIVE_CLAIM_STATES, RESOLVED_CLAIM_STATES, NoClaim, IsClaim,
     At, Goto, Return, Returned, Raise, PutClaim, SameOwner, store, exchange, Shapes,
     MemoryOk, IsMemory, Unresolved, Classified, FillDecision, NoResponse, Down,
     HandoffInv

LEMMA AloneFinalizeEntryOrder ==
  ASSUME HandoffInv, NEW p \in Proc, Knows(proc[p]), Held, FinalizeEntryOrder(p)
  PROVE  Knows(proc[p])' /\ Held'
<1> DEFINE c == proc[p].claim.key
<1>1. PICK v \in {Classified(order[c]), "verification_error"} :
        /\ proc' = [proc EXCEPT ![p].resp = [ret |-> IF v = "filled" THEN "ok" ELSE "block", ver |-> v],
                                ![p].pend = CASE v \in Unresolved -> c
                                              [] v = "filled" /\ @ = c -> None
                                              [] OTHER -> @,
                                ![p].pc = "mark"]
        /\ pendingDb' = CASE v \in Unresolved -> c
                          [] v = "filled" /\ proc[p].pend \in {c, None} -> None
                          [] OTHER -> pendingDb
  BY DEF FinalizeEntryOrder
<1>2. /\ proc[p].pc = "verify" /\ proc[p].claim = active /\ active.state = "CLAIMED"
      /\ proc[p].pend = pendingDb
      /\ \A d \in Candidate : order[d] = "open" => misread[d] \/ d = c
      /\ UNCHANGED <<active, order, sent, misread>>
  BY DEF FinalizeEntryOrder, At, exchange, Knows, Unclaimed, Claiming
<1>3. proc'[p].pc = "mark" /\ proc'[p].claim = proc[p].claim /\ proc'[p].started = proc[p].started
      /\ proc'[p].pend = CASE v \in Unresolved -> c
                           [] v = "filled" /\ proc[p].pend = c -> None
                           [] OTHER -> proc[p].pend
  BY <1>1 DEF HandoffInv, Shapes, MemoryOk, IsMemory
<1>4. proc'[p].pend = pendingDb'
  <2>1. CASE v \in Unresolved BY <1>1, <1>3, <2>1 DEF Unresolved
  <2>2. CASE v \notin Unresolved /\ v # "filled" BY <1>1, <1>2, <1>3, <2>2
  <2>3. CASE v \notin Unresolved /\ v = "filled" BY <1>1, <1>2, <1>3, <2>3
  <2> QED BY <2>1, <2>2, <2>3
<1>5. \A d \in Candidate : order[d] = "open" => misread[d] \/ pendingDb' = d
  BY <1>1, <1>2 DEF Classified, Unresolved
<1>6. Knows(proc[p])'
  BY <1>2, <1>3, <1>4, <1>5 DEF Knows, Unclaimed, Claiming, Entering, Finishing,
     Answered
<1>7. Held' BY <1>2, <1>5 DEF Held
<1> QED BY <1>6, <1>7

LEMMA AloneMarkSubmitted ==
  ASSUME HandoffInv, NEW p \in Proc, Knows(proc[p]), Held, MarkSubmitted(p)
  PROVE  Knows(proc[p])' /\ Held'
  BY HandoffAssumption DEF MarkSubmitted, Knows, Held, Unclaimed, Claiming, Entering,
     Finishing, Answered, ACTIVE_CLAIM_STATES, RESOLVED_CLAIM_STATES, NoClaim, IsClaim,
     At, Goto, Return, Returned, Raise, PutClaim, SameOwner, store, exchange, Shapes,
     MemoryOk, IsMemory, Unresolved, Classified, FillDecision, NoResponse, Down,
     HandoffInv

LEMMA AloneSyncLedger ==
  ASSUME HandoffInv, NEW p \in Proc, Knows(proc[p]), Held, SyncLedger(p)
  PROVE  Knows(proc[p])' /\ Held'
<1>1. SameOwner(proc[p].claim) BY DEF SyncLedger, At, SameOwner, Knows, Unclaimed
<1>2. CASE proc[p].ret = "idle"
  BY <1>1, <1>2, AloneReturn DEF SyncLedger, At, exchange, Knows
<1>3. CASE proc[p].ret # "idle"
  <2>1. proc' = [proc EXCEPT ![p].bound = 0, ![p].pc = proc[p].ret]
    BY <1>1, <1>3 DEF SyncLedger
  <2> QED
    BY <1>3, <2>1 DEF SyncLedger, Knows, Held, Unclaimed, Claiming, Entering,
       Finishing, Answered, ACTIVE_CLAIM_STATES, NoClaim, IsClaim, At, Goto, Return,
       Returned, Raise, SameOwner, exchange, Shapes, MemoryOk, IsMemory, NoResponse,
       HandoffInv
<1> QED BY <1>2, <1>3

LEMMA AloneResolve ==
  ASSUME HandoffInv, NEW p \in Proc, Knows(proc[p]), Held, Resolve(p)
  PROVE  Knows(proc[p])' /\ Held'
<1> DEFINE s == FillDecision(proc[p].resp)
            c == [proc[p].claim EXCEPT !.state = s, !.fill = s = "RESOLVED_FILLED"]
<1>1. c.key = proc[p].claim.key /\ c.state = s
  BY DEF HandoffInv, Shapes, MemoryOk, IsClaim
<1>2. s \in ACTIVE_CLAIM_STATES \/ proc[p].resp.ret # "transport"
  BY DEF FillDecision, ACTIVE_CLAIM_STATES
<1>3. active' = c /\ proc' = [proc EXCEPT ![p].claim = c, ![p].pc = "sync", ![p].ret = "journal"]
      /\ proc[p].pc = "resolve" /\ UNCHANGED <<pendingDb, order, sent, misread>>
  BY DEF Resolve, PutClaim, At, exchange
<1> HIDE DEF c, s
<1> QED
  BY <1>1, <1>2, <1>3 DEF HandoffInv, Shapes, MemoryOk, IsMemory, Knows, Held,
     Unclaimed, Claiming, Entering, Finishing, Answered

LEMMA AloneJournalOrder ==
  ASSUME HandoffInv, NEW p \in Proc, Knows(proc[p]), Held, JournalOrder(p)
  PROVE  Knows(proc[p])' /\ Held'
  BY HandoffAssumption DEF JournalOrder, Knows, Held, Unclaimed, Claiming, Entering,
     Finishing, Answered, ACTIVE_CLAIM_STATES, RESOLVED_CLAIM_STATES, NoClaim, IsClaim,
     At, Goto, Return, Returned, Raise, PutClaim, SameOwner, store, exchange, Shapes,
     MemoryOk, IsMemory, Unresolved, Classified, FillDecision, NoResponse, Down,
     HandoffInv

LEMMA AloneBookResult ==
  ASSUME HandoffInv, NEW p \in Proc, Knows(proc[p]), Held, BookResult(p)
  PROVE  Knows(proc[p])' /\ Held'
  BY HandoffAssumption DEF BookResult, Knows, Held, Unclaimed, Claiming, Entering,
     Finishing, Answered, ACTIVE_CLAIM_STATES, RESOLVED_CLAIM_STATES, NoClaim, IsClaim,
     At, Goto, Return, Returned, Raise, PutClaim, SameOwner, store, exchange, Shapes,
     MemoryOk, IsMemory, Unresolved, Classified, FillDecision, NoResponse, Down,
     HandoffInv

LEMMA AloneReplayAccounting ==
  ASSUME HandoffInv, NEW p \in Proc, Knows(proc[p]), Held, ReplayAccounting(p)
  PROVE  Knows(proc[p])' /\ Held'
  BY HandoffAssumption DEF ReplayAccounting, Knows, Held, Unclaimed, Claiming,
     Entering, Finishing, Answered, ACTIVE_CLAIM_STATES, RESOLVED_CLAIM_STATES, NoClaim,
     IsClaim, At, Goto, Return, Returned, Raise, PutClaim, SameOwner, store, exchange,
     Shapes, MemoryOk, IsMemory, Unresolved, Classified, FillDecision, NoResponse, Down,
     HandoffInv

LEMMA AloneNoteReplay ==
  ASSUME HandoffInv, NEW p \in Proc, Knows(proc[p]), Held, NoteReplay(p)
  PROVE  Knows(proc[p])' /\ Held'
  BY HandoffAssumption DEF NoteReplay, Knows, Held, Unclaimed, Claiming, Entering,
     Finishing, Answered, ACTIVE_CLAIM_STATES, RESOLVED_CLAIM_STATES, NoClaim, IsClaim,
     At, Goto, Return, Returned, Raise, PutClaim, SameOwner, store, exchange, Shapes,
     MemoryOk, IsMemory, Unresolved, Classified, FillDecision, NoResponse, Down,
     HandoffInv

LEMMA AloneAccountingRestored ==
  ASSUME HandoffInv, NEW p \in Proc, Knows(proc[p]), Held, AccountingRestored(p)
  PROVE  Knows(proc[p])' /\ Held'
  BY HandoffAssumption DEF AccountingRestored, Knows, Held, Unclaimed, Claiming,
     Entering, Finishing, Answered, ACTIVE_CLAIM_STATES, RESOLVED_CLAIM_STATES, NoClaim,
     IsClaim, At, Goto, Return, Returned, Raise, PutClaim, SameOwner, store, exchange,
     Shapes, MemoryOk, IsMemory, Unresolved, Classified, FillDecision, NoResponse, Down,
     HandoffInv

LEMMA AloneRemoveExactCandidate ==
  ASSUME HandoffInv, NEW p \in Proc, Knows(proc[p]), Held, RemoveExactCandidate(p)
  PROVE  Knows(proc[p])' /\ Held'
  BY HandoffAssumption DEF RemoveExactCandidate, Knows, Held, Unclaimed, Claiming,
     Entering, Finishing, Answered, ACTIVE_CLAIM_STATES, RESOLVED_CLAIM_STATES, NoClaim,
     IsClaim, At, Goto, Return, Returned, Raise, PutClaim, SameOwner, store, exchange,
     Shapes, MemoryOk, IsMemory, Unresolved, Classified, FillDecision, NoResponse, Down,
     HandoffInv

LEMMA AloneComplete ==
  ASSUME HandoffInv, NEW p \in Proc, Knows(proc[p]), Held, Complete(p)
  PROVE  Knows(proc[p])' /\ Held'
  BY HandoffAssumption DEF Complete, Knows, Held, Unclaimed, Claiming, Entering,
     Finishing, Answered, ACTIVE_CLAIM_STATES, RESOLVED_CLAIM_STATES, NoClaim, IsClaim,
     At, Goto, Return, Returned, Raise, PutClaim, SameOwner, store, exchange, Shapes,
     MemoryOk, IsMemory, Unresolved, Classified, FillDecision, NoResponse, Down,
     HandoffInv

LEMMA AloneClearClaim ==
  ASSUME HandoffInv, NEW p \in Proc, Knows(proc[p]), Held, ClearClaim(p)
  PROVE  Knows(proc[p])' /\ Held'
  BY HandoffAssumption DEF ClearClaim, Knows, Held, Unclaimed, Claiming, Entering,
     Finishing, Answered, ACTIVE_CLAIM_STATES, RESOLVED_CLAIM_STATES, NoClaim, IsClaim,
     At, Goto, Return, Returned, Raise, PutClaim, SameOwner, store, exchange, Shapes,
     MemoryOk, IsMemory, Unresolved, Classified, FillDecision, NoResponse, Down,
     HandoffInv

LEMMA AloneSubmissionUnknown ==
  ASSUME HandoffInv, NEW p \in Proc, Knows(proc[p]), Held, SubmissionUnknown(p)
  PROVE  Knows(proc[p])' /\ Held'
<1> DEFINE c == [proc[p].claim EXCEPT !.state = "SUBMISSION_UNKNOWN"]
<1>1. c.key = proc[p].claim.key /\ c.state \in ACTIVE_CLAIM_STATES
  BY DEF HandoffInv, Shapes, MemoryOk, IsClaim, ACTIVE_CLAIM_STATES
<1>2. proc[p].pc = "except" /\ proc[p].claim = active /\ UNCHANGED <<pendingDb, order, sent, misread>>
  BY DEF SubmissionUnknown, At, exchange, Knows, Unclaimed
<1>3. CASE /\ active' = c
           /\ proc' = [proc EXCEPT ![p].claim = active', ![p].pc = "sync", ![p].ret = "idle",
                                   ![p].started = FALSE, ![p].enabled = FALSE, ![p].bound = 0]
  <2> HIDE DEF c
  <2> QED
    BY <1>1, <1>2, <1>3 DEF HandoffInv, Shapes, MemoryOk, IsMemory, Knows, Held,
       Unclaimed, Claiming, Entering, Finishing, Answered
<1>4. CASE Return(p, FALSE) /\ UNCHANGED active
  BY <1>2, <1>4, AloneReturn DEF Knows
<1> QED BY <1>3, <1>4 DEF SubmissionUnknown

LEMMA AloneStoreFault ==
  ASSUME HandoffInv, NEW p \in Proc, Knows(proc[p]), Held, StoreFault(p)
  PROVE  Knows(proc[p])' /\ Held'
  BY AloneRaise DEF StoreFault, store, exchange

LEMMA AloneUntouched ==
  ASSUME HandoffInv, NEW p \in Proc, Knows(proc[p]), Held, NEW c, EvaluateSymbol(p, c)
  PROVE  Knows(proc[p])' /\ Held'
  BY DEF EvaluateSymbol, Knows, Held, Unclaimed, Claiming, Entering, Finishing,
     Answered, ACTIVE_CLAIM_STATES, RESOLVED_CLAIM_STATES, NoClaim, IsClaim, At, Goto,
     Return, Returned, Raise, PutClaim, SameOwner, store, exchange, Shapes, MemoryOk,
     IsMemory, Unresolved, Classified, FillDecision, NoResponse, Down, HandoffInv

LEMMA AloneOrderMoves ==
  ASSUME HandoffInv, AloneInv, NEW c \in Candidate, OrderMoves(c) PROVE AloneInv'
<1>2. UNCHANGED <<active, pendingDb, sent, misread, proc, deployment>> BY DEF OrderMoves, store
<1>3. ASSUME ~deployment.overlap PROVE Held' /\ \A p \in Proc : Knows(proc[p])'
  <2>1. \A d \in Candidate : order'[d] = "open" => order[d] = "open"
    BY <1>3 DEF AloneInv, Held, OrderMoves
  <2>2. Held' BY <1>2, <1>3, <2>1 DEF AloneInv, Held, OrderMoves
  <2>3. \A p \in Proc : Knows(proc[p])'
    BY <1>2, <1>3, <2>1 DEF AloneInv, Knows, Finishing, Answered
  <2> QED BY <2>2, <2>3
<1> QED BY <1>2, <1>3 DEF AloneInv
\* A step of a process writes the memory of that process only.
LEMMA OthersKept ==
  ASSUME HandoffInv, HandoffInv', NEW p \in Proc,
         \/ Boot(p) \/ Bootstrap(p) \/ Crash(p) \/ StartBot(p) \/ StopBot(p)
         \/ RunOnce(p)
         \/ \E c \in Candidate : EvaluateSymbol(p, c)
  PROVE  OnlyMemory(p)
<1>1. \A q \in Proc \ {p} : proc'[q] = proc[q]
  <2>1. CASE Boot(p) \/ Bootstrap(p) \/ Crash(p) \/ StartBot(p) \/ StopBot(p)
             \/ \E c \in Candidate : EvaluateSymbol(p, c)
    BY <2>1 DEF Boot, Bootstrap, Crash, StartBot, StopBot, EvaluateSymbol, HandoffInv, Shapes
  <2>2. CASE \/ ClaimStore(p) \/ LoadClaim(p) \/ RemoveCandidate(p) \/ GuardBlocks(p)
             \/ PendingFillGuard(p) \/ Reserve(p) \/ CreateClaim(p) \/ ReloadClaim(p)
             \/ ClaimConflict(p) \/ ClaimCreationError(p) \/ EnrichClaim(p) \/ OwnLedger(p)
             \/ BlockedLocally(p) \/ GenerateOrderLinkId(p) \/ CreateOrder(p)
    BY <2>2 DEF ClaimStore, LoadClaim, RemoveCandidate, GuardBlocks, PendingFillGuard, Reserve,
       CreateClaim, ReloadClaim, ClaimConflict, ClaimCreationError, EnrichClaim, OwnLedger,
       BlockedLocally, GenerateOrderLinkId, CreateOrder, Goto, Return, Raise, HandoffInv, Shapes
  <2>3. CASE \/ FinalizeEntryOrder(p) \/ MarkSubmitted(p) \/ SyncLedger(p) \/ Resolve(p)
             \/ JournalOrder(p) \/ BookResult(p) \/ ReplayAccounting(p) \/ NoteReplay(p)
             \/ AccountingRestored(p) \/ RemoveExactCandidate(p) \/ Complete(p) \/ ClearClaim(p)
             \/ SubmissionUnknown(p) \/ StoreFault(p)
    BY <2>3 DEF FinalizeEntryOrder, MarkSubmitted, SyncLedger, Resolve, JournalOrder, BookResult,
       ReplayAccounting, NoteReplay, AccountingRestored, RemoveExactCandidate, Complete, ClearClaim,
       SubmissionUnknown, StoreFault, Goto, Return, Raise, PutClaim, HandoffInv, Shapes
  <2> QED BY <2>1, <2>2, <2>3 DEF RunOnce
<1> QED BY <1>1 DEF HandoffInv, Shapes, OnlyMemory

\* Only the order request counts as one, and no step changes what may happen.
LEMMA RequestsKept ==
  ASSUME [Next]_vars
  PROVE  /\ deployment' = deployment
         /\ sent' = sent \/ \E p \in Proc : CreateOrder(p)
<1>1. ASSUME NEW p \in Proc,
             \/ Boot(p) \/ Bootstrap(p) \/ Crash(p) \/ StartBot(p) \/ StopBot(p)
             \/ ClaimStore(p) \/ LoadClaim(p) \/ RemoveCandidate(p) \/ GuardBlocks(p)
             \/ PendingFillGuard(p) \/ Reserve(p) \/ CreateClaim(p) \/ ReloadClaim(p)
             \/ \E c \in Candidate : EvaluateSymbol(p, c)
      PROVE  deployment' = deployment /\ sent' = sent
  BY <1>1 DEF Boot, Bootstrap, Crash, StartBot, StopBot, EvaluateSymbol, ClaimStore, LoadClaim,
     RemoveCandidate, GuardBlocks, PendingFillGuard, Reserve, CreateClaim, ReloadClaim, exchange
<1>2. ASSUME NEW p \in Proc,
             \/ ClaimConflict(p) \/ ClaimCreationError(p) \/ EnrichClaim(p) \/ OwnLedger(p)
             \/ BlockedLocally(p) \/ GenerateOrderLinkId(p) \/ FinalizeEntryOrder(p)
             \/ MarkSubmitted(p) \/ SyncLedger(p) \/ Resolve(p) \/ JournalOrder(p)
      PROVE  deployment' = deployment /\ sent' = sent
  BY <1>2 DEF ClaimConflict, ClaimCreationError, EnrichClaim, OwnLedger, BlockedLocally,
     GenerateOrderLinkId, FinalizeEntryOrder, MarkSubmitted, SyncLedger, Resolve, JournalOrder,
     PutClaim, exchange
<1>3. ASSUME NEW p \in Proc,
             \/ BookResult(p) \/ ReplayAccounting(p) \/ NoteReplay(p) \/ AccountingRestored(p)
             \/ RemoveExactCandidate(p) \/ Complete(p) \/ ClearClaim(p) \/ SubmissionUnknown(p)
             \/ StoreFault(p)
      PROVE  deployment' = deployment /\ sent' = sent
  BY <1>3 DEF BookResult, ReplayAccounting, NoteReplay, AccountingRestored, RemoveExactCandidate,
     Complete, ClearClaim, SubmissionUnknown, StoreFault, PutClaim, exchange
<1>4. ASSUME NEW p \in Proc, CreateOrder(p) PROVE deployment' = deployment
  BY <1>4 DEF CreateOrder
<1>5. ASSUME NEW c \in Candidate, OrderMoves(c) PROVE deployment' = deployment /\ sent' = sent
  BY <1>5 DEF OrderMoves
<1>6. CASE UNCHANGED vars BY <1>6 DEF vars, exchange
<1> QED BY <1>1, <1>2, <1>3, <1>4, <1>5, <1>6 DEF Next, RunOnce

\* Every step but the start is one of a process that is up.
LEMMA ActsUp ==
  ASSUME NEW p \in Proc,
         \/ Bootstrap(p) \/ Crash(p) \/ StartBot(p) \/ StopBot(p) \/ RunOnce(p)
         \/ \E c \in Candidate : EvaluateSymbol(p, c),
         proc[p].pc = "down" => ~proc[p].enabled
  PROVE  proc[p].pc # "down"
BY DEF RunOnce, Bootstrap, Crash, StartBot, StopBot, EvaluateSymbol, ClaimStore, LoadClaim,
   RemoveCandidate, GuardBlocks, PendingFillGuard, Reserve, CreateClaim, ReloadClaim, ClaimConflict,
   ClaimCreationError, EnrichClaim, OwnLedger, BlockedLocally, GenerateOrderLinkId, CreateOrder,
   FinalizeEntryOrder, MarkSubmitted, SyncLedger, Resolve, JournalOrder, BookResult,
   ReplayAccounting, NoteReplay, AccountingRestored, RemoveExactCandidate, Complete, ClearClaim,
   SubmissionUnknown, StoreFault, At

LEMMA AloneStep == ASSUME HandoffInv, HandoffInv', AloneInv, [Next]_vars PROVE AloneInv'
<1>1. ASSUME NEW p \in Proc,
             \/ Boot(p) \/ Bootstrap(p) \/ Crash(p) \/ StartBot(p) \/ StopBot(p) \/ RunOnce(p)
             \/ \E c \in Candidate : EvaluateSymbol(p, c)
      PROVE  AloneInv'
  <2>1. SUFFICES ASSUME ~deployment.overlap PROVE AloneInv' BY RequestsKept DEF AloneInv
  <2>2. OnlyUp(p)
    BY <1>1, <2>1, ActsUp DEF OnlyUp, AloneInv, Boot, At, Knows
  <2>3. Knows(proc[p]) /\ Held BY <2>1 DEF AloneInv
  <2>4. Knows(proc[p])' /\ Held'
    BY <1>1, <2>3, AloneBoot, AloneBootstrap, AloneCrash, AloneStartBot, AloneStopBot,
       AloneClaimStore, AloneLoadClaim, AloneRemoveCandidate, AloneGuardBlocks,
       AlonePendingFillGuard, AloneReserve, AloneCreateClaim, AloneReloadClaim,
       AloneClaimConflict, AloneClaimCreationError, AloneEnrichClaim, AloneOwnLedger,
       AloneBlockedLocally, AloneGenerateOrderLinkId, AloneCreateOrder,
       AloneFinalizeEntryOrder, AloneMarkSubmitted, AloneSyncLedger, AloneResolve,
       AloneJournalOrder, AloneBookResult, AloneReplayAccounting, AloneNoteReplay,
       AloneAccountingRestored, AloneRemoveExactCandidate, AloneComplete, AloneClearClaim,
       AloneSubmissionUnknown, AloneStoreFault, AloneUntouched DEF RunOnce
  <2>5. OnlyMemory(p) BY <1>1, OthersKept
  <2> QED BY <2>1, <2>2, <2>4, <2>5, AloneLift, RequestsKept
<1>2. CASE UNCHANGED vars
  BY <1>2 DEF vars, store, exchange, AloneInv, Knows, Held, Finishing, Answered
<1> QED BY <1>1, <1>2, AloneOrderMoves DEF Next

LEMMA AloneInit == Init => AloneInv
BY DEF Init, AloneInv, Knows, Held, Unclaimed, Claiming, Entering, Finishing, Answered,
   Down
\* The combined invariant of a deployment that never overlaps two processes.
THEOREM AloneHolds == Spec => [](HandoffInv /\ AloneInv)
<1>1. Init => HandoffInv /\ AloneInv BY HandoffInit, AloneInit
<1>2. HandoffInv /\ AloneInv /\ [Next]_vars => HandoffInv' /\ AloneInv'
  BY HandoffStep, AloneStep
<1> QED BY <1>1, <1>2, PTL DEF Spec

\* With one process at a time, whatever crashed or failed, an order that may
\* still execute is named by the active claim or by the pending entry in the
\* store, so that a start finds it.
THEOREM LiveOrderIsHeld == Spec => []LiveOrderHeld
<1>1. AloneInv => LiveOrderHeld BY DEF AloneInv, Held, LiveOrderHeld
<1> QED BY <1>1, AloneHolds, PTL

\* With one process at a time run_once sends no entry while the order of another
\* candidate may still execute: the claim keeps the readiness gate shut and the
\* pending entry keeps _pending_fill_guard shut.
THEOREM NoSecondEntry == Spec => NoEntryOverLive
<1>1. ASSUME HandoffInv, AloneInv, Next, ~deployment.overlap,
             NEW c \in Candidate, sent'[c] # sent[c]
      PROVE  \A d \in Candidate \ {c} : order[d] = "open" => misread[d]
  <2>1. PICK p \in Proc : CreateOrder(p) BY <1>1, RequestsKept
  <2> QED BY <1>1, <2>1 DEF CreateOrder, At, AloneInv, Knows, Entering
<1>2. HandoffInv /\ AloneInv /\ [Next]_vars =>
        [~deployment.overlap => \A c \in Candidate : sent'[c] # sent[c] =>
            \A d \in Candidate \ {c} : order[d] = "open" => misread[d]]_vars
  BY <1>1
<1> QED BY <1>2, AloneHolds, PTL DEF Spec, NoEntryOverLive

-----------------------------------------------------------------------------
(* The journal.                                                             *)

LEMMA EnteredOnce ==
  ASSUME NEW id, journal' = Entered(id) PROVE Journaled' = Journaled \cup {id}
<1> DEFINE e == <<id, IF id \in Journaled THEN 2 ELSE 1>>
<1>1. journal' = journal \cup {e} BY DEF Entered
<1>2. e[1] = id OBVIOUS
<1> HIDE DEF e
<1> QED BY <1>1, <1>2 DEF Journaled

LEMMA JournalKept == ASSUME journal' = journal PROVE Journaled' = Journaled
BY DEF Journaled

\* The claim was filled only if its journal entry is there.
Booked(m) ==
  \/ m.pc \in {"noted", "replayNoted", "replayed", "remove", "complete", "delete"}
  \/ m.pc = "sync" /\ m.ret \in {"remove", "delete"}

\* A completed claim is booked, one without a fill says so.
ClaimBooked(c) ==
  /\ c.state = "COMPLETED" /\ c.fill => c.id \in Journaled
  /\ c.state = "RESOLVED_NO_FILL" => ~c.fill

ProcessBooked(m) ==
  /\ m.mem \subseteq Journaled
  /\ ClaimBooked(m.claim)
  /\ Booked(m) /\ m.claim.fill => m.claim.id \in Journaled
  /\ m.pc \in {"noted", "replayNoted"} => m.claim.id \in Journaled

BookedInv ==
  /\ ClaimBooked(active)
  /\ \A p \in Proc : ProcessBooked(proc[p])
  /\ FilledJournaled

\* A row that is not written, is written in another state, or is the copy of a
\* claim.
LEMMA RowsBooked ==
  ASSUME HandoffInv, BookedInv, Journaled \subseteq Journaled',
         NEW c, ClaimBooked(c), NEW k, NEW s \in {"RESERVED", "ACTIVE_CLAIM_CONFLICT", "CLAIM_CREATION_ERROR"},
         \/ ledger' = ledger
         \/ ledger' = [ledger EXCEPT ![k].state = s]
         \/ ledger' = [ledger EXCEPT ![k] = [NoRow EXCEPT !.state = s]]
         \/ ledger' = Synced(c)
  PROVE  FilledJournaled'
<1> SUFFICES ASSUME NEW d \in Candidate, ledger'[d].state = "COMPLETED", ledger'[d].fill
             PROVE  ledger'[d].id \in Journaled'
  BY DEF FilledJournaled
<1>0. DOMAIN ledger = Candidate /\ IsRow(ledger[d]) BY DEF HandoffInv, Shapes
<1>1. CASE ledger'[d] = ledger[d] BY <1>1 DEF BookedInv, FilledJournaled
<1>2. CASE ledger' = Synced(c) /\ d = c.key
  <2>1. ledger'[d] = [id |-> c.id, state |-> c.state, fill |-> c.fill] BY <1>0, <1>2 DEF Synced
  <2> QED BY <2>1 DEF ClaimBooked
<1>3. CASE ledger' = [ledger EXCEPT ![k].state = s] /\ d = k
  BY <1>0, <1>3 DEF IsRow
<1>4. CASE ledger' = [ledger EXCEPT ![k] = [NoRow EXCEPT !.state = s]] /\ d = k
  BY <1>0, <1>4 DEF NoRow
<1> QED BY <1>0, <1>1, <1>2, <1>3, <1>4 DEF Synced

\* The memory of a process that only goes elsewhere.
LEMMA BooksLift ==
  ASSUME HandoffInv, BookedInv, NEW p \in Proc, OnlyMemory(p), Journaled \subseteq Journaled',
         ProcessBooked(proc[p])', ClaimBooked(active)', FilledJournaled'
  PROVE  BookedInv'
<1>1. ASSUME NEW q \in Proc \ {p} PROVE ProcessBooked(proc[q])'
  BY DEF OnlyMemory, BookedInv, ProcessBooked, ClaimBooked, Booked
<1> QED BY <1>1 DEF BookedInv

LEMMA BooksReturn ==
  ASSUME HandoffInv, NEW p \in Proc, NEW enabled, ProcessBooked(proc[p]), Return(p, enabled),
         Journaled \subseteq Journaled'
  PROVE  ProcessBooked(proc[p])'
<1>1. proc'[p] = Returned(proc[p], enabled) BY DEF HandoffInv, Shapes, Return
<1>2. IsMemory(proc[p]) BY DEF HandoffInv, Shapes, MemoryOk
<1>3. proc'[p].pc = "idle" /\ proc'[p].mem = proc[p].mem /\ proc'[p].claim = NoClaim
  BY <1>1, <1>2 DEF Returned, IsMemory
<1> QED BY <1>3 DEF ProcessBooked, ClaimBooked, Booked, NoClaim

LEMMA BooksGoto ==
  ASSUME HandoffInv, NEW p \in Proc, NEW l, ProcessBooked(proc[p]), Goto(p, l),
         l \in {"noted", "replayNoted", "replayed", "remove", "complete", "delete"} =>
           proc[p].claim.id \in Journaled', l # "sync",
         Journaled \subseteq Journaled'
  PROVE  ProcessBooked(proc[p])'
<1>1. /\ proc'[p].pc = l /\ proc'[p].mem = proc[p].mem /\ proc'[p].claim = proc[p].claim
  BY DEF HandoffInv, Shapes, MemoryOk, IsMemory, Goto
<1> QED BY <1>1 DEF ProcessBooked, ClaimBooked, Booked

LEMMA BooksRaise ==
  ASSUME HandoffInv, NEW p \in Proc, ProcessBooked(proc[p]), Raise(p),
         Journaled \subseteq Journaled'
  PROVE  ProcessBooked(proc[p])'
<1>1. \/ Goto(p, "except") \/ Goto(p, "failed") \/ \E enabled : Return(p, enabled)
  BY DEF Raise
<1> QED BY <1>1, BooksGoto, BooksReturn

LEMMA BooksBoot ==
  ASSUME HandoffInv, HandoffInv', BookedInv, NEW p \in Proc, OnlyMemory(p), Boot(p)
  PROVE  BookedInv'
<1>1. Journaled' = Journaled BY JournalKept DEF Boot, store
<1>2. ProcessBooked(proc[p])'
  <2>1. proc'[p].mem = Journaled /\ proc'[p].pc = "boot" /\ proc'[p].claim = active
    BY DEF Boot, HandoffInv, Shapes, MemoryOk, IsMemory
  <2> QED BY <1>1, <2>1 DEF ProcessBooked, ClaimBooked, Booked, BookedInv
<1>3. ClaimBooked(active)'
  BY <1>1, <1>2 DEF Boot, BookedInv, ProcessBooked, ClaimBooked, Booked,
     FilledJournaled, IsClaim, IsRow, At, PutClaim, store, exchange, Shapes, MemoryOk,
     IsMemory, HandoffInv
<1>4. FilledJournaled'
  <2>1. ledger' = ledger BY DEF Boot, store
  <2> QED BY <1>1, <2>1 DEF BookedInv, FilledJournaled
<1> QED BY <1>1, <1>2, <1>3, <1>4, BooksLift

LEMMA BooksBootstrap ==
  ASSUME HandoffInv, HandoffInv', BookedInv, NEW p \in Proc, OnlyMemory(p), Bootstrap(p)
  PROVE  BookedInv'
<1>1. Journaled' = Journaled BY JournalKept DEF Bootstrap
<1>2. ProcessBooked(proc[p])'
  <2>1. CASE proc' = [proc EXCEPT ![p] = Down]
    BY <1>1, <2>1 DEF HandoffInv, Shapes, ProcessBooked, ClaimBooked, Booked, Down, NoClaim
  <2>2. CASE proc' = [proc EXCEPT ![p].pc = "idle", ![p].claim = NoClaim]
    BY <1>1, <2>2 DEF HandoffInv, Shapes, MemoryOk, IsMemory, ProcessBooked,
       ClaimBooked, Booked, NoClaim, BookedInv
  <2>3. CASE proc' = [proc EXCEPT ![p].pc = "idle"]
    BY <1>1, <2>3 DEF HandoffInv, Shapes, MemoryOk, IsMemory, ProcessBooked,
       ClaimBooked, Booked, BookedInv
  <2> QED BY <2>1, <2>2, <2>3 DEF Bootstrap
<1>3. ClaimBooked(active)'
  BY <1>1, <1>2 DEF Bootstrap, BookedInv, ProcessBooked, ClaimBooked, Booked,
     FilledJournaled, NoClaim, IsClaim, IsRow, At, PutClaim, SameOwner, Synced, store,
     exchange, Shapes, MemoryOk, IsMemory, Down, HandoffInv
<1>4. FilledJournaled'
  <2>1. ledger' = ledger \/ ledger' = Synced(proc[p].claim) BY DEF Bootstrap
  <2> QED BY <1>1, <2>1, RowsBooked DEF BookedInv, ProcessBooked
<1> QED BY <1>1, <1>2, <1>3, <1>4, BooksLift

LEMMA BooksCrash ==
  ASSUME HandoffInv, HandoffInv', BookedInv, NEW p \in Proc, OnlyMemory(p), Crash(p)
  PROVE  BookedInv'
<1>1. Journaled' = Journaled BY JournalKept DEF Crash, store
<1>2. ProcessBooked(proc[p])'
  BY <1>1, HandoffAssumption DEF Crash, BookedInv, ProcessBooked, ClaimBooked, Booked,
     FilledJournaled, NoClaim, IsClaim, IsRow, At, PutClaim, store, exchange, Shapes,
     MemoryOk, IsMemory, Down, HandoffInv
<1>3. ClaimBooked(active)'
  BY <1>1, <1>2 DEF Crash, BookedInv, ProcessBooked, ClaimBooked, Booked,
     FilledJournaled, NoClaim, IsClaim, IsRow, At, PutClaim, store, exchange, Shapes,
     MemoryOk, IsMemory, Down, HandoffInv
<1>4. FilledJournaled'
  <2>1. ledger' = ledger BY DEF Crash, store
  <2> QED BY <1>1, <2>1 DEF BookedInv, FilledJournaled
<1> QED BY <1>1, <1>2, <1>3, <1>4, BooksLift

LEMMA BooksStartBot ==
  ASSUME HandoffInv, HandoffInv', BookedInv, NEW p \in Proc, OnlyMemory(p), StartBot(p)
  PROVE  BookedInv'
<1>1. Journaled' = Journaled BY JournalKept DEF StartBot, store
<1>2. ProcessBooked(proc[p])'
  BY <1>1, HandoffAssumption DEF StartBot, BookedInv, ProcessBooked, ClaimBooked,
     Booked, FilledJournaled, IsClaim, IsRow, PutClaim, store, exchange, Shapes, MemoryOk,
     IsMemory, HandoffInv
<1>3. ClaimBooked(active)'
  BY <1>1, <1>2 DEF StartBot, BookedInv, ProcessBooked, ClaimBooked, Booked,
     FilledJournaled, IsClaim, IsRow, PutClaim, store, exchange, Shapes, MemoryOk,
     IsMemory, HandoffInv
<1>4. FilledJournaled'
  <2>1. ledger' = ledger BY DEF StartBot, store
  <2> QED BY <1>1, <2>1 DEF BookedInv, FilledJournaled
<1> QED BY <1>1, <1>2, <1>3, <1>4, BooksLift

LEMMA BooksStopBot ==
  ASSUME HandoffInv, HandoffInv', BookedInv, NEW p \in Proc, OnlyMemory(p), StopBot(p)
  PROVE  BookedInv'
<1>1. Journaled' = Journaled BY JournalKept DEF StopBot, store
<1>2. ProcessBooked(proc[p])'
  BY <1>1, HandoffAssumption DEF StopBot, BookedInv, ProcessBooked, ClaimBooked,
     Booked, FilledJournaled, IsClaim, IsRow, PutClaim, store, exchange, Shapes, MemoryOk,
     IsMemory, HandoffInv
<1>3. ClaimBooked(active)'
  BY <1>1, <1>2 DEF StopBot, BookedInv, ProcessBooked, ClaimBooked, Booked,
     FilledJournaled, IsClaim, IsRow, PutClaim, store, exchange, Shapes, MemoryOk,
     IsMemory, HandoffInv
<1>4. FilledJournaled'
  <2>1. ledger' = ledger BY DEF StopBot, store
  <2> QED BY <1>1, <2>1 DEF BookedInv, FilledJournaled
<1> QED BY <1>1, <1>2, <1>3, <1>4, BooksLift

LEMMA BooksClaimStore ==
  ASSUME HandoffInv, HandoffInv', BookedInv, NEW p \in Proc, OnlyMemory(p), ClaimStore(p)
  PROVE  BookedInv'
<1>1. Journaled' = Journaled BY JournalKept DEF ClaimStore, store
<1>2. ProcessBooked(proc[p])'
  <2>1. Goto(p, "load") \/ Return(p, FALSE) BY DEF ClaimStore
  <2> QED BY <1>1, <2>1, BooksGoto, BooksReturn DEF BookedInv
<1>3. ClaimBooked(active)'
  BY <1>1, <1>2 DEF ClaimStore, BookedInv, ProcessBooked, ClaimBooked, Booked,
     FilledJournaled, NoClaim, IsClaim, IsRow, At, Goto, Return, Returned, PutClaim,
     store, exchange, Shapes, MemoryOk, IsMemory, HandoffInv
<1>4. FilledJournaled'
  <2>1. ledger' = ledger BY DEF ClaimStore, store
  <2> QED BY <1>1, <2>1 DEF BookedInv, FilledJournaled
<1> QED BY <1>1, <1>2, <1>3, <1>4, BooksLift

LEMMA BooksLoadClaim ==
  ASSUME HandoffInv, HandoffInv', BookedInv, NEW p \in Proc, OnlyMemory(p), LoadClaim(p)
  PROVE  BookedInv'
<1>1. Journaled' = Journaled BY JournalKept DEF LoadClaim, store
<1>2. ProcessBooked(proc[p])'
  <2>1. CASE \E enabled : Return(p, enabled) BY <1>1, <2>1, BooksReturn DEF BookedInv
  <2>2. CASE proc' = [proc EXCEPT ![p].cand = Head(proc[p].queue), ![p].pc = "check"]
    BY <1>1, <2>2 DEF HandoffInv, Shapes, MemoryOk, IsMemory, ProcessBooked,
       ClaimBooked, Booked, BookedInv
  <2>3. CASE proc' = [proc EXCEPT ![p].claim = active, ![p].pc = "replay"]
    BY <1>1, <2>3 DEF HandoffInv, Shapes, MemoryOk, IsMemory, ProcessBooked,
       ClaimBooked, Booked, BookedInv
  <2>4. CASE /\ active.state \in {"RESOLVED_NO_FILL", "COMPLETED"}
             /\ proc' = [proc EXCEPT ![p].claim = active, ![p].pc = "remove"]
    BY <1>1, <2>4 DEF HandoffInv, Shapes, MemoryOk, IsMemory, ProcessBooked,
       ClaimBooked, Booked, BookedInv
  <2> QED BY <2>1, <2>2, <2>3, <2>4 DEF LoadClaim
<1>3. ClaimBooked(active)'
  BY <1>1, <1>2 DEF LoadClaim, BookedInv, ProcessBooked, ClaimBooked, Booked,
     FilledJournaled, ACTIVE_CLAIM_STATES, NoClaim, IsClaim, IsRow, At, Return, Returned,
     PutClaim, store, exchange, Shapes, MemoryOk, IsMemory, HandoffInv
<1>4. FilledJournaled'
  <2>1. ledger' = ledger BY DEF LoadClaim, store
  <2> QED BY <1>1, <2>1 DEF BookedInv, FilledJournaled
<1> QED BY <1>1, <1>2, <1>3, <1>4, BooksLift

LEMMA BooksRemoveCandidate ==
  ASSUME HandoffInv, HandoffInv', BookedInv, NEW p \in Proc, OnlyMemory(p), RemoveCandidate(p)
  PROVE  BookedInv'
<1>1. Journaled' = Journaled BY JournalKept DEF RemoveCandidate, store
<1>2. ProcessBooked(proc[p])'
  BY <1>1, HandoffAssumption DEF RemoveCandidate, BookedInv, ProcessBooked,
     ClaimBooked, Booked, FilledJournaled, IsClaim, IsRow, PutClaim, store, exchange,
     Shapes, MemoryOk, IsMemory, HandoffInv
<1>3. ClaimBooked(active)'
  BY <1>1, <1>2 DEF RemoveCandidate, BookedInv, ProcessBooked, ClaimBooked, Booked,
     FilledJournaled, IsClaim, IsRow, PutClaim, store, exchange, Shapes, MemoryOk,
     IsMemory, HandoffInv
<1>4. FilledJournaled'
  <2>1. ledger' = ledger BY DEF RemoveCandidate, store
  <2> QED BY <1>1, <2>1 DEF BookedInv, FilledJournaled
<1> QED BY <1>1, <1>2, <1>3, <1>4, BooksLift

LEMMA BooksGuardBlocks ==
  ASSUME HandoffInv, HandoffInv', BookedInv, NEW p \in Proc, OnlyMemory(p), GuardBlocks(p)
  PROVE  BookedInv'
<1>1. Journaled' = Journaled BY JournalKept DEF GuardBlocks, store
<1>2. ProcessBooked(proc[p])'
  BY <1>1, HandoffAssumption DEF GuardBlocks, BookedInv, ProcessBooked, ClaimBooked,
     Booked, FilledJournaled, NoClaim, IsClaim, IsRow, At, Return, Returned, PutClaim,
     store, exchange, Shapes, MemoryOk, IsMemory, HandoffInv
<1>3. ClaimBooked(active)'
  BY <1>1, <1>2 DEF GuardBlocks, BookedInv, ProcessBooked, ClaimBooked, Booked,
     FilledJournaled, NoClaim, IsClaim, IsRow, At, Return, Returned, PutClaim, store,
     exchange, Shapes, MemoryOk, IsMemory, HandoffInv
<1>4. FilledJournaled'
  <2>1. ledger' = ledger BY DEF GuardBlocks, store
  <2> QED BY <1>1, <2>1 DEF BookedInv, FilledJournaled
<1> QED BY <1>1, <1>2, <1>3, <1>4, BooksLift

LEMMA BooksPendingFillGuard ==
  ASSUME HandoffInv, HandoffInv', BookedInv, NEW p \in Proc, OnlyMemory(p), PendingFillGuard(p)
  PROVE  BookedInv'
<1>1. Journaled' = Journaled BY JournalKept DEF PendingFillGuard
<1>2. ProcessBooked(proc[p])'
  BY <1>1, HandoffAssumption DEF PendingFillGuard, BookedInv, ProcessBooked,
     ClaimBooked, Booked, FilledJournaled, IsClaim, IsRow, At, Goto, PutClaim, store,
     exchange, Shapes, MemoryOk, IsMemory, HandoffInv
<1>3. ClaimBooked(active)'
  BY <1>1, <1>2 DEF PendingFillGuard, BookedInv, ProcessBooked, ClaimBooked, Booked,
     FilledJournaled, IsClaim, IsRow, At, Goto, PutClaim, store, exchange, Shapes,
     MemoryOk, IsMemory, HandoffInv
<1>4. FilledJournaled'
  <2>1. ledger' = ledger BY DEF PendingFillGuard
  <2> QED BY <1>1, <2>1 DEF BookedInv, FilledJournaled
<1> QED BY <1>1, <1>2, <1>3, <1>4, BooksLift

LEMMA BooksReserve ==
  ASSUME HandoffInv, HandoffInv', BookedInv, NEW p \in Proc, OnlyMemory(p), Reserve(p)
  PROVE  BookedInv'
<1>1. Journaled' = Journaled BY JournalKept DEF Reserve
<1>2. ProcessBooked(proc[p])'
  <2>1. Goto(p, "create") \/ Return(p, FALSE) BY DEF Reserve
  <2> QED BY <1>1, <2>1, BooksGoto, BooksReturn DEF BookedInv
<1>3. ClaimBooked(active)'
  BY <1>1, <1>2 DEF Reserve, BookedInv, ProcessBooked, ClaimBooked, Booked,
     FilledJournaled, NoClaim, IsClaim, IsRow, NoRow, At, Goto, Return, Returned,
     PutClaim, store, exchange, Shapes, MemoryOk, IsMemory, HandoffInv
<1>4. FilledJournaled'
  BY <1>1, RowsBooked DEF Reserve, BookedInv, ProcessBooked
<1> QED BY <1>1, <1>2, <1>3, <1>4, BooksLift

LEMMA BooksCreateClaim ==
  ASSUME HandoffInv, HandoffInv', BookedInv, NEW p \in Proc, OnlyMemory(p), CreateClaim(p)
  PROVE  BookedInv'
<1>1. Journaled' = Journaled BY JournalKept DEF CreateClaim
<1>2. ProcessBooked(proc[p])'
  BY <1>1, HandoffAssumption DEF CreateClaim, BookedInv, ProcessBooked, ClaimBooked,
     Booked, FilledJournaled, NoClaim, IsClaim, IsRow, At, Goto, PutClaim, store,
     exchange, Shapes, MemoryOk, IsMemory, HandoffInv
<1>3. ClaimBooked(active)'
  BY <1>1, <1>2 DEF CreateClaim, BookedInv, ProcessBooked, ClaimBooked, Booked,
     FilledJournaled, NoClaim, IsClaim, IsRow, At, Goto, PutClaim, store, exchange,
     Shapes, MemoryOk, IsMemory, HandoffInv
<1>4. FilledJournaled'
  <2>1. ledger' = ledger BY DEF CreateClaim
  <2> QED BY <1>1, <2>1 DEF BookedInv, FilledJournaled
<1> QED BY <1>1, <1>2, <1>3, <1>4, BooksLift

LEMMA BooksReloadClaim ==
  ASSUME HandoffInv, HandoffInv', BookedInv, NEW p \in Proc, OnlyMemory(p), ReloadClaim(p)
  PROVE  BookedInv'
<1>1. Journaled' = Journaled BY JournalKept DEF ReloadClaim, store
<1>2. ProcessBooked(proc[p])'
  BY <1>1, HandoffAssumption DEF ReloadClaim, BookedInv, ProcessBooked, ClaimBooked,
     Booked, FilledJournaled, NoClaim, IsClaim, IsRow, At, Goto, Return, Returned, Raise,
     PutClaim, SameOwner, store, exchange, Shapes, MemoryOk, IsMemory, HandoffInv
<1>3. ClaimBooked(active)'
  BY <1>1, <1>2 DEF ReloadClaim, BookedInv, ProcessBooked, ClaimBooked, Booked,
     FilledJournaled, NoClaim, IsClaim, IsRow, At, Goto, Return, Returned, Raise,
     PutClaim, SameOwner, store, exchange, Shapes, MemoryOk, IsMemory, HandoffInv
<1>4. FilledJournaled'
  <2>1. ledger' = ledger BY DEF ReloadClaim, store
  <2> QED BY <1>1, <2>1 DEF BookedInv, FilledJournaled
<1> QED BY <1>1, <1>2, <1>3, <1>4, BooksLift

LEMMA BooksClaimConflict ==
  ASSUME HandoffInv, HandoffInv', BookedInv, NEW p \in Proc, OnlyMemory(p), ClaimConflict(p)
  PROVE  BookedInv'
<1>1. Journaled' = Journaled BY JournalKept DEF ClaimConflict
<1>2. ProcessBooked(proc[p])'
  BY <1>1, HandoffAssumption DEF ClaimConflict, BookedInv, ProcessBooked, ClaimBooked,
     Booked, FilledJournaled, NoClaim, IsClaim, IsRow, At, Return, Returned, PutClaim,
     store, exchange, Shapes, MemoryOk, IsMemory, HandoffInv
<1>3. ClaimBooked(active)'
  BY <1>1, <1>2 DEF ClaimConflict, BookedInv, ProcessBooked, ClaimBooked, Booked,
     FilledJournaled, NoClaim, IsClaim, IsRow, At, Return, Returned, PutClaim, store,
     exchange, Shapes, MemoryOk, IsMemory, HandoffInv
<1>4. FilledJournaled'
  BY <1>1, RowsBooked DEF ClaimConflict, BookedInv, ProcessBooked
<1> QED BY <1>1, <1>2, <1>3, <1>4, BooksLift

LEMMA BooksClaimCreationError ==
  ASSUME HandoffInv, HandoffInv', BookedInv, NEW p \in Proc, OnlyMemory(p), ClaimCreationError(p)
  PROVE  BookedInv'
<1>1. Journaled' = Journaled BY JournalKept DEF ClaimCreationError
<1>2. ProcessBooked(proc[p])'
  BY <1>1, HandoffAssumption DEF ClaimCreationError, BookedInv, ProcessBooked,
     ClaimBooked, Booked, FilledJournaled, NoClaim, IsClaim, IsRow, At, Return, Returned,
     PutClaim, store, exchange, Shapes, MemoryOk, IsMemory, HandoffInv
<1>3. ClaimBooked(active)'
  BY <1>1, <1>2 DEF ClaimCreationError, BookedInv, ProcessBooked, ClaimBooked, Booked,
     FilledJournaled, NoClaim, IsClaim, IsRow, At, Return, Returned, PutClaim, store,
     exchange, Shapes, MemoryOk, IsMemory, HandoffInv
<1>4. FilledJournaled'
  BY <1>1, RowsBooked DEF ClaimCreationError, BookedInv, ProcessBooked
<1> QED BY <1>1, <1>2, <1>3, <1>4, BooksLift

LEMMA BooksEnrichClaim ==
  ASSUME HandoffInv, HandoffInv', BookedInv, NEW p \in Proc, OnlyMemory(p), EnrichClaim(p)
  PROVE  BookedInv'
<1>1. Journaled' = Journaled BY JournalKept DEF EnrichClaim
<1>2. ProcessBooked(proc[p])'
  BY <1>1, HandoffAssumption DEF EnrichClaim, BookedInv, ProcessBooked, ClaimBooked,
     Booked, FilledJournaled, IsClaim, IsRow, At, Goto, PutClaim, store, exchange, Shapes,
     MemoryOk, IsMemory, HandoffInv
<1>3. ClaimBooked(active)'
  BY <1>1, <1>2 DEF EnrichClaim, BookedInv, ProcessBooked, ClaimBooked, Booked,
     FilledJournaled, IsClaim, IsRow, At, Goto, PutClaim, store, exchange, Shapes,
     MemoryOk, IsMemory, HandoffInv
<1>4. FilledJournaled'
  <2>1. ledger' = ledger BY DEF EnrichClaim
  <2> QED BY <1>1, <2>1 DEF BookedInv, FilledJournaled
<1> QED BY <1>1, <1>2, <1>3, <1>4, BooksLift

LEMMA BooksOwnLedger ==
  ASSUME HandoffInv, HandoffInv', BookedInv, NEW p \in Proc, OnlyMemory(p), OwnLedger(p)
  PROVE  BookedInv'
<1>1. Journaled' = Journaled BY JournalKept DEF OwnLedger
<1>2. ProcessBooked(proc[p])'
  BY <1>1, HandoffAssumption DEF OwnLedger, BookedInv, ProcessBooked, ClaimBooked,
     Booked, FilledJournaled, IsClaim, IsRow, At, PutClaim, Synced, store, exchange,
     Shapes, MemoryOk, IsMemory, HandoffInv
<1>3. ClaimBooked(active)'
  BY <1>1, <1>2 DEF OwnLedger, BookedInv, ProcessBooked, ClaimBooked, Booked,
     FilledJournaled, IsClaim, IsRow, At, PutClaim, Synced, store, exchange, Shapes,
     MemoryOk, IsMemory, HandoffInv
<1>4. FilledJournaled'
  <2>1. ledger' = ledger \/ ledger' = Synced(proc[p].claim) BY DEF OwnLedger
  <2> QED BY <1>1, <2>1, RowsBooked DEF BookedInv, ProcessBooked
<1> QED BY <1>1, <1>2, <1>3, <1>4, BooksLift

LEMMA BooksBlockedLocally ==
  ASSUME HandoffInv, HandoffInv', BookedInv, NEW p \in Proc, OnlyMemory(p), BlockedLocally(p)
  PROVE  BookedInv'
<1>1. Journaled' = Journaled BY JournalKept DEF BlockedLocally, store
<1>2. ProcessBooked(proc[p])'
  BY <1>1, HandoffAssumption DEF BlockedLocally, BookedInv, ProcessBooked, ClaimBooked,
     Booked, FilledJournaled, IsClaim, IsRow, At, PutClaim, store, exchange, Shapes,
     MemoryOk, IsMemory, HandoffInv
<1>3. ClaimBooked(active)'
  BY <1>1, <1>2 DEF BlockedLocally, BookedInv, ProcessBooked, ClaimBooked, Booked,
     FilledJournaled, IsClaim, IsRow, At, PutClaim, store, exchange, Shapes, MemoryOk,
     IsMemory, HandoffInv
<1>4. FilledJournaled'
  <2>1. ledger' = ledger BY DEF BlockedLocally, store
  <2> QED BY <1>1, <2>1 DEF BookedInv, FilledJournaled
<1> QED BY <1>1, <1>2, <1>3, <1>4, BooksLift

LEMMA BooksGenerateOrderLinkId ==
  ASSUME HandoffInv, HandoffInv', BookedInv, NEW p \in Proc, OnlyMemory(p), GenerateOrderLinkId(p)
  PROVE  BookedInv'
<1>1. Journaled' = Journaled BY JournalKept DEF GenerateOrderLinkId, store
<1>2. ProcessBooked(proc[p])'
  BY <1>1, HandoffAssumption DEF GenerateOrderLinkId, BookedInv, ProcessBooked,
     ClaimBooked, Booked, FilledJournaled, IsClaim, IsRow, At, PutClaim, store, exchange,
     Shapes, MemoryOk, IsMemory, HandoffInv
<1>3. ClaimBooked(active)'
  BY <1>1, <1>2 DEF GenerateOrderLinkId, BookedInv, ProcessBooked, ClaimBooked, Booked,
     FilledJournaled, IsClaim, IsRow, At, PutClaim, store, exchange, Shapes, MemoryOk,
     IsMemory, HandoffInv
<1>4. FilledJournaled'
  <2>1. ledger' = ledger BY DEF GenerateOrderLinkId, store
  <2> QED BY <1>1, <2>1 DEF BookedInv, FilledJournaled
<1> QED BY <1>1, <1>2, <1>3, <1>4, BooksLift

LEMMA BooksCreateOrder ==
  ASSUME HandoffInv, HandoffInv', BookedInv, NEW p \in Proc, OnlyMemory(p), CreateOrder(p)
  PROVE  BookedInv'
<1>1. Journaled' = Journaled BY JournalKept DEF CreateOrder, store
<1>2. ProcessBooked(proc[p])'
  BY <1>1, HandoffAssumption DEF CreateOrder, BookedInv, ProcessBooked, ClaimBooked,
     Booked, FilledJournaled, IsClaim, IsRow, At, Goto, PutClaim, store, exchange, Shapes,
     MemoryOk, IsMemory, HandoffInv
<1>3. ClaimBooked(active)'
  BY <1>1, <1>2 DEF CreateOrder, BookedInv, ProcessBooked, ClaimBooked, Booked,
     FilledJournaled, IsClaim, IsRow, At, Goto, PutClaim, store, exchange, Shapes,
     MemoryOk, IsMemory, HandoffInv
<1>4. FilledJournaled'
  <2>1. ledger' = ledger BY DEF CreateOrder, store
  <2> QED BY <1>1, <2>1 DEF BookedInv, FilledJournaled
<1> QED BY <1>1, <1>2, <1>3, <1>4, BooksLift

LEMMA BooksFinalizeEntryOrder ==
  ASSUME HandoffInv, HandoffInv', BookedInv, NEW p \in Proc, OnlyMemory(p), FinalizeEntryOrder(p)
  PROVE  BookedInv'
<1>1. Journaled' = Journaled BY JournalKept DEF FinalizeEntryOrder
<1>2. ProcessBooked(proc[p])'
  BY <1>1, HandoffAssumption DEF FinalizeEntryOrder, BookedInv, ProcessBooked,
     ClaimBooked, Booked, FilledJournaled, IsClaim, IsRow, At, PutClaim, store, exchange,
     Shapes, MemoryOk, IsMemory, HandoffInv
<1>3. ClaimBooked(active)'
  BY <1>1, <1>2 DEF FinalizeEntryOrder, BookedInv, ProcessBooked, ClaimBooked, Booked,
     FilledJournaled, IsClaim, IsRow, At, PutClaim, store, exchange, Shapes, MemoryOk,
     IsMemory, HandoffInv
<1>4. FilledJournaled'
  <2>1. ledger' = ledger BY DEF FinalizeEntryOrder
  <2> QED BY <1>1, <2>1 DEF BookedInv, FilledJournaled
<1> QED BY <1>1, <1>2, <1>3, <1>4, BooksLift

LEMMA BooksMarkSubmitted ==
  ASSUME HandoffInv, HandoffInv', BookedInv, NEW p \in Proc, OnlyMemory(p), MarkSubmitted(p)
  PROVE  BookedInv'
<1>1. Journaled' = Journaled BY JournalKept DEF MarkSubmitted, PutClaim
<1>2. ProcessBooked(proc[p])'
  BY <1>1, HandoffAssumption DEF MarkSubmitted, BookedInv, ProcessBooked, ClaimBooked,
     Booked, FilledJournaled, IsClaim, IsRow, At, PutClaim, store, exchange, Shapes,
     MemoryOk, IsMemory, HandoffInv
<1>3. ClaimBooked(active)'
  BY <1>1, <1>2 DEF MarkSubmitted, BookedInv, ProcessBooked, ClaimBooked, Booked,
     FilledJournaled, IsClaim, IsRow, At, PutClaim, store, exchange, Shapes, MemoryOk,
     IsMemory, HandoffInv
<1>4. FilledJournaled'
  <2>1. ledger' = ledger BY DEF MarkSubmitted, PutClaim
  <2> QED BY <1>1, <2>1 DEF BookedInv, FilledJournaled
<1> QED BY <1>1, <1>2, <1>3, <1>4, BooksLift

LEMMA BooksSyncLedger ==
  ASSUME HandoffInv, HandoffInv', BookedInv, NEW p \in Proc, OnlyMemory(p), SyncLedger(p)
  PROVE  BookedInv'
<1>1. Journaled' = Journaled BY JournalKept DEF SyncLedger
<1>2. ProcessBooked(proc[p])'
  <2>1. CASE Raise(p) BY <1>1, <2>1, BooksRaise DEF BookedInv
  <2>2. CASE Return(p, FALSE) BY <1>1, <2>2, BooksReturn DEF BookedInv
  <2>3. CASE /\ proc' = [proc EXCEPT ![p].bound = 0, ![p].pc = proc[p].ret]
             /\ proc[p].pc = "sync" /\ proc[p].ret # "idle"
    BY <1>1, <2>3 DEF HandoffInv, Shapes, MemoryOk, IsMemory, ProcessBooked,
       ClaimBooked, Booked, BookedInv
  <2> QED BY <2>1, <2>2, <2>3 DEF SyncLedger, At
<1>3. ClaimBooked(active)'
  BY <1>1, <1>2 DEF SyncLedger, BookedInv, ProcessBooked, ClaimBooked, Booked,
     FilledJournaled, NoClaim, IsClaim, IsRow, At, Goto, Return, Returned, Raise,
     PutClaim, SameOwner, Synced, store, exchange, Shapes, MemoryOk, IsMemory, HandoffInv
<1>4. FilledJournaled'
  <2>1. ledger' = ledger \/ ledger' = Synced(proc[p].claim) BY DEF SyncLedger
  <2> QED BY <1>1, <2>1, RowsBooked DEF BookedInv, ProcessBooked
<1> QED BY <1>1, <1>2, <1>3, <1>4, BooksLift

LEMMA BooksResolve ==
  ASSUME HandoffInv, HandoffInv', BookedInv, NEW p \in Proc, OnlyMemory(p), Resolve(p)
  PROVE  BookedInv'
<1>1. Journaled' = Journaled BY JournalKept DEF Resolve, PutClaim
<1>2. ProcessBooked(proc[p])'
  <2> DEFINE s == FillDecision(proc[p].resp)
              c == [proc[p].claim EXCEPT !.state = s, !.fill = s = "RESOLVED_FILLED"]
  <2>1. c.state = s /\ (s = "RESOLVED_NO_FILL" => ~c.fill) /\ s # "COMPLETED"
    BY DEF HandoffInv, Shapes, MemoryOk, IsClaim, FillDecision
  <2>2. proc' = [proc EXCEPT ![p].claim = c, ![p].pc = "sync", ![p].ret = "journal"]
    BY DEF Resolve, PutClaim
  <2> HIDE DEF c, s
  <2> QED
    BY <1>1, <2>1, <2>2 DEF HandoffInv, Shapes, MemoryOk, IsMemory, ProcessBooked,
       ClaimBooked, Booked, BookedInv
<1>3. ClaimBooked(active)'
  BY <1>1, <1>2 DEF Resolve, BookedInv, ProcessBooked, ClaimBooked, Booked,
     FilledJournaled, IsClaim, IsRow, At, PutClaim, store, exchange, Shapes, MemoryOk,
     IsMemory, FillDecision, HandoffInv
<1>4. FilledJournaled'
  <2>1. ledger' = ledger BY DEF Resolve, PutClaim
  <2> QED BY <1>1, <2>1 DEF BookedInv, FilledJournaled
<1> QED BY <1>1, <1>2, <1>3, <1>4, BooksLift

LEMMA BooksJournalOrder ==
  ASSUME HandoffInv, HandoffInv', BookedInv, NEW p \in Proc, OnlyMemory(p), JournalOrder(p)
  PROVE  BookedInv'
<1>1. Journaled \subseteq Journaled' BY EnteredOnce, JournalKept DEF JournalOrder
<1>2. ProcessBooked(proc[p])'
  <2> QED BY <1>1, EnteredOnce, BooksGoto DEF JournalOrder, BookedInv
<1>3. ClaimBooked(active)'
  BY <1>1, <1>2 DEF JournalOrder, BookedInv, ProcessBooked, ClaimBooked, Booked,
     FilledJournaled, IsClaim, IsRow, At, Goto, exchange, Shapes, MemoryOk, IsMemory,
     HandoffInv
<1>4. FilledJournaled'
  <2>1. ledger' = ledger BY DEF JournalOrder
  <2> QED BY <1>1, <2>1 DEF BookedInv, FilledJournaled
<1> QED BY <1>1, <1>2, <1>3, <1>4, BooksLift

LEMMA BooksBookResult ==
  ASSUME HandoffInv, HandoffInv', BookedInv, NEW p \in Proc, OnlyMemory(p), BookResult(p)
  PROVE  BookedInv'
<1>1. Journaled' = Journaled BY JournalKept DEF BookResult, store
<1>2. ProcessBooked(proc[p])'
  <2> DEFINE id == proc[p].claim.id
              noted == [proc EXCEPT ![p].mem = @ \cup {id}]
  <2>1. /\ IsMemory(noted[p]) /\ DOMAIN noted = Proc /\ noted[p].mem = proc[p].mem \cup {id}
        /\ noted[p].claim = proc[p].claim
    BY DEF HandoffInv, Shapes, MemoryOk, IsMemory
  <2>2. \/ proc' = [noted EXCEPT ![p].pc = "remove"]
        \/ proc' = [noted EXCEPT ![p] = Returned(@, FALSE)]
    BY DEF BookResult
  <2>3. proc[p].pc = "noted" BY DEF BookResult, At
  <2>4. proc[p].claim.id \in Journaled BY <2>3 DEF BookedInv, ProcessBooked
  <2> HIDE DEF noted
  <2>5. /\ proc'[p].mem = proc[p].mem \cup {id}
        /\ \/ proc'[p].pc = "remove" /\ proc'[p].claim = proc[p].claim
           \/ proc'[p].pc = "idle" /\ proc'[p].claim = NoClaim
    <3>1. CASE proc' = [noted EXCEPT ![p].pc = "remove"] BY <2>1, <3>1 DEF IsMemory
    <3>2. CASE proc' = [noted EXCEPT ![p] = Returned(@, FALSE)]
      <4>1. proc'[p] = Returned(noted[p], FALSE) BY <2>1, <3>2
      <4> QED BY <2>1, <4>1 DEF Returned, IsMemory
    <3> QED BY <2>2, <3>1, <3>2
  <2> HIDE DEF id
  <2> QED
    BY <1>1, <2>3, <2>4, <2>5 DEF id, NoClaim, ProcessBooked, ClaimBooked, Booked,
       BookedInv
<1>3. ClaimBooked(active)'
  BY <1>1, <1>2 DEF BookResult, BookedInv, ProcessBooked, ClaimBooked, Booked,
     FilledJournaled, RESOLVED_CLAIM_STATES, NoClaim, IsClaim, IsRow, At, Returned,
     PutClaim, store, exchange, Shapes, MemoryOk, IsMemory, HandoffInv
<1>4. FilledJournaled'
  <2>1. ledger' = ledger BY DEF BookResult, store
  <2> QED BY <1>1, <2>1 DEF BookedInv, FilledJournaled
<1> QED BY <1>1, <1>2, <1>3, <1>4, BooksLift

LEMMA BooksReplayAccounting ==
  ASSUME HandoffInv, HandoffInv', BookedInv, NEW p \in Proc, OnlyMemory(p), ReplayAccounting(p)
  PROVE  BookedInv'
<1>1. Journaled \subseteq Journaled' BY EnteredOnce, JournalKept DEF ReplayAccounting
<1>2. ProcessBooked(proc[p])'
  <2>1. CASE Goto(p, "replayed") /\ proc[p].claim.id \in proc[p].mem
    <3>1. proc[p].claim.id \in Journaled' BY <1>1, <2>1 DEF BookedInv, ProcessBooked
    <3> QED BY <1>1, <2>1, <3>1, BooksGoto DEF BookedInv
  <2>2. CASE Goto(p, "replayNoted") /\ journal' = Entered(proc[p].claim.id)
    BY <1>1, <2>2, EnteredOnce, BooksGoto DEF BookedInv
  <2> QED BY <2>1, <2>2 DEF ReplayAccounting
<1>3. ClaimBooked(active)'
  BY <1>1, <1>2 DEF ReplayAccounting, BookedInv, ProcessBooked, ClaimBooked, Booked,
     FilledJournaled, IsClaim, IsRow, At, Goto, exchange, Shapes, MemoryOk, IsMemory,
     HandoffInv
<1>4. FilledJournaled'
  <2>1. ledger' = ledger BY DEF ReplayAccounting
  <2> QED BY <1>1, <2>1 DEF BookedInv, FilledJournaled
<1> QED BY <1>1, <1>2, <1>3, <1>4, BooksLift

LEMMA BooksNoteReplay ==
  ASSUME HandoffInv, HandoffInv', BookedInv, NEW p \in Proc, OnlyMemory(p), NoteReplay(p)
  PROVE  BookedInv'
<1>1. Journaled' = Journaled BY JournalKept DEF NoteReplay, store
<1>2. ProcessBooked(proc[p])'
  BY <1>1, HandoffAssumption DEF NoteReplay, BookedInv, ProcessBooked, ClaimBooked,
     Booked, FilledJournaled, IsClaim, IsRow, At, PutClaim, store, exchange, Shapes,
     MemoryOk, IsMemory, HandoffInv
<1>3. ClaimBooked(active)'
  BY <1>1, <1>2 DEF NoteReplay, BookedInv, ProcessBooked, ClaimBooked, Booked,
     FilledJournaled, IsClaim, IsRow, At, PutClaim, store, exchange, Shapes, MemoryOk,
     IsMemory, HandoffInv
<1>4. FilledJournaled'
  <2>1. ledger' = ledger BY DEF NoteReplay, store
  <2> QED BY <1>1, <2>1 DEF BookedInv, FilledJournaled
<1> QED BY <1>1, <1>2, <1>3, <1>4, BooksLift

LEMMA BooksAccountingRestored ==
  ASSUME HandoffInv, HandoffInv', BookedInv, NEW p \in Proc, OnlyMemory(p), AccountingRestored(p)
  PROVE  BookedInv'
<1>1. Journaled' = Journaled BY JournalKept DEF AccountingRestored, PutClaim
<1>2. ProcessBooked(proc[p])'
  BY <1>1, HandoffAssumption DEF AccountingRestored, BookedInv, ProcessBooked,
     ClaimBooked, Booked, FilledJournaled, IsClaim, IsRow, At, PutClaim, store, exchange,
     Shapes, MemoryOk, IsMemory, HandoffInv
<1>3. ClaimBooked(active)'
  BY <1>1, <1>2 DEF AccountingRestored, BookedInv, ProcessBooked, ClaimBooked, Booked,
     FilledJournaled, IsClaim, IsRow, At, PutClaim, store, exchange, Shapes, MemoryOk,
     IsMemory, HandoffInv
<1>4. FilledJournaled'
  <2>1. ledger' = ledger BY DEF AccountingRestored, PutClaim
  <2> QED BY <1>1, <2>1 DEF BookedInv, FilledJournaled
<1> QED BY <1>1, <1>2, <1>3, <1>4, BooksLift

LEMMA BooksRemoveExactCandidate ==
  ASSUME HandoffInv, HandoffInv', BookedInv, NEW p \in Proc, OnlyMemory(p), RemoveExactCandidate(p)
  PROVE  BookedInv'
<1>1. Journaled' = Journaled BY JournalKept DEF RemoveExactCandidate, store
<1>2. ProcessBooked(proc[p])'
  BY <1>1, HandoffAssumption DEF RemoveExactCandidate, BookedInv, ProcessBooked,
     ClaimBooked, Booked, FilledJournaled, IsClaim, IsRow, At, PutClaim, store, exchange,
     Shapes, MemoryOk, IsMemory, HandoffInv
<1>3. ClaimBooked(active)'
  BY <1>1, <1>2 DEF RemoveExactCandidate, BookedInv, ProcessBooked, ClaimBooked,
     Booked, FilledJournaled, IsClaim, IsRow, At, PutClaim, store, exchange, Shapes,
     MemoryOk, IsMemory, HandoffInv
<1>4. FilledJournaled'
  <2>1. ledger' = ledger BY DEF RemoveExactCandidate, store
  <2> QED BY <1>1, <2>1 DEF BookedInv, FilledJournaled
<1> QED BY <1>1, <1>2, <1>3, <1>4, BooksLift

LEMMA BooksComplete ==
  ASSUME HandoffInv, HandoffInv', BookedInv, NEW p \in Proc, OnlyMemory(p), Complete(p)
  PROVE  BookedInv'
<1>1. Journaled' = Journaled BY JournalKept DEF Complete, PutClaim
<1>2. ProcessBooked(proc[p])'
  BY <1>1, HandoffAssumption DEF Complete, BookedInv, ProcessBooked, ClaimBooked,
     Booked, FilledJournaled, IsClaim, IsRow, At, PutClaim, store, exchange, Shapes,
     MemoryOk, IsMemory, HandoffInv
<1>3. ClaimBooked(active)'
  BY <1>1, <1>2 DEF Complete, BookedInv, ProcessBooked, ClaimBooked, Booked,
     FilledJournaled, IsClaim, IsRow, At, PutClaim, store, exchange, Shapes, MemoryOk,
     IsMemory, HandoffInv
<1>4. FilledJournaled'
  <2>1. ledger' = ledger BY DEF Complete, PutClaim
  <2> QED BY <1>1, <2>1 DEF BookedInv, FilledJournaled
<1> QED BY <1>1, <1>2, <1>3, <1>4, BooksLift

LEMMA BooksClearClaim ==
  ASSUME HandoffInv, HandoffInv', BookedInv, NEW p \in Proc, OnlyMemory(p), ClearClaim(p)
  PROVE  BookedInv'
<1>1. Journaled' = Journaled BY JournalKept DEF ClearClaim
<1>2. ProcessBooked(proc[p])'
  BY <1>1, HandoffAssumption DEF ClearClaim, BookedInv, ProcessBooked, ClaimBooked,
     Booked, FilledJournaled, NoClaim, IsClaim, IsRow, At, Return, Returned, PutClaim,
     store, exchange, Shapes, MemoryOk, IsMemory, HandoffInv
<1>3. ClaimBooked(active)'
  BY <1>1, <1>2 DEF ClearClaim, BookedInv, ProcessBooked, ClaimBooked, Booked,
     FilledJournaled, NoClaim, IsClaim, IsRow, At, Return, Returned, PutClaim, store,
     exchange, Shapes, MemoryOk, IsMemory, HandoffInv
<1>4. FilledJournaled'
  <2>1. ledger' = ledger BY DEF ClearClaim
  <2> QED BY <1>1, <2>1 DEF BookedInv, FilledJournaled
<1> QED BY <1>1, <1>2, <1>3, <1>4, BooksLift

LEMMA BooksSubmissionUnknown ==
  ASSUME HandoffInv, HandoffInv', BookedInv, NEW p \in Proc, OnlyMemory(p), SubmissionUnknown(p)
  PROVE  BookedInv'
<1>1. Journaled' = Journaled BY JournalKept DEF SubmissionUnknown
<1>2. ProcessBooked(proc[p])'
  <2> DEFINE c == [proc[p].claim EXCEPT !.state = "SUBMISSION_UNKNOWN"]
  <2>1. c.state = "SUBMISSION_UNKNOWN" BY DEF HandoffInv, Shapes, MemoryOk, IsClaim
  <2>2. CASE /\ active' = c
             /\ proc' = [proc EXCEPT ![p].claim = active', ![p].pc = "sync", ![p].ret = "idle",
                                     ![p].started = FALSE, ![p].enabled = FALSE, ![p].bound = 0]
    <3> HIDE DEF c
    <3> QED
      BY <1>1, <2>1, <2>2 DEF HandoffInv, Shapes, MemoryOk, IsMemory, ProcessBooked,
         ClaimBooked, Booked, BookedInv
  <2>3. CASE Return(p, FALSE) BY <1>1, <2>3, BooksReturn DEF BookedInv
  <2> QED BY <2>2, <2>3 DEF SubmissionUnknown
<1>3. ClaimBooked(active)'
  BY <1>1, <1>2 DEF SubmissionUnknown, BookedInv, ProcessBooked, ClaimBooked, Booked,
     FilledJournaled, NoClaim, IsClaim, IsRow, At, Return, Returned, PutClaim, store,
     exchange, Shapes, MemoryOk, IsMemory, HandoffInv
<1>4. FilledJournaled'
  <2>1. ledger' = ledger BY DEF SubmissionUnknown
  <2> QED BY <1>1, <2>1 DEF BookedInv, FilledJournaled
<1> QED BY <1>1, <1>2, <1>3, <1>4, BooksLift

LEMMA BooksStoreFault ==
  ASSUME HandoffInv, HandoffInv', BookedInv, NEW p \in Proc, OnlyMemory(p), StoreFault(p)
  PROVE  BookedInv'
<1>1. Journaled' = Journaled BY JournalKept DEF StoreFault, store
<1>2. ProcessBooked(proc[p])'
  <2> QED BY <1>1, BooksRaise DEF StoreFault, BookedInv
<1>3. ClaimBooked(active)'
  BY <1>1, <1>2 DEF StoreFault, BookedInv, ProcessBooked, ClaimBooked, Booked,
     FilledJournaled, NoClaim, IsClaim, IsRow, Goto, Return, Returned, Raise, PutClaim,
     store, exchange, Shapes, MemoryOk, IsMemory, HandoffInv
<1>4. FilledJournaled'
  <2>1. ledger' = ledger BY DEF StoreFault, store
  <2> QED BY <1>1, <2>1 DEF BookedInv, FilledJournaled
<1> QED BY <1>1, <1>2, <1>3, <1>4, BooksLift

LEMMA BookedStep ==
  ASSUME HandoffInv, HandoffInv', BookedInv, [Next]_vars PROVE BookedInv'
<1>1. ASSUME NEW p \in Proc,
             \/ Boot(p) \/ Bootstrap(p) \/ Crash(p) \/ StartBot(p) \/ StopBot(p) \/ RunOnce(p)
      PROVE  BookedInv'
  <2>1. OnlyMemory(p) BY <1>1, OthersKept
  <2> QED
    BY <1>1, <2>1, BooksBoot, BooksBootstrap, BooksCrash, BooksStartBot, BooksStopBot,
       BooksClaimStore, BooksLoadClaim, BooksRemoveCandidate, BooksGuardBlocks,
       BooksPendingFillGuard, BooksReserve, BooksCreateClaim, BooksReloadClaim,
       BooksClaimConflict, BooksClaimCreationError, BooksEnrichClaim, BooksOwnLedger,
       BooksBlockedLocally, BooksGenerateOrderLinkId, BooksCreateOrder,
       BooksFinalizeEntryOrder, BooksMarkSubmitted, BooksSyncLedger, BooksResolve,
       BooksJournalOrder, BooksBookResult, BooksReplayAccounting, BooksNoteReplay,
       BooksAccountingRestored, BooksRemoveExactCandidate, BooksComplete, BooksClearClaim,
       BooksSubmissionUnknown, BooksStoreFault DEF RunOnce
<1>2. ASSUME NEW p \in Proc, NEW c \in Candidate, EvaluateSymbol(p, c) PROVE BookedInv'
  <2>1. OnlyMemory(p) BY <1>2, OthersKept
  <2>2. Journaled' = Journaled BY <1>2, JournalKept DEF EvaluateSymbol, store
  <2>3. proc'[p].pc = proc[p].pc /\ proc'[p].claim = proc[p].claim /\ proc'[p].ret = proc[p].ret
        /\ proc'[p].mem = proc[p].mem
    BY <1>2 DEF EvaluateSymbol, HandoffInv, Shapes, MemoryOk, IsMemory
  <2>4. ProcessBooked(proc[p])'
    BY <2>2, <2>3 DEF BookedInv, ProcessBooked, ClaimBooked, Booked
  <2>5. ClaimBooked(active)' /\ FilledJournaled'
    BY <1>2, <2>2 DEF EvaluateSymbol, store, BookedInv, ClaimBooked, FilledJournaled
  <2> QED BY <2>1, <2>2, <2>4, <2>5, BooksLift
<1>3. ASSUME active' = active, ledger' = ledger, proc' = proc, journal' = journal PROVE BookedInv'
  <2>1. Journaled' = Journaled BY <1>3, JournalKept
  <2> QED BY <1>3, <2>1 DEF BookedInv, ProcessBooked, ClaimBooked, Booked, FilledJournaled
<1>4. ASSUME NEW c \in Candidate, OrderMoves(c) PROVE BookedInv'
  BY <1>3, <1>4 DEF OrderMoves, store
<1>5. CASE UNCHANGED vars BY <1>3, <1>5 DEF vars, store
<1> QED BY <1>1, <1>2, <1>4, <1>5 DEF Next

LEMMA BookedInit == Init => BookedInv
BY DEF Init, BookedInv, ProcessBooked, ClaimBooked, Booked, FilledJournaled, NoClaim,
   Down, NoRow
\* Every claim that the ledger calls completed with a fill has its durable
\* journal entry, in every deployment: the entry is written before the claim is
\* completed, by the run that saw the fill or by the replay after a restart.
THEOREM FilledIsJournaled == Spec => []FilledJournaled
<1>1. Init => HandoffInv /\ BookedInv BY HandoffInit, BookedInit
<1>2. HandoffInv /\ BookedInv /\ [Next]_vars => HandoffInv' /\ BookedInv'
  BY HandoffStep, BookedStep
<1>3. BookedInv => FilledJournaled BY DEF BookedInv
<1> QED BY <1>1, <1>2, <1>3, PTL DEF Spec

-----------------------------------------------------------------------------
(* One process at a time and no store fault: one entry per claim.           *)

\* The process has the claim it drew and has not written its entry.
Unbooked(m) ==
  \/ m.pc \in {"created", "enrich", "own", "place", "post", "verify", "mark", "resolve", "journal"}
  \/ m.pc = "sync" /\ m.ret \in {"resolve", "journal"}

KnowsJournal(m) ==
  /\ m.pc \notin {"down", "noted", "replayNoted"} => m.mem = Journaled
  /\ m.pc \in {"noted", "replayNoted"} => m.mem \cup {m.claim.id} = Journaled
  /\ Unbooked(m) => m.claim.id \notin Journaled

OnceInv ==
  ~deployment.overlap /\ ~deployment.faults =>
    /\ serial \in Nat
    /\ \A id \in Journaled : id \in 0 .. serial
    /\ active.id \in 0 .. serial
    /\ \A p \in Proc : proc[p].claim.id \in 0 .. serial
    /\ \A p \in Proc : KnowsJournal(proc[p])
    /\ \A e \in journal : e[2] = 1

\* The numbers of the claims.
Numbered(p) ==
  /\ serial \in Nat
  /\ \A id \in Journaled : id \in 0 .. serial
  /\ active.id \in 0 .. serial
  /\ proc[p].claim.id \in 0 .. serial

\* What the one process that is up does keeps the invariant if it keeps its own
\* part of it.
LEMMA OnceLift ==
  ASSUME OnceInv, ~deployment.overlap, ~deployment.faults,
         NEW p \in Proc, OnlyMemory(p), OnlyUp(p), serial' >= serial, Numbered(p)',
         KnowsJournal(proc[p])', \A e \in journal' : e[2] = 1
  PROVE  OnceInv'
<1>1. \A q \in Proc \ {p} : proc'[q] = proc[q] /\ proc[q].pc = "down"
  BY DEF OnlyMemory, OnlyUp
<1>2. \A q \in Proc : proc'[q].claim.id \in 0 .. serial' BY <1>1 DEF OnceInv, Numbered
<1>3. \A q \in Proc \ {p} : KnowsJournal(proc[q])'
  BY <1>1 DEF KnowsJournal, Unbooked
<1> QED BY <1>2, <1>3 DEF OnceInv, Numbered

LEMMA OnceReturn ==
  ASSUME HandoffInv, NEW p \in Proc, NEW enabled, Return(p, enabled), proc[p].mem = Journaled'
  PROVE  KnowsJournal(proc[p])' /\ proc'[p].claim = NoClaim
<1>1. proc'[p] = Returned(proc[p], enabled) BY DEF HandoffInv, Shapes, Return
<1>2. IsMemory(proc[p]) BY DEF HandoffInv, Shapes, MemoryOk
<1>3. proc'[p].pc = "idle" /\ proc'[p].mem = proc[p].mem /\ proc'[p].claim = NoClaim
  BY <1>1, <1>2 DEF Returned, IsMemory
<1> QED BY <1>3 DEF KnowsJournal, Unbooked

LEMMA OnceGoto ==
  ASSUME HandoffInv, NEW p \in Proc, NEW l, Goto(p, l), proc[p].mem = Journaled',
         l \in {"idle", "load", "create", "except", "failed"}
  PROVE  KnowsJournal(proc[p])' /\ proc'[p].claim = proc[p].claim
<1>1. proc'[p].pc = l /\ proc'[p].mem = proc[p].mem /\ proc'[p].claim = proc[p].claim
  BY DEF HandoffInv, Shapes, MemoryOk, IsMemory, Goto
<1> QED BY <1>1 DEF KnowsJournal, Unbooked

LEMMA OnceNumbers ==
  ASSUME OnceInv, ~deployment.overlap, ~deployment.faults, NEW p \in Proc,
         Journaled' = Journaled, active' = active, serial' = serial,
         proc'[p].claim \in {NoClaim, proc[p].claim, active}
  PROVE  serial' >= serial /\ Numbered(p)'
BY DEF OnceInv, Numbered, NoClaim

LEMMA OnceBoot ==
  ASSUME HandoffInv, OnceInv, ~deployment.overlap, ~deployment.faults,
         NEW p \in Proc, Boot(p)
  PROVE  /\ KnowsJournal(proc[p])' /\ \A e \in journal' : e[2] = 1
         /\ serial' >= serial /\ Numbered(p)'
<1>1. Journaled' = Journaled /\ journal' = journal BY JournalKept DEF Boot, store
<1>5. KnowsJournal(proc[p])'
  BY <1>1 DEF Boot, KnowsJournal, Unbooked, IsClaim, At, PutClaim, store, exchange,
     Shapes, MemoryOk, IsMemory, HandoffInv, OnceInv
<1>7. serial' >= serial /\ Numbered(p)'
  BY <1>1 DEF Boot, Numbered, IsClaim, At, PutClaim, store, exchange, Shapes, MemoryOk,
     IsMemory, HandoffInv, OnceInv
<1> QED BY <1>1, <1>5, <1>7 DEF OnceInv

LEMMA OnceBootstrap ==
  ASSUME HandoffInv, OnceInv, ~deployment.overlap, ~deployment.faults,
         NEW p \in Proc, Bootstrap(p)
  PROVE  /\ KnowsJournal(proc[p])' /\ \A e \in journal' : e[2] = 1
         /\ serial' >= serial /\ Numbered(p)'
<1>1. Journaled' = Journaled /\ journal' = journal BY JournalKept DEF Bootstrap
<1>5. KnowsJournal(proc[p])'
  BY <1>1 DEF Bootstrap, KnowsJournal, Unbooked, NoClaim, IsClaim, At, PutClaim,
     SameOwner, store, exchange, Shapes, MemoryOk, IsMemory, Down, HandoffInv, OnceInv
<1>7. serial' >= serial /\ Numbered(p)'
  BY <1>1 DEF Bootstrap, Numbered, NoClaim, IsClaim, At, PutClaim, SameOwner, store,
     exchange, Shapes, MemoryOk, IsMemory, Down, HandoffInv, OnceInv
<1> QED BY <1>1, <1>5, <1>7 DEF OnceInv

LEMMA OnceCrash ==
  ASSUME HandoffInv, OnceInv, ~deployment.overlap, ~deployment.faults,
         NEW p \in Proc, Crash(p)
  PROVE  /\ KnowsJournal(proc[p])' /\ \A e \in journal' : e[2] = 1
         /\ serial' >= serial /\ Numbered(p)'
<1>1. Journaled' = Journaled /\ journal' = journal BY JournalKept DEF Crash, store
<1>5. KnowsJournal(proc[p])'
  BY <1>1 DEF Crash, KnowsJournal, Unbooked, NoClaim, IsClaim, At, PutClaim, store,
     exchange, Shapes, MemoryOk, IsMemory, Down, HandoffInv, OnceInv
<1>7. serial' >= serial /\ Numbered(p)'
  BY <1>1 DEF Crash, Numbered, NoClaim, IsClaim, At, PutClaim, store, exchange, Shapes,
     MemoryOk, IsMemory, Down, HandoffInv, OnceInv
<1> QED BY <1>1, <1>5, <1>7 DEF OnceInv

LEMMA OnceStartBot ==
  ASSUME HandoffInv, OnceInv, ~deployment.overlap, ~deployment.faults,
         NEW p \in Proc, StartBot(p)
  PROVE  /\ KnowsJournal(proc[p])' /\ \A e \in journal' : e[2] = 1
         /\ serial' >= serial /\ Numbered(p)'
<1>1. Journaled' = Journaled /\ journal' = journal BY JournalKept DEF StartBot, store
<1>5. KnowsJournal(proc[p])'
  BY <1>1 DEF StartBot, KnowsJournal, Unbooked, IsClaim, PutClaim, store, exchange,
     Shapes, MemoryOk, IsMemory, HandoffInv, OnceInv
<1>7. serial' >= serial /\ Numbered(p)'
  BY <1>1 DEF StartBot, Numbered, IsClaim, PutClaim, store, exchange, Shapes, MemoryOk,
     IsMemory, HandoffInv, OnceInv
<1> QED BY <1>1, <1>5, <1>7 DEF OnceInv

LEMMA OnceStopBot ==
  ASSUME HandoffInv, OnceInv, ~deployment.overlap, ~deployment.faults,
         NEW p \in Proc, StopBot(p)
  PROVE  /\ KnowsJournal(proc[p])' /\ \A e \in journal' : e[2] = 1
         /\ serial' >= serial /\ Numbered(p)'
<1>1. Journaled' = Journaled /\ journal' = journal BY JournalKept DEF StopBot, store
<1>5. KnowsJournal(proc[p])'
  BY <1>1 DEF StopBot, KnowsJournal, Unbooked, IsClaim, PutClaim, store, exchange,
     Shapes, MemoryOk, IsMemory, HandoffInv, OnceInv
<1>7. serial' >= serial /\ Numbered(p)'
  BY <1>1 DEF StopBot, Numbered, IsClaim, PutClaim, store, exchange, Shapes, MemoryOk,
     IsMemory, HandoffInv, OnceInv
<1> QED BY <1>1, <1>5, <1>7 DEF OnceInv

LEMMA OnceClaimStore ==
  ASSUME HandoffInv, OnceInv, ~deployment.overlap, ~deployment.faults,
         NEW p \in Proc, ClaimStore(p)
  PROVE  /\ KnowsJournal(proc[p])' /\ \A e \in journal' : e[2] = 1
         /\ serial' >= serial /\ Numbered(p)'
<1>1. Journaled' = Journaled /\ journal' = journal BY JournalKept DEF ClaimStore, store
<1>2. proc[p].mem = Journaled' BY <1>1 DEF ClaimStore, At, OnceInv, KnowsJournal
<1>3. Goto(p, "load") \/ Return(p, FALSE) BY DEF ClaimStore
<1>4. active' = active /\ serial' = serial BY DEF ClaimStore, store
<1> QED BY <1>1, <1>2, <1>3, <1>4, OnceGoto, OnceReturn, OnceNumbers DEF OnceInv

LEMMA OnceLoadClaim ==
  ASSUME HandoffInv, OnceInv, ~deployment.overlap, ~deployment.faults,
         NEW p \in Proc, LoadClaim(p)
  PROVE  /\ KnowsJournal(proc[p])' /\ \A e \in journal' : e[2] = 1
         /\ serial' >= serial /\ Numbered(p)'
<1>1. Journaled' = Journaled /\ journal' = journal BY JournalKept DEF LoadClaim, store
<1>2. proc[p].mem = Journaled' /\ proc[p].pc = "load"
  BY <1>1 DEF LoadClaim, At, OnceInv, KnowsJournal
<1>4. active' = active /\ serial' = serial BY DEF LoadClaim, store
<1>3. CASE Return(p, FALSE) \/ Return(p, proc[p].enabled)
  BY <1>1, <1>2, <1>3, <1>4, OnceReturn, OnceNumbers DEF OnceInv
<1>5. CASE \E l \in {"replay", "remove"} :
             proc' = [proc EXCEPT ![p].claim = active, ![p].pc = l]
  <2>1. /\ proc'[p].pc \in {"replay", "remove"} /\ proc'[p].mem = proc[p].mem
        /\ proc'[p].claim = active
    BY <1>5 DEF HandoffInv, Shapes, MemoryOk, IsMemory
  <2> QED BY <1>1, <1>2, <1>4, <2>1, OnceNumbers DEF OnceInv, KnowsJournal, Unbooked
<1>6. CASE proc' = [proc EXCEPT ![p].cand = Head(proc[p].queue), ![p].pc = "check"]
  <2>1. proc'[p].pc = "check" /\ proc'[p].mem = proc[p].mem /\ proc'[p].claim = proc[p].claim
    BY <1>6 DEF HandoffInv, Shapes, MemoryOk, IsMemory
  <2> QED BY <1>1, <1>2, <1>4, <2>1, OnceNumbers DEF OnceInv, KnowsJournal, Unbooked
<1> QED BY <1>3, <1>5, <1>6 DEF LoadClaim

LEMMA OnceRemoveCandidate ==
  ASSUME HandoffInv, OnceInv, ~deployment.overlap, ~deployment.faults,
         NEW p \in Proc, RemoveCandidate(p)
  PROVE  /\ KnowsJournal(proc[p])' /\ \A e \in journal' : e[2] = 1
         /\ serial' >= serial /\ Numbered(p)'
<1>1. Journaled' = Journaled /\ journal' = journal
  BY JournalKept DEF RemoveCandidate, store
<1>5. KnowsJournal(proc[p])'
  BY <1>1 DEF RemoveCandidate, KnowsJournal, Unbooked, IsClaim, PutClaim, store,
     exchange, Shapes, MemoryOk, IsMemory, HandoffInv, OnceInv
<1>7. serial' >= serial /\ Numbered(p)'
  BY <1>1 DEF RemoveCandidate, Numbered, IsClaim, PutClaim, store, exchange, Shapes,
     MemoryOk, IsMemory, HandoffInv, OnceInv
<1> QED BY <1>1, <1>5, <1>7 DEF OnceInv

LEMMA OnceGuardBlocks ==
  ASSUME HandoffInv, OnceInv, ~deployment.overlap, ~deployment.faults,
         NEW p \in Proc, GuardBlocks(p)
  PROVE  /\ KnowsJournal(proc[p])' /\ \A e \in journal' : e[2] = 1
         /\ serial' >= serial /\ Numbered(p)'
<1>1. Journaled' = Journaled /\ journal' = journal BY JournalKept DEF GuardBlocks, store
<1>5. KnowsJournal(proc[p])'
  BY <1>1 DEF GuardBlocks, KnowsJournal, Unbooked, NoClaim, IsClaim, At, Return,
     Returned, PutClaim, store, exchange, Shapes, MemoryOk, IsMemory, HandoffInv, OnceInv
<1>7. serial' >= serial /\ Numbered(p)'
  BY <1>1 DEF GuardBlocks, Numbered, NoClaim, IsClaim, At, Return, Returned, PutClaim,
     store, exchange, Shapes, MemoryOk, IsMemory, HandoffInv, OnceInv
<1> QED BY <1>1, <1>5, <1>7 DEF OnceInv

LEMMA OncePendingFillGuard ==
  ASSUME HandoffInv, OnceInv, ~deployment.overlap, ~deployment.faults,
         NEW p \in Proc, PendingFillGuard(p)
  PROVE  /\ KnowsJournal(proc[p])' /\ \A e \in journal' : e[2] = 1
         /\ serial' >= serial /\ Numbered(p)'
<1>1. Journaled' = Journaled /\ journal' = journal BY JournalKept DEF PendingFillGuard
<1>5. KnowsJournal(proc[p])'
  BY <1>1 DEF PendingFillGuard, KnowsJournal, Unbooked, IsClaim, At, Goto, PutClaim,
     store, exchange, Shapes, MemoryOk, IsMemory, HandoffInv, OnceInv
<1>7. serial' >= serial /\ Numbered(p)'
  BY <1>1 DEF PendingFillGuard, Numbered, IsClaim, At, Goto, PutClaim, store, exchange,
     Shapes, MemoryOk, IsMemory, HandoffInv, OnceInv
<1> QED BY <1>1, <1>5, <1>7 DEF OnceInv

LEMMA OnceReserve ==
  ASSUME HandoffInv, OnceInv, ~deployment.overlap, ~deployment.faults,
         NEW p \in Proc, Reserve(p)
  PROVE  /\ KnowsJournal(proc[p])' /\ \A e \in journal' : e[2] = 1
         /\ serial' >= serial /\ Numbered(p)'
<1>1. Journaled' = Journaled /\ journal' = journal BY JournalKept DEF Reserve
<1>2. proc[p].mem = Journaled' BY <1>1 DEF Reserve, At, OnceInv, KnowsJournal
<1>3. Goto(p, "create") \/ Return(p, FALSE) BY DEF Reserve
<1>4. active' = active /\ serial' = serial BY DEF Reserve
<1> QED BY <1>1, <1>2, <1>3, <1>4, OnceGoto, OnceReturn, OnceNumbers DEF OnceInv

LEMMA OnceCreateClaim ==
  ASSUME HandoffInv, OnceInv, ~deployment.overlap, ~deployment.faults,
         NEW p \in Proc, CreateClaim(p)
  PROVE  /\ KnowsJournal(proc[p])' /\ \A e \in journal' : e[2] = 1
         /\ serial' >= serial /\ Numbered(p)'
<1>1. Journaled' = Journaled /\ journal' = journal BY JournalKept DEF CreateClaim
<1>5. KnowsJournal(proc[p])'
  BY <1>1 DEF CreateClaim, KnowsJournal, Unbooked, NoClaim, IsClaim, At, Goto,
     PutClaim, store, exchange, Shapes, MemoryOk, IsMemory, HandoffInv, OnceInv
<1>7. serial' >= serial /\ Numbered(p)'
  BY <1>1 DEF CreateClaim, Numbered, NoClaim, IsClaim, At, Goto, PutClaim, store,
     exchange, Shapes, MemoryOk, IsMemory, HandoffInv, OnceInv
<1> QED BY <1>1, <1>5, <1>7 DEF OnceInv

LEMMA OnceReloadClaim ==
  ASSUME HandoffInv, OnceInv, ~deployment.overlap, ~deployment.faults,
         NEW p \in Proc, ReloadClaim(p)
  PROVE  /\ KnowsJournal(proc[p])' /\ \A e \in journal' : e[2] = 1
         /\ serial' >= serial /\ Numbered(p)'
<1>1. Journaled' = Journaled /\ journal' = journal BY JournalKept DEF ReloadClaim, store
<1>5. KnowsJournal(proc[p])'
  BY <1>1 DEF ReloadClaim, KnowsJournal, Unbooked, NoClaim, IsClaim, At, Goto, Return,
     Returned, Raise, PutClaim, SameOwner, store, exchange, Shapes, MemoryOk, IsMemory,
     HandoffInv, OnceInv
<1>7. serial' >= serial /\ Numbered(p)'
  BY <1>1 DEF ReloadClaim, Numbered, NoClaim, IsClaim, At, Goto, Return, Returned,
     Raise, PutClaim, SameOwner, store, exchange, Shapes, MemoryOk, IsMemory, HandoffInv,
     OnceInv
<1> QED BY <1>1, <1>5, <1>7 DEF OnceInv

LEMMA OnceClaimConflict ==
  ASSUME HandoffInv, OnceInv, ~deployment.overlap, ~deployment.faults,
         NEW p \in Proc, ClaimConflict(p)
  PROVE  /\ KnowsJournal(proc[p])' /\ \A e \in journal' : e[2] = 1
         /\ serial' >= serial /\ Numbered(p)'
<1>1. Journaled' = Journaled /\ journal' = journal BY JournalKept DEF ClaimConflict
<1>5. KnowsJournal(proc[p])'
  BY <1>1 DEF ClaimConflict, KnowsJournal, Unbooked, NoClaim, IsClaim, At, Return,
     Returned, PutClaim, store, exchange, Shapes, MemoryOk, IsMemory, HandoffInv, OnceInv
<1>7. serial' >= serial /\ Numbered(p)'
  BY <1>1 DEF ClaimConflict, Numbered, NoClaim, IsClaim, At, Return, Returned,
     PutClaim, store, exchange, Shapes, MemoryOk, IsMemory, HandoffInv, OnceInv
<1> QED BY <1>1, <1>5, <1>7 DEF OnceInv

LEMMA OnceClaimCreationError ==
  ASSUME HandoffInv, OnceInv, ~deployment.overlap, ~deployment.faults,
         NEW p \in Proc, ClaimCreationError(p)
  PROVE  /\ KnowsJournal(proc[p])' /\ \A e \in journal' : e[2] = 1
         /\ serial' >= serial /\ Numbered(p)'
<1>1. Journaled' = Journaled /\ journal' = journal BY JournalKept DEF ClaimCreationError
<1>5. KnowsJournal(proc[p])'
  BY <1>1 DEF ClaimCreationError, KnowsJournal, Unbooked, NoClaim, IsClaim, At, Return,
     Returned, PutClaim, store, exchange, Shapes, MemoryOk, IsMemory, HandoffInv, OnceInv
<1>7. serial' >= serial /\ Numbered(p)'
  BY <1>1 DEF ClaimCreationError, Numbered, NoClaim, IsClaim, At, Return, Returned,
     PutClaim, store, exchange, Shapes, MemoryOk, IsMemory, HandoffInv, OnceInv
<1> QED BY <1>1, <1>5, <1>7 DEF OnceInv

LEMMA OnceEnrichClaim ==
  ASSUME HandoffInv, OnceInv, ~deployment.overlap, ~deployment.faults,
         NEW p \in Proc, EnrichClaim(p)
  PROVE  /\ KnowsJournal(proc[p])' /\ \A e \in journal' : e[2] = 1
         /\ serial' >= serial /\ Numbered(p)'
<1>1. Journaled' = Journaled /\ journal' = journal BY JournalKept DEF EnrichClaim
<1>5. KnowsJournal(proc[p])'
  BY <1>1 DEF EnrichClaim, KnowsJournal, Unbooked, IsClaim, At, Goto, PutClaim, store,
     exchange, Shapes, MemoryOk, IsMemory, HandoffInv, OnceInv
<1>7. serial' >= serial /\ Numbered(p)'
  BY <1>1 DEF EnrichClaim, Numbered, IsClaim, At, Goto, PutClaim, store, exchange,
     Shapes, MemoryOk, IsMemory, HandoffInv, OnceInv
<1> QED BY <1>1, <1>5, <1>7 DEF OnceInv

LEMMA OnceOwnLedger ==
  ASSUME HandoffInv, OnceInv, ~deployment.overlap, ~deployment.faults,
         NEW p \in Proc, OwnLedger(p)
  PROVE  /\ KnowsJournal(proc[p])' /\ \A e \in journal' : e[2] = 1
         /\ serial' >= serial /\ Numbered(p)'
<1>1. Journaled' = Journaled /\ journal' = journal BY JournalKept DEF OwnLedger
<1>5. KnowsJournal(proc[p])'
  BY <1>1 DEF OwnLedger, KnowsJournal, Unbooked, IsClaim, At, PutClaim, store,
     exchange, Shapes, MemoryOk, IsMemory, HandoffInv, OnceInv
<1>7. serial' >= serial /\ Numbered(p)'
  BY <1>1 DEF OwnLedger, Numbered, IsClaim, At, PutClaim, store, exchange, Shapes,
     MemoryOk, IsMemory, HandoffInv, OnceInv
<1> QED BY <1>1, <1>5, <1>7 DEF OnceInv

LEMMA OnceBlockedLocally ==
  ASSUME HandoffInv, OnceInv, ~deployment.overlap, ~deployment.faults,
         NEW p \in Proc, BlockedLocally(p)
  PROVE  /\ KnowsJournal(proc[p])' /\ \A e \in journal' : e[2] = 1
         /\ serial' >= serial /\ Numbered(p)'
<1>1. Journaled' = Journaled /\ journal' = journal
  BY JournalKept DEF BlockedLocally, store
<1>5. KnowsJournal(proc[p])'
  BY <1>1 DEF BlockedLocally, KnowsJournal, Unbooked, IsClaim, At, PutClaim, store,
     exchange, Shapes, MemoryOk, IsMemory, HandoffInv, OnceInv
<1>7. serial' >= serial /\ Numbered(p)'
  BY <1>1 DEF BlockedLocally, Numbered, IsClaim, At, PutClaim, store, exchange, Shapes,
     MemoryOk, IsMemory, HandoffInv, OnceInv
<1> QED BY <1>1, <1>5, <1>7 DEF OnceInv

LEMMA OnceGenerateOrderLinkId ==
  ASSUME HandoffInv, OnceInv, ~deployment.overlap, ~deployment.faults,
         NEW p \in Proc, GenerateOrderLinkId(p)
  PROVE  /\ KnowsJournal(proc[p])' /\ \A e \in journal' : e[2] = 1
         /\ serial' >= serial /\ Numbered(p)'
<1>1. Journaled' = Journaled /\ journal' = journal
  BY JournalKept DEF GenerateOrderLinkId, store
<1>5. KnowsJournal(proc[p])'
  BY <1>1 DEF GenerateOrderLinkId, KnowsJournal, Unbooked, IsClaim, At, PutClaim,
     store, exchange, Shapes, MemoryOk, IsMemory, HandoffInv, OnceInv
<1>7. serial' >= serial /\ Numbered(p)'
  BY <1>1 DEF GenerateOrderLinkId, Numbered, IsClaim, At, PutClaim, store, exchange,
     Shapes, MemoryOk, IsMemory, HandoffInv, OnceInv
<1> QED BY <1>1, <1>5, <1>7 DEF OnceInv

LEMMA OnceCreateOrder ==
  ASSUME HandoffInv, OnceInv, ~deployment.overlap, ~deployment.faults,
         NEW p \in Proc, CreateOrder(p)
  PROVE  /\ KnowsJournal(proc[p])' /\ \A e \in journal' : e[2] = 1
         /\ serial' >= serial /\ Numbered(p)'
<1>1. Journaled' = Journaled /\ journal' = journal BY JournalKept DEF CreateOrder, store
<1>5. KnowsJournal(proc[p])'
  BY <1>1 DEF CreateOrder, KnowsJournal, Unbooked, IsClaim, At, Goto, PutClaim, store,
     exchange, Shapes, MemoryOk, IsMemory, HandoffInv, OnceInv
<1>7. serial' >= serial /\ Numbered(p)'
  BY <1>1 DEF CreateOrder, Numbered, IsClaim, At, Goto, PutClaim, store, exchange,
     Shapes, MemoryOk, IsMemory, HandoffInv, OnceInv
<1> QED BY <1>1, <1>5, <1>7 DEF OnceInv

LEMMA OnceFinalizeEntryOrder ==
  ASSUME HandoffInv, OnceInv, ~deployment.overlap, ~deployment.faults,
         NEW p \in Proc, FinalizeEntryOrder(p)
  PROVE  /\ KnowsJournal(proc[p])' /\ \A e \in journal' : e[2] = 1
         /\ serial' >= serial /\ Numbered(p)'
<1>1. Journaled' = Journaled /\ journal' = journal BY JournalKept DEF FinalizeEntryOrder
<1>5. KnowsJournal(proc[p])'
  BY <1>1 DEF FinalizeEntryOrder, KnowsJournal, Unbooked, IsClaim, At, PutClaim, store,
     exchange, Shapes, MemoryOk, IsMemory, HandoffInv, OnceInv
<1>7. serial' >= serial /\ Numbered(p)'
  BY <1>1 DEF FinalizeEntryOrder, Numbered, IsClaim, At, PutClaim, store, exchange,
     Shapes, MemoryOk, IsMemory, HandoffInv, OnceInv
<1> QED BY <1>1, <1>5, <1>7 DEF OnceInv

LEMMA OnceMarkSubmitted ==
  ASSUME HandoffInv, OnceInv, ~deployment.overlap, ~deployment.faults,
         NEW p \in Proc, MarkSubmitted(p)
  PROVE  /\ KnowsJournal(proc[p])' /\ \A e \in journal' : e[2] = 1
         /\ serial' >= serial /\ Numbered(p)'
<1>1. Journaled' = Journaled /\ journal' = journal
  BY JournalKept DEF MarkSubmitted, PutClaim
<1>5. KnowsJournal(proc[p])'
  BY <1>1 DEF MarkSubmitted, KnowsJournal, Unbooked, IsClaim, At, PutClaim, store,
     exchange, Shapes, MemoryOk, IsMemory, HandoffInv, OnceInv
<1>7. serial' >= serial /\ Numbered(p)'
  BY <1>1 DEF MarkSubmitted, Numbered, IsClaim, At, PutClaim, store, exchange, Shapes,
     MemoryOk, IsMemory, HandoffInv, OnceInv
<1> QED BY <1>1, <1>5, <1>7 DEF OnceInv

LEMMA OnceSyncLedger ==
  ASSUME HandoffInv, OnceInv, ~deployment.overlap, ~deployment.faults,
         NEW p \in Proc, SyncLedger(p)
  PROVE  /\ KnowsJournal(proc[p])' /\ \A e \in journal' : e[2] = 1
         /\ serial' >= serial /\ Numbered(p)'
<1>1. Journaled' = Journaled /\ journal' = journal BY JournalKept DEF SyncLedger
<1>2. proc[p].mem = Journaled' /\ proc[p].pc = "sync"
  BY <1>1 DEF SyncLedger, At, OnceInv, KnowsJournal
<1>4. active' = active /\ serial' = serial BY DEF SyncLedger
<1>3. CASE \/ Return(p, FALSE) \/ Return(p, proc[p].enabled)
          \/ Goto(p, "except") \/ Goto(p, "failed")
  BY <1>1, <1>2, <1>3, <1>4, OnceReturn, OnceGoto, OnceNumbers DEF OnceInv
<1>5. CASE proc' = [proc EXCEPT ![p].bound = 0, ![p].pc = proc[p].ret] /\ proc[p].ret # "idle"
  <2>1. /\ proc'[p].pc = proc[p].ret /\ proc'[p].mem = proc[p].mem /\ proc'[p].claim = proc[p].claim
        /\ proc[p].ret \in {"resolve", "journal", "remove", "delete"}
    BY <1>5 DEF HandoffInv, Shapes, MemoryOk, IsMemory
  <2> QED BY <1>1, <1>2, <1>4, <2>1, OnceNumbers DEF OnceInv, KnowsJournal, Unbooked
<1> QED BY <1>3, <1>5 DEF SyncLedger, Raise

LEMMA OnceResolve ==
  ASSUME HandoffInv, OnceInv, ~deployment.overlap, ~deployment.faults,
         NEW p \in Proc, Resolve(p)
  PROVE  /\ KnowsJournal(proc[p])' /\ \A e \in journal' : e[2] = 1
         /\ serial' >= serial /\ Numbered(p)'
<1>1. Journaled' = Journaled /\ journal' = journal BY JournalKept DEF Resolve, PutClaim
<1>5. KnowsJournal(proc[p])'
  BY <1>1 DEF Resolve, KnowsJournal, Unbooked, IsClaim, At, PutClaim, store, exchange,
     Shapes, MemoryOk, IsMemory, HandoffInv, OnceInv
<1>7. serial' >= serial /\ Numbered(p)'
  BY <1>1 DEF Resolve, Numbered, IsClaim, At, PutClaim, store, exchange, Shapes,
     MemoryOk, IsMemory, HandoffInv, OnceInv
<1> QED BY <1>1, <1>5, <1>7 DEF OnceInv

LEMMA OnceJournalOrder ==
  ASSUME HandoffInv, OnceInv, ~deployment.overlap, ~deployment.faults,
         NEW p \in Proc, JournalOrder(p)
  PROVE  /\ KnowsJournal(proc[p])' /\ \A e \in journal' : e[2] = 1
         /\ serial' >= serial /\ Numbered(p)'
<1>1. KnowsJournal(proc[p])' /\ \A e \in journal' : e[2] = 1
  BY EnteredOnce, JournalKept DEF JournalOrder, Entered, KnowsJournal, Unbooked,
     IsClaim, At, Goto, exchange, Shapes, MemoryOk, IsMemory, HandoffInv, OnceInv
<1>2. serial' >= serial /\ Numbered(p)'
  BY EnteredOnce, JournalKept DEF JournalOrder, Numbered, IsClaim, At, Goto, exchange,
     Shapes, MemoryOk, IsMemory, HandoffInv, OnceInv
<1> QED BY <1>1, <1>2

LEMMA OnceBookResult ==
  ASSUME HandoffInv, OnceInv, ~deployment.overlap, ~deployment.faults,
         NEW p \in Proc, BookResult(p)
  PROVE  /\ KnowsJournal(proc[p])' /\ \A e \in journal' : e[2] = 1
         /\ serial' >= serial /\ Numbered(p)'
<1>1. Journaled' = Journaled /\ journal' = journal BY JournalKept DEF BookResult, store
<1>5. KnowsJournal(proc[p])'
  BY <1>1 DEF BookResult, KnowsJournal, Unbooked, NoClaim, IsClaim, At, Returned,
     PutClaim, store, exchange, Shapes, MemoryOk, IsMemory, HandoffInv, OnceInv
<1>7. serial' >= serial /\ Numbered(p)'
  BY <1>1 DEF BookResult, Numbered, NoClaim, IsClaim, At, Returned, PutClaim, store,
     exchange, Shapes, MemoryOk, IsMemory, HandoffInv, OnceInv
<1> QED BY <1>1, <1>5, <1>7 DEF OnceInv

LEMMA OnceReplayAccounting ==
  ASSUME HandoffInv, OnceInv, ~deployment.overlap, ~deployment.faults,
         NEW p \in Proc, ReplayAccounting(p)
  PROVE  /\ KnowsJournal(proc[p])' /\ \A e \in journal' : e[2] = 1
         /\ serial' >= serial /\ Numbered(p)'
<1>1. KnowsJournal(proc[p])' /\ \A e \in journal' : e[2] = 1
  BY EnteredOnce, JournalKept DEF ReplayAccounting, Entered, KnowsJournal, Unbooked,
     IsClaim, At, Goto, exchange, Shapes, MemoryOk, IsMemory, HandoffInv, OnceInv
<1>2. serial' >= serial /\ Numbered(p)'
  BY EnteredOnce, JournalKept DEF ReplayAccounting, Numbered, IsClaim, At, Goto,
     exchange, Shapes, MemoryOk, IsMemory, HandoffInv, OnceInv
<1> QED BY <1>1, <1>2

LEMMA OnceNoteReplay ==
  ASSUME HandoffInv, OnceInv, ~deployment.overlap, ~deployment.faults,
         NEW p \in Proc, NoteReplay(p)
  PROVE  /\ KnowsJournal(proc[p])' /\ \A e \in journal' : e[2] = 1
         /\ serial' >= serial /\ Numbered(p)'
<1>1. Journaled' = Journaled /\ journal' = journal BY JournalKept DEF NoteReplay, store
<1>5. KnowsJournal(proc[p])'
  BY <1>1 DEF NoteReplay, KnowsJournal, Unbooked, IsClaim, At, PutClaim, store,
     exchange, Shapes, MemoryOk, IsMemory, HandoffInv, OnceInv
<1>7. serial' >= serial /\ Numbered(p)'
  BY <1>1 DEF NoteReplay, Numbered, IsClaim, At, PutClaim, store, exchange, Shapes,
     MemoryOk, IsMemory, HandoffInv, OnceInv
<1> QED BY <1>1, <1>5, <1>7 DEF OnceInv

LEMMA OnceAccountingRestored ==
  ASSUME HandoffInv, OnceInv, ~deployment.overlap, ~deployment.faults,
         NEW p \in Proc, AccountingRestored(p)
  PROVE  /\ KnowsJournal(proc[p])' /\ \A e \in journal' : e[2] = 1
         /\ serial' >= serial /\ Numbered(p)'
<1>1. Journaled' = Journaled /\ journal' = journal
  BY JournalKept DEF AccountingRestored, PutClaim
<1>5. KnowsJournal(proc[p])'
  BY <1>1 DEF AccountingRestored, KnowsJournal, Unbooked, IsClaim, At, PutClaim, store,
     exchange, Shapes, MemoryOk, IsMemory, HandoffInv, OnceInv
<1>7. serial' >= serial /\ Numbered(p)'
  BY <1>1 DEF AccountingRestored, Numbered, IsClaim, At, PutClaim, store, exchange,
     Shapes, MemoryOk, IsMemory, HandoffInv, OnceInv
<1> QED BY <1>1, <1>5, <1>7 DEF OnceInv

LEMMA OnceRemoveExactCandidate ==
  ASSUME HandoffInv, OnceInv, ~deployment.overlap, ~deployment.faults,
         NEW p \in Proc, RemoveExactCandidate(p)
  PROVE  /\ KnowsJournal(proc[p])' /\ \A e \in journal' : e[2] = 1
         /\ serial' >= serial /\ Numbered(p)'
<1>1. Journaled' = Journaled /\ journal' = journal
  BY JournalKept DEF RemoveExactCandidate, store
<1>5. KnowsJournal(proc[p])'
  BY <1>1 DEF RemoveExactCandidate, KnowsJournal, Unbooked, IsClaim, At, PutClaim,
     store, exchange, Shapes, MemoryOk, IsMemory, HandoffInv, OnceInv
<1>7. serial' >= serial /\ Numbered(p)'
  BY <1>1 DEF RemoveExactCandidate, Numbered, IsClaim, At, PutClaim, store, exchange,
     Shapes, MemoryOk, IsMemory, HandoffInv, OnceInv
<1> QED BY <1>1, <1>5, <1>7 DEF OnceInv

LEMMA OnceComplete ==
  ASSUME HandoffInv, OnceInv, ~deployment.overlap, ~deployment.faults,
         NEW p \in Proc, Complete(p)
  PROVE  /\ KnowsJournal(proc[p])' /\ \A e \in journal' : e[2] = 1
         /\ serial' >= serial /\ Numbered(p)'
<1>1. Journaled' = Journaled /\ journal' = journal BY JournalKept DEF Complete, PutClaim
<1>5. KnowsJournal(proc[p])'
  BY <1>1 DEF Complete, KnowsJournal, Unbooked, IsClaim, At, PutClaim, store, exchange,
     Shapes, MemoryOk, IsMemory, HandoffInv, OnceInv
<1>7. serial' >= serial /\ Numbered(p)'
  BY <1>1 DEF Complete, Numbered, IsClaim, At, PutClaim, store, exchange, Shapes,
     MemoryOk, IsMemory, HandoffInv, OnceInv
<1> QED BY <1>1, <1>5, <1>7 DEF OnceInv

LEMMA OnceClearClaim ==
  ASSUME HandoffInv, OnceInv, ~deployment.overlap, ~deployment.faults,
         NEW p \in Proc, ClearClaim(p)
  PROVE  /\ KnowsJournal(proc[p])' /\ \A e \in journal' : e[2] = 1
         /\ serial' >= serial /\ Numbered(p)'
<1>1. Journaled' = Journaled /\ journal' = journal BY JournalKept DEF ClearClaim
<1>5. KnowsJournal(proc[p])'
  BY <1>1 DEF ClearClaim, KnowsJournal, Unbooked, NoClaim, IsClaim, At, Return,
     Returned, PutClaim, store, exchange, Shapes, MemoryOk, IsMemory, HandoffInv, OnceInv
<1>7. serial' >= serial /\ Numbered(p)'
  BY <1>1 DEF ClearClaim, Numbered, NoClaim, IsClaim, At, Return, Returned, PutClaim,
     store, exchange, Shapes, MemoryOk, IsMemory, HandoffInv, OnceInv
<1> QED BY <1>1, <1>5, <1>7 DEF OnceInv

LEMMA OnceSubmissionUnknown ==
  ASSUME HandoffInv, OnceInv, ~deployment.overlap, ~deployment.faults,
         NEW p \in Proc, SubmissionUnknown(p)
  PROVE  /\ KnowsJournal(proc[p])' /\ \A e \in journal' : e[2] = 1
         /\ serial' >= serial /\ Numbered(p)'
<1>1. Journaled' = Journaled /\ journal' = journal BY JournalKept DEF SubmissionUnknown
<1>5. KnowsJournal(proc[p])'
  BY <1>1 DEF SubmissionUnknown, KnowsJournal, Unbooked, NoClaim, IsClaim, At, Return,
     Returned, PutClaim, store, exchange, Shapes, MemoryOk, IsMemory, HandoffInv, OnceInv
<1>7. serial' >= serial /\ Numbered(p)'
  BY <1>1 DEF SubmissionUnknown, Numbered, NoClaim, IsClaim, At, Return, Returned,
     PutClaim, store, exchange, Shapes, MemoryOk, IsMemory, HandoffInv, OnceInv
<1> QED BY <1>1, <1>5, <1>7 DEF OnceInv

LEMMA OnceStoreFault ==
  ASSUME HandoffInv, OnceInv, ~deployment.overlap, ~deployment.faults,
         NEW p \in Proc, StoreFault(p)
  PROVE  /\ KnowsJournal(proc[p])' /\ \A e \in journal' : e[2] = 1
         /\ serial' >= serial /\ Numbered(p)'
<1>1. Journaled' = Journaled /\ journal' = journal BY JournalKept DEF StoreFault, store
<1>5. KnowsJournal(proc[p])'
  BY <1>1 DEF StoreFault, KnowsJournal, Unbooked, NoClaim, IsClaim, Goto, Return,
     Returned, Raise, PutClaim, store, exchange, Shapes, MemoryOk, IsMemory, HandoffInv,
     OnceInv
<1>7. serial' >= serial /\ Numbered(p)'
  BY <1>1 DEF StoreFault, Numbered, NoClaim, IsClaim, Goto, Return, Returned, Raise,
     PutClaim, store, exchange, Shapes, MemoryOk, IsMemory, HandoffInv, OnceInv
<1> QED BY <1>1, <1>5, <1>7 DEF OnceInv

LEMMA OnceKept ==
  ASSUME OnceInv, ~deployment.overlap, ~deployment.faults, NEW p \in Proc, OnlyMemory(p), OnlyUp(p),
         UNCHANGED <<active, journal, serial>>,
         proc'[p].pc = proc[p].pc, proc'[p].ret = proc[p].ret, proc'[p].mem = proc[p].mem,
         proc'[p].claim = proc[p].claim
  PROVE  OnceInv'
<1>1. Journaled' = Journaled BY JournalKept
<1>2. KnowsJournal(proc[p])' BY <1>1 DEF OnceInv, KnowsJournal, Unbooked
<1>3. serial' >= serial /\ Numbered(p)' BY <1>1, OnceNumbers
<1>4. \A e \in journal' : e[2] = 1 BY DEF OnceInv
<1> QED BY <1>2, <1>3, <1>4, OnceLift

LEMMA OnceStep ==
  ASSUME HandoffInv, HandoffInv', AloneInv, OnceInv, [Next]_vars
  PROVE  OnceInv'
<1>1. ASSUME NEW p \in Proc,
             \/ Boot(p) \/ Bootstrap(p) \/ Crash(p) \/ StartBot(p) \/ StopBot(p) \/ RunOnce(p)
             \/ \E c \in Candidate : EvaluateSymbol(p, c)
      PROVE  OnceInv'
  <2>1. SUFFICES ASSUME ~deployment.overlap, ~deployment.faults PROVE OnceInv'
    BY <1>1, RequestsKept DEF OnceInv
  <2>2. OnlyUp(p)
    BY <1>1, <2>1, ActsUp DEF OnlyUp, AloneInv, Boot, At, Knows
  <2>3. OnlyMemory(p) BY <1>1, OthersKept
  <2>4. CASE \E c \in Candidate : EvaluateSymbol(p, c)
    <3>1. /\ proc'[p].pc = proc[p].pc /\ proc'[p].ret = proc[p].ret
          /\ proc'[p].mem = proc[p].mem /\ proc'[p].claim = proc[p].claim
      BY <2>4 DEF EvaluateSymbol, HandoffInv, Shapes, MemoryOk, IsMemory
    <3>2. UNCHANGED <<active, journal, serial>> BY <2>4 DEF EvaluateSymbol, store
    <3> QED BY <2>1, <2>2, <2>3, <3>1, <3>2, OnceKept
  <2>5. CASE ~\E c \in Candidate : EvaluateSymbol(p, c)
    <3>1. /\ KnowsJournal(proc[p])' /\ \A e \in journal' : e[2] = 1
          /\ serial' >= serial /\ Numbered(p)'
      BY <1>1, <2>1, <2>5, OnceBoot, OnceBootstrap, OnceCrash, OnceStartBot,
         OnceStopBot, OnceClaimStore, OnceLoadClaim, OnceRemoveCandidate, OnceGuardBlocks,
         OncePendingFillGuard, OnceReserve, OnceCreateClaim, OnceReloadClaim,
         OnceClaimConflict, OnceClaimCreationError, OnceEnrichClaim, OnceOwnLedger,
         OnceBlockedLocally, OnceGenerateOrderLinkId, OnceCreateOrder,
         OnceFinalizeEntryOrder, OnceMarkSubmitted, OnceSyncLedger, OnceResolve,
         OnceJournalOrder, OnceBookResult, OnceReplayAccounting, OnceNoteReplay,
         OnceAccountingRestored, OnceRemoveExactCandidate, OnceComplete, OnceClearClaim,
         OnceSubmissionUnknown, OnceStoreFault DEF RunOnce
    <3> QED BY <2>1, <2>2, <2>3, <3>1, OnceLift
  <2> QED BY <2>4, <2>5
<1>2. ASSUME UNCHANGED <<active, journal, serial, proc, deployment>> PROVE OnceInv'
  <2>1. Journaled' = Journaled BY <1>2, JournalKept
  <2> QED BY <1>2, <2>1 DEF OnceInv, KnowsJournal, Unbooked
<1>3. ASSUME NEW c \in Candidate, OrderMoves(c) PROVE OnceInv'
  BY <1>2, <1>3 DEF OrderMoves, store
<1>4. CASE UNCHANGED vars BY <1>2, <1>4 DEF vars, store
<1> QED BY <1>1, <1>3, <1>4 DEF Next

LEMMA OnceInit == Init => OnceInv
<1> SUFFICES ASSUME Init PROVE OnceInv OBVIOUS
<1>1. Journaled = {} BY DEF Init, Journaled
<1> QED BY <1>1 DEF Init, OnceInv, KnowsJournal, Unbooked, NoClaim, Down
\* Where processes do not overlap and the store does not fail, crashes and
\* restarts never journal one claim twice: a process that is past the claim
\* store knows the whole journal, so the replay finds the entry it made before.
THEOREM JournaledExactlyOnce == Spec => []JournaledOnce
<1>1. Init => HandoffInv /\ AloneInv /\ OnceInv BY HandoffInit, AloneInit, OnceInit
<1>2. HandoffInv /\ AloneInv /\ OnceInv /\ [Next]_vars => HandoffInv' /\ AloneInv' /\ OnceInv'
  BY HandoffStep, AloneStep, OnceStep
<1>3. OnceInv => JournaledOnce BY DEF OnceInv, JournaledOnce
<1> QED BY <1>1, <1>2, <1>3, PTL DEF Spec

-----------------------------------------------------------------------------
(* Types *)

\* A finite set of numbers has an n-th: as many are at most the n-th as n says.
LEMMA NthExists ==
  ASSUME NEW S \in SUBSET Nat, IsFiniteSet(S)
  PROVE  /\ Cardinality(S) \in Nat
         /\ \A n \in 1..Cardinality(S) : \E s \in S : Cardinality({x \in S : x <= s}) = n
<1> DEFINE k == Cardinality(S)
           below(s) == {x \in S : x <= s}
           rank == [s \in S |-> Cardinality(below(s))]
<1>1. k \in Nat BY FS_CardinalityType
<1>2. ASSUME NEW s \in S
      PROVE  /\ IsFiniteSet(below(s)) /\ Cardinality(below(s)) \in 1..k
  <2>1. PICK b \in SUBSET S : b = below(s) OBVIOUS
  <2>2. IsFiniteSet(b) /\ Cardinality(b) <= k BY FS_Subset
  <2>3. s \in b BY <2>1
  <2>4. Cardinality(b) \in Nat /\ Cardinality(b) # 0 BY <2>2, <2>3, FS_CardinalityType, FS_EmptySet
  <2> QED BY <1>1, <2>1, <2>2, <2>4
<1>3. ASSUME NEW s \in S, NEW t \in S, s < t PROVE rank[s] # rank[t]
  <2>1. PICK a, b : a = below(s) /\ b = below(t) OBVIOUS
  <2>2. a \in SUBSET b /\ t \in b /\ t \notin a
    <3>1. \A x \in S : x \in Nat /\ (x <= s => x <= t) BY <1>3
    <3>2. t <= t /\ ~(t <= s) BY <1>3
    <3> QED BY <2>1, <3>1, <3>2
  <2>3. IsFiniteSet(b) BY <1>2, <2>1
  <2>4. Cardinality(b) # Cardinality(a) BY <2>2, <2>3, FS_Subset
  <2> QED BY <2>1, <2>4
<1>4. rank \in [S -> 1..k] /\ IsInjective(rank)
  <2>1. rank \in [S -> 1..k] BY <1>2
  <2>2. ASSUME NEW s \in S, NEW t \in S, rank[s] = rank[t] PROVE s = t
    <3>1. s \in Nat /\ t \in Nat OBVIOUS
    <3>2. ~(s < t) /\ ~(t < s) BY <1>3, <2>2
    <3> QED BY <3>1, <3>2
  <2> HIDE DEF rank
  <2> QED BY <2>1, <2>2 DEF IsInjective
<1>5. rank \in Surjection(S, 1..k)
  <2>1. rank \in Injection(S, 1..k) BY <1>4 DEF Injection
  <2>2. IsFiniteSet(1..k) /\ Cardinality(1..k) = k
    <3>1. 1 \in Int /\ k \in Int /\ (1 > k => k = 0) /\ k - 1 + 1 = k BY <1>1
    <3> QED BY <3>1, FS_Interval
  <2> HIDE DEF rank, k
  <2>3. Cardinality(S) = k BY DEF k
  <2> QED BY <2>1, <2>2, <2>3, FS_Injection
<1>6. ASSUME NEW n \in 1..k PROVE \E s \in S : Cardinality({x \in S : x <= s}) = n
  <2>1. \E s \in S : rank[s] = n
    <3> HIDE DEF rank, k
    <3> QED BY <1>5 DEF Surjection
  <2> QED BY <2>1
<1> QED BY <1>1, <1>6

LEMMA WithoutType ==
  ASSUME NEW K, NEW q \in Seq(K), NEW c PROVE Without(q, c) \in Seq(K)
<1>1. PICK S : S = {i \in DOMAIN q : q[i] # c} OBVIOUS
<1>2. DOMAIN q = 1..Len(q) /\ Len(q) \in Nat /\ \A i \in DOMAIN q : q[i] \in K OBVIOUS
<1>3. S \in SUBSET Nat /\ IsFiniteSet(S)
  <2>1. IsFiniteSet(1..Len(q))
    <3>1. 1 \in Int /\ Len(q) \in Int BY <1>2
    <3> QED BY <3>1, FS_Interval
  <2>2. S \in SUBSET (1..Len(q)) BY <1>1, <1>2
  <2>3. IsFiniteSet(S) BY <2>1, <2>2, FS_Subset
  <2> QED BY <1>2, <2>2, <2>3
<1>4. PICK k \in Nat : k = Cardinality(S) BY <1>3, NthExists
<1> DEFINE nth(n) == CHOOSE i \in S : Cardinality({j \in S : j <= i}) = n
           f == [n \in 1..k |-> q[nth(n)]]
<1>5. \A n \in 1..k : nth(n) \in S
  <2>1. \A n \in 1..k : \E i \in S : Cardinality({j \in S : j <= i}) = n BY <1>3, <1>4, NthExists
  <2> QED BY <2>1
<1>6. f \in [1..k -> K]
  <2>1. \A i \in S : q[i] \in K BY <1>1, <1>2
  <2> HIDE DEF nth
  <2>2. \A n \in 1..k : q[nth(n)] \in K BY <1>5, <2>1
  <2> QED BY <2>2
<1>7. \A g \in [1..k -> K] : g \in Seq(K) OBVIOUS
<1>8. Without(q, c) = f BY <1>1, <1>4 DEF Without
<1> HIDE DEF f
<1> QED BY <1>6, <1>7, <1>8

\* A claim without a state is no claim, and has no ledger row to write.
ClaimOk(c) == c \in Claim /\ (c.state = "none" => c.key = None)

Typed(m) == m \in Memory /\ ClaimOk(m.claim)

TypeInv == TypeOK /\ ClaimOk(active) /\ \A p \in Proc : ClaimOk(proc[p].claim)

LEMMA TypedMemory == ASSUME TypeInv, NEW p \in Proc PROVE Typed(proc[p])
BY DEF TypeInv, TypeOK, Typed

\* A process that changes its memory and nothing else of a process.
Moves(p, m) == proc' = [proc EXCEPT ![p] = m] /\ Typed(m)

LEMMA MovesTyped ==
  ASSUME TypeInv, NEW p \in Proc, NEW m, Moves(p, m)
  PROVE  proc' \in [Proc -> Memory] /\ \A q \in Proc : ClaimOk(proc'[q].claim)
<1>1. proc \in [Proc -> Memory] BY DEF TypeInv, TypeOK
<1>2. proc' \in [Proc -> Memory] BY <1>1 DEF Moves, Typed
<1>3. \A q \in Proc : proc'[q] = IF q = p THEN m ELSE proc[q] BY <1>1 DEF Moves
<1> QED BY <1>2, <1>3 DEF Moves, Typed, TypeInv

LEMMA FirstTypes ==
  /\ NoClaim \in Claim /\ ClaimOk(NoClaim) /\ NoRow \in Row /\ NoResponse \in Response
  /\ Typed(Down)
<1>1. NoClaim \in Claim /\ ClaimOk(NoClaim) BY DEF NoClaim, Claim, ClaimOk, ClaimState
<1>2. NoRow \in Row BY DEF NoRow, Row
<1>3. NoResponse \in Response BY DEF NoResponse, Response, Verification
<1>4. <<>> \in Seq(Candidate) OBVIOUS
<1>5. Typed(Down) BY <1>1, <1>3, <1>4 DEF Typed, Down, Memory, Steps
<1> QED BY <1>1, <1>2, <1>3, <1>5

LEMMA GotoTyped ==
  ASSUME NEW m, Typed(m), NEW s \in Steps PROVE Typed([m EXCEPT !.pc = s])
BY DEF Typed, Memory

LEMMA ReturnTyped ==
  ASSUME NEW m, Typed(m), NEW e \in BOOLEAN PROVE Typed(Returned(m, e))
BY FirstTypes DEF Typed, Memory, Returned, Steps

LEMMA TypeInit == Init => TypeInv
<1> SUFFICES ASSUME Init PROVE TypeInv OBVIOUS
<1>1. active \in Claim /\ ClaimOk(active) BY FirstTypes DEF Init
<1>2. ledger \in [Candidate -> Row] BY FirstTypes DEF Init
<1>3. /\ order \in [Candidate -> OrderState] /\ sent \in [Candidate -> Nat]
      /\ misread \in [Candidate -> BOOLEAN]
  BY DEF Init, OrderState
<1>4. proc \in [Proc -> Memory] /\ \A p \in Proc : ClaimOk(proc[p].claim)
  BY FirstTypes DEF Init, Typed
<1> QED BY <1>1, <1>2, <1>3, <1>4 DEF Init, TypeInv, TypeOK

\* A step of one process: its memory is typed, and so is what it writes.
LEMMA StepTyped ==
  ASSUME TypeInv, NEW p \in Proc, NEW m, Moves(p, m), deployment' = deployment,
         ClaimOk(active'), ledger' \in [Candidate -> Row], journal' \subseteq Nat \X {1, 2},
         pendingDb' \in Candidate \cup {None}, serial' \in Nat,
         order' \in [Candidate -> OrderState], sent' \in [Candidate -> Nat],
         misread' \in [Candidate -> BOOLEAN]
  PROVE  TypeInv'
<1>1. proc' \in [Proc -> Memory] /\ \A q \in Proc : ClaimOk(proc'[q].claim) BY MovesTyped
<1> QED BY <1>1 DEF TypeInv, TypeOK, ClaimOk

\* A step of one process in its memory only.
LEMMA LocalTyped ==
  ASSUME TypeInv, NEW p \in Proc, NEW m, Moves(p, m), UNCHANGED <<store, exchange, deployment>>
  PROVE  TypeInv'
<1>1. /\ UNCHANGED <<active, ledger, journal, pendingDb, serial, order, sent, misread>>
      /\ deployment' = deployment
  BY DEF store, exchange
<1> QED BY <1>1, StepTyped DEF TypeInv, TypeOK

LEMMA SyncedTyped ==
  ASSUME TypeInv, NEW c, ClaimOk(c) PROVE Synced(c) \in [Candidate -> Row]
<1>1. ledger \in [Candidate -> Row] BY DEF TypeInv, TypeOK
<1>2. CASE c.key \in Candidate
  <2>1. c.state # "none" /\ c \in Claim BY <1>2, HandoffAssumption DEF ClaimOk
  <2>2. [id |-> c.id, state |-> c.state, fill |-> c.fill] \in Row
    BY <2>1 DEF Claim, Row, LedgerState
  <2> QED BY <1>1, <2>2 DEF Synced
<1>3. CASE c.key \notin Candidate BY <1>1, <1>3 DEF Synced
<1> QED BY <1>2, <1>3

LEMMA EnteredTyped ==
  ASSUME TypeInv, NEW id \in Nat PROVE Entered(id) \subseteq Nat \X {1, 2}
BY DEF TypeInv, TypeOK, Entered

LEMMA JournaledTyped == ASSUME TypeInv PROVE Journaled \subseteq Nat
BY DEF TypeInv, TypeOK, Journaled

LEMMA RaiseMoves ==
  ASSUME TypeInv, NEW p \in Proc, Raise(p) PROVE \E m : Moves(p, m)
<1>1. Typed(proc[p]) /\ proc[p].enabled \in BOOLEAN BY TypedMemory DEF Typed, Memory
<1>2. ASSUME NEW s \in {"except", "failed"}, Goto(p, s) PROVE \E m : Moves(p, m)
  <2>1. Typed([proc[p] EXCEPT !.pc = s]) BY <1>1, GotoTyped DEF Steps
  <2>2. proc' = [proc EXCEPT ![p] = [proc[p] EXCEPT !.pc = s]] BY <1>2 DEF Goto
  <2> QED BY <2>1, <2>2 DEF Moves
<1>3. ASSUME NEW e \in BOOLEAN, Return(p, e) PROVE \E m : Moves(p, m)
  <2>1. Typed(Returned(proc[p], e)) BY <1>1, ReturnTyped
  <2>2. proc' = [proc EXCEPT ![p] = Returned(proc[p], e)] BY <1>3 DEF Return
  <2> QED BY <2>1, <2>2 DEF Moves
<1>4. \/ Goto(p, "except") \/ Goto(p, "failed")
      \/ Return(p, FALSE) \/ Return(p, proc[p].enabled)
  BY DEF Raise
<1> QED BY <1>1, <1>2, <1>3, <1>4

\* What a process goes to, or returns with, in this step.
LEMMA GoMoves ==
  ASSUME TypeInv, NEW p \in Proc,
         (\E s \in Steps : Goto(p, s)) \/ (\E e \in BOOLEAN : Return(p, e))
  PROVE  \E m : Moves(p, m)
<1>1. Typed(proc[p]) BY TypedMemory
<1>2. ASSUME NEW s \in Steps, Goto(p, s) PROVE \E m : Moves(p, m)
  <2>1. Typed([proc[p] EXCEPT !.pc = s]) BY <1>1, GotoTyped
  <2>2. proc' = [proc EXCEPT ![p] = [proc[p] EXCEPT !.pc = s]] BY <1>2 DEF Goto
  <2> QED BY <2>1, <2>2 DEF Moves
<1>3. ASSUME NEW e \in BOOLEAN, Return(p, e) PROVE \E m : Moves(p, m)
  <2>1. Typed(Returned(proc[p], e)) BY <1>1, ReturnTyped
  <2>2. proc' = [proc EXCEPT ![p] = Returned(proc[p], e)] BY <1>3 DEF Return
  <2> QED BY <2>1, <2>2 DEF Moves
<1> QED BY <1>2, <1>3

LEMMA BootTypes == ASSUME TypeInv, NEW p \in Proc, Boot(p) PROVE TypeInv'
<1>1. PICK r \in BOOLEAN : proc' = [proc EXCEPT ![p].pc = "boot", ![p].mem = Journaled,
                                               ![p].pend = pendingDb, ![p].claim = active, ![p].ready = r]
  <2>1. PICK status \in Reconcile :
          proc' = [proc EXCEPT ![p].pc = "boot", ![p].mem = Journaled, ![p].pend = pendingDb,
                               ![p].claim = active, ![p].ready = status = "ready"]
    BY DEF Boot
  <2>2. (status = "ready") \in BOOLEAN OBVIOUS
  <2> QED BY <2>1, <2>2
<1>2. PICK m : m = [proc[p] EXCEPT !.pc = "boot", !.mem = Journaled, !.pend = pendingDb,
                                   !.claim = active, !.ready = r]
  OBVIOUS
<1>3. Typed(proc[p]) /\ ClaimOk(active) /\ Journaled \in SUBSET Nat /\ pendingDb \in Candidate \cup {None}
  BY TypedMemory, JournaledTyped DEF TypeInv, TypeOK
<1>4. Typed(m) BY <1>2, <1>3 DEF Typed, Memory, Steps, ClaimOk
<1>5. proc' = [proc EXCEPT ![p] = m] BY <1>1, <1>2
<1>6. UNCHANGED <<store, exchange, deployment>> BY DEF Boot
<1> QED BY <1>4, <1>5, <1>6, LocalTyped DEF Moves

LEMMA BootstrapTypes == ASSUME TypeInv, NEW p \in Proc, Bootstrap(p) PROVE TypeInv'
<1>1. Typed(proc[p]) /\ ClaimOk(proc[p].claim) BY TypedMemory DEF Typed
<1>2. /\ UNCHANGED <<active, journal, pendingDb, serial, order, sent, misread>> /\ deployment' = deployment
      /\ ledger' = ledger \/ ledger' = Synced(proc[p].claim)
  BY DEF Bootstrap, exchange
<1>3. ledger' \in [Candidate -> Row] BY <1>1, <1>2, SyncedTyped DEF TypeInv, TypeOK
<1>4. \E m : Moves(p, m)
  <2>1. CASE proc' = [proc EXCEPT ![p].pc = "idle"]
    BY <2>1, GoMoves DEF Goto, Steps
  <2>2. CASE proc' = [proc EXCEPT ![p].pc = "idle", ![p].claim = NoClaim]
    <3>1. PICK m : m = [proc[p] EXCEPT !.pc = "idle", !.claim = NoClaim] OBVIOUS
    <3>2. Typed(m) BY <1>1, <3>1, FirstTypes DEF Typed, Memory, Steps
    <3>3. proc' = [proc EXCEPT ![p] = m] BY <2>2, <3>1
    <3> QED BY <3>2, <3>3 DEF Moves
  <2>3. CASE proc' = [proc EXCEPT ![p] = Down] BY <2>3, FirstTypes DEF Moves
  <2> QED BY <2>1, <2>2, <2>3 DEF Bootstrap
<1> QED BY <1>2, <1>3, <1>4, StepTyped DEF TypeInv, TypeOK

LEMMA OperatorTypes ==
  ASSUME TypeInv, NEW p \in Proc, Crash(p) \/ StartBot(p) \/ StopBot(p) PROVE TypeInv'
<1>1. Typed(proc[p]) BY TypedMemory
<1>2. UNCHANGED <<store, exchange, deployment>> BY DEF Crash, StartBot, StopBot
<1>3. \E m : Moves(p, m)
  <2>1. CASE Crash(p) BY <2>1, FirstTypes DEF Crash, Moves
  <2>2. ASSUME NEW e \in BOOLEAN, proc' = [proc EXCEPT ![p].enabled = e] PROVE \E m : Moves(p, m)
    <3>1. PICK m : m = [proc[p] EXCEPT !.enabled = e] OBVIOUS
    <3>2. Typed(m) BY <1>1, <3>1 DEF Typed, Memory
    <3>3. proc' = [proc EXCEPT ![p] = m] BY <2>2, <3>1
    <3> QED BY <3>2, <3>3 DEF Moves
  <2>3. CASE proc' = [proc EXCEPT ![p].enabled = FALSE, ![p].ready = FALSE]
    <3>1. PICK m : m = [proc[p] EXCEPT !.enabled = FALSE, !.ready = FALSE] OBVIOUS
    <3>2. Typed(m) BY <1>1, <3>1 DEF Typed, Memory
    <3>3. proc' = [proc EXCEPT ![p] = m] BY <2>3, <3>1
    <3> QED BY <3>2, <3>3 DEF Moves
  <2> QED BY <2>1, <2>2, <2>3 DEF StartBot, StopBot
<1> QED BY <1>2, <1>3, LocalTyped

LEMMA EvaluateTypes ==
  ASSUME TypeInv, NEW p \in Proc, NEW c \in Candidate, EvaluateSymbol(p, c) PROVE TypeInv'
<1>1. Typed(proc[p]) BY TypedMemory
<1>2. PICK K, q : K = Seq(Candidate) /\ q = proc[p].queue OBVIOUS
<1>3. q \in Seq(Candidate) BY <1>1, <1>2 DEF Typed, Memory
<1>4. PICK r \in {q, Append(q, c)} :
        proc' = [proc EXCEPT ![p].seen = @ \cup {c},
                             ![p].queue = IF Len(r) > QueueLimit THEN Tail(r) ELSE r]
  BY <1>2 DEF EvaluateSymbol
<1>5. PICK w \in Seq(Candidate) : w = IF Len(r) > QueueLimit THEN Tail(r) ELSE r
  <2>1. r \in Seq(Candidate) BY <1>3, <1>4
  <2>2. QueueLimit \in Nat BY HandoffAssumption
  <2>3. Len(r) > QueueLimit => Tail(r) \in Seq(Candidate)
    <3>1. PICK C : C = Candidate OBVIOUS
    <3>2. r \in Seq(C) /\ Len(r) \in Nat BY <2>1, <3>1
    <3>3. Len(r) > QueueLimit => r # <<>> BY <2>2, <3>2
    <3> QED BY <3>1, <3>2, <3>3
  <2> QED BY <2>1, <2>3
<1>6. PICK m : m = [proc[p] EXCEPT !.seen = @ \cup {c}, !.queue = w] OBVIOUS
<1>7. Typed(m) BY <1>1, <1>5, <1>6 DEF Typed, Memory
<1>8. proc' = [proc EXCEPT ![p] = m] BY <1>4, <1>5, <1>6
<1>9. UNCHANGED <<store, exchange, deployment>> BY DEF EvaluateSymbol
<1> QED BY <1>7, <1>8, <1>9, LocalTyped DEF Moves

\* The steps of run_once that change nothing but the memory of the process.
LEMMA LoadClaimMoves ==
  ASSUME TypeInv, NEW p \in Proc, LoadClaim(p) PROVE \E m : Moves(p, m)
<1>1. Typed(proc[p]) /\ proc[p].enabled \in BOOLEAN /\ ClaimOk(active)
  BY TypedMemory DEF Typed, Memory, TypeInv
<1>2. ASSUME NEW s \in {"replay", "remove"}, proc' = [proc EXCEPT ![p].claim = active, ![p].pc = s]
      PROVE  \E m : Moves(p, m)
  <2>1. PICK m : m = [proc[p] EXCEPT !.claim = active, !.pc = s] OBVIOUS
  <2>2. Typed(m) BY <1>1, <2>1 DEF Typed, Memory, Steps, ClaimOk
  <2>3. proc' = [proc EXCEPT ![p] = m] BY <1>2, <2>1
  <2> QED BY <2>2, <2>3 DEF Moves
<1>3. CASE \E e \in BOOLEAN : Return(p, e) BY <1>3, GoMoves
<1>4. ASSUME proc[p].queue # <<>>,
             proc' = [proc EXCEPT ![p].cand = Head(proc[p].queue), ![p].pc = "check"]
      PROVE  \E m : Moves(p, m)
  <2>1. PICK c \in Candidate : c = Head(proc[p].queue)
    <3>1. PICK C : C = Candidate OBVIOUS
    <3>2. proc[p].queue \in Seq(C) BY <1>1, <3>1 DEF Typed, Memory
    <3>3. Head(proc[p].queue) \in C BY <1>4, <3>2
    <3> QED BY <3>1, <3>3
  <2>2. PICK m : m = [proc[p] EXCEPT !.cand = c, !.pc = "check"] OBVIOUS
  <2>3. Typed(m) BY <1>1, <2>2 DEF Typed, Memory, Steps
  <2>4. proc' = [proc EXCEPT ![p] = m] BY <1>4, <2>1, <2>2
  <2> QED BY <2>3, <2>4 DEF Moves
<1>5. \/ \E s \in {"replay", "remove"} : proc' = [proc EXCEPT ![p].claim = active, ![p].pc = s]
      \/ Return(p, FALSE) \/ Return(p, proc[p].enabled)
      \/ /\ proc[p].queue # <<>>
         /\ proc' = [proc EXCEPT ![p].cand = Head(proc[p].queue), ![p].pc = "check"]
  BY DEF LoadClaim
<1> QED BY <1>1, <1>2, <1>3, <1>4, <1>5

LEMMA RemovalMoves ==
  ASSUME TypeInv, NEW p \in Proc, RemoveCandidate(p) \/ RemoveExactCandidate(p)
  PROVE  \E m : Moves(p, m)
<1>1. Typed(proc[p]) BY TypedMemory
<1>2. \A c : Without(proc[p].queue, c) \in Seq(Candidate)
  <2>1. proc[p].queue \in Seq(Candidate) BY <1>1 DEF Typed, Memory
  <2> QED BY <2>1, WithoutType
<1>3. CASE RemoveCandidate(p)
  <2>1. PICK w \in Seq(Candidate) : w = Without(proc[p].queue, proc[p].cand) BY <1>2
  <2>2. PICK m : m = [proc[p] EXCEPT !.queue = w, !.pc = "idle", !.cand = None] OBVIOUS
  <2>3. Typed(m) BY <1>1, <2>2 DEF Typed, Memory, Steps
  <2>4. proc' = [proc EXCEPT ![p] = m] BY <1>3, <2>1, <2>2 DEF RemoveCandidate
  <2> QED BY <2>3, <2>4 DEF Moves
<1>4. CASE RemoveExactCandidate(p)
  <2>1. PICK w \in Seq(Candidate) : w = Without(proc[p].queue, proc[p].claim.key) BY <1>2
  <2>2. PICK m : m = [proc[p] EXCEPT !.queue = w, !.pc = "complete"] OBVIOUS
  <2>3. Typed(m) BY <1>1, <2>2 DEF Typed, Memory, Steps
  <2>4. proc' = [proc EXCEPT ![p] = m] BY <1>4, <2>1, <2>2 DEF RemoveExactCandidate
  <2> QED BY <2>3, <2>4 DEF Moves
<1> QED BY <1>3, <1>4

LEMMA AnswerMoves ==
  ASSUME TypeInv, NEW p \in Proc,
         BlockedLocally(p) \/ GenerateOrderLinkId(p) \/ BookResult(p) \/ NoteReplay(p)
  PROVE  \E m : Moves(p, m)
<1>1. Typed(proc[p]) /\ proc[p].claim.id \in Nat
  BY TypedMemory DEF Typed, Memory, ClaimOk, Claim
<1>2. CASE BlockedLocally(p)
  <2>1. PICK m : m = [proc[p] EXCEPT !.resp = NoResponse, !.pc = "mark"] OBVIOUS
  <2>2. Typed(m) BY <1>1, <2>1, FirstTypes DEF Typed, Memory, Steps
  <2>3. proc' = [proc EXCEPT ![p] = m] BY <1>2, <2>1 DEF BlockedLocally
  <2> QED BY <2>2, <2>3 DEF Moves
<1>3. CASE GenerateOrderLinkId(p)
  <2>1. PICK s \in {"post", "except"} : s = IF OwnsSubmission(p) THEN "post" ELSE "except" OBVIOUS
  <2>2. PICK m : m = [proc[p] EXCEPT !.bound = 0, !.pc = s] OBVIOUS
  <2>3. Typed(m) BY <1>1, <2>2 DEF Typed, Memory, Steps
  <2>4. proc' = [proc EXCEPT ![p] = m] BY <1>3, <2>1, <2>2 DEF GenerateOrderLinkId
  <2> QED BY <2>3, <2>4 DEF Moves
<1>4. CASE BookResult(p)
  <2>1. PICK n : n = [proc[p] EXCEPT !.mem = @ \cup {proc[p].claim.id}] OBVIOUS
  <2>2. Typed(n) BY <1>1, <2>1 DEF Typed, Memory
  <2>3. PICK m \in {[n EXCEPT !.pc = "remove"], Returned(n, FALSE)} : proc' = [proc EXCEPT ![p] = m]
    <3>1. PICK f : f = [proc EXCEPT ![p].mem = @ \cup {proc[p].claim.id}] OBVIOUS
    <3>2. proc' = [f EXCEPT ![p].pc = "remove"] \/ proc' = [f EXCEPT ![p] = Returned(@, FALSE)]
      BY <1>4, <3>1 DEF BookResult
    <3>3. f = [proc EXCEPT ![p] = n] /\ f[p] = n BY <2>1, <3>1 DEF TypeInv, TypeOK
    <3> QED BY <3>2, <3>3
  <2>4. Typed([n EXCEPT !.pc = "remove"]) /\ Typed(Returned(n, FALSE))
    BY <2>2, GotoTyped, ReturnTyped DEF Steps
  <2>5. Typed(m) BY <2>4
  <2> QED BY <2>3, <2>5 DEF Moves
<1>5. CASE NoteReplay(p)
  <2>1. PICK m : m = [proc[p] EXCEPT !.mem = @ \cup {proc[p].claim.id}, !.pc = "replayed"] OBVIOUS
  <2>2. Typed(m) BY <1>1, <2>1 DEF Typed, Memory, Steps
  <2>3. proc' = [proc EXCEPT ![p] = m] BY <1>5, <2>1 DEF NoteReplay
  <2> QED BY <2>2, <2>3 DEF Moves
<1> QED BY <1>2, <1>3, <1>4, <1>5

LEMMA LocalTypes ==
  ASSUME TypeInv, NEW p \in Proc,
         \/ ClaimStore(p) \/ LoadClaim(p) \/ RemoveCandidate(p) \/ GuardBlocks(p) \/ ReloadClaim(p)
         \/ BlockedLocally(p) \/ GenerateOrderLinkId(p) \/ BookResult(p) \/ NoteReplay(p)
         \/ RemoveExactCandidate(p) \/ StoreFault(p)
  PROVE  TypeInv'
<1>1. UNCHANGED <<store, exchange, deployment>>
  BY DEF ClaimStore, LoadClaim, RemoveCandidate, GuardBlocks, ReloadClaim, BlockedLocally,
         GenerateOrderLinkId, BookResult, NoteReplay, RemoveExactCandidate, StoreFault
<1>2. proc[p].enabled \in BOOLEAN BY TypedMemory DEF Typed, Memory
<1>3. \E m : Moves(p, m)
  <2>1. CASE ClaimStore(p)
    <3>1. Goto(p, "load") \/ Return(p, FALSE) BY <2>1 DEF ClaimStore
    <3> QED BY <3>1, GoMoves DEF Steps
  <2>2. CASE LoadClaim(p) BY <2>2, LoadClaimMoves
  <2>3. CASE RemoveCandidate(p) \/ RemoveExactCandidate(p) BY <2>3, RemovalMoves
  <2>4. CASE GuardBlocks(p) BY <1>2, <2>4, GoMoves DEF GuardBlocks
  <2>5. CASE ReloadClaim(p)
    <3>1. Goto(p, "enrich") \/ Raise(p) BY <2>5 DEF ReloadClaim
    <3> QED BY <3>1, GoMoves, RaiseMoves DEF Steps
  <2>6. CASE BlockedLocally(p) \/ GenerateOrderLinkId(p) \/ BookResult(p) \/ NoteReplay(p)
    BY <2>6, AnswerMoves
  <2>7. CASE StoreFault(p) BY <2>7, RaiseMoves DEF StoreFault
  <2> QED BY <2>1, <2>2, <2>3, <2>4, <2>5, <2>6, <2>7
<1> QED BY <1>1, <1>3, LocalTyped

\* The steps of run_once that write the store or ask the exchange.
LEMMA PutClaimTypes ==
  ASSUME TypeInv, NEW p \in Proc, NEW c, ClaimOk(c), NEW then \in Steps, PutClaim(p, c, then)
  PROVE  TypeInv'
<1>0. Typed(proc[p]) BY TypedMemory
<1>1. PICK m : m = [proc[p] EXCEPT !.claim = c, !.pc = "sync", !.ret = then] OBVIOUS
<1>2. Typed(m)
  <2>1. "sync" \in Steps BY DEF Steps
  <2> QED BY <1>0, <1>1, <2>1 DEF Typed, Memory, ClaimOk
<1>3. proc' = [proc EXCEPT ![p] = m] BY <1>1 DEF PutClaim
<1>4. /\ active' = c
      /\ UNCHANGED <<ledger, journal, pendingDb, serial, order, sent, misread>> /\ deployment' = deployment
  BY DEF PutClaim, exchange
<1> QED BY <1>2, <1>3, <1>4, StepTyped DEF Moves, TypeInv, TypeOK

LEMMA TransitionTypes ==
  ASSUME TypeInv, NEW p \in Proc,
         MarkSubmitted(p) \/ Resolve(p) \/ AccountingRestored(p) \/ Complete(p)
  PROVE  TypeInv'
<1>1. ClaimOk(proc[p].claim) BY TypedMemory DEF Typed
<1>2. ASSUME NEW s \in ClaimState PROVE ClaimOk([proc[p].claim EXCEPT !.state = s])
  <2>1. s # "none" BY DEF ClaimState, ACTIVE_CLAIM_STATES, RESOLVED_CLAIM_STATES
  <2> QED BY <1>1, <2>1 DEF ClaimOk, Claim
<1>3. CASE MarkSubmitted(p)
  <2>1. ClaimOk([proc[p].claim EXCEPT !.state = "SUBMITTED"])
    BY <1>2 DEF ClaimState, ACTIVE_CLAIM_STATES
  <2> QED BY <1>3, <2>1, PutClaimTypes DEF MarkSubmitted, Steps
<1>4. CASE Resolve(p)
  <2>1. PICK s : s = FillDecision(proc[p].resp) OBVIOUS
  <2>2. s \in ClaimState /\ s # "none"
    BY <2>1 DEF FillDecision, ClaimState, ACTIVE_CLAIM_STATES, RESOLVED_CLAIM_STATES
  <2>3. PICK c : c = [proc[p].claim EXCEPT !.state = s, !.fill = s = "RESOLVED_FILLED"] OBVIOUS
  <2>4. ClaimOk(c) BY <1>1, <2>2, <2>3 DEF ClaimOk, Claim
  <2>5. PutClaim(p, c, "journal") BY <1>4, <2>1, <2>3 DEF Resolve
  <2> QED BY <2>4, <2>5, PutClaimTypes DEF Steps
<1>5. CASE AccountingRestored(p)
  BY <1>1, <1>5, PutClaimTypes DEF AccountingRestored, Steps
<1>6. CASE Complete(p)
  <2>1. ClaimOk([proc[p].claim EXCEPT !.state = "COMPLETED"]) BY <1>2 DEF ClaimState
  <2> QED BY <1>6, <2>1, PutClaimTypes DEF Complete, Steps
<1> QED BY <1>3, <1>4, <1>5, <1>6

LEMMA CreateClaimTypes == ASSUME TypeInv, NEW p \in Proc, CreateClaim(p) PROVE TypeInv'
<1>1. PICK c : c = [id |-> serial + 1, key |-> proc[p].cand, state |-> "CLAIMED", fill |-> FALSE]
  OBVIOUS
<1>2. Typed(proc[p]) /\ serial + 1 \in Nat BY TypedMemory DEF TypeInv, TypeOK
<1>3. ClaimOk(c)
  <2>1. proc[p].cand \in Candidate \cup {None} BY <1>2 DEF Typed, Memory
  <2> QED BY <1>1, <1>2, <2>1 DEF ClaimOk, Claim, ClaimState, ACTIVE_CLAIM_STATES
<1>4. /\ UNCHANGED <<ledger, journal, pendingDb, order, sent, misread>> /\ deployment' = deployment
      /\ active' \in {active, c} /\ serial' \in {serial, serial + 1}
  BY <1>1 DEF CreateClaim, exchange
<1>5. \E m : Moves(p, m)
  <2>1. CASE Goto(p, "conflict") BY <2>1, GoMoves DEF Steps
  <2>2. CASE proc' = [proc EXCEPT ![p].claim = c, ![p].pc = "created"]
    <3>1. PICK m : m = [proc[p] EXCEPT !.claim = c, !.pc = "created"] OBVIOUS
    <3>2. Typed(m) BY <1>2, <1>3, <3>1 DEF Typed, Memory, Steps, ClaimOk
    <3>3. proc' = [proc EXCEPT ![p] = m] BY <2>2, <3>1
    <3> QED BY <3>2, <3>3 DEF Moves
  <2> QED BY <1>1, <2>1, <2>2 DEF CreateClaim
<1> QED BY <1>2, <1>3, <1>4, <1>5, StepTyped DEF TypeInv, TypeOK

LEMMA ReservationTypes ==
  ASSUME TypeInv, NEW p \in Proc, Reserve(p) \/ ClaimConflict(p) \/ ClaimCreationError(p)
  PROVE  TypeInv'
<1>1. /\ UNCHANGED <<active, journal, pendingDb, serial, order, sent, misread>> /\ deployment' = deployment
  BY DEF Reserve, ClaimConflict, ClaimCreationError, exchange
<1>2. ledger' \in [Candidate -> Row]
  <2>1. ledger \in [Candidate -> Row] BY DEF TypeInv, TypeOK
  <2>2. CASE Reserve(p)
    <3>1. [NoRow EXCEPT !.state = "RESERVED"] \in Row BY FirstTypes DEF Row, LedgerState
    <3> QED BY <2>1, <2>2, <3>1 DEF Reserve
  <2>3. ASSUME NEW s \in {"ACTIVE_CLAIM_CONFLICT", "CLAIM_CREATION_ERROR"}, NEW c,
               ledger' = [ledger EXCEPT ![c].state = s]
        PROVE  ledger' \in [Candidate -> Row]
    <3>1. s \in LedgerState BY DEF LedgerState
    <3>2. \A d \in Candidate : [ledger[d] EXCEPT !.state = s] \in Row BY <2>1, <3>1 DEF Row
    <3> QED BY <2>1, <2>3, <3>2
  <2> QED BY <2>2, <2>3 DEF ClaimConflict, ClaimCreationError
<1>3. \E m : Moves(p, m)
  <2>1. proc[p].enabled \in BOOLEAN BY TypedMemory DEF Typed, Memory
  <2>2. Goto(p, "create") \/ Return(p, FALSE) \/ Return(p, proc[p].enabled)
    BY DEF Reserve, ClaimConflict, ClaimCreationError
  <2> QED BY <2>1, <2>2, GoMoves DEF Steps
<1> QED BY <1>1, <1>2, <1>3, StepTyped DEF TypeInv, TypeOK

LEMMA OwnershipTypes ==
  ASSUME TypeInv, NEW p \in Proc, EnrichClaim(p) \/ OwnLedger(p) \/ SyncLedger(p) \/ ClearClaim(p)
  PROVE  TypeInv'
<1>1. Typed(proc[p]) /\ ClaimOk(proc[p].claim) /\ proc[p].enabled \in BOOLEAN
  BY TypedMemory DEF Typed, Memory
<1>2. UNCHANGED <<journal, pendingDb, serial, order, sent, misread>> /\ deployment' = deployment
  BY DEF EnrichClaim, OwnLedger, SyncLedger, ClearClaim, exchange
<1>3. ClaimOk(active')
  <2>1. active' \in {active, proc[p].claim, NoClaim} BY DEF EnrichClaim, OwnLedger, SyncLedger, ClearClaim
  <2> QED BY <1>1, <2>1, FirstTypes DEF TypeInv
<1>4. ledger' \in [Candidate -> Row]
  <2>1. ledger' = ledger \/ ledger' = Synced(proc[p].claim)
    BY DEF EnrichClaim, OwnLedger, SyncLedger, ClearClaim
  <2> QED BY <1>1, <2>1, SyncedTyped DEF TypeInv, TypeOK
<1>5. \E m : Moves(p, m)
  <2>1. CASE EnrichClaim(p) BY <2>1, GoMoves DEF EnrichClaim, Steps
  <2>2. CASE OwnLedger(p)
    <3>1. PICK m : m = [proc[p] EXCEPT !.bound = proc[p].claim.id, !.started = TRUE, !.pc = "place"]
      OBVIOUS
    <3>2. Typed(m) BY <1>1, <3>1 DEF Typed, Memory, Steps, ClaimOk, Claim
    <3>3. proc' = [proc EXCEPT ![p] = m] BY <2>2, <3>1 DEF OwnLedger
    <3> QED BY <3>2, <3>3 DEF Moves
  <2>3. CASE SyncLedger(p)
    <3>1. CASE proc' = [proc EXCEPT ![p].bound = 0, ![p].pc = proc[p].ret]
      <4>1. PICK m : m = [proc[p] EXCEPT !.bound = 0, !.pc = proc[p].ret] OBVIOUS
      <4>2. Typed(m) BY <1>1, <4>1 DEF Typed, Memory
      <4>3. proc' = [proc EXCEPT ![p] = m] BY <3>1, <4>1
      <4> QED BY <4>2, <4>3 DEF Moves
    <3>2. CASE Return(p, FALSE) \/ Raise(p) BY <3>2, GoMoves, RaiseMoves
    <3> QED BY <2>3, <3>1, <3>2 DEF SyncLedger
  <2>4. CASE ClearClaim(p) BY <1>1, <2>4, GoMoves DEF ClearClaim
  <2> QED BY <2>1, <2>2, <2>3, <2>4
<1> QED BY <1>2, <1>3, <1>4, <1>5, StepTyped DEF TypeInv, TypeOK

LEMMA PendingFillTypes == ASSUME TypeInv, NEW p \in Proc, PendingFillGuard(p) PROVE TypeInv'
<1>1. Typed(proc[p]) BY TypedMemory
<1>2. /\ UNCHANGED <<active, ledger, journal, serial, order, sent, misread>> /\ deployment' = deployment
      /\ pendingDb' \in {pendingDb, None}
  BY DEF PendingFillGuard, exchange
<1>3. \E m : Moves(p, m)
  <2>1. CASE Goto(p, "reserve") BY <2>1, GoMoves DEF Steps
  <2>2. CASE proc' = [proc EXCEPT ![p].pend = None, ![p].pc = "reserve"]
    <3>1. PICK m : m = [proc[p] EXCEPT !.pend = None, !.pc = "reserve"] OBVIOUS
    <3>2. Typed(m) BY <1>1, <3>1 DEF Typed, Memory, Steps
    <3>3. proc' = [proc EXCEPT ![p] = m] BY <2>2, <3>1
    <3> QED BY <3>2, <3>3 DEF Moves
  <2>3. CASE proc' = [proc EXCEPT ![p].pend = None, ![p].pc = "idle", ![p].cand = None]
    <3>1. PICK m : m = [proc[p] EXCEPT !.pend = None, !.pc = "idle", !.cand = None] OBVIOUS
    <3>2. Typed(m) BY <1>1, <3>1 DEF Typed, Memory, Steps
    <3>3. proc' = [proc EXCEPT ![p] = m] BY <2>3, <3>1
    <3> QED BY <3>2, <3>3 DEF Moves
  <2> QED BY <2>1, <2>2, <2>3 DEF PendingFillGuard
<1> QED BY <1>2, <1>3, StepTyped DEF TypeInv, TypeOK

LEMMA CreateOrderTypes == ASSUME TypeInv, NEW p \in Proc, CreateOrder(p) PROVE TypeInv'
<1>1. Typed(proc[p]) BY TypedMemory
<1>2. UNCHANGED <<active, ledger, journal, pendingDb, serial>> /\ deployment' = deployment
  BY DEF CreateOrder, store
<1>3. sent' \in [Candidate -> Nat]
  <2>1. sent \in [Candidate -> Nat] BY DEF TypeInv, TypeOK
  <2>2. PICK c : c = proc[p].claim.key OBVIOUS
  <2>3. sent' = [sent EXCEPT ![c] = @ + 1] BY <2>2 DEF CreateOrder
  <2>4. \A d \in Candidate : sent[d] + 1 \in Nat BY <2>1
  <2> QED BY <2>1, <2>3, <2>4
<1>4. order' \in [Candidate -> OrderState]
  <2>1. order \in [Candidate -> OrderState] BY DEF TypeInv, TypeOK
  <2>2. PICK c : \/ order' = [order EXCEPT ![c] = "open"]
                 \/ order' = [order EXCEPT ![c] = IF @ = "none" THEN "rejected" ELSE @]
    BY DEF CreateOrder
  <2>3. "open" \in OrderState /\ "rejected" \in OrderState BY DEF OrderState
  <2> QED BY <2>1, <2>2, <2>3
<1>5. misread' \in [Candidate -> BOOLEAN]
  <2>1. PICK c : misread' = misread \/ misread' = [misread EXCEPT ![c] = TRUE] BY DEF CreateOrder
  <2> QED BY <2>1 DEF TypeInv, TypeOK
<1>6. \E m : Moves(p, m)
  <2>1. CASE Goto(p, "verify") BY <2>1, GoMoves DEF Steps
  <2>2. ASSUME NEW r \in {"block", "transport"},
               proc' = [proc EXCEPT ![p].resp = [ret |-> r, ver |-> "create_rejected"], ![p].pc = "mark"]
        PROVE  \E m : Moves(p, m)
    <3>1. PICK m : m = [proc[p] EXCEPT !.resp = [ret |-> r, ver |-> "create_rejected"], !.pc = "mark"]
      OBVIOUS
    <3>2. Typed(m) BY <1>1, <3>1 DEF Typed, Memory, Steps, Response, Verification
    <3>3. proc' = [proc EXCEPT ![p] = m] BY <2>2, <3>1
    <3> QED BY <3>2, <3>3 DEF Moves
  <2>3. \/ Goto(p, "verify")
        \/ \E r \in {"block", "transport"} :
              proc' = [proc EXCEPT ![p].resp = [ret |-> r, ver |-> "create_rejected"], ![p].pc = "mark"]
    BY DEF CreateOrder
  <2> QED BY <2>1, <2>2, <2>3
<1> QED BY <1>2, <1>3, <1>4, <1>5, <1>6, StepTyped DEF TypeInv, TypeOK

LEMMA FinalizeEntryOrderTypes ==
  ASSUME TypeInv, NEW p \in Proc, FinalizeEntryOrder(p) PROVE TypeInv'
<1>1. Typed(proc[p]) BY TypedMemory
<1>2. PICK c : c = proc[p].claim.key OBVIOUS
<1>3. c \in Candidate \cup {None} BY <1>1, <1>2 DEF Typed, ClaimOk, Claim
<1>4. PICK v :
        /\ v = Classified(order[c]) \/ v = "verification_error"
        /\ proc' = [proc EXCEPT ![p].resp = [ret |-> IF v = "filled" THEN "ok" ELSE "block", ver |-> v],
                                ![p].pend = CASE v \in Unresolved -> c
                                              [] v = "filled" /\ @ = c -> None
                                              [] OTHER -> @,
                                ![p].pc = "mark"]
        /\ pendingDb' = CASE v \in Unresolved -> c
                          [] v = "filled" /\ proc[p].pend \in {c, None} -> None
                          [] OTHER -> pendingDb
  BY <1>2 DEF FinalizeEntryOrder
<1>5. v \in Verification BY <1>4 DEF Classified, Verification
<1>6. PICK r \in Response : r = [ret |-> IF v = "filled" THEN "ok" ELSE "block", ver |-> v]
  <2>1. \A t \in {"ok", "block"} : [ret |-> t, ver |-> v] \in Response BY <1>5 DEF Response
  <2> QED BY <2>1
<1>7. PICK e \in Candidate \cup {None} :
        e = CASE v \in Unresolved -> c
              [] v = "filled" /\ proc[p].pend = c -> None
              [] OTHER -> proc[p].pend
  <2>1. proc[p].pend \in Candidate \cup {None} BY <1>1 DEF Typed, Memory
  <2> QED BY <1>3, <2>1
<1>8. PICK m : m = [proc[p] EXCEPT !.resp = r, !.pend = e, !.pc = "mark"] OBVIOUS
<1>9. Typed(m)
  <2>1. "mark" \in Steps BY DEF Steps
  <2>2. PICK o \in Memory : o = proc[p] BY <1>1 DEF Typed
  <2>3. m = [o EXCEPT !.resp = r, !.pend = e, !.pc = "mark"] BY <1>8, <2>2
  <2>4. m \in Memory BY <2>1, <2>2, <2>3 DEF Memory
  <2>5. m.claim = o.claim BY <2>2, <2>3 DEF Memory
  <2> QED BY <1>1, <2>2, <2>4, <2>5 DEF Typed
<1>10. proc' = [proc EXCEPT ![p] = m]
  <2>1. PICK f : f = [proc EXCEPT ![p].resp = r] OBVIOUS
  <2>2. f[p].pend = proc[p].pend BY <2>1 DEF TypeInv, TypeOK, Memory
  <2>3. proc' = [f EXCEPT ![p].pend = CASE v \in Unresolved -> c
                                        [] v = "filled" /\ @ = c -> None
                                        [] OTHER -> @,
                          ![p].pc = "mark"]
    BY <1>4, <1>6, <2>1
  <2>4. proc' = [f EXCEPT ![p].pend = e, ![p].pc = "mark"] BY <1>7, <2>2, <2>3
  <2> QED BY <1>8, <2>1, <2>4
<1>11. /\ UNCHANGED <<active, ledger, journal, serial, order, sent, misread>> /\ deployment' = deployment
       /\ pendingDb' \in {c, None, pendingDb}
  BY <1>4 DEF FinalizeEntryOrder, exchange
<1> QED BY <1>3, <1>9, <1>10, <1>11, StepTyped DEF Moves, TypeInv, TypeOK

LEMMA JournalTypes ==
  ASSUME TypeInv, NEW p \in Proc, JournalOrder(p) \/ ReplayAccounting(p) PROVE TypeInv'
<1>1. PICK id \in Nat : id = proc[p].claim.id BY TypedMemory DEF Typed, ClaimOk, Claim
<1>2. UNCHANGED <<active, ledger, pendingDb, serial, order, sent, misread>> /\ deployment' = deployment
  BY DEF JournalOrder, ReplayAccounting, exchange
<1>3. journal' \subseteq Nat \X {1, 2}
  <2>1. journal' = journal \/ journal' = Entered(id) BY <1>1 DEF JournalOrder, ReplayAccounting
  <2> QED BY <2>1, EnteredTyped DEF TypeInv, TypeOK
<1>4. \E m : Moves(p, m)
  <2>1. \E s \in {"noted", "replayed", "replayNoted"} : Goto(p, s)
    BY DEF JournalOrder, ReplayAccounting
  <2> QED BY <2>1, GoMoves DEF Steps
<1> QED BY <1>2, <1>3, <1>4, StepTyped DEF TypeInv, TypeOK

LEMMA SubmissionUnknownTypes ==
  ASSUME TypeInv, NEW p \in Proc, SubmissionUnknown(p) PROVE TypeInv'
<1>1. Typed(proc[p]) BY TypedMemory
<1>2. UNCHANGED <<ledger, journal, pendingDb, serial, order, sent, misread>> /\ deployment' = deployment
  BY DEF SubmissionUnknown, exchange
<1>3. CASE Return(p, FALSE) /\ UNCHANGED active
  <2>1. \E m : Moves(p, m) BY <1>3, GoMoves
  <2> QED BY <1>2, <1>3, <2>1, StepTyped DEF TypeInv, TypeOK
<1>4. ASSUME active' = [proc[p].claim EXCEPT !.state = "SUBMISSION_UNKNOWN"],
             proc' = [proc EXCEPT ![p].claim = active', ![p].pc = "sync", ![p].ret = "idle",
                                  ![p].started = FALSE, ![p].enabled = FALSE, ![p].bound = 0]
      PROVE  TypeInv'
  <2>1. PICK c : c = active' OBVIOUS
  <2>2. ClaimOk(c)
    BY <1>1, <1>4, <2>1 DEF Typed, ClaimOk, Claim, ClaimState, ACTIVE_CLAIM_STATES
  <2>3. PICK m : m = [proc[p] EXCEPT !.claim = c, !.pc = "sync", !.ret = "idle",
                                     !.started = FALSE, !.enabled = FALSE, !.bound = 0]
    OBVIOUS
  <2>4. Typed(m) BY <1>1, <2>2, <2>3 DEF Typed, Memory, Steps, ClaimOk
  <2>5. proc' = [proc EXCEPT ![p] = m] BY <1>4, <2>1, <2>3
  <2> QED BY <1>2, <2>1, <2>2, <2>4, <2>5, StepTyped DEF Moves, TypeInv, TypeOK
<1> QED BY <1>3, <1>4 DEF SubmissionUnknown

LEMMA OrderMovesTypes ==
  ASSUME TypeInv, NEW c \in Candidate, OrderMoves(c) PROVE TypeInv'
<1>1. order' \in [Candidate -> OrderState]
  <2>1. order \in [Candidate -> OrderState] BY DEF TypeInv, TypeOK
  <2>2. PICK s \in {"filled", "partialdone", "cancelled"} : order' = [order EXCEPT ![c] = s]
    BY DEF OrderMoves
  <2>3. s \in OrderState BY DEF OrderState
  <2> QED BY <2>1, <2>2, <2>3
<1>2. /\ UNCHANGED <<active, ledger, journal, pendingDb, serial, sent, misread, proc>>
      /\ deployment' = deployment
  BY DEF OrderMoves, store
<1> QED BY <1>1, <1>2 DEF TypeInv, TypeOK, ClaimOk

LEMMA RunOnceTypes == ASSUME TypeInv, NEW p \in Proc, RunOnce(p) PROVE TypeInv'
BY LocalTypes, TransitionTypes, CreateClaimTypes, ReservationTypes, OwnershipTypes,
   PendingFillTypes, CreateOrderTypes, FinalizeEntryOrderTypes, JournalTypes,
   SubmissionUnknownTypes
   DEF RunOnce

LEMMA TypeStep == TypeInv /\ [Next]_vars => TypeInv'
<1> SUFFICES ASSUME TypeInv, [Next]_vars PROVE TypeInv' OBVIOUS
<1>1. CASE UNCHANGED vars
  <2>1. /\ UNCHANGED <<active, ledger, journal, pendingDb, serial, order, sent, misread, proc>>
        /\ deployment' = deployment
    BY <1>1 DEF vars, store, exchange
  <2> QED BY <2>1 DEF TypeInv, TypeOK, ClaimOk
<1>2. ASSUME NEW p \in Proc, Boot(p) \/ Bootstrap(p) PROVE TypeInv'
  BY <1>2, BootTypes, BootstrapTypes
<1>3. ASSUME NEW p \in Proc, Crash(p) \/ StartBot(p) \/ StopBot(p) PROVE TypeInv'
  BY <1>3, OperatorTypes
<1>4. ASSUME NEW p \in Proc, RunOnce(p) PROVE TypeInv' BY <1>4, RunOnceTypes
<1>5. ASSUME NEW p \in Proc, NEW c \in Candidate, EvaluateSymbol(p, c) PROVE TypeInv'
  BY <1>5, EvaluateTypes
<1>6. ASSUME NEW c \in Candidate, OrderMoves(c) PROVE TypeInv' BY <1>6, OrderMovesTypes
<1> QED BY <1>1, <1>2, <1>3, <1>4, <1>5, <1>6 DEF Next

\* Whatever the candidate, the crash or the fault, every row of the store and
\* every local variable of run_once keeps its shape; a claim without a state
\* names no candidate, so no transition can write a ledger row for it.
THEOREM TypeCorrect == Spec => []TypeOK
<1>1. Spec => []TypeInv BY TypeInit, TypeStep, PTL DEF Spec
<1>2. TypeInv => TypeOK BY DEF TypeInv
<1> QED BY <1>1, <1>2, PTL
=============================================================================
