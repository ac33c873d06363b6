------------------------ MODULE EntryPipelineProofs ------------------------
(***************************************************************************)
(* Proofs about the entry pipeline, for every set of symbols, queue limit, *)
(* age limit, number of restarts and number of faults.                     *)
(***************************************************************************)
EXTENDS EntryPipeline, TLAPS, FiniteSetTheorems

\* The snapshots are records: a failed build changes one field of them.
IsQueue(q) == q = [status |-> q.status, fp |-> q.fp, approved |-> q.approved]
IsEntry(e) == e = [status |-> e.status, candle |-> e.candle, queue |-> e.queue]

Shapes ==
  /\ IsQueue(risk) /\ IsQueue(sizing) /\ IsEntry(entry)
  /\ saved = [hourly |-> saved.hourly, class |-> saved.class, entry |-> saved.entry,
              risk |-> saved.risk, sizing |-> saved.sizing]
  /\ IsQueue(saved.risk) /\ IsQueue(saved.sizing) /\ IsEntry(saved.entry)

\* What the last build of the outbox saw approved was offered, and delivered
\* unless the build counted a retry.
Remembered ==
  outbox.fp # <<>> =>
    /\ outbox.fp[2] \subseteq offered
    /\ outbox.retrying \/ outbox.fp[2] \subseteq delivered

\* The same of the build under way, up to the candidates it has still to post.
Delivering ==
  /\ pc # "deliver" => todo = {}
  /\ pc = "deliver" =>
       /\ todo \subseteq risk.approved
       /\ risk.approved \subseteq offered \cup todo
       /\ retry \/ risk.approved \subseteq delivered \cup todo

\* Only offered candidates reach sizing, in memory or persisted.
Offered ==
  /\ delivered \subseteq offered
  /\ pc = "sizing" => risk.approved \subseteq offered
  /\ sizing.approved \subseteq offered /\ saved.sizing.approved \subseteq offered
  /\ rows \subseteq offered

HandoffInv == Shapes /\ Remembered /\ Delivering /\ Offered

-----------------------------------------------------------------------------
LEMMA HandoffInit == Init => HandoffInv
BY DEF Init, HandoffInv, Shapes, IsQueue, IsEntry, Remembered, Delivering, Offered,
       NoQueue, NoEntry, NoOutbox

\* A skipped outbox has seen what risk approves now.
LEMMA NotDue ==
  ASSUME ~OutboxDue
  PROVE  outbox.fp # <<>> /\ outbox.fp[2] = risk.approved /\ ~outbox.retrying
BY DEF OutboxDue, OutboxFingerprint

\* Persisting one snapshot leaves the others alone.
LEMMA PersistOne ==
  ASSUME NEW stage \in {"hourly", "class", "entry", "risk", "sizing"}, NEW payload,
         Shapes, Persist(stage, payload)
  PROVE  /\ saved' = [hourly |-> saved'.hourly, class |-> saved'.class,
                      entry |-> saved'.entry, risk |-> saved'.risk,
                      sizing |-> saved'.sizing]
         /\ saved'.risk \in {saved.risk} \cup (IF stage = "risk" THEN {payload} ELSE {})
         /\ saved'.sizing \in {saved.sizing} \cup (IF stage = "sizing" THEN {payload} ELSE {})
         /\ saved'.entry \in {saved.entry} \cup (IF stage = "entry" THEN {payload} ELSE {})
BY DEF Persist, Shapes

LEMMA HourlyStep ==
  ASSUME NEW t, Shapes, EnsureHourly(t)
  PROVE  /\ saved' = [hourly |-> saved'.hourly, class |-> saved'.class,
                      entry |-> saved'.entry, risk |-> saved'.risk,
                      sizing |-> saved'.sizing]
         /\ saved'.risk = saved.risk /\ saved'.sizing = saved.sizing
         /\ saved'.entry = saved.entry
<1>1. CASE UNCHANGED saved
  BY <1>1 DEF Shapes
<1>2. CASE \E R \in Watchlists :
             /\ hourly' = [candle |-> TargetCandle(t, 12), rows |-> R]
             /\ Persist("hourly", hourly')
  BY <1>2, PersistOne
<1> QED BY <1>1, <1>2 DEF EnsureHourly

\* Every step keeps the invariant of the hand-off.
LEMMA HandoffStep == HandoffInv /\ [Next]_vars => HandoffInv'
<1> SUFFICES ASSUME HandoffInv, [Next]_vars PROVE HandoffInv'
  OBVIOUS
<1> USE DEF HandoffInv
<1>1. CASE UNCHANGED vars
  BY <1>1 DEF vars, cycle, feed, handoff, process, outside, Shapes, IsQueue, IsEntry,
              Remembered, Delivering, Offered
<1>2. CASE BeginCycle \/ SkipClassifier \/ Tick
  BY <1>2 DEF BeginCycle, SkipClassifier, Tick, cycle, feed, handoff, process, outside,
              Shapes, IsQueue, IsEntry, Remembered, Delivering, Offered
<1>3. CASE RunBatch \/ RefreshHourly
  <2>1. /\ saved' = [hourly |-> saved'.hourly, class |-> saved'.class,
                     entry |-> saved'.entry, risk |-> saved'.risk,
                     sizing |-> saved'.sizing]
        /\ saved'.risk = saved.risk /\ saved'.sizing = saved.sizing
        /\ saved'.entry = saved.entry
    BY <1>3, HourlyStep DEF RunBatch, RefreshHourly
  <2>2. /\ UNCHANGED <<entry, risk, sizing, handoff, outside>>
        /\ pc # "deliver" /\ pc' \in {"classifier", "classify"}
    BY <1>3 DEF RunBatch, RefreshHourly
  <2> QED BY <2>1, <2>2 DEF handoff, outside, Shapes, IsQueue, IsEntry, Remembered,
                            Delivering, Offered
<1>4. CASE BuildClass
  <2>1. /\ saved' = [hourly |-> saved'.hourly, class |-> saved'.class,
                     entry |-> saved'.entry, risk |-> saved'.risk,
                     sizing |-> saved'.sizing]
        /\ saved'.risk = saved.risk /\ saved'.sizing = saved.sizing
        /\ saved'.entry = saved.entry
    <3>1. CASE UNCHANGED saved
      BY <3>1 DEF Shapes
    <3>2. CASE Persist("class", class')
      BY <3>2, PersistOne
    <3> QED BY <1>4, <3>1, <3>2 DEF BuildClass
  <2>2. /\ UNCHANGED <<entry, risk, sizing, handoff, outside>>
        /\ pc # "deliver" /\ pc' = "entry"
    BY <1>4 DEF BuildClass
  <2> QED BY <2>1, <2>2 DEF handoff, outside, Shapes, IsQueue, IsEntry, Remembered,
                            Delivering, Offered
<1>5. CASE BuildEntry
  <2>1. /\ saved' = [hourly |-> saved'.hourly, class |-> saved'.class,
                     entry |-> saved'.entry, risk |-> saved'.risk,
                     sizing |-> saved'.sizing]
        /\ saved'.risk = saved.risk /\ saved'.sizing = saved.sizing
        /\ IsEntry(entry') /\ IsEntry(saved'.entry)
    <3>1. CASE UNCHANGED <<entry, saved>>
      BY <3>1 DEF Shapes
    <3>2. CASE /\ \E C \in SUBSET class.rows :
                    entry' = [status |-> "ready", candle |-> TargetCandle(ts, 1),
                              queue |-> IF Waiting THEN entry.queue ELSE Confirmed(C)]
               /\ Persist("entry", entry')
      <4>1. IsEntry(entry')
        BY <3>2 DEF IsEntry
      <4> QED BY <4>1, <3>2, PersistOne DEF Shapes
    <3>3. CASE entry' = [entry EXCEPT !.status = "failed"] /\ UNCHANGED saved
      BY <3>3 DEF Shapes, IsEntry
    <3> QED BY <1>5, <3>1, <3>2, <3>3 DEF BuildEntry
  <2>2. UNCHANGED <<risk, sizing, handoff, outside>> /\ pc # "deliver" /\ pc' = "risk"
    BY <1>5 DEF BuildEntry
  <2> QED BY <2>1, <2>2 DEF handoff, outside, Shapes, Remembered, Delivering, Offered
<1>6. CASE BuildRisk
  <2>1. /\ saved' = [hourly |-> saved'.hourly, class |-> saved'.class,
                     entry |-> saved'.entry, risk |-> saved'.risk,
                     sizing |-> saved'.sizing]
        /\ saved'.entry = saved.entry /\ saved'.sizing = saved.sizing
        /\ IsQueue(risk') /\ IsQueue(saved'.risk)
    <3>1. CASE UNCHANGED <<risk, saved>>
      BY <3>1 DEF Shapes
    <3>2. CASE /\ \E A : risk' = [status |-> "ready", fp |-> RiskFingerprint, approved |-> A]
               /\ Persist("risk", risk')
      <4>1. IsQueue(risk')
        BY <3>2 DEF IsQueue
      <4> QED BY <4>1, <3>2, PersistOne DEF Shapes
    <3>3. CASE risk' = [risk EXCEPT !.status = "failed"] /\ UNCHANGED saved
      BY <3>3 DEF Shapes, IsQueue
    <3> QED BY <1>6, <3>1, <3>2, <3>3 DEF BuildRisk
  <2>2. UNCHANGED <<entry, sizing, handoff, outside>> /\ pc # "deliver" /\ pc' = "outbox"
    BY <1>6 DEF BuildRisk, feed
  <2> QED BY <2>1, <2>2 DEF handoff, outside, Shapes, Remembered, Delivering, Offered
<1>7. CASE SkipOutbox
  <2>1. risk.approved \subseteq offered
    BY <1>7, NotDue DEF SkipOutbox, Remembered
  <2> QED BY <1>7, <2>1 DEF SkipOutbox, feed, handoff, outside, Shapes, IsQueue, IsEntry,
                            Remembered, Delivering, Offered
<1>8. CASE BeginOutbox
  BY <1>8 DEF BeginOutbox, feed, outside, Shapes, IsQueue, IsEntry, Remembered,
              Delivering, Offered
<1>9. ASSUME NEW k \in todo, PostAnswered(k) \/ PostFailed(k) PROVE HandoffInv'
  <2>1. /\ pc = "deliver" /\ k \in todo /\ todo' = todo \ {k}
        /\ offered' = offered \cup {k}
        /\ UNCHANGED <<pc, entry, risk, sizing, outbox, saved, rows>>
    BY <1>9 DEF PostAnswered, PostFailed, Post, cycle, feed
  <2>2. \/ delivered' = delivered \cup {k} /\ UNCHANGED retry
        \/ retry' = TRUE /\ UNCHANGED delivered
    BY <1>9 DEF PostAnswered, PostFailed
  <2>3. Shapes'
    BY <2>1 DEF Shapes, IsQueue, IsEntry
  <2>4. Remembered'
    BY <2>1, <2>2 DEF Remembered
  <2>5. Delivering'
    BY <2>1, <2>2 DEF Delivering
  <2>6. Offered'
    BY <2>1, <2>2 DEF Offered
  <2> QED BY <2>3, <2>4, <2>5, <2>6
<1>10. CASE MirrorPostgres
  <2>1. /\ pc = "deliver" /\ todo = {} /\ pc' = "sizing"
        /\ UNCHANGED <<entry, risk, sizing, delivered, todo, saved, offered>>
        /\ rows' \subseteq rows \cup sizing.approved
        /\ outbox'.fp = <<risk.fp, risk.approved, sizing.fp, sizing.approved>>
        /\ outbox'.retrying = retry
    BY <1>10 DEF MirrorPostgres, OutboxFingerprint, feed
  <2>2. Shapes'
    BY <2>1 DEF Shapes, IsQueue, IsEntry
  <2>3. Remembered'
    BY <2>1 DEF Remembered, Delivering
  <2>4. Delivering' /\ Offered'
    BY <2>1 DEF Delivering, Offered
  <2> QED BY <2>2, <2>3, <2>4
<1>11. CASE BuildSizing
  <2>1. /\ saved' = [hourly |-> saved'.hourly, class |-> saved'.class,
                     entry |-> saved'.entry, risk |-> saved'.risk,
                     sizing |-> saved'.sizing]
        /\ saved'.entry = saved.entry /\ saved'.risk = saved.risk
        /\ IsQueue(sizing') /\ IsQueue(saved'.sizing)
        /\ sizing'.approved \subseteq offered /\ saved'.sizing.approved \subseteq offered
    <3>1. CASE UNCHANGED <<sizing, saved>>
      BY <3>1 DEF Shapes, Offered
    <3>2. CASE /\ \E A \in SizingVerdicts :
                    sizing' = [status |-> "ready", fp |-> SizingFingerprint, approved |-> A]
               /\ Persist("sizing", sizing')
      <4>1. IsQueue(sizing') /\ sizing'.approved \subseteq offered
        BY <1>11, <3>2 DEF IsQueue, Offered, BuildSizing, SizingVerdicts
      <4> QED BY <4>1, <3>2, PersistOne DEF Shapes, Offered
    <3>3. CASE sizing' = [sizing EXCEPT !.status = "failed"] /\ UNCHANGED saved
      BY <3>3 DEF Shapes, IsQueue, Offered
    <3> QED BY <1>11, <3>1, <3>2, <3>3 DEF BuildSizing
  <2>2. UNCHANGED <<entry, risk, handoff, outside>> /\ pc # "deliver" /\ pc' = "idle"
    BY <1>11 DEF BuildSizing, feed
  <2> QED BY <2>1, <2>2 DEF handoff, outside, Shapes, Remembered, Delivering, Offered
<1>12. CASE Restart
  BY <1>12 DEF Restart, outside, Shapes, IsQueue, IsEntry, Remembered, Delivering, Offered,
               NoQueue, NoEntry, NoOutbox
<1> QED BY <1>1, <1>2, <1>3, <1>4, <1>5, <1>6, <1>7, <1>8, <1>9, <1>10, <1>11, <1>12
        DEF Next, Step

\* Whatever fails or restarts, an approved candidate that was not delivered makes
\* the outbox due.
THEOREM UnsentStaysDue == Spec => []UnsentIsDue
<1>1. HandoffInv => UnsentIsDue
  BY NotDue DEF HandoffInv, Remembered, UnsentIsDue
<1> QED BY HandoffInit, HandoffStep, <1>1, PTL DEF Spec

\* No command row precedes the direct offer of its candidate.
THEOREM MirrorNeverFirst == Spec => []MirrorFollowsOffer
<1>1. HandoffInv => MirrorFollowsOffer
  BY DEF HandoffInv, Offered, MirrorFollowsOffer
<1> QED BY HandoffInit, HandoffStep, <1>1, PTL DEF Spec

-----------------------------------------------------------------------------
(* Freshness of what is posted.                                             *)

\* The candidate is within its age limit at time t.
Young(k, t) == t - CreatedAt(k) <= MaxAge

\* Risk judged ages at the end of the candle its fingerprint names.
Judged(q) ==
  IF q.fp = <<>> THEN q.approved = {}
  ELSE \A k \in q.approved : Young(k, q.fp[1] + 1)

\* The clock never goes back behind a cycle, nor a cycle behind the last entry
\* build; a failed entry build leaves an older candle than the cycle's.
Clock ==
  /\ now \in Nat \ {0} /\ ts \in Nat \ {0} /\ ts <= now
  /\ entry.candle \in Int /\ entry.candle <= ts - 1
  /\ entry.status # "ready" => entry.candle < ts - 1
  /\ saved.entry.candle \in Int /\ saved.entry.candle <= ts - 1
  /\ saved.entry.status # "ready" => saved.entry.candle < ts - 1

\* Within a cycle: a ready entry stage has the cycle's candle, and risk has judged it.
Current ==
  /\ pc \in {"risk", "outbox", "deliver", "sizing"} /\ entry.status = "ready" =>
       entry.candle = ts - 1
  /\ pc \in {"outbox", "deliver", "sizing"} /\ entry.candle = ts - 1 =>
       risk.fp # <<>> /\ risk.fp[1] = entry.candle

Fresh == Clock /\ Current /\ Judged(risk) /\ Judged(saved.risk)

LEMMA FiveMinuteTarget == ASSUME NEW t \in Nat PROVE TargetCandle(t, 1) = t - 1
BY DEF TargetCandle

LEMMA FreshInit == Init => Fresh
BY PipelineAssumption DEF Init, Fresh, Clock, Current, Judged, NoEntry, NoQueue, None

LEMMA FreshStep == HandoffInv /\ Fresh /\ [Next]_vars => Fresh'
<1> SUFFICES ASSUME HandoffInv, Fresh, [Next]_vars PROVE Fresh'
  OBVIOUS
<1>s. Shapes
  BY DEF HandoffInv
<1>1. CASE UNCHANGED vars
  BY <1>1 DEF vars, cycle, feed, Fresh, Clock, Current, Judged
<1>2. CASE BeginCycle \/ SkipClassifier \/ Tick
  BY <1>2 DEF BeginCycle, SkipClassifier, Tick, cycle, feed, Fresh, Clock, Current, Judged
<1>3. CASE RunBatch \/ RefreshHourly
  <2>1. saved'.risk = saved.risk /\ saved'.entry = saved.entry
    BY <1>3, <1>s, HourlyStep DEF RunBatch, RefreshHourly
  <2>2. UNCHANGED <<now, ts, entry, risk>> /\ pc' \in {"classifier", "classify"}
    BY <1>3 DEF RunBatch, RefreshHourly
  <2> QED BY <2>1, <2>2 DEF Fresh, Clock, Current, Judged
<1>4. CASE BuildClass
  <2>1. saved'.risk = saved.risk /\ saved'.entry = saved.entry
    <3>1. CASE UNCHANGED saved
      BY <3>1
    <3>2. CASE Persist("class", class')
      BY <3>2, <1>s, PersistOne
    <3> QED BY <1>4, <3>1, <3>2 DEF BuildClass
  <2>2. UNCHANGED <<now, ts, entry, risk>> /\ pc' = "entry"
    BY <1>4 DEF BuildClass
  <2> QED BY <2>1, <2>2 DEF Fresh, Clock, Current, Judged
<1>5. CASE BuildEntry
  <2>1. UNCHANGED <<now, ts, risk>> /\ pc' = "risk"
    BY <1>5 DEF BuildEntry
  <2>2. ts \in Nat /\ TargetCandle(ts, 1) = ts - 1
    BY FiveMinuteTarget DEF Fresh, Clock
  <2>3. CASE ~EntryDue /\ UNCHANGED <<entry, saved>>
    BY <2>1, <2>2, <2>3 DEF EntryDue, Fresh, Clock, Current, Judged
  <2>4. CASE /\ \E C \in SUBSET class.rows :
                  entry' = [status |-> "ready", candle |-> TargetCandle(ts, 1),
                            queue |-> IF Waiting THEN entry.queue ELSE Confirmed(C)]
             /\ Persist("entry", entry')
    <3>1. entry'.status = "ready" /\ entry'.candle = ts - 1
      BY <2>2, <2>4
    <3>2. saved'.risk = saved.risk /\ saved'.entry \in {saved.entry, entry'}
      BY <2>4, <1>s, PersistOne
    <3> QED BY <2>1, <3>1, <3>2 DEF Fresh, Clock, Current, Judged
  <2>5. CASE EntryDue /\ entry' = [entry EXCEPT !.status = "failed"] /\ UNCHANGED saved
    <3>1. entry'.status = "failed" /\ entry'.candle = entry.candle
      BY <2>5, <1>s DEF Shapes, IsEntry
    <3>2. entry.candle < ts - 1
      BY <2>2, <2>5 DEF EntryDue, Fresh, Clock
    <3> QED BY <2>1, <2>5, <3>1, <3>2 DEF Fresh, Clock, Current, Judged
  <2> QED BY <1>5, <2>3, <2>4, <2>5 DEF BuildEntry
<1>6. CASE BuildRisk
  <2>1. UNCHANGED <<now, ts, entry>> /\ pc = "risk" /\ pc' = "outbox"
    BY <1>6 DEF BuildRisk, feed
  <2>2. CASE ~RiskDue /\ UNCHANGED <<risk, saved>>
    <3>1. risk.fp = <<entry.candle, Keys(entry.queue)>>
      BY <2>2 DEF RiskDue, RiskFingerprint
    <3>2. risk'.fp # <<>> /\ risk'.fp[1] = entry'.candle
      BY <2>1, <2>2, <3>1
    <3> QED BY <2>1, <2>2, <3>2 DEF Fresh, Clock, Current, Judged
  <2>3. CASE /\ entry.status = "ready"
             /\ \E A \in RiskVerdicts :
                  risk' = [status |-> "ready", fp |-> RiskFingerprint, approved |-> A]
             /\ Persist("risk", risk')
    <3>1. entry.candle = ts - 1 /\ ts \in Nat
      BY <2>1, <2>3 DEF Fresh, Clock, Current
    <3>2. risk'.fp = <<entry.candle, Keys(entry.queue)>>
      BY <2>3 DEF RiskFingerprint
    <3>3. \A k \in risk'.approved : Young(k, ts)
      BY <2>3 DEF Young, RiskVerdicts
    <3>4. risk'.fp # <<>> /\ risk'.fp[1] = entry.candle /\ risk'.fp[1] + 1 = ts
      BY <3>1, <3>2
    <3>5. Judged(risk')
      <4>1. \A k \in risk'.approved : Young(k, risk'.fp[1] + 1)
        BY <3>3, <3>4
      <4> QED BY <3>4, <4>1 DEF Judged
    <3>6. saved'.entry = saved.entry /\ saved'.risk \in {saved.risk, risk'}
      BY <2>3, <1>s, PersistOne
    <3> QED BY <2>1, <3>4, <3>5, <3>6 DEF Fresh, Clock, Current
  <2>4. CASE /\ entry.status # "ready"
             /\ risk' = [risk EXCEPT !.status = "failed"] /\ UNCHANGED saved
    <3>1. risk'.fp = risk.fp /\ risk'.approved = risk.approved
      BY <2>4, <1>s DEF Shapes, IsQueue
    <3> QED BY <2>1, <2>4, <3>1 DEF Fresh, Clock, Current, Judged
  <2> QED BY <1>6, <2>2, <2>3, <2>4 DEF BuildRisk
<1>7. CASE SkipOutbox \/ BeginOutbox \/ MirrorPostgres
  BY <1>7 DEF SkipOutbox, BeginOutbox, MirrorPostgres, feed, Fresh, Clock, Current, Judged
<1>8. CASE \E k \in todo : PostAnswered(k) \/ PostFailed(k)
  BY <1>8 DEF PostAnswered, PostFailed, Post, cycle, feed, Fresh, Clock, Current, Judged
<1>9. CASE BuildSizing
  <2>1. saved'.risk = saved.risk /\ saved'.entry = saved.entry
    <3>1. CASE UNCHANGED saved
      BY <3>1
    <3>2. CASE Persist("sizing", sizing')
      BY <3>2, <1>s, PersistOne
    <3> QED BY <1>9, <3>1, <3>2 DEF BuildSizing
  <2>2. UNCHANGED <<now, ts, entry, risk>> /\ pc' = "idle"
    BY <1>9 DEF BuildSizing, feed
  <2> QED BY <2>1, <2>2 DEF Fresh, Clock, Current, Judged
<1>10. CASE Restart
  BY <1>10 DEF Restart, Fresh, Clock, Current, Judged, NoQueue, NoEntry, None
<1> QED BY <1>1, <1>2, <1>3, <1>4, <1>5, <1>6, <1>7, <1>8, <1>9, <1>10 DEF Next, Step

\* A post made when the entry stage is up to date is of a fresh candidate.
LEMMA PostIsFresh ==
  ASSUME HandoffInv, Fresh, [Next]_vars, NEW k \in todo, k \notin todo', pc' = "deliver",
         entry.candle = TargetCandle(ts, 1)
  PROVE  ts - CreatedAt(k) <= MaxAge
<1>1. pc = "deliver"
  BY DEF HandoffInv, Delivering
<1>2. ts \in Nat /\ entry.candle = ts - 1
  BY FiveMinuteTarget DEF Fresh, Clock
<1>3. risk.fp # <<>> /\ risk.fp[1] + 1 = ts
  BY <1>1, <1>2 DEF Fresh, Current
<1>4. k \in risk.approved
  BY <1>1 DEF HandoffInv, Delivering
<1>5. Young(k, risk.fp[1] + 1)
  BY <1>3, <1>4 DEF Fresh, Judged
<1>6. Young(k, ts)
  BY <1>3, <1>5
<1> QED BY <1>6 DEF Young

\* While the entry stage is up to date no candidate older than the limit is posted.
THEOREM HandoffsAreFresh == Spec => HandoffIsFresh
<1>1. HandoffInv /\ Fresh /\ [Next]_vars =>
        [\A k \in todo :
           k \notin todo' /\ pc' = "deliver" /\ entry.candle = TargetCandle(ts, 1) =>
             ts - CreatedAt(k) <= MaxAge]_vars
  BY PostIsFresh
<1> QED BY HandoffInit, HandoffStep, FreshInit, FreshStep, <1>1, PTL DEF Spec, HandoffIsFresh

-----------------------------------------------------------------------------
(* Types *)

\* As many numbers of a finite set are at most its i-th as i says, so an i-th exists.
LEMMA RankedType ==
  ASSUME NEW S \in SUBSET Symbol
  PROVE  Cardinality(S) \in Nat /\ \A i \in 1..Cardinality(S) : Ranked(S)[i] \in S
<1> DEFINE n == Cardinality(S)
           below(s) == {x \in S : x <= s}
           rank == [s \in S |-> Cardinality(below(s))]
<1>1. S \in SUBSET Nat /\ IsFiniteSet(S) /\ n \in Nat
  BY PipelineAssumption, FS_Subset, FS_CardinalityType
<1>2. ASSUME NEW s \in S
      PROVE  /\ IsFiniteSet(below(s)) /\ Cardinality(below(s)) \in 1..n
  <2>1. PICK b \in SUBSET S : b = below(s) OBVIOUS
  <2>2. IsFiniteSet(b) /\ Cardinality(b) <= n BY <1>1, FS_Subset
  <2>3. s \in b BY <1>1, <2>1
  <2>4. Cardinality(b) \in Nat /\ Cardinality(b) # 0 BY <2>2, <2>3, FS_CardinalityType, FS_EmptySet
  <2> QED BY <1>1, <2>1, <2>2, <2>4
<1>3. ASSUME NEW s \in S, NEW t \in S, s < t PROVE rank[s] # rank[t]
  <2>1. PICK a, b : a = below(s) /\ b = below(t) OBVIOUS
  <2>2. s \in Nat /\ t \in Nat /\ S \in SUBSET Nat BY <1>1
  <2>3. a \in SUBSET b /\ t \in b /\ t \notin a
    <3>1. \A x \in S : x \in Nat /\ (x <= s => x <= t) BY <1>3, <2>2
    <3>2. t <= t /\ ~(t <= s) BY <1>3, <2>2
    <3> QED BY <2>1, <3>1, <3>2
  <2>4. IsFiniteSet(b) BY <1>2, <2>1
  <2>5. Cardinality(b) # Cardinality(a) BY <2>3, <2>4, FS_Subset
  <2> QED BY <2>1, <2>5
<1>4. rank \in [S -> 1..n] /\ IsInjective(rank)
  <2>1. rank \in [S -> 1..n] BY <1>2
  <2>2. ASSUME NEW s \in S, NEW t \in S, rank[s] = rank[t] PROVE s = t
    <3>1. s \in Nat /\ t \in Nat BY <1>1
    <3>2. ~(s < t) /\ ~(t < s) BY <1>3, <2>2
    <3> QED BY <3>1, <3>2
  <2> HIDE DEF rank
  <2> QED BY <2>1, <2>2 DEF IsInjective
<1>5. rank \in Surjection(S, 1..n)
  <2>1. rank \in Injection(S, 1..n) BY <1>4 DEF Injection
  <2>2. IsFiniteSet(1..n) /\ Cardinality(1..n) = n
    <3>1. 1 \in Int /\ n \in Int /\ (1 > n => n = 0) /\ n - 1 + 1 = n BY <1>1
    <3> QED BY <3>1, FS_Interval
  <2> HIDE DEF rank, n
  <2>3. Cardinality(S) = n BY DEF n
  <2> QED BY <2>1, <2>2, <2>3, FS_Injection
<1>6. ASSUME NEW i \in 1..n PROVE Ranked(S)[i] \in S
  <2>1. \E s \in S : rank[s] = i
    <3> HIDE DEF rank, n
    <3> QED BY <1>5 DEF Surjection
  <2>2. \E s \in S : Cardinality({x \in S : x <= s}) = i BY <2>1
  <2> QED BY <2>2 DEF Ranked
<1> QED BY <1>1, <1>6

\* The queue keeps its limit, and its newest entries.
LEMMA LimitedType ==
  ASSUME NEW q \in Seq(Candidate)
  PROVE  Limited(q) \in Seq(Candidate) /\ Len(Limited(q)) <= QueueLimit
<1>1. QueueLimit \in Nat /\ QueueLimit > 0 BY PipelineAssumption
<1>2. PICK K, n : K = Candidate /\ n = Len(q) /\ q \in Seq(K) /\ n \in Nat OBVIOUS
<1>3. CASE n <= QueueLimit BY <1>2, <1>3 DEF Limited
<1>4. CASE ~(n <= QueueLimit)
  <2>1. PICK lo \in Int : lo = n - QueueLimit + 1 BY <1>1, <1>2
  <2>2. 1 <= lo /\ lo <= n /\ n - lo + 1 = QueueLimit BY <1>1, <1>2, <1>4, <2>1
  <2>3. Limited(q) = SubSeq(q, lo, n) BY <1>2, <1>4, <2>1 DEF Limited
  <2>4. SubSeq(q, lo, n) \in Seq(K) /\ Len(SubSeq(q, lo, n)) = n - lo + 1
    <3>1. \A i \in lo..n : i \in 1..Len(q) BY <1>2, <2>2
    <3>2. SubSeq(q, lo, n) \in Seq(K) BY <1>2, <2>2, <3>1
    <3>3. Len(SubSeq(q, lo, n)) = n - lo + 1 BY <1>2, <2>2
    <3> QED BY <3>2, <3>3
  <2> QED BY <1>1, <1>2, <2>2, <2>3, <2>4
<1> QED BY <1>3, <1>4

LEMMA ConfirmedType ==
  ASSUME NEW C \in SUBSET Symbol, entry.queue \in Seq(Candidate), ts \in Nat
  PROVE  Confirmed(C) \in Seq(Candidate) /\ Len(Confirmed(C)) <= QueueLimit
<1> DEFINE candidate(s) == [symbol |-> s, candle |-> TargetCandle(ts, 1)]
           fresh == {s \in C : candidate(s) \notin Keys(entry.queue)}
           new == [i \in 1..Cardinality(fresh) |-> candidate(Ranked(fresh)[i])]
<1>1. TargetCandle(ts, 1) \in Int BY DEF TargetCandle
<1>2. Cardinality(fresh) \in Nat /\ \A i \in 1..Cardinality(fresh) : Ranked(fresh)[i] \in Symbol
  <2>1. PICK F \in SUBSET Symbol : F = fresh OBVIOUS
  <2>2. Cardinality(F) \in Nat /\ \A i \in 1..Cardinality(F) : Ranked(F)[i] \in Symbol BY RankedType
  <2> QED BY <2>1, <2>2
<1>3. \A s \in Symbol : candidate(s) \in Candidate BY <1>1 DEF Candidate
<1>4. new \in Seq(Candidate)
  <2>1. PICK n \in Nat : n = Cardinality(fresh) BY <1>2
  <2>2. \A i \in 1..n : candidate(Ranked(fresh)[i]) \in Candidate BY <1>2, <1>3, <2>1
  <2>3. PICK K : K = Candidate OBVIOUS
  <2>4. new \in [1..n -> K] BY <2>1, <2>2, <2>3
  <2>5. \A f \in [1..n -> K] : f \in Seq(K) OBVIOUS
  <2> HIDE DEF new
  <2> QED BY <2>3, <2>4, <2>5
<1>5. entry.queue \o new \in Seq(Candidate)
  <2>1. PICK K, a, b : K = Candidate /\ a = entry.queue /\ b = new OBVIOUS
  <2>2. a \in Seq(K) /\ b \in Seq(K) BY <1>4, <2>1
  <2>3. a \o b \in Seq(K) BY <2>2
  <2> QED BY <2>1, <2>3
<1>6. Confirmed(C) = Limited(entry.queue \o new) BY DEF Confirmed
<1> HIDE DEF new
<1> QED BY <1>5, <1>6, LimitedType

IsQueueType(q) == IsQueue(q) /\ q.status \in Status /\ q.approved \subseteq Candidate
IsEntryType(e) == e \in Entry /\ Len(e.queue) <= QueueLimit

\* The saved snapshots, which a restart reads back, have the types of those in memory.
SavedTypes(s) ==
  /\ s = [hourly |-> s.hourly, class |-> s.class, entry |-> s.entry, risk |-> s.risk, sizing |-> s.sizing]
  /\ s.hourly \in Hourly /\ s.class \in Class /\ IsEntryType(s.entry)
  /\ IsQueueType(s.risk) /\ IsQueueType(s.sizing)

TypeInv == TypeOK /\ IsQueue(risk) /\ IsQueue(sizing) /\ SavedTypes(saved)

LEMMA Bounds ==
  /\ MaxRestarts \in Nat /\ MaxFaults \in Nat /\ SetupInterval \in Nat
  /\ \A t \in Nat, n \in {1, 3, 12} : TargetCandle(t, n) \in Int
  /\ NoHourly \in Hourly /\ NoClass \in Class /\ IsEntryType(NoEntry) /\ IsQueueType(NoQueue)
<1>1. MaxRestarts \in Nat /\ MaxFaults \in Nat /\ SetupInterval \in Nat /\ QueueLimit \in Nat
  BY PipelineAssumption
<1>2. \A t \in Nat, n \in {1, 3, 12} : TargetCandle(t, n) \in Int BY DEF TargetCandle
<1>3. NoHourly \in Hourly /\ NoClass \in Class
  BY DEF NoHourly, NoClass, Hourly, Class, None, Status
<1>4. IsEntryType(NoEntry)
  <2>1. <<>> \in Seq(Candidate) /\ Len(<<>>) <= QueueLimit BY <1>1
  <2> QED BY <2>1 DEF IsEntryType, NoEntry, Entry, Status, None
<1>5. IsQueueType(NoQueue) BY DEF IsQueueType, IsQueue, NoQueue, Status
<1> QED BY <1>1, <1>2, <1>3, <1>4, <1>5

LEMMA TypeInit == Init => TypeInv
<1> SUFFICES ASSUME Init PROVE TypeInv OBVIOUS
<1>1. StartTick \in Nat BY PipelineAssumption
<1>2. SavedTypes(saved) BY Bounds DEF Init, SavedTypes
<1>3. IsEntryType(entry) /\ hourly \in Hourly /\ class \in Class /\ IsQueueType(risk) /\ IsQueueType(sizing)
  BY Bounds DEF Init
<1>4. outbox.retrying \in BOOLEAN /\ outbox.waiting \in BOOLEAN BY DEF Init, NoOutbox
<1>5. restarts \in 0..MaxRestarts /\ faults \in 0..MaxFaults BY Bounds DEF Init
<1>6. /\ now \in Nat /\ ts \in Nat /\ nextRun \in Nat /\ pc \in Stage
      /\ delivered = {} /\ todo = {} /\ retry \in BOOLEAN /\ store \in BOOLEAN
      /\ offered = {} /\ rows = {}
  BY <1>1 DEF Init, Stage
<1>7. TypeOK BY <1>3, <1>4, <1>5, <1>6 DEF TypeOK, IsEntryType, IsQueueType
<1> QED BY <1>2, <1>3, <1>7 DEF TypeInv, IsQueueType

LEMMA FaultCounted == ASSUME TypeInv, Fault PROVE faults' \in 0..MaxFaults
<1>1. MaxFaults \in Nat BY PipelineAssumption
<1>2. faults \in 0..MaxFaults BY DEF TypeInv, TypeOK
<1> QED BY <1>1, <1>2 DEF Fault

\* A snapshot of its type is saved as it is, or the saved one stays.
LEMMA PersistTypes ==
  ASSUME TypeInv, NEW stage, NEW payload, Persist(stage, payload),
         \/ stage = "hourly" /\ payload \in Hourly
         \/ stage = "class" /\ payload \in Class
         \/ stage = "entry" /\ IsEntryType(payload)
         \/ stage \in {"risk", "sizing"} /\ IsQueueType(payload)
  PROVE  SavedTypes(saved') /\ faults' \in 0..MaxFaults
<1>1. faults' \in 0..MaxFaults
  BY FaultCounted DEF Persist, TypeInv, TypeOK
<1>2. SavedTypes(saved) BY DEF TypeInv
<1>3. CASE saved' = saved BY <1>1, <1>2, <1>3
<1>4. CASE saved' = [saved EXCEPT ![stage] = payload]
  <2>1. stage \in {"hourly", "class", "entry", "risk", "sizing"} OBVIOUS
  <2>2. /\ saved'.hourly = IF stage = "hourly" THEN payload ELSE saved.hourly
        /\ saved'.class = IF stage = "class" THEN payload ELSE saved.class
        /\ saved'.entry = IF stage = "entry" THEN payload ELSE saved.entry
        /\ saved'.risk = IF stage = "risk" THEN payload ELSE saved.risk
        /\ saved'.sizing = IF stage = "sizing" THEN payload ELSE saved.sizing
        /\ saved' = [hourly |-> saved'.hourly, class |-> saved'.class, entry |-> saved'.entry,
                     risk |-> saved'.risk, sizing |-> saved'.sizing]
    BY <1>2, <1>4, <2>1 DEF SavedTypes
  <2>3. SavedTypes(saved') BY <1>2, <2>2 DEF SavedTypes
  <2> QED BY <1>1, <2>3
<1> QED BY <1>1, <1>3, <1>4 DEF Persist

LEMMA HourlyTypes ==
  ASSUME TypeInv, NEW t \in Nat, EnsureHourly(t)
  PROVE  hourly' \in Hourly /\ SavedTypes(saved') /\ faults' \in 0..MaxFaults
<1>1. hourly \in Hourly /\ SavedTypes(saved) /\ faults \in 0..MaxFaults BY DEF TypeInv, TypeOK
<1>2. CASE UNCHANGED <<hourly, saved, faults>> BY <1>1, <1>2
<1>3. CASE \E R \in Watchlists : /\ hourly' = [candle |-> TargetCandle(t, 12), rows |-> R]
                                /\ Persist("hourly", hourly')
  <2>1. TargetCandle(t, 12) \in Int BY Bounds
  <2>2. hourly' \in Hourly BY <1>3, <2>1 DEF Watchlists, Hourly
  <2> QED BY <1>3, <2>2, PersistTypes
<1>4. CASE Fault /\ UNCHANGED <<hourly, saved>> BY <1>1, <1>4, FaultCounted
<1> QED BY <1>2, <1>3, <1>4 DEF EnsureHourly

\* What the queue holds are candidates.
LEMMA KeysType == ASSUME TypeInv PROVE Keys(entry.queue) \subseteq Candidate
<1>1. PICK K, q : K = Candidate /\ q = entry.queue OBVIOUS
<1>2. q \in Seq(K) BY <1>1 DEF TypeInv, TypeOK, Entry
<1>3. \A i \in DOMAIN q : q[i] \in K BY <1>2
<1> QED BY <1>1, <1>3 DEF Keys

LEMMA ClassTypes == ASSUME TypeInv, BuildClass PROVE TypeInv'
<1>1. class' \in Class /\ SavedTypes(saved') /\ faults' \in 0..MaxFaults
  <2>1. /\ ts \in Nat /\ class \in Class /\ hourly \in Hourly /\ SavedTypes(saved)
        /\ faults \in 0..MaxFaults
    BY DEF TypeInv, TypeOK
  <2>2. ASSUME NEW C \in Classifications,
               class' = [status |-> "ready", candle |-> TargetCandle(ts, 3), rows |-> C],
               Persist("class", class')
        PROVE  class' \in Class /\ SavedTypes(saved') /\ faults' \in 0..MaxFaults
    <3>1. TargetCandle(ts, 3) \in Int BY <2>1, Bounds
    <3>2. C \in SUBSET Symbol BY <2>1 DEF Classifications, Hourly
    <3>3. class' \in Class BY <2>2, <3>1, <3>2 DEF Class, Status
    <3> QED BY <2>2, <3>3, PersistTypes
  <2>3. ASSUME UNCHANGED faults \/ Fault, class' = [class EXCEPT !.status = "failed"], UNCHANGED saved
        PROVE  class' \in Class /\ SavedTypes(saved') /\ faults' \in 0..MaxFaults
    <3>1. class' \in Class BY <2>1, <2>3 DEF Class, Status
    <3> QED BY <2>1, <2>3, <3>1, FaultCounted
  <2> QED BY <2>2, <2>3 DEF BuildClass
<1>2. pc' = "entry" /\ UNCHANGED <<now, ts, nextRun, hourly, entry, risk, sizing, handoff, process, outside>>
  BY DEF BuildClass
<1> QED BY <1>1, <1>2 DEF TypeInv, TypeOK, Stage, handoff, process, outside

LEMMA EntryTypes == ASSUME TypeInv, BuildEntry PROVE TypeInv'
<1>1. IsEntryType(entry') /\ SavedTypes(saved') /\ faults' \in 0..MaxFaults
  <2>1. /\ ts \in Nat /\ class \in Class /\ IsEntryType(entry) /\ SavedTypes(saved)
        /\ faults \in 0..MaxFaults
    BY DEF TypeInv, TypeOK, IsEntryType
  <2>2. CASE UNCHANGED <<entry, saved, faults>> BY <2>1, <2>2
  <2>3. ASSUME NEW C \in SUBSET class.rows,
               entry' = [status |-> "ready", candle |-> TargetCandle(ts, 1),
                         queue |-> IF Waiting THEN entry.queue ELSE Confirmed(C)],
               Persist("entry", entry')
        PROVE  IsEntryType(entry') /\ SavedTypes(saved') /\ faults' \in 0..MaxFaults
    <3>1. TargetCandle(ts, 1) \in Int BY <2>1, Bounds
    <3>2. C \in SUBSET Symbol BY <2>1 DEF Class
    <3>3. entry.queue \in Seq(Candidate) /\ Len(entry.queue) <= QueueLimit BY <2>1 DEF IsEntryType, Entry
    <3>4. Confirmed(C) \in Seq(Candidate) /\ Len(Confirmed(C)) <= QueueLimit
      BY <2>1, <3>2, <3>3, ConfirmedType
    <3>5. IsEntryType(entry') BY <2>3, <3>1, <3>3, <3>4 DEF IsEntryType, Entry, Status
    <3> QED BY <2>3, <3>5, PersistTypes
  <2>4. ASSUME UNCHANGED faults \/ Fault, entry' = [entry EXCEPT !.status = "failed"], UNCHANGED saved
        PROVE  IsEntryType(entry') /\ SavedTypes(saved') /\ faults' \in 0..MaxFaults
    <3>1. IsEntryType(entry') BY <2>1, <2>4 DEF IsEntryType, Entry, Status
    <3> QED BY <2>1, <2>4, <3>1, FaultCounted
  <2> QED BY <2>2, <2>3, <2>4 DEF BuildEntry
<1>2. pc' = "risk" /\ UNCHANGED <<now, ts, nextRun, hourly, class, risk, sizing, handoff, process, outside>>
  BY DEF BuildEntry
<1> QED BY <1>1, <1>2 DEF TypeInv, TypeOK, Stage, IsEntryType, handoff, process, outside

LEMMA RiskTypes == ASSUME TypeInv, BuildRisk PROVE TypeInv'
<1>1. IsQueueType(risk') /\ SavedTypes(saved') /\ faults' \in 0..MaxFaults
  <2>1. IsQueueType(risk) /\ SavedTypes(saved) /\ faults \in 0..MaxFaults
    BY DEF TypeInv, TypeOK, IsQueueType
  <2>2. CASE UNCHANGED <<risk, saved, faults>> BY <2>1, <2>2
  <2>3. ASSUME NEW A \in RiskVerdicts,
               risk' = [status |-> "ready", fp |-> RiskFingerprint, approved |-> A],
               Persist("risk", risk')
        PROVE  IsQueueType(risk') /\ SavedTypes(saved') /\ faults' \in 0..MaxFaults
    <3>1. A \subseteq Candidate BY KeysType DEF RiskVerdicts
    <3>2. IsQueueType(risk') BY <2>3, <3>1 DEF IsQueueType, IsQueue, Status
    <3> QED BY <2>3, <3>2, PersistTypes
  <2>4. ASSUME risk' = [risk EXCEPT !.status = "failed"], UNCHANGED <<saved, faults>>
        PROVE  IsQueueType(risk') /\ SavedTypes(saved') /\ faults' \in 0..MaxFaults
    BY <2>1, <2>4 DEF IsQueueType, IsQueue, Status
  <2> QED BY <2>2, <2>3, <2>4 DEF BuildRisk
<1>2. pc' = "outbox" /\ UNCHANGED <<now, ts, nextRun, feed, sizing, handoff, process, outside>>
  BY DEF BuildRisk
<1> QED BY <1>1, <1>2 DEF TypeInv, TypeOK, Stage, IsQueueType, feed, handoff, process, outside

LEMMA SizingTypes == ASSUME TypeInv, BuildSizing PROVE TypeInv'
<1>1. IsQueueType(sizing') /\ SavedTypes(saved') /\ faults' \in 0..MaxFaults
  <2>1. /\ IsQueueType(risk) /\ IsQueueType(sizing) /\ SavedTypes(saved)
        /\ faults \in 0..MaxFaults
    BY DEF TypeInv, TypeOK, IsQueueType
  <2>2. CASE UNCHANGED <<sizing, saved, faults>> BY <2>1, <2>2
  <2>3. ASSUME NEW A \in SizingVerdicts,
               sizing' = [status |-> "ready", fp |-> SizingFingerprint, approved |-> A],
               Persist("sizing", sizing')
        PROVE  IsQueueType(sizing') /\ SavedTypes(saved') /\ faults' \in 0..MaxFaults
    <3>1. A \subseteq Candidate BY <2>1 DEF SizingVerdicts, IsQueueType
    <3>2. IsQueueType(sizing') BY <2>3, <3>1 DEF IsQueueType, IsQueue, Status
    <3> QED BY <2>3, <3>2, PersistTypes
  <2>4. ASSUME UNCHANGED faults \/ Fault, sizing' = [sizing EXCEPT !.status = "failed"], UNCHANGED saved
        PROVE  IsQueueType(sizing') /\ SavedTypes(saved') /\ faults' \in 0..MaxFaults
    <3>1. IsQueueType(sizing') BY <2>1, <2>4 DEF IsQueueType, IsQueue, Status
    <3> QED BY <2>1, <2>4, <3>1, FaultCounted
  <2> QED BY <2>2, <2>3, <2>4 DEF BuildSizing
<1>2. /\ pc' = "idle" /\ nextRun' = ts + SetupInterval
      /\ UNCHANGED <<now, ts, feed, risk, handoff, process, outside>>
  BY DEF BuildSizing
<1>3. nextRun' \in Nat
  <2>1. ts \in Nat /\ SetupInterval \in Nat BY PipelineAssumption DEF TypeInv, TypeOK
  <2> QED BY <1>2, <2>1
<1> QED BY <1>1, <1>2, <1>3 DEF TypeInv, TypeOK, Stage, IsQueueType, feed, handoff, process, outside

\* The outbox moves candidates between its sets and the table.
LEMMA OutboxTypes ==
  ASSUME TypeInv, BeginOutbox \/ (\E k \in todo : PostAnswered(k) \/ PostFailed(k)) \/ MirrorPostgres
  PROVE  TypeInv'
<1> USE DEF TypeInv, TypeOK, Stage, IsQueue, cycle, feed, handoff, process, outside
<1>1. CASE BeginOutbox BY <1>1 DEF BeginOutbox
<1>2. CASE \E k \in todo : PostAnswered(k) \/ PostFailed(k)
  <2>1. PICK k \in todo : PostAnswered(k) \/ PostFailed(k) BY <1>2
  <2>2. k \in Candidate OBVIOUS
  <2> QED BY <2>1, <2>2 DEF PostAnswered, PostFailed, Post
<1>3. CASE MirrorPostgres
  <2>1. PICK wait \in SUBSET sizing.approved, unwritten \in SUBSET sizing.approved :
          /\ rows' = rows \cup (sizing.approved \ unwritten)
          /\ outbox' = [fp |-> OutboxFingerprint, retrying |-> retry, waiting |-> wait # {}]
    BY <1>3 DEF MirrorPostgres
  <2>2. outbox'.retrying \in BOOLEAN /\ outbox'.waiting \in BOOLEAN BY <2>1
  <2>3. rows' \subseteq Candidate BY <2>1
  <2> QED BY <1>3, <2>2, <2>3 DEF MirrorPostgres
<1> QED BY <1>1, <1>2, <1>3

LEMMA RestartTypes == ASSUME TypeInv, Restart PROVE TypeInv'
<1>1. SavedTypes(saved) /\ faults \in 0..MaxFaults /\ now \in Nat /\ restarts \in 0..MaxRestarts
  BY DEF TypeInv, TypeOK
<1>2. /\ hourly' \in Hourly /\ class' \in Class /\ IsEntryType(entry')
      /\ IsQueueType(risk') /\ IsQueueType(sizing')
  BY <1>1, Bounds DEF Restart, SavedTypes
<1>3. store' \in BOOLEAN /\ faults' \in 0..MaxFaults BY <1>1, FaultCounted DEF Restart
<1>4. restarts' \in 0..MaxRestarts BY <1>1, PipelineAssumption DEF Restart
<1>5. /\ pc' \in Stage /\ ts' \in Nat /\ nextRun' \in Nat /\ retry' \in BOOLEAN
      /\ outbox'.retrying \in BOOLEAN /\ outbox'.waiting \in BOOLEAN
      /\ delivered' = {} /\ todo' = {} /\ UNCHANGED <<now, saved, outside>>
  BY <1>1 DEF Restart, NoOutbox, Stage
<1> QED BY <1>1, <1>2, <1>3, <1>4, <1>5 DEF TypeInv, TypeOK, IsEntryType, IsQueueType, outside

LEMMA TypeStep == TypeInv /\ [Next]_vars => TypeInv'
<1> SUFFICES ASSUME TypeInv, [Next]_vars PROVE TypeInv' OBVIOUS
<1>1. CASE BeginCycle \/ SkipClassifier \/ SkipOutbox \/ Tick
  BY <1>1 DEF BeginCycle, SkipClassifier, SkipOutbox, Tick, TypeInv, TypeOK, Stage, cycle, feed, handoff,
              process, outside
<1>2. CASE RunBatch \/ RefreshHourly
  <2>1. now \in Nat /\ ts \in Nat BY DEF TypeInv, TypeOK
  <2>2. hourly' \in Hourly /\ SavedTypes(saved') /\ faults' \in 0..MaxFaults
    BY <1>2, <2>1, HourlyTypes DEF RunBatch, RefreshHourly
  <2>3. /\ pc' \in Stage
        /\ UNCHANGED <<now, ts, nextRun, class, entry, risk, sizing, handoff, process, outside>>
    BY <1>2 DEF RunBatch, RefreshHourly, Stage
  <2> QED BY <2>2, <2>3 DEF TypeInv, TypeOK, handoff, process, outside
<1>3. CASE BuildClass BY <1>3, ClassTypes
<1>4. CASE BuildEntry BY <1>4, EntryTypes
<1>5. CASE BuildRisk BY <1>5, RiskTypes
<1>6. CASE BeginOutbox \/ (\E k \in todo : PostAnswered(k) \/ PostFailed(k)) \/ MirrorPostgres
  BY <1>6, OutboxTypes
<1>7. CASE BuildSizing BY <1>7, SizingTypes
<1>8. CASE Restart BY <1>8, RestartTypes
<1>9. CASE UNCHANGED vars
  BY <1>9 DEF vars, TypeInv, TypeOK, cycle, feed, handoff, process, outside
<1> QED BY <1>1, <1>2, <1>3, <1>4, <1>5, <1>6, <1>7, <1>8, <1>9 DEF Next, Step

\* Every snapshot keeps its shape, whatever fails, is saved or is read back, and
\* the queue of confirmed entries its limit (entry_confirmation's limit of rows).
THEOREM TypeCorrect == Spec => []TypeOK
<1>1. TypeInv => TypeOK BY DEF TypeInv
<1> QED BY <1>1, TypeInit, TypeStep, PTL DEF Spec
=============================================================================
