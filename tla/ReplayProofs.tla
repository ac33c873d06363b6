---------------------------- MODULE ReplayProofs ----------------------------
(***************************************************************************)
(* Proofs about Replay, for every number of candles, processes, requests,  *)
(* pages, synchronisations, resets and revisions: the candles a session    *)
(* delivers, the pipelines that run at a time, the result of a session,    *)
(* which does not show the steps it was taken in, the types, with a        *)
(* balance and an equity that are never negative, and the report, which    *)
(* agrees with the account and its marks.                                  *)
(***************************************************************************)
EXTENDS Replay, TLAPS, FiniteSetTheorems, WellFoundedInduction

\* The row keeps its three columns whatever is written into one of them.
IsRow == DOMAIN session = {"status", "cursor", "pending"}

CursorInRange == session.cursor \in 0..N

CandlesInv == IsRow /\ CursorInRange /\ CandlesInOrder

-----------------------------------------------------------------------------
\* The minimum of two numbers is one of them and at most the other, and so for
\* the maximum.
LEMMA MinMaxOfTwo ==
  ASSUME NEW a \in Int, NEW b \in Int
  PROVE  /\ Min({a, b}) \in {a, b} /\ Min({a, b}) <= a /\ Min({a, b}) <= b
         /\ Max({a, b}) \in {a, b} /\ Max({a, b}) >= a /\ Max({a, b}) >= b
<1>1. \E x \in {a, b} : \A y \in {a, b} : x <= y
  <2>1. CASE a <= b BY <2>1
  <2>2. CASE b <= a BY <2>2
  <2> QED BY <2>1, <2>2
<1>2. \E x \in {a, b} : \A y \in {a, b} : x >= y
  <2>1. CASE a >= b BY <2>1
  <2>2. CASE b >= a BY <2>2
  <2> QED BY <2>1, <2>2
<1> QED BY <1>1, <1>2 DEF Min, Max

LEMMA MinOfTwo ==
  ASSUME NEW a \in Nat, NEW b \in Nat
  PROVE  Min({a, b}) \in {a, b} /\ Min({a, b}) <= a /\ Min({a, b}) <= b
<1>1. a \in Int /\ b \in Int OBVIOUS
<1> QED BY <1>1, MinMaxOfTwo

\* The candles up to one cursor, followed by those up to a later one.
LEMMA CandlesAppended ==
  ASSUME NEW c \in Nat, NEW h \in Nat, c < h
  PROVE  [k \in 1..c |-> k] \o [k \in 1..(h - (c + 1) + 1) |-> (c + 1) + k - 1]
            = [k \in 1..h |-> k]
<1> DEFINE s == [k \in 1..c |-> k]
           t == [k \in 1..(h - (c + 1) + 1) |-> (c + 1) + k - 1]
<1>1. s \in Seq(Nat) /\ Len(s) = c OBVIOUS
<1>2. h - (c + 1) + 1 = h - c /\ h - c \in Nat OBVIOUS
<1>3. t \in Seq(Nat) /\ Len(t) = h - c BY <1>2
<1>4. Len(s \o t) = h /\ DOMAIN (s \o t) = 1..h BY <1>1, <1>3
<1>5. ASSUME NEW k \in 1..h PROVE (s \o t)[k] = k
  <2>1. CASE k <= c
    <3>1. (s \o t)[k] = s[k] BY <2>1, <1>1, <1>3
    <3> QED BY <3>1, <2>1
  <2>2. CASE k > c
    <3>1. (s \o t)[k] = t[k - c] BY <2>2, <1>1, <1>3
    <3>2. k - c \in 1..(h - (c + 1) + 1) BY <2>2, <1>2
    <3>3. t[k - c] = (c + 1) + (k - c) - 1 BY <3>2
    <3> QED BY <3>1, <3>3
  <2> QED BY <2>1, <2>2
<1>6. s \o t \in Seq(Nat) BY <1>1, <1>3
<1> DEFINE u == s \o t
<1>7. u \in Seq(Nat) /\ Len(u) = h /\ \A k \in 1..h : u[k] = k BY <1>4, <1>5, <1>6
<1> HIDE DEF u
<1>8. u = [k \in 1..h |-> u[k]] BY <1>7
<1>9. u = [k \in 1..h |-> k] BY <1>7, <1>8
<1> QED BY <1>9 DEF u

LEMMA CandlesInit == Init => CandlesInv
<1> SUFFICES ASSUME Init PROVE CandlesInv OBVIOUS
<1>1. session.cursor = 0 /\ IsRow BY DEF Init, NoSession, IsRow
<1>2. CursorInRange BY <1>1, ExecutionAssumption DEF CursorInRange
<1>3. CandlesInOrder BY <1>1 DEF Init, CandlesInOrder
<1> QED BY <1>1, <1>2, <1>3 DEF CandlesInv

\* A step that neither moves the cursor nor delivers a candle.
LEMMA CursorKept ==
  ASSUME CandlesInv, advanced' = advanced, session'.cursor = session.cursor,
         DOMAIN session' = DOMAIN session
  PROVE  CandlesInv'
BY DEF CandlesInv, IsRow, CursorInRange, CandlesInOrder

LEMMA CandlesStep == CandlesInv /\ [Next]_vars => CandlesInv'
<1> SUFFICES ASSUME CandlesInv, [Next]_vars PROVE CandlesInv' OBVIOUS
<1> USE DEF CandlesInv, IsRow
<1>1. CASE Revise BY <1>1, CursorKept DEF Revise, rows
<1>2. ASSUME NEW p \in Proc, NEW starting \in BOOLEAN, Sync(p, starting) PROVE CandlesInv'
  BY <1>2, CursorKept DEF Sync, rows
<1>3. ASSUME NEW p \in Proc, StartFromCache(p) PROVE CandlesInv'
  BY <1>3, CursorKept DEF StartFromCache, rows
<1>4. ASSUME NEW p \in Proc, FetchPage(p) PROVE CandlesInv'
  BY <1>4, CursorKept DEF FetchPage, rows
<1>5. ASSUME NEW p \in Proc, SyncFails(p) PROVE CandlesInv'
  BY <1>5, CursorKept DEF SyncFails, rows
<1>6. ASSUME NEW p \in Proc, CreateSession(p) PROVE CandlesInv'
  <2>1. CASE session = NoSession
    <3>1. session' = [NoSession EXCEPT !.status = "READY"] BY <1>6, <2>1 DEF CreateSession
    <3>2. session'.cursor = session.cursor /\ DOMAIN session' = DOMAIN session
      BY <3>1, <2>1 DEF NoSession
    <3> QED BY <1>6, <3>2, CursorKept DEF CreateSession
  <2>2. CASE session # NoSession BY <1>6, <2>2, CursorKept DEF CreateSession
  <2> QED BY <2>1, <2>2
<1>7. ASSUME NEW p \in Proc, NEW r \in Request, AdvanceSession(p, r) PROVE CandlesInv'
  <2>1. PICK steps \in 1..MaxSteps :
          LET lo == session.cursor + 1
              hi == Min({session.cursor + steps, N})
              status == IF hi = N THEN "COMPLETED" ELSE "PAUSED"
          IN  /\ session.cursor < N
              /\ session' = [session EXCEPT !.status = status, !.cursor = hi]
              /\ advanced' = advanced \o [k \in 1..(hi - lo + 1) |-> lo + k - 1]
    BY <1>7 DEF AdvanceSession
  <2> DEFINE hi == Min({session.cursor + steps, N})
  <2>2. session.cursor \in Nat /\ steps \in Nat \ {0} /\ N \in Nat
    BY ReplayAssumption, ExecutionAssumption DEF CursorInRange
  <2>3. hi \in {session.cursor + steps, N} /\ hi <= N BY <2>2, MinOfTwo
  <2>4. hi \in Nat /\ session.cursor < hi
    <3>1. session.cursor < N BY <2>1
    <3> HIDE DEF hi
    <3> QED BY <3>1, <2>2, <2>3
  <2>5. session'.cursor = hi /\ DOMAIN session' = DOMAIN session BY <2>1
  <2>6. advanced' = [k \in 1..hi |-> k]
    <3> HIDE DEF hi
    <3>1. advanced' = [k \in 1..session.cursor |-> k]
                        \o [k \in 1..(hi - (session.cursor + 1) + 1) |-> (session.cursor + 1) + k - 1]
      BY <2>1 DEF CandlesInOrder, hi
    <3> QED BY <3>1, <2>2, <2>4, CandlesAppended
  <2> HIDE DEF hi
  <2> QED BY <2>2, <2>3, <2>4, <2>5, <2>6 DEF CursorInRange, CandlesInOrder
<1>8. ASSUME NEW p \in Proc, NEW r \in Request, RetryStep(p, r) PROVE CandlesInv'
  BY <1>8, CursorKept DEF RetryStep, rows
<1>9. ASSUME NEW p \in Proc, EnrichStrategy(p) PROVE CandlesInv'
  BY <1>9, CursorKept DEF EnrichStrategy
<1>10. ASSUME NEW p \in Proc, EnrichExecution(p) PROVE CandlesInv'
  BY <1>10, CursorKept DEF EnrichExecution
<1>11. ASSUME NEW p \in Proc, Finalize(p) PROVE CandlesInv'
  BY <1>11, CursorKept DEF Finalize
<1>12. ASSUME NEW p \in Proc, FailMarked(p) PROVE CandlesInv'
  BY <1>12, CursorKept DEF FailMarked
<1>13. ASSUME NEW p \in Proc, FailUnmarked(p) PROVE CandlesInv'
  BY <1>13, CursorKept DEF FailUnmarked, rows
<1>14. ASSUME NEW p \in Proc, ResetSession(p) PROVE CandlesInv'
  <2>1. session'.cursor = 0 /\ DOMAIN session' = DOMAIN session /\ advanced' = <<>>
    BY <1>14 DEF ResetSession
  <2>2. CursorInRange' BY <2>1, ExecutionAssumption DEF CursorInRange
  <2>3. [k \in 1..0 |-> k] = <<>> OBVIOUS
  <2> QED BY <2>1, <2>2, <2>3 DEF CandlesInOrder
<1>15. CASE UNCHANGED vars BY <1>15, CursorKept DEF vars, rows
<1> QED BY <1>1, <1>2, <1>3, <1>4, <1>5, <1>6, <1>7, <1>8, <1>9, <1>10, <1>11, <1>12, <1>13,
           <1>14, <1>15 DEF Next

\* Since the last reset a session delivered the candles up to its cursor in order
\* and each once (replay_step_repository.advance_session).
THEOREM CandlesDelivered == Spec => []CandlesInOrder
<1>1. CandlesInv => CandlesInOrder BY DEF CandlesInv
<1> QED BY CandlesInit, CandlesStep, <1>1, PTL DEF Spec

-----------------------------------------------------------------------------
\* The advisory lock is held by the one process whose pipeline runs.
LockHeld == DOMAIN proc = Proc /\ \A p \in Proc : proc[p] # None <=> lock = p

LEMMA LockInit == Init => LockHeld
BY ReplayAssumption DEF Init, LockHeld

LEMMA LockStep == LockHeld /\ [Next]_vars => LockHeld'
<1> SUFFICES ASSUME LockHeld, [Next]_vars PROVE LockHeld' OBVIOUS
<1> USE DEF LockHeld
<1>1. ASSUME proc' = proc, lock' = lock PROVE LockHeld' BY <1>1
<1>2. ASSUME NEW p \in Proc, NEW r \in Request, Acquire(p, r) PROVE LockHeld'
  BY <1>2, ReplayAssumption DEF Acquire
<1>3. ASSUME NEW p \in Proc, proc[p] # None, Release(p) PROVE LockHeld'
  BY <1>3, ReplayAssumption DEF Release
<1>4. CASE Revise BY <1>4, <1>1 DEF Revise
<1>5. ASSUME NEW p \in Proc,
             \/ \E starting \in BOOLEAN : Sync(p, starting)
             \/ StartFromCache(p) \/ FetchPage(p) \/ SyncFails(p) \/ CreateSession(p)
      PROVE  LockHeld'
  BY <1>5, <1>1 DEF Sync, StartFromCache, FetchPage, SyncFails, CreateSession
<1>6. ASSUME NEW p \in Proc, NEW r \in Request, AdvanceSession(p, r) \/ RetryStep(p, r)
      PROVE  LockHeld'
  BY <1>6, <1>2 DEF AdvanceSession, RetryStep
<1>7. ASSUME NEW p \in Proc, EnrichStrategy(p) \/ EnrichExecution(p) \/ ResetSession(p)
      PROVE  LockHeld'
  BY <1>7, <1>1 DEF EnrichStrategy, EnrichExecution, ResetSession
<1>8. ASSUME NEW p \in Proc, Finalize(p) \/ FailMarked(p) \/ FailUnmarked(p) PROVE LockHeld'
  BY <1>8, <1>3 DEF Finalize, FailMarked, FailUnmarked
<1>9. CASE UNCHANGED vars BY <1>9, <1>1 DEF vars
<1> QED BY <1>4, <1>5, <1>6, <1>7, <1>8, <1>9 DEF Next

\* No two processes run the pipeline of a step at a time: what one read of the
\* account no other changes by a step of its own (replay_engine.step).
OnePipeline == \A p, q \in Proc : proc[p] # None /\ proc[q] # None => p = q

\* The statement above, which the results of replay_engine.step rest on, for
\* any number of processes, requests, crashes and retries.
THEOREM PipelinesExclusive == Spec => []OnePipeline
<1>1. LockHeld => OnePipeline BY DEF LockHeld, OnePipeline
<1> QED BY LockInit, LockStep, <1>1, PTL DEF Spec

-----------------------------------------------------------------------------
(* A run over candles is a recursive function: that it exists, that it is  *)
(* the only one and what it holds follow from the least candle at which    *)
(* they would fail.                                                        *)

\* A set of numbers that is not empty has a least one.
LEMMA LeastNat ==
  ASSUME NEW T \in SUBSET Nat, T # {}
  PROVE  \E n \in T : \A m \in T : n <= m
<1> DEFINE R == OpToRel(<, Nat)
<1>1. IsWellFoundedOn(R, Nat) BY NatLessThanWellFounded
<1>3. \A i, j \in Nat : i < j => <<i, j>> \in R BY DEF OpToRel
<1> HIDE DEF R
<1>2. \E x \in T : \A y \in T : ~(<<y, x>> \in R) BY <1>1, WFMin
<1>4. PICK n \in T : \A y \in T : ~(<<y, n>> \in R) BY <1>2
<1>5. \A m \in T : n <= m
  <2> SUFFICES ASSUME NEW m \in T, m < n PROVE FALSE OBVIOUS
  <2>1. <<m, n>> \in R BY <1>3
  <2> QED BY <2>1, <1>4
<1> QED BY <1>5

\* g holds the account after each of the candles lo..hi, from the account x.
Runs(g, x, candles, lo, hi, done) ==
  g = [i \in (lo - 1)..hi |->
         IF i = lo - 1 THEN x ELSE ExecuteCandle(g[i - 1], i, candles[i], done /\ i = hi)]

LEMMA RunExtended ==
  ASSUME NEW x, NEW candles, NEW lo \in Nat \ {0}, NEW n \in Nat, lo <= n, NEW done \in BOOLEAN, NEW g,
         Runs(g, x, candles, lo, n - 1, FALSE)
  PROVE  Runs([i \in (lo - 1)..n |-> IF i = n THEN ExecuteCandle(g[n - 1], n, candles[n], done)
                                     ELSE g[i]],
              x, candles, lo, n, done)
<1> DEFINE h == [i \in (lo - 1)..n |-> IF i = n THEN ExecuteCandle(g[n - 1], n, candles[n], done)
                                       ELSE g[i]]
           e(i) == IF i = lo - 1 THEN x ELSE ExecuteCandle(h[i - 1], i, candles[i], done /\ i = n)
<1>1. ASSUME NEW i \in (lo - 1)..n PROVE h[i] = e(i)
  <2>1. CASE i = n
    <3>1. i # lo - 1 /\ n - 1 \in (lo - 1)..n /\ n - 1 # n BY <2>1
    <3>2. h[n - 1] = g[n - 1] BY <3>1
    <3>3. (done /\ i = n) = done BY <2>1
    <3>4. h[i] = ExecuteCandle(g[n - 1], n, candles[n], done) BY <2>1
    <3> QED BY <2>1, <3>1, <3>2, <3>3, <3>4
  <2>2. CASE i # n
    <3>1. i \in (lo - 1)..(n - 1) BY <2>2
    <3>2. h[i] = g[i] BY <2>2
    <3>3. g[i] = IF i = lo - 1 THEN x ELSE ExecuteCandle(g[i - 1], i, candles[i], FALSE /\ i = n - 1)
      BY <3>1 DEF Runs
    <3>4. CASE i = lo - 1 BY <3>2, <3>3, <3>4
    <3>5. CASE i # lo - 1
      <4>1. i - 1 \in (lo - 1)..n /\ i - 1 # n BY <3>5, <3>1
      <4>2. h[i - 1] = g[i - 1] BY <4>1
      <4>3. (FALSE /\ i = n - 1) = FALSE /\ (done /\ i = n) = FALSE BY <2>2
      <4> QED BY <3>2, <3>3, <3>5, <4>2, <4>3
    <3> QED BY <3>4, <3>5
  <2> QED BY <2>1, <2>2
<1> HIDE DEF e
<1>2. h = [i \in (lo - 1)..n |-> e(i)] BY <1>1
<1> QED BY <1>2 DEF Runs, e

LEMMA RunValue ==
  ASSUME NEW x, NEW candles, NEW lo, NEW hi, NEW done
  PROVE ExecuteCandles(x, candles, lo, hi, done) = (CHOOSE g : Runs(g, x, candles, lo, hi, done))[hi]
BY DEF ExecuteCandles, Runs

LEMMA RunExists ==
  ASSUME NEW x, NEW candles, NEW lo \in Nat \ {0}, NEW hi \in Nat, lo - 1 <= hi,
         NEW done \in BOOLEAN
  PROVE  \E g : Runs(g, x, candles, lo, hi, done)
<1>1. ASSUME NEW d \in BOOLEAN PROVE \E g : Runs(g, x, candles, lo, lo - 1, d)
  <2>1. Runs([i \in (lo - 1)..(lo - 1) |-> x], x, candles, lo, lo - 1, d)
    <3> DEFINE h == [i \in (lo - 1)..(lo - 1) |-> x]
               e(i) == IF i = lo - 1 THEN x ELSE ExecuteCandle(h[i - 1], i, candles[i], d /\ i = lo - 1)
    <3>1. \A i \in (lo - 1)..(lo - 1) : h[i] = e(i) OBVIOUS
    <3> HIDE DEF e
    <3>2. h = [i \in (lo - 1)..(lo - 1) |-> e(i)] BY <3>1
    <3> QED BY <3>2 DEF Runs, e
  <2> QED BY <2>1
<1> DEFINE T == {n \in Nat : lo - 1 <= n /\ ~\E g : Runs(g, x, candles, lo, n, FALSE)}
<1>2. T = {}
  <2> SUFFICES ASSUME T # {} PROVE FALSE OBVIOUS
  <2>1. PICK n \in T : \A m \in T : n <= m BY LeastNat
  <2>0. n \in Nat BY <2>1
  <2>2. n # lo - 1 BY <1>1
  <2>3. n - 1 \in Nat /\ lo - 1 <= n - 1 /\ lo <= n BY <2>0, <2>2
  <2>4. n - 1 \notin T
    <3> HIDE DEF T
    <3> QED BY <2>0, <2>1
  <2>5. PICK g : Runs(g, x, candles, lo, n - 1, FALSE) BY <2>3, <2>4
  <2>6. \E h : Runs(h, x, candles, lo, n, FALSE) BY <2>3, <2>5, RunExtended
  <2> QED BY <2>6
<1>3. CASE hi = lo - 1 BY <1>1, <1>3
<1>4. CASE hi # lo - 1
  <2>1. hi - 1 \in Nat /\ lo - 1 <= hi - 1 /\ lo <= hi BY <1>4
  <2>2. hi - 1 \notin T BY <1>2
  <2>3. PICK g : Runs(g, x, candles, lo, hi - 1, FALSE) BY <2>1, <2>2
  <2> QED BY <2>1, <2>3, RunExtended
<1> QED BY <1>3, <1>4

LEMMA RunUnique ==
  ASSUME NEW x, NEW candles, NEW lo \in Nat \ {0}, NEW hi \in Nat, NEW done \in BOOLEAN,
         NEW g, Runs(g, x, candles, lo, hi, done), NEW h, Runs(h, x, candles, lo, hi, done)
  PROVE  \A i \in (lo - 1)..hi : g[i] = h[i]
<1> DEFINE T == {i \in (lo - 1)..hi : g[i] # h[i]}
<1> SUFFICES ASSUME T # {} PROVE FALSE OBVIOUS
<1>1. T \in SUBSET Nat OBVIOUS
<1>2. PICK n \in T : \A m \in T : n <= m BY <1>1, LeastNat
<1>3. /\ g[n] = IF n = lo - 1 THEN x ELSE ExecuteCandle(g[n - 1], n, candles[n], done /\ n = hi)
      /\ h[n] = IF n = lo - 1 THEN x ELSE ExecuteCandle(h[n - 1], n, candles[n], done /\ n = hi)
  BY DEF Runs
<1>4. n # lo - 1 BY <1>3
<1>5. n - 1 \in (lo - 1)..hi /\ n - 1 \notin T BY <1>2, <1>4
<1> QED BY <1>3, <1>5

\* What a run holds in the end is what the execution of its candles gives.
LEMMA RunGives ==
  ASSUME NEW x, NEW candles, NEW lo \in Nat \ {0}, NEW hi \in Nat, lo - 1 <= hi,
         NEW done \in BOOLEAN, NEW g, Runs(g, x, candles, lo, hi, done)
  PROVE  ExecuteCandles(x, candles, lo, hi, done) = g[hi]
<1> DEFINE h == CHOOSE f : Runs(f, x, candles, lo, hi, done)
<1>1. Runs(h, x, candles, lo, hi, done) OBVIOUS
<1>2. ExecuteCandles(x, candles, lo, hi, done) = h[hi] BY RunValue
<1> HIDE DEF h
<1> QED BY <1>1, <1>2, RunUnique

\* No candle is executed by an empty step.
LEMMA NothingExecuted ==
  ASSUME NEW x, NEW candles, NEW done \in BOOLEAN
  PROVE  ExecuteCandles(x, candles, 1, 0, done) = x
<1>1. PICK g : Runs(g, x, candles, 1, 0, done) BY RunExists
<1>2. g[0] = x BY <1>1 DEF Runs
<1> QED BY <1>1, <1>2, RunGives

\* Two steps over adjacent candles give what one step over all of them gives.
LEMMA StepsCompose ==
  ASSUME NEW x, NEW candles, NEW c \in Nat, NEW h \in Nat, c < h, NEW done \in BOOLEAN
  PROVE  ExecuteCandles(ExecuteCandles(x, candles, 1, c, FALSE), candles, c + 1, h, done)
           = ExecuteCandles(x, candles, 1, h, done)
<1>1. PICK g : Runs(g, x, candles, 1, h, done) BY RunExists
<1>2. ExecuteCandles(x, candles, 1, h, done) = g[h] BY <1>1, RunGives
<1> DEFINE e(i) == IF i = 0 THEN x ELSE ExecuteCandle(g[i - 1], i, candles[i], done /\ i = h)
<1>3. g = [i \in 0..h |-> e(i)] BY <1>1 DEF Runs
<1>4. \A i \in 0..h : g[i] = e(i) BY <1>3
<1> DEFINE f == [i \in 0..c |-> g[i]]
<1>5. Runs(f, x, candles, 1, c, FALSE)
  <2> DEFINE d(i) == IF i = 1 - 1 THEN x ELSE ExecuteCandle(f[i - 1], i, candles[i], FALSE /\ i = c)
  <2>1. ASSUME NEW i \in (1 - 1)..c PROVE f[i] = d(i)
    <3>1. i \in 0..h /\ i # h /\ f[i] = g[i] OBVIOUS
    <3>2. (done /\ i = h) = FALSE /\ (FALSE /\ i = c) = FALSE BY <3>1
    <3>3. CASE i = 0 BY <3>1, <3>3, <1>4
    <3>4. CASE i # 0
      <4>1. i - 1 \in 0..c /\ f[i - 1] = g[i - 1] BY <3>4
      <4>2. g[i] = ExecuteCandle(g[i - 1], i, candles[i], done /\ i = h) BY <3>1, <3>4, <1>4
      <4>3. d(i) = ExecuteCandle(f[i - 1], i, candles[i], FALSE /\ i = c) BY <3>4
      <4> HIDE DEF d, f
      <4> QED BY <3>1, <3>2, <4>1, <4>2, <4>3
    <3> QED BY <3>3, <3>4
  <2> HIDE DEF d
  <2>2. f = [i \in (1 - 1)..c |-> d(i)] BY <2>1
  <2> QED BY <2>2 DEF Runs, d
<1>6. ExecuteCandles(x, candles, 1, c, FALSE) = g[c]
  <2>1. f[c] = g[c] OBVIOUS
  <2> HIDE DEF f
  <2>2. ExecuteCandles(x, candles, 1, c, FALSE) = f[c]
    <3>1. 1 \in Nat \ {0} /\ 1 - 1 <= c /\ FALSE \in BOOLEAN OBVIOUS
    <3>2. \A d \in BOOLEAN : Runs(f, x, candles, 1, c, d) => ExecuteCandles(x, candles, 1, c, d) = f[c]
      BY <3>1, RunGives
    <3> QED BY <1>5, <3>1, <3>2, Zenon
  <2> QED BY <2>1, <2>2
<1> DEFINE k == [i \in c..h |-> g[i]]
<1>7. Runs(k, g[c], candles, c + 1, h, done)
  <2> DEFINE d(i) == IF i = (c + 1) - 1 THEN g[c] ELSE ExecuteCandle(k[i - 1], i, candles[i], done /\ i = h)
  <2>1. ASSUME NEW i \in ((c + 1) - 1)..h PROVE k[i] = d(i)
    <3>1. i \in 0..h /\ k[i] = g[i] OBVIOUS
    <3>3. CASE i = c BY <3>1, <3>3
    <3>4. CASE i # c
      <4>1. i - 1 \in c..h /\ k[i - 1] = g[i - 1] /\ i # 0 /\ i # (c + 1) - 1 BY <3>4
      <4>2. g[i] = ExecuteCandle(g[i - 1], i, candles[i], done /\ i = h) BY <3>1, <4>1, <1>4
      <4> QED BY <3>1, <4>1, <4>2
    <3> QED BY <3>3, <3>4
  <2> HIDE DEF d
  <2>2. k = [i \in ((c + 1) - 1)..h |-> d(i)] BY <2>1
  <2> QED BY <2>2 DEF Runs, d
<1>8. k[h] = g[h] OBVIOUS
<1> HIDE DEF k, f
<1>9. ExecuteCandles(g[c], candles, c + 1, h, done) = k[h] BY <1>7, RunGives
<1> QED BY <1>2, <1>6, <1>8, <1>9

-----------------------------------------------------------------------------
(* The result of a session does not show its steps.                        *)

\* The account after one run over the frozen candles up to a cursor.
Result(cursor, status) ==
  IF status = "COMPLETED" THEN ExecuteCandles(FreshAccount, snapshot, 1, cursor, TRUE)
  ELSE ExecuteCandles(FreshAccount, snapshot, 1, cursor, FALSE)

Unfinished(r) == requests[r].stage \in Stage \ {"final"}

FinalStatus(r) == IF requests[r].hi = N THEN "COMPLETED" ELSE "PAUSED"

\* The account stands before the candles of an unfinished step, or after them.
StepPending(r) ==
  /\ requests[r].lo \in 1..requests[r].hi /\ requests[r].hi \in 1..N
  /\ session.cursor = requests[r].hi
  /\ session.pending \in {None, FinalStatus(r)}
  /\ requests[r].stage # "executed" => account = Result(requests[r].lo - 1, "PAUSED")
  /\ requests[r].stage = "executed" =>
       /\ requests[r].status = FinalStatus(r)
       /\ account = Result(requests[r].hi, FinalStatus(r))

RowShapes ==
  /\ IsRow
  /\ DOMAIN requests = Request
  /\ \A r \in Request :
       \/ requests[r] = NoRequest
       \/ DOMAIN requests[r] = {"stage", "lo", "hi", "status"} /\ requests[r].stage \in Stage
  /\ \A p \in Proc : proc[p] \in Request \cup {None}
  /\ lock \in Proc \cup {None}

\* Unless a step was left behind, one step at most is unfinished, the one a
\* process runs or the one the recovery marker stands for, and the account is
\* the result of the candles up to the cursor otherwise.
StepsAccounted ==
  /\ \A r \in Request : Unfinished(r) => StepPending(r)
  /\ \A r, s \in Request : Unfinished(r) /\ Unfinished(s) => r = s
  /\ \A p \in Proc : proc[p] # None => Unfinished(proc[p])
  /\ session.status = "absent" => session.cursor = 0 /\ \A r \in Request : ~Unfinished(r)
  /\ lock = None /\ session.status # "RUNNING" =>
       /\ \A r \in Request : ~Unfinished(r)
       /\ session.pending = None
       /\ account = Result(session.cursor, session.status)

AccountInv == RowShapes /\ LockHeld /\ CursorInRange /\ (~lapsed => StepsAccounted)

LEMMA EmptyResult == ASSUME NEW s PROVE Result(0, s) = FreshAccount
<1>1. \A d \in BOOLEAN : ExecuteCandles(FreshAccount, snapshot, 1, 0, d) = FreshAccount
  BY NothingExecuted
<1> QED BY <1>1 DEF Result

\* The simulated execution of an unfinished step extends the result to its end.
LEMMA ExecutedIsResult ==
  ASSUME NEW r \in Request, StepPending(r), requests[r].stage # "executed"
  PROVE  TargetStatus(r) = FinalStatus(r) /\ Executed(r) = Result(requests[r].hi, FinalStatus(r))
<1> DEFINE lo == requests[r].lo
           hi == requests[r].hi
<1>1. TargetStatus(r) = FinalStatus(r) BY DEF TargetStatus, StepPending, FinalStatus
<1>2. lo - 1 \in Nat /\ hi \in Nat /\ lo - 1 < hi /\ (lo - 1) + 1 = lo
  BY ExecutionAssumption DEF StepPending
<1>3. \A d \in BOOLEAN :
        ExecuteCandles(ExecuteCandles(FreshAccount, snapshot, 1, lo - 1, FALSE),
                       snapshot, (lo - 1) + 1, hi, d)
          = ExecuteCandles(FreshAccount, snapshot, 1, hi, d)
  <2> HIDE DEF lo, hi
  <2> QED BY <1>2, StepsCompose
<1>4. account = ExecuteCandles(FreshAccount, snapshot, 1, lo - 1, FALSE)
  BY DEF StepPending, Result
<1>5. \A d \in BOOLEAN :
        ExecuteCandles(account, snapshot, lo, hi, d) = ExecuteCandles(FreshAccount, snapshot, 1, hi, d)
  BY <1>2, <1>3, <1>4
<1>6. CASE hi = N
  <2>1. (TargetStatus(r) = "COMPLETED") = TRUE BY <1>1, <1>6 DEF FinalStatus
  <2>2. Executed(r) = ExecuteCandles(account, snapshot, lo, hi, TRUE) BY <2>1 DEF Executed
  <2>3. Result(hi, FinalStatus(r)) = ExecuteCandles(FreshAccount, snapshot, 1, hi, TRUE)
    BY <1>6 DEF Result, FinalStatus
  <2> QED BY <1>1, <1>5, <2>2, <2>3
<1>7. CASE hi # N
  <2>1. (TargetStatus(r) = "COMPLETED") = FALSE BY <1>1, <1>7 DEF FinalStatus
  <2>2. Executed(r) = ExecuteCandles(account, snapshot, lo, hi, FALSE) BY <2>1 DEF Executed
  <2>3. Result(hi, FinalStatus(r)) = ExecuteCandles(FreshAccount, snapshot, 1, hi, FALSE)
    BY <1>7 DEF Result, FinalStatus
  <2> QED BY <1>1, <1>5, <2>2, <2>3
<1> QED BY <1>6, <1>7

LEMMA AccountInit == Init => AccountInv
<1> SUFFICES ASSUME Init PROVE AccountInv OBVIOUS
<1>1. RowShapes BY ReplayAssumption DEF Init, RowShapes, IsRow, NoSession
<1>2. LockHeld /\ CursorInRange
  BY CandlesInit, LockInit DEF CandlesInv
<1>3. \A r \in Request : ~Unfinished(r) BY DEF Init, Unfinished, NoRequest, Stage
<1>4. session.cursor = 0 /\ session.pending = None /\ account = FreshAccount
      /\ \A p \in Proc : proc[p] = None
  BY DEF Init, NoSession
<1>5. StepsAccounted BY <1>3, <1>4, EmptyResult DEF StepsAccounted
<1> QED BY <1>1, <1>2, <1>5 DEF AccountInv

\* The collector's steps leave the session alone.
LEMMA AccountKept ==
  ASSUME AccountInv, UNCHANGED <<session, account, requests, lapsed, snapshot, lock, proc>>
  PROVE  AccountInv'
BY DEF AccountInv, RowShapes, IsRow, LockHeld, CursorInRange, StepsAccounted, Unfinished,
       StepPending, FinalStatus, Result

LEMMA AccountCreate ==
  ASSUME AccountInv, NEW p \in Proc, CreateSession(p) PROVE AccountInv'
<1>1. CASE session = NoSession
  <2>1. session' = [NoSession EXCEPT !.status = "READY"] BY <1>1 DEF CreateSession
  <2>2. UNCHANGED <<account, requests, lapsed, lock, proc>> BY DEF CreateSession
  <2>3. /\ session'.status = "READY" /\ session'.cursor = 0 /\ session'.pending = None
        /\ DOMAIN session' = {"status", "cursor", "pending"}
        /\ session.status = "absent" /\ session.pending = None /\ session.cursor = 0
    BY <1>1, <2>1 DEF NoSession
  <2>4. ASSUME ~lapsed PROVE StepsAccounted'
    <3>1. \A r \in Request : ~Unfinished(r) BY <2>3, <2>4 DEF AccountInv, StepsAccounted
    <3>2. \A q \in Proc : proc[q] = None
      BY <2>4, <3>1 DEF AccountInv, StepsAccounted, RowShapes
    <3>4. account = FreshAccount
      <4>1. lock = None BY <3>2 DEF AccountInv, RowShapes, LockHeld
      <4> QED BY <2>3, <2>4, <4>1, EmptyResult DEF AccountInv, StepsAccounted
    <3>5. \A r \in Request : ~Unfinished(r)' BY <3>1, <2>2 DEF Unfinished
    <3>6. account' = Result(0, "READY")'
      <4>0. \A d \in BOOLEAN : ExecuteCandles(FreshAccount, snapshot', 1, 0, d) = FreshAccount
        BY NothingExecuted
      <4>1. Result(0, "READY")' = FreshAccount BY <4>0 DEF Result
      <4> QED BY <3>4, <2>2, <4>1
    <3> QED BY <2>2, <2>3, <3>2, <3>5, <3>6 DEF StepsAccounted
  <2> QED BY <2>2, <2>3, <2>4, ExecutionAssumption
          DEF AccountInv, RowShapes, IsRow, LockHeld, CursorInRange
<1>2. CASE session # NoSession BY <1>2, AccountKept DEF CreateSession
<1> QED BY <1>1, <1>2

\* Requests keep their shape when their stage or their status is written.
LEMMA AccountAdvance ==
  ASSUME AccountInv, NEW p \in Proc, NEW r \in Request, AdvanceSession(p, r) PROVE AccountInv'
<1>1. PICK steps \in 1..MaxSteps, expected \in 0..N :
        LET lo == session.cursor + 1
            hi == Min({session.cursor + steps, N})
            status == IF hi = N THEN "COMPLETED" ELSE "PAUSED"
        IN  /\ Steppable(expected) /\ session.cursor < N
            /\ session' = [session EXCEPT !.status = status, !.cursor = hi]
            /\ requests' = [requests EXCEPT ![r] =
                              [stage |-> "advanced", lo |-> lo, hi |-> hi, status |-> status]]
  BY DEF AdvanceSession
<1> DEFINE lo == session.cursor + 1
           hi == Min({session.cursor + steps, N})
           status == IF hi = N THEN "COMPLETED" ELSE "PAUSED"
<1>2. session.cursor \in Nat /\ steps \in Nat \ {0} /\ N \in Nat
  BY ReplayAssumption, ExecutionAssumption DEF AccountInv, CursorInRange
<1>3. session.cursor < N BY <1>1
<1>4. hi \in 1..N /\ lo \in 1..hi
  <2>1. hi \in {session.cursor + steps, N} /\ hi <= N BY <1>2, MinOfTwo
  <2> HIDE DEF hi
  <2> QED BY <1>2, <1>3, <2>1
<1>5. session' = [session EXCEPT !.status = status, !.cursor = hi] BY <1>1
<1>6. requests' = [requests EXCEPT ![r] = [stage |-> "advanced", lo |-> lo, hi |-> hi, status |-> status]]
  BY <1>1
<1>7. session.status \in {"READY", "PAUSED"} BY <1>1 DEF Steppable
<1> HIDE DEF hi
<1>8. /\ session'.cursor = hi /\ session'.status = status /\ session'.pending = session.pending
      /\ DOMAIN session' = DOMAIN session
  BY <1>5 DEF AccountInv, RowShapes, IsRow
<1> HIDE DEF status
<1>9. /\ requests'[r] = [stage |-> "advanced", lo |-> lo, hi |-> hi, status |-> status]
      /\ DOMAIN requests' = Request /\ \A s \in Request \ {r} : requests'[s] = requests[s]
  BY <1>6 DEF AccountInv, RowShapes
<1>10. UNCHANGED <<snapshot, account, lapsed>> /\ Acquire(p, r) BY DEF AdvanceSession, data
<1>11. LockHeld' BY <1>10, ReplayAssumption DEF Acquire, AccountInv, LockHeld
<1>12. RowShapes'
  BY <1>8, <1>9, <1>10 DEF AccountInv, RowShapes, IsRow, Acquire, LockHeld, Stage
<1>13. CursorInRange' BY <1>4, <1>8 DEF CursorInRange
<1>14. ASSUME ~lapsed PROVE StepsAccounted'
  <2>1. /\ \A s \in Request : ~Unfinished(s)
        /\ session.pending = None /\ account = Result(session.cursor, "PAUSED")
    BY <1>7, <1>10, <1>14 DEF AccountInv, StepsAccounted, Acquire, Result
  <2>2. \A s \in Request : Unfinished(s)' => s = r BY <1>9, <2>1 DEF Unfinished
  <2>3. Unfinished(r)' BY <1>9 DEF Unfinished, Stage
  <2>4. StepPending(r)'
    <3>1. /\ requests'[r].lo = lo /\ requests'[r].hi = hi /\ requests'[r].stage = "advanced"
      BY <1>9
    <3>2. requests'[r].lo - 1 = session.cursor BY <1>2, <3>1
    <3> QED BY <1>4, <1>8, <1>10, <2>1, <3>1, <3>2 DEF StepPending, Result
  <2>5. \A q \in Proc : proc'[q] # None => proc'[q] = r
    BY <1>10, <1>11 DEF Acquire, LockHeld, AccountInv
  <2>6. session'.status # "absent" /\ lock' # None
    BY <1>8, <1>10, ReplayAssumption DEF status, Acquire
  <2> QED BY <2>2, <2>3, <2>4, <2>5, <2>6 DEF StepsAccounted
<1> QED BY <1>10, <1>11, <1>12, <1>13, <1>14 DEF AccountInv

LEMMA AccountRetry ==
  ASSUME AccountInv, NEW p \in Proc, NEW r \in Request, RetryStep(p, r) PROVE AccountInv'
<1>1. UNCHANGED <<session, account, requests, lapsed, snapshot>> /\ Acquire(p, r) /\ Unfinished(r)
  BY DEF RetryStep, data, rows, Unfinished
<1>2. LockHeld' BY <1>1, ReplayAssumption DEF Acquire, AccountInv, LockHeld
<1>3. RowShapes' /\ CursorInRange'
  BY <1>1 DEF AccountInv, RowShapes, IsRow, Acquire, LockHeld, CursorInRange
<1>4. ASSUME ~lapsed PROVE StepsAccounted'
  <2>1. \A s \in Request : (Unfinished(s)' <=> Unfinished(s)) /\ (StepPending(s)' <=> StepPending(s))
    BY <1>1 DEF Unfinished, StepPending, FinalStatus, Result
  <2>2. \A q \in Proc : proc'[q] # None => proc'[q] = r
    BY <1>1, <1>2 DEF Acquire, LockHeld, AccountInv
  <2>3. lock' # None BY <1>1, ReplayAssumption DEF Acquire
  <2> QED BY <1>1, <1>4, <2>1, <2>2, <2>3 DEF AccountInv, StepsAccounted
<1> QED BY <1>1, <1>2, <1>3, <1>4 DEF AccountInv

\* The request whose pipeline a process runs is unfinished and the only one.
LEMMA Running ==
  ASSUME AccountInv, NEW p \in Proc, proc[p] # None
  PROVE  /\ proc[p] \in Request /\ lock = p /\ lock # None
         /\ ~lapsed => /\ Unfinished(proc[p]) /\ StepPending(proc[p])
                       /\ \A s \in Request : Unfinished(s) => s = proc[p]
                       /\ session.status # "absent"
BY ReplayAssumption DEF AccountInv, RowShapes, LockHeld, StepsAccounted

LEMMA AccountStrategy ==
  ASSUME AccountInv, NEW p \in Proc, EnrichStrategy(p) PROVE AccountInv'
<1>p. PICK r : r = proc[p] OBVIOUS
<1>1. r # None /\ requests[r].stage = "advanced"
      /\ UNCHANGED <<session, account, lapsed, snapshot, lock, proc>>
      /\ requests' = [requests EXCEPT ![r].stage = "strategized"]
  BY <1>p DEF EnrichStrategy, data
<1>2. r \in Request BY <1>1, <1>p, Running
<1>3. DOMAIN requests[r] = {"stage", "lo", "hi", "status"}
  BY <1>1, <1>2 DEF AccountInv, RowShapes, NoRequest
<1>4. /\ DOMAIN requests' = Request /\ \A s \in Request \ {r} : requests'[s] = requests[s]
      /\ DOMAIN requests'[r] = {"stage", "lo", "hi", "status"}
      /\ requests'[r].stage = "strategized" /\ requests'[r].lo = requests[r].lo
      /\ requests'[r].hi = requests[r].hi
  BY <1>1, <1>2, <1>3 DEF AccountInv, RowShapes
<1>5. RowShapes' /\ LockHeld' /\ CursorInRange'
  BY <1>1, <1>4 DEF AccountInv, RowShapes, IsRow, LockHeld, CursorInRange, Stage
<1>6. ASSUME ~lapsed PROVE StepsAccounted'
  <2>1. Unfinished(r) /\ StepPending(r) /\ (\A s \in Request : Unfinished(s) => s = r) /\ lock # None
        /\ session.status # "absent"
    BY <1>1, <1>6, <1>p, Running
  <2>2. \A s \in Request : Unfinished(s)' => s = r BY <1>4, <2>1 DEF Unfinished
  <2>3. StepPending(r)' BY <1>1, <1>4, <2>1 DEF StepPending, FinalStatus, Result
  <2>4. Unfinished(r)' BY <1>4 DEF Unfinished, Stage
  <2>5. \A q \in Proc : proc'[q] # None => proc'[q] = r
    BY <1>1, <1>p, <2>1, Running DEF AccountInv, LockHeld
  <2> QED BY <1>1, <2>1, <2>2, <2>3, <2>4, <2>5 DEF StepsAccounted
<1> QED BY <1>1, <1>5, <1>6 DEF AccountInv

LEMMA AccountExecution ==
  ASSUME AccountInv, NEW p \in Proc, EnrichExecution(p) PROVE AccountInv'
<1>p. PICK r : r = proc[p] OBVIOUS
<1>1. r # None /\ requests[r].stage = "strategized" /\ UNCHANGED <<lapsed, snapshot, lock, proc>>
      /\ account' = Executed(r)
      /\ session' = [session EXCEPT !.status = TargetStatus(r), !.pending = None]
      /\ requests' = [requests EXCEPT ![r].stage = "executed", ![r].status = TargetStatus(r)]
  BY <1>p DEF EnrichExecution, data
<1>2. r \in Request BY <1>1, <1>p, Running
<1>0. lock # None /\ \A q \in Proc : proc'[q] # None => proc'[q] = r
  BY <1>1, <1>p, Running DEF AccountInv, LockHeld
<1>a. ~lapsed => Unfinished(r) /\ StepPending(r) /\ \A s \in Request : Unfinished(s) => s = r
  BY <1>1, <1>p, Running
<1>3. DOMAIN requests[r] = {"stage", "lo", "hi", "status"}
  BY <1>1, <1>2 DEF AccountInv, RowShapes, NoRequest
<1>4. /\ DOMAIN requests' = Request /\ \A s \in Request \ {r} : requests'[s] = requests[s]
      /\ DOMAIN requests'[r] = {"stage", "lo", "hi", "status"}
      /\ requests'[r].stage = "executed" /\ requests'[r].lo = requests[r].lo
      /\ requests'[r].hi = requests[r].hi /\ requests'[r].status = TargetStatus(r)
  BY <1>1, <1>2, <1>3 DEF AccountInv, RowShapes
<1>5. /\ DOMAIN session' = {"status", "cursor", "pending"} /\ session'.cursor = session.cursor
      /\ session'.pending = None /\ session'.status = TargetStatus(r)
  BY <1>1 DEF AccountInv, RowShapes, IsRow
<1>6. RowShapes' /\ LockHeld' /\ CursorInRange'
  BY <1>1, <1>4, <1>5 DEF AccountInv, RowShapes, IsRow, LockHeld, CursorInRange, Stage
<1>7. ASSUME ~lapsed PROVE StepsAccounted'
  <2>1. TargetStatus(r) = FinalStatus(r) /\ account' = Result(requests[r].hi, FinalStatus(r))
    BY <1>1, <1>2, <1>7, <1>a, ExecutedIsResult
  <2>2. \A s \in Request : Unfinished(s)' => s = r BY <1>4, <1>7, <1>a DEF Unfinished
  <2>3. StepPending(r)'
    BY <1>1, <1>4, <1>5, <1>7, <1>a, <2>1 DEF StepPending, FinalStatus, Result
  <2>4. Unfinished(r)' BY <1>4 DEF Unfinished, Stage
  <2>5. session'.status # "absent" BY <1>5, <2>1 DEF FinalStatus
  <2> QED BY <1>0, <1>1, <2>2, <2>3, <2>4, <2>5 DEF StepsAccounted
<1> QED BY <1>1, <1>6, <1>7 DEF AccountInv

\* A pipeline ends: the advisory lock is free again.
LEMMA Released ==
  ASSUME AccountInv, NEW p \in Proc, proc[p] # None, Release(p)
  PROVE  LockHeld' /\ lock' = None /\ \A q \in Proc : proc'[q] = None
BY Running, ReplayAssumption DEF Release, AccountInv, LockHeld, RowShapes

LEMMA AccountFinalize ==
  ASSUME AccountInv, NEW p \in Proc, Finalize(p) PROVE AccountInv'
<1>p. PICK r : r = proc[p] OBVIOUS
<1>1. r # None /\ requests[r].stage = "executed" /\ UNCHANGED <<lapsed, snapshot, account>>
      /\ session' = [session EXCEPT !.status = requests[r].status, !.pending = None]
      /\ requests' = [requests EXCEPT ![r].stage = "final"]
  BY <1>p DEF Finalize, data
<1>2. r \in Request BY <1>1, <1>p, Running
<1>0. LockHeld' /\ lock' = None /\ \A q \in Proc : proc'[q] = None
  BY <1>1, <1>p, Released DEF Finalize
<1>a. ~lapsed => StepPending(r) /\ \A s \in Request : Unfinished(s) => s = r
  BY <1>1, <1>p, Running
<1>3. DOMAIN requests[r] = {"stage", "lo", "hi", "status"}
  BY <1>1, <1>2 DEF AccountInv, RowShapes, NoRequest
<1>4. /\ DOMAIN requests' = Request /\ \A s \in Request \ {r} : requests'[s] = requests[s]
      /\ DOMAIN requests'[r] = {"stage", "lo", "hi", "status"} /\ requests'[r].stage = "final"
  BY <1>1, <1>2, <1>3 DEF AccountInv, RowShapes
<1>5. /\ DOMAIN session' = {"status", "cursor", "pending"} /\ session'.cursor = session.cursor
      /\ session'.pending = None /\ session'.status = requests[r].status
  BY <1>1 DEF AccountInv, RowShapes, IsRow
<1>6. RowShapes' /\ CursorInRange'
  BY <1>0, <1>4, <1>5 DEF AccountInv, RowShapes, IsRow, CursorInRange, Stage
<1>7. ASSUME ~lapsed PROVE StepsAccounted'
  <2>1. \A s \in Request : ~Unfinished(s)' BY <1>4, <1>7, <1>a DEF Unfinished
  <2>2. account' = Result(session.cursor, requests[r].status) /\ requests[r].status # "absent"
    BY <1>1, <1>7, <1>a DEF StepPending, FinalStatus
  <2>3. account' = Result(session.cursor, session.status)' BY <1>1, <1>5, <2>2 DEF Result
  <2> QED BY <1>0, <1>5, <2>1, <2>2, <2>3 DEF StepsAccounted, Result
<1> QED BY <1>0, <1>1, <1>6, <1>7 DEF AccountInv

LEMMA AccountFail ==
  ASSUME AccountInv, NEW p \in Proc, FailMarked(p) \/ FailUnmarked(p) PROVE AccountInv'
<1>0. LockHeld' /\ lock' = None /\ \A q \in Proc : proc'[q] = None
  BY Released DEF FailMarked, FailUnmarked
<1>1. CASE FailUnmarked(p)
  <2>1. UNCHANGED <<session, requests>> /\ lapsed' = TRUE BY <1>1 DEF FailUnmarked, rows
  <2> QED BY <1>0, <2>1 DEF AccountInv, RowShapes, IsRow, CursorInRange
<1>2. CASE FailMarked(p)
  <2>p. PICK r : r = proc[p] OBVIOUS
  <2>1. r # None /\ UNCHANGED <<lapsed, snapshot, account, requests>>
        /\ session' = [session EXCEPT !.status = "RUNNING", !.pending = FinalStatus(r)]
    BY <1>2, <2>p DEF FailMarked, data, FinalStatus
  <2>2. /\ DOMAIN session' = {"status", "cursor", "pending"} /\ session'.cursor = session.cursor
        /\ session'.pending = FinalStatus(r) /\ session'.status = "RUNNING"
    BY <2>1 DEF AccountInv, RowShapes, IsRow
  <2>3. RowShapes' /\ CursorInRange'
    BY <1>0, <2>1, <2>2 DEF AccountInv, RowShapes, IsRow, CursorInRange
  <2>4. ASSUME ~lapsed PROVE StepsAccounted'
    <3>1. r \in Request /\ StepPending(r) /\ \A s \in Request : Unfinished(s) => s = r
      BY <2>1, <2>4, <2>p, Running
    <3>2. \A s \in Request : Unfinished(s)' => s = r BY <2>1, <3>1 DEF Unfinished
    <3>3. StepPending(r)' BY <2>1, <2>2, <3>1 DEF StepPending, FinalStatus, Result
    <3> QED BY <1>0, <2>2, <3>2, <3>3 DEF StepsAccounted
  <2> QED BY <1>0, <2>1, <2>3, <2>4 DEF AccountInv
<1> QED BY <1>1, <1>2

\* A reset under way of a step lapses it; otherwise no step is unfinished.
LEMMA AccountReset ==
  ASSUME AccountInv, NEW p \in Proc, ResetSession(p) PROVE AccountInv'
<1>1. /\ session' = [session EXCEPT !.status = "READY", !.cursor = 0, !.pending = None]
      /\ account' = FreshAccount /\ lapsed' = (lapsed \/ lock # None)
      /\ UNCHANGED <<snapshot, requests, proc, lock>>
      /\ session.status \in Status \ {"RUNNING"}
  BY DEF ResetSession, data
<1>2. /\ DOMAIN session' = {"status", "cursor", "pending"} /\ session'.cursor = 0
      /\ session'.pending = None /\ session'.status = "READY"
  BY <1>1 DEF AccountInv, RowShapes, IsRow
<1>3. RowShapes' /\ CursorInRange' /\ LockHeld'
  BY <1>1, <1>2, ExecutionAssumption DEF AccountInv, RowShapes, IsRow, CursorInRange, LockHeld
<1>4. ASSUME ~lapsed' PROVE StepsAccounted'
  <2>1. \A s \in Request : ~Unfinished(s) BY <1>1, <1>4 DEF AccountInv, StepsAccounted
  <2>2. \A s \in Request : ~Unfinished(s)' BY <1>1, <2>1 DEF Unfinished
  <2>3. \A q \in Proc : proc'[q] = None
    BY <1>1, <1>4, ReplayAssumption DEF AccountInv, LockHeld
  <2>4. Result(0, "READY") = FreshAccount BY EmptyResult
  <2> QED BY <1>1, <1>2, <2>2, <2>3, <2>4 DEF StepsAccounted, Result
<1> QED BY <1>3, <1>4 DEF AccountInv

LEMMA AccountStep == AccountInv /\ [Next]_vars => AccountInv'
<1> SUFFICES ASSUME AccountInv, [Next]_vars PROVE AccountInv' OBVIOUS
<1>1. CASE Revise BY <1>1, AccountKept DEF Revise, rows
<1>2. ASSUME NEW p \in Proc,
             \/ \E starting \in BOOLEAN : Sync(p, starting)
             \/ StartFromCache(p) \/ FetchPage(p) \/ SyncFails(p)
      PROVE  AccountInv'
  BY <1>2, AccountKept DEF Sync, StartFromCache, FetchPage, SyncFails, rows
<1>3. CASE UNCHANGED vars BY <1>3, AccountKept DEF vars, data, rows
<1> QED BY <1>1, <1>2, <1>3, AccountCreate, AccountAdvance, AccountRetry, AccountStrategy,
           AccountExecution, AccountFinalize, AccountFail, AccountReset DEF Next

\* The steps a session took are invisible in its result: however they were
\* batched, retried, failed and recovered, the account at rest is that of one run
\* over the frozen candles up to the cursor (replay_engine.step), for every range,
\* every account, any number of processes, requests, revisions and resets.
THEOREM BatchingIsInvisible == Spec => []Deterministic
<1>1. AccountInv => Deterministic
  <2> SUFFICES ASSUME AccountInv, ~lapsed, lock = None,
                      session.status \in {"READY", "PAUSED", "COMPLETED"}
               PROVE  account = ExecuteCandles(FreshAccount, snapshot, 1, session.cursor,
                                               session.status = "COMPLETED")
    BY DEF Deterministic
  <2>1. account = Result(session.cursor, session.status) BY DEF AccountInv, StepsAccounted
  <2>2. CASE session.status = "COMPLETED"
    <3>1. (session.status = "COMPLETED") = TRUE BY <2>2
    <3> QED BY <2>1, <2>2, <3>1 DEF Result
  <2>3. CASE session.status # "COMPLETED"
    <3>1. (session.status = "COMPLETED") = FALSE BY <2>3
    <3> QED BY <2>1, <2>3, <3>1 DEF Result
  <2> QED BY <2>2, <2>3
<1> QED BY AccountInit, AccountStep, <1>1, PTL DEF Spec

-----------------------------------------------------------------------------
(* Types: balance and equity never fall below zero.                        *)

IsTrade(t) ==
  /\ t.side \in {"Buy", "Sell"}
  /\ t.entryPrice \in Int /\ t.quantity \in Int /\ t.stop \in Int /\ t.target \in Int

\* An account with its six columns, solvent, and its trade.
IsAccount(x) ==
  /\ DOMAIN x = {"balance", "equity", "open", "closed", "marks", "failed"}
  /\ x.balance \in Nat /\ x.equity \in Nat
  /\ x.open # NoTrade => IsTrade(x.open)

LEMMA FeeIsInt == ASSUME NEW a \in Int, NEW b \in Int PROVE Fee(a, b) \in Int
<1>1. FeeBps \in Int BY ExecutionAssumption DEF ExecutionConfig
<1>2. a * b \in Int OBVIOUS
<1>3. ASSUME NEW u \in Int, NEW v \in Int PROVE (u * v) \div 10000 \in Int
  <2>1. u * v \in Int OBVIOUS
  <2>2. \A w \in Int : w \div 10000 \in Int OBVIOUS
  <2> QED BY <2>1, <2>2
<1> QED BY <1>1, <1>2, <1>3 DEF Fee, BPS_DIVISOR

LEMMA GrossIsInt ==
  ASSUME NEW s, NEW a \in Int, NEW b \in Int, NEW q \in Int PROVE GrossPnl(s, a, b, q) \in Int
<1>1. a - b \in Int /\ b - a \in Int OBVIOUS
<1>2. \A u, v \in Int : u * v \in Int OBVIOUS
<1> QED BY <1>1, <1>2 DEF GrossPnl

LEMMA ExitIsInt ==
  ASSUME NEW t, IsTrade(t), NEW i \in Int, NEW c, ValidCandle(c), ExitPrice(t, i, c) # 0
  PROVE  ExitPrice(t, i, c) \in Int
<1>1. c.open \in Int /\ t.stop \in Int /\ t.target \in Int BY DEF IsTrade, ValidCandle
<1>2. Min({c.open, t.stop}) \in Int /\ Max({c.open, t.stop}) \in Int BY <1>1, MinMaxOfTwo
<1> QED BY <1>1, <1>2 DEF ExitPrice

\* What closing an account's trade at a price moves its balance by.
DeltaOf(x, price) ==
  LimitedLiabilityDelta(GrossPnl(x.open.side, x.open.entryPrice, price, x.open.quantity)
                          - Fee(price, x.open.quantity),
                        x.balance)

\* Limited liability: the loss of a trade stops at the balance.
LEMMA LossIsLimited ==
  ASSUME NEW x, IsAccount(x), x.open # NoTrade, NEW price \in Int
  PROVE  DeltaOf(x, price) \in Int /\ DeltaOf(x, price) >= -x.balance
<1> DEFINE t == x.open
           gross == GrossPnl(t.side, t.entryPrice, price, t.quantity)
           exitFee == Fee(price, t.quantity)
           delta == LimitedLiabilityDelta(gross - exitFee, x.balance)
<1>1. gross \in Int /\ exitFee \in Int BY FeeIsInt, GrossIsInt DEF IsAccount, IsTrade
<1>2. gross - exitFee \in Int BY <1>1
<1>3. Max({0, x.balance}) = x.balance
  <2>1. 0 \in Int /\ x.balance \in Int /\ x.balance >= 0 BY DEF IsAccount
  <2>2. Max({0, x.balance}) \in {0, x.balance} /\ Max({0, x.balance}) >= x.balance
    BY <2>1, MinMaxOfTwo
  <2> QED BY <2>1, <2>2
<1>4. delta \in Int /\ delta >= -x.balance
  <2> DEFINE raw == gross - exitFee
  <2>1. raw \in Int BY <1>2
  <2>2. -x.balance \in Int BY DEF IsAccount
  <2> HIDE DEF raw
  <2>3. delta = Max({raw, -x.balance}) BY <1>3 DEF LimitedLiabilityDelta, raw
  <2> QED BY <2>1, <2>2, <2>3, MinMaxOfTwo
<1> QED BY <1>4 DEF DeltaOf

LEMMA ClosedIsAccount ==
  ASSUME NEW x, IsAccount(x), x.open # NoTrade, NEW i, NEW price \in Int
  PROVE  IsAccount(CloseTrade(x, i, price))
<1>1. PICK delta \in Int : delta = DeltaOf(x, price) /\ delta >= -x.balance BY LossIsLimited
<1>2. x.balance + delta \in Nat BY <1>1 DEF IsAccount
<1>3. /\ DOMAIN CloseTrade(x, i, price) = DOMAIN x
      /\ CloseTrade(x, i, price).balance = x.balance + delta
      /\ CloseTrade(x, i, price).equity = x.balance + delta
      /\ CloseTrade(x, i, price).open = NoTrade
  BY <1>1 DEF CloseTrade, IsAccount, DeltaOf
<1> QED BY <1>2, <1>3 DEF IsAccount

\* The entry fee is paid out of the balance and the stop is on its side.
LEMMA OpenedIsAccount ==
  ASSUME NEW x, IsAccount(x), NEW i \in 1..N, NEW c, ValidCandle(c), NEW final,
         evaluate(i, c).eligible, ~Skipped(x, i, c, evaluate(i, c), final)
  PROVE  IsAccount(OpenTrade(x, i, c, evaluate(i, c)))
<1> DEFINE d == evaluate(i, c)
           quantity == EntryQuantity(d, c.close, x.equity)
           fee == Fee(c.close, quantity)
<1>1. d.signal \in {"Buy", "Sell"} /\ d.stopLoss \in Int /\ d.takeProfit \in Int /\ c.close \in Nat \ {0}
  <2>1. Signals[i] \in {"Buy", "Sell"} /\ StopDistance[i] \in Nat \ {0} /\ c.close \in Nat \ {0}
    BY ExecutionAssumption DEF evaluate, ValidCandle
  <2>2. 2 * StopDistance[i] \in Int BY <2>1
  <2>3. d.signal = Signals[i] BY DEF evaluate
  <2>4. d.stopLoss \in Int BY <2>1 DEF evaluate
  <2>5. d.takeProfit \in Int BY <2>1, <2>2 DEF evaluate
  <2> QED BY <2>1, <2>3, <2>4, <2>5
<1>2. /\ IF d.signal = "Buy" THEN d.stopLoss < c.close /\ c.close < d.takeProfit
                             ELSE d.takeProfit < c.close /\ c.close < d.stopLoss
      /\ ~(fee >= x.balance)
  BY DEF Skipped, Barred
<1>3. quantity \in Int
  <2> DEFINE distance == IF d.signal = "Buy" THEN c.close - d.stopLoss ELSE d.stopLoss - c.close
  <2>1. distance \in Int /\ distance > 0 BY <1>1, <1>2
  <2>2. \A u, v \in Int : v > 0 => u \div v \in Int OBVIOUS
  <2>3. \A u, v \in Int : u * v \in Int OBVIOUS
  <2>4. x.equity \in Int /\ RiskPct \in Int /\ LeverageCap \in Int /\ c.close \in Int /\ c.close > 0
    BY <1>1, ExecutionAssumption DEF IsAccount, ExecutionConfig
  <2>5. x.equity * RiskPct \in Int /\ x.equity * LeverageCap \in Int BY <2>3, <2>4
  <2>6. (x.equity * RiskPct) \div 100 \in Int BY <2>2, <2>5
  <2>7. (x.equity * LeverageCap) \div c.close \in Int BY <2>2, <2>4, <2>5
  <2>8. ((x.equity * RiskPct) \div 100) \div distance \in Int
    <3> HIDE DEF distance
    <3> QED BY <2>1, <2>2, <2>6
  <2>9. quantity = Min({((x.equity * RiskPct) \div 100) \div distance, (x.equity * LeverageCap) \div c.close})
    BY DEF EntryQuantity
  <2> HIDE DEF distance, quantity
  <2> QED BY <2>7, <2>8, <2>9, MinMaxOfTwo
<1> HIDE DEF quantity
<1>4. fee \in Int
  <2>1. c.close \in Int BY <1>1
  <2>2. Fee(c.close, quantity) \in Int BY <1>3, <2>1, FeeIsInt
  <2> QED BY <2>2
<1> HIDE DEF fee
<1>5. x.balance - fee \in Nat BY <1>2, <1>4 DEF IsAccount
<1> HIDE DEF d
<1> DEFINE o == OpenTrade(x, i, c, d)
<1>6. /\ DOMAIN o = DOMAIN x /\ o.balance = x.balance - fee /\ o.equity = x.equity
      /\ o.open = [entryTime |-> i, side |-> d.signal, entryPrice |-> c.close,
                   quantity |-> quantity, stop |-> d.stopLoss, target |-> d.takeProfit,
                   fees |-> fee, exitTime |-> 0, realizedPnl |-> 0]
  BY DEF OpenTrade, IsAccount, fee, quantity
<1>7. IsTrade(o.open) BY <1>1, <1>3, <1>6 DEF IsTrade
<1> HIDE DEF o
<1>8. IsAccount(o) BY <1>5, <1>6, <1>7 DEF IsAccount
<1> QED BY <1>8 DEF o, d

\* A step that fails leaves the figures as they are.
LEMMA FailedIsAccount ==
  ASSUME NEW x, IsAccount(x) PROVE IsAccount([x EXCEPT !.failed = TRUE])
BY DEF IsAccount

LEMMA MarkIsNat ==
  ASSUME NEW x, IsAccount(x), NEW c, ValidCandle(c) PROVE MarkedEquity(x, c) \in Nat
<1>1. CASE x.open = NoTrade BY <1>1 DEF MarkedEquity, IsAccount
<1>2. CASE x.open # NoTrade
  <2>1. PICK g : g = GrossPnl(x.open.side, x.open.entryPrice, c.close, x.open.quantity) OBVIOUS
  <2>2. g \in Int BY <1>2, <2>1, GrossIsInt DEF IsAccount, IsTrade, ValidCandle
  <2>3. PICK e : e = x.balance + g OBVIOUS
  <2>4. e \in Int /\ 0 \in Int BY <2>2, <2>3 DEF IsAccount
  <2>5. Max({0, e}) \in Int /\ Max({0, e}) >= 0 BY <2>4, MinMaxOfTwo
  <2>6. MarkedEquity(x, c) = IF x.open = NoTrade THEN x.balance ELSE Max({0, e})
    BY <2>1, <2>3, Zenon DEF MarkedEquity
  <2> QED BY <1>2, <2>5, <2>6
<1> QED BY <1>1, <1>2

LEMMA CandleKeepsAccount ==
  ASSUME NEW x, IsAccount(x), NEW i \in 1..N, NEW c, ValidCandle(c), NEW final
  PROVE  IsAccount(ExecuteCandle(x, i, c, final))
<1> DEFINE y == ExitStage(x, i, c)
           z == EntryStage(y, i, c, final)
           w == SessionEndStage(z, i, c, final)
<1>1. IsAccount(y)
  <2>1. CASE x.open # NoTrade /\ ExitPrice(x.open, i, c) # 0
    <3>1. ExitPrice(x.open, i, c) \in Int BY <2>1, ExitIsInt DEF IsAccount
    <3> QED BY <2>1, <3>1, ClosedIsAccount DEF ExitStage
  <2> QED BY <2>1 DEF ExitStage
<1> HIDE DEF y
<1>2. IsAccount(z)
  <2>1. IsAccount([y EXCEPT !.failed = TRUE]) BY <1>1, FailedIsAccount
  <2>2. \/ z = y \/ z = [y EXCEPT !.failed = TRUE]
        \/ /\ evaluate(i, c).eligible /\ ~Skipped(y, i, c, evaluate(i, c), final)
           /\ z = OpenTrade(y, i, c, evaluate(i, c))
    BY DEF EntryStage
  <2> QED BY <1>1, <2>1, <2>2, OpenedIsAccount
<1> HIDE DEF z
<1>3. IsAccount(w)
  <2>1. c.close \in Int BY DEF ValidCandle
  <2> QED BY <1>2, <2>1, ClosedIsAccount DEF SessionEndStage
<1> HIDE DEF w
<1>4. MarkedEquity(w, c) \in Nat BY <1>3, MarkIsNat
<1>5. IsAccount(Mark(w, i, c)) BY <1>3, <1>4 DEF Mark, IsAccount
<1> QED BY <1>5 DEF ExecuteCandle, w, z, y

LEMMA CandlesKeepAccount ==
  ASSUME NEW x, IsAccount(x), NEW candles, NEW lo \in 1..N, NEW hi \in 1..N, lo <= hi,
         \A i \in 1..N : ValidCandle(candles[i]), NEW done \in BOOLEAN
  PROVE  IsAccount(ExecuteCandles(x, candles, lo, hi, done))
<1>1. N \in Nat /\ lo \in Nat \ {0} /\ hi \in Nat /\ lo - 1 <= hi BY ExecutionAssumption
<1>2. PICK g : Runs(g, x, candles, lo, hi, done) BY <1>1, RunExists
<1> DEFINE T == {i \in (lo - 1)..hi : ~IsAccount(g[i])}
<1>3. T = {}
  <2> SUFFICES ASSUME T # {} PROVE FALSE OBVIOUS
  <2>1. T \in SUBSET Nat BY <1>1
  <2>2. PICK n \in T : \A m \in T : n <= m BY <2>1, LeastNat
  <2>3. n \in (lo - 1)..hi /\ ~IsAccount(g[n]) OBVIOUS
  <2>4. g[n] = IF n = lo - 1 THEN x ELSE ExecuteCandle(g[n - 1], n, candles[n], done /\ n = hi)
    BY <1>2, <2>3 DEF Runs
  <2>5. n # lo - 1 BY <2>3, <2>4
  <2>6. n \in 1..N /\ n - 1 \in (lo - 1)..hi BY <1>1, <2>3, <2>5
  <2>7. n - 1 \notin T
    <3> HIDE DEF T
    <3> QED BY <2>2, <2>6
  <2>8. IsAccount(g[n - 1]) BY <2>6, <2>7
  <2>9. IsAccount(ExecuteCandle(g[n - 1], n, candles[n], done /\ n = hi))
    BY <2>6, <2>8, CandleKeepsAccount
  <2> QED BY <2>3, <2>4, <2>5, <2>9
<1>4. IsAccount(g[hi]) BY <1>1, <1>3
<1> QED BY <1>1, <1>2, <1>4, RunGives

AreCandles(candles) == \A i \in 1..N : candles[i] \in {Absent} \cup {t[i] : t \in Tapes}

\* A step was taken only over the complete candles of an existing session.
TypeInv ==
  /\ tape \in Tapes /\ AreCandles(cache) /\ AreCandles(snapshot)
  /\ session.status \in Status \cup {"absent"} /\ session.pending \in {None, "PAUSED", "COMPLETED"}
  /\ IsAccount(account)
  /\ \A r \in Request : requests[r] # NoRequest =>
       /\ requests[r].lo \in 1..requests[r].hi /\ requests[r].hi \in 1..N
       /\ requests[r].status \in {"PAUSED", "COMPLETED"}
       /\ RangeComplete(snapshot) /\ session.status # "absent"

LEMMA FreshIsAccount == IsAccount(FreshAccount)
BY ExecutionAssumption DEF FreshAccount, IsAccount

LEMMA TypeInit == Init => TypeInv
<1> SUFFICES ASSUME Init PROVE TypeInv OBVIOUS
<1>1. AreCandles(cache) /\ AreCandles(snapshot) BY DEF Init, AreCandles
<1>2. IsAccount(account) BY FreshIsAccount DEF Init
<1> QED BY <1>1, <1>2 DEF Init, TypeInv, NoSession

\* The steps of the collector: what the exchange reports reaches the cache.
LEMMA CollectorTypes ==
  ASSUME TypeInv, NEW p \in Proc,
         \/ \E starting \in BOOLEAN : Sync(p, starting)
         \/ StartFromCache(p) \/ FetchPage(p) \/ SyncFails(p)
  PROVE  TypeInv'
<1>1. UNCHANGED <<tape, snapshot, session, account, requests>>
  BY DEF Sync, StartFromCache, FetchPage, SyncFails, rows
<1>2. AreCandles(cache')
  <2>1. CASE cache' = cache BY <2>1 DEF TypeInv
  <2>2. CASE FetchPage(p)
    <3>1. PICK page : cache' = Upserted(cache, page)
                      /\ \A i \in DOMAIN page : page[i] = tape[i]
      <4>1. PICK count : cache' = Upserted(cache, KlinePage(sync[p].end, count))
        BY <2>2 DEF FetchPage
      <4>2. \A i \in DOMAIN KlinePage(sync[p].end, count) :
              KlinePage(sync[p].end, count)[i] = tape[i]
        BY DEF KlinePage
      <4> QED BY <4>1, <4>2
    <3>2. ASSUME NEW i \in 1..N PROVE cache'[i] \in {Absent} \cup {t[i] : t \in Tapes}
      BY <3>1 DEF Upserted, TypeInv, AreCandles
    <3> QED BY <3>2 DEF AreCandles
  <2> QED BY <2>1, <2>2 DEF Sync, StartFromCache, FetchPage, SyncFails
<1> QED BY <1>1, <1>2 DEF TypeInv, RangeComplete, AreCandles

LEMMA SessionTypes ==
  ASSUME AccountInv, TypeInv, NEW p \in Proc, CreateSession(p) \/ ResetSession(p)
  PROVE  TypeInv'
<1>1. CASE CreateSession(p)
  <2>0. UNCHANGED <<tape, cache, account, requests>> BY <1>1 DEF CreateSession
  <2>1. CASE session = NoSession
    <3>1. session' = [NoSession EXCEPT !.status = "READY"] /\ snapshot' = cache
      BY <1>1, <2>1 DEF CreateSession, SessionSnapshot
    <3>2. session'.status = "READY" /\ session'.pending = None BY <3>1 DEF NoSession
    <3>3. \A r \in Request : requests[r] = NoRequest BY <2>1 DEF TypeInv, NoSession
    <3> QED BY <2>0, <3>1, <3>2, <3>3 DEF TypeInv, AreCandles, Status
  <2>2. CASE session # NoSession
    <3>1. UNCHANGED <<session, snapshot>> BY <1>1, <2>2 DEF CreateSession
    <3> QED BY <2>0, <3>1 DEF TypeInv, AreCandles, RangeComplete
  <2> QED BY <2>1, <2>2
<1>2. CASE ResetSession(p)
  <2>1. /\ session' = [session EXCEPT !.status = "READY", !.cursor = 0, !.pending = None]
        /\ account' = FreshAccount /\ UNCHANGED <<tape, cache, snapshot, requests>>
    BY <1>2 DEF ResetSession, data
  <2>2. session'.status = "READY" /\ session'.pending = None
    BY <2>1 DEF AccountInv, RowShapes, IsRow
  <2> QED BY <2>1, <2>2, FreshIsAccount DEF TypeInv, AreCandles, RangeComplete, Status
<1> QED BY <1>1, <1>2

LEMMA AdvanceTypes ==
  ASSUME AccountInv, TypeInv, NEW p \in Proc, NEW r \in Request,
         AdvanceSession(p, r) \/ RetryStep(p, r)
  PROVE  TypeInv'
<1>0. UNCHANGED <<tape, cache, snapshot, account>> BY DEF AdvanceSession, RetryStep, data, rows
<1>1. CASE RetryStep(p, r)
  BY <1>0, <1>1 DEF RetryStep, rows, TypeInv, AreCandles, RangeComplete
<1>2. CASE AdvanceSession(p, r)
  <2>1. PICK steps \in 1..MaxSteps :
          LET lo == session.cursor + 1
              hi == Min({session.cursor + steps, N})
              status == IF hi = N THEN "COMPLETED" ELSE "PAUSED"
          IN  /\ RangeComplete(snapshot) /\ session.cursor < N
              /\ session' = [session EXCEPT !.status = status, !.cursor = hi]
              /\ requests' = [requests EXCEPT ![r] =
                                [stage |-> "advanced", lo |-> lo, hi |-> hi, status |-> status]]
    BY <1>2 DEF AdvanceSession
  <2>2. PICK lo, hi, status :
          /\ lo = session.cursor + 1 /\ hi = Min({session.cursor + steps, N})
          /\ status = IF hi = N THEN "COMPLETED" ELSE "PAUSED"
    OBVIOUS
  <2>3. session' = [session EXCEPT !.status = status, !.cursor = hi] BY <2>1, <2>2
  <2>4. requests' = [requests EXCEPT ![r] = [stage |-> "advanced", lo |-> lo, hi |-> hi, status |-> status]]
    BY <2>1, <2>2
  <2>5. session.cursor \in Nat /\ steps \in Nat \ {0} /\ N \in Nat /\ session.cursor < N
    BY <2>1, ReplayAssumption, ExecutionAssumption DEF AccountInv, CursorInRange
  <2>6. hi \in {session.cursor + steps, N} /\ hi <= N BY <2>2, <2>5, MinOfTwo
  <2>7. hi \in 1..N /\ lo \in 1..hi BY <2>2, <2>5, <2>6
  <2>8. session'.status = status /\ session'.pending = session.pending
    BY <2>3 DEF AccountInv, RowShapes, IsRow
  <2>9. /\ requests'[r] = [stage |-> "advanced", lo |-> lo, hi |-> hi, status |-> status]
        /\ \A s \in Request \ {r} : requests'[s] = requests[s]
    BY <2>4 DEF AccountInv, RowShapes
  <2>10. status \in {"PAUSED", "COMPLETED"} BY <2>2
  <2>11. RangeComplete(snapshot') BY <1>0, <2>1 DEF RangeComplete
  <2> QED BY <1>0, <2>7, <2>8, <2>9, <2>10, <2>11 DEF TypeInv, AreCandles, Status, RangeComplete
<1> QED BY <1>1, <1>2

LEMMA PipelineTypes ==
  ASSUME AccountInv, TypeInv, NEW p \in Proc,
         \/ EnrichStrategy(p) \/ EnrichExecution(p) \/ Finalize(p)
         \/ FailMarked(p) \/ FailUnmarked(p)
  PROVE  TypeInv'
<1>p. PICK r : r = proc[p] OBVIOUS
<1>0. UNCHANGED <<tape, cache, snapshot>> /\ r # None
  BY <1>p DEF EnrichStrategy, EnrichExecution, Finalize, FailMarked, FailUnmarked, data
<1>1. r \in Request BY <1>0, <1>p, Running
<1>2. ASSUME requests[r].stage \in {"advanced", "strategized", "executed"}
      PROVE  /\ requests[r] # NoRequest /\ DOMAIN requests[r] = {"stage", "lo", "hi", "status"}
             /\ DOMAIN requests = Request
  BY <1>1, <1>2 DEF AccountInv, RowShapes, NoRequest
<1>3. DOMAIN session = {"status", "cursor", "pending"} BY DEF AccountInv, RowShapes, IsRow
<1>4. CASE EnrichStrategy(p)
  <2>1. requests[r].stage = "advanced" /\ requests' = [requests EXCEPT ![r].stage = "strategized"]
        /\ UNCHANGED <<session, account>>
    BY <1>4, <1>p DEF EnrichStrategy
  <2>2. /\ requests'[r].lo = requests[r].lo /\ requests'[r].hi = requests[r].hi
        /\ requests'[r].status = requests[r].status
        /\ \A s \in Request \ {r} : requests'[s] = requests[s]
    BY <1>1, <1>2, <2>1
  <2> QED BY <1>0, <1>1, <1>2, <2>1, <2>2 DEF TypeInv, AreCandles, RangeComplete
<1>5. CASE EnrichExecution(p)
  <2>1. /\ requests[r].stage = "strategized" /\ account' = Executed(r)
        /\ session' = [session EXCEPT !.status = TargetStatus(r), !.pending = None]
        /\ requests' = [requests EXCEPT ![r].stage = "executed", ![r].status = TargetStatus(r)]
    BY <1>5, <1>p DEF EnrichExecution
  <2>2. TargetStatus(r) \in {"PAUSED", "COMPLETED"} BY DEF TargetStatus, TypeInv
  <2>3. /\ requests'[r].lo = requests[r].lo /\ requests'[r].hi = requests[r].hi
        /\ requests'[r].status = TargetStatus(r)
        /\ \A s \in Request \ {r} : requests'[s] = requests[s]
    BY <1>1, <1>2, <2>1
  <2>4. session'.status = TargetStatus(r) /\ session'.pending = None BY <1>3, <2>1
  <2>5. IsAccount(account')
    <3>1. /\ requests[r].hi \in 1..N /\ requests[r].lo \in 1..requests[r].hi
          /\ RangeComplete(snapshot)
      BY <1>1, <1>2, <2>1 DEF TypeInv
    <3>2. \A i \in 1..N : ValidCandle(snapshot[i])
      BY <3>1, ReplayAssumption DEF RangeComplete, TypeInv, AreCandles
    <3>3. requests[r].lo \in 1..N /\ requests[r].lo <= requests[r].hi
      BY <3>1, ExecutionAssumption
    <3>4. IsAccount(account) BY DEF TypeInv
    <3>5. \A d \in BOOLEAN :
            IsAccount(ExecuteCandles(account, snapshot, requests[r].lo, requests[r].hi, d))
      BY <3>1, <3>2, <3>3, <3>4, CandlesKeepAccount
    <3>6. (TargetStatus(r) = "COMPLETED") \in BOOLEAN OBVIOUS
    <3>7. IsAccount(Executed(r)) BY <3>5, <3>6 DEF Executed
    <3> QED BY <2>1, <3>7
  <2> QED BY <1>0, <1>1, <1>2, <2>1, <2>2, <2>3, <2>4, <2>5
          DEF TypeInv, AreCandles, RangeComplete, Status
<1>6. CASE Finalize(p)
  <2>1. /\ requests[r].stage = "executed" /\ account' = account
        /\ session' = [session EXCEPT !.status = requests[r].status, !.pending = None]
        /\ requests' = [requests EXCEPT ![r].stage = "final"]
    BY <1>6, <1>p DEF Finalize
  <2>2. /\ requests'[r].lo = requests[r].lo /\ requests'[r].hi = requests[r].hi
        /\ requests'[r].status = requests[r].status
        /\ \A s \in Request \ {r} : requests'[s] = requests[s]
    BY <1>1, <1>2, <2>1
  <2>3. requests[r].status \in {"PAUSED", "COMPLETED"} BY <1>1, <1>2, <2>1 DEF TypeInv
  <2>4. session'.status = requests[r].status /\ session'.pending = None BY <1>3, <2>1
  <2> QED BY <1>0, <1>1, <1>2, <2>1, <2>2, <2>3, <2>4
          DEF TypeInv, AreCandles, RangeComplete, Status
<1>7. CASE FailMarked(p)
  <2>1. UNCHANGED <<account, requests>>
        /\ session' = [session EXCEPT !.status = "RUNNING",
                                      !.pending = IF requests[r].hi = N THEN "COMPLETED" ELSE "PAUSED"]
    BY <1>7, <1>p DEF FailMarked
  <2>2. session'.status = "RUNNING" /\ session'.pending \in {"PAUSED", "COMPLETED"} BY <1>3, <2>1
  <2> QED BY <1>0, <2>1, <2>2 DEF TypeInv, AreCandles, RangeComplete, Status
<1>8. CASE FailUnmarked(p)
  BY <1>0, <1>8 DEF FailUnmarked, rows, TypeInv, AreCandles, RangeComplete
<1> QED BY <1>4, <1>5, <1>6, <1>7, <1>8

LEMMA TypeStep == AccountInv /\ TypeInv /\ [Next]_vars => TypeInv'
<1> SUFFICES ASSUME AccountInv, TypeInv, [Next]_vars PROVE TypeInv' OBVIOUS
<1>1. CASE Revise
  BY <1>1 DEF Revise, rows, TypeInv, AreCandles, RangeComplete
<1>2. CASE UNCHANGED vars
  BY <1>2 DEF vars, data, rows, TypeInv, AreCandles, RangeComplete
<1> QED BY <1>1, <1>2, CollectorTypes, SessionTypes, AdvanceTypes, PipelineTypes DEF Next

\* Type correctness: the cursor stays in the range, a stored response covers a
\* range of candles, the advisory lock is held by the process whose pipeline
\* runs, and no gap, fee or loss takes balance or equity below zero
\* (replay_simulated_execution.enrich_step).
THEOREM TypeCorrect == Spec => []TypeOK
<1>1. AccountInv /\ TypeInv => TypeOK
  <2> SUFFICES ASSUME AccountInv, TypeInv PROVE TypeOK OBVIOUS
  <2>1. \A i \in 1..N : {cache[i], snapshot[i]} \subseteq {Absent} \cup {t[i] : t \in Tapes}
    BY DEF TypeInv, AreCandles
  <2>2. ASSUME NEW r \in Request, requests[r] # NoRequest
        PROVE  /\ requests[r].stage \in Stage
               /\ 1 <= requests[r].lo /\ requests[r].lo <= requests[r].hi /\ requests[r].hi <= N
    <3>1. requests[r].lo \in 1..requests[r].hi /\ requests[r].hi \in 1..N BY <2>2 DEF TypeInv
    <3>2. requests[r].stage \in Stage BY <2>2 DEF AccountInv, RowShapes
    <3> QED BY <3>1, <3>2, ExecutionAssumption
  <2>3. account.balance \in Nat /\ account.equity \in Nat BY DEF TypeInv, IsAccount
  <2>4. session.cursor \in 0..N BY DEF AccountInv, CursorInRange
  <2>5. \A p \in Proc : proc[p] # None <=> lock = p BY DEF AccountInv, LockHeld
  <2> QED BY <2>1, <2>2, <2>3, <2>4, <2>5 DEF TypeOK, TypeInv
<1> QED BY AccountInit, AccountStep, TypeInit, TypeStep, <1>1, PTL DEF Spec

-----------------------------------------------------------------------------
(* Sums over finite sets.  The library's sum is a recursive function on    *)
(* the subsets of a set that takes out one chosen member after the other.  *)

Pick(s) == CHOOSE x \in s : TRUE

\* g sums the weights w over each of the sets D.
Sums(g, w, D) == g = [s \in D |-> IF s = {} THEN 0 ELSE w[Pick(s)] + g[s \ {Pick(s)}]]

Small(S, n) == {s \in SUBSET S : Cardinality(s) <= n}

LEMMA PickedIn == \A s : s # {} => Pick(s) \in s
BY DEF Pick

LEMMA WithoutPicked ==
  ASSUME NEW S, IsFiniteSet(S), NEW s \in SUBSET S, NEW x \in s
  PROVE  /\ IsFiniteSet(s) /\ Cardinality(s) \in Nat \ {0}
         /\ Cardinality(s \ {x}) = Cardinality(s) - 1
<1>1. IsFiniteSet(s) BY FS_Subset
<1>2. Cardinality(s) \in Nat /\ Cardinality(s) # 0 BY <1>1, FS_CardinalityType, FS_EmptySet
<1>3. Cardinality(s \ {x}) = Cardinality(s) - 1 BY <1>1, FS_RemoveElement
<1> QED BY <1>1, <1>2, <1>3

LEMMA SumsExtended ==
  ASSUME NEW S, IsFiniteSet(S), NEW w \in [S -> Int], NEW n \in Nat,
         NEW g \in [Small(S, n) -> Int], Sums(g, w, Small(S, n))
  PROVE  \E h \in [Small(S, n + 1) -> Int] : Sums(h, w, Small(S, n + 1))
<1> DEFINE h == [s \in Small(S, n + 1) |-> IF s = {} THEN 0 ELSE w[Pick(s)] + g[s \ {Pick(s)}]]
<1>1. ASSUME NEW s \in Small(S, n + 1), s # {}
      PROVE  Pick(s) \in S /\ s \ {Pick(s)} \in Small(S, n)
  <2>1. Pick(s) \in s /\ s \in SUBSET S BY <1>1, PickedIn DEF Small
  <2>2. Cardinality(s) \in Nat /\ Cardinality(s) <= n + 1 BY <2>1, WithoutPicked DEF Small
  <2>3. Cardinality(s \ {Pick(s)}) = Cardinality(s) - 1 BY <2>1, WithoutPicked
  <2>4. Cardinality(s \ {Pick(s)}) <= n BY <2>2, <2>3
  <2> QED BY <2>1, <2>4 DEF Small
<1>2. \A s \in Small(S, n) : s \in Small(S, n + 1)
  <2>1. ASSUME NEW s \in Small(S, n) PROVE Cardinality(s) <= n + 1
    <3>1. s \in SUBSET S /\ Cardinality(s) <= n BY DEF Small
    <3>2. Cardinality(s) \in Nat BY <3>1, FS_Subset, FS_CardinalityType
    <3> QED BY <3>1, <3>2
  <2> QED BY <2>1 DEF Small
<1>3. \A s \in Small(S, n) : h[s] = g[s] BY <1>2 DEF Sums
<1>4. ASSUME NEW s \in Small(S, n + 1)
      PROVE  /\ h[s] = IF s = {} THEN 0 ELSE w[Pick(s)] + h[s \ {Pick(s)}]
             /\ h[s] \in Int
  <2>1. CASE s = {} BY <2>1
  <2>2. CASE s # {}
    <3>1. w[Pick(s)] \in Int /\ g[s \ {Pick(s)}] \in Int BY <1>1, <2>2
    <3>2. h[s \ {Pick(s)}] = g[s \ {Pick(s)}] BY <1>1, <1>3, <2>2
    <3>3. h[s] = w[Pick(s)] + g[s \ {Pick(s)}] BY <2>2
    <3> HIDE DEF h
    <3> QED BY <2>2, <3>1, <3>2, <3>3
  <2> QED BY <2>1, <2>2
<1>5. h = [s \in Small(S, n + 1) |-> h[s]] OBVIOUS
<1> HIDE DEF h
<1>6. h \in [Small(S, n + 1) -> Int] BY <1>4, <1>5
<1>7. Sums(h, w, Small(S, n + 1)) BY <1>4, <1>5 DEF Sums
<1> QED BY <1>6, <1>7

LEMMA SumsExist ==
  ASSUME NEW S, IsFiniteSet(S), NEW w \in [S -> Int]
  PROVE  \E g \in [SUBSET S -> Int] : Sums(g, w, SUBSET S)
<1> DEFINE Has(n) == \E g \in [Small(S, n) -> Int] : Sums(g, w, Small(S, n))
           T == {n \in Nat : ~Has(n)}
<1>1. Has(0)
  <2>1. Small(S, 0) = {{}}
    <3>1. ASSUME NEW s \in SUBSET S, Cardinality(s) <= 0 PROVE s = {}
      <4>1. IsFiniteSet(s) BY FS_Subset
      <4>2. Cardinality(s) \in Nat BY <4>1, FS_CardinalityType
      <4>3. Cardinality(s) = 0 BY <3>1, <4>2
      <4> QED BY <4>1, <4>3, FS_EmptySet
    <3>2. Cardinality({}) <= 0 BY FS_EmptySet
    <3> QED BY <3>1, <3>2 DEF Small
  <2> DEFINE g == [s \in {{}} |-> 0]
             e(s) == IF s = {} THEN 0 ELSE w[Pick(s)] + g[s \ {Pick(s)}]
  <2>2. \A s \in {{}} : g[s] = e(s) OBVIOUS
  <2> HIDE DEF e
  <2>3. g = [s \in {{}} |-> e(s)] BY <2>2
  <2>4. g \in [{{}} -> Int] OBVIOUS
  <2> HIDE DEF g
  <2>5. Sums(g, w, {{}}) BY <2>3 DEF Sums, e
  <2> QED BY <2>1, <2>4, <2>5
<1>2. ASSUME NEW n \in Nat, Has(n) PROVE Has(n + 1) BY <1>2, SumsExtended
<1> HIDE DEF Has
<1>3. T = {}
  <2> SUFFICES ASSUME T # {} PROVE FALSE OBVIOUS
  <2>1. PICK n \in T : \A m \in T : n <= m BY LeastNat
  <2>2. n \in Nat /\ ~Has(n) BY <2>1
  <2>3. n # 0 BY <1>1, <2>2
  <2>4. n - 1 \in Nat /\ (n - 1) + 1 = n BY <2>2, <2>3
  <2>5. Has(n - 1)
    <3>1. n - 1 \notin T
      <4> HIDE DEF T
      <4> QED BY <2>1, <2>2
    <3> QED BY <2>4, <3>1
  <2> QED BY <1>2, <2>2, <2>4, <2>5
<1>4. Cardinality(S) \in Nat BY FS_CardinalityType
<1>5. Has(Cardinality(S)) BY <1>3, <1>4
<1>6. Small(S, Cardinality(S)) = SUBSET S BY FS_Subset DEF Small
<1> QED BY <1>5, <1>6 DEF Has

\* g sums the weights w over every subset of S.
SumsAll(g, w, S) == w \in [S -> Int] /\ g \in [SUBSET S -> Int] /\ Sums(g, w, SUBSET S)

TakesOut(g, w, S) == \A s \in SUBSET S : \A x \in s : g[s] = w[x] + g[s \ {x}]

\* The order in which the members are taken out does not show in the sum.
LEMMA SumTakesOut ==
  ASSUME NEW S, IsFiniteSet(S), NEW g, NEW w, SumsAll(g, w, S) PROVE TakesOut(g, w, S)
<1>0. w \in [S -> Int] /\ g \in [SUBSET S -> Int] /\ Sums(g, w, SUBSET S) BY DEF SumsAll
<1> DEFINE Holds(s) == \A x \in s : g[s] = w[x] + g[s \ {x}]
           T == {n \in Nat : \E s \in SUBSET S : Cardinality(s) = n /\ ~Holds(s)}
<1>1. T = {}
  <2> SUFFICES ASSUME T # {} PROVE FALSE OBVIOUS
  <2>1. PICK n \in T : \A m \in T : n <= m BY LeastNat
  <2>2. n \in Nat /\ \E s \in SUBSET S : Cardinality(s) = n /\ ~Holds(s) BY <2>1
  <2>3. PICK s \in SUBSET S : Cardinality(s) = n /\ ~Holds(s) BY <2>2
  <2>4. PICK x \in s : g[s] # w[x] + g[s \ {x}] BY <2>3
  <2>5. ASSUME NEW r \in SUBSET S, Cardinality(r) = n - 1 PROVE Holds(r)
    <3>1. n - 1 \in Nat
      <4>1. Cardinality(r) \in Nat BY FS_Subset, FS_CardinalityType
      <4> QED BY <2>5, <4>1
    <3>2. ~(n <= n - 1) BY <2>2
    <3>3. n - 1 \notin T
      <4> HIDE DEF T
      <4> QED BY <2>1, <3>2
    <3> HIDE DEF Holds
    <3> QED BY <2>5, <3>1, <3>3
  <2>6. PICK y \in s : y = Pick(s) BY PickedIn
  <2>7. g[s] = w[y] + g[s \ {y}] BY <1>0, <2>6 DEF Sums
  <2>8. x # y BY <2>4, <2>7
  <2>9. Cardinality(s \ {x}) = n - 1 /\ Cardinality(s \ {y}) = n - 1 BY <2>3, WithoutPicked
  <2>10. g[s \ {y}] = w[x] + g[(s \ {y}) \ {x}]
    <3>1. Holds(s \ {y}) BY <2>5, <2>9
    <3> QED BY <2>8, <3>1
  <2>11. g[s \ {x}] = w[y] + g[(s \ {x}) \ {y}]
    <3>1. Holds(s \ {x}) BY <2>5, <2>9
    <3> QED BY <2>8, <3>1
  <2>12. (s \ {x}) \ {y} = (s \ {y}) \ {x} OBVIOUS
  <2>13. w[x] \in Int /\ w[y] \in Int /\ g[(s \ {y}) \ {x}] \in Int BY <1>0
  <2>14. PICK a, b, d, u, v, t :
           /\ a = w[x] /\ b = w[y] /\ d = g[(s \ {y}) \ {x}] /\ u = g[s \ {x}] /\ v = g[s \ {y}]
           /\ t = g[s]
    OBVIOUS
  <2>15. t = b + v /\ v = a + d /\ u = b + d /\ t # a + u
    BY <2>4, <2>7, <2>10, <2>11, <2>12, <2>14
  <2> QED BY <2>13, <2>14, <2>15
<1>2. ASSUME NEW s \in SUBSET S PROVE Holds(s)
  <2>1. Cardinality(s) \in Nat BY FS_Subset, FS_CardinalityType
  <2> HIDE DEF Holds
  <2> QED BY <1>1, <2>1
<1> QED BY <1>2 DEF TakesOut

\* Sums agree on the sets they share, whatever else they are sums over.
LEMMA SumsAgree ==
  ASSUME NEW S, IsFiniteSet(S), NEW g, NEW h, NEW w, NEW v, NEW D, NEW E,
         SUBSET S \subseteq D, SUBSET S \subseteq E,
         Sums(g, w, D), Sums(h, v, E), \A x \in S : w[x] = v[x]
  PROVE  g[S] = h[S]
<1> DEFINE T == {n \in Nat : \E s \in SUBSET S : Cardinality(s) = n /\ g[s] # h[s]}
<1>1. T = {}
  <2> SUFFICES ASSUME T # {} PROVE FALSE OBVIOUS
  <2>1. PICK n \in T : \A m \in T : n <= m BY LeastNat
  <2>2. n \in Nat /\ \E s \in SUBSET S : Cardinality(s) = n /\ g[s] # h[s] BY <2>1
  <2>3. PICK s \in SUBSET S : Cardinality(s) = n /\ g[s] # h[s] BY <2>2
  <2>4. /\ g[s] = IF s = {} THEN 0 ELSE w[Pick(s)] + g[s \ {Pick(s)}]
        /\ h[s] = IF s = {} THEN 0 ELSE v[Pick(s)] + h[s \ {Pick(s)}]
    BY DEF Sums
  <2>5. s # {} BY <2>3, <2>4
  <2>6. PICK y \in s : y = Pick(s) BY <2>5, PickedIn
  <2>7. n - 1 \in Nat /\ Cardinality(s \ {y}) = n - 1 BY <2>3, WithoutPicked
  <2>8. g[s \ {y}] = h[s \ {y}]
    <3>1. n - 1 \notin T
      <4>1. ~(n <= n - 1) BY <2>2
      <4> HIDE DEF T
      <4> QED BY <2>1, <4>1
    <3> QED BY <2>7, <3>1
  <2>9. w[y] = v[y] OBVIOUS
  <2> QED BY <2>3, <2>4, <2>5, <2>6, <2>8, <2>9
<1>2. Cardinality(S) \in Nat BY FS_CardinalityType
<1> QED BY <1>1, <1>2

PnlOf(S) == MapThenSumSet(LAMBDA t : t.realizedPnl, S)

FeesOf(S) == MapThenSumSet(LAMBDA t : t.fees, S)

PnlOn(S) == [t \in S |-> t.realizedPnl]

\* Every trade of the set has its result.
Counted(S) == IsFiniteSet(S) /\ \A t \in S : t.realizedPnl \in Int

LEMMA PnlSums ==
  ASSUME NEW S, Counted(S)
  PROVE  \E g \in [SUBSET S -> Int] : Sums(g, PnlOn(S), SUBSET S) /\ PnlOf(S) = g[S]
<1> DEFINE Rec(g) == g = [s \in SUBSET S |->
                            IF s = {} THEN 0
                            ELSE LET x == CHOOSE x \in s : TRUE IN x.realizedPnl + g[s \ {x}]]
<1>1. PnlOf(S) = (CHOOSE g : Rec(g))[S] BY DEF PnlOf, MapThenSumSet, MapThenFoldSet
<1>2. PnlOn(S) \in [S -> Int] BY DEF PnlOn, Counted
<1>3. ASSUME NEW g PROVE Rec(g) <=> Sums(g, PnlOn(S), SUBSET S)
  <2>1. \A s \in SUBSET S : s # {} => PnlOn(S)[Pick(s)] = (CHOOSE x \in s : TRUE).realizedPnl
    BY PickedIn DEF PnlOn, Pick
  <2> DEFINE a(s) == IF s = {} THEN 0
                     ELSE LET x == CHOOSE x \in s : TRUE IN x.realizedPnl + g[s \ {x}]
             b(s) == IF s = {} THEN 0 ELSE PnlOn(S)[Pick(s)] + g[s \ {Pick(s)}]
  <2>2. \A s \in SUBSET S : a(s) = b(s) BY <2>1 DEF Pick
  <2> HIDE DEF a, b
  <2>3. [s \in SUBSET S |-> a(s)] = [s \in SUBSET S |-> b(s)] BY <2>2
  <2> QED BY <2>3 DEF Sums, a, b
<1>4. PICK h \in [SUBSET S -> Int] : Sums(h, PnlOn(S), SUBSET S) BY <1>2, SumsExist DEF Counted
<1>5. PICK g : g = CHOOSE f : Rec(f) OBVIOUS
<1>6. Rec(g)
  <2>1. Rec(h) BY <1>3, <1>4
  <2> HIDE DEF Rec
  <2> QED BY <1>5, <2>1
<1>7. Sums(g, PnlOn(S), SUBSET S) BY <1>3, <1>6
<1>8. ASSUME NEW s \in SUBSET S PROVE g[s] = h[s]
  <2>1. IsFiniteSet(s) /\ SUBSET s \subseteq SUBSET S BY FS_Subset DEF Counted
  <2> QED BY <1>4, <1>7, <2>1, SumsAgree
<1>9. g \in [SUBSET S -> Int]
  <2>1. g = [s \in SUBSET S |-> g[s]] BY <1>7 DEF Sums
  <2> QED BY <1>8, <2>1
<1> HIDE DEF Rec
<1> QED BY <1>1, <1>5, <1>7, <1>9

LEMMA PnlOfNone == PnlOf({}) = 0
<1>1. Counted({}) BY FS_EmptySet DEF Counted
<1>2. PICK g \in [SUBSET {} -> Int] : Sums(g, PnlOn({}), SUBSET {}) /\ PnlOf({}) = g[{}]
  BY <1>1, PnlSums
<1>3. {} \in SUBSET {} OBVIOUS
<1> QED BY <1>2, <1>3 DEF Sums

\* One more trade adds its result.
LEMMA PnlOfOneMore ==
  ASSUME NEW S, Counted(S), NEW t, t \notin S, t.realizedPnl \in Int
  PROVE  /\ Counted(S \cup {t}) /\ PnlOf(S) \in Int
         /\ PnlOf(S \cup {t}) = PnlOf(S) + t.realizedPnl
<1>1. PICK U : U = S \cup {t} OBVIOUS
<1>2. Counted(U) BY <1>1, FS_AddElement DEF Counted
<1>3. PICK g \in [SUBSET U -> Int] : Sums(g, PnlOn(U), SUBSET U) /\ PnlOf(U) = g[U] BY <1>2, PnlSums
<1>4. PICK h \in [SUBSET S -> Int] : Sums(h, PnlOn(S), SUBSET S) /\ PnlOf(S) = h[S] BY PnlSums
<1>5. PnlOn(U) \in [U -> Int] BY <1>2 DEF PnlOn, Counted
<1>6. g[U] = PnlOn(U)[t] + g[U \ {t}]
  <2>1. IsFiniteSet(U) /\ U \in SUBSET U /\ t \in U BY <1>1, <1>2 DEF Counted
  <2>2. SumsAll(g, PnlOn(U), U) BY <1>3, <1>5 DEF SumsAll
  <2>3. TakesOut(g, PnlOn(U), U) BY <2>1, <2>2, SumTakesOut
  <2> QED BY <2>1, <2>3 DEF TakesOut
<1>7. U \ {t} = S BY <1>1
<1>8. g[S] = h[S]
  <2>1. \A x \in S : PnlOn(U)[x] = PnlOn(S)[x] BY <1>1 DEF PnlOn
  <2>2. SUBSET S \subseteq SUBSET U /\ SUBSET S \subseteq SUBSET S BY <1>1
  <2>3. IsFiniteSet(S) BY DEF Counted
  <2> QED BY <1>3, <1>4, <2>1, <2>2, <2>3, SumsAgree
<1>9. PnlOn(U)[t] = t.realizedPnl BY <1>1 DEF PnlOn
<1>10. h[S] \in Int OBVIOUS
<1>11. PICK a, b : a = h[S] /\ b = t.realizedPnl OBVIOUS
<1>12. a \in Int /\ b \in Int /\ PnlOf(U) = b + a /\ PnlOf(S) = a
  BY <1>3, <1>4, <1>6, <1>7, <1>8, <1>9, <1>10, <1>11
<1>13. PnlOf(U) = a + b BY <1>12
<1> QED BY <1>1, <1>2, <1>11, <1>12, <1>13

\* The net result is the gross profit less the gross loss.
LEMMA PnlOfParts ==
  ASSUME NEW S, Counted(S), NEW W, W = {t \in S : t.realizedPnl > 0},
         NEW L, L = {t \in S : t.realizedPnl < 0}
  PROVE  PnlOf(S) = PnlOf(W) - (-PnlOf(L))
<1>1. PICK g \in [SUBSET S -> Int] : Sums(g, PnlOn(S), SUBSET S) /\ PnlOf(S) = g[S] BY PnlSums
<1>2. PnlOn(S) \in [S -> Int] BY DEF PnlOn, Counted
<1>3. ASSUME NEW s \in SUBSET S PROVE PnlOf(s) = g[s]
  <2>1. Counted(s) BY FS_Subset DEF Counted
  <2>2. PICK h \in [SUBSET s -> Int] : Sums(h, PnlOn(s), SUBSET s) /\ PnlOf(s) = h[s] BY <2>1, PnlSums
  <2>3. \A x \in s : PnlOn(s)[x] = PnlOn(S)[x] BY DEF PnlOn
  <2>4. SUBSET s \subseteq SUBSET S /\ SUBSET s \subseteq SUBSET s /\ IsFiniteSet(s)
    BY <2>1 DEF Counted
  <2>5. h[s] = g[s] BY <1>1, <2>2, <2>3, <2>4, SumsAgree
  <2> QED BY <2>2, <2>5
<1>4. \A s \in SUBSET S : \A x \in s : g[s] = x.realizedPnl + g[s \ {x}]
  <2>1. \A s \in SUBSET S : \A x \in s : g[s] = PnlOn(S)[x] + g[s \ {x}]
    <3>1. IsFiniteSet(S) BY DEF Counted
    <3>2. SumsAll(g, PnlOn(S), S) BY <1>1, <1>2 DEF SumsAll
    <3>3. TakesOut(g, PnlOn(S), S) BY <3>1, <3>2, SumTakesOut
    <3> QED BY <3>3 DEF TakesOut
  <2>2. \A s \in SUBSET S : \A x \in s : PnlOn(S)[x] = x.realizedPnl BY DEF PnlOn
  <2> QED BY <2>1, <2>2
<1> DEFINE T == {n \in Nat : \E s \in SUBSET S : Cardinality(s) = n /\ g[s] # g[s \cap W] + g[s \cap L]}
<1>5. T = {}
  <2> SUFFICES ASSUME T # {} PROVE FALSE OBVIOUS
  <2>1. PICK n \in T : \A m \in T : n <= m BY LeastNat
  <2>2. n \in Nat /\ \E s \in SUBSET S : Cardinality(s) = n /\ g[s] # g[s \cap W] + g[s \cap L] BY <2>1
  <2>3. PICK s \in SUBSET S : Cardinality(s) = n /\ g[s] # g[s \cap W] + g[s \cap L] BY <2>2
  <2>4. s # {}
    <3> SUFFICES ASSUME s = {} PROVE FALSE OBVIOUS
    <3>1. g[s] = 0 BY <1>1 DEF Sums
    <3>2. s \cap W = s /\ s \cap L = s OBVIOUS
    <3> QED BY <2>3, <3>1, <3>2
  <2>5. PICK x \in s : TRUE BY <2>4
  <2>6. PICK r \in SUBSET S : r = s \ {x} OBVIOUS
  <2>7. n - 1 \in Nat /\ Cardinality(r) = n - 1
    <3>1. IsFiniteSet(S) BY DEF Counted
    <3>2. Cardinality(s) \in Nat \ {0} /\ Cardinality(s \ {x}) = Cardinality(s) - 1
      BY <3>1, WithoutPicked
    <3> QED BY <2>3, <2>6, <3>2
  <2>8. g[r] = g[r \cap W] + g[r \cap L]
    <3>1. n - 1 \notin T
      <4>1. ~(n <= n - 1) BY <2>2
      <4> HIDE DEF T
      <4> QED BY <2>1, <4>1
    <3> QED BY <2>7, <3>1
  <2>9. g[s] = x.realizedPnl + g[r] BY <1>4, <2>6
  <2>10. /\ x \in W => s \cap W \in SUBSET S /\ (s \cap W) \ {x} = r \cap W /\ x \in s \cap W
         /\ x \notin W => s \cap W = r \cap W
         /\ x \in L => s \cap L \in SUBSET S /\ (s \cap L) \ {x} = r \cap L /\ x \in s \cap L
         /\ x \notin L => s \cap L = r \cap L
    BY <2>6
  <2>11. /\ x \in W => g[s \cap W] = x.realizedPnl + g[r \cap W]
         /\ x \in L => g[s \cap L] = x.realizedPnl + g[r \cap L]
    BY <1>4, <2>10
  <2>12. /\ x.realizedPnl \in Int /\ g[r \cap W] \in Int /\ g[r \cap L] \in Int /\ g[r] \in Int
         /\ x \in W <=> x.realizedPnl > 0
         /\ x \in L <=> x.realizedPnl < 0
    BY DEF Counted
  <2>13. PICK a, b, d, e, u, v, t :
           /\ a = x.realizedPnl /\ b = g[r \cap W] /\ d = g[r \cap L] /\ e = g[r]
           /\ u = g[s \cap W] /\ v = g[s \cap L] /\ t = g[s]
    OBVIOUS
  <2>14. /\ a \in Int /\ b \in Int /\ d \in Int /\ e = b + d /\ t = a + e /\ t # u + v
         /\ u = IF a > 0 THEN a + b ELSE b
         /\ v = IF a < 0 THEN a + d ELSE d
    <3>1. a \in Int /\ b \in Int /\ d \in Int BY <2>12, <2>13
    <3>2. e = b + d /\ t = a + e /\ t # u + v BY <2>3, <2>8, <2>9, <2>13
    <3>3. x \in W <=> a > 0 BY <2>12, <2>13
    <3>4. x \in L <=> a < 0 BY <2>12, <2>13
    <3>5. u = IF x \in W THEN a + b ELSE b BY <2>10, <2>11, <2>13
    <3>6. v = IF x \in L THEN a + d ELSE d BY <2>10, <2>11, <2>13
    <3> QED BY <3>1, <3>2, <3>3, <3>4, <3>5, <3>6
  <2> QED BY <2>14
<1>6. Cardinality(S) \in Nat BY FS_CardinalityType DEF Counted
<1>7. g[S] = g[S \cap W] + g[S \cap L] BY <1>5, <1>6
<1>8. S \cap W = W /\ S \cap L = L OBVIOUS
<1>9. PnlOf(W) = g[W] /\ PnlOf(L) = g[L] /\ g[W] \in Int /\ g[L] \in Int BY <1>3
<1>10. PnlOf(S) = PnlOf(W) + PnlOf(L) /\ PnlOf(W) \in Int /\ PnlOf(L) \in Int
  BY <1>1, <1>7, <1>8, <1>9
<1> QED BY <1>10

\* No trade is open, or one.
LEMMA FeesOfOpen ==
  /\ FeesOf({}) = 0
  /\ \A t : t.fees \in Int => FeesOf({t}) = t.fees
<1>1. FeesOf({}) = 0
  <2> DEFINE Rec(g) == g = [s \in SUBSET {} |->
                              IF s = {} THEN 0
                              ELSE LET x == CHOOSE x \in s : TRUE IN x.fees + g[s \ {x}]]
  <2>1. FeesOf({}) = (CHOOSE g : Rec(g))[{}] BY DEF FeesOf, MapThenSumSet, MapThenFoldSet
  <2>2. PICK h : h = [s \in SUBSET {} |-> 0] OBVIOUS
  <2>3. Rec(h)
    <3> DEFINE e(s) == IF s = {} THEN 0
                       ELSE LET x == CHOOSE x \in s : TRUE IN x.fees + h[s \ {x}]
    <3>1. \A s \in SUBSET {} : 0 = e(s) OBVIOUS
    <3> HIDE DEF e
    <3>2. h = [s \in SUBSET {} |-> e(s)] BY <2>2, <3>1
    <3> QED BY <3>2 DEF e
  <2>4. PICK g : g = CHOOSE f : Rec(f) OBVIOUS
  <2>5. Rec(g)
    <3> HIDE DEF Rec
    <3> QED BY <2>3, <2>4
  <2>6. g[{}] = 0 BY <2>5
  <2> HIDE DEF Rec
  <2> QED BY <2>1, <2>4, <2>6
<1>2. ASSUME NEW t, t.fees \in Int PROVE FeesOf({t}) = t.fees
  <2> DEFINE Rec(g) == g = [s \in SUBSET {t} |->
                              IF s = {} THEN 0
                              ELSE LET x == CHOOSE x \in s : TRUE IN x.fees + g[s \ {x}]]
  <2>1. FeesOf({t}) = (CHOOSE g : Rec(g))[{t}] BY DEF FeesOf, MapThenSumSet, MapThenFoldSet
  <2>2. PICK h : h = [s \in SUBSET {t} |-> IF s = {} THEN 0 ELSE t.fees] OBVIOUS
  <2>3. \A s \in SUBSET {t} : s = {} \/ s = {t} OBVIOUS
  <2>4. (CHOOSE x \in {t} : TRUE) = t /\ {t} \ {t} = {} OBVIOUS
  <2>5. Rec(h)
    <3> DEFINE e(s) == IF s = {} THEN 0
                       ELSE LET x == CHOOSE x \in s : TRUE IN x.fees + h[s \ {x}]
    <3>1. h[{}] = 0 BY <2>2
    <3>2. e({}) = 0 OBVIOUS
    <3>3. e({t}) = t.fees
      <4>1. {t} # {} OBVIOUS
      <4>2. e({t}) = t.fees + h[{}] BY <2>4, <4>1
      <4> HIDE DEF e
      <4> QED BY <1>2, <3>1, <4>2
    <3> HIDE DEF e
    <3>4. \A s \in SUBSET {t} : (IF s = {} THEN 0 ELSE t.fees) = e(s)
      <4>1. {t} # {} OBVIOUS
      <4> QED BY <2>3, <3>2, <3>3, <4>1
    <3>5. h = [s \in SUBSET {t} |-> e(s)] BY <2>2, <3>4
    <3> QED BY <3>5 DEF e
  <2>6. PICK g : g = CHOOSE f : Rec(f) OBVIOUS
  <2>7. Rec(g)
    <3> HIDE DEF Rec
    <3> QED BY <2>5, <2>6
  <2>8. g[{}] = 0 BY <2>7
  <2>9. g[{t}] = t.fees + g[{}]
    <3>1. {t} \in SUBSET {t} /\ {t} # {} OBVIOUS
    <3> QED BY <2>4, <2>7, <3>1
  <2>10. g[{t}] = t.fees BY <1>2, <2>8, <2>9
  <2> HIDE DEF Rec
  <2> QED BY <2>1, <2>6, <2>10
<1> QED BY <1>1, <1>2

-----------------------------------------------------------------------------
(* The drawdown, kept mark by mark, is the largest fall.                   *)

EquityMark == [candle : Int, equity : Nat]

\* The session starts at its initial balance, before any mark.
EquityAt(points) ==
  [k \in 0..Len(points) |-> IF k = 0 THEN InitialBalance ELSE points[k].equity]

\* g is the drawdown after each of the first n marks.
Draws(g, points, n) ==
  g = [k \in 0..n |-> IF k = 0 THEN NewDrawdown ELSE AdvanceDrawdown(g[k - 1], points[k].equity)]

LEMMA DrawsExtended ==
  ASSUME NEW points, NEW n \in Nat, NEW g, Draws(g, points, n)
  PROVE  \E h : Draws(h, points, n + 1)
<1> DEFINE h == [k \in 0..(n + 1) |-> IF k = 0 THEN NewDrawdown
                                      ELSE AdvanceDrawdown(g[k - 1], points[k].equity)]
           e(k) == IF k = 0 THEN NewDrawdown ELSE AdvanceDrawdown(h[k - 1], points[k].equity)
<1>1. \A k \in 0..n : h[k] = g[k] BY DEF Draws
<1>2. ASSUME NEW k \in 0..(n + 1) PROVE h[k] = e(k)
  <2>1. CASE k = 0 BY <2>1
  <2>2. CASE k # 0
    <3>1. k - 1 \in 0..n BY <2>2
    <3>2. h[k] = AdvanceDrawdown(g[k - 1], points[k].equity) BY <2>2
    <3>3. h[k - 1] = g[k - 1] BY <1>1, <3>1
    <3> HIDE DEF h
    <3> QED BY <2>2, <3>2, <3>3
  <2> QED BY <2>1, <2>2
<1> HIDE DEF e
<1>3. h = [k \in 0..(n + 1) |-> e(k)] BY <1>2
<1>4. Draws(h, points, n + 1) BY <1>3 DEF Draws, e
<1> QED BY <1>4

LEMMA DrawsExist == ASSUME NEW points, NEW n \in Nat PROVE \E g : Draws(g, points, n)
<1> DEFINE Has(i) == \E g : Draws(g, points, i)
           T == {i \in Nat : ~Has(i)}
<1>1. Has(0)
  <2>1. PICK g : g = [k \in 0..0 |-> NewDrawdown] OBVIOUS
  <2> DEFINE e(k) == IF k = 0 THEN NewDrawdown ELSE AdvanceDrawdown(g[k - 1], points[k].equity)
  <2>2. \A k \in 0..0 : NewDrawdown = e(k) OBVIOUS
  <2> HIDE DEF e
  <2>3. g = [k \in 0..0 |-> e(k)] BY <2>1, <2>2
  <2>4. Draws(g, points, 0) BY <2>3 DEF Draws, e
  <2> QED BY <2>4
<1>2. ASSUME NEW i \in Nat, Has(i) PROVE Has(i + 1) BY <1>2, DrawsExtended
<1> HIDE DEF Has
<1>3. T = {}
  <2> SUFFICES ASSUME T # {} PROVE FALSE OBVIOUS
  <2>1. PICK i \in T : \A m \in T : i <= m BY LeastNat
  <2>2. i \in Nat /\ ~Has(i) BY <2>1
  <2>3. i - 1 \in Nat /\ (i - 1) + 1 = i BY <1>1, <2>2
  <2>4. i - 1 \notin T
    <3> HIDE DEF T
    <3> QED BY <2>1, <2>2
  <2>5. Has(i - 1) BY <2>3, <2>4
  <2> QED BY <1>2, <2>2, <2>3, <2>5
<1>4. Has(n) BY <1>3
<1> QED BY <1>4 DEF Has

\* d is what the first k values of e show: their peak and their largest fall.
DrawnTo(d, e, k) ==
  /\ d.peak \in Int /\ d.maxAmount \in Int
  /\ \A j \in 0..k : e[j] <= d.peak
  /\ \E j \in 0..k : d.peak = e[j]
  /\ \A a, b \in 0..k : a <= b => e[a] - e[b] <= d.maxAmount
  /\ \E a, b \in 0..k : a <= b /\ d.maxAmount = e[a] - e[b]

LEMMA DrawnOneMore ==
  ASSUME NEW k \in Nat, NEW e \in [0..(k + 1) -> Int], NEW d, DrawnTo(d, e, k)
  PROVE  DrawnTo(AdvanceDrawdown(d, e[k + 1]), e, k + 1)
<1>1. PICK x \in Int : x = e[k + 1]
  <2>1. k + 1 \in 0..(k + 1) OBVIOUS
  <2> QED BY <2>1
<1>2. PICK peak, most : peak = Max({d.peak, x}) /\ most = Max({d.maxAmount, peak - x}) OBVIOUS
<1>3. d.peak \in Int /\ d.maxAmount \in Int BY DEF DrawnTo
<1>4. peak \in {d.peak, x} /\ peak >= d.peak /\ peak >= x BY <1>2, <1>3, MinMaxOfTwo
<1>5. peak \in Int /\ peak - x \in Int BY <1>3, <1>4
<1>6. most \in {d.maxAmount, peak - x} /\ most >= d.maxAmount /\ most >= peak - x
  BY <1>2, <1>3, <1>5, MinMaxOfTwo
<1>7. most \in Int BY <1>3, <1>5, <1>6
<1>8. PICK v : v = AdvanceDrawdown(d, e[k + 1]) OBVIOUS
<1>9. v.peak = peak /\ v.maxAmount = most BY <1>1, <1>2, <1>8 DEF AdvanceDrawdown
<1>10. 0..(k + 1) = 0..k \cup {k + 1} /\ k + 1 \in 0..(k + 1) OBVIOUS
<1>11. \A j \in 0..k : e[j] \in Int /\ e[j] <= d.peak BY <1>10 DEF DrawnTo
<1>12. ASSUME NEW j \in 0..(k + 1) PROVE e[j] <= peak
  <2>1. CASE j = k + 1 BY <1>1, <1>4, <2>1
  <2>2. CASE j \in 0..k
    <3>1. e[j] \in Int /\ e[j] <= d.peak BY <1>11, <2>2
    <3> QED BY <1>3, <1>4, <1>5, <3>1
  <2> QED BY <1>10, <2>1, <2>2
<1>13. \E j \in 0..(k + 1) : peak = e[j]
  <2>1. CASE peak = x BY <1>1, <1>10, <2>1
  <2>2. CASE peak = d.peak
    <3>1. PICK j \in 0..k : d.peak = e[j] BY DEF DrawnTo
    <3> QED BY <1>10, <2>2, <3>1
  <2> QED BY <1>4, <2>1, <2>2
<1>14. ASSUME NEW a \in 0..(k + 1), NEW b \in 0..(k + 1), a <= b PROVE e[a] - e[b] <= most
  <2>1. PICK u, w : u = e[a] /\ w = e[b] OBVIOUS
  <2>2. u \in Int /\ w \in Int BY <2>1
  <2>3. CASE b = k + 1
    <3>1. u <= peak /\ w = x BY <1>1, <1>12, <2>1, <2>3
    <3>2. u - w <= peak - x BY <1>5, <2>2, <3>1
    <3>3. u - w \in Int BY <2>2
    <3>4. PICK f, h : f = u - w /\ h = peak - x OBVIOUS
    <3>5. f \in Int /\ h \in Int /\ f <= h /\ most >= h BY <1>5, <1>6, <3>2, <3>3, <3>4
    <3>6. f <= most BY <1>7, <3>5
    <3> QED BY <2>1, <3>4, <3>6
  <2>4. CASE b # k + 1
    <3>1. b \in 0..k /\ a \in 0..k BY <1>14, <2>4
    <3>2. u - w <= d.maxAmount BY <1>14, <2>1, <3>1 DEF DrawnTo
    <3>3. u - w \in Int BY <2>2
    <3>4. PICK f : f = u - w OBVIOUS
    <3>5. f <= most BY <1>3, <1>6, <1>7, <3>2, <3>3, <3>4
    <3> QED BY <2>1, <3>4, <3>5
  <2> QED BY <2>3, <2>4
<1>15. \E a, b \in 0..(k + 1) : a <= b /\ most = e[a] - e[b]
  <2>1. CASE most = peak - x
    <3>1. PICK j \in 0..(k + 1) : peak = e[j] BY <1>13
    <3>2. j <= k + 1 OBVIOUS
    <3> QED BY <1>1, <1>10, <2>1, <3>1, <3>2
  <2>2. CASE most = d.maxAmount
    <3>1. PICK a \in 0..k, b \in 0..k : a <= b /\ d.maxAmount = e[a] - e[b] BY DEF DrawnTo
    <3>2. a \in 0..(k + 1) /\ b \in 0..(k + 1) BY <1>10
    <3> QED BY <2>2, <3>1, <3>2
  <2> QED BY <1>6, <2>1, <2>2
<1>16. DrawnTo(v, e, k + 1) BY <1>5, <1>7, <1>9, <1>12, <1>13, <1>14, <1>15 DEF DrawnTo
<1> QED BY <1>8, <1>16

LEMMA DrawdownDrawn ==
  ASSUME NEW points \in Seq(EquityMark)
  PROVE  DrawnTo(calculate_drawdown(points), EquityAt(points), Len(points))
<1>1. PICK n \in Nat : n = Len(points) OBVIOUS
<1>2. PICK g : Draws(g, points, n) BY DrawsExist
<1>3. Draws(CHOOSE f : Draws(f, points, n), points, n) BY <1>2
<1>4. PICK r : Draws(r, points, n) /\ calculate_drawdown(points) = r[n]
  <2>1. calculate_drawdown(points) = (CHOOSE f : Draws(f, points, n))[n]
    BY <1>1 DEF calculate_drawdown, Draws
  <2> QED BY <1>3, <2>1
<1>5. PICK e : e = EquityAt(points) OBVIOUS
<1>6. e \in [0..n -> Int] /\ e[0] = InitialBalance /\ \A k \in 1..n : e[k] = points[k].equity
  <2>1. \A k \in 1..n : points[k].equity \in Int
    <3>1. PICK M : M = EquityMark OBVIOUS
    <3>2. points \in Seq(M) BY <3>1
    <3>3. \A k \in 1..n : points[k] \in M BY <1>1, <3>2
    <3> QED BY <3>1, <3>3 DEF EquityMark
  <2>2. InitialBalance \in Int BY ExecutionAssumption
  <2> QED BY <1>1, <1>5, <2>1, <2>2 DEF EquityAt
<1> DEFINE T == {k \in 0..n : ~DrawnTo(r[k], e, k)}
<1>7. T = {}
  <2> SUFFICES ASSUME T # {} PROVE FALSE OBVIOUS
  <2>1. T \in SUBSET Nat OBVIOUS
  <2>2. PICK k \in T : \A m \in T : k <= m BY <2>1, LeastNat
  <2>3. k \in 0..n /\ ~DrawnTo(r[k], e, k) BY <2>2
  <2>4. r[k] = IF k = 0 THEN NewDrawdown ELSE AdvanceDrawdown(r[k - 1], points[k].equity)
    BY <1>4, <2>3 DEF Draws
  <2>5. CASE k = 0
    <3>1. r[k].peak = InitialBalance /\ r[k].maxAmount = 0 BY <2>4, <2>5 DEF NewDrawdown
    <3>2. PICK i \in Int : i = InitialBalance BY ExecutionAssumption
    <3>3. \A j \in 0..0 : j = 0 OBVIOUS
    <3>4. 0 \in 0..0 /\ i - i = 0 /\ i <= i /\ 0 <= 0 OBVIOUS
    <3>5. DrawnTo(r[k], e, 0) BY <1>6, <3>1, <3>2, <3>3, <3>4 DEF DrawnTo
    <3> QED BY <2>3, <2>5, <3>5
  <2>6. CASE k # 0
    <3>1. k - 1 \in 0..n /\ k \in 1..n /\ ~(k <= k - 1) BY <2>3, <2>6
    <3>2. k - 1 \notin T
      <4> HIDE DEF T
      <4> QED BY <2>2, <3>1
    <3>3. PICK j \in Nat : j = k - 1 BY <3>1
    <3>4. DrawnTo(r[j], e, j) BY <3>1, <3>2, <3>3
    <3>5. PICK s : s = [i \in 0..(j + 1) |-> e[i]] OBVIOUS
    <3>6. j + 1 = k /\ \A i \in 0..(j + 1) : i \in 0..n BY <3>1, <3>3
    <3>7. s \in [0..(j + 1) -> Int] BY <1>6, <3>5, <3>6
    <3>8. \A i \in 0..(j + 1) : s[i] = e[i] BY <3>5
    <3>9. DrawnTo(r[j], s, j)
      <4>1. \A i \in 0..j : s[i] = e[i] BY <3>8
      <4> QED BY <3>4, <4>1 DEF DrawnTo
    <3>10. DrawnTo(AdvanceDrawdown(r[j], s[j + 1]), s, j + 1) BY <3>7, <3>9, DrawnOneMore
    <3>11. r[k] = AdvanceDrawdown(r[j], s[j + 1])
      <4>0. j + 1 \in 0..(j + 1) BY <3>3
      <4>1. s[j + 1] = points[k].equity BY <1>6, <3>1, <3>6, <3>8, <4>0
      <4> QED BY <2>4, <2>6, <3>3, <4>1
    <3>12. DrawnTo(r[k], s, k) BY <3>6, <3>10, <3>11
    <3>13. DrawnTo(r[k], e, k)
      <4>1. \A i \in 0..k : s[i] = e[i] BY <3>6, <3>8
      <4> QED BY <3>12, <4>1 DEF DrawnTo
    <3> QED BY <2>3, <3>13
  <2> QED BY <2>5, <2>6
<1>8. n \in 0..n OBVIOUS
<1>9. DrawnTo(r[n], e, n) BY <1>7, <1>8
<1> QED BY <1>1, <1>4, <1>5, <1>9

LEMMA DrawdownIsLargestFall ==
  ASSUME NEW points \in Seq(EquityMark), NEW e, e = EquityAt(points), NEW n, n = Len(points)
  PROVE  calculate_drawdown(points).maxAmount =
           Max({e[pair[1]] - e[pair[2]] : pair \in {q \in (0..n) \X (0..n) : q[1] <= q[2]}})
<1> DEFINE F == {e[pair[1]] - e[pair[2]] : pair \in {q \in (0..n) \X (0..n) : q[1] <= q[2]}}
<1>1. PICK m \in Int : /\ m = calculate_drawdown(points).maxAmount
                       /\ \A a, b \in 0..n : a <= b => e[a] - e[b] <= m
                       /\ \E a, b \in 0..n : a <= b /\ m = e[a] - e[b]
  BY DrawdownDrawn DEF DrawnTo
<1>2. m \in F
  <2>1. PICK a \in 0..n, b \in 0..n : a <= b /\ m = e[a] - e[b] BY <1>1
  <2>2. PICK q : q = <<a, b>> OBVIOUS
  <2>3. q \in (0..n) \X (0..n) /\ q[1] = a /\ q[2] = b BY <2>2
  <2> QED BY <2>1, <2>3
<1>3. \A y \in F : y <= m
  <2> SUFFICES ASSUME NEW q \in (0..n) \X (0..n), q[1] <= q[2] PROVE e[q[1]] - e[q[2]] <= m OBVIOUS
  <2> QED BY <1>1
<1>4. \A y \in F : y \in Int
  <2>1. \A k \in 0..n : e[k] \in Int
    <3>1. PICK M : M = EquityMark OBVIOUS
    <3>2. points \in Seq(M) /\ n \in Nat BY <3>1
    <3>3. \A k \in 1..n : points[k] \in M BY <3>2
    <3>4. \A k \in 1..n : points[k].equity \in Int BY <3>1, <3>3 DEF EquityMark
    <3> QED BY <3>2, <3>4, ExecutionAssumption DEF EquityAt
  <2> QED BY <2>1
<1>5. PICK z : z = Max(F) OBVIOUS
<1>6. PICK G : G = F OBVIOUS
<1> HIDE DEF F
<1>7. z \in G /\ \A y \in G : z >= y
  <2>1. \A y \in G : m >= y BY <1>1, <1>3, <1>4, <1>6
  <2>2. m \in G BY <1>2, <1>6
  <2>3. z = CHOOSE u \in G : \A y \in G : u >= y BY <1>5, <1>6 DEF Max
  <2> QED BY <2>1, <2>2, <2>3
<1>8. z \in Int /\ z >= m /\ z <= m BY <1>2, <1>3, <1>4, <1>6, <1>7
<1>9. z = m BY <1>8
<1> QED BY <1>1, <1>5, <1>9 DEF F

-----------------------------------------------------------------------------
\* The curve of two points has the first mark and the last.
LEMMA SampleOfTwo ==
  ASSUME NEW n \in Nat \ {0}
  PROVE  {0, n - 1} \subseteq equity_sample_indexes(n, 2) /\ Cardinality(equity_sample_indexes(n, 2)) <= 2
<1>1. CASE n <= 2
  <2>1. equity_sample_indexes(n, 2) = 0..(n - 1) BY <1>1 DEF equity_sample_indexes
  <2>2. n - 1 \in Int /\ ~(0 > n - 1) /\ (n - 1) - 0 + 1 = n OBVIOUS
  <2>3. Cardinality(0..(n - 1)) = n BY <2>2, FS_Interval
  <2>4. 0 \in 0..(n - 1) /\ n - 1 \in 0..(n - 1) BY <2>2
  <2> QED BY <1>1, <2>1, <2>3, <2>4
<1>2. CASE ~(n <= 2)
  <2>1. equity_sample_indexes(n, 2) = {(k * (n - 1)) \div (2 - 1) : k \in 0..(2 - 1)}
    BY <1>2 DEF equity_sample_indexes
  <2>2. (0 * (n - 1)) \div (2 - 1) = 0 /\ (1 * (n - 1)) \div (2 - 1) = n - 1
    <3>1. 2 - 1 = 1 OBVIOUS
    <3>2. n - 1 \in Nat OBVIOUS
    <3>3. \A a \in Nat : a \div 1 = a OBVIOUS
    <3>4. 0 * (n - 1) = 0 /\ 1 * (n - 1) = n - 1 BY <3>2
    <3> QED BY <3>1, <3>2, <3>3, <3>4
  <2>3. 0..(2 - 1) = {0, 1} OBVIOUS
  <2>4. equity_sample_indexes(n, 2) = {0, n - 1} BY <2>1, <2>2, <2>3
  <2>5. 0 # n - 1 BY <1>2
  <2>6. Cardinality({0, n - 1}) = 2
    <3>1. IsFiniteSet({0}) /\ Cardinality({0}) = 1 BY FS_Singleton
    <3>2. Cardinality({0} \cup {n - 1}) = 2 BY <2>5, <3>1, FS_AddElement
    <3>3. {0} \cup {n - 1} = {0, n - 1} OBVIOUS
    <3> QED BY <3>2, <3>3
  <2> QED BY <2>4, <2>6
<1> QED BY <1>1, <1>2

-----------------------------------------------------------------------------
(* The books of an account: its balance is what its trades explain.        *)

OpenOf(x) == IF x.open = NoTrade THEN {} ELSE {x.open}

\* No other trade was entered at the open one's candle, so closing it adds a row.
Booked(x) ==
  /\ Counted(x.closed)
  /\ x.open # NoTrade =>
       /\ {"entryTime", "realizedPnl"} \subseteq DOMAIN x.open /\ x.open.fees \in Int
       /\ \A t \in x.closed : t.entryTime # x.open.entryTime
  /\ x.balance - InitialBalance = PnlOf(x.closed) - FeesOf(OpenOf(x))

\* The books are in order until an entry fails on the primary key, and then the
\* whole transaction is rolled back.
InOrder(x) ==
  /\ IsAccount(x) /\ x.marks \in Seq(EquityMark) /\ x.failed \in BOOLEAN
  /\ ~x.failed => Booked(x)

LEMMA FreshInOrder == InOrder(FreshAccount) /\ ~FreshAccount.failed
<1>1. PICK x : x = FreshAccount OBVIOUS
<1>2. /\ x.balance = InitialBalance /\ x.open = NoTrade /\ x.closed = {} /\ x.marks = <<>>
      /\ x.failed = FALSE
  BY <1>1 DEF FreshAccount
<1>3. Counted({}) BY FS_EmptySet DEF Counted
<1>4. InitialBalance - InitialBalance = 0 - 0 BY ExecutionAssumption
<1>5. OpenOf(x) = {} BY <1>2 DEF OpenOf
<1>6. Booked(x) BY <1>2, <1>3, <1>4, <1>5, PnlOfNone, FeesOfOpen DEF Booked
<1>7. <<>> \in Seq(EquityMark) OBVIOUS
<1> QED BY <1>1, <1>2, <1>6, <1>7, FreshIsAccount DEF InOrder

LEMMA ClosedInOrder ==
  ASSUME NEW x, InOrder(x), x.open # NoTrade, NEW i, NEW price \in Int
  PROVE  InOrder(CloseTrade(x, i, price))
<1>0. IsAccount(x) BY DEF InOrder
<1>1. PICK y : y = CloseTrade(x, i, price) OBVIOUS
<1>2. PICK delta \in Int : delta = DeltaOf(x, price) BY <1>0, LossIsLimited
<1>3. PICK t : t = [x.open EXCEPT !.exitTime = i, !.realizedPnl = delta - x.open.fees,
                                  !.fees = @ + Fee(price, x.open.quantity)]
  OBVIOUS
<1>4. /\ y.balance = x.balance + delta /\ y.open = NoTrade /\ y.closed = x.closed \cup {t}
      /\ y.marks = x.marks /\ y.failed = x.failed
  BY <1>0, <1>1, <1>2, <1>3 DEF CloseTrade, IsAccount, DeltaOf
<1>5. IsAccount(y) BY <1>0, <1>1, ClosedIsAccount
<1>6. ASSUME Booked(x) PROVE Booked(y)
  <2>1. /\ Counted(x.closed) /\ {"entryTime", "realizedPnl"} \subseteq DOMAIN x.open
        /\ x.open.fees \in Int /\ \A u \in x.closed : u.entryTime # x.open.entryTime
        /\ x.balance - InitialBalance = PnlOf(x.closed) - FeesOf(OpenOf(x))
    BY <1>6 DEF Booked
  <2>2. t.entryTime = x.open.entryTime /\ t.realizedPnl = delta - x.open.fees BY <1>3, <2>1
  <2>3. t \notin x.closed BY <2>1, <2>2
  <2>4. PICK f \in Int : f = x.open.fees BY <2>1
  <2>5. delta - f \in Int /\ t.realizedPnl = delta - f BY <2>2, <2>4
  <2>6. PICK a \in Int : a = PnlOf(x.closed) BY <2>1, <2>3, <2>5, PnlOfOneMore
  <2>7. Counted(y.closed) /\ PnlOf(y.closed) = a + (delta - f)
    BY <1>4, <2>1, <2>3, <2>5, <2>6, PnlOfOneMore
  <2>8. OpenOf(x) = {x.open} /\ OpenOf(y) = {} BY <1>4 DEF OpenOf
  <2>9. FeesOf(OpenOf(x)) = f /\ FeesOf(OpenOf(y)) = 0 BY <2>4, <2>8, FeesOfOpen
  <2>10. PICK b, s : b = x.balance /\ s = InitialBalance OBVIOUS
  <2>11. b \in Int /\ s \in Int BY <1>0, <2>10, ExecutionAssumption DEF IsAccount
  <2>12. b - s = a - f BY <2>1, <2>6, <2>9, <2>10
  <2>13. (b + delta) - s = (a + (delta - f)) - 0 BY <2>11, <2>12
  <2>14. y.balance - InitialBalance = PnlOf(y.closed) - FeesOf(OpenOf(y))
    BY <1>4, <2>7, <2>9, <2>10, <2>13
  <2> QED BY <1>4, <2>7, <2>14 DEF Booked
<1>7. InOrder(y) BY <1>4, <1>5, <1>6 DEF InOrder
<1> QED BY <1>1, <1>7

LEMMA OpenedInOrder ==
  ASSUME NEW x, InOrder(x), NEW i \in 1..N, NEW c, ValidCandle(c), NEW final,
         evaluate(i, c).eligible, ~Skipped(x, i, c, evaluate(i, c), final)
  PROVE  InOrder(OpenTrade(x, i, c, evaluate(i, c)))
<1>0. IsAccount(x) /\ x.open = NoTrade BY DEF InOrder, Skipped, Barred
<1>1. PICK d : d = evaluate(i, c) OBVIOUS
<1>2. PICK y : y = OpenTrade(x, i, c, d) OBVIOUS
<1>3. IsAccount(y) BY <1>0, <1>1, <1>2, OpenedIsAccount
<1>4. PICK q, f : q = EntryQuantity(d, c.close, x.equity) /\ f = Fee(c.close, q) OBVIOUS
<1>5. /\ y.open = [entryTime |-> i, side |-> d.signal, entryPrice |-> c.close,
                   quantity |-> q, stop |-> d.stopLoss, target |-> d.takeProfit,
                   fees |-> f, exitTime |-> 0, realizedPnl |-> 0]
      /\ y.balance = x.balance - f /\ y.closed = x.closed /\ y.marks = x.marks
      /\ y.failed = (x.failed \/ \E t \in x.closed : t.entryTime = i)
  BY <1>0, <1>2, <1>4 DEF OpenTrade, IsAccount
<1>6. i # 0 /\ i \in Int BY ExecutionAssumption
<1>7. /\ y.open.entryTime = i /\ y.open.quantity = q /\ y.open.fees = f
      /\ {"entryTime", "realizedPnl"} \subseteq DOMAIN y.open
  BY <1>5
<1>8. y.open # NoTrade BY <1>6, <1>7 DEF NoTrade
<1>9. f \in Int
  <2>1. q \in Int BY <1>3, <1>7, <1>8 DEF IsAccount, IsTrade
  <2>2. c.close \in Int BY DEF ValidCandle
  <2> QED BY <1>4, <2>1, <2>2, FeeIsInt
<1>10. ASSUME ~y.failed PROVE Booked(y)
  <2>1. ~x.failed /\ \A t \in x.closed : t.entryTime # i BY <1>5, <1>10
  <2>2. Booked(x) BY <2>1 DEF InOrder
  <2>3. OpenOf(x) = {} /\ OpenOf(y) = {y.open} BY <1>0, <1>8 DEF OpenOf
  <2>4. FeesOf(OpenOf(x)) = 0 /\ FeesOf(OpenOf(y)) = f BY <1>7, <1>9, <2>3, FeesOfOpen
  <2>5. PICK a, b, s : a = PnlOf(x.closed) /\ b = x.balance /\ s = InitialBalance OBVIOUS
  <2>6. b \in Int /\ s \in Int BY <1>0, <2>5, ExecutionAssumption DEF IsAccount
  <2>7. a \in Int
    <3>1. PICK g \in [SUBSET x.closed -> Int] : PnlOf(x.closed) = g[x.closed]
      BY <2>2, PnlSums DEF Booked
    <3>2. x.closed \in SUBSET x.closed OBVIOUS
    <3> QED BY <2>5, <3>1, <3>2
  <2>8. b - s = a - 0 BY <2>2, <2>4, <2>5 DEF Booked
  <2>9. (b - f) - s = a - f BY <1>9, <2>6, <2>7, <2>8
  <2>10. y.balance - InitialBalance = PnlOf(y.closed) - FeesOf(OpenOf(y))
    BY <1>5, <2>4, <2>5, <2>9
  <2> QED BY <1>5, <1>7, <1>9, <2>1, <2>2, <2>10 DEF Booked
<1>11. InOrder(y)
  <2>1. y.failed \in BOOLEAN /\ y.marks \in Seq(EquityMark) BY <1>5 DEF InOrder
  <2> QED BY <1>3, <1>10, <2>1 DEF InOrder
<1> QED BY <1>1, <1>2, <1>11

LEMMA MarkedInOrder ==
  ASSUME NEW x, InOrder(x), NEW i \in 1..N, NEW c, ValidCandle(c)
  PROVE  InOrder(Mark(x, i, c))
<1>0. IsAccount(x) BY DEF InOrder
<1>1. PICK e \in Nat : e = MarkedEquity(x, c) BY <1>0, MarkIsNat
<1>2. PICK m : m = [candle |-> i, equity |-> e] OBVIOUS
<1>3. PICK y : y = Mark(x, i, c) OBVIOUS
<1>4. /\ DOMAIN y = DOMAIN x /\ y.balance = x.balance /\ y.open = x.open /\ y.closed = x.closed
      /\ y.failed = x.failed /\ y.equity = e /\ y.marks = Append(x.marks, m)
  BY <1>0, <1>1, <1>2, <1>3 DEF Mark, IsAccount
<1>5. IsAccount(y) BY <1>0, <1>4 DEF IsAccount
<1>6. y.marks \in Seq(EquityMark)
  <2>1. PICK M : M = EquityMark OBVIOUS
  <2>2. i \in Int BY ExecutionAssumption
  <2>3. m \in M BY <1>2, <2>1, <2>2 DEF EquityMark
  <2>4. x.marks \in Seq(M) BY <2>1 DEF InOrder
  <2>5. Append(x.marks, m) \in Seq(M) BY <2>3, <2>4
  <2> QED BY <1>4, <2>1, <2>5
<1>7. Booked(x) => Booked(y)
  <2>1. OpenOf(y) = OpenOf(x) BY <1>4 DEF OpenOf
  <2> QED BY <1>4, <2>1 DEF Booked
<1>8. InOrder(y) BY <1>4, <1>5, <1>6, <1>7 DEF InOrder
<1> QED BY <1>3, <1>8

LEMMA CandleInOrder ==
  ASSUME NEW x, InOrder(x), NEW i \in 1..N, NEW c, ValidCandle(c), NEW final
  PROVE  InOrder(ExecuteCandle(x, i, c, final))
<1>1. PICK y : y = ExitStage(x, i, c) OBVIOUS
<1>2. InOrder(y)
  <2>1. CASE x.open # NoTrade /\ ExitPrice(x.open, i, c) # 0
    <3>1. i \in Int BY ExecutionAssumption
    <3>2. ExitPrice(x.open, i, c) \in Int BY <2>1, <3>1, ExitIsInt DEF InOrder, IsAccount
    <3> QED BY <1>1, <2>1, <3>2, ClosedInOrder DEF ExitStage
  <2> QED BY <1>1, <2>1 DEF ExitStage
<1>3. PICK z : z = EntryStage(y, i, c, final) OBVIOUS
<1>4. InOrder(z)
  <2>1. InOrder([y EXCEPT !.failed = TRUE])
    <3>1. PICK f : f = [y EXCEPT !.failed = TRUE] OBVIOUS
    <3>2. IsAccount(f) BY <1>2, <3>1, FailedIsAccount DEF InOrder
    <3>3. f.failed = TRUE /\ f.marks = y.marks BY <1>2, <3>1 DEF InOrder, IsAccount
    <3> QED BY <1>2, <3>1, <3>2, <3>3 DEF InOrder
  <2>2. \/ z = y \/ z = [y EXCEPT !.failed = TRUE]
        \/ /\ evaluate(i, c).eligible /\ ~Skipped(y, i, c, evaluate(i, c), final)
           /\ z = OpenTrade(y, i, c, evaluate(i, c))
    BY <1>3 DEF EntryStage
  <2> QED BY <1>2, <2>1, <2>2, OpenedInOrder
<1>5. PICK w : w = SessionEndStage(z, i, c, final) OBVIOUS
<1>6. InOrder(w)
  <2>1. c.close \in Int BY DEF ValidCandle
  <2> QED BY <1>4, <1>5, <2>1, ClosedInOrder DEF SessionEndStage
<1>7. InOrder(Mark(w, i, c)) BY <1>6, MarkedInOrder
<1> QED BY <1>1, <1>3, <1>5, <1>7 DEF ExecuteCandle

LEMMA CandlesInOrderBooks ==
  ASSUME NEW x, InOrder(x), NEW candles, NEW lo \in 1..N, NEW hi \in 1..N, lo <= hi,
         \A i \in 1..N : ValidCandle(candles[i]), NEW done \in BOOLEAN
  PROVE  InOrder(ExecuteCandles(x, candles, lo, hi, done))
<1>1. N \in Nat /\ lo \in Nat \ {0} /\ hi \in Nat /\ lo - 1 <= hi BY ExecutionAssumption
<1>2. PICK g : Runs(g, x, candles, lo, hi, done) BY <1>1, RunExists
<1> DEFINE T == {i \in (lo - 1)..hi : ~InOrder(g[i])}
<1>3. T = {}
  <2> SUFFICES ASSUME T # {} PROVE FALSE OBVIOUS
  <2>1. T \in SUBSET Nat BY <1>1
  <2>2. PICK n \in T : \A m \in T : n <= m BY <2>1, LeastNat
  <2>3. n \in (lo - 1)..hi /\ ~InOrder(g[n]) OBVIOUS
  <2>4. g[n] = IF n = lo - 1 THEN x ELSE ExecuteCandle(g[n - 1], n, candles[n], done /\ n = hi)
    BY <1>2, <2>3 DEF Runs
  <2>5. n # lo - 1 BY <2>3, <2>4
  <2>6. n \in 1..N /\ n - 1 \in (lo - 1)..hi BY <1>1, <2>3, <2>5
  <2>7. n - 1 \notin T
    <3> HIDE DEF T
    <3> QED BY <2>2, <2>6
  <2>8. InOrder(g[n - 1]) BY <2>6, <2>7
  <2>9. InOrder(ExecuteCandle(g[n - 1], n, candles[n], done /\ n = hi))
    BY <2>6, <2>8, CandleInOrder
  <2> QED BY <2>3, <2>4, <2>5, <2>9
<1>4. InOrder(g[hi]) BY <1>1, <1>3
<1> QED BY <1>1, <1>2, <1>4, RunGives

BooksInv == InOrder(account) /\ ~account.failed

LEMMA BooksInit == Init => BooksInv
BY FreshInOrder DEF Init, BooksInv

LEMMA BooksStep == AccountInv /\ TypeInv /\ BooksInv /\ [Next]_vars => BooksInv'
<1> SUFFICES ASSUME AccountInv, TypeInv, BooksInv, [Next]_vars PROVE BooksInv' OBVIOUS
<1>1. ASSUME account' = account PROVE BooksInv' BY <1>1 DEF BooksInv
<1>2. ASSUME account' = FreshAccount PROVE BooksInv'
  <2>1. InOrder(account') /\ ~account'.failed BY <1>2, FreshInOrder
  <2> QED BY <2>1 DEF BooksInv
<1>3. ASSUME NEW p \in Proc, EnrichExecution(p) PROVE BooksInv'
  <2>1. PICK r : r = proc[p] OBVIOUS
  <2>2. /\ r # None /\ requests[r].stage = "strategized" /\ ~Executed(r).failed
        /\ account' = Executed(r)
    BY <1>3, <2>1 DEF EnrichExecution
  <2>3. r \in Request BY <2>1, <2>2, Running
  <2>4. requests[r] # NoRequest BY <2>2 DEF NoRequest
  <2>5. requests[r].hi \in 1..N /\ requests[r].lo \in 1..requests[r].hi /\ RangeComplete(snapshot)
    BY <2>3, <2>4 DEF TypeInv
  <2>6. \A i \in 1..N : ValidCandle(snapshot[i])
    BY <2>5, ReplayAssumption DEF RangeComplete, TypeInv, AreCandles
  <2>7. requests[r].lo \in 1..N /\ requests[r].lo <= requests[r].hi BY <2>5, ExecutionAssumption
  <2>8. InOrder(account) BY DEF BooksInv
  <2>9. \A d \in BOOLEAN :
          InOrder(ExecuteCandles(account, snapshot, requests[r].lo, requests[r].hi, d))
    BY <2>5, <2>6, <2>7, <2>8, CandlesInOrderBooks
  <2>10. (TargetStatus(r) = "COMPLETED") \in BOOLEAN OBVIOUS
  <2>11. InOrder(Executed(r)) BY <2>9, <2>10 DEF Executed
  <2>12. InOrder(account') /\ ~account'.failed BY <2>2, <2>11
  <2> QED BY <2>12 DEF BooksInv
<1>4. CASE Revise BY <1>1, <1>4 DEF Revise, rows
<1>5. ASSUME NEW p \in Proc,
             \/ \E starting \in BOOLEAN : Sync(p, starting)
             \/ StartFromCache(p) \/ FetchPage(p) \/ SyncFails(p) \/ CreateSession(p)
      PROVE  BooksInv'
  BY <1>1, <1>5 DEF Sync, StartFromCache, FetchPage, SyncFails, CreateSession, rows
<1>6. ASSUME NEW p \in Proc, NEW r \in Request, AdvanceSession(p, r) \/ RetryStep(p, r)
      PROVE  BooksInv'
  BY <1>1, <1>6 DEF AdvanceSession, RetryStep, rows
<1>7. ASSUME NEW p \in Proc, EnrichStrategy(p) \/ Finalize(p) \/ FailMarked(p) \/ FailUnmarked(p)
      PROVE  BooksInv'
  BY <1>1, <1>7 DEF EnrichStrategy, Finalize, FailMarked, FailUnmarked, rows
<1>8. ASSUME NEW p \in Proc, ResetSession(p) PROVE BooksInv' BY <1>2, <1>8 DEF ResetSession
<1>9. CASE UNCHANGED vars BY <1>1, <1>9 DEF vars, rows
<1> QED BY <1>3, <1>4, <1>5, <1>6, <1>7, <1>8, <1>9 DEF Next

LEMMA BooksAgree == BooksInv => PerformanceAgrees
<1> SUFFICES ASSUME BooksInv PROVE PerformanceAgrees OBVIOUS
<1>1. PICK closed, m : closed = account.closed /\ m = calculate_trade_metrics(closed, Open) OBVIOUS
<1>2. Counted(closed) /\ account.marks \in Seq(EquityMark)
      /\ account.balance - InitialBalance = PnlOf(closed) - FeesOf(OpenOf(account))
  BY <1>1 DEF BooksInv, InOrder, Booked
<1>3. PICK W, L : W = {t \in closed : t.realizedPnl > 0} /\ L = {t \in closed : t.realizedPnl < 0}
  OBVIOUS
<1>4. m.netRealizedPnl = PnlOf(closed) /\ m.grossProfit = PnlOf(W) /\ m.grossLoss = -PnlOf(L)
  BY <1>1, <1>3 DEF calculate_trade_metrics, PnlOf, MapThenSumSet, MapThenFoldSet
<1>5. m.netRealizedPnl = m.grossProfit - m.grossLoss BY <1>2, <1>3, <1>4, PnlOfParts
<1>6. OpenOf(account) = Open BY DEF OpenOf, Open
<1>7. FeesOf(Open) = MapThenSumSet(LAMBDA t : t.fees, Open)
  BY DEF FeesOf, MapThenSumSet, MapThenFoldSet
<1>8. PICK marks \in Seq(EquityMark) : marks = account.marks BY <1>2
<1>9. PICK e, n : e = EquityAt(marks) /\ n = Len(marks) OBVIOUS
<1>10. calculate_drawdown(marks).maxAmount =
         Max({e[pair[1]] - e[pair[2]] : pair \in {q \in (0..n) \X (0..n) : q[1] <= q[2]}})
  BY <1>9, DrawdownIsLargestFall
<1>11. n \in Nat BY <1>9
<1>12. n > 0 => {0, n - 1} \subseteq equity_sample_indexes(n, 2)
                /\ Cardinality(equity_sample_indexes(n, 2)) <= 2
  BY <1>11, SampleOfTwo
<1>13. e = [k \in 0..Len(account.marks) |-> IF k = 0 THEN InitialBalance ELSE account.marks[k].equity]
  BY <1>8, <1>9 DEF EquityAt
<1>14. account.balance - InitialBalance = m.netRealizedPnl - FeesOf(Open) BY <1>2, <1>4, <1>6
<1> QED BY <1>1, <1>5, <1>7, <1>8, <1>9, <1>10, <1>12, <1>13, <1>14
        DEF PerformanceAgrees, FeesOf, MapThenSumSet, MapThenFoldSet

\* The report agrees with the account: the balance moved by what the closed
\* trades made less what the open one paid, and the drawdown kept mark by mark
\* is the largest fall, also after lapses, resets and a capped loss
\* (replay_performance_journal.calculate_trade_metrics, calculate_drawdown).
THEOREM ReportAgrees == Spec => []PerformanceAgrees
<1> QED BY AccountInit, AccountStep, TypeInit, TypeStep, BooksInit, BooksStep, BooksAgree, PTL
        DEF Spec
=============================================================================
