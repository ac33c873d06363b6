---------------------- MODULE RuntimeLeadershipProofs ----------------------
(***************************************************************************)
(* Proofs about RuntimeLeadership for any number of instances: types,      *)
(* single launch of the workers, cycles only under the lock, and quiet     *)
(* after a released shutdown.                                              *)
(***************************************************************************)
EXTENDS RuntimeLeadership, TLAPS

\* The client's belief and the server agree: a session that answers holds the lock.
Held == \A i \in Instance : session[i] = "good" <=> lock = i

\* Whoever is about to launch the workers finds them not launched.
LaunchPending ==
  \A i \in Instance :
    /\ launches[i] = IF started[i] THEN 1 ELSE 0
    /\ main[i] \in {"boot", "launch"} => promo[i] = "none" /\ loop[i] = "none" /\ ~started[i]
    /\ promo[i] = "launch" => ~started[i]

\* A promotion that has yet to acquire or to confirm leaves the stop event set,
\* so a loop that outlasts the join ends before its next cycle; after the release
\* only such a promotion can hold the lock.
Leaving ==
  \A i \in Instance :
    /\ main[i] \in {"join", "release", "exiting"} /\ promo[i] \in {"acquire", "confirm"} =>
         \/ loop[i] = "none"
         \/ /\ stopEvent[i]
            /\ main[i] = "join" \/ givenUp[i] \/ loop[i] \in {"work", "top"}
    /\ main[i] = "exiting" /\ promo[i] # "confirm" => session[i] # "good"

Inv == TypeOK /\ Held /\ LaunchPending /\ Leaving

\* Nothing runs before the first instance boots.
LEMMA InvInit == ASSUME Init PROVE Inv
  BY ConstantsOK DEF Init, Inv, TypeOK, Held, LaunchPending, Leaving

\* Every step of every thread keeps the types.
LEMMA TypeOKStep == ASSUME Inv, NEW i \in Instance,
         \/ MainStep(i) \/ MonitorStep(i) \/ LoopStep(i) \/ ApiStep(i)
         \/ RequestShutdown(i) \/ Crash(i) \/ DropSession(i)
  PROVE TypeOK'
<1> USE ConstantsOK DEF Inv, TypeOK, guard, workers
<1>1. CASE BootAcquire(i)
  <2>1. CASE AcquireGranted(i) /\ main' = [main EXCEPT ![i] = "launch"] /\ UNCHANGED promo
    BY <1>1, <2>1 DEF BootAcquire, AcquireGranted
  <2>2. CASE AcquireDenied(i) /\ main' = [main EXCEPT ![i] = "serving"] /\ StartStandbyPromotion(i)
    BY <1>1, <2>2 DEF BootAcquire, AcquireDenied, StartStandbyPromotion
  <2>3. QED
    BY <1>1, <2>1, <2>2 DEF BootAcquire
<1>2. CASE BootLaunch(i)
  <2>1. CASE OrchestratorStart(i)
    BY <1>2, <2>1 DEF BootLaunch, OrchestratorStart
  <2>2. CASE OrchestratorStartFails(i)
    BY <1>2, <2>2 DEF BootLaunch, OrchestratorStartFails, release, Disconnect
  <2>3. QED
    BY <1>2, <2>1, <2>2 DEF BootLaunch
<1>3. CASE StopWorkers(i)
  BY <1>3 DEF StopWorkers
<1>4. CASE JoinWorkers(i)
  BY <1>4 DEF JoinWorkers
<1>5. CASE ReleaseLeadership(i)
  BY <1>5 DEF ReleaseLeadership, release, Disconnect
<1>6. CASE Finalize(i)
  BY <1>6 DEF Finalize, ProcessEnds
<1>7. CASE MonitorTry(i)
  BY <1>7 DEF MonitorTry, ShutdownStarted
<1>8. CASE MonitorAcquire(i)
  BY <1>8 DEF MonitorAcquire, AcquireGranted
<1>9. CASE MonitorDenied(i)
  BY <1>9 DEF MonitorDenied, AcquireDenied
<1>10. CASE MonitorConfirm(i)
  BY <1>10 DEF MonitorConfirm, ShutdownStarted, release, Disconnect
<1>11. CASE MonitorLaunch(i)
  <2>1. CASE OrchestratorStart(i)
    BY <1>11, <2>1 DEF MonitorLaunch, OrchestratorStart
  <2>2. CASE OrchestratorStartFails(i)
    BY <1>11, <2>2 DEF MonitorLaunch, OrchestratorStartFails, release, Disconnect
  <2>3. QED
    BY <1>11, <2>1, <2>2 DEF MonitorLaunch
<1>12. CASE MonitorReturns(i)
  BY <1>12 DEF MonitorReturns
<1>13. CASE LoopTest(i)
  BY <1>13 DEF LoopTest
<1>14. CASE BeginCycle(i)
  BY <1>14 DEF BeginCycle, IsLeader
<1>15. CASE SkipCycle(i)
  BY <1>15 DEF SkipCycle, NotLeader, Disconnect, StartStandbyPromotion
<1>16. CASE EndCycle(i)
  BY <1>16 DEF EndCycle
<1>17. CASE MutationAllowed(i)
  BY <1>17 DEF MutationAllowed, IsLeader, Serving, ShutdownStarted
<1>18. CASE MutationRefused(i)
  BY <1>18 DEF MutationRefused, NotLeader, Disconnect, StartStandbyPromotion, Serving, ShutdownStarted
<1>19. CASE MutationRuns(i)
  BY <1>19 DEF MutationRuns
<1>20. CASE RequestShutdown(i)
  BY <1>20 DEF RequestShutdown
<1>21. CASE Crash(i)
  BY <1>21 DEF Crash, Alive, ProcessEnds
<1>22. CASE DropSession(i)
  BY <1>22 DEF DropSession
<1>23. QED
  BY <1>1, <1>2, <1>3, <1>4, <1>5, <1>6, <1>7, <1>8, <1>9, <1>10, <1>11, <1>12, <1>13, <1>14, <1>15, <1>16, <1>17, <1>18, <1>19, <1>20, <1>21, <1>22 DEF MainStep, MonitorStep, LoopStep, ApiStep

\* Acquisition, loss, release and a dead client keep belief and lock together.
LEMMA HeldStep == ASSUME Inv, NEW i \in Instance,
         \/ MainStep(i) \/ MonitorStep(i) \/ LoopStep(i) \/ ApiStep(i)
         \/ RequestShutdown(i) \/ Crash(i) \/ DropSession(i)
  PROVE Held'
<1> USE ConstantsOK DEF Inv, TypeOK, guard, workers, Held
<1>1. CASE BootAcquire(i)
  BY <1>1 DEF BootAcquire, AcquireGranted, AcquireDenied, StartStandbyPromotion
<1>2. CASE BootLaunch(i)
  BY <1>2 DEF BootLaunch, OrchestratorStart, OrchestratorStartFails, release, Disconnect
<1>3. CASE StopWorkers(i)
  BY <1>3 DEF StopWorkers
<1>4. CASE JoinWorkers(i)
  BY <1>4 DEF JoinWorkers
<1>5. CASE ReleaseLeadership(i)
  BY <1>5 DEF ReleaseLeadership, release, Disconnect
<1>6. CASE Finalize(i)
  BY <1>6 DEF Finalize, ProcessEnds
<1>7. CASE MonitorTry(i)
  BY <1>7 DEF MonitorTry, ShutdownStarted
<1>8. CASE MonitorAcquire(i)
  BY <1>8 DEF MonitorAcquire, AcquireGranted
<1>9. CASE MonitorDenied(i)
  BY <1>9 DEF MonitorDenied, AcquireDenied
<1>10. CASE MonitorConfirm(i)
  BY <1>10 DEF MonitorConfirm, ShutdownStarted, release, Disconnect
<1>11. CASE MonitorLaunch(i)
  BY <1>11 DEF MonitorLaunch, OrchestratorStart, OrchestratorStartFails, release, Disconnect
<1>12. CASE MonitorReturns(i)
  BY <1>12 DEF MonitorReturns
<1>13. CASE LoopTest(i)
  BY <1>13 DEF LoopTest
<1>14. CASE BeginCycle(i)
  BY <1>14 DEF BeginCycle, IsLeader
<1>15. CASE SkipCycle(i)
  BY <1>15 DEF SkipCycle, NotLeader, Disconnect, StartStandbyPromotion
<1>16. CASE EndCycle(i)
  BY <1>16 DEF EndCycle
<1>17. CASE MutationAllowed(i)
  BY <1>17 DEF MutationAllowed, IsLeader, Serving, ShutdownStarted
<1>18. CASE MutationRefused(i)
  BY <1>18 DEF MutationRefused, NotLeader, Disconnect, StartStandbyPromotion, Serving, ShutdownStarted
<1>19. CASE MutationRuns(i)
  BY <1>19 DEF MutationRuns
<1>20. CASE RequestShutdown(i)
  BY <1>20 DEF RequestShutdown
<1>21. CASE Crash(i)
  BY <1>21 DEF Crash, Alive, ProcessEnds
<1>22. CASE DropSession(i)
  BY <1>22 DEF DropSession
<1>23. QED
  BY <1>1, <1>2, <1>3, <1>4, <1>5, <1>6, <1>7, <1>8, <1>9, <1>10, <1>11, <1>12, <1>13, <1>14, <1>15, <1>16, <1>17, <1>18, <1>19, <1>20, <1>21, <1>22 DEF MainStep, MonitorStep, LoopStep, ApiStep

\* Only the boot and the monitor launch workers, and never both.
LEMMA LaunchPendingStep == ASSUME Inv, NEW i \in Instance,
         \/ MainStep(i) \/ MonitorStep(i) \/ LoopStep(i) \/ ApiStep(i)
         \/ RequestShutdown(i) \/ Crash(i) \/ DropSession(i)
  PROVE LaunchPending'
<1> USE ConstantsOK DEF Inv, TypeOK, guard, workers, LaunchPending
<1>1. CASE BootAcquire(i)
  BY <1>1 DEF BootAcquire, AcquireGranted, AcquireDenied, StartStandbyPromotion
<1>2. CASE BootLaunch(i)
  BY <1>2 DEF BootLaunch, OrchestratorStart, OrchestratorStartFails, release, Disconnect
<1>3. CASE StopWorkers(i)
  BY <1>3 DEF StopWorkers
<1>4. CASE JoinWorkers(i)
  BY <1>4 DEF JoinWorkers
<1>5. CASE ReleaseLeadership(i)
  BY <1>5 DEF ReleaseLeadership, release, Disconnect
<1>6. CASE Finalize(i)
  BY <1>6 DEF Finalize, ProcessEnds
<1>7. CASE MonitorTry(i)
  BY <1>7 DEF MonitorTry, ShutdownStarted
<1>8. CASE MonitorAcquire(i)
  BY <1>8 DEF MonitorAcquire, AcquireGranted
<1>9. CASE MonitorDenied(i)
  BY <1>9 DEF MonitorDenied, AcquireDenied
<1>10. CASE MonitorConfirm(i)
  BY <1>10 DEF MonitorConfirm, ShutdownStarted, release, Disconnect
<1>11. CASE MonitorLaunch(i)
  BY <1>11 DEF MonitorLaunch, OrchestratorStart, OrchestratorStartFails, release, Disconnect
<1>12. CASE MonitorReturns(i)
  BY <1>12 DEF MonitorReturns
<1>13. CASE LoopTest(i)
  BY <1>13 DEF LoopTest
<1>14. CASE BeginCycle(i)
  BY <1>14 DEF BeginCycle, IsLeader
<1>15. CASE SkipCycle(i)
  BY <1>15 DEF SkipCycle, NotLeader, Disconnect, StartStandbyPromotion
<1>16. CASE EndCycle(i)
  BY <1>16 DEF EndCycle
<1>17. CASE MutationAllowed(i)
  BY <1>17 DEF MutationAllowed, IsLeader, Serving, ShutdownStarted
<1>18. CASE MutationRefused(i)
  BY <1>18 DEF MutationRefused, NotLeader, Disconnect, StartStandbyPromotion, Serving, ShutdownStarted
<1>19. CASE MutationRuns(i)
  BY <1>19 DEF MutationRuns
<1>20. CASE RequestShutdown(i)
  BY <1>20 DEF RequestShutdown
<1>21. CASE Crash(i)
  BY <1>21 DEF Crash, Alive, ProcessEnds
<1>22. CASE DropSession(i)
  BY <1>22 DEF DropSession
<1>23. QED
  BY <1>1, <1>2, <1>3, <1>4, <1>5, <1>6, <1>7, <1>8, <1>9, <1>10, <1>11, <1>12, <1>13, <1>14, <1>15, <1>16, <1>17, <1>18, <1>19, <1>20, <1>21, <1>22 DEF MainStep, MonitorStep, LoopStep, ApiStep

\* No step of an instance that is leaving revives its loop under the lock.
LEMMA LeavingStep == ASSUME Inv, NEW i \in Instance,
         \/ MainStep(i) \/ MonitorStep(i) \/ LoopStep(i) \/ ApiStep(i)
         \/ RequestShutdown(i) \/ Crash(i) \/ DropSession(i)
  PROVE Leaving'
<1> USE ConstantsOK DEF Inv, TypeOK, guard, workers, Leaving
<1>1. CASE BootAcquire(i)
  BY <1>1 DEF BootAcquire, AcquireGranted, AcquireDenied, StartStandbyPromotion
<1>2. CASE BootLaunch(i)
  BY <1>2 DEF BootLaunch, OrchestratorStart, OrchestratorStartFails, release, Disconnect
<1>3. CASE StopWorkers(i)
  BY <1>3 DEF StopWorkers
<1>4. CASE JoinWorkers(i)
  BY <1>4 DEF JoinWorkers
<1>5. CASE ReleaseLeadership(i)
  BY <1>5 DEF ReleaseLeadership, release, Disconnect
<1>6. CASE Finalize(i)
  BY <1>6 DEF Finalize, ProcessEnds
<1>7. CASE MonitorTry(i)
  BY <1>7 DEF MonitorTry, ShutdownStarted
<1>8. CASE MonitorAcquire(i)
  BY <1>8 DEF MonitorAcquire, AcquireGranted
<1>9. CASE MonitorDenied(i)
  BY <1>9 DEF MonitorDenied, AcquireDenied
<1>10. CASE MonitorConfirm(i)
  BY <1>10 DEF MonitorConfirm, ShutdownStarted, release, Disconnect
<1>11. CASE MonitorLaunch(i)
  BY <1>11 DEF MonitorLaunch, OrchestratorStart, OrchestratorStartFails, release, Disconnect
<1>12. CASE MonitorReturns(i)
  BY <1>12 DEF MonitorReturns
<1>13. CASE LoopTest(i)
  BY <1>13 DEF LoopTest
<1>14. CASE BeginCycle(i)
  BY <1>14 DEF BeginCycle, IsLeader
<1>15. CASE SkipCycle(i)
  BY <1>15 DEF SkipCycle, NotLeader, Disconnect, StartStandbyPromotion
<1>16. CASE EndCycle(i)
  BY <1>16 DEF EndCycle
<1>17. CASE MutationAllowed(i)
  BY <1>17 DEF MutationAllowed, IsLeader, Serving, ShutdownStarted
<1>18. CASE MutationRefused(i)
  BY <1>18 DEF MutationRefused, NotLeader, Disconnect, StartStandbyPromotion, Serving, ShutdownStarted
<1>19. CASE MutationRuns(i)
  BY <1>19 DEF MutationRuns
<1>20. CASE RequestShutdown(i)
  BY <1>20 DEF RequestShutdown
<1>21. CASE Crash(i)
  BY <1>21 DEF Crash, Alive, ProcessEnds
<1>22. CASE DropSession(i)
  BY <1>22 DEF DropSession
<1>23. QED
  BY <1>1, <1>2, <1>3, <1>4, <1>5, <1>6, <1>7, <1>8, <1>9, <1>10, <1>11, <1>12, <1>13, <1>14, <1>15, <1>16, <1>17, <1>18, <1>19, <1>20, <1>21, <1>22 DEF MainStep, MonitorStep, LoopStep, ApiStep

\* The invariant is inductive.
LEMMA InvStep == ASSUME Inv, [Next]_vars PROVE Inv'
<1>1. CASE Next
  <2>1. PICK i \in Instance :
          \/ MainStep(i) \/ MonitorStep(i) \/ LoopStep(i) \/ ApiStep(i)
          \/ RequestShutdown(i) \/ Crash(i) \/ DropSession(i)
    BY <1>1 DEF Next
  <2>2. QED
    BY <2>1, TypeOKStep, HeldStep, LaunchPendingStep, LeavingStep DEF Inv
<1>2. CASE UNCHANGED vars
  BY <1>2 DEF vars, guard, workers, Inv, TypeOK, Held, LaunchPending, Leaving
<1>3. QED
  BY <1>1, <1>2

\* Every reachable state of any number of instances is well typed.
THEOREM TypeCorrect == Spec => []TypeOK
<1>1. Init => Inv
  BY InvInit
<1>2. Inv /\ [Next]_vars => Inv'
  BY InvStep
<1>3. Inv => TypeOK
  BY DEF Inv
<1>4. QED
  BY <1>1, <1>2, <1>3, PTL DEF Spec

\* Workers are started at most once in a process, whoever starts them.
THEOREM WorkersLaunchedOnce == Spec => []LaunchedOnce
<1>1. Init => Inv
  BY InvInit
<1>2. Inv /\ [Next]_vars => Inv'
  BY InvStep
<1>3. Inv => LaunchedOnce
  BY DEF Inv, LaunchPending, LaunchedOnce
<1>4. QED
  BY <1>1, <1>2, <1>3, PTL DEF Spec

\* The loops that enter a cycle in a step are those of BeginCycle.
LEMMA CycleBegins ==
  ASSUME Inv, [Next]_vars, NEW i \in Instance, loop[i] # "work", loop'[i] = "work"
  PROVE BeginCycle(i)
<1>1. Next
  BY DEF vars, workers
<1>2. PICK j \in Instance :
        \/ MainStep(j) \/ MonitorStep(j) \/ LoopStep(j) \/ ApiStep(j)
        \/ RequestShutdown(j) \/ Crash(j) \/ DropSession(j)
  BY <1>1 DEF Next
<1>3. TypeOK
  BY DEF Inv
<1>4. ~MainStep(j)
  BY <1>3 DEF MainStep, BootAcquire, BootLaunch, StopWorkers, JoinWorkers, ReleaseLeadership,
     Finalize, OrchestratorStart, OrchestratorStartFails, ProcessEnds, workers, TypeOK
<1>5. ~MonitorStep(j)
  BY <1>3 DEF MonitorStep, MonitorTry, MonitorAcquire, MonitorDenied, MonitorConfirm, MonitorLaunch,
     MonitorReturns, OrchestratorStart, OrchestratorStartFails, workers, TypeOK
<1>6. ~(ApiStep(j) \/ RequestShutdown(j) \/ Crash(j) \/ DropSession(j))
  BY <1>3 DEF ApiStep, MutationAllowed, MutationRefused, MutationRuns, RequestShutdown, Crash,
     ProcessEnds, DropSession, workers, TypeOK
<1>7. ~(LoopTest(j) \/ SkipCycle(j) \/ EndCycle(j))
  BY <1>3 DEF LoopTest, SkipCycle, EndCycle, TypeOK
<1>8. BeginCycle(j)
  BY <1>2, <1>4, <1>5, <1>6, <1>7 DEF LoopStep
<1>9. QED
  BY <1>3, <1>8 DEF BeginCycle, TypeOK

\* A cycle begins only under the server's lock: sessions may be dropped and
\* queries may fail at any moment, in any number of instances.
THEOREM CyclesUnderLock == Spec => CycleUnderLock
<1>1. Init => Inv
  BY InvInit
<1>2. Inv /\ [Next]_vars => Inv'
  BY InvStep
<1>3. Inv /\ [Next]_vars =>
        [\A i \in Instance : loop[i] # "work" /\ loop'[i] = "work" => lock = i]_vars
  <2>1. SUFFICES ASSUME Inv, [Next]_vars, NEW i \in Instance, loop[i] # "work", loop'[i] = "work"
                 PROVE lock = i
    OBVIOUS
  <2>2. BeginCycle(i)
    BY <2>1, CycleBegins
  <2>3. QED
    BY <2>1, <2>2 DEF BeginCycle, IsLeader, Inv, Held
<1>4. QED
  BY <1>1, <1>2, <1>3, PTL DEF Spec, CycleUnderLock

\* However long the cycle under way takes, no cycle begins after shutdown has
\* released leadership, whatever a promotion was doing meanwhile, unless stop gave
\* up on a loop that was asking for leadership.
THEOREM ShutdownIsQuiet == Spec => QuietAfterRelease
<1>1. Init => Inv
  BY InvInit
<1>2. Inv /\ [Next]_vars => Inv'
  BY InvStep
<1>3. Inv /\ [Next]_vars =>
        [\A i \in Instance :
           main[i] = "exiting" /\ ~givenUp[i] => ~(loop[i] # "work" /\ loop'[i] = "work")]_vars
  <2>1. SUFFICES ASSUME Inv, [Next]_vars, NEW i \in Instance, main[i] = "exiting",
                        ~givenUp[i], loop[i] # "work", loop'[i] = "work"
                 PROVE FALSE
    OBVIOUS
  <2>2. BeginCycle(i)
    BY <2>1, CycleBegins
  <2>3. QED
    BY <2>1, <2>2 DEF BeginCycle, IsLeader, Inv, Leaving
<1>4. QED
  BY <1>1, <1>2, <1>3, PTL DEF Spec, QuietAfterRelease
=============================================================================
