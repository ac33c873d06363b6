------------------------- MODULE RuntimeLeadership -------------------------
(***************************************************************************)
(* Single-leader operation of the Python backend on Cloud Run: the         *)
(* PostgreSQL advisory lock of runtime_instance_guard.py, the promotion    *)
(* monitor and the guarded worker loop of cloud_run_server.py, start and   *)
(* stop of runtime_orchestrator.py, and the graceful shutdown of           *)
(* runtime_lifecycle.py.                                                   *)
(*                                                                         *)
(* An instance is one container lifetime.  Its threads are the main        *)
(* thread (with the shutdown helper it starts on SIGTERM), the worker      *)
(* loop, the promotion monitor and one HTTP handler.  A step is the code   *)
(* between two points where another thread can interfere: a lock released, *)
(* a query, a start or join of a thread.  The leader flag of the guard is  *)
(* set and cleared together with its retained connection, so session       *)
(* stands for both.  There is one monitor at a time and nobody else        *)
(* acquires after the boot, so _PROMOTION_LOCK is never contended by two   *)
(* promotions and is left out.                                             *)
(***************************************************************************)
EXTENDS Naturals, FiniteSets

CONSTANTS
  Instance,     \* container instances
  DbFaults,     \* whether queries may fail and sessions may be dropped
  StartFaults,  \* whether runtime_orchestrator.start may raise
  Requested,    \* instances that receive order-capable HTTP requests
  Slow,         \* instances whose cycles or queries may outlast stop's five seconds
  NoInstance

ASSUME ConstantsOK ==
  /\ DbFaults \in BOOLEAN /\ StartFaults \in BOOLEAN
  /\ Requested \subseteq Instance /\ Slow \subseteq Instance /\ NoInstance \notin Instance

VARIABLES
  lock,      \* PostgreSQL: the instance whose session holds the advisory lock
  session,   \* the retained connection; "dead": dropped, not yet noticed
  main,      \* main thread, and the shutdown helper after a signal
  promo,     \* the promotion monitor
  loop,      \* the worker loop of the orchestrator
  stopEvent, \* _STOP_EVENT
  started,   \* _WORKERS_STARTED
  launches,  \* worker threads started (history)
  givenUp,   \* stop gave up on a loop that was asking for leadership (history)
  api,       \* an HTTP handler that passed the leadership gate
  enabled    \* BOT_STATE["enabled"]

guard == <<lock, session>>
workers == <<loop, stopEvent, started, launches, givenUp>>
vars == <<guard, main, promo, workers, api, enabled>>

Init ==
  /\ lock = NoInstance /\ session = [i \in Instance |-> "none"]
  /\ main = [i \in Instance |-> "boot"] /\ promo = [i \in Instance |-> "none"]
  /\ loop = [i \in Instance |-> "none"]
  /\ stopEvent = [i \in Instance |-> FALSE] /\ started = [i \in Instance |-> FALSE]
  /\ launches = [i \in Instance |-> 0] /\ givenUp = [i \in Instance |-> FALSE]
  /\ api = [i \in Instance |-> "none"] /\ enabled = [i \in Instance |-> FALSE]

Alive(i) == main[i] \notin {"boot", "down"}
\* The lifecycle's _shutdown_started.
ShutdownStarted(i) == main[i] \in {"stopping", "join", "release", "exiting"}

-----------------------------------------------------------------------------
(* runtime_instance_guard.py                                                *)

\* pg_try_advisory_lock on a new session that is kept on success.
AcquireGranted(i) ==
  /\ lock = NoInstance /\ lock' = i
  /\ session' = [session EXCEPT ![i] = "good"]
  /\ UNCHANGED enabled

\* Another session holds the lock, or the check failed: automatic work is off.
AcquireDenied(i) ==
  /\ lock # NoInstance \/ DbFaults
  /\ enabled' = [enabled EXCEPT ![i] = FALSE]
  /\ UNCHANGED guard

\* Closing the session gives the lock back if it was still held.
Disconnect(i) ==
  /\ session' = [session EXCEPT ![i] = "none"]
  /\ lock' = IF lock = i THEN NoInstance ELSE lock

release(i) == Disconnect(i) /\ enabled' = [enabled EXCEPT ![i] = FALSE]

\* Mutant: the flag is believed without a query on the retained connection.
IsLeaderUnchecked(i) == session[i] # "none"

\* is_leader: the flag is set and a query on the retained connection answers.
IsLeader(i) == session[i] = "good"

\* is_leader answers no: the flag was clear, or the query failed and it is now.
NotLeader(i) ==
  \/ session[i] = "none" /\ UNCHANGED guard
  \/ session[i] = "dead" /\ Disconnect(i)
  \/ session[i] = "good" /\ DbFaults /\ Disconnect(i)

-----------------------------------------------------------------------------
(* Promotion.                                                               *)

\* _start_standby_promotion: one monitor thread at a time.
StartStandbyPromotion(i) ==
  promo' = IF promo[i] = "none" THEN [promo EXCEPT ![i] = "try"] ELSE promo

\* runtime_orchestrator.start clears the stop event and starts the loop.
OrchestratorStart(i) ==
  /\ loop' = [loop EXCEPT ![i] = "top"]
  /\ stopEvent' = [stopEvent EXCEPT ![i] = FALSE]
  /\ started' = [started EXCEPT ![i] = TRUE]
  /\ launches' = [launches EXCEPT ![i] = @ + 1]
  /\ UNCHANGED <<guard, givenUp, enabled>>

\* It raises: leadership is given back and execution disabled.
OrchestratorStartFails(i) == StartFaults /\ release(i) /\ UNCHANGED workers

\* guarded_start on the main thread: install, then acquire.
BootAcquire(i) ==
  /\ main[i] = "boot"
  /\ \/ AcquireGranted(i) /\ main' = [main EXCEPT ![i] = "launch"] /\ UNCHANGED promo
     \/ AcquireDenied(i) /\ main' = [main EXCEPT ![i] = "serving"] /\ StartStandbyPromotion(i)
  /\ UNCHANGED <<workers, api>>

BootLaunch(i) ==
  /\ main[i] = "launch"
  /\ OrchestratorStart(i) \/ OrchestratorStartFails(i)
  /\ main' = [main EXCEPT ![i] = "serving"]
  /\ UNCHANGED <<promo, api>>

\* The monitor's while test and the first test of _promote_from_standby_once.
MonitorTry(i) ==
  /\ promo[i] = "try"
  /\ promo' = [promo EXCEPT ![i] = IF ShutdownStarted(i) THEN "none" ELSE "acquire"]
  /\ UNCHANGED <<guard, main, workers, api, enabled>>

MonitorAcquire(i) ==
  /\ promo[i] = "acquire"
  /\ AcquireGranted(i)
  /\ promo' = [promo EXCEPT ![i] = "confirm"]
  /\ UNCHANGED <<main, workers, api>>

MonitorDenied(i) ==
  /\ promo[i] = "acquire"
  /\ AcquireDenied(i)
  /\ promo' = [promo EXCEPT ![i] = "try"]
  /\ UNCHANGED <<main, workers, api>>

\* Mutants: leadership is kept although shutdown has begun; live workers are
\* started again.
MonitorConfirmUnconditional(i) ==
  /\ promo[i] = "confirm"
  /\ promo' = [promo EXCEPT ![i] = IF started[i] THEN "recovered" ELSE "launch"]
  /\ UNCHANGED <<guard, main, workers, api, enabled>>

MonitorConfirmRelaunch(i) ==
  /\ promo[i] = "confirm"
  /\ IF ShutdownStarted(i)
       THEN release(i) /\ promo' = [promo EXCEPT ![i] = "try"]
       ELSE promo' = [promo EXCEPT ![i] = "launch"] /\ UNCHANGED <<guard, enabled>>
  /\ UNCHANGED <<main, workers, api>>

\* Shutdown is tested again after the acquisition; a live loop only needed the
\* lock, otherwise the workers are started.
MonitorConfirm(i) ==
  /\ promo[i] = "confirm"
  /\ IF ShutdownStarted(i)
       THEN release(i) /\ promo' = [promo EXCEPT ![i] = "try"]
       ELSE /\ promo' = [promo EXCEPT ![i] = IF started[i] THEN "recovered" ELSE "launch"]
            /\ UNCHANGED <<guard, enabled>>
  /\ UNCHANGED <<main, workers, api>>

MonitorLaunch(i) ==
  /\ promo[i] = "launch"
  /\ \/ OrchestratorStart(i) /\ promo' = [promo EXCEPT ![i] = "recovered"]
     \/ OrchestratorStartFails(i) /\ promo' = [promo EXCEPT ![i] = "try"]
  /\ UNCHANGED <<main, api>>

MonitorReturns(i) ==
  /\ promo[i] = "recovered"
  /\ promo' = [promo EXCEPT ![i] = "none"]
  /\ UNCHANGED <<guard, main, workers, api, enabled>>

-----------------------------------------------------------------------------
(* The worker loop: _loop calling the guarded run_due_once.                 *)

LoopTest(i) ==
  /\ loop[i] = "top"
  /\ loop' = [loop EXCEPT ![i] = IF stopEvent[i] THEN "none" ELSE "check"]
  /\ UNCHANGED <<guard, main, promo, stopEvent, started, launches, givenUp, api, enabled>>

BeginCycle(i) ==
  /\ loop[i] = "check" /\ IsLeader(i)
  /\ loop' = [loop EXCEPT ![i] = "work"]
  /\ UNCHANGED <<guard, main, promo, stopEvent, started, launches, givenUp, api, enabled>>

\* Mutant: a loop without leadership waits without starting a recovery.
SkipCycleQuietly(i) ==
  /\ loop[i] = "check" /\ NotLeader(i)
  /\ enabled' = [enabled EXCEPT ![i] = FALSE]
  /\ loop' = [loop EXCEPT ![i] = "top"]
  /\ UNCHANGED <<main, promo, stopEvent, started, launches, givenUp, api>>

SkipCycle(i) ==
  /\ loop[i] = "check" /\ NotLeader(i)
  /\ enabled' = [enabled EXCEPT ![i] = FALSE]
  /\ StartStandbyPromotion(i)
  /\ loop' = [loop EXCEPT ![i] = "top"]
  /\ UNCHANGED <<main, stopEvent, started, launches, givenUp, api>>

\* Mutant: an exception of a stage ends the loop.
EndCycleDies(i) ==
  /\ loop[i] = "work"
  /\ loop' \in {[loop EXCEPT ![i] = "top"], [loop EXCEPT ![i] = "none"]}
  /\ UNCHANGED <<guard, main, promo, stopEvent, started, launches, givenUp, api, enabled>>

\* The stages of run_due_once end, by an exception too; the loop waits.
EndCycle(i) ==
  /\ loop[i] = "work"
  /\ loop' = [loop EXCEPT ![i] = "top"]
  /\ UNCHANGED <<guard, main, promo, stopEvent, started, launches, givenUp, api, enabled>>

-----------------------------------------------------------------------------
(* Order-capable HTTP mutations.                                            *)

Serving(i) == i \in Requested /\ (main[i] = "serving" \/ ShutdownStarted(i))

MutationAllowed(i) ==
  /\ Serving(i) /\ api[i] = "none" /\ IsLeader(i)
  /\ api' = [api EXCEPT ![i] = "allowed"]
  /\ UNCHANGED <<guard, main, promo, workers, enabled>>

MutationRefused(i) ==
  /\ Serving(i) /\ api[i] = "none" /\ NotLeader(i)
  /\ enabled' = [enabled EXCEPT ![i] = FALSE]
  /\ StartStandbyPromotion(i)
  /\ UNCHANGED <<main, workers, api>>

\* _start_bot sets enabled some time after the gate; others leave it alone.
MutationRuns(i) ==
  /\ api[i] = "allowed"
  /\ api' = [api EXCEPT ![i] = "none"]
  /\ enabled' \in {enabled, [enabled EXCEPT ![i] = TRUE]}
  /\ UNCHANGED <<guard, main, promo, workers>>

-----------------------------------------------------------------------------
(* runtime_lifecycle.py                                                     *)

RequestShutdown(i) ==
  /\ main[i] = "serving"
  /\ main' = [main EXCEPT ![i] = "stopping"]
  /\ enabled' = [enabled EXCEPT ![i] = FALSE]
  /\ UNCHANGED <<guard, promo, workers, api>>

\* stop sets the event and joins the thread it finds, if any.
StopWorkers(i) ==
  /\ main[i] = "stopping"
  /\ stopEvent' = [stopEvent EXCEPT ![i] = TRUE]
  /\ main' = [main EXCEPT ![i] = IF loop[i] = "none" THEN "release" ELSE "join"]
  /\ UNCHANGED <<guard, promo, loop, started, launches, givenUp, api, enabled>>

\* The join ends with the loop, or after five seconds of a cycle that makes its
\* network calls or of a leadership query.
JoinWorkers(i) ==
  /\ main[i] = "join"
  /\ loop[i] = "none" \/ (i \in Slow /\ loop[i] \in {"work", "check"})
  /\ main' = [main EXCEPT ![i] = "release"]
  /\ givenUp' = [givenUp EXCEPT ![i] = loop[i] = "check"]
  /\ UNCHANGED <<guard, promo, loop, stopEvent, started, launches, api, enabled>>

ReleaseLeadership(i) ==
  /\ main[i] = "release" /\ release(i)
  /\ main' = [main EXCEPT ![i] = "exiting"]
  /\ UNCHANGED <<promo, workers, api>>

\* The process ends, and with it every thread and its memory; PostgreSQL may
\* not know yet.
ProcessEnds(i) ==
  /\ main' = [main EXCEPT ![i] = "down"]
  /\ promo' = [promo EXCEPT ![i] = "none"] /\ loop' = [loop EXCEPT ![i] = "none"]
  /\ api' = [api EXCEPT ![i] = "none"] /\ enabled' = [enabled EXCEPT ![i] = FALSE]
  /\ stopEvent' = [stopEvent EXCEPT ![i] = FALSE] /\ started' = [started EXCEPT ![i] = FALSE]
  /\ launches' = [launches EXCEPT ![i] = 0] /\ givenUp' = [givenUp EXCEPT ![i] = FALSE]
  /\ session' = [session EXCEPT ![i] = IF @ = "dead" THEN "none" ELSE @]
  /\ UNCHANGED lock

Finalize(i) == main[i] = "exiting" /\ ProcessEnds(i)

Crash(i) == Alive(i) /\ ProcessEnds(i)

\* PostgreSQL drops a session: a network fault, or its client is gone.
DropSession(i) ==
  /\ session[i] = "good" /\ (DbFaults \/ main[i] = "down")
  /\ session' = [session EXCEPT ![i] = IF main[i] = "down" THEN "none" ELSE "dead"]
  /\ lock' = NoInstance
  /\ UNCHANGED <<main, promo, workers, api, enabled>>

-----------------------------------------------------------------------------
MainStep(i) ==
  \/ BootAcquire(i) \/ BootLaunch(i)
  \/ StopWorkers(i) \/ JoinWorkers(i) \/ ReleaseLeadership(i) \/ Finalize(i)

MonitorStep(i) ==
  \/ MonitorTry(i) \/ MonitorAcquire(i) \/ MonitorDenied(i)
  \/ MonitorConfirm(i) \/ MonitorLaunch(i) \/ MonitorReturns(i)

LoopStep(i) == LoopTest(i) \/ BeginCycle(i) \/ SkipCycle(i) \/ EndCycle(i)

ApiStep(i) == MutationAllowed(i) \/ MutationRefused(i) \/ MutationRuns(i)

Next ==
  \E i \in Instance :
    \/ MainStep(i) \/ MonitorStep(i) \/ LoopStep(i) \/ ApiStep(i)
    \/ RequestShutdown(i) \/ Crash(i) \/ DropSession(i)

Spec == Init /\ [][Next]_vars

-----------------------------------------------------------------------------
(* Properties.                                                              *)

\* Every variable stays within the values the code can give it.
TypeOK ==
  /\ lock \in Instance \cup {NoInstance}
  /\ session \in [Instance -> {"none", "good", "dead"}]
  /\ main \in [Instance -> {"boot", "launch", "serving", "stopping", "join", "release",
                            "exiting", "down"}]
  /\ promo \in [Instance -> {"none", "try", "acquire", "confirm", "launch", "recovered"}]
  /\ loop \in [Instance -> {"none", "top", "check", "work"}]
  /\ stopEvent \in [Instance -> BOOLEAN] /\ started \in [Instance -> BOOLEAN]
  /\ launches \in [Instance -> Nat] /\ givenUp \in [Instance -> BOOLEAN]
  /\ api \in [Instance -> {"none", "allowed"}] /\ enabled \in [Instance -> BOOLEAN]

\* Workers are started at most once in a process, by the boot or by the monitor,
\* however often leadership is lost and recovered.
LaunchedOnce == \A i \in Instance : launches[i] <= 1

\* A worker cycle begins only in the instance that owns the lock on the server:
\* the answer of the retained connection is enough.
CycleUnderLock ==
  [][\A i \in Instance : loop[i] # "work" /\ loop'[i] = "work" => lock = i]_vars

\* Once shutdown has released leadership no cycle begins, although the cycle
\* under way may outlast the join and a promotion may still take the lock or
\* start the workers; unless stop gave up on a loop that was just asking whether
\* this instance leads, which such a promotion may answer.
QuietAfterRelease ==
  [][\A i \in Instance :
       main[i] = "exiting" /\ ~givenUp[i] => ~(loop[i] # "work" /\ loop'[i] = "work")]_vars

\* Threads run; a failed lock attempt is repeated, and is assumed to reach the
\* database if it can again and again; PostgreSQL reaps sessions of dead clients.
Fairness ==
  \A i \in Instance :
    /\ WF_vars(MainStep(i)) /\ WF_vars(MonitorStep(i)) /\ WF_vars(LoopStep(i))
    /\ SF_vars(MonitorAcquire(i))
    /\ WF_vars(main[i] = "down" /\ DropSession(i))

FairSpec == Spec /\ Fairness

\* An instance that serves and whose workers or monitor exist.
Candidate(i) == main[i] = "serving" /\ (loop[i] # "none" \/ promo[i] # "none")

\* When the leader crashes, shuts down or loses its session, the lock is taken
\* again as long as a candidate is left.
Takeover ==
  lock = NoInstance /\ (\E i \in Instance : Candidate(i)) ~>
    lock # NoInstance \/ ~\E i \in Instance : Candidate(i)

\* A bot that a late start request enables without leadership is disabled again.
FollowerDisabled ==
  \A i \in Instance :
    enabled[i] /\ session[i] # "good" ~>
      ~enabled[i] \/ session[i] = "good" \/ main[i] # "serving"
=============================================================================
