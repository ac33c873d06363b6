------------------------ MODULE MCPositionManagement ------------------------
(* Deployments of PositionManagement to check. *)
EXTENDS PositionManagement

CONSTANT s1

\* No thread, no failure: what the deployments below are told from.
Calm == [threads |-> {}, cutover |-> TRUE, crashes |-> FALSE, faults |-> FALSE, forgets |-> FALSE]

\* The bot loop with faults and crashes after the cut-over, the same loop with a
\* journal that forgets, the route without either, and the kill switch against
\* a loop that still enters, with a process that crashes, and against the
\* manual order.
Managing == [Calm EXCEPT !.threads = {"tick"}, !.crashes = TRUE, !.faults = TRUE]
Lasting == [Calm EXCEPT !.threads = {"tick"}, !.crashes = TRUE, !.forgets = TRUE]
Routed == [Calm EXCEPT !.threads = {"manage"}]
Killing == [Calm EXCEPT !.threads = {"tick", "kill"}, !.cutover = FALSE, !.crashes = TRUE]
KillingManual == [Calm EXCEPT !.threads = {"manual", "kill"}, !.cutover = FALSE, !.faults = TRUE]
Checked == {Managing, Lasting, Routed, Killing, KillingManual}

\* The bot loop alone: no crash, no failing call, nothing forgotten.
LoopOnly == {[Calm EXCEPT !.threads = {"tick"}]}
=============================================================================
