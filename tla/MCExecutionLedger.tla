------------------------- MODULE MCExecutionLedger -------------------------
(* Deployments of ExecutionLedger to check: a worker alone and a worker    *)
(* beside a backfill.                                                      *)
EXTENDS ExecutionLedger

CONSTANTS x, w1, b1

\* Two of these make an addition, both exits, a reversal and a round trip.
MCDelta == {1, -1, -2}
MCDeployments == {[threads |-> {w1}, failures |-> 1], [threads |-> {w1, b1}, failures |-> 0]}
=============================================================================
