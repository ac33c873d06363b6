------------------------ MODULE MCRuntimeLeadership ------------------------
(* Names of the instances of RuntimeLeadership.  Liveness is checked, so   *)
(* no symmetry is used.                                                    *)
EXTENDS RuntimeLeadership
CONSTANTS i1, i2
=============================================================================
