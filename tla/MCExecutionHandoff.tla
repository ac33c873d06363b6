------------------------- MODULE MCExecutionHandoff -------------------------
(***************************************************************************)
(* Instance of ExecutionHandoff for TLC.  One process at a time meets      *)
(* everything with every candidate; two processes at once meet crashes     *)
(* with one candidate, and two of their own without crashes or a stop.     *)
(* Processes and candidates are interchangeable, and every property is a   *)
(* safety property.                                                        *)
(***************************************************************************)
EXTENDS ExecutionHandoff, TLC, Functions

Alone == [overlap : {FALSE}, crashes : {TRUE}, faults : BOOLEAN, stops : {TRUE},
          arising : {[p \in Proc |-> Candidate]}]
Crashing == [overlap : {TRUE}, crashes : {TRUE}, faults : {FALSE}, stops : {TRUE},
             arising : {[p \in Proc |-> {c}] : c \in Candidate}]
Racing == [overlap : {TRUE}, crashes : {FALSE}, faults : {FALSE}, stops : {FALSE},
           arising : {f \in [Proc -> {{c} : c \in Candidate}] : IsInjective(f)}]

MCDeployments == Alone \cup Crashing \cup Racing

Symmetry == Permutations(Proc) \cup Permutations(Candidate)
=============================================================================
