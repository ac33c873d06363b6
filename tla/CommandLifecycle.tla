-------------------------- MODULE CommandLifecycle --------------------------
(***************************************************************************)
(* What the execution service promises for each execution command: its     *)
(* state moves only along the transition table that Python's storage and   *)
(* Node's repository share, a position opens only for a command whose      *)
(* order is pending, and a command is never finished while its position is *)
(* open.  How commands are stored, claimed and processed is left out.      *)
(***************************************************************************)
CONSTANT Cand

VARIABLES
  phase,    \* the state of each command, "NONE" before it exists
  exposed   \* the commands with an open position

TERMINAL_COMMAND_STATES == {"CLOSED", "FAILED"}

ALLOWED_TRANSITIONS(p) ==
  CASE p = "NONE"             -> {"AVAILABLE"}
    [] p = "AVAILABLE"        -> {"RESERVED"}
    [] p = "RESERVED"         -> {"ORDER_PENDING", "FAILED"}
    [] p = "ORDER_PENDING"    -> {"PARTIALLY_FILLED", "MANAGING", "FAILED"}
    [] p = "PARTIALLY_FILLED" -> {"MANAGING", "CLOSING", "FAILED"}
    [] p = "MANAGING"         -> {"CLOSING", "CLOSED", "FAILED"}
    [] p = "CLOSING"          -> {"CLOSED", "FAILED"}
    [] OTHER                  -> {}

Init == phase = [c \in Cand |-> "NONE"] /\ exposed = {}

\* One command takes one legal transition.
Advance(c) ==
  /\ \E next \in ALLOWED_TRANSITIONS(phase[c]) :
       /\ next \in TERMINAL_COMMAND_STATES => c \notin exposed
       /\ phase' = [phase EXCEPT ![c] = next]
  /\ UNCHANGED exposed

\* The entry order of a pending command fills.
Fill(c) ==
  /\ phase[c] = "ORDER_PENDING"
  /\ exposed' = exposed \cup {c}
  /\ UNCHANGED phase

\* The exchange closes positions.
Flatten ==
  /\ exposed' \in SUBSET exposed
  /\ UNCHANGED phase

Next == Flatten \/ \E c \in Cand : Advance(c) \/ Fill(c)

Spec == Init /\ [][Next]_<<phase, exposed>>
=============================================================================
