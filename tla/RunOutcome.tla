----------------------------- MODULE RunOutcome -----------------------------
(***************************************************************************)
(* What a generation run promises, without buffers, writes or streams: one *)
(* outcome is decided, at most once, and everything that is ever said of   *)
(* the run afterwards - the status column of its row, the terminal event   *)
(* of its stream - is that outcome.  A process that dies takes its         *)
(* decision with it, and nothing is decided, recorded or announced after   *)
(* its death: no run is ever resumed.                                      *)
(*                                                                         *)
(* RunManager.tla implements this specification.                           *)
(***************************************************************************)

CONSTANTS Outcomes,      \* the ways a run can end
          NoOutcome      \* not one of them

VARIABLES decided,       \* what the process has decided
          recorded,      \* what the durable row says
          announced,     \* what the terminal event says
          alive          \* the process that registered the run still runs

vars == <<decided, recorded, announced, alive>>

Init ==
    /\ decided = NoOutcome
    /\ recorded = NoOutcome
    /\ announced = NoOutcome
    /\ alive = TRUE

Decide ==
    /\ alive
    /\ decided = NoOutcome
    /\ decided' \in Outcomes
    /\ UNCHANGED <<recorded, announced, alive>>

\* A decided outcome is recorded before it is announced, or never.
Record ==
    /\ alive
    /\ decided # NoOutcome
    /\ announced = NoOutcome
    /\ recorded' = decided
    /\ UNCHANGED <<decided, announced, alive>>

Announce ==
    /\ alive
    /\ decided # NoOutcome
    /\ announced = NoOutcome
    /\ announced' = decided
    /\ UNCHANGED <<decided, recorded, alive>>

Die ==
    /\ alive
    /\ alive' = FALSE
    /\ decided' = NoOutcome
    /\ UNCHANGED <<recorded, announced>>

Next == Decide \/ Record \/ Announce \/ Die

Spec == Init /\ [][Next]_vars

=============================================================================
