---------------------------- MODULE MCSessionRun ----------------------------
(***************************************************************************)
(* Instances of SessionRun for TLC: which calls and faults each run allows. *)
(***************************************************************************)
EXTENDS SessionRun

\* Everything.
AllCalls == AllEvents

\* Every kind of creation and of end but for a user's cancel, for the liveness of one
\* prompt, run or close.
CreatingCalls ==
    {"queue", "followup", "process", "empty", "raise", "member", "close", "close_timeout"}

QueueAndSteer == {"queue", "steer"}
QueueAndCancel == {"queue", "cancel"}
QueueAndClose == {"queue", "close"}

Symmetry == Permutations(Msg)
=============================================================================
