------------------------- MODULE MCBackgroundTasks -------------------------
(***************************************************************************)
(* Instance of BackgroundTasks for TLC.                                    *)
(***************************************************************************)
EXTENDS BackgroundTasks
=============================================================================
