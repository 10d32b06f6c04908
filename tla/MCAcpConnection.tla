-------------------------- MODULE MCAcpConnection --------------------------
(***************************************************************************)
(* Instance of AcpConnection for TLC.                                      *)
(***************************************************************************)
EXTENDS AcpConnection
=============================================================================
