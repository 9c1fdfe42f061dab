---------------------------- MODULE MCMonitorPage ----------------------------
(* The instance of MonitorPage for TLC. *)
EXTENDS MonitorPage
=============================================================================
