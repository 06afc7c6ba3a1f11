---------------------------- MODULE MCSupervisor -----------------------------
(* Supervisor with few commands and pids, so that pids are used again. *)
EXTENDS Supervisor, TLC

CONSTANTS c1, c2, c3
=============================================================================
