---------------------------- MODULE MCAgentRuns ----------------------------
(***************************************************************************)
(* A small instance of AgentRuns: one run with either provider, two tool   *)
(* calls with the same request id, two faults.                             *)
(***************************************************************************)
EXTENDS AgentRuns

CONSTANTS r1, q1
=============================================================================
