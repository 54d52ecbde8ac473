---------------------------- MODULE MCAgentRunner ----------------------------
(* Two jobs and two connections, so that tasks of the first connection are *)
(* still there while the second one starts a job.                          *)
EXTENDS AgentRunner

CONSTANTS j1, j2

MCJobs   == {j1, j2}
MCOneJob == {j1}
=============================================================================
