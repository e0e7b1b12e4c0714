---------------------------- MODULE MCUsageQuota ----------------------------
(* Two turns of one workspace, one of them under a rule of its agent.       *)
EXTENDS UsageQuota, TLC
CONSTANTS t1, t2, workspace, agent

MCBucket == (workspace :> {t1, t2}) @@ (agent :> {t1})
=============================================================================
