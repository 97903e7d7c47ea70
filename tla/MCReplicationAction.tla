------------------------ MODULE MCReplicationAction ------------------------
(* Two concurrent ExecuteAction calls against one replication session.    *)
EXTENDS ReplicationAction, TLC

CONSTANTS c1, c2

MCCallers == {c1, c2}
MCSymmetry == Permutations(MCCallers)

\* One session state for each way the handler and the array treat a state:
\* every status projection, every answer of validateRSState, and every
\* state the array accepts into, completes to or faults into.
\* Paused_For_Migration and Paused_For_NDU act as Paused does.
\* Partial_Cutover_For_Migration and Initializing act as Synchronizing does.
\* Failing_Over_For_DR (reached only as a first state) is read as
\* Synchronizing is, and the array completes it as it completes Failing_Over.
MCStates == {"OK", "Paused", "Failing_Over", "Failed_Over",
             "Resuming", "Reprotecting", "Synchronizing", "System_Paused", "Error"}

\* One request of each kind: UNPLANNED_FAILOVER_LOCAL is switched to Failover
\* as FAILOVER_REMOTE is.  An unregistered globalID is rejected before the
\* session is read, as a failed session read is.
MCReqActions == {"FAILOVER_REMOTE", "SUSPEND", "RESUME", "SYNC", "REPROTECT_LOCAL", "UNKNOWN"}
MCGIDCases == {"known"}
=============================================================================
