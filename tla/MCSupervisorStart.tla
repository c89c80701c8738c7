------------------------- MODULE MCSupervisorStart -------------------------
(***************************************************************************)
(* SupervisorStart for TLC: two releases of the Supervisor.                *)
(***************************************************************************)
EXTENDS SupervisorStart
CONSTANTS v1, v2

MCVersions == {v1, v2}
=============================================================================
