--------------------------- MODULE MCRollingQuota ---------------------------
(* Values of RollingQuota's constants for TLC. *)
EXTENDS RollingQuota

BothBackends == {"process", "lakebase"}
Deployed == {"lakebase"}
=============================================================================
