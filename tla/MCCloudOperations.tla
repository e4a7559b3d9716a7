------------------------- MODULE MCCloudOperations -------------------------
(* Small instances of the operations of Cumulocity.                            *)
EXTENDS CloudOperations

CONSTANTS op1, op2

TestOps == {op1, op2}

\* Two operations at a time, each kind being met with another one.
Mix(k1, k2) == [o \in Ops |-> IF o = op1 THEN k1 ELSE k2]
TestMixes ==
  {Mix("config_snapshot", "device_profile"), Mix("custom", "software_update"),
   Mix("firmware_update", "invalid"), Mix("restart", "invalid"),
   Mix("log_upload", "dropped"), Mix("config_update", "dropped")}
=============================================================================
