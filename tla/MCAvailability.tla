--------------------------- MODULE MCAvailability ---------------------------
(* Small instances of the availability monitoring.                             *)
EXTENDS Availability

CONSTANTS main, child, agent, service

TestAgent == [d \in Devices |-> agent]

\* The timer of the alarms is shorter than the one of the heartbeats.
TestDuration == [p \in Payloads |-> IF p = Sync THEN 1 ELSE 2]
=============================================================================
