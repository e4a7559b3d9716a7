---------------------------- MODULE MCMqttBridge ----------------------------
(* A small instance of the MQTT bridge.                                        *)
EXTENDS MqttBridge

CONSTANTS measurement, command, alarm

\* Two local messages bridged in both directions, and a message of the cloud
\* bridged one way, of which two at most are published.
TestMsgs == {measurement, alarm, command}
TestOrigin == [m \in TestMsgs |-> IF m = command THEN "cloud" ELSE "local"]
TestBidirectional == {measurement, alarm}
=============================================================================
