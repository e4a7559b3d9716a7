---------------------------- MODULE MCAlarmSync ----------------------------
(* Two alarms, one of them held by the broker for a mapper that is down, of  *)
(* one severity, or malformed.                                              *)
EXTENDS AlarmSync

TwoAlarms   == {"pressure", "door"}
HeldAlarm   == {"pressure"}
AnyPayload  == {"minor", "garbage"}
NotParsable == {"garbage"}
=============================================================================
