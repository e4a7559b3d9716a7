------------------------- MODULE MCFirmwareManager -------------------------
(* Small instances of the firmware manager.                                    *)
EXTENDS FirmwareManager, TLC

CONSTANTS camera, sensor

\* A firmware for each of two child devices, both named as the device, or both
\* for one of the two.
EachOne == [r \in Requests |-> r]
BothOne == [r \in Requests |-> camera]

\* The two child devices are interchangeable when each has a firmware.
Swaps == Permutations(Requests)
=============================================================================
