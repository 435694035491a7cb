----------------------------- MODULE MCDeviceSlots -----------------------------
(* Three devices with a connection each.  The panel may remove, list again and *)
(* kick the first.                                                              *)
EXTENDS DeviceSlots

CONSTANTS a, b, c, a1, b1, c1

MCDeviceOf == [x \in Conns |-> CASE x = a1 -> a [] x = b1 -> b [] OTHER -> c]
MCEntries  == [d \in Devices |-> IF d = a THEN {0, 1, Gone} ELSE {0}]

=============================================================================
