-------------------------- MODULE MCTrafficRotation --------------------------
(* Four accounts, two of them identities of one UID, two accounts per report. *)
EXTENDS TrafficRotation

MCUidOf == <<1, 1, 2, 3>>

=============================================================================
