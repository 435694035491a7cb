--------------------------- MODULE MCTrafficLedger ---------------------------
(* A small instance of the traffic ledger.  Keys 1 and 2 are two identities of
   one UID, so the walk must stop between them; key 3 is another account. *)
EXTENDS TrafficLedger

MCUidOf == <<1, 1, 2>>

=============================================================================
