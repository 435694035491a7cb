---------------------------- MODULE MCTrafficQueue ----------------------------
(* Three connections recording one account, each with a record that fits once
   and one that fills the counter. *)
EXTENDS TrafficQueue

=============================================================================
