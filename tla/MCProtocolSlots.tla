--------------------------- MODULE MCProtocolSlots ---------------------------
(* Two official devices, the first with a credential before and one after its
   password changes, for one place.  The panel kicks a device, changes the
   password, removes the second device and lists it again. *)
EXTENDS ProtocolSlots, TLC

CONSTANTS phone, laptop

MCCreds == {"old", "new", "other"}
MCDeviceOf == "old" :> phone @@ "new" :> phone @@ "other" :> laptop
MCConns == {"a1", "a2", "b1"}
MCCredOf == "a1" :> "old" @@ "a2" :> "new" @@ "b1" :> "other"
MCHostOf == [c \in MCConns |-> "host"]
MCLists ==
  {"old" :> 0 @@ "new" :> Gone @@ "other" :> 0,
   "old" :> Gone @@ "new" :> 0 @@ "other" :> 1,
   "old" :> 1 @@ "new" :> Gone @@ "other" :> Gone}
=============================================================================
