--------------------------- MODULE MCDeferredLedger ---------------------------
(* Two reports of two users.  The receipts overlap without covering each other,
   one covers another, one has other metadata, one says all is in conflict. *)
EXTENDS DeferredLedger

MCUsers == {1, 2}

Issued(meta, first, second) ==
  [meta |-> meta, scope |-> <<first, second>>, conflict |-> FALSE]

MCReceipts ==
  { Issued("a", 1, 0), Issued("a", 2, 0), Issued("a", 3, 2), Issued("b", 0, 1),
    [meta |-> "a", scope |-> <<3, 3>>, conflict |-> TRUE] }

=============================================================================
