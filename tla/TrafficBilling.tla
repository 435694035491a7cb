---------------------------- MODULE TrafficBilling ----------------------------
(***************************************************************************)
(* What the traffic ledger promises the panel's owner, without reports,    *)
(* files or calls: every unit of usage is either still owed or billed,     *)
(* never both and never neither; the node forgets usage only once the      *)
(* panel had billed it; and when the panel is restored from a backup, what *)
(* the backup had not billed is owed again.                                *)
(***************************************************************************)
EXTENDS Integers

CONSTANTS Keys, Amounts

VARIABLES
  owed,       \* recorded and not billed
  billed,     \* billed by the panel
  forgotten,  \* no longer in the node's counters
  snapshots   \* bills the panel has reached and can be restored to

vars == <<owed, billed, forgotten, snapshots>>

Init ==
  /\ owed = [k \in Keys |-> 0]
  /\ billed = [k \in Keys |-> 0]
  /\ forgotten = [k \in Keys |-> 0]
  /\ snapshots = {billed}

Use(k, amount) ==
  /\ owed' = [owed EXCEPT ![k] = @ + amount]
  /\ UNCHANGED <<billed, forgotten, snapshots>>

\* Usage moves from owed to billed; a negative balance would be billed twice.
Bill ==
  /\ \A k \in Keys : owed'[k] >= 0 /\ billed'[k] >= billed[k]
  /\ owed' = [k \in Keys |-> owed[k] + billed[k] - billed'[k]]
  /\ snapshots' = snapshots \cup {billed'}
  /\ UNCHANGED forgotten

\* The node drops exactly what some bill it was told about holds.
Forget ==
  /\ forgotten' \in snapshots
  /\ \A k \in Keys : forgotten'[k] >= forgotten[k]
  /\ UNCHANGED <<owed, billed, snapshots>>

Restore ==
  /\ billed' \in snapshots
  /\ owed' = [k \in Keys |-> owed[k] + billed[k] - billed'[k]]
  /\ UNCHANGED <<forgotten, snapshots>>

Next ==
  \/ \E k \in Keys, amount \in Amounts : Use(k, amount)
  \/ Bill
  \/ Forget
  \/ Restore

Spec == Init /\ [][Next]_vars

=============================================================================
