---------------------------- MODULE DeferredLedger ----------------------------
(***************************************************************************)
(* Deferred receipts (src/common/traffic/deferred.go).  The panel may set  *)
(* part of a report aside: its receipt then names, per user, which side of *)
(* the usage is held (1 the user's, 2 the node's, 3 both).  Such receipts  *)
(* reach the node with an answer to a report, with an answer to a report   *)
(* sent again after the panel was restored, or with the panel's progress;  *)
(* several, not even agreeing ones, may arrive for one report.  The node   *)
(* keeps one of them as the confirmation, the ones it does not cover as    *)
(* proofs, and lets the panel merge confirmation and proofs before each    *)
(* cycle (the merge loop of APIClient.ReportUserTraffic).                  *)
(*                                                                         *)
(* A receipt is reduced to its metadata, its scopes and whether it says    *)
(* that all of the report is in conflict; signatures, hashes and the       *)
(* checks of malformed receipts are left out.                              *)
(***************************************************************************)
EXTENDS Integers, Sequences, SequencesExt

CONSTANTS
  Reports,      \* reports confirmed by the node, with their receipt archived
  Users,        \* users of a report
  Metas,        \* metadata a receipt can carry
  Receipts,     \* deferred receipts the panel may issue
  MaxReceipts   \* bound of the model: receipts that arrive unasked

Bit(scope, side) == (scope \div side) % 2

Union(a, b) ==
  (IF Bit(a, 1) + Bit(b, 1) > 0 THEN 1 ELSE 0)
    + (IF Bit(a, 2) + Bit(b, 2) > 0 THEN 2 ELSE 0)

Scopes == [Users -> 0..3]
Receipt == [meta : Metas, scope : Scopes, conflict : BOOLEAN]

\* Stand-ins for a receipt that sets nothing aside, and for none at all.
NoScope     == [u \in Users |-> 0]
Ordinary    == [meta |-> "ordinary", scope |-> NoScope, conflict |-> FALSE]
NotArchived == [meta |-> "none", scope |-> NoScope, conflict |-> FALSE]

ASSUME DeferredAssumption ==
  /\ "ordinary" \notin Metas /\ "none" \notin Metas
  /\ Receipts \subseteq Receipt
  /\ \A a \in Receipts : \E u \in Users : a.scope[u] # 0
  /\ \A a \in Receipts : a.conflict => \A u \in Users : a.scope[u] = 3
  /\ MaxReceipts \in Nat

VARIABLES
  archived,  \* confirmed_reports: the receipt Confirm stored, Ordinary or deferred
  held,      \* deferred_reports, for the reports in it
  expired,   \* reports held for longer than deferredRetention
  arrived,   \* history variable: receipts that came unasked
  disposed   \* history variable: receipts remembered, per report

vars == <<archived, held, expired, arrived, disposed>>

NotHeld == [confirmation |-> Ordinary, scope |-> NoScope, proofs |-> <<>>]

Held == [confirmation : Receipt \cup {Ordinary}, scope : Scopes, proofs : Seq(Receipt)]

TypeOK ==
  /\ archived \in [Reports -> Receipt \cup {Ordinary, NotArchived}]
  /\ held \in [Reports -> Held]
  /\ expired \subseteq Reports
  /\ arrived \in 0..MaxReceipts
  /\ disposed \in [Reports -> SUBSET Receipt]

Init ==
  /\ archived = [r \in Reports |-> NotArchived]
  /\ held = [r \in Reports |-> NotHeld]
  /\ expired = {}
  /\ arrived = 0
  /\ disposed = [r \in Reports |-> {}]

-----------------------------------------------------------------------------
(* rememberDeferred *)

Covers(a, b) == \A u \in Users : Union(a.scope[u], b.scope[u]) = a.scope[u]
Subsumes(a, b) == a.meta = b.meta /\ Covers(a, b)

\* Mutant of KeptProofs: a new confirmation drops all proofs.
KeepNoProof(ack, proofs) == <<>>

\* The proofs that another receipt does not cover, in their order.
NotSubsumed(ack, proofs) ==
  LET kept[i \in 0..Len(proofs)] ==
        IF i = 0 THEN <<>>
        ELSE IF Subsumes(ack, proofs[i]) THEN kept[i - 1]
        ELSE Append(kept[i - 1], proofs[i])
  IN  kept[Len(proofs)]

\* The proofs a new confirmation does not replace.
KeptProofs(ack, proofs) == IF ack.conflict THEN <<>> ELSE NotSubsumed(ack, proofs)

\* Mutant of BothScopes: the newest receipt decides alone.
NewestScope(old, ack) == ack.scope

BothScopes(old, ack) == [u \in Users |-> Union(old.scope[u], ack.scope[u])]

\* What is held of a report once another receipt for it arrives.
Merged(old, ack) ==
  IF old = NotHeld
  THEN [confirmation |-> ack, scope |-> ack.scope, proofs |-> <<>>]
  ELSE IF old.confirmation.conflict
  THEN [old EXCEPT !.proofs = <<>>]
  ELSE IF ack.conflict \/ Subsumes(ack, old.confirmation)
  THEN [confirmation |-> ack, scope |-> BothScopes(old, ack),
        proofs |-> KeptProofs(ack, old.proofs)]
  ELSE [old EXCEPT
          !.scope = BothScopes(old, ack),
          !.proofs = IF Subsumes(old.confirmation, ack) \/ Contains(@, ack)
                     THEN @ ELSE Append(@, ack)]

\* Mutant of Prunable: the age alone decides.
PrunableByAge(r, h, old) == r \in old

\* pruneDeferred: old records go, unless the panel still has to merge their proofs.
Prunable(r, h, old) == h[r].proofs = <<>> /\ r \in old

\* The time of the first receipt counts, so a record may be stored and pruned in
\* one transaction.
Remember(r, ack) ==
  LET stored == [held EXCEPT ![r] = Merged(@, ack)]
      old    == IF held[r] = NotHeld THEN expired \ {r} ELSE expired
      gone   == {q \in Reports : stored[q] # NotHeld /\ Prunable(q, stored, old)}
  IN  /\ held' = [q \in Reports |-> IF q \in gone THEN NotHeld ELSE stored[q]]
      /\ expired' = old \ gone
      /\ disposed' = [q \in Reports |->
           IF q \in gone THEN {} ELSE IF q = r THEN disposed[q] \cup {ack} ELSE disposed[q]]

-----------------------------------------------------------------------------
Arrives == arrived < MaxReceipts /\ arrived' = arrived + 1

\* Store.Confirm of a report the panel answered with this receipt.
Confirm(r, receipt) ==
  /\ archived[r] = NotArchived
  /\ archived' = [archived EXCEPT ![r] = receipt]
  /\ IF receipt = Ordinary
     THEN UNCHANGED <<held, expired, disposed>>
     ELSE Remember(r, receipt)
  /\ UNCHANGED arrived

\* RememberDeferredConfirmation: the receipt that comes with the progress.
RebuildFromProgress(r, ack) ==
  /\ archived[r] # NotArchived
  /\ Arrives
  /\ Remember(r, ack)
  /\ UNCHANGED archived

\* The recovery loop sends an archived report again, unless receipts wait to be
\* merged, and remembers the answer.
Recover(r, ack) ==
  /\ archived[r] # NotArchived
  /\ held[r].proofs = <<>>
  /\ Arrives
  /\ Remember(r, ack)
  /\ UNCHANGED archived

\* The panel's answer to a merge (external): both receipts in one, or a receipt
\* that says the whole report is in conflict when they cannot be combined.
PanelMerges(a, b) ==
  IF a.meta = b.meta
  THEN [a EXCEPT !.scope = [u \in Users |-> Union(a.scope[u], b.scope[u])]]
  ELSE [meta |-> a.meta, scope |-> [u \in Users |-> 3], conflict |-> TRUE]

\* Mutant of Merge: the panel's answer is not remembered.
MergeForgotten(r) == held[r].proofs # <<>> /\ UNCHANGED vars

\* One turn of the merge loop; an answer that is one of the two receipts again
\* ends the cycle with an error and changes nothing.
Merge(r) ==
  /\ held[r].proofs # <<>>
  /\ LET conf   == held[r].confirmation
         proof  == Head(held[r].proofs)
         answer == PanelMerges(conf, proof)
     IN  /\ answer \notin {conf, proof}
         /\ Remember(r, answer)
  /\ UNCHANGED <<archived, arrived>>

\* deferredRetention passes for a record.
Age(r) ==
  /\ held[r] # NotHeld /\ r \notin expired
  /\ expired' = expired \cup {r}
  /\ UNCHANGED <<archived, held, arrived, disposed>>

Next ==
  \E r \in Reports :
    \/ \E receipt \in Receipts \cup {Ordinary} : Confirm(r, receipt)
    \/ \E ack \in Receipts : RebuildFromProgress(r, ack) \/ Recover(r, ack)
    \/ Merge(r)
    \/ Age(r)

\* Every cycle of the controller runs the merge loop.
Spec == Init /\ [][Next]_vars /\ \A r \in Reports : WF_vars(Merge(r))

-----------------------------------------------------------------------------
(* Nothing the panel set aside is forgotten while a report is held: every
   receipt is covered, with its own metadata, by the confirmation or a proof, or
   the whole report is in conflict. *)
EveryReceiptCovered ==
  \A r \in Reports : \A a \in disposed[r] :
    LET kept == {held[r].confirmation} \cup ToSet(held[r].proofs)
    IN  \E k \in kept : k.conflict \/ Subsumes(k, a)

(* The entries shown for a held report are all that was ever set aside of it. *)
EntriesComplete ==
  \A r \in Reports : \A a \in disposed[r] :
    \A u \in Users : Union(held[r].scope[u], a.scope[u]) = held[r].scope[u]

(* Receipts that still have to be merged outlive the retention: a record with
   proofs goes only in a step that settles these very proofs. *)
ProofsSurvive ==
  [][ \A r \in Reports :
        held[r].proofs # <<>> /\ held'[r] = NotHeld
          => Merge(r) \/ \E ack \in Receipts : RebuildFromProgress(r, ack) ]_vars

(* The merge loop ends: every report gets rid of its proofs, so that it can be
   recovered again. *)
ProofsMerged == \A r \in Reports : []<>(held[r].proofs = <<>>)

=============================================================================
