----------------------- MODULE DeferredLedger_proofs ------------------------
(***************************************************************************)
(* For any reports, users, metadata and receipts of the panel: what the    *)
(* node keeps of a held report covers every receipt it was given for it,   *)
(* the entries it shows are all that was set aside, and proofs that still  *)
(* have to be merged are not pruned.                                       *)
(***************************************************************************)
EXTENDS DeferredLedger, WellFoundedInduction, TLAPS

(* A receipt that says the whole report is in conflict holds both sides of    *)
(* every user.                                                                *)
ConflictHoldsAll(scope) == \A u \in Users : scope[u] = 3

(* What is kept of a report, given the receipts D that came for it.           *)
Covered(h, D) ==
  \A a \in D : \E k \in {h.confirmation} \cup ToSet(h.proofs) : k.conflict \/ Subsumes(k, a)
Complete(h, D) ==
  \A a \in D : \A u \in Users : Union(h.scope[u], a.scope[u]) = h.scope[u]
Kept(h, D) ==
  /\ h \in Held
  /\ IF h = NotHeld THEN D = {} ELSE h.confirmation \in Receipt
  /\ h.confirmation.conflict => h.proofs = <<>> /\ ConflictHoldsAll(h.scope)
  /\ \A p \in ToSet(h.proofs) : ~ p.conflict
  /\ Covered(h, D)
  /\ Complete(h, D)

(* The inductive invariant: only archived reports are held, and what is kept  *)
(* of each stands for all receipts that came for it.                          *)
DeferredInv ==
  /\ TypeOK
  /\ \A r \in Reports : archived[r] = NotArchived => held[r] = NotHeld
  /\ \A r \in Reports : Kept(held[r], disposed[r])

-----------------------------------------------------------------------------
(* Scopes and receipts                                                       *)

\* Sides of the usage are united like sets.
LEMMA UnionLaws ==
  ASSUME NEW a \in 0..3, NEW b \in 0..3, NEW c \in 0..3
  PROVE  /\ Union(a, b) \in 0..3
         /\ Union(a, a) = a /\ Union(3, a) = 3 /\ Union(a, 3) = 3
         /\ Union(Union(a, b), a) = Union(a, b)
         /\ Union(Union(a, b), b) = Union(a, b)
         /\ Union(a, c) = a => Union(Union(a, b), c) = Union(a, b)
         /\ Union(a, b) = a /\ Union(b, c) = b => Union(a, c) = a
BY DEF Union, Bit

LEMMA SubsumesLaws ==
  ASSUME NEW a \in Receipt, NEW b \in Receipt, NEW c \in Receipt
  PROVE  /\ Subsumes(a, a)
         /\ Subsumes(a, b) /\ Subsumes(b, c) => Subsumes(a, c)
<1>1. \A u \in Users : a.scope[u] \in 0..3 /\ b.scope[u] \in 0..3 /\ c.scope[u] \in 0..3
  BY DEF Receipt, Scopes
<1>. QED BY <1>1, UnionLaws DEF Subsumes, Covers

\* The stand-ins are no receipts.
LEMMA NoReceipt ==
  /\ Ordinary \notin Receipt /\ NotArchived \notin Receipt /\ Ordinary # NotArchived
  /\ NoScope \in Scopes /\ <<>> \in Seq(Receipt) /\ NotHeld \in Held
BY DeferredAssumption DEF Ordinary, NotArchived, NoScope, Receipt, Scopes, NotHeld, Held

\* Induction as a fact about a set of numbers: one that holds 0 and with each
\* number the next holds all up to n.
LEMMA UpTo ==
  ASSUME NEW n \in Nat, NEW T, 0 \in T, \A i \in 0..n-1 : i \in T => i + 1 \in T
  PROVE  \A i \in 0..n : i \in T
<1>. DEFINE Bad == {i \in 0..n : i \notin T}
<1>. SUFFICES ASSUME Bad # {} PROVE FALSE
  OBVIOUS
<1>1. PICK m \in Bad : \A i \in Bad : ~ (<<i, m>> \in OpToRel(<, Nat))
  <2>1. Bad \subseteq Nat
    OBVIOUS
  <2>. QED BY <2>1, NatLessThanWellFounded, WFMin
<1>2. m \in 0..n /\ m \notin T
  BY <1>1
<1>3. m # 0
  BY <1>2
<1>4. m - 1 \in 0..n-1 /\ m - 1 \in 0..n /\ (m - 1) + 1 = m
  BY <1>2, <1>3
<1>5. m - 1 \in Bad
  BY <1>2, <1>4
<1>6. m - 1 \in Nat /\ m \in Nat /\ m - 1 < m
  BY <1>2, <1>4
<1>7. <<m - 1, m>> \in OpToRel(<, Nat)
  BY <1>6 DEF OpToRel
<1>. QED BY <1>1, <1>5, <1>7

LEMMA AppendSet ==
  ASSUME NEW s \in Seq(Receipt), NEW p \in Receipt
  PROVE  /\ Append(s, p) \in Seq(Receipt)
         /\ ToSet(Append(s, p)) = ToSet(s) \cup {p}
<1>1. /\ Append(s, p) \in Seq(Receipt)
      /\ DOMAIN Append(s, p) = 1..Len(s) + 1 /\ DOMAIN s = 1..Len(s) /\ Len(s) \in Nat
      /\ \A i \in 1..Len(s) : Append(s, p)[i] = s[i]
      /\ Append(s, p)[Len(s) + 1] = p
  OBVIOUS
<1>2. ToSet(Append(s, p)) \subseteq ToSet(s) \cup {p}
  BY <1>1 DEF ToSet
<1>3. ToSet(s) \cup {p} \subseteq ToSet(Append(s, p))
  BY <1>1 DEF ToSet
<1>. QED BY <1>1, <1>2, <1>3

(* The loop of rememberDeferred over the proofs: it keeps those the new        *)
(* confirmation does not cover, and no others.                                 *)
LEMMA NotSubsumedKeeps ==
  ASSUME NEW ack \in Receipt, NEW proofs \in Seq(Receipt)
  PROVE  /\ NotSubsumed(ack, proofs) \in Seq(Receipt)
         /\ ToSet(NotSubsumed(ack, proofs)) = {p \in ToSet(proofs) : ~Subsumes(ack, p)}
<1>. DEFINE Step(k, i) == IF i = 0 THEN <<>>
                          ELSE IF Subsumes(ack, proofs[i]) THEN k[i - 1]
                          ELSE Append(k[i - 1], proofs[i])
            IsLoop(k, n) == k = [i \in 0..n |-> Step(k, i)]
            Left(i) == {proofs[j] : j \in {l \in 1..i : ~Subsumes(ack, proofs[l])}}
            N == Len(proofs)
<1>1. N \in Nat /\ DOMAIN proofs = 1..N /\ \A i \in 1..N : proofs[i] \in Receipt
  OBVIOUS
<1>2. \A n \in 0..N : \E k : IsLoop(k, n)
  <2>. DEFINE T == {n \in 0..N : \E k : IsLoop(k, n)}
  <2>1. 0 \in T
    <3>. DEFINE k == [i \in 0..0 |-> <<>>]
    <3>1. \A i \in 0..0 : Step(k, i) = <<>>
      OBVIOUS
    <3>2. IsLoop(k, 0) /\ 0 \in 0..N
      BY <1>1, <3>1
    <3>. HIDE DEF IsLoop, k
    <3>. QED BY <3>2
  <2>2. ASSUME NEW n \in 0..N-1, n \in T PROVE n + 1 \in T
    <3>1. PICK k : IsLoop(k, n)
      BY <2>2
    <3>. DEFINE g == [i \in 0..n+1 |-> IF i = n + 1 THEN Step(k, i) ELSE k[i]]
    <3>2. \A i \in 0..n : g[i] = k[i]
      BY <1>1
    <3>3. \A i \in 0..n+1 : g[i] = Step(g, i)
      <4>1. \A i \in 0..n+1 : Step(g, i) = Step(k, i)
        BY <3>2, <1>1
      <4>2. \A i \in 0..n : k[i] = Step(k, i)
        BY <3>1
      <4>. QED BY <4>1, <4>2, <3>2, <1>1
    <3>4. IsLoop(g, n + 1)
      BY <3>3
    <3>5. n + 1 \in 0..N
      BY <1>1
    <3>. HIDE DEF g, IsLoop
    <3>. QED BY <3>4, <3>5
  <2>3. \A n \in 0..N : n \in T
    <3>. HIDE DEF T
    <3>. QED BY <2>1, <2>2, <1>1, UpTo
  <2>. QED BY <2>3
<1>3. PICK kept : IsLoop(kept, N) /\ NotSubsumed(ack, proofs) = kept[N]
  <2>. DEFINE chosen == CHOOSE k : IsLoop(k, N)
  <2>1. NotSubsumed(ack, proofs) = chosen[N]
    BY DEF NotSubsumed
  <2>2. IsLoop(chosen, N)
    <3>1. \E k : IsLoop(k, N)
      <4>. HIDE DEF IsLoop
      <4>. QED BY <1>2, <1>1
    <3>. HIDE DEF IsLoop
    <3>. QED BY <3>1
  <2>. HIDE DEF chosen
  <2>. QED BY <2>1, <2>2
<1>4. /\ kept[0] = <<>>
      /\ \A i \in 1..N : kept[i] = IF Subsumes(ack, proofs[i]) THEN kept[i - 1]
                                   ELSE Append(kept[i - 1], proofs[i])
  <2>1. \A i \in 0..N : kept[i] = Step(kept, i)
    BY <1>3
  <2>. QED BY <2>1, <1>1
<1>5. \A i \in 0..N : kept[i] \in Seq(Receipt) /\ ToSet(kept[i]) = Left(i)
  <2>. DEFINE T == {i \in 0..N : kept[i] \in Seq(Receipt) /\ ToSet(kept[i]) = Left(i)}
  <2>1. 0 \in T
    <3>1. ToSet(<<>>) = {} /\ <<>> \in Seq(Receipt)
      BY DEF ToSet
    <3>2. Left(0) = {} /\ kept[0] = <<>> /\ 0 \in 0..N
      BY <1>4, <1>1
    <3>. HIDE DEF Left
    <3>. QED BY <3>1, <3>2
  <2>2. ASSUME NEW i \in 0..N-1, i \in T PROVE i + 1 \in T
    <3>1. i + 1 \in 1..N /\ (i + 1) - 1 = i /\ proofs[i + 1] \in Receipt
      BY <1>1
    <3>2. CASE Subsumes(ack, proofs[i + 1])
      <4>1. kept[i + 1] = kept[i]
        BY <1>4, <3>1, <3>2
      <4>2. Left(i + 1) = Left(i)
        BY <3>1, <3>2
      <4>3. kept[i] \in Seq(Receipt) /\ ToSet(kept[i]) = Left(i) /\ i + 1 \in 0..N
        BY <2>2, <3>1
      <4>. HIDE DEF Left
      <4>. QED BY <4>1, <4>2, <4>3
    <3>3. CASE ~Subsumes(ack, proofs[i + 1])
      <4>1. kept[i + 1] = Append(kept[i], proofs[i + 1])
        BY <1>4, <3>1, <3>3
      <4>2. Left(i + 1) = Left(i) \cup {proofs[i + 1]}
        BY <3>1, <3>3
      <4>3. /\ kept[i + 1] \in Seq(Receipt)
            /\ ToSet(kept[i + 1]) = ToSet(kept[i]) \cup {proofs[i + 1]}
        <5>1. kept[i] \in Seq(Receipt)
          BY <2>2
        <5>. QED BY <4>1, <3>1, <5>1, AppendSet
      <4>4. ToSet(kept[i]) = Left(i) /\ i + 1 \in 0..N
        BY <2>2, <3>1
      <4>. HIDE DEF Left
      <4>. QED BY <4>2, <4>3, <4>4
    <3>. QED BY <3>2, <3>3
  <2>3. \A i \in 0..N : i \in T
    <3>. HIDE DEF T
    <3>. QED BY <2>1, <2>2, <1>1, UpTo
  <2>. QED BY <2>3
<1>6. kept[N] \in Seq(Receipt) /\ ToSet(kept[N]) = Left(N)
  <2>. HIDE DEF Left
  <2>. QED BY <1>5, <1>1
<1>7. Left(N) = {p \in ToSet(proofs) : ~Subsumes(ack, p)}
  BY <1>1 DEF ToSet
<1>. QED BY <1>3, <1>6, <1>7

LEMMA KeptProofsKeeps ==
  ASSUME NEW ack \in Receipt, NEW proofs \in Seq(Receipt)
  PROVE  /\ KeptProofs(ack, proofs) \in Seq(Receipt)
         /\ ack.conflict => KeptProofs(ack, proofs) = <<>>
         /\ ~ack.conflict =>
              ToSet(KeptProofs(ack, proofs)) = {p \in ToSet(proofs) : ~Subsumes(ack, p)}
<1>1. <<>> \in Seq(Receipt)
  OBVIOUS
<1>. QED BY <1>1, NotSubsumedKeeps DEF KeptProofs

-----------------------------------------------------------------------------
(* rememberDeferred                                                          *)

(* Whichever receipt the node decides to keep as the confirmation, everything *)
(* it was given stays covered and shown.                                      *)
LEMMA MergedIsKept ==
  ASSUME NEW old, NEW D \in SUBSET Receipt, Kept(old, D),
         NEW ack \in Receipt, ack.conflict => ConflictHoldsAll(ack.scope)
  PROVE  Kept(Merged(old, ack), D \cup {ack}) /\ Merged(old, ack) # NotHeld
<1>. DEFINE new == Merged(old, ack)
<1>1. /\ old \in Held /\ ack.scope \in Scopes
      /\ \A u \in Users : ack.scope[u] \in 0..3 /\ old.scope[u] \in 0..3
      /\ \A a \in D : \A u \in Users : a.scope[u] \in 0..3
      /\ old.proofs \in Seq(Receipt) /\ ToSet(old.proofs) \subseteq Receipt
  <2>1. old \in Held
    BY DEF Kept
  <2>2. old.scope \in Scopes /\ old.proofs \in Seq(Receipt)
    BY <2>1 DEF Held
  <2>3. ToSet(old.proofs) \subseteq Receipt
    BY <2>2 DEF ToSet
  <2>4. ack.scope \in Scopes /\ \A a \in D : a.scope \in Scopes
    BY DEF Receipt
  <2>. QED BY <2>1, <2>2, <2>3, <2>4 DEF Scopes
<1>2. /\ BothScopes(old, ack) \in Scopes
      /\ \A u \in Users : BothScopes(old, ack)[u] = Union(old.scope[u], ack.scope[u])
  BY <1>1, UnionLaws DEF BothScopes, Scopes
<1>3. Complete([confirmation |-> ack, scope |-> BothScopes(old, ack), proofs |-> <<>>], D \cup {ack})
  BY <1>1, <1>2, UnionLaws DEF Complete, Kept
<1>4. CASE old = NotHeld
  <2>1. new = [confirmation |-> ack, scope |-> ack.scope, proofs |-> <<>>] /\ D = {}
    BY <1>4 DEF Merged, Kept
  <2>2. new \in Held /\ new.confirmation = ack /\ new.scope = ack.scope /\ new.proofs = <<>>
    BY <2>1, <1>1, NoReceipt DEF Held
  <2>3. Covered(new, D \cup {ack})
    BY <2>1, <2>2, SubsumesLaws DEF Covered
  <2>4. Complete(new, D \cup {ack})
    BY <2>1, <2>2, <1>1, UnionLaws DEF Complete
  <2>5. new # NotHeld
    BY <2>2, NoReceipt DEF NotHeld
  <2>6. ToSet(<<>>) = {}
    BY DEF ToSet
  <2>. QED BY <2>2, <2>3, <2>4, <2>5, <2>6 DEF Kept
<1>5. CASE old # NotHeld /\ old.confirmation.conflict
  <2>1. /\ new = [old EXCEPT !.proofs = <<>>] /\ old.proofs = <<>>
        /\ \A u \in Users : old.scope[u] = 3
    BY <1>5 DEF Merged, Kept, ConflictHoldsAll
  <2>2. new = old
    BY <2>1, <1>1 DEF Held
  <2>3. Covered(new, D \cup {ack})
    BY <2>2, <1>5 DEF Covered
  <2>4. Complete(new, D \cup {ack})
    BY <2>1, <2>2, <1>1, UnionLaws DEF Complete
  <2>. QED BY <2>2, <2>3, <2>4, <1>5 DEF Kept
<1>6. CASE /\ old # NotHeld /\ ~old.confirmation.conflict
           /\ ack.conflict \/ Subsumes(ack, old.confirmation)
  <2>1. new = [confirmation |-> ack, scope |-> BothScopes(old, ack),
               proofs |-> KeptProofs(ack, old.proofs)]
    BY <1>6 DEF Merged
  <2>2. /\ new \in Held /\ new.confirmation = ack /\ new.scope = BothScopes(old, ack)
        /\ new.proofs = KeptProofs(ack, old.proofs)
    BY <2>1, <1>1, <1>2, KeptProofsKeeps DEF Held
  <2>3. Complete(new, D \cup {ack})
    BY <2>2, <1>3 DEF Complete
  <2>4. Covered(new, D \cup {ack})
    <3>1. CASE ack.conflict
      BY <2>2, <3>1 DEF Covered
    <3>2. CASE ~ack.conflict
      <4>1. Subsumes(ack, old.confirmation) /\ old.confirmation \in Receipt
        BY <1>6, <3>2 DEF Kept
      <4>2. ASSUME NEW a \in D
            PROVE  \E k \in {ack} \cup ToSet(new.proofs) : k.conflict \/ Subsumes(k, a)
        <5>1. PICK k \in {old.confirmation} \cup ToSet(old.proofs) : k.conflict \/ Subsumes(k, a)
          BY DEF Kept, Covered
        <5>2. Subsumes(k, a) /\ k \in Receipt
          BY <5>1, <4>1, <1>1, <1>6 DEF Kept
        <5>3. CASE Subsumes(ack, k)
          BY <5>2, <5>3, SubsumesLaws
        <5>4. CASE ~Subsumes(ack, k)
          <6>1. k \in ToSet(new.proofs)
            BY <5>1, <5>4, <4>1, <2>2, <3>2, <1>1, KeptProofsKeeps
          <6>. QED BY <5>2, <6>1
        <5>. QED BY <5>3, <5>4
      <4>3. Subsumes(ack, ack)
        BY SubsumesLaws
      <4>. QED BY <4>2, <4>3, <2>2 DEF Covered
    <3>. QED BY <3>1, <3>2
  <2>5. new.confirmation.conflict => new.proofs = <<>> /\ ConflictHoldsAll(new.scope)
    BY <2>2, <1>1, <1>2, KeptProofsKeeps, UnionLaws DEF ConflictHoldsAll
  <2>6. \A p \in ToSet(new.proofs) : ~p.conflict
    <3>1. ToSet(<<>>) = {}
      BY DEF ToSet
    <3>. QED BY <2>2, <1>1, <3>1, KeptProofsKeeps DEF Kept
  <2>7. new # NotHeld
    BY <2>2, NoReceipt DEF NotHeld
  <2>. QED BY <2>2, <2>3, <2>4, <2>5, <2>6, <2>7 DEF Kept
<1>7. CASE /\ old # NotHeld /\ ~old.confirmation.conflict
           /\ ~ack.conflict /\ ~Subsumes(ack, old.confirmation)
  <2>. DEFINE kept == IF Subsumes(old.confirmation, ack) \/ Contains(old.proofs, ack)
                      THEN old.proofs ELSE Append(old.proofs, ack)
  <2>1. new = [old EXCEPT !.scope = BothScopes(old, ack), !.proofs = kept]
    BY <1>7 DEF Merged
  <2>2. /\ kept \in Seq(Receipt) /\ ToSet(old.proofs) \subseteq ToSet(kept)
        /\ ToSet(kept) \subseteq ToSet(old.proofs) \cup {ack}
        /\ Subsumes(old.confirmation, ack) \/ ack \in ToSet(kept)
    <3>1. Contains(old.proofs, ack) => ack \in ToSet(old.proofs)
      BY <1>1 DEF Contains, ToSet
    <3>. QED BY <1>1, <3>1, AppendSet
  <2>. HIDE DEF kept
  <2>3. /\ new \in Held /\ new.confirmation = old.confirmation
        /\ new.scope = BothScopes(old, ack) /\ new.proofs = kept
    BY <2>1, <2>2, <1>1, <1>2 DEF Held
  <2>4. Complete(new, D \cup {ack})
    BY <2>3, <1>3 DEF Complete
  <2>5. Covered(new, D \cup {ack})
    <3>1. ASSUME NEW a \in D
          PROVE  \E k \in {new.confirmation} \cup ToSet(new.proofs) : k.conflict \/ Subsumes(k, a)
      BY <2>2, <2>3 DEF Kept, Covered
    <3>2. \E k \in {new.confirmation} \cup ToSet(new.proofs) : k.conflict \/ Subsumes(k, ack)
      BY <2>2, <2>3, SubsumesLaws
    <3>. QED BY <3>1, <3>2 DEF Covered
  <2>6. new # NotHeld
    BY <2>3, <1>7, NoReceipt DEF NotHeld, Kept
  <2>. QED BY <2>2, <2>3, <2>4, <2>5, <2>6, <1>7 DEF Kept
<1>. QED BY <1>4, <1>5, <1>6, <1>7

\* Nothing is kept of a report that was never held, or that was pruned.
LEMMA NothingKept == Kept(NotHeld, {})
<1>1. ToSet(<<>>) = {}
  BY DEF ToSet
<1>2. /\ NotHeld \in Held /\ NotHeld.proofs = <<>>
      /\ NotHeld.confirmation.conflict = FALSE
  BY NoReceipt DEF NotHeld, Ordinary
<1>. QED BY <1>1, <1>2 DEF Kept, Covered, Complete

(* rememberDeferred merges one record and prunes old ones: every record keeps  *)
(* what it stands for, and of those with proofs only the merged one can go.    *)
LEMMA RememberKeeps ==
  ASSUME DeferredInv, NEW r \in Reports, NEW ack \in Receipt,
         ack.conflict => ConflictHoldsAll(ack.scope), Remember(r, ack)
  PROVE  /\ held' \in [Reports -> Held] /\ expired' \subseteq Reports
         /\ disposed' \in [Reports -> SUBSET Receipt]
         /\ \A q \in Reports : Kept(held'[q], disposed'[q])
         /\ \A q \in Reports \ {r} : held[q] = NotHeld => held'[q] = NotHeld
         /\ \A q \in Reports \ {r} : held[q].proofs # <<>> => held'[q] = held[q]
<1>. DEFINE stored == [held EXCEPT ![r] = Merged(@, ack)]
            old    == IF held[r] = NotHeld THEN expired \ {r} ELSE expired
            gone   == {q \in Reports : stored[q] # NotHeld /\ Prunable(q, stored, old)}
            came   == [disposed EXCEPT ![r] = disposed[r] \cup {ack}]
<1>1. /\ held \in [Reports -> Held] /\ disposed \in [Reports -> SUBSET Receipt]
      /\ expired \subseteq Reports
      /\ \A q \in Reports : Kept(held[q], disposed[q])
  BY DEF DeferredInv, TypeOK
<1>2. Kept(Merged(held[r], ack), disposed[r] \cup {ack})
  BY <1>1, MergedIsKept
<1>3. \A q \in Reports : /\ stored[q] = IF q = r THEN Merged(held[r], ack) ELSE held[q]
                         /\ came[q] = IF q = r THEN disposed[r] \cup {ack} ELSE disposed[q]
  BY <1>1
<1>4. \A q \in Reports : Kept(stored[q], came[q])
  BY <1>1, <1>2, <1>3
<1>5. /\ held' = [q \in Reports |-> IF q \in gone THEN NotHeld ELSE stored[q]]
      /\ expired' = old \ gone
      /\ disposed' = [q \in Reports |-> IF q \in gone THEN {}
                         ELSE IF q = r THEN disposed[q] \cup {ack} ELSE disposed[q]]
  BY DEF Remember
<1>6. \A q \in Reports : q \in gone => stored[q].proofs = <<>>
  BY DEF Prunable
<1>. HIDE DEF stored, gone, came
<1>7. /\ \A q \in Reports : held'[q] = IF q \in gone THEN NotHeld ELSE stored[q]
      /\ \A q \in Reports : disposed'[q] = IF q \in gone THEN {} ELSE came[q]
  BY <1>3, <1>5
<1>8. \A q \in Reports : Kept(held'[q], disposed'[q])
  BY <1>4, <1>7, NothingKept
<1>9. \A q \in Reports : held'[q] \in Held
  BY <1>8 DEF Kept
<1>10. held' \in [Reports -> Held]
  BY <1>5, <1>9
<1>11. disposed' \in [Reports -> SUBSET Receipt]
  BY <1>5, <1>1
<1>12. \A q \in Reports \ {r} :
         /\ held[q] = NotHeld => held'[q] = NotHeld
         /\ held[q].proofs # <<>> => held'[q] = held[q]
  BY <1>3, <1>6, <1>7
<1>13. expired' \subseteq Reports
  BY <1>1, <1>5
<1>. QED BY <1>8, <1>10, <1>11, <1>12, <1>13

-----------------------------------------------------------------------------
(* Steps                                                                     *)

LEMMA DeferredInit == Init => DeferredInv
<1>. SUFFICES ASSUME Init PROVE DeferredInv
  OBVIOUS
<1>1. /\ archived = [r \in Reports |-> NotArchived] /\ held = [r \in Reports |-> NotHeld]
      /\ expired = {} /\ arrived = 0 /\ disposed = [r \in Reports |-> {}]
  BY DEF Init
<1>2. TypeOK
  BY <1>1, NoReceipt, DeferredAssumption DEF TypeOK
<1>. QED BY <1>1, <1>2, NothingKept DEF DeferredInv

(* What Remember needs of the receipt at each place it is called from: the     *)
(* panel's own receipts, and its answer to a merge.                            *)
LEMMA IssuedReceipt ==
  ASSUME NEW ack \in Receipts
  PROVE  ack \in Receipt /\ (ack.conflict => ConflictHoldsAll(ack.scope))
BY DeferredAssumption DEF ConflictHoldsAll

LEMMA MergeAnswer ==
  ASSUME DeferredInv, NEW r \in Reports, held[r].proofs # <<>>
  PROVE  LET answer == PanelMerges(held[r].confirmation, Head(held[r].proofs))
         IN  answer \in Receipt /\ (answer.conflict => ConflictHoldsAll(answer.scope))
<1>. DEFINE conf == held[r].confirmation
            proof == Head(held[r].proofs)
<1>1. Kept(held[r], disposed[r]) /\ held[r].proofs \in Seq(Receipt)
  BY DEF DeferredInv, TypeOK, Held
<1>2. held[r] # NotHeld
  BY DEF NotHeld
<1>3. conf \in Receipt /\ ~conf.conflict /\ proof \in Receipt
  BY <1>1, <1>2 DEF Kept
<1>4. /\ conf.meta \in Metas /\ conf.conflict \in BOOLEAN
      /\ \A u \in Users : conf.scope[u] \in 0..3 /\ proof.scope[u] \in 0..3
  BY <1>3 DEF Receipt, Scopes
<1>. HIDE DEF conf, proof
<1>5. CASE conf.meta = proof.meta
  <2>1. PanelMerges(conf, proof) =
          [conf EXCEPT !.scope = [u \in Users |-> Union(conf.scope[u], proof.scope[u])]]
    BY <1>5 DEF PanelMerges
  <2>2. [u \in Users |-> Union(conf.scope[u], proof.scope[u])] \in Scopes
    BY <1>4, UnionLaws DEF Scopes
  <2>3. /\ PanelMerges(conf, proof) \in Receipt
        /\ PanelMerges(conf, proof).conflict = conf.conflict
    BY <2>1, <2>2, <1>3 DEF Receipt
  <2>. QED BY <2>3, <1>3 DEF conf, proof
<1>6. CASE conf.meta # proof.meta
  <2>1. PanelMerges(conf, proof) =
          [meta |-> conf.meta, scope |-> [u \in Users |-> 3], conflict |-> TRUE]
    BY <1>6 DEF PanelMerges
  <2>2. [u \in Users |-> 3] \in Scopes
    BY DEF Scopes
  <2>3. PanelMerges(conf, proof) \in Receipt /\ ConflictHoldsAll(PanelMerges(conf, proof).scope)
    BY <2>1, <2>2, <1>4 DEF Receipt, ConflictHoldsAll
  <2>. QED BY <2>3 DEF conf, proof
<1>. QED BY <1>5, <1>6

LEMMA DeferredStep == DeferredInv /\ [Next]_vars => DeferredInv'
<1>. SUFFICES ASSUME DeferredInv, [Next]_vars PROVE DeferredInv'
  OBVIOUS
<1>. USE DEF DeferredInv
<1>1. ASSUME NEW r \in Reports, NEW receipt \in Receipts \cup {Ordinary}, Confirm(r, receipt)
      PROVE  DeferredInv'
  <2>1. /\ archived[r] = NotArchived /\ archived' = [archived EXCEPT ![r] = receipt]
        /\ UNCHANGED arrived /\ receipt \in Receipt \cup {Ordinary} /\ receipt # NotArchived
    BY <1>1, IssuedReceipt, NoReceipt DEF Confirm
  <2>2. /\ archived' \in [Reports -> Receipt \cup {Ordinary, NotArchived}]
        /\ \A q \in Reports : archived'[q] = NotArchived => q # r /\ archived[q] = NotArchived
    BY <2>1 DEF TypeOK
  <2>3. CASE receipt = Ordinary
    <3>1. UNCHANGED <<held, expired, disposed>>
      BY <1>1, <2>3 DEF Confirm
    <3>. QED BY <2>1, <2>2, <3>1 DEF TypeOK
  <2>4. CASE receipt # Ordinary
    <3>1. receipt \in Receipts /\ Remember(r, receipt)
      BY <1>1, <2>4 DEF Confirm
    <3>. QED BY <2>1, <2>2, <3>1, IssuedReceipt, RememberKeeps DEF TypeOK
  <2>. QED BY <2>3, <2>4
<1>2. ASSUME NEW r \in Reports, NEW ack \in Receipts,
             RebuildFromProgress(r, ack) \/ Recover(r, ack)
      PROVE  DeferredInv'
  <2>1. /\ archived[r] # NotArchived /\ UNCHANGED archived /\ Remember(r, ack)
        /\ arrived < MaxReceipts /\ arrived' = arrived + 1
    BY <1>2 DEF RebuildFromProgress, Recover, Arrives
  <2>2. arrived' \in 0..MaxReceipts
    BY <2>1, DeferredAssumption DEF TypeOK
  <2>. QED BY <2>1, <2>2, IssuedReceipt, RememberKeeps DEF TypeOK
<1>3. ASSUME NEW r \in Reports, Merge(r) PROVE DeferredInv'
  <2>1. /\ held[r].proofs # <<>> /\ UNCHANGED <<archived, arrived>>
        /\ Remember(r, PanelMerges(held[r].confirmation, Head(held[r].proofs)))
    BY <1>3 DEF Merge
  <2>2. archived[r] # NotArchived
    BY <2>1 DEF NotHeld
  <2>. QED BY <2>1, <2>2, MergeAnswer, RememberKeeps DEF TypeOK
<1>4. ASSUME NEW r \in Reports, Age(r) PROVE DeferredInv'
  BY <1>4 DEF Age, TypeOK
<1>5. ASSUME UNCHANGED vars PROVE DeferredInv'
  BY <1>5 DEF vars, TypeOK
<1>. QED BY <1>1, <1>2, <1>3, <1>4, <1>5 DEF Next

-----------------------------------------------------------------------------
(* Theorems                                                                  *)

(* Everything the node keeps of held reports stands for all receipts it was    *)
(* given: the inductive invariant.                                             *)
THEOREM DeferredInvariant == Spec => []DeferredInv
BY DeferredInit, DeferredStep, PTL DEF Spec

(* rememberDeferred forgets nothing the panel set aside while a report is held. *)
THEOREM ReceiptsCovered == Spec => []EveryReceiptCovered
<1>1. DeferredInv => EveryReceiptCovered
  BY DEF DeferredInv, Kept, Covered, EveryReceiptCovered
<1>. QED BY DeferredInvariant, <1>1, PTL

(* DeferredReport.Entries are all that was ever set aside of a held report.     *)
THEOREM EntriesAreAll == Spec => []EntriesComplete
<1>1. DeferredInv => EntriesComplete
  BY DEF DeferredInv, Kept, Complete, EntriesComplete
<1>. QED BY DeferredInvariant, <1>1, PTL

(* pruneDeferred never drops a record that the panel still has to merge.        *)
THEOREM ProofsOutliveAge == Spec => ProofsSurvive
<1>1. ASSUME DeferredInv, [Next]_vars, NEW r \in Reports,
             held[r].proofs # <<>>, held'[r] = NotHeld
      PROVE  Merge(r) \/ \E ack \in Receipts : RebuildFromProgress(r, ack)
  <2>1. archived[r] # NotArchived /\ held[r] # held'[r]
    BY <1>1 DEF DeferredInv, NotHeld
  <2>2. ASSUME NEW q \in Reports, NEW receipt \in Receipts \cup {Ordinary}, Confirm(q, receipt)
        PROVE  FALSE
    <3>1. q # r /\ held' # held
      BY <2>1, <2>2 DEF Confirm
    <3>2. receipt \in Receipts /\ Remember(q, receipt)
      BY <2>2, <3>1 DEF Confirm
    <3>. QED BY <1>1, <2>1, <3>1, <3>2, IssuedReceipt, RememberKeeps
  <2>3. ASSUME NEW q \in Reports, NEW ack \in Receipts, Recover(q, ack) PROVE FALSE
    <3>1. q # r /\ Remember(q, ack)
      BY <1>1, <2>3 DEF Recover
    <3>. QED BY <1>1, <2>1, <3>1, IssuedReceipt, RememberKeeps
  <2>4. ASSUME NEW q \in Reports, NEW ack \in Receipts, RebuildFromProgress(q, ack) PROVE q = r
    <3>. SUFFICES ASSUME q # r PROVE FALSE
      OBVIOUS
    <3>1. Remember(q, ack)
      BY <2>4 DEF RebuildFromProgress
    <3>. QED BY <1>1, <2>1, <3>1, IssuedReceipt, RememberKeeps
  <2>5. ASSUME NEW q \in Reports, Merge(q) PROVE q = r
    <3>. SUFFICES ASSUME q # r PROVE FALSE
      OBVIOUS
    <3>1. /\ held[q].proofs # <<>>
          /\ Remember(q, PanelMerges(held[q].confirmation, Head(held[q].proofs)))
      BY <2>5 DEF Merge
    <3>. QED BY <1>1, <2>1, <3>1, MergeAnswer, RememberKeeps
  <2>6. ASSUME NEW q \in Reports, Age(q) PROVE FALSE
    BY <2>1, <2>6 DEF Age
  <2>7. ~ UNCHANGED vars
    BY <2>1 DEF vars
  <2>. QED BY <1>1, <2>2, <2>3, <2>4, <2>5, <2>6, <2>7 DEF Next
<1>2. DeferredInv /\ [Next]_vars =>
        [ \A r \in Reports :
            held[r].proofs # <<>> /\ held'[r] = NotHeld
              => Merge(r) \/ \E ack \in Receipts : RebuildFromProgress(r, ack) ]_vars
  BY <1>1
<1>. QED BY DeferredInvariant, <1>2, PTL DEF Spec, ProofsSurvive

=============================================================================
