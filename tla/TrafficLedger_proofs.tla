------------------------- MODULE TrafficLedger_proofs -------------------------
(***************************************************************************)
(* Proofs about the traffic ledger, for any accounts, limits and faults:   *)
(* the invariant OneChain is inductive, and the ledger's type invariant,   *)
(* its safety properties and its refinement of TrafficBilling follow.      *)
(* Lemmas about the walk over the counters come first; with them, reports  *)
(* can be read back, the ledger takes the steps of TrafficRotation, and    *)
(* each report brings the walk nearer to the accounts that wait.           *)
(***************************************************************************)
EXTENDS TrafficLedger, FiniteSetTheorems, WellFoundedInduction, TLAPS

-----------------------------------------------------------------------------
(* Lemmas about the walk over the counters, for any keys and limits *)

LEMMA KeysFinite == IsFiniteSet(Keys)
BY BatchAssumption, FS_Interval DEF Keys

\* Adding counters gives counters.
LEMMA PlusType ==
  ASSUME NEW f \in Counts, NEW g \in Counts
  PROVE  /\ Plus(f, g) \in Counts
         /\ AtMost(f, Plus(f, g))
BY DEF Counts, Plus, AtMost

\* Subtracting what the counters cover gives counters.
LEMMA MinusType ==
  ASSUME NEW f \in Counts, NEW g \in Counts, AtMost(g, f)
  PROVE  /\ Minus(f, g) \in Counts
         /\ Plus(Minus(f, g), g) = f
BY DEF Counts, Plus, Minus, AtMost

\* A set of natural numbers that is not empty has a least element.
LEMMA LeastExists ==
  ASSUME NEW T, T \subseteq Nat, T # {}
  PROVE  \E m \in T : \A n \in T : m <= n
<1>1. PICK m \in T : \A n \in T : ~ (<<n, m>> \in OpToRel(<, Nat))
  BY NatLessThanWellFounded, WFMin
<1>2. ASSUME NEW n \in T PROVE m <= n
  <2>1. ~ (<<n, m>> \in OpToRel(<, Nat))
    BY <1>1
  <2>2. <<n, m>> \in Nat \X Nat /\ <<n, m>>[1] = n /\ <<n, m>>[2] = m
    OBVIOUS
  <2>3. ~ (n < m)
    BY <2>1, <2>2 DEF OpToRel
  <2>. QED BY <2>3
<1>. QED BY <1>2

\* The walk has a last account: the cursor stored with a report is one of its
\* accounts.
LEMMA LastOfBatch ==
  ASSUME NEW last \in 0..KeyCount, NEW S, S \subseteq Keys, S # {}
  PROVE  LastOf(S, last) \in S
<1>. DEFINE Bounds == {n \in Nat : \A j \in S : Place(last, j) <= n}
<1>1. \A k \in Keys : Place(last, k) \in 1..KeyCount
  BY BatchAssumption DEF Place, Keys
<1>2. KeyCount \in Bounds
  BY <1>1, BatchAssumption
<1>3. PICK m \in Bounds : \A n \in Bounds : m <= n
  BY <1>2, LeastExists
<1>4. \E k \in S : Place(last, k) >= m
  <2>. SUFFICES ASSUME \A k \in S : Place(last, k) < m PROVE FALSE
    BY <1>1, <1>3
  <2>1. PICK k \in S : TRUE
    OBVIOUS
  <2>2. m - 1 \in Nat
    BY <1>1, <2>1
  <2>3. m - 1 \in Bounds
    BY <1>1, <2>2
  <2>. QED BY <1>3, <2>3
<1>5. PICK k \in S : Place(last, k) >= m
  BY <1>4
<1>6. \A j \in S : Place(last, j) <= Place(last, k)
  BY <1>1, <1>3, <1>5
<1>. QED BY <1>6 DEF LastOf

\* Only accounts with usage enter a report.
LEMMA BatchIsActive ==
  ASSUME NEW counts \in Counts, NEW last
  PROVE  Batch(counts, last) \subseteq Active(counts)
BY DEF Batch, Met

\* The number of reports announced for a cycle is a natural number.
LEMMA BatchesForType ==
  ASSUME NEW counts \in Counts
  PROVE  BatchesFor(counts) \in Nat
<1>1. Cardinality(Active(counts)) \in Nat
  BY KeysFinite, FS_Subset, FS_CardinalityType DEF Active
<1>2. ASSUME NEW n \in Nat, NEW d \in Nat \ {0} PROVE n \div d \in Nat
  BY <1>2
<1>. QED BY <1>1, <1>2, BatchAssumption DEF BatchesFor

\* Sums depend on the counters of the accounts that are summed alone.
LEMMA SumAgrees ==
  ASSUME NEW f \in Counts, NEW g \in Counts, NEW S \in SUBSET Keys,
         \A k \in S : f[k] = g[k]
  PROVE  SumFunctionOnSet(f, S) = SumFunctionOnSet(g, S)
<1>. DEFINE First(s) == CHOOSE x \in s : TRUE
            Body(h, it) == [s \in SUBSET S |->
                              IF s = {} THEN 0 ELSE h[First(s)] + it[s \ {First(s)}]]
<1>1. ASSUME NEW it PROVE Body(f, it) = Body(g, it)
  <2>1. \A s \in SUBSET S : s # {} => First(s) \in S
    OBVIOUS
  <2>2. \A s \in SUBSET S : s # {} => f[First(s)] = g[First(s)]
    BY <2>1
  <2>. QED BY <2>2
<1>2. (CHOOSE it : it = Body(f, it)) = (CHOOSE it : it = Body(g, it))
  <2>. HIDE DEF Body
  <2>. QED BY <1>1, Zenon
<1>3. SumFunctionOnSet(f, S) = (CHOOSE it : it = Body(f, it))[S]
  BY DEF SumFunctionOnSet, FoldFunctionOnSet, MapThenFoldSet
<1>4. SumFunctionOnSet(g, S) = (CHOOSE it : it = Body(g, it))[S]
  BY DEF SumFunctionOnSet, FoldFunctionOnSet, MapThenFoldSet
<1>. QED BY <1>2, <1>3, <1>4

\* The walk stops at a place up to which its accounts fit in a report.
LEMMA BatchIsMet ==
  ASSUME NEW counts \in Counts, NEW last \in 0..KeyCount, Batch(counts, last) # {}
  PROVE  \E m \in Keys : /\ Batch(counts, last) = Met(counts, last, m)
                         /\ Fits(counts, Met(counts, last, m))
<1>. DEFINE Stops == {d \in Keys : Fits(counts, Met(counts, last, d))}
            Beyond == {n \in Nat : \A d \in Stops : d <= n}
<1>1. Stops \subseteq 1..KeyCount /\ KeyCount \in Nat
  BY BatchAssumption DEF Keys
<1>2. PICK d0 \in Stops : TRUE
  BY DEF Batch
<1>3. KeyCount \in Beyond
  BY <1>1
<1>4. PICK m \in Beyond : \A n \in Beyond : m <= n
  BY <1>3, LeastExists
<1>5. m \in Stops
  <2>. SUFFICES ASSUME m \notin Stops PROVE FALSE
    OBVIOUS
  <2>1. \A d \in Stops : d < m
    BY <1>1, <1>4
  <2>2. m - 1 \in Nat
    BY <1>1, <1>2, <2>1
  <2>3. m - 1 \in Beyond
    BY <1>1, <2>1, <2>2
  <2>. QED BY <1>4, <2>3
<1>6. \A k \in Keys : Place(last, k) \in Nat
  BY BatchAssumption DEF Place, Keys
<1>7. \A d \in Stops : Met(counts, last, d) \subseteq Met(counts, last, m)
  <2>1. \A d \in Stops : d <= m /\ d \in Nat /\ m \in Nat
    BY <1>1, <1>4
  <2>. HIDE DEF Stops, Beyond
  <2>. QED BY <1>6, <2>1 DEF Met, Active
<1>8. Batch(counts, last) = Met(counts, last, m)
  BY <1>5, <1>7 DEF Batch
<1>. QED BY <1>5, <1>8

LEMMA BatchFits ==
  ASSUME NEW counts \in Counts, NEW last \in 0..KeyCount, Batch(counts, last) # {}
  PROVE  Fits(counts, Batch(counts, last))
BY BatchIsMet

\* A place tells the key, and is counted from the key before the walk.
LEMMA PlaceFacts ==
  ASSUME NEW last \in 0..KeyCount, NEW k \in Keys
  PROVE  /\ Place(last, k) \in Keys
         /\ \A j \in Keys : /\ Place(last, j) = Place(last, k) => j = k
                           /\ Place(last, j) < Place(last, k) => Place(j, k) < Place(last, k)
BY BatchAssumption DEF Place, Keys

\* The cursor stored with a report is before every account that has to wait,
\* and nearer to it than the last one.
LEMMA WaitsLess ==
  ASSUME NEW counts \in Counts, NEW last \in 0..KeyCount,
         NEW k \in Active(counts) \ Batch(counts, last), Batch(counts, last) # {}
  PROVE  Place(LastOf(Batch(counts, last), last), k) < Place(last, k)
<1>1. PICK m \in Keys : Batch(counts, last) = Met(counts, last, m)
  BY BatchIsMet
<1>2. k \in Keys /\ Batch(counts, last) \subseteq Keys /\ m \in Nat
  BY BatchIsActive, BatchAssumption DEF Active, Keys
<1>3. LastOf(Batch(counts, last), last) \in Batch(counts, last)
  BY <1>2, LastOfBatch
<1>. DEFINE next == LastOf(Batch(counts, last), last)
<1>4. next \in Keys /\ Place(last, next) <= m /\ ~ (Place(last, k) <= m)
  BY <1>1, <1>2, <1>3 DEF Met
<1>. HIDE DEF next
<1>5. Place(last, k) \in Int /\ Place(last, next) \in Int /\ m \in Int
  BY <1>2, <1>4, BatchAssumption DEF Place, Keys
<1>6. Place(last, next) < Place(last, k)
  BY <1>2, <1>4, <1>5
<1>. QED BY <1>2, <1>4, <1>6, PlaceFacts DEF next

\* The sum of one counter is the counter.
LEMMA SumOfOne ==
  ASSUME NEW counts \in Counts, NEW k \in Keys
  PROVE  SumFunctionOnSet(counts, {k}) = counts[k]
<1>. DEFINE First(s) == CHOOSE x \in s : TRUE
            Body(it) == [s \in SUBSET {k} |->
                           IF s = {} THEN 0 ELSE counts[First(s)] + it[s \ {First(s)}]]
            sum == CHOOSE it : it = Body(it)
            g == [s \in SUBSET {k} |-> IF s = {} THEN 0 ELSE counts[k]]
<1>1. SUBSET {k} = {{}, {k}} /\ First({k}) = k /\ {k} \ {k} = {}
  OBVIOUS
<1>2. counts[k] \in Nat
  BY DEF Counts
<1>3. \A s \in SUBSET {k} : g[s] = IF s = {} THEN 0 ELSE counts[First(s)] + g[s \ {First(s)}]
  <2>1. g[{}] = 0 /\ g[{k}] = counts[k]
    BY <1>1
  <2>. HIDE DEF g, First
  <2>. QED BY <1>1, <1>2, <2>1
<1>4. g = Body(g)
  <2>. HIDE DEF First
  <2>. QED BY <1>3
<1>5. sum = Body(sum)
  <2>. HIDE DEF Body, g
  <2>. QED BY <1>4
<1>6. sum[{}] = 0 /\ sum[{k}] = counts[k] + sum[{}]
  <2>1. \A s \in SUBSET {k} :
          sum[s] = IF s = {} THEN 0 ELSE counts[First(s)] + sum[s \ {First(s)}]
    <3>. HIDE DEF sum, First
    <3>. QED BY <1>5
  <2>2. sum[{k}] = IF {k} = {} THEN 0 ELSE counts[First({k})] + sum[{k} \ {First({k})}]
    BY <2>1
  <2>3. sum[{}] = 0
    BY <2>1
  <2>. HIDE DEF sum, First
  <2>. QED BY <1>1, <2>2, <2>3
<1>7. SumFunctionOnSet(counts, {k}) = sum[{k}]
  BY DEF SumFunctionOnSet, FoldFunctionOnSet, MapThenFoldSet
<1>. HIDE DEF sum
<1>. QED BY <1>2, <1>6, <1>7

\* A walk that takes nothing has met nobody: the first account always fits.
LEMMA FirstFits ==
  ASSUME NEW counts \in Counts, NEW last \in 0..KeyCount,
         \A k \in Keys : counts[k] <= MaxCount, Active(counts) # {}
  PROVE  Batch(counts, last) # {}
<1>. DEFINE Places == {Place(last, k) : k \in Active(counts)}
<1>1. Active(counts) \subseteq Keys /\ Places \subseteq Nat /\ Places # {}
  <2>1. \A k \in Keys : Place(last, k) \in Nat
    BY BatchAssumption DEF Place, Keys
  <2>. QED BY <2>1 DEF Active
<1>2. PICK d \in Places : \A n \in Places : d <= n
  BY <1>1, LeastExists
<1>3. PICK k \in Active(counts) : d = Place(last, k)
  BY <1>2
<1>4. Met(counts, last, d) = {k}
  <2>1. ASSUME NEW j \in Active(counts), Place(last, j) <= d PROVE j = k
    <3>1. Place(last, j) \in Places
      OBVIOUS
    <3>2. Place(last, j) \in Nat /\ d \in Nat /\ d <= Place(last, j)
      BY <1>1, <1>2, <3>1
    <3>3. Place(last, j) = Place(last, k)
      BY <1>3, <2>1, <3>2
    <3>4. j \in Keys /\ k \in Keys
      BY <1>1
    <3>. HIDE DEF Places
    <3>. QED BY <3>3, <3>4, BatchAssumption DEF Place, Keys
  <2>2. d <= d
    BY <1>1
  <2>. HIDE DEF Places
  <2>. QED BY <1>3, <2>1, <2>2 DEF Met
<1>5. Fits(counts, {k})
  <2>1. Cardinality({k}) = 1
    BY FS_Singleton
  <2>2. k \in Keys /\ SumFunctionOnSet(counts, {k}) <= MaxCount
    BY <1>1, <1>3, SumOfOne
  <2>. QED BY <2>1, <2>2, BatchAssumption DEF Fits
<1>6. d \in Keys
  BY <1>1, <1>3, PlaceFacts
<1>. HIDE DEF Places
<1>. QED BY <1>4, <1>5, <1>6 DEF Batch

\* What Pending writes to disk passes validateReport.
LEMMA DrawnIsValid ==
  ASSUME NEW counts \in Counts, NEW last \in 0..KeyCount, Batch(counts, last) # {}
  PROVE  Valid([k \in Keys |-> IF k \in Batch(counts, last) THEN counts[k] ELSE 0])
<1>. DEFINE batch  == Batch(counts, last)
            report == [k \in Keys |-> IF k \in batch THEN counts[k] ELSE 0]
<1>1. batch \subseteq Active(counts) /\ batch # {}
  BY BatchIsActive
<1>2. Fits(counts, batch)
  BY BatchFits
<1>. HIDE DEF batch
<1>3. report \in Counts /\ batch \subseteq Keys
  BY <1>1 DEF Counts, Active
<1>4. Active(report) = batch
  BY <1>1, <1>3 DEF Active
<1>5. SumFunctionOnSet(report, batch) = SumFunctionOnSet(counts, batch)
  <2>1. \A k \in batch : report[k] = counts[k]
    BY <1>3
  <2>. HIDE DEF report
  <2>. QED BY ONLY <1>3, <2>1, counts \in Counts, SumAgrees
<1>. HIDE DEF report
<1>6. Valid(report)
  BY <1>1, <1>2, <1>4, <1>5 DEF Valid, Fits
<1>. QED BY <1>6 DEF report, batch

-----------------------------------------------------------------------------
(* Lemmas about the chain of reports *)

\* The bill of a place of the chain is made of counters.
LEMMA UptoType ==
  ASSUME TypeOK, NEW i \in 0..Len(chain)
  PROVE  UptoOf(i) \in Counts
BY DEF TypeOK, UptoOf, Counts, Zero

LEMMA ZeroType == Zero \in Counts /\ NoReport \in Report
BY DEF Zero, Counts, NoReport, Report

\* The bill of a linked report is that of its predecessor and the report.
LEMMA LinkedBill ==
  ASSUME TypeOK, NEW r \in Report, Linked(r)
  PROVE  /\ r.id \in 1..Len(chain) /\ r.prev \in 0..Len(chain)
         /\ r.id # 0 /\ r.prev = r.id - 1
         /\ UptoOf(r.id) = Plus(UptoOf(r.prev), r.data)
BY DEF TypeOK, Linked, UptoOf, Report

\* Sums of counters can be rearranged.
LEMMA PlusMinus ==
  ASSUME NEW f \in Counts, NEW g \in Counts, NEW h \in Counts
  PROVE  /\ Plus(f, g) = Plus(g, f)
         /\ Plus(Plus(f, g), h) = Plus(f, Plus(g, h))
         /\ f = Plus(g, h) => Minus(f, g) = h
         /\ AtMost(g, f) => Plus(Minus(f, g), Plus(h, g)) = Plus(f, h)
BY DEF Plus, Minus, AtMost, Counts

-----------------------------------------------------------------------------
(* Drawing a report *)

\* Store.Pending extends the chain by one linked report, or changes nothing.
LEMMA PendingStep ==
  ASSUME OneChain, Pending
  PROVE  \/ UNCHANGED <<pending, cursor, chain>>
         \/ /\ pending.id = 0
            /\ pending' \in Report
            /\ pending'.id = Len(chain) + 1
            /\ pending'.prev = confirmed /\ confirmed = Len(chain)
            /\ AtMost(pending'.data, totals)
            /\ cursor' \in 0..KeyCount
            /\ chain' = Append(chain, Plus(UptoOf(confirmed), pending'.data))
<1>. SUFFICES ASSUME DrawPending
              PROVE  /\ pending' \in Report
                     /\ pending'.id = Len(chain) + 1
                     /\ pending'.prev = confirmed /\ confirmed = Len(chain)
                     /\ AtMost(pending'.data, totals)
                     /\ cursor' \in 0..KeyCount
  BY DEF Pending, KeepPending, DrawPending
<1>. DEFINE batch == Batch(totals, cursor)
<1>. USE DEF OneChain, TypeOK
<1>1. batch # {} /\ batch \subseteq Keys
  BY BatchIsActive DEF DrawPending, Active
<1>2. cursor' \in 0..KeyCount
  <2>1. cursor' = LastOf(batch, cursor)
    BY DEF DrawPending
  <2>2. cursor \in 0..KeyCount
    OBVIOUS
  <2> HIDE DEF batch, OneChain, TypeOK
  <2>3. LastOf(batch, cursor) \in batch
    BY ONLY <1>1, <2>2, LastOfBatch
  <2>4. Keys \subseteq 0..KeyCount
    BY BatchAssumption DEF Keys
  <2>. QED BY ONLY <1>1, <2>1, <2>3, <2>4
<1>3. confirmed = Len(chain)
  BY DEF DrawPending, NodeOnChain
<1>4. [k \in Keys |-> IF k \in batch THEN totals[k] ELSE 0] \in Counts
  BY DEF Counts
<1>5. pending' \in Report /\ pending'.id = Len(chain) + 1 /\ pending'.prev = confirmed
  BY <1>4 DEF DrawPending, NewReport, Report
<1>6. AtMost(pending'.data, totals)
  BY DEF DrawPending, NewReport, AtMost, Counts
<1>. QED BY <1>2, <1>3, <1>5, <1>6

\* The chain keeps the places it had when a report is appended.
LEMMA ChainExtends ==
  ASSUME TypeOK, NEW data \in Counts, confirmed \in 0..Len(chain),
         chain' = Append(chain, Plus(UptoOf(confirmed), data))
  PROVE  /\ chain' \in Seq(Counts) /\ Len(chain') = Len(chain) + 1
         /\ \A i \in 0..Len(chain) : UptoOf(i)' = UptoOf(i)
         /\ UptoOf(Len(chain))' = Plus(UptoOf(confirmed), data)
         /\ \A r \in Report : Linked(r) => Linked(r)'
<1>1. UptoOf(confirmed) \in Counts
  BY UptoType
<1>2. Plus(UptoOf(confirmed), data) \in Counts
  BY <1>1, PlusType
<1>3. chain' \in Seq(Counts) /\ Len(chain) \in Nat /\ Len(chain') = Len(chain) + 1
  BY <1>2 DEF TypeOK
<1>4. \A i \in 1..Len(chain) : chain'[i] = chain[i]
  BY <1>2 DEF TypeOK
<1>5. \A i \in 0..Len(chain) : UptoOf(i)' = UptoOf(i)
  BY <1>4 DEF UptoOf
<1>6. chain'[Len(chain) + 1] = Plus(UptoOf(confirmed), data)
  BY <1>2 DEF TypeOK
<1>7. UptoOf(Len(chain))' = Plus(UptoOf(confirmed), data)
  BY <1>6, <1>3 DEF UptoOf
<1>8. ASSUME NEW r \in Report, Linked(r) PROVE Linked(r)'
  <2>1. r.id \in 1..Len(chain) /\ r.prev = r.id - 1 /\ r.prev \in 0..Len(chain)
    BY <1>8 DEF Linked, Report
  <2>. QED BY <1>3, <1>4, <1>5, <1>8, <2>1 DEF Linked, TypeOK
<1>. QED BY <1>3, <1>5, <1>7, <1>8

-----------------------------------------------------------------------------
(* Type correctness *)

LEMMA InitType == Init => TypeOK
<1>1. Zero \in Counts /\ NoReport \in Report
  BY ZeroType
<1>. SUFFICES ASSUME Init PROVE TypeOK
  OBVIOUS
<1>2. panel \in Panel /\ backups \subseteq Panel
  BY <1>1 DEF Init, Panel
<1>3. chain \in Seq(Counts) /\ cursor \in 0..KeyCount
  BY BatchAssumption DEF Init
<1>4. pc \in PC /\ answer \in Answer
  BY DEF Init, PC, Answer
<1>. QED
  BY <1>1, <1>2, <1>3, <1>4 DEF Init, TypeOK

\* Leaving the cycle resets its memory.
LEMMA LeaveType ==
  ASSUME NEW to \in PC, Leave(to)
  PROVE  /\ pc' \in PC /\ pc' = to
         /\ batches' \in Nat /\ sent' \in Nat /\ progress' \in Nat
         /\ recovered' \in Nat /\ outgoing' \in Report /\ answer' \in Answer
         /\ answer' = "none"
BY ZeroType DEF Leave, Answer

LEMMA TypeStep ==
  ASSUME OneChain, [Next]_vars
  PROVE  TypeOK'
<1>. USE DEF OneChain
<1>. TypeOK
  OBVIOUS
<1>1. CASE PrepareTraffic
  BY <1>1 DEF PrepareTraffic, FirstConfirmed, TypeOK, PC, net, ghost
<1>2. CASE CountBatches
  BY <1>2, BatchesForType DEF CountBatches, TypeOK, PC, disk, net, ghost
<1>3. ASSUME Pending PROVE /\ pending' \in Report /\ cursor' \in 0..KeyCount
                           /\ chain' \in Seq(Counts)
  <2>1. CASE UNCHANGED <<pending, cursor, chain>>
    BY <2>1 DEF TypeOK
  <2>2. CASE ~ UNCHANGED <<pending, cursor, chain>>
    <3>1. /\ pending' \in Report /\ cursor' \in 0..KeyCount
          /\ confirmed = Len(chain)
          /\ chain' = Append(chain, Plus(UptoOf(confirmed), pending'.data))
      BY <1>3, <2>2, PendingStep
    <3>2. pending'.data \in Counts /\ confirmed \in 0..Len(chain)
      BY <3>1 DEF Report, TypeOK
    <3>. QED BY <3>1, <3>2, ChainExtends
  <2>. QED BY <2>1, <2>2
<1>4. CASE DrawFirst
  <2>1. Pending BY <1>4 DEF DrawFirst
  <2>. QED BY <1>3, <1>4, <2>1 DEF DrawFirst, Pending, TypeOK, PC, net
<1>5. CASE DrawNext
  <2>1. Pending BY <1>5 DEF DrawNext
  <2>2. /\ pc' \in PC /\ batches' \in Nat /\ sent' \in Nat /\ progress' \in Nat
        /\ recovered' \in Nat /\ outgoing' \in Report /\ answer' \in Answer
    <3>1. CASE Leave("idle") BY <3>1, LeaveType DEF PC
    <3>2. CASE ~ Leave("idle") BY <1>5, <3>2 DEF DrawNext, TypeOK, PC
    <3>. QED BY <3>1, <3>2
  <2>. QED BY <1>3, <1>5, <2>1, <2>2 DEF DrawNext, Pending, TypeOK, net
<1>6. CASE ReadProgress \/ ReadFirstProgress
  BY <1>6 DEF ReadProgress, ReadFirstProgress, TypeOK, PC, Panel, disk, net, ghost
<1>7. CASE SendRecovery
  BY <1>7 DEF SendRecovery, TypeOK, PC, Answer, disk, net, ghost
<1>8. CASE AbandonRecovery \/ TakeRejection
  <2>1. Leave("idle") /\ UNCHANGED <<disk, net, ghost>>
    BY <1>8 DEF AbandonRecovery, TakeRejection
  <2>. QED BY <2>1, LeaveType DEF TypeOK, PC, disk, net, ghost
<1>9. CASE FinishRecovery
  <2>1. /\ pc' \in PC /\ batches' \in Nat /\ sent' \in Nat /\ progress' \in Nat
        /\ recovered' \in Nat /\ outgoing' \in Report /\ answer' \in Answer
    <3>1. CASE Leave("idle") BY <3>1, LeaveType DEF PC
    <3>2. CASE ~ Leave("idle") BY <1>9, <3>2 DEF FinishRecovery, TypeOK, PC
    <3>. QED BY <3>1, <3>2
  <2>. QED BY <1>9, <2>1 DEF FinishRecovery, TypeOK, disk, net, ghost
<1>10. CASE TakeRecoveryAnswer
  BY <1>10, ZeroType DEF TakeRecoveryAnswer, TypeOK, PC, Answer, Report, disk, net, ghost
<1>11. CASE SendReport
  BY <1>11 DEF SendReport, Outgoing, TypeOK, PC, Answer, disk, net, ghost
<1>12. CASE ConfirmReport
  <2>1. totals' \in Counts
    BY <1>12, MinusType DEF ConfirmReport, Confirmable, Subtract, TypeOK, Report
  <2>2. /\ pc' \in PC /\ batches' \in Nat /\ sent' \in Nat /\ progress' \in Nat
        /\ recovered' \in Nat /\ outgoing' \in Report /\ answer' \in Answer
    <3>1. CASE Leave("idle") BY <3>1, LeaveType DEF PC
    <3>2. CASE ~ Leave("idle")
      BY <1>12, <3>2, ZeroType DEF ConfirmReport, TypeOK, PC, Answer
    <3>. QED BY <3>1, <3>2
  <2>3. history' \subseteq Report /\ pending' \in Report /\ confirmed' \in Nat
    BY <1>12, ZeroType DEF ConfirmReport, Archive, TypeOK, Report
  <2>. QED BY <1>12, <2>1, <2>2, <2>3 DEF ConfirmReport, TypeOK, net, ghost
<1>13. ASSUME NEW k \in Keys, NEW amount \in Amounts, Record(k, amount)
       PROVE  TypeOK'
  <2>1. amount \in Nat BY LedgerAssumption
  <2>. QED BY <1>13, <2>1 DEF Record, TypeOK, Counts, cycle, net
<1>14. ASSUME NEW r \in Report, Process(r)
       PROVE  panel' \in Panel /\ backups' \subseteq Panel
  <2>1. CASE Follows(r)
    <3>1. AcceptedBy(r) \in Panel
      BY PlusType DEF AcceptedBy, TypeOK, Panel, Report
    <3>. QED BY <1>14, <2>1, <3>1 DEF Process, TypeOK
  <2>2. CASE ~ Follows(r)
    BY <1>14, <2>2 DEF Process, TypeOK
  <2>. QED BY <2>1, <2>2
<1>15. CASE PanelServes
  <2>1. answer' \in Answer BY <1>15 DEF PanelServes, Answer
  <2>2. panel' \in Panel /\ backups' \subseteq Panel
    BY <1>14, <1>15 DEF PanelServes, TypeOK
  <2>. QED BY <1>15, <2>1, <2>2 DEF PanelServes, TypeOK, disk, ghost
<1>16. ASSUME NEW r \in late, PanelServesLate(r) PROVE TypeOK'
  <2>1. panel' \in Panel /\ backups' \subseteq Panel
    BY <1>14, <1>16 DEF PanelServesLate, TypeOK
  <2>. QED BY <1>16, <2>1 DEF PanelServesLate, TypeOK, disk, cycle, ghost
<1>17. CASE CycleFails \/ Crash
  <2>1. PICK to \in {"idle", "closed"} : Leave(to)
    BY <1>17 DEF CycleFails, Crash
  <2>2. late' \subseteq Report /\ faults' \in Nat
    BY <1>17 DEF CycleFails, Crash, GiveUp, Fault, TypeOK
  <2>3. UNCHANGED <<disk, panel, backups, recorded, chain>>
    BY <1>17 DEF CycleFails, Crash
  <2>. QED BY <2>1, <2>2, <2>3, LeaveType DEF TypeOK, PC, disk
<1>18. CASE RestorePanel
  BY <1>18 DEF RestorePanel, Fault, TypeOK, disk, cycle
<1>19. CASE UNCHANGED vars
  BY <1>19 DEF vars, disk, cycle, net, ghost, TypeOK
<1>. QED
  BY <1>1, <1>2, <1>4, <1>5, <1>6, <1>7, <1>8, <1>9, <1>10, <1>11, <1>12, <1>13,
     <1>15, <1>16, <1>17, <1>18, <1>19 DEF Next, CycleStep

-----------------------------------------------------------------------------
(* The initial state *)

LEMMA InitOneChain == Init => OneChain
<1>. SUFFICES ASSUME Init PROVE OneChain
  OBVIOUS
<1>1. TypeOK
  BY InitType
<1>2. Len(chain) = 0 /\ UptoOf(0) = Zero
  BY DEF Init, UptoOf
<1>3. NodeOnChain
  <2>1. recorded = Plus(totals, UptoOf(confirmed))
    BY <1>2 DEF Init, Plus, Zero
  <2>. QED BY <1>2, <2>1 DEF Init, NodeOnChain, NoReport
<1>4. PanelOnChain
  BY <1>2 DEF Init, PanelOnChain
<1>5. ChainGrows
  BY <1>2 DEF ChainGrows, AtMost, Zero
<1>6. CallOnChain /\ ArchiveFull
  BY DEF Init, CallOnChain, ArchiveFull
<1>. QED BY <1>1, <1>3, <1>4, <1>5, <1>6 DEF OneChain

-----------------------------------------------------------------------------
(* What the steps that only move the cycle, the network or the panel keep *)

\* The report of a call in flight is on the chain.
LEMMA OutgoingLinked ==
  ASSUME OneChain, answer # "none"
  PROVE  outgoing \in Report /\ Linked(outgoing)
BY DEF OneChain, TypeOK, CallOnChain, NodeOnChain

\* A node that has not started the file is at the beginning of the chain, and so is
\* the panel.
LEMMA FreshFile ==
  ASSUME OneChain, ~initialized
  PROVE  panel.progress = 0 /\ confirmed = 0
<1>1. Len(chain) = 0
  BY DEF OneChain, NodeOnChain
<1>2. panel.progress = 0
  BY <1>1 DEF OneChain, PanelOnChain, TypeOK, Panel
<1>3. confirmed = 0
  BY <1>1 DEF OneChain, NodeOnChain, Linked, TypeOK
<1>. QED BY <1>2, <1>3

\* Opening the file stores the place the panel is at, which is where the file is.
LEMMA OpensAtStart ==
  ASSUME OneChain, PrepareTraffic
  PROVE  confirmed' = confirmed
<1>1. CASE initialized
  BY <1>1 DEF PrepareTraffic, FirstConfirmed
<1>2. CASE ~initialized
  <2>1. pc = "opening"
    BY <1>2 DEF PrepareTraffic
  <2>2. progress = 0
    BY <2>1 DEF OneChain, NodeOnChain
  <2>. QED BY <1>2, <2>2, FreshFile DEF PrepareTraffic, FirstConfirmed
<1>. QED BY <1>1, <1>2

LEMMA NodeFrame ==
  ASSUME OneChain, UNCHANGED <<disk, recorded, chain>>, backups \subseteq backups',
         \/ pc \notin {"closed", "opening"} /\ pc' # "opening"
         \/ pc' = "closed"
         \/ pc' = pc /\ progress' = progress
  PROVE  NodeOnChain'
<1>1. \A r : Linked(r)' <=> Linked(r)
  BY DEF Linked, UptoOf
<1>2. \A id : Reached(id) => Reached(id)'
  BY DEF Reached
<1>3. UptoOf(confirmed)' = UptoOf(confirmed)
  BY DEF UptoOf, disk
<1>. QED BY <1>1, <1>2, <1>3 DEF OneChain, NodeOnChain, disk

LEMMA PanelFrame ==
  ASSUME OneChain, UNCHANGED <<net, chain>>
  PROVE  PanelOnChain'
<1>1. \A r : Linked(r)' <=> Linked(r)
  BY DEF Linked, UptoOf
<1>2. \A i : UptoOf(i)' = UptoOf(i) /\ (Reached(i)' <=> Reached(i))
  BY DEF UptoOf, Reached, net
<1>. QED BY <1>1, <1>2 DEF OneChain, PanelOnChain, net

LEMMA GrowsFrame ==
  ASSUME OneChain, UNCHANGED chain
  PROVE  ChainGrows'
BY DEF OneChain, ChainGrows, UptoOf

\* A call that is over, or was never made, is on any chain.
LEMMA NoCall ==
  ASSUME Leave("idle") \/ Leave("closed")
  PROVE  CallOnChain'
BY DEF Leave, CallOnChain

\* The panel takes a request that is on the chain.
LEMMA ProcessOnChain ==
  ASSUME OneChain, NEW r \in Report, Linked(r), Process(r), UNCHANGED chain
  PROVE  /\ backups \subseteq backups'
         /\ panel' \in backups'
         /\ \A b \in backups' : /\ b.progress \in 0..Len(chain)
                                /\ b.billed = UptoOf(b.progress)
                                /\ b.progress # 0 => Reached(b.progress - 1)'
         /\ Follows(r) \/ Repeated(r) => Reached(r.id)'
<1>. USE DEF OneChain
<1>1. CASE ~ Follows(r)
  <2>1. UNCHANGED <<panel, backups>>
    BY <1>1 DEF Process
  <2>. QED BY <1>1, <2>1 DEF PanelOnChain, Reached, Repeated
<1>2. CASE Follows(r)
  <2>1. panel' = AcceptedBy(r) /\ backups' = backups \cup {AcceptedBy(r)}
    BY <1>2 DEF Process
  <2>2. /\ r.id \in 0..Len(chain) /\ r.prev = r.id - 1
        /\ UptoOf(r.id) = Plus(UptoOf(r.prev), r.data)
    BY LinkedBill
  <2>3. panel \in backups /\ panel.progress = r.prev /\ panel.billed = UptoOf(r.prev)
    BY <1>2 DEF PanelOnChain, Follows
  <2>4. AcceptedBy(r).progress = r.id /\ AcceptedBy(r).billed = UptoOf(r.id)
    BY <2>2, <2>3 DEF AcceptedBy
  <2>5. \A id : Reached(id) => Reached(id)'
    BY <2>1 DEF Reached
  <2>6. Reached(r.prev)
    BY <2>3 DEF Reached
  <2>7. Reached(r.id)'
    BY <2>1, <2>4 DEF Reached
  <2>. QED BY <2>1, <2>2, <2>4, <2>5, <2>6, <2>7 DEF PanelOnChain
<1>. QED BY <1>1, <1>2

-----------------------------------------------------------------------------
(* The steps that change the chain, the counters or the panel *)

\* Drawing a report keeps everything on the chain, now longer by one place.
LEMMA PendingOnChain ==
  ASSUME OneChain, Pending, UNCHANGED <<net, recorded>>, pc \in {"draw", "next"},
         pc' # "opening"
  PROVE  NodeOnChain' /\ PanelOnChain' /\ ChainGrows'
<1>. USE DEF OneChain
<1>1. /\ UNCHANGED <<initialized, totals, confirmed, history>>
      /\ pc \notin {"closed", "opening"}
  BY DEF Pending
<1>2. CASE UNCHANGED <<pending, cursor, chain>>
  BY <1>1, <1>2, NodeFrame, PanelFrame, GrowsFrame DEF disk, net
<1>3. CASE ~ UNCHANGED <<pending, cursor, chain>>
  <2>1. /\ pending.id = 0
        /\ pending' \in Report
        /\ pending'.id = Len(chain) + 1
        /\ pending'.prev = confirmed /\ confirmed = Len(chain)
        /\ AtMost(pending'.data, totals)
        /\ chain' = Append(chain, Plus(UptoOf(confirmed), pending'.data))
    BY <1>3, PendingStep
  <2>2. pending'.data \in Counts /\ confirmed \in 0..Len(chain)
    BY <2>1 DEF Report, TypeOK
  <2>3. /\ Len(chain') = Len(chain) + 1 /\ Len(chain) \in Nat
        /\ \A i \in 0..Len(chain) : UptoOf(i)' = UptoOf(i)
        /\ UptoOf(Len(chain))' = Plus(UptoOf(confirmed), pending'.data)
        /\ \A r \in Report : Linked(r) => Linked(r)'
    BY <2>1, <2>2, ChainExtends DEF TypeOK
  <2>4. UptoOf(confirmed)' = UptoOf(confirmed)
    BY <1>1, <2>2, <2>3
  <2>5. Linked(pending)'
    <3>1. UptoOf(pending.prev)' = UptoOf(confirmed)
      BY <1>1, <2>1, <2>4
    <3>2. chain'[pending'.id] = Plus(UptoOf(confirmed), pending'.data)
      BY <2>1, <2>3 DEF UptoOf
    <3>. QED BY <2>1, <2>3, <3>1, <3>2 DEF Linked
  <2>6. \A id : Reached(id)' <=> Reached(id)
    BY DEF Reached, net
  <2>7. NodeOnChain'
    <3>1. initialized /\ pc' # "opening"
      BY DEF NodeOnChain
    <3>2. \A r \in history : Linked(r)' /\ Reached(r.id)'
      BY <2>3, <2>6 DEF NodeOnChain, TypeOK
    <3>3. recorded = Plus(totals, UptoOf(confirmed)')
      BY <2>4 DEF NodeOnChain
    <3>. QED BY <1>1, <2>1, <2>3, <2>5, <3>1, <3>2, <3>3 DEF NodeOnChain
  <2>8. PanelOnChain'
    <3>1. \A r \in late : Linked(r)'
      BY <2>3 DEF PanelOnChain, TypeOK
    <3>2. ASSUME NEW b \in backups
          PROVE  /\ b.progress \in 0..Len(chain')
                 /\ b.billed = UptoOf(b.progress)'
                 /\ b.progress # 0 => Reached(b.progress - 1)'
      BY <2>3, <2>6 DEF PanelOnChain
    <3>. QED BY <3>1, <3>2 DEF PanelOnChain, net
  <2>9. ChainGrows'
    <3>1. UptoOf(confirmed) \in Counts
      BY <2>2, UptoType
    <3>2. AtMost(UptoOf(confirmed), UptoOf(Len(chain))')
      BY <2>2, <2>3, <3>1, PlusType
    <3>3. UptoOf(Len(chain))' \in Counts
      BY <2>2, <2>3, <3>1, PlusType
    <3>4. ASSUME NEW i \in 0..Len(chain')
          PROVE  AtMost(UptoOf(i)', UptoOf(Len(chain))')
      <4>1. CASE i = Len(chain')
        BY <3>3, <4>1 DEF AtMost, Counts
      <4>2. CASE i \in 0..Len(chain)
        <5>1. UptoOf(i) \in Counts /\ AtMost(UptoOf(i), UptoOf(confirmed))
          BY <4>2, <2>1, UptoType DEF ChainGrows
        <5>2. UptoOf(i)' = UptoOf(i)
          BY <4>2, <2>3
        <5>. QED BY <3>1, <3>2, <3>3, <5>1, <5>2 DEF AtMost, Counts
      <4>. QED BY <2>3, <4>1, <4>2
    <3>. QED BY <3>4 DEF ChainGrows
  <2>. QED BY <2>7, <2>8, <2>9
<1>. QED BY <1>2, <1>3

\* Confirming the pending report moves the node one place along the chain and
\* takes from the counters exactly what the bill gained there.
LEMMA ConfirmOnChain ==
  ASSUME OneChain, ConfirmReport
  PROVE  NodeOnChain' /\ PanelOnChain' /\ ChainGrows'
<1>. USE DEF OneChain
<1>1. /\ pc = "reporting" /\ outgoing = pending /\ pending.id # 0
      /\ Reached(pending.id)
      /\ UNCHANGED <<initialized, net, ghost>>
      /\ pending' = NoReport /\ confirmed' = pending.id
      /\ totals' = Minus(totals, pending.data) /\ pc' # "opening"
  BY DEF ConfirmReport, CallOnChain, Confirmed, Subtract, Leave
<1>2. Linked(pending) /\ pending.id = Len(chain) /\ pending.prev = confirmed
      /\ AtMost(pending.data, totals) /\ initialized
  BY <1>1 DEF NodeOnChain
<1>3. PanelOnChain' /\ ChainGrows'
  BY <1>1, PanelFrame, GrowsFrame DEF ghost
<1>4. \A r : Linked(r)' <=> Linked(r)
  BY <1>1 DEF Linked, UptoOf, ghost
<1>5. \A i : UptoOf(i)' = UptoOf(i) /\ (Reached(i)' <=> Reached(i))
  BY <1>1 DEF UptoOf, Reached, net, ghost
<1>6. \A r \in history' : Linked(r)' /\ Reached(r.id)'
  <2>1. \A r \in history' : r \in history \/ r = pending
    BY DEF ConfirmReport, Archive
  <2>. QED BY <1>1, <1>2, <1>4, <1>5, <2>1 DEF NodeOnChain
<1>7. recorded' = Plus(totals', UptoOf(confirmed)')
  <2>1. recorded = Plus(totals, UptoOf(confirmed))
    BY DEF NodeOnChain
  <2>2. UptoOf(pending.id) = Plus(UptoOf(confirmed), pending.data)
    BY <1>2, LinkedBill DEF TypeOK
  <2>3. /\ totals \in Counts /\ pending.data \in Counts
        /\ UptoOf(confirmed) \in Counts
    BY <1>2, UptoType DEF TypeOK, Report, Linked
  <2>4. Plus(Minus(totals, pending.data), Plus(UptoOf(confirmed), pending.data))
          = Plus(totals, UptoOf(confirmed))
    BY <1>2, <2>3, PlusMinus
  <2>5. UptoOf(confirmed)' = UptoOf(pending.id)
    BY <1>1, <1>5
  <2>. QED BY <1>1, <2>1, <2>2, <2>4, <2>5 DEF ghost
<1>8. pending'.id = 0 /\ confirmed' = Len(chain')
  BY <1>1, <1>2 DEF NoReport, ghost
<1>. QED BY <1>1, <1>2, <1>3, <1>6, <1>7, <1>8 DEF NodeOnChain, ghost

\* Recorded usage is added to the counters and to nothing else.
LEMMA RecordOnChain ==
  ASSUME OneChain, NEW k \in Keys, NEW amount \in Amounts, Record(k, amount)
  PROVE  NodeOnChain' /\ PanelOnChain' /\ ChainGrows'
<1>. USE DEF OneChain
<1>1. /\ UNCHANGED <<initialized, pending, confirmed, history, pc, progress, net, chain>>
      /\ totals' = [totals EXCEPT ![k] = @ + amount]
      /\ recorded' = [recorded EXCEPT ![k] = @ + amount]
      /\ amount \in Nat
  BY LedgerAssumption DEF Record, cycle
<1>2. PanelOnChain' /\ ChainGrows'
  BY <1>1, PanelFrame, GrowsFrame
<1>3. /\ \A r : Linked(r)' <=> Linked(r)
      /\ \A i : UptoOf(i)' = UptoOf(i) /\ (Reached(i)' <=> Reached(i))
  BY <1>1 DEF Linked, UptoOf, Reached, net
<1>4. UptoOf(confirmed) \in Counts
  BY UptoType DEF NodeOnChain, Linked, TypeOK, Report
<1>5. recorded' = Plus(totals', UptoOf(confirmed)')
  <2>1. recorded = Plus(totals, UptoOf(confirmed)) /\ totals \in Counts
    BY DEF NodeOnChain, TypeOK
  <2>2. UptoOf(confirmed)' = UptoOf(confirmed)
    BY <1>1, <1>3
  <2>. QED BY <1>1, <1>4, <2>1, <2>2 DEF Plus, Counts
<1>6. pending.id # 0 => AtMost(pending.data, totals')
  <2>1. pending.id # 0 => AtMost(pending.data, totals)
    BY DEF NodeOnChain
  <2>2. pending.data \in Counts /\ totals \in Counts
    BY DEF TypeOK, Report
  <2> HIDE DEF OneChain
  <2>. QED BY <1>1, <2>1, <2>2 DEF Counts, AtMost
<1>7. \A r \in history' : Linked(r)' /\ Reached(r.id)'
  BY <1>1, <1>3 DEF NodeOnChain
<1>8. pending'.id # 0 => Linked(pending)'
  BY <1>1, <1>3 DEF NodeOnChain
<1>9. NodeOnChain
  OBVIOUS
<1> HIDE DEF OneChain
<1>. QED BY <1>1, <1>2, <1>5, <1>6, <1>7, <1>8, <1>9 DEF NodeOnChain

-----------------------------------------------------------------------------
(* OneChain is inductive *)

\* Of the parts of OneChain about node, panel and chain, every step keeps all.
LEMMA ChainStep ==
  ASSUME OneChain, [Next]_vars
  PROVE  NodeOnChain' /\ PanelOnChain' /\ ChainGrows'
<1>. USE DEF OneChain
<1>1. CASE PrepareTraffic
  <2>1. /\ UNCHANGED <<totals, cursor, pending, confirmed, history, net, ghost>>
        /\ initialized' /\ pc' = "idle"
    BY <1>1, OpensAtStart DEF PrepareTraffic
  <2>2. /\ \A r : Linked(r)' <=> Linked(r)
        /\ \A i : UptoOf(i)' = UptoOf(i) /\ (Reached(i)' <=> Reached(i))
    BY <2>1 DEF Linked, UptoOf, Reached, net, ghost
  <2>3. NodeOnChain'
    BY <2>1, <2>2 DEF NodeOnChain, ghost
  <2>. QED BY <2>1, <2>3, PanelFrame, GrowsFrame DEF ghost
<1>12. CASE ReadFirstProgress
  <2>1. /\ UNCHANGED <<disk, net, ghost>> /\ ~initialized
        /\ pc' = "opening" /\ progress' = 0
    BY <1>12, FreshFile DEF ReadFirstProgress
  <2>2. /\ \A r : Linked(r)' <=> Linked(r)
        /\ \A i : UptoOf(i)' = UptoOf(i) /\ (Reached(i)' <=> Reached(i))
    BY <2>1 DEF Linked, UptoOf, Reached, net, ghost
  <2>3. NodeOnChain'
    BY <2>1, <2>2 DEF NodeOnChain, disk, ghost
  <2>. QED BY <2>1, <2>3, PanelFrame, GrowsFrame DEF ghost
<1>2. CASE \/ CountBatches \/ ReadProgress \/ SendRecovery \/ AbandonRecovery
           \/ TakeRecoveryAnswer \/ FinishRecovery \/ SendReport \/ TakeRejection
  <2>1. UNCHANGED <<disk, net, ghost>> /\ pc \notin {"closed", "opening"} /\ pc' # "opening"
    BY <1>2 DEF Leave, CountBatches, ReadProgress, SendRecovery, AbandonRecovery,
                TakeRecoveryAnswer, FinishRecovery, SendReport, TakeRejection
  <2>. QED BY <2>1, NodeFrame, PanelFrame, GrowsFrame DEF net, ghost
<1>3. CASE DrawFirst \/ DrawNext
  BY <1>3, PendingOnChain DEF DrawFirst, DrawNext, Leave
<1>4. CASE ConfirmReport
  BY <1>4, ConfirmOnChain
<1>5. ASSUME NEW k \in Keys, NEW amount \in Amounts, Record(k, amount)
      PROVE  NodeOnChain' /\ PanelOnChain' /\ ChainGrows'
  BY <1>5, RecordOnChain
<1>6. ASSUME NEW r \in Report, Linked(r), Process(r), late' \subseteq late,
             UNCHANGED <<disk, pc, progress, ghost>>
      PROVE  NodeOnChain' /\ PanelOnChain' /\ ChainGrows'
  <2>1. /\ backups \subseteq backups' /\ panel' \in backups'
        /\ \A b \in backups' : /\ b.progress \in 0..Len(chain)
                               /\ b.billed = UptoOf(b.progress)
                               /\ b.progress # 0 => Reached(b.progress - 1)'
    BY <1>6, ProcessOnChain DEF ghost
  <2>2. /\ \A q : Linked(q)' <=> Linked(q)
        /\ \A i : UptoOf(i)' = UptoOf(i)
    BY <1>6 DEF Linked, UptoOf, ghost
  <2>3. PanelOnChain'
    BY <1>6, <2>1, <2>2 DEF PanelOnChain, ghost
  <2>. QED BY <1>6, <2>1, <2>3, NodeFrame, GrowsFrame DEF ghost
<1>7. CASE PanelServes
  <2>1. outgoing \in Report /\ Linked(outgoing)
    BY <1>7, OutgoingLinked DEF PanelServes
  <2>. QED BY <1>6, <1>7, <2>1 DEF PanelServes
<1>8. ASSUME NEW r \in late, PanelServesLate(r)
      PROVE  NodeOnChain' /\ PanelOnChain' /\ ChainGrows'
  <2>1. r \in Report /\ Linked(r)
    BY DEF PanelOnChain, TypeOK
  <2>. QED BY <1>6, <1>8, <2>1 DEF PanelServesLate, cycle
<1>9. CASE CycleFails \/ Crash
  <2>1. /\ UNCHANGED <<disk, panel, backups, recorded, chain>> /\ GiveUp
        /\ \/ pc' = "closed"
           \/ pc \notin {"closed", "opening"} /\ pc' # "opening"
    BY <1>9 DEF CycleFails, Crash, Leave
  <2>2. \A r \in late' : Linked(r)
    BY <2>1, OutgoingLinked DEF GiveUp, PanelOnChain
  <2>3. /\ \A r : Linked(r)' <=> Linked(r)
        /\ \A i : UptoOf(i)' = UptoOf(i) /\ (Reached(i)' <=> Reached(i))
    BY <2>1 DEF Linked, UptoOf, Reached
  <2>4. PanelOnChain'
    BY <2>1, <2>2, <2>3 DEF PanelOnChain
  <2>5. /\ UNCHANGED <<disk, recorded, chain>> /\ backups \subseteq backups'
        /\ OneChain
    BY <2>1
  <2>. HIDE DEF OneChain
  <2>6. NodeOnChain'
    BY <2>1, <2>5, NodeFrame
  <2>. QED BY <2>4, <2>5, <2>6, GrowsFrame
<1>10. CASE RestorePanel
  <2>1. /\ UNCHANGED <<disk, cycle, late, backups, recorded, chain>>
        /\ panel' \in backups
    BY <1>10 DEF RestorePanel
  <2>2. /\ \A r : Linked(r)' <=> Linked(r)
        /\ \A i : UptoOf(i)' = UptoOf(i) /\ (Reached(i)' <=> Reached(i))
    BY <2>1 DEF Linked, UptoOf, Reached
  <2>3. PanelOnChain'
    BY <2>1, <2>2 DEF PanelOnChain
  <2>. QED BY <2>1, <2>3, NodeFrame, GrowsFrame DEF cycle
<1>11. CASE UNCHANGED vars
  BY <1>11, NodeFrame, PanelFrame, GrowsFrame DEF vars, cycle, net, ghost
<1>. QED
  BY <1>1, <1>2, <1>3, <1>4, <1>5, <1>7, <1>8, <1>9, <1>10, <1>11, <1>12
     DEF Next, CycleStep

\* A call is made and answered on the chain.
LEMMA CallStep ==
  ASSUME OneChain, [Next]_vars
  PROVE  CallOnChain'
<1>. USE DEF OneChain
<1>1. CASE ReadFirstProgress \/ PrepareTraffic \/ CountBatches \/ ReadProgress
  BY <1>1 DEF ReadFirstProgress, PrepareTraffic, CountBatches, ReadProgress, CallOnChain
<1>2. CASE DrawFirst \/ DrawNext
  <2>1. CASE Leave("idle")
    BY <2>1, NoCall
  <2>2. CASE ~ Leave("idle")
    BY <1>2, <2>2 DEF DrawFirst, DrawNext, CallOnChain
  <2>. QED BY <2>1, <2>2
<1>3. CASE SendRecovery
  <2>1. /\ outgoing' \in history /\ pc' = "recovering" /\ answer' = "waiting"
        /\ UNCHANGED <<disk, ghost>>
    BY <1>3 DEF SendRecovery
  <2>2. Linked(outgoing)'
    BY <2>1 DEF NodeOnChain, Linked, UptoOf, ghost
  <2>. QED BY <2>1, <2>2 DEF CallOnChain
<1>4. CASE AbandonRecovery \/ TakeRejection \/ CycleFails \/ Crash
  BY <1>4, NoCall DEF AbandonRecovery, TakeRejection, CycleFails, Crash
<1>5. CASE TakeRecoveryAnswer
  BY <1>5 DEF TakeRecoveryAnswer, CallOnChain
<1>6. CASE FinishRecovery
  <2>1. CASE Leave("idle")
    BY <2>1, NoCall
  <2>2. CASE ~ Leave("idle")
    BY <1>6, <2>2 DEF FinishRecovery, CallOnChain, disk
  <2>. QED BY <2>1, <2>2
<1>7. CASE SendReport
  BY <1>7 DEF SendReport, Outgoing, CallOnChain, disk
<1>8. CASE ConfirmReport
  <2>1. CASE Leave("idle")
    BY <2>1, NoCall
  <2>2. CASE ~ Leave("idle")
    BY <1>8, <2>2 DEF ConfirmReport, CallOnChain
  <2>. QED BY <2>1, <2>2
<1>9. ASSUME UNCHANGED <<pc, answer, outgoing, pending, chain>>,
             \A id : Reached(id) => Reached(id)'
      PROVE  CallOnChain'
  BY <1>9 DEF CallOnChain, Linked, UptoOf
<1>10. CASE \E k \in Keys, amount \in Amounts : Record(k, amount)
  BY <1>9, <1>10 DEF Record, cycle, net, Reached
<1>11. CASE PanelServes
  <2>1. outgoing \in Report /\ Linked(outgoing) /\ pc \in {"recovering", "reporting"}
    BY <1>11, OutgoingLinked DEF PanelServes, CallOnChain
  <2>2. answer' \in {"accepted", "receipted"} => Follows(outgoing) \/ Repeated(outgoing)
    BY <1>11 DEF PanelServes
  <2>3. UNCHANGED <<pc, outgoing, pending, chain>>
    BY <1>11 DEF PanelServes, disk, ghost
  <2>4. answer' \in {"accepted", "receipted"} => Reached(outgoing.id)'
    BY <1>11, <2>1, <2>2, <2>3, ProcessOnChain DEF PanelServes
  <2>5. Linked(outgoing)'
    BY <2>1, <2>3 DEF Linked, UptoOf
  <2>. QED BY <2>1, <2>3, <2>4, <2>5 DEF CallOnChain
<1>12. ASSUME NEW r \in late, PanelServesLate(r) PROVE CallOnChain'
  <2>1. backups \subseteq backups'
    BY <1>12 DEF PanelServesLate, Process
  <2>. QED BY <1>9, <1>12, <2>1 DEF PanelServesLate, cycle, disk, ghost, Reached
<1>13. CASE RestorePanel \/ UNCHANGED vars
  BY <1>9, <1>13 DEF RestorePanel, vars, cycle, disk, net, ghost, Reached
<1>. QED
  BY <1>1, <1>2, <1>3, <1>4, <1>5, <1>6, <1>7, <1>8, <1>10, <1>11, <1>12, <1>13
     DEF Next, CycleStep

\* Every confirmed report is archived if the panel never omits its receipt.
LEMMA ArchiveStep ==
  ASSUME OneChain, [Next]_vars
  PROVE  ArchiveFull'
<1>. SUFFICES ASSUME Receipts = {TRUE}
              PROVE  /\ answer' # "accepted"
                     /\ \A i \in 0..(confirmed' - 1) : \E r \in history' : r.prev = i
  BY DEF ArchiveFull
<1>. USE DEF OneChain
<1>1. /\ answer # "accepted"
      /\ \A i \in 0..(confirmed - 1) : \E r \in history : r.prev = i
  BY DEF ArchiveFull
<1>2. CASE ConfirmReport
  <2>1. answer = "receipted" /\ pending.id # 0 /\ answer' = "none"
        /\ confirmed' = pending.id
    BY <1>1, <1>2 DEF ConfirmReport, Confirmed, CallOnChain, Leave
  <2>2. history' = {r \in history : r.prev # pending.prev} \cup {pending}
    BY <1>2, <2>1 DEF ConfirmReport, Archive
  <2>3. pending.prev = confirmed /\ pending.prev = pending.id - 1 /\ confirmed \in Nat
    BY <2>1 DEF NodeOnChain, Linked, TypeOK
  <2>4. ASSUME NEW i \in 0..(confirmed' - 1) PROVE \E r \in history' : r.prev = i
    <3>1. CASE i = pending.prev
      BY <2>2, <3>1
    <3>2. CASE i # pending.prev
      <4>1. PICK r \in history : r.prev = i
        BY <1>1, <2>1, <2>3, <3>2
      <4>. QED BY <2>2, <3>2, <4>1
    <3>. QED BY <3>1, <3>2
  <2>. QED BY <2>1, <2>4
<1>3. CASE PanelServes
  BY <1>1, <1>3 DEF PanelServes, disk
<1>4. CASE PrepareTraffic
  BY <1>1, <1>4, OpensAtStart DEF PrepareTraffic
<1>5. CASE \/ ReadFirstProgress \/ CountBatches \/ DrawFirst \/ DrawNext \/ ReadProgress \/ SendRecovery
           \/ AbandonRecovery \/ TakeRecoveryAnswer \/ FinishRecovery \/ SendReport
           \/ TakeRejection \/ CycleFails \/ Crash
  <2>1. UNCHANGED <<confirmed, history>>
    BY <1>5 DEF ReadFirstProgress, CountBatches, DrawFirst, DrawNext, Pending, ReadProgress, SendRecovery,
                AbandonRecovery, TakeRecoveryAnswer, FinishRecovery, SendReport,
                TakeRejection, CycleFails, Crash, disk
  <2>2. answer' \in {answer, "none", "waiting"}
    BY <1>5 DEF ReadFirstProgress, CountBatches, DrawFirst, DrawNext, ReadProgress, SendRecovery,
                AbandonRecovery, TakeRecoveryAnswer, FinishRecovery, SendReport,
                TakeRejection, CycleFails, Crash, Leave
  <2>. QED BY <1>1, <2>1, <2>2
<1>6. CASE \/ \E k \in Keys, amount \in Amounts : Record(k, amount)
           \/ \E r \in late : PanelServesLate(r)
           \/ RestorePanel \/ UNCHANGED vars
  BY <1>1, <1>6 DEF Record, PanelServesLate, RestorePanel, vars, cycle, disk
<1>. QED BY <1>2, <1>3, <1>4, <1>5, <1>6 DEF Next, CycleStep

(* Node, calls, network and panel stay on one chain of reports, whatever
   crashes, is lost, arrives late or is restored. *)
THEOREM ChainInvariant == Spec => []OneChain
<1>1. Init => OneChain
  BY InitOneChain
<1>2. OneChain /\ [Next]_vars => OneChain'
  BY TypeStep, ChainStep, CallStep, ArchiveStep DEF OneChain
<1>. QED BY <1>1, <1>2, PTL DEF Spec

-----------------------------------------------------------------------------
(* What follows from it *)

(* Every variable has its type. *)
THEOREM TypeCorrect == Spec => []TypeOK
BY ChainInvariant, PTL DEF OneChain

\* The counters together with the bill of the confirmed reports.
LEMMA BalanceOnChain == OneChain => BillingBalance
<1>. SUFFICES ASSUME OneChain PROVE BillingBalance
  OBVIOUS
<1>. USE DEF OneChain
<1>1. panel.billed = UptoOf(panel.progress) /\ panel.progress \in 0..Len(chain)
  BY DEF PanelOnChain
<1>2. panel.billed \in Counts /\ totals \in Counts
  BY <1>1, UptoType DEF TypeOK
<1>3. recorded = Plus(totals, UptoOf(confirmed))
  BY DEF NodeOnChain
<1>4. ASSUME panel.progress = confirmed
      PROVE  recorded = Plus(panel.billed, totals)
  BY <1>1, <1>2, <1>3, <1>4, PlusMinus
<1>5. ASSUME pending.id # 0, panel.progress = pending.id
      PROVE  Plus(recorded, pending.data) = Plus(panel.billed, totals)
  <2>1. Linked(pending) /\ pending.prev = confirmed /\ pending \in Report
    BY <1>5 DEF NodeOnChain, TypeOK
  <2>2. /\ panel.billed = Plus(UptoOf(confirmed), pending.data)
        /\ confirmed \in 0..Len(chain)
    BY <1>1, <1>5, <2>1, LinkedBill
  <2>3. UptoOf(confirmed) \in Counts /\ pending.data \in Counts
    BY <2>1, <2>2, UptoType DEF Report
  <2>4. Plus(Plus(totals, UptoOf(confirmed)), pending.data)
          = Plus(totals, Plus(UptoOf(confirmed), pending.data))
    BY <1>2, <2>3, PlusMinus
  <2>. QED BY <1>2, <1>3, <2>2, <2>4, PlusMinus
<1>. QED BY <1>4, <1>5 DEF BillingBalance

(* Usage is neither lost nor billed twice. *)
THEOREM Balance == Spec => []BillingBalance
BY ChainInvariant, BalanceOnChain, PTL

(* Store.Confirm never refuses an accepted report. *)
THEOREM Covered == Spec => []PendingCovered
<1>1. OneChain => PendingCovered
  BY DEF OneChain, NodeOnChain, CallOnChain, PendingCovered, Confirmable
<1>. QED BY <1>1, ChainInvariant, PTL

(* Recovery only leads the panel back to bills it had reached. *)
THEOREM Sound == Spec => []ArchiveSound
<1>1. OneChain => ArchiveSound
  <2>. SUFFICES ASSUME OneChain, NEW r \in history
                PROVE  \E b \in backups :
                         /\ b.progress = r.prev
                         /\ [progress |-> r.id, billed |-> Plus(b.billed, r.data)]
                              \in backups
    BY DEF ArchiveSound
  <2>. USE DEF OneChain
  <2>1. r \in Report /\ Linked(r) /\ Reached(r.id)
    BY DEF NodeOnChain, TypeOK
  <2>2. /\ r.id # 0 /\ r.prev = r.id - 1
        /\ UptoOf(r.id) = Plus(UptoOf(r.prev), r.data)
    BY <2>1, LinkedBill
  <2>3. PICK c \in backups : c.progress = r.id
    BY <2>1 DEF Reached
  <2>4. PICK b \in backups : b.progress = r.prev
    BY <2>2, <2>3 DEF PanelOnChain, Reached
  <2>5. b.billed = UptoOf(r.prev) /\ c.billed = UptoOf(r.id)
    BY <2>3, <2>4 DEF PanelOnChain
  <2>6. c = [progress |-> r.id, billed |-> Plus(b.billed, r.data)]
    BY <2>2, <2>3, <2>5 DEF TypeOK, Panel
  <2>. QED BY <2>3, <2>4, <2>6
<1>. QED BY <1>1, ChainInvariant, PTL

(* With a receipt for every report, every restored panel can be brought back. *)
THEOREM Complete == Spec => []ReplayComplete
<1>1. OneChain => ReplayComplete
  <2>. SUFFICES ASSUME OneChain, Receipts = {TRUE}, NEW b \in backups
                PROVE  \/ b.progress = confirmed
                       \/ pending.id # 0 /\ b.progress = pending.id
                       \/ \E r \in history : r.prev = b.progress
    BY DEF ReplayComplete
  <2>. USE DEF OneChain
  <2>1. b.progress \in 0..Len(chain) /\ confirmed \in Nat
    BY DEF PanelOnChain, TypeOK
  <2>2. b.progress < confirmed => \E r \in history : r.prev = b.progress
    BY <2>1 DEF ArchiveFull
  <2>3. CASE pending.id = 0
    BY <2>1, <2>2, <2>3 DEF NodeOnChain
  <2>4. CASE pending.id # 0
    <3>1. pending.id = Len(chain) /\ confirmed = pending.id - 1
      BY <2>4 DEF NodeOnChain, Linked
    <3>. QED BY <2>1, <2>2, <2>4, <3>1
  <2>. QED BY <2>3, <2>4
<1>. QED BY <1>1, ChainInvariant, PTL

\* The only step that takes from the counters is the confirmation of a report
\* the panel had accepted.
LEMMA ForgetStep ==
  ASSUME OneChain, [Next]_vars, totals' # totals, recorded' = recorded
  PROVE  ConfirmReport
<1>1. ASSUME NEW k \in Keys, NEW amount \in Amounts, Record(k, amount) PROVE FALSE
  <2>1. /\ recorded' = [recorded EXCEPT ![k] = @ + amount] /\ amount \in Nat \ {0}
        /\ recorded \in [Keys -> Nat]
    BY <1>1, LedgerAssumption DEF Record, OneChain, TypeOK, Counts
  <2>2. recorded'[k] # recorded[k]
    BY <2>1
  <2>. QED BY <2>2
<1>. QED
  BY <1>1 DEF Next, CycleStep, ReadFirstProgress, PrepareTraffic, CountBatches, DrawFirst, DrawNext, Pending,
       ReadProgress, SendRecovery, AbandonRecovery, TakeRecoveryAnswer, FinishRecovery,
       SendReport, TakeRejection, PanelServes, PanelServesLate, CycleFails, Crash,
       RestorePanel, vars, disk

LEMMA ConfirmedIsBilled ==
  ASSUME OneChain, ConfirmReport
  PROVE  /\ pending.id # 0 /\ pending \in Report /\ Linked(pending)
         /\ pending.prev = confirmed /\ AtMost(pending.data, totals)
         /\ \E b \in backups : b.progress = pending.id /\ b.billed = UptoOf(pending.id)
<1>1. pending.id # 0 /\ Reached(pending.id)
  BY DEF OneChain, CallOnChain, ConfirmReport, Confirmed
<1>. QED BY <1>1 DEF OneChain, NodeOnChain, PanelOnChain, TypeOK, Reached

(* The node forgets only the usage of a report that the panel had billed. *)
THEOREM Forgets == Spec => ForgetsOnlyBilled
<1>1. OneChain /\ [Next]_vars
        => [ totals' # totals /\ recorded' = recorded
               => /\ totals' = Minus(totals, pending.data)
                  /\ \E b \in backups : /\ b.progress = pending.id
                                        /\ b.billed = chain[pending.id] ]_vars
  <2>. SUFFICES ASSUME OneChain, [Next]_vars, totals' # totals, recorded' = recorded
                PROVE  /\ totals' = Minus(totals, pending.data)
                       /\ \E b \in backups : /\ b.progress = pending.id
                                             /\ b.billed = chain[pending.id]
    OBVIOUS
  <2>1. ConfirmReport
    BY ForgetStep
  <2>. QED BY <2>1, ConfirmedIsBilled DEF ConfirmReport, Subtract, UptoOf
<1>. QED BY <1>1, ChainInvariant, PTL DEF Spec, ForgetsOnlyBilled

-----------------------------------------------------------------------------
(* The ledger implements TrafficBilling *)

LEMMA BillingInit == Init => Billing!Init
<1>. SUFFICES ASSUME Init PROVE Billing!Init
  OBVIOUS
<1>1. Minus(recorded, panel.billed) = Zero /\ Minus(recorded, totals) = Zero
  BY DEF Init, Minus, Zero
<1>2. {b.billed : b \in backups} = {panel.billed} /\ panel.billed = Zero
  BY DEF Init
<1>. QED BY <1>1, <1>2 DEF Billing!Init, Zero

\* A panel on the chain never bills more than was recorded.
LEMMA BillIsRecorded ==
  ASSUME OneChain, NEW i \in 0..Len(chain)
  PROVE  /\ UptoOf(i) \in Counts
         /\ AtMost(UptoOf(i), recorded)
<1>. USE DEF OneChain
<1>1. UptoOf(i) \in Counts /\ UptoOf(Len(chain)) \in Counts
  BY UptoType DEF TypeOK
<1>2. AtMost(UptoOf(i), UptoOf(Len(chain)))
  BY DEF ChainGrows
<1>3. AtMost(UptoOf(Len(chain)), recorded)
  <2>1. recorded = Plus(totals, UptoOf(confirmed)) /\ totals \in Counts
    BY DEF NodeOnChain, TypeOK
  <2>2. CASE pending.id = 0
    <3>1. confirmed = Len(chain)
      BY <2>2 DEF NodeOnChain
    <3>. QED BY <1>1, <2>1, <3>1 DEF AtMost, Plus, Counts
  <2>3. CASE pending.id # 0
    <3>1. /\ Linked(pending) /\ pending \in Report /\ pending.id = Len(chain)
          /\ pending.prev = confirmed /\ AtMost(pending.data, totals)
      BY <2>3 DEF NodeOnChain, TypeOK
    <3>2. UptoOf(Len(chain)) = Plus(UptoOf(confirmed), pending.data)
          /\ confirmed \in 0..Len(chain)
      BY <3>1, LinkedBill
    <3>3. UptoOf(confirmed) \in Counts /\ pending.data \in Counts
      BY <3>1, <3>2, UptoType DEF Report
    <3>. QED BY <2>1, <3>1, <3>2, <3>3 DEF AtMost, Plus, Counts
  <2>. QED BY <2>2, <2>3
<1>. QED BY <1>1, <1>2, <1>3 DEF TypeOK, AtMost, Counts

\* The panel takes a request: usage moves from owed to billed.
LEMMA ProcessIsBill ==
  ASSUME OneChain, NEW r \in Report, Linked(r), Process(r), UNCHANGED <<totals, recorded>>
  PROVE  [Billing!Next]_(Billing!vars)
<1>. USE DEF OneChain
<1>1. CASE ~ Follows(r)
  BY <1>1 DEF Process, Billing!vars
<1>2. CASE Follows(r)
  <2>1. panel' = AcceptedBy(r) /\ backups' = backups \cup {AcceptedBy(r)}
    BY <1>2 DEF Process
  <2>2. /\ r.id \in 0..Len(chain)
        /\ UptoOf(r.id) = Plus(UptoOf(r.prev), r.data)
    BY LinkedBill
  <2>3. panel.billed = UptoOf(r.prev) /\ panel.billed \in Counts
    BY <1>2 DEF PanelOnChain, Follows, TypeOK, Panel
  <2>4. panel'.billed = UptoOf(r.id) /\ panel'.billed = Plus(panel.billed, r.data)
    BY <2>1, <2>2, <2>3 DEF AcceptedBy
  <2>5. panel'.billed \in Counts /\ AtMost(panel'.billed, recorded) /\ recorded \in Counts
    BY <2>2, <2>4, BillIsRecorded DEF TypeOK
  <2>6. \A k \in Keys : /\ Minus(recorded, panel.billed)'[k] >= 0
                        /\ panel'.billed[k] >= panel.billed[k]
    BY <2>3, <2>4, <2>5 DEF Minus, Plus, AtMost, Counts, Report
  <2>7. Minus(recorded, panel.billed)'
          = [k \in Keys |-> Minus(recorded, panel.billed)[k] + panel.billed[k]
                              - panel'.billed[k]]
    BY <2>3, <2>5 DEF Minus, Counts
  <2>8. {b.billed : b \in backups}' = {b.billed : b \in backups} \cup {panel'.billed}
    BY <2>1
  <2>9. Minus(recorded, totals)' = Minus(recorded, totals)
    BY DEF Minus
  <2>. QED BY <2>6, <2>7, <2>8, <2>9 DEF Billing!Next, Billing!Bill
<1>. QED BY <1>1, <1>2

\* Confirming a report forgets what a bill holds.
LEMMA ConfirmIsForget ==
  ASSUME OneChain, ConfirmReport
  PROVE  Billing!Forget
<1>. USE DEF OneChain
<1>1. PICK b \in backups : b.progress = pending.id /\ b.billed = UptoOf(pending.id)
  BY ConfirmedIsBilled
<1>2. /\ pending \in Report /\ Linked(pending) /\ pending.prev = confirmed
      /\ AtMost(pending.data, totals)
  BY ConfirmedIsBilled
<1>3. /\ UptoOf(pending.id) = Plus(UptoOf(confirmed), pending.data)
      /\ confirmed \in 0..Len(chain)
  BY <1>2, LinkedBill
<1>4. /\ totals \in Counts /\ pending.data \in Counts /\ UptoOf(confirmed) \in Counts
      /\ recorded = Plus(totals, UptoOf(confirmed))
  BY <1>2, <1>3, UptoType DEF TypeOK, Report, NodeOnChain
<1>5. /\ totals' = Minus(totals, pending.data)
      /\ UNCHANGED <<recorded, panel, backups>>
  BY DEF ConfirmReport, Subtract, net, ghost
<1>6. Minus(recorded, totals)' = b.billed
  BY <1>1, <1>3, <1>4, <1>5 DEF Minus, Plus, Counts
<1>7. \A k \in Keys : Minus(recorded, totals)'[k] >= Minus(recorded, totals)[k]
  BY <1>4, <1>5 DEF Minus, Plus, Counts
<1>. QED BY <1>5, <1>6, <1>7 DEF Billing!Forget, Minus

LEMMA BillingStep ==
  ASSUME OneChain, [Next]_vars
  PROVE  [Billing!Next]_(Billing!vars)
<1>. USE DEF OneChain
<1>1. ASSUME UNCHANGED <<totals, recorded, panel, backups>>
      PROVE  UNCHANGED Billing!vars
  BY <1>1 DEF Billing!vars, Minus
<1>2. CASE CycleStep /\ ~ ConfirmReport
  BY <1>1, <1>2 DEF CycleStep, ReadFirstProgress, PrepareTraffic, CountBatches, DrawFirst, DrawNext, Pending,
       ReadProgress, SendRecovery, AbandonRecovery, TakeRecoveryAnswer, FinishRecovery,
       SendReport, TakeRejection, disk, net, ghost
<1>3. CASE ConfirmReport
  BY <1>3, ConfirmIsForget DEF Billing!Next
<1>4. ASSUME NEW k \in Keys, NEW amount \in Amounts, Record(k, amount)
      PROVE  Billing!Next
  <2>1. /\ totals' = [totals EXCEPT ![k] = @ + amount]
        /\ recorded' = [recorded EXCEPT ![k] = @ + amount]
        /\ UNCHANGED <<panel, backups>> /\ amount \in Nat
        /\ totals \in Counts /\ recorded \in Counts /\ panel.billed \in Counts
    BY <1>4, LedgerAssumption DEF Record, net, TypeOK, Panel
  <2>2. Minus(recorded, panel.billed)'
          = [Minus(recorded, panel.billed) EXCEPT ![k] = @ + amount]
    <3>. DEFINE bill == panel.billed
    <3>1. \A j \in Keys : recorded'[j] - bill[j]
                           = IF j = k THEN (recorded[j] - bill[j]) + amount
                             ELSE recorded[j] - bill[j]
      BY <2>1 DEF Counts
    <3>2. Minus(recorded, bill)' = [j \in Keys |-> recorded'[j] - bill[j]]
      BY <2>1 DEF Minus
    <3>. QED BY <3>1, <3>2 DEF Minus
  <2>3. Minus(recorded, totals)' = Minus(recorded, totals)
    BY <2>1 DEF Minus, Counts
  <2>4. Billing!Use(k, amount)
    BY <2>1, <2>2, <2>3 DEF Billing!Use
  <2>. QED BY <2>4 DEF Billing!Next
<1>5. CASE PanelServes
  <2>1. outgoing \in Report /\ Linked(outgoing) /\ Process(outgoing)
    BY <1>5, OutgoingLinked DEF PanelServes
  <2>. QED BY <1>5, <2>1, ProcessIsBill DEF PanelServes, disk, ghost
<1>6. ASSUME NEW r \in late, PanelServesLate(r)
      PROVE  [Billing!Next]_(Billing!vars)
  <2>1. r \in Report /\ Linked(r)
    BY DEF PanelOnChain, TypeOK
  <2>. QED BY <1>6, <2>1, ProcessIsBill DEF PanelServesLate, disk, ghost
<1>7. CASE CycleFails \/ Crash \/ UNCHANGED vars
  BY <1>1, <1>7 DEF CycleFails, Crash, vars, disk, net, ghost
<1>8. CASE RestorePanel
  <2>1. /\ panel' \in backups /\ UNCHANGED <<totals, recorded, backups>>
        /\ recorded \in Counts /\ panel.billed \in Counts
        /\ panel'.billed \in Counts
    BY <1>8 DEF RestorePanel, disk, TypeOK, Panel
  <2>2. panel'.billed \in {b.billed : b \in backups}
    BY <2>1
  <2>3. Minus(recorded, panel.billed)'
          = [k \in Keys |-> Minus(recorded, panel.billed)[k] + panel.billed[k]
                              - panel'.billed[k]]
    BY <2>1 DEF Minus, Counts
  <2>4. Minus(recorded, totals)' = Minus(recorded, totals)
    BY <2>1 DEF Minus
  <2>. QED BY <2>1, <2>2, <2>3, <2>4 DEF Billing!Next, Billing!Restore
<1>. QED BY <1>2, <1>3, <1>4, <1>5, <1>6, <1>7, <1>8 DEF Next

(* Whatever fails, the ledger keeps the promise of TrafficBilling. *)
THEOREM Implements == Spec => ImplementsBilling
<1>1. Init => Billing!Init
  BY BillingInit
<1>2. OneChain /\ [Next]_vars => [Billing!Next]_(Billing!vars)
  BY BillingStep
<1>. QED BY <1>1, <1>2, ChainInvariant, PTL DEF Spec, Billing!Spec, ImplementsBilling

-----------------------------------------------------------------------------
(* Reports that can be read back, and the walk of TrafficRotation *)

\* There is usage to send exactly when there is a report.
ReportInv ==
  /\ pending.id = 0 => pending.data = Zero
  /\ ReportIsValid

LEMMA ReportInit == Init => ReportInv
BY DEF Init, NoReport, ReportInv, ReportIsValid

LEMMA PendingKeepsReports ==
  ASSUME OneChain, ReportInv, Pending
  PROVE  ReportInv'
<1>. USE DEF OneChain, ReportInv, ReportIsValid
<1>1. CASE KeepPending
  BY <1>1 DEF Pending, KeepPending
<1>2. CASE DrawPending
  <2>1. totals \in Counts /\ cursor \in 0..KeyCount /\ Batch(totals, cursor) # {}
    BY <1>2 DEF TypeOK, DrawPending
  <2>2. Valid(NewReport(Batch(totals, cursor)).data)
    BY <2>1, DrawnIsValid DEF NewReport
  <2>3. /\ pending' = NewReport(Batch(totals, cursor)) /\ UNCHANGED history
        /\ pending'.id = Len(chain) + 1 /\ Len(chain) \in Nat
    BY <1>2 DEF DrawPending, Pending, NewReport, TypeOK
  <2>. QED BY <2>2, <2>3
<1>. QED BY <1>1, <1>2 DEF Pending

LEMMA ReportStep ==
  ASSUME OneChain, ReportInv, [Next]_vars
  PROVE  ReportInv'
<1>1. CASE UNCHANGED <<pending, history>>
  BY <1>1 DEF ReportInv, ReportIsValid
<1>2. CASE DrawFirst \/ DrawNext
  BY <1>2, PendingKeepsReports DEF DrawFirst, DrawNext
<1>3. CASE ConfirmReport
  <2>1. pending.id # 0
    BY <1>3, ConfirmedIsBilled
  <2>2. pending' = NoReport /\ history' \subseteq history \cup {pending}
    BY <1>3 DEF ConfirmReport, Archive
  <2>. QED BY <2>1, <2>2 DEF ReportInv, ReportIsValid, NoReport
<1>4. ASSUME ~ (DrawFirst \/ DrawNext \/ ConfirmReport)
      PROVE  UNCHANGED <<pending, history>>
  BY <1>4 DEF Next, CycleStep, ReadFirstProgress, PrepareTraffic, CountBatches, ReadProgress, SendRecovery,
       AbandonRecovery, TakeRecoveryAnswer, FinishRecovery, SendReport, TakeRejection,
       Record, PanelServes, PanelServesLate, CycleFails, Crash, RestorePanel,
       vars, disk, cycle
<1>. QED BY <1>1, <1>2, <1>3, <1>4

LEMMA ReportInvariant == Spec => [](OneChain /\ ReportInv)
BY ChainInvariant, ReportInit, ReportStep, PTL DEF Spec

(* The reports the node writes can be read back and sent for ever after. *)
THEOREM Readable == Spec => []ReportIsValid
<1>1. ReportInv => ReportIsValid
  BY DEF ReportInv
<1>. QED BY <1>1, ReportInvariant, PTL

-----------------------------------------------------------------------------
(* The operators of the walk, as TrafficRotation sees them, are the ledger's *)

LEMMA SameKeys ==
  /\ Rotation!Keys = Keys /\ Rotation!Zero = Zero
  /\ \A f, g : Rotation!Minus(f, g) = Minus(f, g)
  /\ \A counts : Rotation!Active(counts) = Active(counts)
BY DEF Rotation!Keys, Keys, Rotation!Zero, Zero, Rotation!Minus, Minus, Rotation!Active, Active

LEMMA SameCardinality ==
  ASSUME NEW S
  PROVE  Rotation!Cardinality(S) = Cardinality(S)
BY Zenon DEF Rotation!Cardinality, Cardinality

LEMMA SameSum ==
  ASSUME NEW f, NEW S
  PROVE  Rotation!SumFunctionOnSet(f, S) = SumFunctionOnSet(f, S)
BY Zenon DEF Rotation!SumFunctionOnSet, SumFunctionOnSet, Rotation!FoldFunctionOnSet,
     FoldFunctionOnSet, Rotation!MapThenFoldSet, MapThenFoldSet

LEMMA SameWalk ==
  ASSUME NEW counts, NEW last
  PROVE  /\ Rotation!Batch(counts, last) = Batch(counts, last)
         /\ Rotation!BatchesFor(counts) = BatchesFor(counts)
         /\ \A S : Rotation!LastOf(S, last) = LastOf(S, last)
<1>1. \A k : Rotation!Place(last, k) = Place(last, k)
  BY DEF Rotation!Place, Place
<1>2. \A d : Rotation!Met(counts, last, d) = Met(counts, last, d)
  BY <1>1, SameKeys DEF Rotation!Met, Met
<1>3. \A S : Rotation!Fits(counts, S) <=> Fits(counts, S)
  BY SameCardinality, SameSum DEF Rotation!Fits, Fits
<1>4. Rotation!Batch(counts, last) = Batch(counts, last)
  BY <1>2, <1>3, SameKeys DEF Rotation!Batch, Batch
<1>5. Rotation!BatchesFor(counts) = BatchesFor(counts)
  BY SameKeys, SameCardinality DEF Rotation!BatchesFor, BatchesFor
<1>6. ASSUME NEW S PROVE Rotation!LastOf(S, last) = LastOf(S, last)
  BY Zenon DEF Rotation!LastOf, LastOf, Rotation!Place, Place
<1>. QED BY <1>4, <1>5, <1>6

-----------------------------------------------------------------------------
(* The ledger implements TrafficRotation *)

\* Leaving a cycle ends the one that TrafficRotation sees.
LEMMA LeaveEnds ==
  ASSUME Leave("idle") \/ Leave("closed")
  PROVE  Stage' = "idle" /\ Rotation!EndCycle
BY DEF Leave, Stage, Rotation!EndCycle

\* A cycle that gives up fails there, or was over already.
LEMMA LeaveFails ==
  ASSUME Leave("idle") \/ Leave("closed"), UNCHANGED <<totals, cursor, pending>>
  PROVE  [Rotation!Next]_(Rotation!vars)
<1>1. Stage' = "idle" /\ Rotation!EndCycle
  BY LeaveEnds
<1>2. CASE Stage = "idle"
  BY <1>1, <1>2 DEF Rotation!vars
<1>3. CASE Stage # "idle"
  BY <1>1, <1>3 DEF Rotation!Next, Rotation!CycleFails
<1>. QED BY <1>2, <1>3

\* A step within one stage of the cycle is not seen.
LEMMA SameStage ==
  ASSUME UNCHANGED <<totals, cursor, pending, batches, sent>>, Stage' = Stage
  PROVE  UNCHANGED Rotation!vars
BY DEF Rotation!vars

LEMMA RotationInit == Init => Rotation!Init
BY SameKeys DEF Init, NoReport, Stage, Rotation!Init

\* Drawing: the walk goes on from the cursor, or finds nothing.
LEMMA DrawRotates ==
  ASSUME OneChain, ReportInv, DrawFirst \/ DrawNext
  PROVE  Rotation!Draw \/ Rotation!NothingToReport
<1>. USE DEF OneChain, ReportInv, ReportIsValid
<1>1. Stage = "draw" /\ Pending /\ UNCHANGED totals
  BY DEF DrawFirst, DrawNext, Stage, Pending
<1>2. pending.data = Zero <=> pending.id = 0
  <2>1. ASSUME pending.id # 0 PROVE pending.data # Zero
    BY <2>1 DEF Valid, Active, Zero
  <2>. QED BY <2>1
<1>3. CASE pending'.id = 0
  <2>1. KeepPending
    BY <1>1, <1>3 DEF Pending, DrawPending, NewReport, TypeOK
  <2>2. /\ UNCHANGED <<pending, cursor>> /\ Batch(totals, cursor) = {}
    BY <1>3, <2>1 DEF KeepPending
  <2>3. Stage' = "idle"
    BY <1>3 DEF DrawFirst, DrawNext, Leave, Stage
  <2>. QED BY <1>1, <1>2, <1>3, <2>2, <2>3, SameKeys, SameWalk
           DEF Rotation!NothingToReport, Rotation!EndCycle
<1>4. CASE pending'.id # 0
  <2>1. Stage' = "report" /\ UNCHANGED <<batches, sent>>
    BY <1>4 DEF DrawFirst, DrawNext, Stage
  <2>2. CASE pending.id # 0
    <3>1. UNCHANGED <<pending, cursor>>
      BY <1>1, <2>2 DEF Pending, KeepPending, DrawPending
    <3>. QED BY <1>1, <1>2, <2>1, <2>2, <3>1, SameKeys DEF Rotation!Draw
  <2>3. CASE pending.id = 0
    <3>1. DrawPending
      BY <1>1, <1>4, <2>3 DEF Pending, KeepPending
    <3>2. /\ Batch(totals, cursor) # {}
          /\ pending'.data = [k \in Keys |-> IF k \in Batch(totals, cursor)
                                              THEN totals[k] ELSE 0]
          /\ cursor' = LastOf(Batch(totals, cursor), cursor)
      BY <3>1 DEF DrawPending, NewReport
    <3>. QED BY <1>1, <1>2, <2>1, <2>3, <3>2, SameKeys, SameWalk
             DEF Rotation!Draw, Rotation!Resume
  <2>. QED BY <2>2, <2>3
<1>. QED BY <1>3, <1>4

\* Confirming: the cycle goes on with the next report, or ends.
LEMMA ConfirmRotates ==
  ASSUME OneChain, ConfirmReport
  PROVE  Rotation!Confirm
<1>1. pending.id # 0 /\ pc = "reporting"
  BY ConfirmedIsBilled DEF ConfirmReport
<1>2. Stage = "report"
  BY <1>1 DEF Stage
<1>3. /\ totals' = Minus(totals, pending.data) /\ pending' = NoReport
      /\ UNCHANGED cursor
  BY DEF ConfirmReport, Subtract
<1>4. CASE sent >= batches
  <2>1. Stage' = "idle" /\ Rotation!EndCycle
    BY <1>4, LeaveEnds DEF ConfirmReport
  <2>. QED BY <1>2, <1>3, <1>4, <2>1, SameKeys DEF Rotation!Confirm, NoReport
<1>5. CASE ~ (sent >= batches)
  <2>1. pc' = "next" /\ sent' = sent + 1 /\ UNCHANGED batches
    BY <1>5 DEF ConfirmReport
  <2>. QED BY <1>2, <1>3, <1>5, <2>1, SameKeys DEF Rotation!Confirm, NoReport, Stage
<1>. QED BY <1>4, <1>5

LEMMA RecordRotates ==
  ASSUME OneChain, NEW k \in Keys, NEW amount \in Amounts, Record(k, amount)
  PROVE  Rotation!Record(k)
<1>1. /\ totals \in Counts /\ amount \in Nat \ {0} /\ MaxCount \in Nat
      /\ totals[k] + amount <= MaxCount
  BY LedgerAssumption, BatchAssumption DEF OneChain, TypeOK, Record
<1>2. amount \in 1..(MaxCount - totals[k])
  BY <1>1 DEF Counts
<1>3. /\ totals' = [totals EXCEPT ![k] = @ + amount]
      /\ UNCHANGED <<cursor, pending, pc, batches, sent>>
  BY DEF Record, cycle
<1>. QED BY <1>2, <1>3 DEF Rotation!Record, Stage

LEMMA RotationStep ==
  ASSUME OneChain, ReportInv, [Next]_vars
  PROVE  [Rotation!Next]_(Rotation!vars)
<1>1. CASE DrawFirst \/ DrawNext
  BY <1>1, DrawRotates DEF Rotation!Next, Rotation!CycleStep
<1>2. CASE ConfirmReport
  BY <1>2, ConfirmRotates DEF Rotation!Next, Rotation!CycleStep
<1>3. ASSUME NEW k \in Keys, NEW amount \in Amounts, Record(k, amount)
      PROVE  Rotation!Next
  BY <1>3, RecordRotates, SameKeys DEF Rotation!Next
<1>4. CASE CountBatches
  <2>1. Stage = "idle" /\ Stage' = "draw" /\ UNCHANGED <<totals, cursor, pending>>
    BY <1>4 DEF CountBatches, disk, Stage
  <2>. QED BY <1>4, <2>1, SameWalk
           DEF CountBatches, Rotation!StartCycle, Rotation!CycleStep, Rotation!Next
<1>5. CASE CycleFails \/ Crash \/ AbandonRecovery \/ TakeRejection
  BY <1>5, LeaveFails DEF CycleFails, Crash, AbandonRecovery, TakeRejection, disk
<1>6. CASE FinishRecovery
  <2>1. CASE pending.id = 0
    BY <1>6, <2>1, LeaveFails DEF FinishRecovery, disk
  <2>2. CASE pending.id # 0
    <3>1. /\ UNCHANGED <<totals, cursor, pending, batches, sent>>
          /\ pc = "recover" /\ pc' = "report"
      BY <1>6, <2>2 DEF FinishRecovery, disk
    <3>. QED BY <3>1, SameStage DEF Stage
  <2>. QED BY <2>1, <2>2
<1>7. CASE ReadFirstProgress \/ PrepareTraffic
  BY <1>7, SameStage DEF ReadFirstProgress, PrepareTraffic, Stage, disk
<1>8. CASE ReadProgress \/ SendRecovery \/ TakeRecoveryAnswer \/ SendReport
  <2>1. UNCHANGED <<totals, cursor, pending, batches, sent>>
    BY <1>8 DEF ReadProgress, SendRecovery, TakeRecoveryAnswer, SendReport, disk
  <2>2. /\ pc \in {"progress", "recover", "recovering", "report"}
        /\ pc' \in {"recover", "recovering", "reporting"}
    BY <1>8 DEF ReadProgress, SendRecovery, TakeRecoveryAnswer, SendReport
  <2>. QED BY <2>1, <2>2, SameStage DEF Stage
<1>9. CASE PanelServes \/ (\E r \in late : PanelServesLate(r)) \/ RestorePanel \/ UNCHANGED vars
  <2>1. UNCHANGED <<totals, cursor, pending, pc, batches, sent>>
    BY <1>9 DEF PanelServes, PanelServesLate, RestorePanel, vars, disk, cycle
  <2>. QED BY <2>1, SameStage DEF Stage
<1>. QED BY <1>1, <1>2, <1>3, <1>4, <1>5, <1>6, <1>7, <1>8, <1>9 DEF Next, CycleStep

(* Whatever fails, the accounts are reported in the turns of TrafficRotation. *)
THEOREM Rotates == Spec => ImplementsRotation
<1>1. Init => Rotation!Init
  BY RotationInit
<1>2. OneChain /\ ReportInv /\ [Next]_vars => [Rotation!Next]_(Rotation!vars)
  BY RotationStep
<1>. QED BY <1>1, <1>2, ReportInvariant, PTL
         DEF Spec, Rotation!Safety, ImplementsRotation

-----------------------------------------------------------------------------
(* Whose turn it is *)

LEMMA Bounded == Spec => [](\A k \in Keys : totals[k] <= MaxCount)
<1>1. Init => \A k \in Keys : totals[k] <= MaxCount
  BY BatchAssumption DEF Init, Zero
<1>2. ASSUME OneChain, \A k \in Keys : totals[k] <= MaxCount, [Next]_vars
      PROVE  (\A k \in Keys : totals[k] <= MaxCount)'
  <2>1. totals \in Counts /\ pending.data \in Counts
    BY <1>2 DEF OneChain, TypeOK, Report
  <2>2. ASSUME NEW k \in Keys, NEW amount \in Amounts, Record(k, amount)
        PROVE  \A j \in Keys : totals'[j] <= MaxCount
    BY <1>2, <2>1, <2>2 DEF Record, Counts
  <2>3. CASE ConfirmReport
    <3>1. totals' = Minus(totals, pending.data)
      BY <1>2, <2>3, ConfirmedIsBilled DEF ConfirmReport, Subtract
    <3>2. \A j \in Keys : totals'[j] <= totals[j] /\ totals'[j] \in Int /\ totals[j] \in Int
      BY <2>1, <3>1 DEF Minus, Counts
    <3>. QED BY <1>2, <3>2, BatchAssumption
  <2>4. CASE ~ ConfirmReport /\ ~ \E k \in Keys, amount \in Amounts : Record(k, amount)
    <3>1. UNCHANGED totals
      BY <1>2, <2>4 DEF Next, CycleStep, DrawFirst, DrawNext, Pending, CountBatches, CycleFails,
         Crash, AbandonRecovery, TakeRejection, FinishRecovery, ReadFirstProgress, PrepareTraffic,
         ReadProgress,
         SendRecovery, TakeRecoveryAnswer, SendReport, PanelServes, PanelServesLate,
         RestorePanel, vars, disk
    <3>. QED BY <1>2, <3>1
  <2>. QED BY <2>2, <2>3, <2>4
<1>. QED BY <1>1, <1>2, ChainInvariant, PTL DEF Spec

LEMMA DrawInTurn ==
  ASSUME OneChain, \A k \in Keys : totals[k] <= MaxCount, Pending
  PROVE  /\ pending.id = 0 /\ pending'.id # 0 =>
              \A k \in Active(totals) :
                pending'.data[k] = totals[k] \/ Place(cursor', k) < Place(cursor, k)
         /\ cursor' # cursor => pending.id = 0 /\ pending'.id # 0
         /\ pending.id = 0 => pending'.id # 0 \/ Active(totals) = {}
<1>1. totals \in Counts /\ cursor \in 0..KeyCount
  BY DEF OneChain, TypeOK
<1>2. CASE KeepPending
  BY <1>1, <1>2, FirstFits DEF KeepPending
<1>3. CASE DrawPending
  <2>. DEFINE batch == Batch(totals, cursor)
  <2>1. /\ pending.id = 0 /\ batch # {} /\ cursor' = LastOf(batch, cursor)
        /\ pending'.data = [k \in Keys |-> IF k \in batch THEN totals[k] ELSE 0]
        /\ pending'.id = Len(chain) + 1
    BY <1>3 DEF DrawPending, NewReport
  <2>2. pending'.id # 0
    BY <2>1 DEF OneChain, TypeOK
  <2>3. ASSUME NEW k \in Active(totals)
        PROVE  pending'.data[k] = totals[k] \/ Place(cursor', k) < Place(cursor, k)
    <3>1. CASE k \in batch
      BY <2>1, <3>1 DEF Active
    <3>2. CASE k \notin batch
      BY <1>1, <2>1, <3>2, WaitsLess
    <3>. QED BY <3>1, <3>2
  <2>. QED BY <2>1, <2>2, <2>3
<1>. QED BY <1>2, <1>3 DEF Pending

\* No account waits for ever: each report that is drawn takes it, or stops nearer
\* to it than the last one, and no account is too large to be the first of a
\* report (Store.Pending), for any counters, identities and limits.
THEOREM TurnComes == Spec => InTurn
<1>1. ASSUME OneChain, \A k \in Keys : totals[k] <= MaxCount, [Next]_vars,
             ~ UNCHANGED vars
      PROVE  /\ pending.id = 0 /\ pending'.id # 0 =>
                  \A k \in Active(totals) :
                    pending'.data[k] = totals[k] \/ Place(cursor', k) < Place(cursor, k)
             /\ cursor' # cursor => pending.id = 0 /\ pending'.id # 0
             /\ pending.id = 0 /\ (DrawFirst \/ DrawNext) =>
                  pending'.id # 0 \/ Active(totals) = {}
  <2>1. CASE DrawFirst \/ DrawNext
    BY <1>1, <2>1, DrawInTurn DEF DrawFirst, DrawNext
  <2>2. CASE ConfirmReport
    <3>1. pending'.id = 0 /\ UNCHANGED cursor
      BY <1>1, <2>2, ConfirmedIsBilled DEF ConfirmReport, Subtract, NoReport
    <3>. QED BY <2>1, <3>1
  <2>3. CASE ~ (DrawFirst \/ DrawNext \/ ConfirmReport)
    <3>1. UNCHANGED <<pending, cursor>>
      BY <1>1, <2>3 DEF Next, CycleStep, Record, cycle, CountBatches, CycleFails,
         Crash, AbandonRecovery, TakeRejection, FinishRecovery, ReadFirstProgress, PrepareTraffic,
         ReadProgress,
         SendRecovery, TakeRecoveryAnswer, SendReport, PanelServes, PanelServesLate,
         RestorePanel, vars, disk
    <3>. QED BY <2>3, <3>1
  <2>. QED BY <2>1, <2>2, <2>3
<1>. QED BY <1>1, ChainInvariant, Bounded, PTL DEF Spec, InTurn

=============================================================================
