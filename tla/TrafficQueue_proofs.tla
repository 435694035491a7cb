------------------------ MODULE TrafficQueue_proofs ------------------------
(***************************************************************************)
(* For any number of callers, writer names, calls and faults: there is at  *)
(* most one writer, CloseTraffic never closes the file under a call, and a *)
(* record whose caller is told that it is kept stays kept.                 *)
(***************************************************************************)
EXTENDS TrafficQueue, WellFoundedInduction, TLAPS

(* The types of what the queue is made of, the counters left out. *)
QueueTypes ==
  /\ queue \in Seq(Callers) /\ writing \in BOOLEAN
  /\ wpc \in [Writers -> {"off", "take", "commit", "reply"}]
  /\ batch \in [Writers -> Seq(Callers)]
  /\ cpc \in [Callers -> {"idle", "locked", "queued", "answered"}]
  /\ open \in BOOLEAN /\ closing \in BOOLEAN

(* A caller in the queue or in a batch waits for its answer and is in no other *)
(* of them; a goroutine that has ended holds no batch.                         *)
QueuedWait == \A i \in DOMAIN queue : cpc[queue[i]] = "queued"
BatchedWait ==
  \A w \in Writers : \A j \in DOMAIN batch[w] :
    /\ cpc[batch[w][j]] = "queued"
    /\ \A i \in DOMAIN queue : queue[i] # batch[w][j]
EndedHoldsNone == \A w \in Writers : wpc[w] = "off" => batch[w] = <<>>

QueueInv ==
  /\ QueueTypes /\ OneWriter /\ NoCallOnClosedFile
  /\ QueuedWait /\ BatchedWait /\ EndedHoldsNone

(* The first state: nothing queued, nobody writing. *)
LEMMA QueueInit == Init => QueueInv
<1> SUFFICES ASSUME Init PROVE QueueInv
  OBVIOUS
<1>1. QueueTypes
  <2>1. <<>> \in Seq(Callers)
    OBVIOUS
  <2>2. /\ queue = <<>> /\ batch = [w \in Writers |-> <<>>]
        /\ wpc = [w \in Writers |-> "off"] /\ cpc = [c \in Callers |-> "idle"]
        /\ writing \in BOOLEAN /\ open \in BOOLEAN /\ closing \in BOOLEAN
    BY DEF Init
  <2> QED BY <2>1, <2>2 DEF QueueTypes
<1>2. OneWriter
  <2>1. /\ \A w \in Writers : ~(wpc[w] # "off")
        /\ ~writing
    BY DEF Init
  <2> QED BY <2>1 DEF OneWriter
<1>3. QueuedWait /\ BatchedWait /\ EndedHoldsNone
  BY DEF Init, QueuedWait, BatchedWait, EndedHoldsNone
<1>4. NoCallOnClosedFile
  BY DEF Init, NoCallOnClosedFile
<1> QED BY <1>1, <1>2, <1>3, <1>4 DEF QueueInv

(* A caller that waits is not one that takes the lock, joins or returns. *)
LEMMA CallersKeep ==
  ASSUME QueueInv, NEW c \in Callers,
         (\E request \in Requests : Lock(c, request)) \/ Return(c)
  PROVE  QueueInv'
<1> USE DEF QueueInv, QueueTypes, writers, report, mutex
<1>1. CASE \E request \in Requests : Lock(c, request)
  <2>1. /\ UNCHANGED <<queue, writing, wpc, batch, open, closing, cycle>>
        /\ cpc[c] = "idle"
        /\ cpc' = [cpc EXCEPT ![c] = IF open THEN "locked" ELSE "idle"]
    BY <1>1 DEF Lock
  <2> QED BY <2>1 DEF OneWriter, NoCallOnClosedFile, QueuedWait, BatchedWait, EndedHoldsNone
<1>2. CASE Return(c)
  <2>1. /\ UNCHANGED <<queue, writing, wpc, batch, open, closing, cycle>>
        /\ cpc[c] = "answered" /\ cpc' = [cpc EXCEPT ![c] = "idle"]
    BY <1>2 DEF Return
  <2> QED BY <2>1 DEF OneWriter, NoCallOnClosedFile, QueuedWait, BatchedWait, EndedHoldsNone
<1> QED BY <1>1, <1>2

(* A caller joins the queue; the writer it starts is the only one. *)
LEMMA EnqueueKeeps ==
  ASSUME QueueInv, NEW c \in Callers, Enqueue(c)
  PROVE  QueueInv'
<1> USE DEF QueueInv, QueueTypes
<1>1. /\ UNCHANGED <<batch, open, closing, cycle>> /\ cpc[c] = "locked"
      /\ cpc' = [cpc EXCEPT ![c] = "queued"] /\ writing' = TRUE
      /\ queue' = Append(queue, c)
  BY DEF Enqueue, report, mutex
<1>2. /\ queue' \in Seq(Callers) /\ DOMAIN queue' = 1..Len(queue) + 1
      /\ \A i \in DOMAIN queue' :
           queue'[i] = IF i \in DOMAIN queue THEN queue[i] ELSE c
  BY <1>1
<1>3. /\ \A i \in DOMAIN queue : queue[i] # c
      /\ \A w \in Writers : \A j \in DOMAIN batch[w] : batch[w][j] # c
  BY <1>1 DEF QueuedWait, BatchedWait
<1>4. QueuedWait' /\ BatchedWait'
  <2>1. \A i \in DOMAIN queue : queue[i] \in Callers
    OBVIOUS
  <2>2. \A w \in Writers : \A j \in DOMAIN batch[w] : batch[w][j] \in Callers
    OBVIOUS
  <2> QED BY <1>1, <1>2, <1>3, <2>1, <2>2 DEF QueuedWait, BatchedWait
<1>5. open
  BY <1>1 DEF NoCallOnClosedFile
<1>6. CASE writing
  <2>1. UNCHANGED wpc
    BY <1>6 DEF Enqueue
  <2> QED BY <1>1, <1>2, <1>4, <1>5, <1>6, <2>1 DEF OneWriter, NoCallOnClosedFile, EndedHoldsNone
<1>7. CASE ~writing
  <2>1. PICK w \in Writers : wpc[w] = "off" /\ wpc' = [wpc EXCEPT ![w] = "take"]
    BY <1>7 DEF Enqueue
  <2>2. \A v \in Writers : wpc[v] = "off"
    BY <1>7 DEF OneWriter
  <2>3. OneWriter'
    BY <1>1, <2>1, <2>2 DEF OneWriter
  <2>4. EndedHoldsNone'
    BY <1>1, <2>1, <2>2 DEF EndedHoldsNone
  <2> QED BY <1>1, <1>2, <1>4, <1>5, <2>1, <2>3, <2>4 DEF NoCallOnClosedFile
<1> QED BY <1>6, <1>7

(* The writer takes the whole queue, commits, answers its batch, or leaves. *)
LEMMA WriterKeeps ==
  ASSUME QueueInv, NEW w \in Writers, Writer(w)
  PROVE  QueueInv'
<1> USE DEF QueueInv, QueueTypes
<1>1. CASE TakeBatch(w)
  <2>1. /\ wpc[w] = "take" /\ batch' = [batch EXCEPT ![w] = queue] /\ queue' = <<>>
        /\ writing' = (queue # <<>>)
        /\ wpc' = [wpc EXCEPT ![w] = IF queue = <<>> THEN "off" ELSE "commit"]
        /\ UNCHANGED <<cpc, open, closing, cycle>>
    BY <1>1 DEF TakeBatch, callers, report, mutex
  <2>2. \A v \in Writers : v # w => wpc[v] = "off"
    BY <2>1 DEF OneWriter
  <2>3. OneWriter'
    BY <2>1, <2>2 DEF OneWriter
  <2>4. QueuedWait' /\ BatchedWait' /\ EndedHoldsNone'
    BY <2>1, <2>2 DEF QueuedWait, BatchedWait, EndedHoldsNone
  <2> QED BY <2>1, <2>3, <2>4 DEF NoCallOnClosedFile
<1>2. CASE Commit(w) \/ CommitFails(w)
  <2>1. /\ wpc[w] = "commit" /\ wpc' = [wpc EXCEPT ![w] = "reply"]
        /\ UNCHANGED <<queue, writing, batch, cpc, open, closing, cycle>>
    BY <1>2 DEF Commit, CommitFails, callers, report, mutex
  <2> QED BY <2>1 DEF OneWriter, NoCallOnClosedFile, QueuedWait, BatchedWait, EndedHoldsNone
<1>3. CASE Reply(w)
  <2>1. /\ wpc[w] = "reply" /\ wpc' = [wpc EXCEPT ![w] = "take"]
        /\ batch' = [batch EXCEPT ![w] = <<>>]
        /\ cpc' = [c \in Callers |-> IF c \in ToSet(batch[w]) THEN "answered" ELSE cpc[c]]
        /\ UNCHANGED <<queue, writing, open, closing, cycle>>
    BY <1>3 DEF Reply, report, mutex
  <2>2. ToSet(batch[w]) = {batch[w][j] : j \in DOMAIN batch[w]}
    BY DEF ToSet
  <2>3. \A v \in Writers : v # w => wpc[v] = "off"
    BY <2>1 DEF OneWriter
  <2>4. OneWriter' /\ EndedHoldsNone'
    BY <2>1 DEF OneWriter, EndedHoldsNone
  <2>5. \A i \in DOMAIN queue : queue[i] \in Callers /\ queue[i] \notin ToSet(batch[w])
    BY <2>2 DEF BatchedWait
  <2>6. QueuedWait'
    BY <2>1, <2>5 DEF QueuedWait
  <2>7. \A v \in Writers : batch'[v] = <<>>
    BY <2>1, <2>3 DEF EndedHoldsNone
  <2>8. BatchedWait'
    BY <2>7 DEF BatchedWait
  <2>9. NoCallOnClosedFile'
    <3> SUFFICES ASSUME ~open
                 PROVE  queue = <<>> /\ cycle = "off" /\ \A c \in Callers : cpc'[c] = "idle"
      BY <2>1 DEF NoCallOnClosedFile
    <3>1. ToSet(batch[w]) = {}
      BY <2>2 DEF NoCallOnClosedFile, BatchedWait
    <3> QED BY <2>1, <3>1 DEF NoCallOnClosedFile
  <2> QED BY <2>1, <2>4, <2>6, <2>8, <2>9
<1> QED BY <1>1, <1>2, <1>3 DEF Writer

(* The file is closed when nobody reads: then nothing is queued. *)
LEMMA ClosingKeeps ==
  ASSUME QueueInv,
         \/ StartReport \/ CycleStep \/ CycleFails
         \/ AskClose \/ Close \/ Reopen \/ Crash
         \/ UNCHANGED vars
  PROVE  QueueInv'
<1> USE DEF QueueInv, QueueTypes, writers, callers, report, mutex
<1>1. CASE StartReport \/ CycleStep \/ CycleFails \/ UNCHANGED vars
  <2>1. UNCHANGED <<queue, writing, wpc, batch, cpc, open, closing>>
    BY <1>1 DEF StartReport, CycleStep, CycleFails, DrawReport, ReadProgress, Repair,
                NoReport, SendReport, ConfirmReport, vars
  <2>2. ~open => cycle' = "off"
    BY <1>1 DEF NoCallOnClosedFile, StartReport, CycleStep, CycleFails, DrawReport,
                ReadProgress, Repair, NoReport, SendReport, ConfirmReport, vars
  <2> QED BY <2>1, <2>2 DEF OneWriter, NoCallOnClosedFile, QueuedWait, BatchedWait, EndedHoldsNone
<1>2. CASE AskClose \/ Reopen
  <2>1. /\ UNCHANGED <<queue, writing, wpc, batch, cpc, cycle>>
        /\ open' /\ open' \in BOOLEAN /\ closing' \in BOOLEAN
    BY <1>2 DEF AskClose, Reopen
  <2> QED BY <2>1 DEF OneWriter, NoCallOnClosedFile, QueuedWait, BatchedWait, EndedHoldsNone
<1>3. CASE Close
  <2>1. /\ UNCHANGED <<queue, writing, wpc, batch, cpc, cycle>>
        /\ open' = FALSE /\ closing' = FALSE
        /\ cycle = "off" /\ \A c \in Callers : cpc[c] = "idle"
    BY <1>3 DEF Close, Readers
  <2>2. queue = <<>>
    <3>1. \A i \in DOMAIN queue : queue[i] \in Callers
      OBVIOUS
    <3>2. DOMAIN queue = {}
      BY <2>1, <3>1 DEF QueuedWait
    <3> QED BY <3>2
  <2>3. OneWriter'
    BY <2>1 DEF OneWriter
  <2>4. QueuedWait' /\ BatchedWait' /\ EndedHoldsNone'
    BY <2>1 DEF QueuedWait, BatchedWait, EndedHoldsNone
  <2>5. NoCallOnClosedFile'
    BY <2>1, <2>2 DEF NoCallOnClosedFile
  <2> QED BY <2>1, <2>3, <2>4, <2>5
<1>4. CASE Crash
  <2>1. /\ queue' = <<>> /\ writing' = FALSE
        /\ wpc' = [w \in Writers |-> "off"] /\ batch' = [w \in Writers |-> <<>>]
        /\ cpc' = [c \in Callers |-> "idle"] /\ cycle' = "off"
        /\ open' = FALSE /\ closing' = FALSE
    BY <1>4 DEF Crash, EndReport
  <2>2. QueueTypes'
    <3>1. <<>> \in Seq(Callers)
      OBVIOUS
    <3>2. FALSE \in BOOLEAN
      OBVIOUS
    <3>3. writing' \in BOOLEAN /\ open' \in BOOLEAN /\ closing' \in BOOLEAN
      BY <2>1, <3>2, Zenon
    <3> QED BY <2>1, <3>1, <3>3 DEF QueueTypes
  <2>3. OneWriter'
    <3>1. /\ \A w \in Writers : ~(wpc'[w] # "off")
          /\ ~writing'
      BY <2>1
    <3> QED BY <3>1 DEF OneWriter
  <2>4. QueuedWait' /\ BatchedWait' /\ EndedHoldsNone'
    BY <2>1 DEF QueuedWait, BatchedWait, EndedHoldsNone
  <2>5. NoCallOnClosedFile'
    BY <2>1 DEF NoCallOnClosedFile
  <2> QED BY <2>2, <2>3, <2>4, <2>5
<1> QED BY <1>1, <1>2, <1>3, <1>4

(* One writer at a time, callers wait in one place, the file is open under *)
(* them: the inductive invariant.                                          *)
THEOREM QueueInvariant == Spec => []QueueInv
<1>1. QueueInv /\ [Next]_vars => QueueInv'
  BY CallersKeep, EnqueueKeeps, WriterKeeps, ClosingKeeps DEF Next
<1> QED BY QueueInit, <1>1, PTL DEF Spec

(* Record never starts a second writer, whenever the last one leaves. *)
THEOREM SingleWriter == Spec => []OneWriter
<1>1. QueueInv => OneWriter
  BY DEF QueueInv
<1> QED BY QueueInvariant, <1>1, PTL

(* CloseTraffic never closes the file under a record or a report in progress. *)
THEOREM NeverUnderCall == Spec => []NoCallOnClosedFile
<1>1. QueueInv => NoCallOnClosedFile
  BY DEF QueueInv
<1> QED BY QueueInvariant, <1>1, PTL

-----------------------------------------------------------------------------
(* What a transaction adds up to *)

\* Induction as a fact about a set of numbers.
LEMMA UpTo ==
  ASSUME NEW n \in Nat, NEW T, 0 \in T, \A i \in 0..n-1 : i \in T => i + 1 \in T
  PROVE  \A i \in 0..n : i \in T
<1>. DEFINE Bad == {i \in 0..n : i \notin T}
<1>. SUFFICES ASSUME Bad # {} PROVE FALSE
  OBVIOUS
<1>1. PICK m \in Bad : \A i \in Bad : ~ (<<i, m>> \in OpToRel(<, Nat))
  <2>1. Bad \subseteq Nat
    OBVIOUS
  <2>. QED BY <2>1, NatLessThanWellFounded, WFMin
<1>2. m \in 1..n
  <2>1. m \in 0..n /\ m # 0
    BY <1>1
  <2>. QED BY <2>1
<1>3. m - 1 \in Bad
  <2>1. m \notin T
    BY <1>1
  <2>2. m - 1 \in 0..n-1 /\ m - 1 \in 0..n /\ (m - 1) + 1 = m
    BY <1>2
  <2>. QED BY <2>1, <2>2
<1>4. <<m - 1, m>> \in OpToRel(<, Nat)
  BY <1>2 DEF OpToRel
<1>. QED BY <1>1, <1>3, <1>4

\* f[i] is the value of a loop after i turns.
IsRun(f, V, v0, Turn, n) ==
  /\ f \in [0..n -> V] /\ f[0] = v0
  /\ \A i \in 1..n : f[i] = Turn[<<f[i - 1], i>>]

\* A loop of N turns has a run.
LEMMA LoopRuns ==
  ASSUME NEW V, NEW v0 \in V, NEW N \in Nat, NEW Turn \in [V \X (1..N) -> V]
  PROVE  \E f : IsRun(f, V, v0, Turn, N)
<1>. DEFINE Run(f, n) == IsRun(f, V, v0, Turn, n)
            T == {n \in 0..N : \E f : Run(f, n)}
<1>. USE DEF IsRun
<1>1. 0 \in T
  <2>. DEFINE f == [i \in 0..0 |-> v0]
  <2>1. Run(f, 0) /\ 0 \in 0..N
    OBVIOUS
  <2>. HIDE DEF Run, f
  <2>. QED BY <2>1
<1>2. ASSUME NEW n \in 0..N-1, n \in T PROVE n + 1 \in T
  <2>1. PICK f : Run(f, n)
    BY <1>2
  <2>. DEFINE v == Turn[<<f[n], n + 1>>]
              g == [i \in 0..n+1 |-> IF i = n + 1 THEN v ELSE f[i]]
  <2>2. f[n] \in V /\ n + 1 \in 1..N /\ <<f[n], n + 1>> \in V \X (1..N)
    BY <2>1
  <2>3. v \in V
    BY <2>2
  <2>4. g \in [0..n+1 -> V] /\ g[0] = v0
    BY <2>1, <2>3
  <2>5. ASSUME NEW i \in 1..n+1 PROVE g[i] = Turn[<<g[i - 1], i>>]
    <3>1. CASE i = n + 1
      <4>1. g[i] = v /\ g[i - 1] = f[n]
        BY <3>1
      <4>. QED BY <3>1, <4>1
    <3>2. CASE i # n + 1
      <4>1. i \in 1..n /\ i - 1 \in 0..n
        BY <3>2
      <4>2. g[i] = f[i] /\ g[i - 1] = f[i - 1]
        BY <4>1
      <4>. QED BY <4>1, <4>2, <2>1
    <3>. QED BY <3>1, <3>2
  <2>. HIDE DEF g
  <2>6. Run(g, n + 1)
    BY <2>4, <2>5
  <2>. QED BY <2>6
<1>. HIDE DEF T
<1>3. N \in T
  BY <1>1, <1>2, UpTo
<1>. QED BY <1>3 DEF T

\* Counters, and what a transaction has done after some of its requests.
Counters == [Keys -> Int]
Done     == [totals : Counters, refused : SUBSET Nat]

LEMMA AddRecordType ==
  ASSUME NEW acc \in Done, NEW i \in Nat, NEW request \in Requests
  PROVE  AddRecord(acc, i, request) \in Done
<1>1. /\ request.key \in Keys /\ request.amount \in Int
      /\ acc.totals \in [Keys -> Int] /\ acc.refused \in SUBSET Nat
  <2>1. acc.totals \in [Keys -> Int] /\ acc.refused \in SUBSET Nat
    BY DEF Done, Counters
  <2>2. request.key \in Keys /\ request.amount \in Amounts
    BY DEF Requests
  <2>3. request.amount \in Nat \ {0}
    BY <2>2, QueueAssumption, Zenon
  <2>. QED BY <2>1, <2>2, <2>3
<1>2. acc.totals[request.key] + request.amount \in Int
  BY <1>1
<1>. QED BY <1>1, <1>2 DEF AddRecord, Done, Counters

\* The loop of the transaction, and the sum over the requests that are kept.
LEMMA TransactionRuns ==
  ASSUME NEW counters \in Counters, NEW requests \in Seq(Requests)
  PROVE  \E after \in [0..Len(requests) -> Done] :
           /\ after[0] = [totals |-> counters, refused |-> {}]
           /\ \A i \in 1..Len(requests) :
                after[i] = AddRecord(after[i - 1], i, requests[i])
           /\ Transaction(counters, requests) = after[Len(requests)]
<1>. DEFINE N == Len(requests)
            v0 == [totals |-> counters, refused |-> {}]
            Turn == [p \in Done \X (1..N) |-> AddRecord(p[1], p[2], requests[p[2]])]
            Body(f) == [i \in 0..N |-> IF i = 0 THEN v0
                                       ELSE AddRecord(f[i - 1], i, requests[i])]
<1>1. N \in Nat /\ \A i \in 1..N : requests[i] \in Requests
  OBVIOUS
<1>2. v0 \in Done
  BY DEF Done
<1>3. Turn \in [Done \X (1..N) -> Done]
  <2>1. ASSUME NEW p \in Done \X (1..N)
        PROVE  AddRecord(p[1], p[2], requests[p[2]]) \in Done
    <3>1. p[1] \in Done /\ p[2] \in Nat /\ requests[p[2]] \in Requests
      BY <1>1
    <3>. QED BY <3>1, AddRecordType
  <2>. QED BY <2>1
<1>4. PICK f : IsRun(f, Done, v0, Turn, N)
  <2>1. N \in Nat
    BY <1>1
  <2>. HIDE DEF Turn, v0, N
  <2>. QED BY ONLY <2>1, <1>2, <1>3, LoopRuns
<1>5. \A i \in 1..N : f[i] = AddRecord(f[i - 1], i, requests[i])
  <2>. TAKE i \in 1..N
  <2>1. <<f[i - 1], i>> \in Done \X (1..N)
    <3>1. i - 1 \in 0..N
      BY <1>1
    <3>. HIDE DEF N, v0, Turn
    <3>. QED BY <3>1, <1>4 DEF IsRun
  <2>. HIDE DEF N, v0
  <2>2. Turn[<<f[i - 1], i>>] = AddRecord(f[i - 1], i, requests[i])
    BY <2>1
  <2>. QED BY <2>2, <1>4 DEF IsRun
<1>6. f = Body(f)
  <2>1. \A i \in 0..N : f[i] = IF i = 0 THEN v0 ELSE AddRecord(f[i - 1], i, requests[i])
    BY <1>1, <1>4, <1>5 DEF IsRun
  <2>. QED BY <2>1, <1>4 DEF IsRun
<1>. DEFINE after == CHOOSE g : g = Body(g)
<1>7. after = Body(after)
  <2>. HIDE DEF Body
  <2>. QED BY <1>6
<1>8. Transaction(counters, requests) = after[N]
  BY DEF Transaction
<1>. HIDE DEF after
<1>9. after[0] = v0 /\ \A i \in 1..N : after[i] = AddRecord(after[i - 1], i, requests[i])
  <2>1. \A i \in 0..N : after[i] = IF i = 0 THEN v0
                                 ELSE AddRecord(after[i - 1], i, requests[i])
    BY <1>7
  <2>2. 0 \in 0..N /\ \A i \in 1..N : i \in 0..N /\ i # 0
    BY <1>1
  <2>. HIDE DEF v0
  <2>. QED BY <2>1, <2>2
<1>10. after \in [0..N -> Done]
  <2>. DEFINE T == {i \in 0..N : after[i] \in Done}
  <2>1. 0 \in T
    BY <1>1, <1>2, <1>9
  <2>2. ASSUME NEW i \in 0..N-1, i \in T PROVE i + 1 \in T
    <3>1. after[i + 1] = AddRecord(after[i], i + 1, requests[i + 1])
      BY <1>9, <1>1
    <3>2. i + 1 \in Nat /\ requests[i + 1] \in Requests /\ after[i] \in Done
      BY <2>2, <1>1
    <3>. QED BY <3>1, <3>2, AddRecordType, <1>1
  <2>3. \A i \in 0..N : i \in T
    <3>. HIDE DEF T, N
    <3>. QED BY <1>1, <2>1, <2>2, UpTo
  <2>. QED BY <2>3, <1>7
<1>. QED BY <1>8, <1>9, <1>10

Tally == [Keys -> Nat]

\* One turn of the sum over the requests that are kept.
Tallied(sum, i, requests, refusals) ==
  IF i \in refusals THEN sum
  ELSE [sum EXCEPT ![requests[i].key] = @ + requests[i].amount]

LEMMA TalliedType ==
  ASSUME NEW sum \in Tally, NEW i, NEW requests, NEW refusals, requests[i] \in Requests
  PROVE  Tallied(sum, i, requests, refusals) \in Tally
<1>1. requests[i].key \in Keys /\ requests[i].amount \in Amounts
  BY DEF Requests
<1>2. requests[i].amount \in Nat \ {0}
  BY <1>1, QueueAssumption, Zenon
<1>3. sum[requests[i].key] + requests[i].amount \in Nat
  BY <1>1, <1>2 DEF Tally
<1>. QED BY <1>3 DEF Tallied, Tally

LEMMA AcceptedRuns ==
  ASSUME NEW requests \in Seq(Requests), NEW refusals
  PROVE  \E upto \in [0..Len(requests) -> Tally] :
           /\ upto[0] = Zero
           /\ \A i \in 1..Len(requests) :
                upto[i] = Tallied(upto[i - 1], i, requests, refusals)
           /\ Accepted(requests, refusals) = upto[Len(requests)]
<1>. DEFINE N == Len(requests)
            Turn == [p \in Tally \X (1..N) |-> Tallied(p[1], p[2], requests, refusals)]
            Body(f) == [i \in 0..N |-> IF i = 0 THEN Zero
                                       ELSE Tallied(f[i - 1], i, requests, refusals)]
<1>1. N \in Nat /\ \A i \in 1..N : requests[i] \in Requests
  OBVIOUS
<1>2. Zero \in Tally
  BY DEF Zero, Tally
<1>3. Turn \in [Tally \X (1..N) -> Tally]
  <2>1. ASSUME NEW p \in Tally \X (1..N)
        PROVE  Tallied(p[1], p[2], requests, refusals) \in Tally
    <3>1. p[1] \in Tally /\ p[2] \in Nat /\ requests[p[2]] \in Requests
      BY <1>1
    <3>. QED BY <3>1, TalliedType
  <2>. QED BY <2>1
<1>4. PICK f : IsRun(f, Tally, Zero, Turn, N)
  <2>1. N \in Nat
    BY <1>1
  <2>. HIDE DEF Turn, N
  <2>. QED BY ONLY <2>1, <1>2, <1>3, LoopRuns
<1>5. \A i \in 1..N : f[i] = Tallied(f[i - 1], i, requests, refusals)
  <2>. TAKE i \in 1..N
  <2>1. <<f[i - 1], i>> \in Tally \X (1..N)
    <3>1. i - 1 \in 0..N
      BY <1>1
    <3>. HIDE DEF N, Turn
    <3>. QED BY <3>1, <1>4 DEF IsRun
  <2>. HIDE DEF N
  <2>2. Turn[<<f[i - 1], i>>] = Tallied(f[i - 1], i, requests, refusals)
    BY <2>1
  <2>. QED BY <2>2, <1>4 DEF IsRun
<1>6. f = Body(f)
  <2>1. \A i \in 0..N : f[i] = IF i = 0 THEN Zero
                               ELSE Tallied(f[i - 1], i, requests, refusals)
    BY <1>1, <1>4, <1>5 DEF IsRun
  <2>. QED BY <2>1, <1>4 DEF IsRun
<1>. DEFINE upto == CHOOSE g : g = Body(g)
<1>7. upto = Body(upto)
  <2>. HIDE DEF Body
  <2>. QED BY <1>6
<1>8. Accepted(requests, refusals) = upto[N]
  BY DEF Accepted, Tallied
<1>. HIDE DEF upto
<1>9. /\ upto[0] = Zero
      /\ \A i \in 1..N : upto[i] = Tallied(upto[i - 1], i, requests, refusals)
  <2>1. \A i \in 0..N : upto[i] = IF i = 0 THEN Zero
                                  ELSE Tallied(upto[i - 1], i, requests, refusals)
    BY <1>7
  <2>2. 0 \in 0..N /\ \A i \in 1..N : i \in 0..N /\ i # 0
    BY <1>1
  <2>. QED BY <2>1, <2>2
<1>10. upto \in [0..N -> Tally]
  <2>. DEFINE T == {i \in 0..N : upto[i] \in Tally}
  <2>1. 0 \in T
    BY <1>1, <1>2, <1>9
  <2>2. ASSUME NEW i \in 0..N-1, i \in T PROVE i + 1 \in T
    <3>1. upto[i + 1] = Tallied(upto[i], i + 1, requests, refusals)
      BY <1>9, <1>1
    <3>2. requests[i + 1] \in Requests /\ upto[i] \in Tally
      BY <2>2, <1>1
    <3>. QED BY <3>1, <3>2, TalliedType, <1>1
  <2>3. \A i \in 0..N : i \in T
    <3>. HIDE DEF T, N
    <3>. QED BY <1>1, <2>1, <2>2, UpTo
  <2>. QED BY <2>3, <1>7
<1>. QED BY <1>8, <1>9, <1>10

\* A refused request is not counted.
LEMMA AcceptedType ==
  ASSUME NEW requests \in Seq(Requests), NEW refusals
  PROVE  /\ Accepted(requests, refusals) \in Tally
         /\ refusals = 1..Len(requests) => Accepted(requests, refusals) = Zero
<1>. DEFINE N == Len(requests)
<1>1. PICK upto \in [0..N -> Tally] :
           /\ upto[0] = Zero
           /\ \A i \in 1..N : upto[i] = Tallied(upto[i - 1], i, requests, refusals)
           /\ Accepted(requests, refusals) = upto[N]
  BY AcceptedRuns
<1>2. N \in Nat
  OBVIOUS
<1>3. ASSUME refusals = 1..N PROVE upto[N] = Zero
  <2>. DEFINE T == {i \in 0..N : upto[i] = Zero}
  <2>1. 0 \in T
    BY <1>1, <1>2
  <2>2. ASSUME NEW i \in 0..N-1, i \in T PROVE i + 1 \in T
    <3>1. upto[i + 1] = Tallied(upto[i], i + 1, requests, refusals)
      BY <1>1, <1>2
    <3>. QED BY <3>1, <2>2, <1>2, <1>3 DEF Tallied
  <2>3. \A i \in 0..N : i \in T
    <3>. HIDE DEF T, N
    <3>. QED BY <1>2, <2>1, <2>2, UpTo
  <2>. QED BY <2>3, <1>2
<1>. QED BY <1>1, <1>2, <1>3

\* A transaction adds to each counter what its callers are told that it keeps.
LEMMA TransactionAdds ==
  ASSUME NEW counters \in Counters, NEW requests \in Seq(Requests)
  PROVE  LET done == Transaction(counters, requests)
         IN  /\ done.totals \in Counters /\ done.refused \in SUBSET Nat
             /\ \A k \in Keys : done.totals[k]
                                  = counters[k] + Accepted(requests, done.refused)[k]
<1>. DEFINE N == Len(requests)
<1>1. PICK after \in [0..N -> Done] :
           /\ after[0] = [totals |-> counters, refused |-> {}]
           /\ \A i \in 1..N : after[i] = AddRecord(after[i - 1], i, requests[i])
           /\ Transaction(counters, requests) = after[N]
  BY TransactionRuns
<1>. DEFINE R == after[N].refused
<1>2. PICK upto \in [0..N -> Tally] :
           /\ upto[0] = Zero
           /\ \A i \in 1..N : upto[i] = Tallied(upto[i - 1], i, requests, R)
           /\ Accepted(requests, R) = upto[N]
  BY AcceptedRuns
<1>3. N \in Nat /\ \A i \in 1..N : requests[i] \in Requests
  OBVIOUS
<1>. HIDE DEF N
<1>4. ASSUME NEW i \in 1..N
      PROVE  \/ /\ after[i].refused = after[i - 1].refused \cup {i}
                /\ after[i].totals = after[i - 1].totals
             \/ /\ after[i].refused = after[i - 1].refused
                /\ after[i].totals = [after[i - 1].totals EXCEPT
                                         ![requests[i].key] = @ + requests[i].amount]
  <2>1. after[i - 1] \in Done /\ after[i] = AddRecord(after[i - 1], i, requests[i])
    BY <1>1, <1>3
  <2>. QED BY <2>1 DEF AddRecord, Done
\* No turn refuses a later request.
<1>5. \A i \in 0..N : after[i].refused \subseteq 1..i
  <2>. DEFINE T == {i \in 0..N : after[i].refused \subseteq 1..i}
  <2>1. 0 \in T
    BY <1>1, <1>3
  <2>2. ASSUME NEW i \in 0..N-1, i \in T PROVE i + 1 \in T
    <3>1. after[i + 1].refused \subseteq after[i].refused \cup {i + 1}
      <4>1. i + 1 \in 1..N /\ (i + 1) - 1 = i
        BY <1>3
      <4>. QED BY <4>1, <1>4
    <3>. QED BY <3>1, <2>2, <1>3
  <2>3. \A i \in 0..N : i \in T
    <3>. HIDE DEF T
    <3>. QED BY <1>3, <2>1, <2>2, UpTo
  <2>. QED BY <2>3
\* The turns after i neither refuse request i nor take it back.
<1>6. ASSUME NEW i \in 1..N PROVE i \in R <=> i \in after[i].refused
  <2>. DEFINE T == {j \in 0..N : j >= i => (i \in after[j].refused
                                              <=> i \in after[i].refused)}
  <2>1. 0 \in T
    BY <1>3
  <2>2. ASSUME NEW j \in 0..N-1, j \in T PROVE j + 1 \in T
    <3>1. j + 1 \in 1..N /\ j + 1 \in 0..N
      BY <1>3
    <3>2. CASE j + 1 <= i
      BY <3>1, <3>2
    <3>3. CASE j >= i
      <4>1. i \in after[j + 1].refused <=> i \in after[j].refused
        <5>1. (j + 1) - 1 = j /\ i # j + 1
          BY <1>3, <3>1, <3>3
        <5>2. \/ after[j + 1].refused = after[j].refused \cup {j + 1}
              \/ after[j + 1].refused = after[j].refused
          BY <1>4, <3>1, <5>1
        <5>. QED BY <5>1, <5>2
      <4>. QED BY <4>1, <2>2, <3>1, <3>3
    <3>. QED BY <3>2, <3>3, <1>3
  <2>3. \A j \in 0..N : j \in T
    <3>. HIDE DEF T
    <3>. QED BY <1>3, <2>1, <2>2, UpTo
  <2>. QED BY <2>3, <1>3
<1>7. \A i \in 0..N : \A k \in Keys : after[i].totals[k] = counters[k] + upto[i][k]
  <2>. DEFINE T == {i \in 0..N : \A k \in Keys :
                                   after[i].totals[k] = counters[k] + upto[i][k]}
  <2>1. 0 \in T
    BY <1>1, <1>2, <1>3 DEF Zero, Counters
  <2>2. ASSUME NEW i \in 0..N-1, i \in T PROVE i + 1 \in T
    <3>1. /\ i + 1 \in 1..N /\ i + 1 \in 0..N /\ i \in 0..N /\ (i + 1) - 1 = i
          /\ upto[i + 1] = Tallied(upto[i], i + 1, requests, R)
      BY <1>2, <1>3
    <3>2. /\ upto[i] \in Tally /\ after[i].totals \in Counters
          /\ after[i].refused \subseteq 1..i
      BY <1>5, <3>1 DEF Done
    <3>3. requests[i + 1].key \in Keys /\ requests[i + 1].amount \in Nat
      <4>1. requests[i + 1].key \in Keys /\ requests[i + 1].amount \in Amounts
        BY <1>3, <3>1 DEF Requests
      <4>. QED BY <4>1, QueueAssumption
    <3>4. i + 1 \notin after[i].refused
      BY <3>2
    <3>5. CASE i + 1 \in R
      <4>1. i + 1 \in after[i + 1].refused
        BY <1>6, <3>1, <3>5
      <4>2. after[i + 1].totals = after[i].totals
        BY <1>4, <3>1, <3>4, <4>1
      <4>. QED BY <2>2, <3>1, <3>5, <4>2 DEF Tallied
    <3>6. CASE i + 1 \notin R
      <4>1. i + 1 \notin after[i + 1].refused
        BY <1>6, <3>1, <3>6
      <4>2. after[i + 1].totals
              = [after[i].totals EXCEPT ![requests[i + 1].key] = @ + requests[i + 1].amount]
        BY <1>4, <3>1, <4>1
      <4>3. upto[i + 1]
              = [upto[i] EXCEPT ![requests[i + 1].key] = @ + requests[i + 1].amount]
        BY <3>1, <3>6 DEF Tallied
      <4>4. \A k \in Keys : after[i].totals[k] = counters[k] + upto[i][k]
        BY <2>2
      <4>5. \A k \in Keys : after[i + 1].totals[k] = counters[k] + upto[i + 1][k]
        <5>. DEFINE key == requests[i + 1].key
                    amount == requests[i + 1].amount
        <5>1. /\ upto[i] \in [Keys -> Nat] /\ after[i].totals \in [Keys -> Int]
              /\ counters \in [Keys -> Int] /\ key \in Keys /\ amount \in Nat
          BY <3>2, <3>3 DEF Tally, Counters
        <5>. HIDE DEF key, amount
        <5>2. \A k \in Keys :
                /\ after[i + 1].totals[k] = after[i].totals[k] + IF k = key THEN amount ELSE 0
                /\ upto[i + 1][k] = upto[i][k] + IF k = key THEN amount ELSE 0
          BY <4>2, <4>3, <5>1 DEF key, amount
        <5>. TAKE k \in Keys
        <5>3. /\ after[i].totals[k] \in Int /\ upto[i][k] \in Int /\ counters[k] \in Int
              /\ (IF k = key THEN amount ELSE 0) \in Int
              /\ after[i].totals[k] = counters[k] + upto[i][k]
          BY <4>4, <5>1
        <5>4. /\ after[i + 1].totals[k] = after[i].totals[k] + IF k = key THEN amount ELSE 0
              /\ upto[i + 1][k] = upto[i][k] + IF k = key THEN amount ELSE 0
          BY <5>2
        <5>. QED BY ONLY <5>3, <5>4
      <4>. QED BY <3>1, <4>5
    <3>. QED BY <3>5, <3>6
  <2>3. \A i \in 0..N : i \in T
    <3>. HIDE DEF T
    <3>. QED BY <1>3, <2>1, <2>2, UpTo
  <2>. QED BY <2>3
<1>8. after[N].totals \in Counters /\ R \in SUBSET Nat /\ N \in 0..N
  BY <1>3 DEF Done
<1>. QED BY <1>1, <1>2, <1>7, <1>8

-----------------------------------------------------------------------------
(* Records that callers are told are kept *)

KeptInv ==
  /\ totals \in Counters /\ drawn \in Counters
  /\ acked \in Counters /\ billed \in Counters /\ faults \in Nat
  /\ refused \in [Writers -> SUBSET Nat]
  /\ call \in [Callers -> Requests \cup {NoRequest}]
  /\ \A c \in Callers : cpc[c] # "idle" => call[c] \in Requests
  /\ AckedIsKept

\* A batch asks for requests that were made.
LEMMA AskedType ==
  ASSUME QueueInv, KeptInv, NEW w \in Writers
  PROVE  /\ Asked(w) \in Seq(Requests) /\ Len(Asked(w)) = Len(batch[w])
         /\ Accepted(Asked(w), refused[w]) \in Tally
<1>1. batch[w] \in Seq(Callers)
  BY DEF QueueInv, QueueTypes
<1>2. \A i \in 1..Len(batch[w]) : call[batch[w][i]] \in Requests
  BY <1>1 DEF QueueInv, BatchedWait, KeptInv
<1>3. Asked(w) \in Seq(Requests) /\ Len(Asked(w)) = Len(batch[w])
  BY <1>1, <1>2 DEF Asked
<1>. QED BY <1>3, AcceptedType

\* The one writer that may be answering.
LEMMA Answering ==
  ASSUME OneWriter, NEW w \in Writers, wpc[w] # "off"
  PROVE  \A k \in Keys : Unanswered(k) = IF wpc[w] = "reply"
                                         THEN Accepted(Asked(w), refused[w])[k] ELSE 0
<1>1. \A v \in Writers : wpc[v] = "reply" => v = w
  BY DEF OneWriter
<1>2. CASE wpc[w] = "reply"
  <2>1. (CHOOSE v \in Writers : wpc[v] = "reply") = w
    BY <1>1, <1>2
  <2>. QED BY <1>2, <2>1 DEF Unanswered
<1>3. CASE wpc[w] # "reply"
  BY <1>1, <1>3 DEF Unanswered
<1>. QED BY <1>2, <1>3

\* A step that leaves the answering writer alone.
LEMMA AnsweringFrame ==
  ASSUME QueueInv, KeptInv, OneWriter', UNCHANGED <<batch, refused>>,
         \A w \in Writers : wpc'[w] = "reply" <=> wpc[w] = "reply",
         \A c \in Callers : cpc[c] = "queued" => call'[c] = call[c]
  PROVE  \A k \in Keys : Unanswered(k)' = Unanswered(k)
<1>1. CASE \A w \in Writers : wpc[w] # "reply"
  BY <1>1 DEF Unanswered
<1>2. ASSUME NEW w \in Writers, wpc[w] = "reply"
      PROVE  \A k \in Keys : Unanswered(k)' = Unanswered(k)
  <2>1. batch[w] \in Seq(Callers)
    BY DEF QueueInv, QueueTypes
  <2>2. \A i \in 1..Len(batch[w]) : call'[batch[w][i]] = call[batch[w][i]]
    BY <2>1 DEF QueueInv, BatchedWait
  <2>3. Asked(w)' = Asked(w)
    BY <2>2 DEF Asked
  <2>4. \A v \in Writers : /\ wpc[v] = "reply" => v = w
                           /\ wpc'[v] = "reply" => v = w
    BY <1>2 DEF QueueInv, OneWriter
  <2>5. /\ (CHOOSE v \in Writers : wpc[v] = "reply") = w
        /\ (CHOOSE v \in Writers : wpc'[v] = "reply") = w
    BY <1>2, <2>4
  <2>6. \A k \in Keys : Unanswered(k) = Accepted(Asked(w), refused[w])[k]
    BY <1>2, <2>5 DEF Unanswered
  <2>7. \A k \in Keys : Unanswered(k)' = Accepted(Asked(w)', refused[w])[k]
    BY <1>2, <2>5 DEF Unanswered
  <2>. QED BY <2>3, <2>6, <2>7
<1>. QED BY <1>1, <1>2

\* A step that leaves the counters alone as well.
LEMMA KeptFrame ==
  ASSUME QueueInv, KeptInv, OneWriter',
         UNCHANGED <<batch, refused, totals, drawn, acked, billed, faults>>,
         \A w \in Writers : wpc'[w] = "reply" <=> wpc[w] = "reply",
         \A c \in Callers : cpc[c] = "queued" => call'[c] = call[c],
         call' \in [Callers -> Requests \cup {NoRequest}],
         \A c \in Callers : cpc'[c] # "idle" => call'[c] \in Requests
  PROVE  KeptInv'
<1>1. \A k \in Keys : Unanswered(k)' = Unanswered(k)
  BY AnsweringFrame
<1>2. AckedIsKept'
  BY <1>1 DEF KeptInv, AckedIsKept
<1>. QED BY <1>2 DEF KeptInv

LEMMA CallerKeepsKept ==
  ASSUME QueueInv, KeptInv, OneWriter', NEW c \in Callers,
         (\E request \in Requests : Lock(c, request)) \/ Enqueue(c) \/ Return(c)
  PROVE  KeptInv'
<1>1. UNCHANGED <<batch, refused, totals, drawn, acked, billed, faults>>
  BY DEF Lock, Enqueue, Return, store, writers, ghost
<1>2. /\ cpc \in [Callers -> {"idle", "locked", "queued", "answered"}]
      /\ wpc \in [Writers -> {"off", "take", "commit", "reply"}]
      /\ call \in [Callers -> Requests \cup {NoRequest}]
      /\ \A d \in Callers : cpc[d] # "idle" => call[d] \in Requests
  BY DEF QueueInv, QueueTypes, KeptInv
<1>3. \A w \in Writers : wpc'[w] = "reply" <=> wpc[w] = "reply"
  BY <1>2 DEF Lock, Enqueue, Return, writers
<1>. DEFINE Calls == /\ \A d \in Callers : cpc[d] = "queued" => call'[d] = call[d]
                     /\ call' \in [Callers -> Requests \cup {NoRequest}]
                     /\ \A d \in Callers : cpc'[d] # "idle" => call'[d] \in Requests
<1>4. Calls
  <2>1. ASSUME NEW request \in Requests, Lock(c, request) PROVE Calls
    BY <1>2, <2>1 DEF Lock
  <2>2. CASE Enqueue(c)
    BY <1>2, <2>2 DEF Enqueue
  <2>3. CASE Return(c)
    BY <1>2, <2>3 DEF Return
  <2>. QED BY <2>1, <2>2, <2>3
<1>. QED BY <1>1, <1>3, <1>4, KeptFrame

\* The usage of a transaction is in the counters when its callers are told.
LEMMA WriterKeepsKept ==
  ASSUME QueueInv, KeptInv, OneWriter', NEW w \in Writers, Writer(w)
  PROVE  KeptInv'
<1>1. /\ \A k \in Keys : Unanswered(k) = IF wpc[w] = "reply"
                                          THEN Accepted(Asked(w), refused[w])[k] ELSE 0
      /\ Asked(w) \in Seq(Requests) /\ Len(Asked(w)) = Len(batch[w])
      /\ Accepted(Asked(w), refused[w]) \in Tally
  BY AskedType, Answering DEF QueueInv, Writer, TakeBatch, Commit, CommitFails, Reply
<1>2. /\ totals \in Counters /\ drawn \in Counters /\ acked \in Counters
      /\ billed \in Counters /\ faults \in Nat
      /\ refused \in [Writers -> SUBSET Nat]
      /\ wpc \in [Writers -> {"off", "take", "commit", "reply"}]
      /\ \A k \in Keys :
           /\ acked[k] + Unanswered(k) <= totals[k] + billed[k]
           /\ faults = 0 => acked[k] + Unanswered(k) = totals[k] + billed[k]
  BY DEF QueueInv, QueueTypes, KeptInv, AckedIsKept
<1>3. /\ call' \in [Callers -> Requests \cup {NoRequest}]
      /\ \A c \in Callers : cpc'[c] # "idle" => call'[c] \in Requests
  <2>1. UNCHANGED call
    BY DEF Writer, TakeBatch, Commit, CommitFails, Reply, callers
  <2>2. \A c \in Callers : cpc'[c] # "idle" => cpc[c] # "idle"
    <3>1. CASE Reply(w)
      <4>1. cpc' = [c \in Callers |-> IF c \in ToSet(batch[w]) THEN "answered" ELSE cpc[c]]
        BY <3>1 DEF Reply
      <4>2. batch[w] \in Seq(Callers)
        BY DEF QueueInv, QueueTypes
      <4>3. \A c \in ToSet(batch[w]) : cpc[c] = "queued"
        BY <4>2 DEF ToSet, QueueInv, BatchedWait
      <4>. QED BY <4>1, <4>3
    <3>2. CASE ~ Reply(w)
      BY <3>2 DEF Writer, TakeBatch, Commit, CommitFails, callers
    <3>. QED BY <3>1, <3>2
  <2>. QED BY <2>1, <2>2 DEF KeptInv
<1>4. CASE TakeBatch(w)
  <2>1. /\ UNCHANGED <<totals, drawn, acked, billed, faults, refused>> /\ wpc[w] = "take"
        /\ \A v \in Writers : wpc'[v] # "reply"
    BY <1>2, <1>4 DEF TakeBatch, store, ghost, QueueInv, OneWriter
  <2>2. \A k \in Keys : Unanswered(k)' = 0
    BY <2>1 DEF Unanswered
  <2>3. \A k \in Keys : Unanswered(k) = 0
    BY <1>1, <2>1
  <2>. QED BY <1>2, <1>3, <2>1, <2>2, <2>3 DEF KeptInv, AckedIsKept
<1>5. CASE Commit(w)
  <2>. DEFINE done == Transaction(totals, Asked(w))
  <2>1. /\ wpc[w] = "commit" /\ totals' = done.totals
        /\ UNCHANGED <<drawn, acked, billed, faults, batch, call>>
        /\ wpc' = [wpc EXCEPT ![w] = "reply"]
        /\ refused' = [refused EXCEPT ![w] = done.refused]
    BY <1>5 DEF Commit, callers, ghost
  <2>2. /\ done.totals \in Counters /\ done.refused \in SUBSET Nat
        /\ \A k \in Keys : done.totals[k] = totals[k] + Accepted(Asked(w), done.refused)[k]
    BY <1>1, <1>2, TransactionAdds
  <2>. HIDE DEF done
  <2>3. Asked(w)' = Asked(w) /\ wpc'[w] = "reply"
    BY <1>2, <2>1 DEF Asked
  <2>4. refused'[w] = done.refused
    BY <1>2, <2>1
  <2>5. \A k \in Keys : Unanswered(k)' = Accepted(Asked(w), done.refused)[k]
    <3>1. (CHOOSE v \in Writers : wpc'[v] = "reply") = w
      BY <2>3 DEF OneWriter
    <3>. QED BY <2>3, <2>4, <3>1 DEF Unanswered
  <2>6. \A k \in Keys : Unanswered(k) = 0
    BY <1>1, <2>1
  <2>7. Accepted(Asked(w), done.refused) \in Tally
    BY <1>1, AcceptedType
  <2>8. AckedIsKept'
    BY <1>2, <2>1, <2>2, <2>5, <2>6, <2>7 DEF AckedIsKept, Counters, Tally
  <2>. QED BY <1>2, <1>3, <2>1, <2>2, <2>8 DEF KeptInv
<1>6. CASE CommitFails(w)
  <2>1. /\ wpc[w] = "commit" /\ faults' = faults + 1
        /\ UNCHANGED <<totals, drawn, acked, billed, batch, call>>
        /\ wpc' = [wpc EXCEPT ![w] = "reply"]
        /\ refused' = [refused EXCEPT ![w] = 1..Len(batch[w])]
    BY <1>6 DEF CommitFails, RefuseAll, callers, store
  <2>2. Asked(w)' = Asked(w) /\ wpc'[w] = "reply" /\ refused'[w] = 1..Len(batch[w])
    BY <1>2, <2>1 DEF Asked
  <2>3. \A k \in Keys : Unanswered(k)' = 0
    <3>1. (CHOOSE v \in Writers : wpc'[v] = "reply") = w
      BY <2>2 DEF OneWriter
    <3>2. Accepted(Asked(w), 1..Len(batch[w])) = Zero
      BY <1>1, AcceptedType
    <3>. QED BY <2>2, <3>1, <3>2 DEF Unanswered, Zero
  <2>4. \A k \in Keys : Unanswered(k) = 0
    BY <1>1, <2>1
  <2>5. AckedIsKept'
    BY <1>2, <2>1, <2>3, <2>4 DEF AckedIsKept
  <2>6. refused' \in [Writers -> SUBSET Nat]
    <3>1. batch[w] \in Seq(Callers)
      BY DEF QueueInv, QueueTypes
    <3>2. 1..Len(batch[w]) \in SUBSET Nat
      BY <3>1
    <3>. QED BY <1>2, <2>1, <3>2
  <2>. QED BY <1>2, <1>3, <2>1, <2>5, <2>6 DEF KeptInv
<1>7. CASE Reply(w)
  <2>. DEFINE told == Accepted(Asked(w), refused[w])
  <2>1. /\ UNCHANGED <<totals, drawn, billed, faults>> /\ wpc[w] = "reply"
        /\ acked' = [k \in Keys |-> acked[k] + told[k]]
        /\ refused' = [refused EXCEPT ![w] = {}]
        /\ \A v \in Writers : wpc'[v] # "reply"
    BY <1>2, <1>7 DEF Reply, store, QueueInv, OneWriter
  <2>2. told \in Tally /\ \A k \in Keys : Unanswered(k) = told[k]
    BY <1>1, <2>1
  <2>. HIDE DEF told
  <2>3. \A k \in Keys : Unanswered(k)' = 0
    BY <2>1 DEF Unanswered
  <2>4. acked' \in Counters
    BY <1>2, <2>1, <2>2 DEF Counters, Tally
  <2>5. \A k \in Keys : acked'[k] + Unanswered(k)' = acked[k] + Unanswered(k)
    BY <1>2, <2>1, <2>2, <2>3 DEF Counters, Tally
  <2>6. AckedIsKept'
    BY <1>2, <2>1, <2>5 DEF AckedIsKept
  <2>7. refused' \in [Writers -> SUBSET Nat]
    BY <1>2, <2>1
  <2>. QED BY <1>2, <1>3, <2>1, <2>4, <2>6, <2>7 DEF KeptInv
<1>. QED BY <1>4, <1>5, <1>6, <1>7 DEF Writer

\* A report moves usage from the counters to the bill; a crash loses answers.
LEMMA OthersKeepKept ==
  ASSUME QueueInv, KeptInv, OneWriter',
         \/ StartReport \/ CycleStep \/ CycleFails
         \/ AskClose \/ Close \/ Reopen \/ Crash
         \/ UNCHANGED vars
  PROVE  KeptInv'
<1>1. /\ totals \in Counters /\ drawn \in Counters /\ acked \in Counters
      /\ billed \in Counters /\ faults \in Nat
      /\ \A k \in Keys :
           /\ acked[k] + Unanswered(k) <= totals[k] + billed[k]
           /\ faults = 0 => acked[k] + Unanswered(k) = totals[k] + billed[k]
  BY DEF KeptInv, AckedIsKept
<1>2. CASE \/ StartReport \/ CycleFails \/ ReadProgress \/ Repair \/ NoReport \/ SendReport
           \/ AskClose \/ Close \/ Reopen \/ UNCHANGED vars
  <2>1. UNCHANGED <<batch, refused, totals, drawn, acked, billed, faults, wpc, cpc, call>>
    BY <1>2 DEF StartReport, CycleFails, ReadProgress, Repair, NoReport, SendReport,
                AskClose, Close, Reopen, vars, store, writers, callers, ghost
  <2>. QED BY <2>1, KeptFrame DEF KeptInv
<1>3. CASE DrawReport \/ ConfirmReport
  <2>1. UNCHANGED <<batch, refused, acked, faults, wpc, cpc, call>>
    BY <1>3 DEF DrawReport, ConfirmReport, writers, callers, ghost
  <2>2. \A k \in Keys : Unanswered(k)' = Unanswered(k)
    BY <2>1, AnsweringFrame
  <2>3. /\ totals' \in Counters /\ drawn' \in Counters /\ billed' \in Counters
        /\ \A k \in Keys : totals'[k] + billed'[k] = totals[k] + billed[k]
    <3>1. CASE DrawReport
      BY <1>1, <3>1 DEF DrawReport, ghost
    <3>2. CASE ConfirmReport
      BY <1>1, <3>2 DEF ConfirmReport, Counters, Zero
    <3>. QED BY <1>3, <3>1, <3>2
  <2>4. AckedIsKept'
    BY <1>1, <2>1, <2>2, <2>3 DEF AckedIsKept
  <2>. QED BY <1>1, <2>1, <2>3, <2>4 DEF KeptInv
<1>4. CASE Crash
  <2>1. /\ UNCHANGED <<totals, drawn, acked, billed>> /\ faults' = faults + 1
        /\ wpc' = [w \in Writers |-> "off"] /\ refused' = [w \in Writers |-> {}]
        /\ cpc' = [c \in Callers |-> "idle"]
        /\ call' = [c \in Callers |-> NoRequest]
    BY <1>4 DEF Crash, store
  <2>2. \A k \in Keys : Unanswered(k)' = 0
    BY <2>1 DEF Unanswered
  <2>3. \A k \in Keys : Unanswered(k) \in Nat
    <3>1. ASSUME NEW w \in Writers, wpc[w] = "reply" PROVE <2>3
      BY <3>1, AskedType, Answering DEF QueueInv, Tally
    <3>2. CASE \A w \in Writers : wpc[w] # "reply"
      BY <3>2 DEF Unanswered
    <3>. QED BY <3>1, <3>2
  <2>4. AckedIsKept'
    BY <1>1, <2>1, <2>2, <2>3 DEF AckedIsKept, Counters
  <2>. QED BY <1>1, <2>1, <2>4 DEF KeptInv
<1>. QED BY <1>2, <1>3, <1>4 DEF CycleStep

LEMMA KeptInit == Init => KeptInv
<1>. SUFFICES ASSUME Init PROVE KeptInv
  OBVIOUS
<1>1. Zero \in Counters /\ \A k \in Keys : Zero[k] = 0
  BY DEF Zero, Counters
<1>2. \A k \in Keys : Unanswered(k) = 0
  BY DEF Init, Unanswered
<1>3. AckedIsKept
  BY <1>1, <1>2 DEF Init, AckedIsKept
<1>. QED BY <1>1, <1>3 DEF Init, KeptInv

(* A caller that is told its record is kept finds it in the counters or on the *)
(* bill for ever after, and without faults nothing else is there.              *)
THEOREM AckedForGood == Spec => []AckedIsKept
<1>1. QueueInv /\ QueueInv' /\ KeptInv /\ [Next]_vars => KeptInv'
  <2>1. QueueInv' => OneWriter'
    BY DEF QueueInv
  <2>. QED BY <2>1, CallerKeepsKept, WriterKeepsKept, OthersKeepKept DEF Next
<1>2. KeptInv => AckedIsKept
  BY DEF KeptInv
<1>. QED BY <1>1, <1>2, KeptInit, QueueInvariant, PTL DEF Spec
=============================================================================
