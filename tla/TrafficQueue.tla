----------------------------- MODULE TrafficQueue -----------------------------
(***************************************************************************)
(* Recording traffic: many connections call Store.Record, one goroutine    *)
(* (Store.writeRecords, src/common/traffic/store.go) commits what they     *)
(* queued in one bbolt transaction per turn and answers each of them.  The *)
(* report cycle (ReportUserTraffic, src/api/sspanel/traffic.go) takes      *)
(* usage out of the same counters, and CloseTraffic waits until records    *)
(* and the cycle have given trafficMu back.                                *)
(*                                                                         *)
(* The step of a caller or of the writer is the code between two points    *)
(* where another goroutine can run: a lock, a channel, a transaction.      *)
(* bbolt runs one read-write transaction at a time, all or nothing; a      *)
(* transaction that fails leaves the file as it was.  A report takes all   *)
(* counters here, one report per cycle; TrafficLedger has how they are cut *)
(* into several.                                                           *)
(***************************************************************************)
EXTENDS Integers, Sequences, SequencesExt

CONSTANTS
  Callers,   \* connections that record traffic
  Writers,   \* names for the goroutines started by Record
  Keys,      \* accounts
  Amounts,   \* usage of one record
  MaxCount,  \* the largest counter (MaxInt64)
  MaxRepairs, \* merges and recoveries a cycle may have to send first
  MaxCalls,  \* bound of the model: calls of Record
  MaxFaults  \* bound of the model: failed transactions and crashes

ASSUME QueueAssumption ==
  /\ Amounts \subseteq Nat \ {0}
  /\ MaxCount \in Nat /\ MaxRepairs \in Nat /\ MaxCalls \in Nat /\ MaxFaults \in Nat

VARIABLES
  totals,   \* bucket totals, on disk
  drawn,    \* usage of the pending report, on disk
  queue,    \* Store.queue: callers waiting for the writer
  writing,  \* Store.writing
  wpc, batch, refused,  \* per goroutine: its place, its batch, refused places of it
  cpc, call,            \* per caller: its place, its request
  cycle,    \* the place of ReportUserTraffic
  repairs,  \* merges and recoveries it has still to send
  open,     \* APIClient.trafficState is not nil
  closing,  \* CloseTraffic waits for trafficMu
  acked, billed, calls, faults  \* history variables

store   == <<totals, drawn>>
writers == <<queue, writing, wpc, batch, refused>>
callers == <<cpc, call>>
report  == <<cycle, repairs>>
mutex   == <<open, closing>>
ghost   == <<acked, billed, calls, faults>>
vars    == <<store, writers, callers, report, mutex, ghost>>

Requests == [key : Keys, amount : Amounts]
NoRequest == [key |-> CHOOSE k \in Keys : TRUE, amount |-> 0]
Zero == [k \in Keys |-> 0]

TypeOK ==
  /\ totals \in [Keys -> 0..MaxCount] /\ drawn \in [Keys -> 0..MaxCount]
  /\ queue \in Seq(Callers) /\ writing \in BOOLEAN
  /\ wpc \in [Writers -> {"off", "take", "commit", "reply"}]
  /\ batch \in [Writers -> Seq(Callers)]
  /\ refused \in [Writers -> SUBSET Nat]
  /\ cpc \in [Callers -> {"idle", "locked", "queued", "answered"}]
  /\ call \in [Callers -> Requests \cup {NoRequest}]
  /\ cycle \in {"off", "draw", "progress", "repair", "send"}
  /\ repairs \in 0..MaxRepairs
  /\ open \in BOOLEAN /\ closing \in BOOLEAN
  /\ acked \in [Keys -> Nat] /\ billed \in [Keys -> Nat]
  /\ calls \in 0..MaxCalls /\ faults \in 0..MaxFaults

Init ==
  /\ totals = Zero /\ drawn = Zero
  /\ queue = <<>> /\ writing = FALSE
  /\ wpc = [w \in Writers |-> "off"]
  /\ batch = [w \in Writers |-> <<>>]
  /\ refused = [w \in Writers |-> {}]
  /\ cpc = [c \in Callers |-> "idle"]
  /\ call = [c \in Callers |-> NoRequest]
  /\ cycle = "off" /\ repairs = 0
  /\ open = TRUE /\ closing = FALSE
  /\ acked = Zero /\ billed = Zero /\ calls = 0 /\ faults = 0

-----------------------------------------------------------------------------
(* RecordUserTraffic and Store.Record *)

\* trafficMu.RLock: a waiting CloseTraffic keeps new readers out.
Lock(c, request) ==
  /\ cpc[c] = "idle" /\ ~closing
  /\ calls < MaxCalls /\ calls' = calls + 1
  /\ cpc' = [cpc EXCEPT ![c] = IF open THEN "locked" ELSE "idle"]
  /\ call' = [call EXCEPT ![c] = IF open THEN request ELSE NoRequest]
  /\ UNCHANGED <<store, writers, report, mutex, acked, billed, faults>>

\* Mutant of Enqueue: the flag that a writer runs is not set.
EnqueueUnflagged(c) ==
  /\ cpc[c] = "locked"
  /\ cpc' = [cpc EXCEPT ![c] = "queued"]
  /\ queue' = Append(queue, c)
  /\ IF writing
     THEN UNCHANGED wpc
     ELSE \E w \in Writers : wpc[w] = "off" /\ wpc' = [wpc EXCEPT ![w] = "take"]
  /\ UNCHANGED <<store, writing, batch, refused, call, report, mutex, ghost>>

\* Under Store.mu: join the queue and start a writer unless one runs.
Enqueue(c) ==
  /\ cpc[c] = "locked"
  /\ cpc' = [cpc EXCEPT ![c] = "queued"]
  /\ queue' = Append(queue, c)
  /\ writing' = TRUE
  /\ IF writing
     THEN UNCHANGED wpc
     ELSE \E w \in Writers : wpc[w] = "off" /\ wpc' = [wpc EXCEPT ![w] = "take"]
  /\ UNCHANGED <<store, batch, refused, call, report, mutex, ghost>>

Return(c) ==
  /\ cpc[c] = "answered"
  /\ cpc' = [cpc EXCEPT ![c] = "idle"]
  /\ call' = [call EXCEPT ![c] = NoRequest]
  /\ UNCHANGED <<store, writers, report, mutex, ghost>>

-----------------------------------------------------------------------------
(* Store.writeRecords *)

\* Mutant of TakeBatch: the writer leaves without clearing the flag.
TakeBatchKeepFlag(w) ==
  /\ wpc[w] = "take"
  /\ batch' = [batch EXCEPT ![w] = queue]
  /\ queue' = <<>>
  /\ wpc' = [wpc EXCEPT ![w] = IF queue = <<>> THEN "off" ELSE "commit"]
  /\ UNCHANGED <<store, writing, refused, callers, report, mutex, ghost>>

\* Under Store.mu: take the whole queue, or leave if there is none.
TakeBatch(w) ==
  /\ wpc[w] = "take"
  /\ batch' = [batch EXCEPT ![w] = queue]
  /\ queue' = <<>>
  /\ writing' = (queue # <<>>)
  /\ wpc' = [wpc EXCEPT ![w] = IF queue = <<>> THEN "off" ELSE "commit"]
  /\ UNCHANGED <<store, refused, callers, report, mutex, ghost>>

\* The requests of a batch; a caller waits for the answer and changes none.
Asked(w) == [i \in 1..Len(batch[w]) |-> call[batch[w][i]]]

\* Request i of the transaction: a counter that would overflow refuses it, and
\* the others go on.
AddRecord(acc, i, request) ==
  LET t == acc.totals[request.key] + request.amount
  IN  IF t > MaxCount
      THEN [acc EXCEPT !.refused = @ \cup {i}]
      ELSE [acc EXCEPT !.totals = [@ EXCEPT ![request.key] = t]]

Transaction(counters, requests) ==
  LET after[i \in 0..Len(requests)] ==
        IF i = 0 THEN [totals |-> counters, refused |-> {}]
        ELSE AddRecord(after[i - 1], i, requests[i])
  IN  after[Len(requests)]

Commit(w) ==
  /\ wpc[w] = "commit"
  /\ totals' = Transaction(totals, Asked(w)).totals
  /\ refused' = [refused EXCEPT ![w] = Transaction(totals, Asked(w)).refused]
  /\ wpc' = [wpc EXCEPT ![w] = "reply"]
  /\ UNCHANGED <<drawn, queue, writing, batch, callers, report, mutex, ghost>>

\* Mutant of RefuseAll: callers of a failed transaction are told it is done.
RefuseNone(w) == refused' = [refused EXCEPT ![w] = {}]

RefuseAll(w) == refused' = [refused EXCEPT ![w] = 1..Len(batch[w])]

CommitFails(w) ==
  /\ wpc[w] = "commit"
  /\ faults < MaxFaults /\ faults' = faults + 1
  /\ RefuseAll(w)
  /\ wpc' = [wpc EXCEPT ![w] = "reply"]
  /\ UNCHANGED <<store, queue, writing, batch, callers, report, mutex, acked,
                 billed, calls>>

\* Usage of the requests whose callers are told that their record is kept.
Accepted(requests, refusals) ==
  LET upto[i \in 0..Len(requests)] ==
        IF i = 0 THEN Zero
        ELSE IF i \in refusals THEN upto[i - 1]
        ELSE [upto[i - 1] EXCEPT ![requests[i].key] = @ + requests[i].amount]
  IN  upto[Len(requests)]

\* Answers never block: every request has its own channel with room for one.
Reply(w) ==
  /\ wpc[w] = "reply"
  /\ cpc' = [c \in Callers |-> IF c \in ToSet(batch[w]) THEN "answered" ELSE cpc[c]]
  /\ acked' = [k \in Keys |-> acked[k] + Accepted(Asked(w), refused[w])[k]]
  /\ wpc' = [wpc EXCEPT ![w] = "take"]
  /\ batch' = [batch EXCEPT ![w] = <<>>]
  /\ refused' = [refused EXCEPT ![w] = {}]
  /\ UNCHANGED <<store, queue, writing, call, report, mutex, billed, calls,
                 faults>>

-----------------------------------------------------------------------------
(* The report cycle.  It holds trafficMu for reading from its first step to *)
(* its return, all calls to the panel included; trafficReportMu lets in one *)
(* cycle at a time.                                                         *)

\* ReportUserTraffic takes its locks.
StartReport ==
  /\ cycle = "off" /\ open /\ ~closing
  /\ cycle' = "draw"
  /\ UNCHANGED <<repairs, store, writers, callers, mutex, ghost>>

\* It returns, at the end or with the error of a call or a transaction; a call
\* that is not answered ends by its timeout.
EndReport == cycle' = "off" /\ repairs' = 0

CycleFails ==
  /\ cycle # "off"
  /\ EndReport
  /\ UNCHANGED <<store, writers, callers, mutex, ghost>>

\* Store.Pending, under bbolt's lock: usage is drawn, but stays in the counters.
DrawReport ==
  /\ cycle = "draw"
  /\ cycle' = "progress"
  /\ drawn' = IF drawn = Zero THEN totals ELSE drawn
  /\ UNCHANGED <<repairs, totals, writers, callers, mutex, ghost>>

\* Mutant of ReadProgress: it takes trafficMu once more, as RecordUserTraffic does.
ReadProgressLocks ==
  /\ cycle = "progress" /\ ~closing
  /\ cycle' = "repair"
  /\ repairs' \in 0..MaxRepairs
  /\ UNCHANGED <<store, writers, callers, mutex, ghost>>

\* trafficProgress: it shows how far the panel is behind.
ReadProgress ==
  /\ cycle = "progress"
  /\ cycle' = "repair"
  /\ repairs' \in 0..MaxRepairs
  /\ UNCHANGED <<store, writers, callers, mutex, ghost>>

\* A merge or a recovery is sent; neither touches the counters.
Repair ==
  /\ cycle = "repair" /\ repairs > 0
  /\ repairs' = repairs - 1
  /\ UNCHANGED <<cycle, store, writers, callers, mutex, ghost>>

NoReport ==
  /\ cycle = "repair" /\ repairs = 0 /\ drawn = Zero
  /\ EndReport
  /\ UNCHANGED <<store, writers, callers, mutex, ghost>>

SendReport ==
  /\ cycle = "repair" /\ repairs = 0 /\ drawn # Zero
  /\ cycle' = "send"
  /\ UNCHANGED <<repairs, store, writers, callers, mutex, ghost>>

\* The panel's answer, and Store.Confirm.
ConfirmReport ==
  /\ cycle = "send"
  /\ EndReport
  /\ totals' = [k \in Keys |-> totals[k] - drawn[k]]
  /\ drawn' = Zero
  /\ billed' = [k \in Keys |-> billed[k] + drawn[k]]
  /\ UNCHANGED <<writers, callers, mutex, acked, calls, faults>>

CycleStep ==
  \/ DrawReport \/ ReadProgress \/ Repair \/ NoReport \/ SendReport \/ ConfirmReport

-----------------------------------------------------------------------------
(* Closing, reopening, dying *)

AskClose ==
  /\ open /\ ~closing
  /\ closing' = TRUE
  /\ UNCHANGED <<store, writers, callers, report, open, ghost>>

\* Mutant of Readers: CloseTraffic does not wait for the calls in progress.
NoReaders == {}

\* Who holds trafficMu for reading: calls of Record, and the report cycle.
Readers == {c \in Callers : cpc[c] # "idle"} \cup ({cycle} \ {"off"})

\* CloseTraffic, once trafficMu is free.
Close ==
  /\ closing /\ Readers = {}
  /\ closing' = FALSE
  /\ open' = FALSE
  /\ UNCHANGED <<store, writers, callers, report, ghost>>

\* PrepareTraffic
Reopen ==
  /\ ~open /\ ~closing
  /\ open' = TRUE
  /\ UNCHANGED <<store, writers, callers, report, closing, ghost>>

Crash ==
  /\ faults < MaxFaults /\ faults' = faults + 1
  /\ queue' = <<>> /\ writing' = FALSE
  /\ wpc' = [w \in Writers |-> "off"]
  /\ batch' = [w \in Writers |-> <<>>]
  /\ refused' = [w \in Writers |-> {}]
  /\ cpc' = [c \in Callers |-> "idle"]
  /\ call' = [c \in Callers |-> NoRequest]
  /\ EndReport
  /\ open' = FALSE /\ closing' = FALSE
  /\ UNCHANGED <<store, acked, billed, calls>>

-----------------------------------------------------------------------------
Writer(w) == TakeBatch(w) \/ Commit(w) \/ CommitFails(w) \/ Reply(w)

Next ==
  \/ \E c \in Callers :
       \/ \E request \in Requests : Lock(c, request)
       \/ Enqueue(c)
       \/ Return(c)
  \/ \E w \in Writers : Writer(w)
  \/ StartReport \/ CycleStep \/ CycleFails
  \/ AskClose \/ Close \/ Reopen \/ Crash

(***************************************************************************)
(* Goroutines that can run do run, and a cycle that began goes on: the HTTP *)
(* client ends each of its calls by a timeout.  Users, the start of cycles, *)
(* operators and faults are free.                                           *)
(***************************************************************************)
Spec ==
  /\ Init /\ [][Next]_vars
  /\ \A c \in Callers : WF_vars(Enqueue(c)) /\ WF_vars(Return(c))
  /\ \A w \in Writers : WF_vars(Writer(w))
  /\ WF_vars(CycleStep)
  /\ WF_vars(Close)

-----------------------------------------------------------------------------
\* Usage committed for callers that are not answered yet.
Unanswered(k) ==
  IF \E w \in Writers : wpc[w] = "reply"
  THEN LET w == CHOOSE v \in Writers : wpc[v] = "reply"
       IN  Accepted(Asked(w), refused[w])[k]
  ELSE 0

(* A caller that is told its record is kept can forget it: the usage is in the
   counters or on the bill whatever crashes or is reported meanwhile.  Without a
   crash nothing else is: a refused record is not counted. *)
AckedIsKept ==
  \A k \in Keys :
    /\ acked[k] + Unanswered(k) <= totals[k] + billed[k]
    /\ faults = 0 => acked[k] + Unanswered(k) = totals[k] + billed[k]

(* Two writers would answer and commit out of turn: Record starts one only when
   none runs, whatever the moment the last one leaves. *)
OneWriter ==
  /\ \A v, w \in Writers : wpc[v] # "off" /\ wpc[w] # "off" => v = w
  /\ writing <=> \E w \in Writers : wpc[w] # "off"

(* CloseTraffic never closes the file under a record or a report cycle in
   progress. *)
NoCallOnClosedFile ==
  ~open => queue = <<>> /\ cycle = "off" /\ \A c \in Callers : cpc[c] = "idle"

(* No lost wakeup: every call of Record that was queued returns. *)
EveryCallReturns == \A c \in Callers : cpc[c] = "queued" ~> cpc[c] = "idle"

(* CloseTraffic, which keeps new records and cycles out while it waits, gets its
   turn: not one of the records and calls it waits for needs the lock again. *)
CloseCompletes == closing ~> ~closing

=============================================================================
