---------------------------- MODULE TrafficLedger ----------------------------
(***************************************************************************)
(* The traffic ledger of one node: the counters and reports it keeps in    *)
(* its bbolt file (src/common/traffic/store.go), the report cycle of the   *)
(* controller (APIClient.ReportUserTraffic, src/api/sspanel/traffic.go),   *)
(* and the panel's side of the exchange.                                   *)
(*                                                                         *)
(* Connections record usage at any time; once per update period the cycle  *)
(* draws a report from the counters, writes it to disk, asks the panel how *)
(* far it got, re-sends what the panel lost, then sends the report and     *)
(* subtracts it from the counters.  Requests are abandoned and may still   *)
(* arrive later, answers are lost, the node dies between any two disk      *)
(* transactions, and the panel is restored from backups.                   *)
(*                                                                         *)
(* Simplifications.  Every bbolt transaction is one step (bbolt runs them  *)
(* one at a time and commits them atomically).  A report's random 128-bit  *)
(* id is the next unused number; 0 is the progress the panel had when the  *)
(* file was initialized.  Usage travels as one number per key (see         *)
(* TrafficBatch).  Deferred receipts and their merge loop are left out.    *)
(* The file is the only one the panel ever heard of under this node's id.  *)
(***************************************************************************)
EXTENDS TrafficBatch, Sequences

CONSTANTS
  Amounts,        \* sizes of the recorded usage
  Receipts,       \* receipts the panel may return: TRUE for one that is not empty
  MaxRecoveries,  \* reports re-sent per cycle (100 in the code)
  MaxRecorded,    \* bound of the model: usage recorded in all
  MaxFaults       \* bound of the model: failed calls, crashes and panel restores

ASSUME LedgerAssumption ==
  /\ Amounts \subseteq Nat \ {0}
  /\ Receipts \subseteq BOOLEAN
  /\ MaxRecoveries \in Nat \ {0}
  /\ MaxRecorded \in Nat
  /\ MaxFaults \in Nat

VARIABLES
  (* the bbolt file *)
  initialized,  \* the key "initialized"
  totals,       \* bucket totals: usage not yet confirmed by the panel
  cursor,       \* key "cursor": last account of the last report, 0 if none
  pending,      \* key "pending": the report to send, NoReport if none
  confirmed,    \* key "confirmed": id of the last confirmed report
  history,      \* bucket confirmed_reports: confirmed reports with a receipt
  (* the report cycle, in memory *)
  pc,
  batches,      \* what PendingBatches returned at the start of the cycle
  sent,         \* place of the next report in the sending loop
  progress,     \* the panel's last report, as read by the cycle
  recovered,    \* reports re-sent in this cycle
  outgoing,     \* report of the call in flight
  answer,       \* state of that call
  (* the network and the panel *)
  late,         \* requests the node gave up on that may still arrive
  panel,        \* [progress, billed]: last accepted report, usage billed so far
  backups,      \* states of the panel it can be restored to
  (* history variables: no step of the code reads them *)
  recorded,     \* all usage ever recorded
  chain,        \* chain[i]: usage of report i and of all reports before it
  faults

disk  == <<initialized, totals, cursor, pending, confirmed, history>>
cycle == <<pc, batches, sent, progress, recovered, outgoing, answer>>
net   == <<late, panel, backups>>
ghost == <<recorded, chain, faults>>
vars  == <<disk, cycle, net, ghost>>

Report   == [id : Nat, prev : Nat, data : Counts]
NoReport == [id |-> 0, prev |-> 0, data |-> Zero]
Panel    == [progress : Nat, billed : Counts]

PC == {"closed", "opening", "idle", "draw", "progress", "recover", "recovering",
       "report", "reporting", "next"}
Answer == {"none", "waiting", "rejected", "accepted", "receipted"}

Init ==
  /\ initialized = FALSE
  /\ totals = Zero
  /\ cursor = 0
  /\ pending = NoReport
  /\ confirmed = 0
  /\ history = {}
  /\ pc = "closed"
  /\ batches = 0 /\ sent = 0 /\ progress = 0 /\ recovered = 0
  /\ outgoing = NoReport /\ answer = "none"
  /\ late = {}
  /\ panel = [progress |-> 0, billed |-> Zero]
  /\ backups = {panel}
  /\ recorded = Zero
  /\ chain = <<>>
  /\ faults = 0

-----------------------------------------------------------------------------
(***************************************************************************)
(* Opening the file and recording usage                                    *)
(***************************************************************************)

\* Mutant of FirstConfirmed: every start adopts the panel's progress.
AlwaysAdopt == panel.progress

\* An unused file starts from the progress the panel had when it was asked.
FirstConfirmed == IF initialized THEN confirmed ELSE progress

\* PrepareTraffic asks the panel if the file is unused; if that fails it closes
\* the file again (Crash).
ReadFirstProgress ==
  /\ pc = "closed" /\ ~initialized
  /\ pc' = "opening"
  /\ progress' = panel.progress
  /\ UNCHANGED <<disk, batches, sent, recovered, outgoing, answer, net, ghost>>

\* PrepareTraffic, from Store.Initialize on.
PrepareTraffic ==
  /\ pc = (IF initialized THEN "closed" ELSE "opening")
  /\ pc' = "idle"
  /\ initialized' = TRUE
  /\ confirmed' = FirstConfirmed
  /\ progress' = 0
  /\ UNCHANGED <<totals, cursor, pending, history, batches, sent, recovered,
                 outgoing, answer, net, ghost>>

\* Store.Record: one committed record.  A counter that would overflow refuses
\* the record and changes nothing; TrafficQueue models the writer behind it.
Record(k, amount) ==
  /\ pc \notin {"closed", "opening"}
  /\ totals[k] + amount <= MaxCount
  /\ SumFunctionOnSet(recorded, Keys) + amount <= MaxRecorded
  /\ totals' = [totals EXCEPT ![k] = @ + amount]
  /\ recorded' = [recorded EXCEPT ![k] = @ + amount]
  /\ UNCHANGED <<initialized, cursor, pending, confirmed, history, cycle, net,
                 chain, faults>>

-----------------------------------------------------------------------------
(***************************************************************************)
(* The report cycle                                                        *)
(***************************************************************************)

\* Return from ReportUserTraffic, or die: the memory of the cycle is gone.
Leave(to) ==
  /\ pc' = to
  /\ batches' = 0 /\ sent' = 0 /\ progress' = 0 /\ recovered' = 0
  /\ outgoing' = NoReport /\ answer' = "none"

CountBatches ==
  /\ pc = "idle"
  /\ pc' = "draw"
  /\ batches' = BatchesFor(totals)
  /\ sent' = 1
  /\ UNCHANGED <<disk, progress, recovered, outgoing, answer, net, ghost>>

\* Store.Pending: keep the report already on disk, else draw the next one.
UptoOf(id) == IF id = 0 THEN Zero ELSE chain[id]

NewReport(batch) ==
  [id   |-> Len(chain) + 1,
   prev |-> confirmed,
   data |-> [k \in Keys |-> IF k \in batch THEN totals[k] ELSE 0]]

KeepPending ==
  /\ pending.id # 0 \/ Batch(totals, cursor) = {}
  /\ UNCHANGED <<pending, cursor, chain>>

DrawPending ==
  /\ pending.id = 0
  /\ Batch(totals, cursor) # {}
  /\ pending' = NewReport(Batch(totals, cursor))
  /\ cursor' = LastOf(Batch(totals, cursor), cursor)
  /\ chain' = Append(chain, Plus(UptoOf(confirmed), pending'.data))

Pending ==
  /\ KeepPending \/ DrawPending
  /\ UNCHANGED <<initialized, totals, confirmed, history>>

DrawFirst ==
  /\ pc = "draw"
  /\ Pending
  /\ pc' = "progress"
  /\ UNCHANGED <<batches, sent, progress, recovered, outgoing, answer, net,
                 recorded, faults>>

DrawNext ==
  /\ pc = "next"
  /\ Pending
  /\ IF pending'.id = 0
     THEN Leave("idle")
     ELSE /\ pc' = "report"
          /\ UNCHANGED <<batches, sent, progress, recovered, outgoing, answer>>
  /\ UNCHANGED <<net, recorded, faults>>

\* trafficProgress: what the panel last accepted, at the time it answers.
ReadProgress ==
  /\ pc = "progress"
  /\ pc' = "recover"
  /\ progress' = panel.progress
  /\ UNCHANGED <<disk, batches, sent, recovered, outgoing, answer, net, ghost>>

\* Mutant of Behind: a pending report whose answer was lost looks like a restore.
BehindConfirmed == progress # confirmed

\* The recovery loop runs while the panel is neither at the confirmed report
\* nor at the pending one.
Behind ==
  /\ progress # confirmed
  /\ pending.id = 0 \/ progress # pending.id

SendRecovery ==
  /\ pc = "recover" /\ Behind
  /\ recovered < MaxRecoveries
  /\ \E r \in history :
       /\ r.prev = progress
       /\ outgoing' = r
  /\ pc' = "recovering"
  /\ answer' = "waiting"
  /\ UNCHANGED <<disk, batches, sent, progress, recovered, net, ghost>>

\* Too many reports for one cycle, or the next one was never archived.
AbandonRecovery ==
  /\ pc = "recover" /\ Behind
  /\ recovered = MaxRecoveries \/ ~ \E r \in history : r.prev = progress
  /\ Leave("idle")
  /\ UNCHANGED <<disk, net, ghost>>

FinishRecovery ==
  /\ pc = "recover" /\ ~Behind
  /\ IF pending.id = 0
     THEN Leave("idle")
     ELSE /\ pc' = "report"
          /\ UNCHANGED <<batches, sent, progress, recovered, outgoing, answer>>
  /\ UNCHANGED <<disk, net, ghost>>

TakeRecoveryAnswer ==
  /\ pc = "recovering"
  /\ answer \in {"accepted", "receipted"}
  /\ pc' = "recover"
  /\ progress' = outgoing.id
  /\ recovered' = recovered + 1
  /\ outgoing' = NoReport
  /\ answer' = "none"
  /\ UNCHANGED <<disk, batches, sent, net, ghost>>

\* Mutant of Outgoing: the report follows whatever the panel is at.
OutgoingRebased == [pending EXCEPT !.prev = progress]

Outgoing == pending

SendReport ==
  /\ pc = "report"
  /\ pc' = "reporting"
  /\ outgoing' = Outgoing
  /\ answer' = "waiting"
  /\ UNCHANGED <<disk, batches, sent, progress, recovered, net, ghost>>

TakeRejection ==
  /\ pc \in {"recovering", "reporting"}
  /\ answer = "rejected"
  /\ Leave("idle")
  /\ UNCHANGED <<disk, net, ghost>>

\* Store.Confirm, refused unless the answer is about the pending report and the
\* counters cover it; PendingCovered says it never is.
Confirmable(r) ==
  /\ pending.id = r.id
  /\ pending.prev = confirmed
  /\ AtMost(pending.data, totals)

\* Mutants of Archive: the counters are archived instead of the report; only the
\* last report is kept.
ArchiveTotals(receipt) ==
  history' = {r \in history : r.prev # pending.prev}
               \cup {[pending EXCEPT !.data = totals]}
ArchiveLast(receipt) == history' = {pending}

Archive(receipt) ==
  history' = IF receipt
             THEN {r \in history : r.prev # pending.prev} \cup {pending}
             ELSE history

\* Mutants of Subtract: the accounts of the report are cleared with what came in
\* since; the report is subtracted twice.
SubtractAll ==
  totals' = [k \in Keys |-> IF pending.data[k] > 0 THEN 0 ELSE totals[k]]
SubtractTwice == totals' = Minus(totals, Plus(pending.data, pending.data))

Subtract == totals' = Minus(totals, pending.data)

\* Mutant of Confirmed: any answer will do.
ConfirmedByAnything == answer \in {"rejected", "accepted", "receipted"}

\* sendTrafficReport returned no error: the answer names the report.
Confirmed == answer \in {"accepted", "receipted"}

ConfirmReport ==
  /\ pc = "reporting"
  /\ Confirmed
  /\ Confirmable(outgoing)
  /\ Archive(answer = "receipted")
  /\ Subtract
  /\ confirmed' = pending.id
  /\ pending' = NoReport
  /\ IF sent >= batches
     THEN Leave("idle")
     ELSE /\ pc' = "next"
          /\ sent' = sent + 1
          /\ outgoing' = NoReport
          /\ answer' = "none"
          /\ UNCHANGED <<batches, progress, recovered>>
  /\ UNCHANGED <<initialized, cursor, net, ghost>>

-----------------------------------------------------------------------------
(***************************************************************************)
(* The panel (external), as the client relies on it: it accepts a report   *)
(* that follows its progress, confirms again the report it is at, and      *)
(* refuses any other.                                                      *)
(***************************************************************************)

Follows(r)  == r.prev = panel.progress
Repeated(r) == r.id = panel.progress

AcceptedBy(r) == [progress |-> r.id, billed |-> Plus(panel.billed, r.data)]

Process(r) ==
  IF Follows(r)
  THEN /\ panel' = AcceptedBy(r)
       /\ backups' = backups \cup {AcceptedBy(r)}
  ELSE UNCHANGED <<panel, backups>>

PanelServes ==
  /\ answer = "waiting"
  /\ Process(outgoing)
  /\ \/ /\ Follows(outgoing) \/ Repeated(outgoing)
        /\ \E receipt \in Receipts :
             answer' = IF receipt THEN "receipted" ELSE "accepted"
     \/ /\ ~Follows(outgoing) /\ ~Repeated(outgoing)
        /\ answer' = "rejected"
  /\ UNCHANGED <<disk, pc, batches, sent, progress, recovered, outgoing, late, ghost>>

PanelServesLate(r) ==
  /\ Process(r)
  /\ late' = late \ {r}
  /\ UNCHANGED <<disk, cycle, ghost>>

-----------------------------------------------------------------------------
(***************************************************************************)
(* Faults                                                                  *)
(***************************************************************************)

Fault == faults < MaxFaults /\ faults' = faults + 1

\* The request in flight is given up: it may be lost, or arrive much later.
GiveUp == late' = IF answer = "waiting" THEN late \cup {outgoing} ELSE late

\* A call or a disk transaction fails and ReportUserTraffic returns its error;
\* an answer already on its way is lost.
CycleFails ==
  /\ pc \notin {"closed", "opening", "idle"}
  /\ Fault
  /\ Leave("idle")
  /\ GiveUp
  /\ UNCHANGED <<disk, panel, backups, recorded, chain>>

\* The process dies, closes the file between two cycles (CloseTraffic) or fails to
\* open it (PrepareTraffic).
Crash ==
  /\ pc # "closed"
  /\ Fault
  /\ Leave("closed")
  /\ GiveUp
  /\ UNCHANGED <<disk, panel, backups, recorded, chain>>

RestorePanel ==
  /\ Fault
  /\ panel' \in backups \ {panel}
  /\ UNCHANGED <<disk, cycle, late, backups, recorded, chain>>

-----------------------------------------------------------------------------
CycleStep ==
  \/ ReadFirstProgress \/ PrepareTraffic
  \/ CountBatches \/ DrawFirst \/ ReadProgress
  \/ SendRecovery \/ AbandonRecovery \/ TakeRecoveryAnswer \/ FinishRecovery
  \/ SendReport \/ TakeRejection \/ ConfirmReport \/ DrawNext

Next ==
  \/ CycleStep
  \/ \E k \in Keys, amount \in Amounts : Record(k, amount)
  \/ PanelServes
  \/ \E r \in late : PanelServesLate(r)
  \/ CycleFails \/ Crash \/ RestorePanel

Spec == Init /\ [][Next]_vars

(***************************************************************************)
(* The update period starts one cycle after another, a started cycle runs  *)
(* on, and the panel answers; nothing makes users record or faults happen. *)
(***************************************************************************)
FairSpec == Spec /\ WF_vars(CycleStep) /\ WF_vars(PanelServes)

-----------------------------------------------------------------------------
TypeOK ==
  /\ initialized \in BOOLEAN
  /\ totals \in Counts
  /\ cursor \in 0..KeyCount
  /\ pending \in Report
  /\ confirmed \in Nat
  /\ history \subseteq Report
  /\ pc \in PC
  /\ batches \in Nat /\ sent \in Nat /\ progress \in Nat /\ recovered \in Nat
  /\ outgoing \in Report
  /\ answer \in Answer
  /\ late \subseteq Report
  /\ panel \in Panel
  /\ backups \subseteq Panel
  /\ recorded \in Counts
  /\ chain \in Seq(Counts)
  /\ faults \in Nat

(* The bill and the counters account for all usage whenever the panel is at
   the report the node confirmed last or at the one it is about to confirm: a
   lost answer, a crash between the answer and Store.Confirm, a late request or
   a restored panel neither loses usage nor bills it twice. *)
BillingBalance ==
  /\ panel.progress = confirmed
       => recorded = Plus(panel.billed, totals)
  /\ pending.id # 0 /\ panel.progress = pending.id
       => Plus(recorded, pending.data) = Plus(panel.billed, totals)

(* Store.Confirm never refuses: usage recorded while a report is on its way and
   any number of restarts leave the pending report covered by the counters, in
   place after the confirmed one, and equal to the report in flight. *)
PendingCovered ==
  /\ pending.id # 0 => pending.prev = confirmed /\ AtMost(pending.data, totals)
  /\ pc = "reporting" => Confirmable(outgoing)

(* Store.RecoverAfter hands out only reports that lead the panel, from where a
   restore left it, back to a bill it had reached before. *)
ArchiveSound ==
  \A r \in history :
    \E b \in backups :
      /\ b.progress = r.prev
      /\ [progress |-> r.id, billed |-> Plus(b.billed, r.data)] \in backups

(* If the panel always returns a receipt, the node can bring back every state
   the panel may be restored to: it is at the confirmed or the pending report,
   or the report that follows it is archived. *)
ReplayComplete ==
  Receipts = {TRUE} =>
    \A b \in backups :
      \/ b.progress = confirmed
      \/ pending.id # 0 /\ b.progress = pending.id
      \/ \E r \in history : r.prev = b.progress

(* A step subtracts usage from the counters only for the pending report, and
   only if the panel had billed that very report. *)
ForgetsOnlyBilled ==
  [][ totals' # totals /\ recorded' = recorded
        => /\ totals' = Minus(totals, pending.data)
           /\ \E b \in backups : /\ b.progress = pending.id
                                 /\ b.billed = chain[pending.id] ]_vars

(* The ledger implements the abstract promise: owed usage is what was recorded
   and is not on the panel's bill. *)
Billing == INSTANCE TrafficBilling WITH
  owed      <- Minus(recorded, panel.billed),
  billed    <- panel.billed,
  forgotten <- Minus(recorded, totals),
  snapshots <- {b.billed : b \in backups}

ImplementsBilling == Billing!Spec

(* Reports on disk pass validateReport, or Store.Pending, Store.Confirm and
   Store.RecoverAfter would refuse them in every later cycle: one identity per
   UID, not more accounts than the panel takes, no sum that overflows. *)
ReportIsValid ==
  /\ pending.id # 0 => Valid(pending.data)
  /\ \A r \in history : Valid(r.data)

(* No account waits for ever, however often the cycle fails or the node restarts:
   each report takes an account or stops nearer to it than the one before, the
   walk stays where it is between two reports, and it finds nothing only when
   there is nothing, so no account is too large to be the first of a report. *)
InTurn ==
  [][ /\ pending.id = 0 /\ pending'.id # 0 =>
           \A k \in Active(totals) :
             pending'.data[k] = totals[k] \/ Place(cursor', k) < Place(cursor, k)
      /\ cursor' # cursor => pending.id = 0 /\ pending'.id # 0
      /\ pending.id = 0 /\ (DrawFirst \/ DrawNext) =>
           pending'.id # 0 \/ Active(totals) = {} ]_vars

\* The place of the report cycle as TrafficRotation sees it: a cycle without a
\* report of its own only brings the panel up to date.
Stage ==
  IF pc \in {"draw", "next"} THEN "draw"
  ELSE IF pending.id = 0 \/ pc \in {"closed", "opening", "idle"} THEN "idle"
  ELSE "report"

(* The ledger takes the steps of TrafficRotation, where every account gets its
   turn: recovery, restarts and lost answers fail a cycle or change nothing. *)
Rotation == INSTANCE TrafficRotation WITH
  pending <- pending.data,
  pc      <- Stage,
  batches <- IF Stage = "idle" THEN 0 ELSE batches,
  sent    <- IF Stage = "idle" THEN 0 ELSE sent

ImplementsRotation == Rotation!Safety

(* Once users stop and faults stop, the panel's bill becomes and stays equal to
   all recorded usage: cycles get past lost answers, restores and the limit on
   recoveries per cycle, and no account is left out by the walk. *)
AllUsageBilled == <>[](panel.billed = recorded)

-----------------------------------------------------------------------------
(***************************************************************************)
(* Why the properties hold.  The reports of a node form one chain: each    *)
(* follows the one before it, and chain[i] is the bill a panel has that    *)
(* accepted reports 1..i.  Everything the code keeps is a place on it.     *)
(***************************************************************************)
Linked(r) ==
  /\ r.id \in 1..Len(chain)
  /\ r.prev = r.id - 1
  /\ chain[r.id] = Plus(UptoOf(r.prev), r.data)

\* Some state the panel was in had accepted report id.
Reached(id) == \E b \in backups : b.progress = id

\* Every report in the node's hands is linked, the pending one is the last of
\* the chain, and the counters hold what the confirmed part of it does not.
NodeOnChain ==
  /\ pending.id = 0 => confirmed = Len(chain)
  /\ pending.id # 0 => /\ Linked(pending)
                       /\ pending.id = Len(chain)
                       /\ pending.prev = confirmed
                       /\ AtMost(pending.data, totals)
  /\ \A r \in history : Linked(r) /\ Reached(r.id)
  /\ ~initialized => chain = <<>> /\ pc \in {"closed", "opening"}
  /\ pc = "opening" => ~initialized /\ progress = 0
  /\ recorded = Plus(totals, UptoOf(confirmed))

\* The panel is at a place of the chain, and was at all places before it.
PanelOnChain ==
  /\ panel \in backups
  /\ \A r \in late : Linked(r)
  /\ \A b \in backups :
       /\ b.progress \in 0..Len(chain)
       /\ b.billed = UptoOf(b.progress)
       /\ b.progress # 0 => Reached(b.progress - 1)

\* Bills grow along the chain.
ChainGrows == \A i \in 0..Len(chain) : AtMost(UptoOf(i), UptoOf(Len(chain)))

\* A call is under way exactly where the cycle waits for one.
CallOnChain ==
  /\ answer # "none" => pc \in {"recovering", "reporting"}
  /\ pc = "recovering" => Linked(outgoing)
  /\ pc = "reporting" => outgoing = pending
  /\ pc \in {"report", "reporting"} => pending.id # 0
  /\ answer \in {"accepted", "receipted"} => Reached(outgoing.id)

\* No receipt is missing from the archive if the panel always sends one.
ArchiveFull ==
  Receipts = {TRUE} =>
    /\ answer # "accepted"
    /\ \A i \in 0..(confirmed - 1) : \E r \in history : r.prev = i

(* The inductive invariant: node, call, network and panel are on one chain.  A
   report that does not follow the one before it, or counters that lost usage
   while a report was on its way, would leave it. *)
OneChain ==
  /\ TypeOK
  /\ NodeOnChain
  /\ PanelOnChain
  /\ ChainGrows
  /\ CallOnChain
  /\ ArchiveFull

=============================================================================
