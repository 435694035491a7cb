--------------------------- MODULE TrafficRotation ---------------------------
(***************************************************************************)
(* Which accounts get reported when users never stop: the report cycle of  *)
(* APIClient.ReportUserTraffic (src/api/sspanel/traffic.go) seen from the  *)
(* counters, with the panel reduced to "accepts" or "the cycle fails".     *)
(* TrafficLedger checks what is billed and implements the steps of this    *)
(* module; this module checks whose turn it is, with usage recorded for    *)
(* ever, which TrafficLedger has to bound.                                 *)
(***************************************************************************)
EXTENDS TrafficBatch

VARIABLES
  totals,   \* bucket totals
  cursor,   \* key "cursor"
  pending,  \* usage of the report on disk, Zero when there is none
  pc, batches, sent

vars == <<totals, cursor, pending, pc, batches, sent>>

TypeOK ==
  /\ totals \in [Keys -> 0..MaxCount]
  /\ cursor \in 0..KeyCount
  /\ pending \in [Keys -> 0..MaxCount]
  /\ pc \in {"idle", "draw", "report"}
  /\ batches \in 0..KeyCount
  /\ sent \in 0..KeyCount + 1

Init ==
  /\ totals = Zero
  /\ cursor = 0
  /\ pending = Zero
  /\ pc = "idle" /\ batches = 0 /\ sent = 0

\* Store.Record: a record that would overflow the counter is refused.
Record(k) ==
  /\ \E amount \in 1..(MaxCount - totals[k]) :
       totals' = [totals EXCEPT ![k] = @ + amount]
  /\ UNCHANGED <<cursor, pending, pc, batches, sent>>

StartCycle ==
  /\ pc = "idle"
  /\ pc' = "draw"
  /\ batches' = BatchesFor(totals)
  /\ sent' = 1
  /\ UNCHANGED <<totals, cursor, pending>>

EndCycle == pc' = "idle" /\ batches' = 0 /\ sent' = 0

NothingToReport ==
  /\ pc = "draw"
  /\ pending = Zero
  /\ Batch(totals, cursor) = {}
  /\ EndCycle
  /\ UNCHANGED <<totals, cursor, pending>>

\* Mutant of Resume: the cursor is not stored with the report.
ResumeAtFirst(batch) == cursor' = cursor

\* Store.Pending stores the last account of the walk with the report.
Resume(batch) == cursor' = LastOf(batch, cursor)

Draw ==
  /\ pc = "draw"
  /\ pc' = "report"
  /\ IF pending # Zero
     THEN UNCHANGED <<pending, cursor>>
     ELSE LET batch == Batch(totals, cursor)
          IN  /\ batch # {}
              /\ pending' = [k \in Keys |-> IF k \in batch THEN totals[k] ELSE 0]
              /\ Resume(batch)
  /\ UNCHANGED <<totals, batches, sent>>

\* The panel accepted the report; Store.Confirm subtracts it, and the loop goes
\* on until as many reports are sent as PendingBatches announced.
Confirm ==
  /\ pc = "report"
  /\ totals' = Minus(totals, pending)
  /\ pending' = Zero
  /\ IF sent >= batches
     THEN EndCycle
     ELSE pc' = "draw" /\ sent' = sent + 1 /\ UNCHANGED batches
  /\ UNCHANGED cursor

\* Any error of the cycle; the report stays on disk.
CycleFails ==
  /\ pc # "idle"
  /\ EndCycle
  /\ UNCHANGED <<totals, cursor, pending>>

CycleStep == StartCycle \/ NothingToReport \/ Draw \/ Confirm

Next == CycleStep \/ CycleFails \/ \E k \in Keys : Record(k)

Safety == Init /\ [][Next]_vars

(***************************************************************************)
(* The update period starts cycles for ever; of the cycles that are        *)
(* started again and again, some draw their report and some of the reports *)
(* sent are accepted.                                                      *)
(***************************************************************************)
Spec ==
  Safety /\ WF_vars(CycleStep) /\ SF_vars(Draw) /\ SF_vars(Confirm)

-----------------------------------------------------------------------------
(* No account starves: usage that is waiting gets into a report, however fast
   the other accounts grow, whether or not its UID has several identities, and
   however often cycles fail in between. *)
EveryAccountReported ==
  \A k \in Keys : (totals[k] > 0) ~> (pending[k] > 0)

=============================================================================
