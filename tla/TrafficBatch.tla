----------------------------- MODULE TrafficBatch -----------------------------
(***************************************************************************)
(* Which accounts the next traffic report carries: the walk of             *)
(* Store.Pending over the totals bucket (src/common/traffic/store.go).     *)
(*                                                                         *)
(* A key of the bucket is a panel UID (8 bytes, big endian) followed by an *)
(* identity, so keys are ordered by UID first.  Keys are numbered in that  *)
(* order; an account is a key whose counter is not zero (Confirm deletes   *)
(* the others).  One number stands for the pair upload/download: the code  *)
(* adds, compares and subtracts the two in the same statements.            *)
(***************************************************************************)
EXTENDS Integers, FiniteSets, Functions

CONSTANTS
  KeyCount,        \* number of (UID, identity) keys
  UidOf,           \* UidOf[k]: the panel UID of key k
  MaxReportUsers,  \* accounts per report (maxReportUsers, 1000 in the code)
  MaxCount         \* largest counter and largest sum of a report (MaxInt64)

Keys == 1..KeyCount

ASSUME BatchAssumption ==
  /\ KeyCount \in Nat \ {0}
  /\ MaxReportUsers \in Nat \ {0}
  /\ MaxCount \in Nat \ {0}
  /\ UidOf \in [Keys -> Nat]
  /\ \A j, k \in Keys : j <= k => UidOf[j] <= UidOf[k]

\* Counters of every key; a key that is absent from the bucket counts 0.
Counts == [Keys -> Nat]
Zero   == [k \in Keys |-> 0]

Plus(f, g)   == [k \in Keys |-> f[k] + g[k]]
Minus(f, g)  == [k \in Keys |-> f[k] - g[k]]
AtMost(f, g) == \A k \in Keys : f[k] <= g[k]

Active(counts) == {k \in Keys : counts[k] > 0}

\* Place of key k in a walk that starts just after the key `last' and wraps to
\* the first key; last = 0 when no report was ever drawn.
Place(last, k) == IF k > last THEN k - last ELSE KeyCount + k - last

\* The accounts met in the first d places of the walk.
Met(counts, last, d) == {k \in Active(counts) : Place(last, k) <= d}

\* Mutant of Fits: two identities of a UID may share a report.
FitsAnyIdentity(counts, S) ==
  /\ Cardinality(S) <= MaxReportUsers
  /\ SumFunctionOnSet(counts, S) <= MaxCount

\* Mutant of Fits: a sum that reaches the largest counter counts as an overflow.
FitsBelowMax(counts, S) ==
  /\ \A j, k \in S : UidOf[j] = UidOf[k] => j = k
  /\ Cardinality(S) <= MaxReportUsers
  /\ SumFunctionOnSet(counts, S) < MaxCount

\* The walk ends before an account that cannot join the report: a second
\* identity of a UID, one account too many, or a sum that would overflow.
Fits(counts, S) ==
  /\ \A j, k \in S : UidOf[j] = UidOf[k] => j = k
  /\ Cardinality(S) <= MaxReportUsers
  /\ SumFunctionOnSet(counts, S) <= MaxCount

\* validateReport, as far as Pending could break it.
Valid(report) ==
  /\ Active(report) # {}
  /\ Cardinality(Active(report)) <= MaxReportUsers
  /\ \A j, k \in Active(report) : UidOf[j] = UidOf[k] => j = k
  /\ SumFunctionOnSet(report, Active(report)) <= MaxCount

\* The accounts of the report: the longest stretch of the walk that fits.
Batch(counts, last) ==
  UNION {S \in {Met(counts, last, d) : d \in Keys} : Fits(counts, S)}

\* The last account of the walk, where the next report resumes.
LastOf(S, last) == CHOOSE k \in S : \A j \in S : Place(last, j) <= Place(last, k)

\* Store.PendingBatches: the accounts, counted in full reports.
BatchesFor(counts) ==
  (Cardinality(Active(counts)) + MaxReportUsers - 1) \div MaxReportUsers

=============================================================================
