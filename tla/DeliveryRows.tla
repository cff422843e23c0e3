---------------------------- MODULE DeliveryRows ----------------------------
(***************************************************************************)
(* The rows of the notification_deliveries table and what one delivery     *)
(* attempt does to a row: the vocabulary that the modules about alert      *)
(* notifications share.                                                    *)
(*                                                                         *)
(* A row keeps its status, its attempt counter and, in place of the        *)
(* timestamp next_retry_at, the flag `waiting`: next_retry_at lies in the  *)
(* future.                                                                 *)
(***************************************************************************)
EXTENDS Naturals

CONSTANT MaxRetries   \* length of retry_schedule(); 3 in the default settings

ASSUME MaxRetriesAssumption == MaxRetries \in Nat

NotificationTypes == {"initial", "repeat", "escalation", "recovery"}

ActiveStatuses == {"OPEN", "ACKNOWLEDGED", "SUPPRESSED"}

(* "NONE": no row.  The other five are the members of DeliveryStatus.      *)
DeliveryStatuses == {"NONE", "PENDING", "SENT", "RETRY", "FAILED", "SKIPPED"}

PendingStatuses == {"PENDING", "RETRY"}
LiveStatuses    == {"SENT", "PENDING", "RETRY"}

Row == [status : DeliveryStatuses, attempt : Nat, waiting : BOOLEAN]

NoRow  == [status |-> "NONE",    attempt |-> 0, waiting |-> FALSE]

NewRow == [status |-> "PENDING", attempt |-> 0, waiting |-> FALSE]

(* What a provider does with a message, by the class classify_error gives  *)
(* to its exception: TEMPORARY_FAILURE and RATE_LIMIT are retried, the     *)
(* other classes are not.                                                  *)
Outcomes == {"accepted", "temporary", "permanent"}

(* Mutants of IsDispatchable: the query forgets RETRY, or takes up FAILED. *)
IsDispatchableOnce(row) == row.status = "PENDING"
IsDispatchableFailed(row) == row.status \in PendingStatuses \cup {"FAILED"} /\ ~row.waiting

(* dispatch_pending selects a row that is PENDING or RETRY and skips it    *)
(* while its retry time has not come.                                      *)
IsDispatchable(row) == row.status \in PendingStatuses /\ ~row.waiting

(* Mutant of IsNotifiable: deliver() forgets SUPPRESSED.                   *)
IsNotifiableSuppressed(status, type) == status \in ActiveStatuses \/ type = "recovery"

(* deliver() stops sending once the alert is resolved or suppressed, except *)
(* that a recovery notification is always sent.                            *)
IsNotifiable(status, type) ==
  status \in {"OPEN", "ACKNOWLEDGED"} \/ type = "recovery"

(* The provider is called at all: otherwise deliver() returned early.      *)
CallsProvider(status, type, enabled) == enabled /\ IsNotifiable(status, type)

(* Mutant of MayRetry: the comparison is off by one.                       *)
MayRetryOnceMore(outcome, n) == outcome = "temporary" /\ n <= MaxRetries + 1

(* After the n-th attempt failed there is a delay left in the schedule.    *)
MayRetry(outcome, n) == outcome = "temporary" /\ n <= MaxRetries

(* deliver(): one attempt at `row`, a notification of kind `type` for an   *)
(* alert in `status`, to a destination that is `enabled` or not and whose  *)
(* provider answers with `outcome`.                                        *)
Deliver(row, type, status, enabled, outcome) ==
  LET n == row.attempt + 1
      as(result) == [status |-> result, attempt |-> n, waiting |-> result = "RETRY"]
  IN  CASE ~enabled                       -> as("FAILED")
        [] enabled /\ ~CallsProvider(status, type, enabled) -> as("SKIPPED")
        [] CallsProvider(status, type, enabled) /\ outcome = "accepted" -> as("SENT")
        [] CallsProvider(status, type, enabled) /\ MayRetry(outcome, n)   -> as("RETRY")
        [] OTHER                          -> as("FAILED")
=============================================================================
