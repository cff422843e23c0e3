------------------------ MODULE NotificationDispatch ------------------------
(***************************************************************************)
(* dispatch_pending() run by several dispatchers at once: the jobs         *)
(* alert-evaluate, alert-notification-dispatch, alert-escalation-check and *)
(* alert-recovery-notification all call it on the whole                    *)
(* notification_deliveries table, each in a transaction of its own.        *)
(*                                                                         *)
(* A dispatcher reads the rows that are due, sends them one by one while   *)
(* it changes its own copies, and writes what it changed when it commits.  *)
(* The table has no version column and the session is not serialisable:    *)
(* the commit overwrites, column by column, whatever another dispatcher    *)
(* committed meanwhile.  A crash loses the copies, not what was sent.      *)
(***************************************************************************)
EXTENDS DeliveryRows, FiniteSets

CONSTANTS
  Rows,          \* the rows the table may come to hold
  Alerts,
  AlertOf,       \* [Rows -> Alerts]
  TypeOf,        \* [Rows -> NotificationTypes]
  Dispatchers,   \* processes that may run dispatch_pending() at one time
  Nobody,
  Limit,         \* dispatch_pending's limit
  MaxMishaps     \* bound: crashes, rollbacks and answers that came too late

ASSUME ConfigurationAssumption ==
  /\ AlertOf \in [Rows -> Alerts]
  /\ TypeOf \in [Rows -> NotificationTypes]
  /\ Limit \in Nat \ {0} /\ MaxMishaps \in Nat
  /\ Nobody \notin Rows
  /\ IsFiniteSet(Dispatchers)

VARIABLES
  row,        \* the committed table
  status,     \* the committed alert statuses
  enabled,    \* rows whose destination is enabled
  messages,   \* how many messages the destination of a row accepted
  mishaps,
  shared,     \* how often a dispatcher read a row that another one held
  batch,      \* rows a dispatcher still has to deliver
  loaded,     \* the rows as a dispatcher read them; NoRow: not read
  copy,       \* the dispatcher's own copies
  sending     \* the row whose provider call is under way

table == <<row, status, enabled>>
session == <<batch, loaded, copy, sending>>
vars == <<row, status, enabled, messages, mishaps, shared, batch, loaded, copy, sending>>

AlertStatuses == ActiveStatuses \cup {"RESOLVED"}

NothingRead == [r \in Rows |-> NoRow]

TypeOK ==
  /\ row \in [Rows -> Row]
  /\ status \in [Alerts -> AlertStatuses]
  /\ enabled \subseteq Rows
  /\ messages \in [Rows -> Nat]
  /\ mishaps \in 0..MaxMishaps
  /\ shared \in [Rows -> Nat]
  /\ batch \in [Dispatchers -> SUBSET Rows]
  /\ loaded \in [Dispatchers -> [Rows -> Row]]
  /\ copy \in [Dispatchers -> [Rows -> Row]]
  /\ sending \in [Dispatchers -> Rows \cup {Nobody}]

Init ==
  /\ row = NothingRead
  /\ status = [a \in Alerts |-> "OPEN"]
  /\ enabled = Rows
  /\ messages = [r \in Rows |-> 0]
  /\ mishaps = 0
  /\ shared = [r \in Rows |-> 0]
  /\ batch = [w \in Dispatchers |-> {}]
  /\ loaded = [w \in Dispatchers |-> NothingRead]
  /\ copy = [w \in Dispatchers |-> NothingRead]
  /\ sending = [w \in Dispatchers |-> Nobody]

-----------------------------------------------------------------------------
(* One dispatcher.                                                         *)

IsOpen(w) == loaded[w] # NothingRead
Held(r) == \E w \in Dispatchers : loaded[w][r] # NoRow
Due == {r \in Rows : IsDispatchable(row[r])}

(* The rows with the fewest attempts, at most Limit of them.               *)
IsBatch(B) ==
  /\ B \subseteq Due
  /\ Cardinality(B) = IF Cardinality(Due) <= Limit THEN Cardinality(Due) ELSE Limit
  /\ \A r \in B, s \in Due \ B : row[r].attempt <= row[s].attempt

(* The query of dispatch_pending().                                        *)
Begin(w) ==
  /\ ~IsOpen(w) /\ Due # {}
  /\ \E B \in SUBSET Due :
       /\ IsBatch(B)
       /\ batch' = [batch EXCEPT ![w] = B]
       /\ loaded' = [loaded EXCEPT ![w] = [r \in Rows |-> IF r \in B THEN row[r] ELSE NoRow]]
       /\ copy' = [copy EXCEPT ![w] = loaded'[w]]
       /\ shared' = [r \in Rows |-> IF r \in B /\ Held(r) THEN shared[r] + 1 ELSE shared[r]]
  /\ UNCHANGED <<table, messages, mishaps, sending>>

IsNextOf(w, r) ==
  /\ sending[w] = Nobody
  /\ r \in batch[w]
  /\ \A s \in batch[w] : loaded[w][r].attempt <= loaded[w][s].attempt

Calls(r) == CallsProvider(status[AlertOf[r]], TypeOf[r], r \in enabled)

Attempted(w, r, outcome) ==
  Deliver(loaded[w][r], TypeOf[r], status[AlertOf[r]], r \in enabled, outcome)

(* deliver() returns early: the destination is disabled or the alert is no *)
(* longer notifiable.                                                      *)
Drop(w, r) ==
  /\ IsNextOf(w, r) /\ ~Calls(r)
  /\ copy' = [copy EXCEPT ![w][r] = Attempted(w, r, "accepted")]
  /\ batch' = [batch EXCEPT ![w] = @ \ {r}]
  /\ UNCHANGED <<table, messages, mishaps, shared, loaded, sending>>

(* The alert and the destination were read and the provider is called.     *)
Call(w, r) ==
  /\ IsNextOf(w, r) /\ Calls(r)
  /\ sending' = [sending EXCEPT ![w] = r]
  /\ UNCHANGED <<table, messages, mishaps, shared, batch, loaded, copy>>

(* The call returns or raises.  The row was notifiable when it was read,   *)
(* whatever the alert is now.                                              *)
Return(w, r, outcome) ==
  /\ sending[w] = r
  /\ copy' = [copy EXCEPT ![w][r] = Deliver(loaded[w][r], TypeOf[r], "OPEN", TRUE, outcome)]
  /\ batch' = [batch EXCEPT ![w] = @ \ {r}]
  /\ sending' = [sending EXCEPT ![w] = Nobody]

(* Mutant of Answer: a permanent error of the provider is swallowed.       *)
AnswerSwallowed(w, r, outcome) ==
  /\ Return(w, r, IF outcome = "permanent" THEN "accepted" ELSE outcome)
  /\ messages' = IF outcome = "accepted" THEN [messages EXCEPT ![r] = @ + 1] ELSE messages
  /\ UNCHANGED <<table, mishaps, shared, loaded>>

(* Mutant of Answer: an accepted message counts as a temporary failure.    *)
AnswerForgotten(w, r, outcome) ==
  /\ Return(w, r, IF outcome = "accepted" THEN "temporary" ELSE outcome)
  /\ messages' = IF outcome = "accepted" THEN [messages EXCEPT ![r] = @ + 1] ELSE messages
  /\ UNCHANGED <<table, mishaps, shared, loaded>>

Answer(w, r, outcome) ==
  /\ Return(w, r, outcome)
  /\ messages' = IF outcome = "accepted" THEN [messages EXCEPT ![r] = @ + 1] ELSE messages
  /\ UNCHANGED <<table, mishaps, shared, loaded>>

(* The destination accepted the message and its answer came too late: a    *)
(* TimeoutError is a temporary failure.                                    *)
AnswerTooLate(w, r) ==
  /\ Return(w, r, "temporary")
  /\ messages' = [messages EXCEPT ![r] = @ + 1]
  /\ mishaps < MaxMishaps /\ mishaps' = mishaps + 1
  /\ UNCHANGED <<table, shared, loaded>>

(* The UPDATE of a row sets the columns that differ from what was read.    *)
Written(now, before, after) ==
  [status  |-> IF after.status # before.status THEN after.status ELSE now.status,
   attempt |-> IF after.attempt # before.attempt THEN after.attempt ELSE now.attempt,
   waiting |-> IF after.waiting # before.waiting THEN after.waiting ELSE now.waiting]

Close(w) ==
  /\ batch' = [batch EXCEPT ![w] = {}]
  /\ loaded' = [loaded EXCEPT ![w] = NothingRead]
  /\ copy' = [copy EXCEPT ![w] = NothingRead]
  /\ sending' = [sending EXCEPT ![w] = Nobody]

Commit(w) ==
  /\ IsOpen(w) /\ batch[w] = {}
  /\ row' = [r \in Rows |-> IF loaded[w][r] = NoRow THEN row[r]
                            ELSE Written(row[r], loaded[w][r], copy[w][r])]
  /\ Close(w)
  /\ UNCHANGED <<status, enabled, messages, mishaps, shared>>

(* The process dies, or the job fails and rolls back.                      *)
Crash(w) ==
  /\ IsOpen(w)
  /\ Close(w)
  /\ mishaps < MaxMishaps /\ mishaps' = mishaps + 1
  /\ UNCHANGED <<table, messages, shared>>

-----------------------------------------------------------------------------
(* Everybody else.                                                         *)

(* A handler commits a row that _queue_deliveries() inserted.              *)
Queue(r) ==
  /\ row[r] = NoRow
  /\ row' = [row EXCEPT ![r] = NewRow]
  /\ UNCHANGED <<status, enabled, messages, mishaps, shared, session>>

RetryTimeComes(r) ==
  /\ row[r].waiting
  /\ row' = [row EXCEPT ![r].waiting = FALSE]
  /\ UNCHANGED <<status, enabled, messages, mishaps, shared, session>>

(* The alert is acknowledged, suppressed, resolved or opened again.        *)
ChangeAlert(a, s) ==
  /\ status' = [status EXCEPT ![a] = s]
  /\ UNCHANGED <<row, enabled, messages, mishaps, shared, session>>

EditDestination(r) ==
  /\ enabled' = IF r \in enabled THEN enabled \ {r} ELSE enabled \cup {r}
  /\ UNCHANGED <<row, status, messages, mishaps, shared, session>>

-----------------------------------------------------------------------------
Dispatch(w) ==
  \/ Begin(w) \/ Commit(w)
  \/ \E r \in Rows : Drop(w, r) \/ Call(w, r) \/ \E outcome \in Outcomes : Answer(w, r, outcome)

Mishap(w) == Crash(w) \/ \E r \in Rows : AnswerTooLate(w, r)

Next ==
  \/ \E w \in Dispatchers : Dispatch(w) \/ Mishap(w)
  \/ \E r \in Rows : Queue(r) \/ RetryTimeComes(r) \/ EditDestination(r)
  \/ \E a \in Alerts, s \in AlertStatuses : ChangeAlert(a, s)

Spec == Init /\ [][Next]_vars

(* Beat starts the dispatching jobs again and again, a provider call ends  *)
(* (it has a timeout), and time goes on.                                   *)
FairSpec ==
  /\ Spec
  /\ \A w \in Dispatchers : WF_vars(Dispatch(w))
  /\ \A r \in Rows : WF_vars(RetryTimeComes(r))

-----------------------------------------------------------------------------
(* A row is marked SENT only if its destination accepted a message, however *)
(* the commits of several dispatchers overwrite each other.                *)
SentWasAccepted ==
  \A r \in Rows : row[r].status = "SENT" => messages[r] > 0

(* Although a commit writes single columns, no mixture of two commits      *)
(* leaves a row that would be retried beyond the schedule, or one that     *)
(* looks untried and was tried.                                            *)
MixedRowsKeepBudget ==
  \A r \in Rows :
    /\ row[r].attempt <= MaxRetries + 1
    /\ row[r].status = "RETRY" => row[r].attempt \in 1..MaxRetries
    /\ row[r].status = "PENDING" => row[r].attempt = 0

Settled(r) == row[r].status \in {"SENT", "FAILED", "SKIPPED"}

(* A settled row that no dispatcher holds an earlier reading of is settled *)
(* for good: it is never read, told or changed again.  Only a commit of an *)
(* older reading can revive a settled row.                                 *)
SettledStaysSettled ==
  [][\A r \in Rows :
       Settled(r) /\ ~Held(r) =>
         /\ Settled(r)' /\ ~Held(r)'
         /\ messages'[r] = messages[r]]_vars

(* A message goes out again only for a crash, a rollback or a late answer, *)
(* or because a dispatcher read the row while another one held it: each of *)
(* them costs at most one, whatever the stale commits then bring back.     *)
RepeatsAreExplained ==
  \A r \in Rows : messages[r] <= 1 + mishaps + shared[r]

(* Every queued row is settled in the end: stale commits cannot move a row *)
(* back for ever, and a crash costs only what the open transaction did.    *)
EveryRowSettles ==
  \A r \in Rows : row[r].status \in PendingStatuses ~> Settled(r)

(* What the table says of a notification, in the words of DeliveryLedger.  *)
EntryOf(s) == CASE s = "NONE"                          -> "none"
                [] s \in PendingStatuses               -> "queued"
                [] s = "SENT"                          -> "told"
                [] OTHER                               -> "dropped"

Entry == [r \in Rows |-> EntryOf(row[r].status)]
Holding == [w \in Dispatchers |-> {r \in Rows : loaded[w][r] # NoRow}]
Sent == [w \in Dispatchers |-> {r \in Holding[w] \ batch[w] : copy[w][r].status = "SENT"}]

(* What the dispatchers do to the table, together, is what DeliveryLedger  *)
(* promises: only rows of the queue are read, a row is told at most once   *)
(* for a reading of it, nothing is written before everything read has been *)
(* attempted, what was accepted is written as SENT over whatever another   *)
(* dispatcher wrote, and nothing else is.                                  *)
Ledger == INSTANCE DeliveryLedger WITH
  entry <- Entry, Transactions <- Dispatchers,
  open <- Holding, untried <- batch, told <- Sent

ImplementsLedger == Ledger!Spec
=============================================================================
