--------------------------- MODULE AlertLifecycle ---------------------------
(***************************************************************************)
(* The unified alerting component (app/alerting, app/notifications): the   *)
(* alerts table, the notification_deliveries table, suppressions and       *)
(* maintenance windows, and every operation that changes them.  An action  *)
(* is one handler run as one database transaction, and transactions follow *)
(* one another.  In the deployment they overlap.  That is the subject of   *)
(* NotificationDispatch (several that deliver one row), EscalationJobs     *)
(* (several that run run_escalation()) and AlertSessions (several that     *)
(* raise, resolve, acknowledge or suppress one fault).                     *)
(*                                                                         *)
(* Time is kept as what the handlers compare: the age of an alert in       *)
(* abstract units, whether the repeat period has passed since the last     *)
(* sent notification, whether a retry time or the end of a suppression has *)
(* come.                                                                   *)
(***************************************************************************)
EXTENDS DeliveryRows, FiniteSets

CONSTANTS
  Fingerprints,   \* what fingerprint() tells apart
  Sources,        \* what a suppression row matches: source_id with alert_type
  SourceOf,       \* [Fingerprints -> Sources]
  Groups,         \* sets of fingerprints that one resolve_source() query covers
  Destinations,   \* notification_destinations
  Editable,       \* the destinations an operator enables and disables
  Severities,
  Policies,       \* notification_policies
  NoPolicy,       \* alert.policy_id = ""
  PolicySpec,     \* [Policies -> PolicyRecord]
  Rules,          \* what select_rule() may return; NoRule is one of them or not
  NoRule,
  RoutesOf,       \* [Fingerprints \X Severities -> SUBSET Destinations]
  RoutePolicyOf,  \* [Fingerprints \X Severities -> Policies or NoPolicy]
  Copies,         \* how many alert rows a fingerprint may have, 1..Copies
  MaxSlots,       \* live delivery rows of one kind for one destination
  MaxAge,         \* bound: ages are counted up to here
  MaxCount,       \* bound: occurrences are counted up to here
  Limit           \* dispatch_pending's limit

Alerts    == Fingerprints \X (1..Copies)
Slots     == 1..MaxSlots
Addresses == Alerts \X NotificationTypes \X Destinations \X Slots

PolicyRecord ==
  [sends         : [NotificationTypes -> SUBSET Destinations], \* enabled steps by type
   delay         : [Destinations -> 0..MaxAge],     \* delay_seconds of an escalation step
   escalateAfter : 0..MaxAge,                       \* 0: not set
   repeats       : BOOLEAN,                         \* repeat_after_seconds is set
   recovers      : BOOLEAN]                         \* recovery_enabled

(* The rule's floor is given as the set of severities that reach it.       *)
RuleRecord ==
  [policy : Policies \cup {NoPolicy}, reached : SUBSET Severities, minimum : Nat \ {0}]

ASSUME ConfigurationAssumption ==
  /\ Severities # {}
  /\ SourceOf \in [Fingerprints -> Sources]
  /\ Groups \subseteq SUBSET Fingerprints
  /\ Editable \subseteq Destinations
  /\ NoPolicy \notin Policies
  /\ PolicySpec \in [Policies -> PolicyRecord]
  /\ Rules \ {NoRule} \subseteq RuleRecord
  /\ RoutesOf \in [Fingerprints \X Severities -> SUBSET Destinations]
  /\ RoutePolicyOf \in [Fingerprints \X Severities -> Policies \cup {NoPolicy}]

ASSUME BoundsAssumption ==
  /\ Copies \in Nat \ {0} /\ MaxSlots \in Nat \ {0}
  /\ MaxAge \in Nat /\ MaxCount \in Nat \ {0} /\ Limit \in Nat \ {0}

VARIABLES
  alert,        \* the alerts table
  delivery,     \* the notification_deliveries table
  suppressing,  \* sources with an enabled suppression row whose end has not come
  maintenance,  \* fingerprints under an active maintenance window
  enabled       \* enabled destinations

vars == <<alert, delivery, suppressing, maintenance, enabled>>

AlertRecord ==
  [status   : {"NONE", "RESOLVED"} \cup ActiveStatuses,
   acked    : BOOLEAN,                      \* acknowledged_at is set
   resolved : BOOLEAN,                      \* resolved_at is set
   policy   : Policies \cup {NoPolicy},
   severity : Severities,
   count    : 0..MaxCount,                  \* occurrence_count
   age      : 0..MaxAge,                    \* time since first_seen_at
   quiet    : BOOLEAN]                      \* the repeat period has passed

NoAlert ==
  [status |-> "NONE", acked |-> FALSE, resolved |-> FALSE, policy |-> NoPolicy,
   severity |-> CHOOSE s \in Severities : TRUE, count |-> 0, age |-> 0, quiet |-> FALSE]

Init ==
  /\ alert = [a \in Alerts |-> NoAlert]
  /\ delivery = [x \in Addresses |-> NoRow]
  /\ suppressing = {}
  /\ maintenance = {}
  /\ enabled = Destinations

-----------------------------------------------------------------------------
(* Queries.                                                                *)

Exists(a) == alert[a].status # "NONE"
IsActive(a) == alert[a].status \in ActiveStatuses

RowsOf(f)   == {a \in Alerts : a[1] = f /\ Exists(a)}

(* Mutant of ActiveOf: the query of active_by_fingerprint() forgets        *)
(* SUPPRESSED.                                                             *)
ActiveOfUnsuppressed(f) ==
  {a \in Alerts : a[1] = f /\ alert[a].status \in {"OPEN", "ACKNOWLEDGED"}}

ActiveOf(f) == {a \in Alerts : a[1] = f /\ IsActive(a)}

IsSuppressed(a) == SourceOf[a[1]] \in suppressing
InMaintenance(a) == a[1] \in maintenance

(* _destination_ids(): the matching routes, then the policy's steps.       *)
DestinationIds(al, a, type) ==
  RoutesOf[a[1], al[a].severity]
    \cup (IF al[a].policy \in Policies THEN PolicySpec[al[a].policy].sends[type] ELSE {})

(* Mutants of HasLive: the query of _queue_deliveries() forgets a status   *)
(* or the kind of notification.                                            *)
HasLiveUnsent(q, a, type, d)  == \E s \in Slots : q[a, type, d, s].status \in PendingStatuses
HasLiveAnyKind(q, a, type, d) ==
  \E t \in NotificationTypes, s \in Slots : q[a, t, d, s].status \in LiveStatuses

(* A live row of this kind for this alert and destination.                 *)
HasLive(q, a, type, d) == \E s \in Slots : q[a, type, d, s].status \in LiveStatuses

(* A FAILED or SKIPPED row, or a sent repeat, is never consulted again, so *)
(* its slot may hold the next row.                                         *)
IsReusable(row, type) ==
  row.status \in {"NONE", "FAILED", "SKIPPED"} \/ (type = "repeat" /\ row.status = "SENT")

FreeSlots(q, a, type, d) == {s \in Slots : IsReusable(q[a, type, d, s], type)}

(* Of the pairs in `who` of an alert and a destination, those for which    *)
(* _queue_deliveries() inserts a row.                                      *)
Wanted(q, type, who) ==
  {w \in who : type = "repeat" \/ ~HasLive(q, w[1], type, w[2])}

(* Bound: an action that queues rows is disabled when they do not fit.     *)
HasRoom(q, type, who) ==
  \A w \in Wanted(q, type, who) : FreeSlots(q, w[1], type, w[2]) # {}

(* _queue_deliveries(): the new row goes to the lowest free slot.          *)
Queued(q, type, who) ==
  LET wanted == Wanted(q, type, who)
      IsChosen(x) ==
        /\ x[2] = type /\ <<x[1], x[3]>> \in wanted
        /\ x[4] \in FreeSlots(q, x[1], type, x[3])
        /\ \A s \in FreeSlots(q, x[1], type, x[3]) : x[4] <= s
  IN  [x \in Addresses |-> IF IsChosen(x) THEN NewRow ELSE q[x]]

-----------------------------------------------------------------------------
(* dispatch_pending() on the rows of the alerts in S.                      *)

Dispatchable(q, S) == {x \in Addresses : x[1] \in S /\ IsDispatchable(q[x])}

(* The rows one call delivers: all of them, or `Limit` rows with the       *)
(* fewest attempts.                                                        *)
IsBatch(B, q, S) ==
  LET D == Dispatchable(q, S)
  IN  /\ B \subseteq D
      /\ Cardinality(D) <= Limit => B = D
      /\ Cardinality(D) > Limit =>
           /\ Cardinality(B) = Limit
           /\ \A x \in B, y \in D \ B : q[x].attempt <= q[y].attempt

Delivered(q, al, B, out) ==
  [x \in Addresses |->
     IF x \in B
     THEN Deliver(q[x], x[2], al[x[1]].status, x[3] \in enabled, out[x])
     ELSE q[x]]

(* sent_at of a new SENT row restarts the repeat period of its alert.      *)
AfterDispatch(al, q, sent) ==
  [a \in Alerts |->
     IF \E x \in Addresses :
          x[1] = a /\ sent[x].status = "SENT" /\ q[x].status # "SENT"
     THEN [al[a] EXCEPT !.quiet = FALSE]
     ELSE al[a]]

DispatchBatch(q, al, B) ==
  \E out \in [B -> Outcomes] :
    /\ delivery' = Delivered(q, al, B, out)
    /\ alert' = AfterDispatch(al, q, Delivered(q, al, B, out))

DispatchAll(q, al) ==
  \E B \in SUBSET Dispatchable(q, Alerts) : IsBatch(B, q, Alerts) /\ DispatchBatch(q, al, B)

-----------------------------------------------------------------------------
(* publish()                                                               *)

Bump(n) == IF n < MaxCount THEN n + 1 ELSE n

(* Mutant of PublishOccurrence: the alert becomes open again.              *)
PublishOccurrenceReopens(f, severity) ==
  /\ \E a \in ActiveOf(f) :
       alert' = [alert EXCEPT ![a].severity = severity, ![a].status = "OPEN"]
  /\ UNCHANGED <<delivery, suppressing, maintenance, enabled>>

(* The fault goes on: the alert is updated and nobody is notified.         *)
PublishOccurrence(f, severity) ==
  /\ \E a \in ActiveOf(f) :
       alert' = [alert EXCEPT ![a].severity = severity, ![a].count = Bump(@)]
  /\ UNCHANGED <<delivery, suppressing, maintenance, enabled>>

(* The row that publish() opens: the resolved row of this fingerprint if   *)
(* there is one, otherwise a new row.                                      *)
OpenedRows(f) ==
  LET previous == {a \in RowsOf(f) : alert[a].status = "RESOLVED"}
      fresh    == {a \in Alerts : /\ a[1] = f /\ ~Exists(a)
                                  /\ \A b \in Alerts : b[1] = f /\ ~Exists(b) => a[2] <= b[2]}
  IN  IF previous # {} THEN previous ELSE fresh

Opened(a, severity, rule) ==
  [alert[a] EXCEPT
     !.status   = IF IsSuppressed(a) THEN "SUPPRESSED" ELSE "OPEN",
     !.acked    = FALSE,
     !.resolved = FALSE,
     !.severity = severity,
     !.count    = IF @ = 0 THEN 1 ELSE @,
     !.policy   = IF rule # NoRule /\ rule.policy \in Policies THEN rule.policy ELSE @]

RuleAllows(rule, severity, count) ==
  rule # NoRule /\ severity \in rule.reached /\ count >= rule.minimum

(* Suppressed, in maintenance or below the rule: no notification is queued. *)
PublishSilently(f, severity, rule) ==
  /\ ActiveOf(f) = {}
  /\ \E a \in OpenedRows(f) :
       /\ \/ IsSuppressed(a)
          \/ InMaintenance(a)
          \/ ~RuleAllows(rule, severity, Opened(a, severity, rule).count)
       /\ alert' = [alert EXCEPT ![a] = Opened(a, severity, rule)]
  /\ UNCHANGED <<delivery, suppressing, maintenance, enabled>>

PublishAndNotify(f, severity, rule) ==
  /\ ActiveOf(f) = {}
  /\ \E a \in OpenedRows(f) :
       LET row   == Opened(a, severity, rule)
           owned == [row EXCEPT !.policy = IF @ = NoPolicy THEN RoutePolicyOf[f, severity] ELSE @]
           al    == [alert EXCEPT ![a] = owned]
           who   == {a} \X DestinationIds(al, a, "initial")
           q     == Queued(delivery, "initial", who)
       IN  /\ ~IsSuppressed(a) /\ ~InMaintenance(a)
           /\ RuleAllows(rule, severity, row.count)
           /\ HasRoom(delivery, "initial", who)
           /\ \E B \in SUBSET Dispatchable(q, {a}) :
                IsBatch(B, q, {a}) /\ DispatchBatch(q, al, B)
  /\ UNCHANGED <<suppressing, maintenance, enabled>>

-----------------------------------------------------------------------------
(* resolve_alert() for each alert in S, in one transaction.                *)

Recovering(S) ==
  {a \in S : alert[a].policy \in Policies /\ PolicySpec[alert[a].policy].recovers}

(* Routes and recovery steps, or who was told of the fault if there are none. *)
RecoveryIds(al, a) ==
  LET ids == DestinationIds(al, a, "recovery")
  IN  IF ids # {} THEN ids ELSE DestinationIds(al, a, "initial")

ResolveAlerts(S) ==
  LET al  == [a \in Alerts |->
                IF a \in S THEN [alert[a] EXCEPT !.status = "RESOLVED", !.resolved = TRUE]
                           ELSE alert[a]]
      who == UNION {{a} \X RecoveryIds(al, a) : a \in Recovering(S)}
      q   == Queued(delivery, "recovery", who)
  IN  /\ S # {}
      /\ HasRoom(delivery, "recovery", who)
      /\ \E B \in SUBSET Dispatchable(q, Recovering(S)) :
           /\ \A a \in Recovering(S) : IsBatch({x \in B : x[1] = a}, q, {a})
           /\ DispatchBatch(q, al, B)
      /\ UNCHANGED <<suppressing, maintenance, enabled>>

(* By an operator, or by publish() with a recovered signal.                *)
Resolve(a) == IsActive(a) /\ ResolveAlerts({a})

ResolveSource(G) == ResolveAlerts({a \in Alerts : a[1] \in G /\ IsActive(a)})

-----------------------------------------------------------------------------
(* Operators.                                                              *)

Acknowledge(a) ==
  /\ IsActive(a)
  /\ alert' = [alert EXCEPT ![a].status = "ACKNOWLEDGED", ![a].acked = TRUE]
  /\ UNCHANGED <<delivery, suppressing, maintenance, enabled>>

(* No status is refused: a resolved alert becomes SUPPRESSED, too.         *)
Suppress(a) ==
  /\ Exists(a)
  /\ alert' = [alert EXCEPT ![a].status = "SUPPRESSED"]
  /\ suppressing' = suppressing \cup {SourceOf[a[1]]}
  /\ UNCHANGED <<delivery, maintenance, enabled>>

EditDestination(d) ==
  /\ enabled' = IF d \in enabled THEN enabled \ {d} ELSE enabled \cup {d}
  /\ UNCHANGED <<alert, delivery, suppressing, maintenance>>

StartMaintenance(f) ==
  /\ maintenance' = maintenance \cup {f}
  /\ UNCHANGED <<alert, delivery, suppressing, enabled>>

-----------------------------------------------------------------------------
(* The scheduled jobs.                                                     *)

(* Mutant of SuppressionExpiry: an alert that was acknowledged before it   *)
(* was suppressed is left alone.                                           *)
SuppressionExpiryUnacknowledged ==
  /\ alert' = [a \in Alerts |->
                 IF alert[a].status = "SUPPRESSED" /\ ~alert[a].acked /\ ~IsSuppressed(a)
                 THEN [alert[a] EXCEPT !.status = "OPEN"]
                 ELSE alert[a]]
  /\ UNCHANGED <<delivery, suppressing, maintenance, enabled>>

(* run_suppression_expiry()                                                *)
SuppressionExpiry ==
  /\ alert' = [a \in Alerts |->
                 IF alert[a].status = "SUPPRESSED" /\ ~IsSuppressed(a)
                 THEN [alert[a] EXCEPT !.status = "OPEN"]
                 ELSE alert[a]]
  /\ UNCHANGED <<delivery, suppressing, maintenance, enabled>>

(* The alert-notification-dispatch and alert-recovery-notification jobs.   *)
DispatchPending ==
  /\ DispatchAll(delivery, alert)
  /\ UNCHANGED <<suppressing, maintenance, enabled>>

Delay(policy, d) == IF policy.delay[d] # 0 THEN policy.delay[d] ELSE policy.escalateAfter

MayEscalate(a) ==
  /\ alert[a].status = "OPEN" /\ ~alert[a].acked /\ ~alert[a].resolved
  /\ alert[a].policy \in Policies

(* due_for_escalation(): the destinations of the steps that are due, or of *)
(* every step when the alert was never escalated although the policy's own *)
(* delay has passed.                                                       *)
EscalationIds(q, a) ==
  LET policy == PolicySpec[alert[a].policy]
      steps  == policy.sends["escalation"]
      due    == {d \in steps : /\ alert[a].age >= Delay(policy, d)
                               /\ ~HasLive(q, a, "escalation", d)}
  IN  IF /\ due = {}
         /\ policy.escalateAfter # 0 /\ alert[a].age >= policy.escalateAfter
         /\ \A d \in Destinations, s \in Slots : q[a, "escalation", d, s].status = "NONE"
      THEN steps
      ELSE due

Escalations(q) ==
  UNION {{a} \X EscalationIds(q, a) :
           a \in {b \in Alerts : MayEscalate(b) /\ ~IsSuppressed(b) /\ ~InMaintenance(b)}}

(* due_for_repeat(): neither suppressions nor windows are looked at.       *)
Repeats(al) ==
  UNION {{a} \X DestinationIds(al, a, "initial") :
           a \in {b \in Alerts : /\ al[b].status = "OPEN" /\ al[b].quiet
                                 /\ al[b].policy \in Policies
                                 /\ PolicySpec[al[b].policy].repeats}}

(* run_escalation() on the tables q and al.                                *)
Escalate(q, al) ==
  LET q1 == Queued(q, "escalation", Escalations(q))
  IN  /\ HasRoom(q, "escalation", Escalations(q))
      /\ HasRoom(q1, "repeat", Repeats(al))
      /\ DispatchAll(Queued(q1, "repeat", Repeats(al)), al)

(* The alert-escalation-check job, from its queries to its commit.         *)
EscalationCheck ==
  /\ Escalate(delivery, alert)
  /\ UNCHANGED <<suppressing, maintenance, enabled>>

(* The alert-evaluate job: dispatch what is pending, then escalate.  Beat  *)
(* starts both jobs every minute and their transactions may overlap; here  *)
(* they do not.                                                            *)
Evaluate ==
  /\ \E B \in SUBSET Dispatchable(delivery, Alerts) :
       /\ IsBatch(B, delivery, Alerts)
       /\ \E out \in [B -> Outcomes] :
            LET q == Delivered(delivery, alert, B, out)
            IN  Escalate(q, AfterDispatch(alert, delivery, q))
  /\ UNCHANGED <<suppressing, maintenance, enabled>>

-----------------------------------------------------------------------------
(* Time.                                                                   *)

GrowOlder(a) ==
  /\ Exists(a) /\ alert[a].age < MaxAge
  /\ alert' = [alert EXCEPT ![a].age = @ + 1]
  /\ UNCHANGED <<delivery, suppressing, maintenance, enabled>>

RepeatPeriodEnds(a) ==
  /\ Exists(a) /\ ~alert[a].quiet
  /\ alert[a].policy \in Policies /\ PolicySpec[alert[a].policy].repeats
  /\ alert' = [alert EXCEPT ![a].quiet = TRUE]
  /\ UNCHANGED <<delivery, suppressing, maintenance, enabled>>

RetryTimeComes(x) ==
  /\ delivery[x].waiting
  /\ delivery' = [delivery EXCEPT ![x].waiting = FALSE]
  /\ UNCHANGED <<alert, suppressing, maintenance, enabled>>

SuppressionEnds(s) ==
  /\ suppressing' = suppressing \ {s}
  /\ UNCHANGED <<alert, delivery, maintenance, enabled>>

MaintenanceEnds(f) ==
  /\ maintenance' = maintenance \ {f}
  /\ UNCHANGED <<alert, delivery, suppressing, enabled>>

-----------------------------------------------------------------------------
Publish ==
  \E f \in Fingerprints, severity \in Severities :
    \/ PublishOccurrence(f, severity)
    \/ \E rule \in Rules : PublishSilently(f, severity, rule) \/ PublishAndNotify(f, severity, rule)

Operator ==
  \/ \E a \in Alerts : Resolve(a) \/ Acknowledge(a) \/ Suppress(a)
  \/ \E d \in Editable : EditDestination(d)
  \/ \E f \in Fingerprints : StartMaintenance(f)

Job == SuppressionExpiry \/ DispatchPending \/ EscalationCheck \/ Evaluate

Time ==
  \/ \E a \in Alerts : GrowOlder(a) \/ RepeatPeriodEnds(a)
  \/ \E x \in Addresses : RetryTimeComes(x)
  \/ \E s \in Sources : SuppressionEnds(s)
  \/ \E f \in Fingerprints : MaintenanceEnds(f)

Next == Publish \/ (\E G \in Groups : ResolveSource(G)) \/ Operator \/ Job \/ Time

Spec == Init /\ [][Next]_vars

(* Celery beat runs each alert job every 30 to 300 seconds, and time goes  *)
(* on.  Nothing is assumed of sources and operators.                       *)
Fairness ==
  /\ WF_vars(DispatchPending) /\ WF_vars(EscalationCheck) /\ WF_vars(SuppressionExpiry)
  /\ \A a \in Alerts, t \in NotificationTypes, d \in Destinations :
       WF_vars(\E s \in Slots : RetryTimeComes(<<a, t, d, s>>))

FairSpec == Spec /\ Fairness

-----------------------------------------------------------------------------
(* Safety.                                                                 *)

(* The tables hold rows of their types.                                    *)
TypeOK ==
  /\ alert \in [Alerts -> AlertRecord]
  /\ delivery \in [Addresses -> Row]
  /\ suppressing \subseteq Sources
  /\ maintenance \subseteq Fingerprints
  /\ enabled \subseteq Destinations

(* The fingerprint column is not unique; that a fault has one active alert *)
(* rests on publish() reopening the row of an earlier fault, on no status  *)
(* change reviving a second row, and on handlers being serialised.         *)
OneActiveAlert ==
  \A a, b \in Alerts : IsActive(a) /\ IsActive(b) /\ a[1] = b[1] => a = b

(* The table has no unique key on alert, destination and kind; that a      *)
(* destination is not told twice rests on _queue_deliveries() seeing every *)
(* row that is sent or may still be sent, across reopenings, failed rows,  *)
(* retries and the two queueing passes of run_escalation().  It holds of   *)
(* transactions that follow one another.  Overlapping escalation jobs      *)
(* insert a row each (EscalationJobs), overlapping resolutions a recovery  *)
(* each (AlertSessions).                                                   *)
NoDuplicateNotification ==
  \A a \in Alerts, t \in NotificationTypes \ {"repeat"}, d \in Destinations, s1, s2 \in Slots :
    /\ delivery[a, t, d, s1].status \in LiveStatuses
    /\ delivery[a, t, d, s2].status \in LiveStatuses
    => s1 = s2

(* A row is tried once and then once per entry of the retry schedule: the  *)
(* comparison attempt <= len(retries) in deliver() is the budget.          *)
RetryBudget ==
  \A x \in Addresses :
    /\ delivery[x].attempt <= MaxRetries + 1
    /\ delivery[x].status = "RETRY" => delivery[x].attempt \in 1..MaxRetries
    /\ delivery[x].status = "PENDING" => delivery[x].attempt = 0
    /\ delivery[x].waiting => delivery[x].status = "RETRY"

(* Rows that became SENT in this step.                                     *)
NewlySent ==
  {x \in Addresses : delivery[x].status # "SENT" /\ delivery'[x].status = "SENT"}

(* Once a destination was told of an alert in one of the kinds other than  *)
(* repeat it is never told so again, however often the alert is resolved   *)
(* and reopened and whatever was still waiting for a retry.  Again this is *)
(* of transactions that follow one another: see EscalationJobs and         *)
(* AlertSessions for those that do not.                                    *)
NotifiedOnce ==
  [][\A x \in NewlySent :
       x[2] # "repeat" =>
         \A s \in Slots : delivery[x[1], x[2], x[3], s].status # "SENT"]_vars

(* A notification other than a recovery leaves only for an alert that is   *)
(* open or acknowledged when the handler ends, also for the rows that an   *)
(* earlier handler queued and that are retried long after.                 *)
SilencedAlertsStaySilent ==
  [][\A x \in NewlySent : x[2] # "recovery" =>
       alert'[x[1]].status \in {"OPEN", "ACKNOWLEDGED"}]_vars

(* What the console shows for a fingerprint.                               *)
Shown(f) == IF ActiveOf(f) = {} THEN "CLEAR" ELSE alert[CHOOSE a \in ActiveOf(f) : TRUE].status

ShownBoard == [f \in Fingerprints |-> Shown(f)]

Board == INSTANCE AlertBoard WITH board <- ShownBoard

(* The tables implement the board: raising, acknowledging, suppressing and *)
(* clearing a fingerprint have the effect AlertBoard promises.             *)
ImplementsBoard == Board!Spec

-----------------------------------------------------------------------------
(* Liveness, under Fairness.                                               *)

(* An alert does not stay suppressed when nothing suppresses it any more.  *)
SuppressionLifts ==
  \A a \in Alerts :
    alert[a].status = "SUPPRESSED" /\ ~IsSuppressed(a)
      ~> alert[a].status # "SUPPRESSED" \/ IsSuppressed(a)

(* An open alert that nobody handled and that is old enough is escalated   *)
(* to every destination whose step is due.                                 *)
EscalationIsDue(a, d) ==
  /\ MayEscalate(a) /\ ~IsSuppressed(a) /\ ~InMaintenance(a)
  /\ d \in PolicySpec[alert[a].policy].sends["escalation"]
  /\ alert[a].age >= Delay(PolicySpec[alert[a].policy], d)

DueEscalationIsQueued ==
  \A a \in Alerts, d \in Destinations :
    EscalationIsDue(a, d)
      ~> \/ ~EscalationIsDue(a, d)
         \/ \E s \in Slots : delivery[a, "escalation", d, s].status # "NONE"
=============================================================================
