------------------------ MODULE AlertLifecycleProofs ------------------------
(***************************************************************************)
(* Proofs about AlertLifecycle, for every value of its constants: its type *)
(* invariant, that a fingerprint has at most one active alert, that no     *)
(* destination has two live rows of one kind for one alert, the retry      *)
(* budget, that a destination is told at most once, and that the tables    *)
(* implement AlertBoard.  They hold of handlers taken one transaction at a *)
(* time.  What is left of them when transactions overlap is proved of      *)
(* EscalationJobs (jobs that escalate) and of AlertSessions (requests and  *)
(* jobs that raise and resolve), in the last two parts.                    *)
(*                                                                         *)
(* Inv, the inductive invariant, strengthens OneActiveAlert to: a          *)
(* fingerprint has at most one row, active or not.  Without it a second,   *)
(* resolved row could be suppressed and become active beside the first.    *)
(* The refinement needs the same fact: the board is read off that one row. *)
(***************************************************************************)
EXTENDS AlertLifecycle, EscalationJobs, AlertSessions, FiniteSetTheorems, TLAPS

OneRow ==
  \A a, b \in Alerts : Exists(a) /\ Exists(b) /\ a[1] = b[1] => a = b

Inv == TypeOK /\ OneRow /\ NoDuplicateNotification /\ RetryBudget

-----------------------------------------------------------------------------
(* The parts of Inv about the deliveries, of any table q.                  *)

Distinct(q) ==
  \A x, y \in Addresses :
    /\ x[1] = y[1] /\ x[2] = y[2] /\ x[3] = y[3] /\ x[2] # "repeat"
    /\ q[x].status \in LiveStatuses /\ q[y].status \in LiveStatuses
    => x = y

WithinBudget(row) ==
  /\ row.attempt <= MaxRetries + 1
  /\ row.status = "RETRY" => row.attempt \in 1..MaxRetries
  /\ row.status = "PENDING" => row.attempt = 0
  /\ row.waiting => row.status = "RETRY"

Sound(q) ==
  /\ q \in [Addresses -> Row]
  /\ Distinct(q)
  /\ \A x \in Addresses : WithinBudget(q[x])

(* What was sent, other than a repeat, stays sent.                         *)
Keeps(q, r) ==
  \A x \in Addresses :
    x[2] # "repeat" /\ q[x].status = "SENT" => r[x].status = "SENT"

(* What became SENT, other than a recovery, belongs to an alert that is    *)
(* open or acknowledged in al.                                             *)
Speaks(q, r, al) ==
  \A x \in Addresses :
    x[2] # "recovery" /\ q[x].status # "SENT" /\ r[x].status = "SENT" =>
      al[x[1]].status \in {"OPEN", "ACKNOWLEDGED"}

(* What every handler does to the delivery table q; al is its alerts table *)
(* when it ends.                                                           *)
Proper(q, r, al) == Sound(r) /\ Keeps(q, r) /\ Speaks(q, r, al)

(* An address is an alert, a kind, a destination and a slot.               *)
LEMMA AddressParts ==
  /\ \A x \in Addresses :
       /\ x[1] \in Alerts /\ x[2] \in NotificationTypes
       /\ x[3] \in Destinations /\ x[4] \in Slots
       /\ x = <<x[1], x[2], x[3], x[4]>>
  /\ \A a \in Alerts, t \in NotificationTypes, d \in Destinations, s \in Slots :
       <<a, t, d, s>> \in Addresses
BY DEF Addresses

(* Sound, of the table itself, is what the runs check of it.               *)
LEMMA SoundDelivery ==
  Sound(delivery) <=>
    delivery \in [Addresses -> Row] /\ NoDuplicateNotification /\ RetryBudget
<1>1. ASSUME Distinct(delivery) PROVE NoDuplicateNotification
  <2>1. ASSUME NEW a \in Alerts, NEW t \in NotificationTypes \ {"repeat"},
               NEW d \in Destinations, NEW s1 \in Slots, NEW s2 \in Slots,
               delivery[a, t, d, s1].status \in LiveStatuses,
               delivery[a, t, d, s2].status \in LiveStatuses
        PROVE  s1 = s2
    <3>1. <<a, t, d, s1>> \in Addresses /\ <<a, t, d, s2>> \in Addresses
      BY AddressParts
    <3>2. <<a, t, d, s1>> = <<a, t, d, s2>>
      BY <1>1, <2>1, <3>1 DEF Distinct
    <3>. QED BY <3>2
  <2>. QED BY <2>1 DEF NoDuplicateNotification
<1>2. ASSUME NoDuplicateNotification PROVE Distinct(delivery)
  <2>1. ASSUME NEW x \in Addresses, NEW y \in Addresses,
               x[1] = y[1], x[2] = y[2], x[3] = y[3], x[2] # "repeat",
               delivery[x].status \in LiveStatuses, delivery[y].status \in LiveStatuses
        PROVE  x = y
    <3>1. /\ x = <<x[1], x[2], x[3], x[4]>> /\ y = <<x[1], x[2], x[3], y[4]>>
          /\ x[1] \in Alerts /\ x[2] \in NotificationTypes \ {"repeat"}
          /\ x[3] \in Destinations /\ x[4] \in Slots /\ y[4] \in Slots
      BY <2>1, AddressParts
    <3>2. x[4] = y[4]
      BY <1>2, <2>1, <3>1 DEF NoDuplicateNotification
    <3>. QED BY <3>1, <3>2
  <2>. QED BY <2>1 DEF Distinct
<1>. QED BY <1>1, <1>2 DEF Sound, RetryBudget, WithinBudget

-----------------------------------------------------------------------------
(* Lemmas about the operators on the tables.                               *)

(* One attempt at a dispatchable row gives a row that is within the retry  *)
(* budget.                                                                 *)
LEMMA DeliverRow ==
  ASSUME NEW row \in Row, NEW type, NEW st, NEW on \in BOOLEAN, NEW outcome,
         WithinBudget(row), row.status \in PendingStatuses
  PROVE  /\ Deliver(row, type, st, on, outcome) \in Row
         /\ WithinBudget(Deliver(row, type, st, on, outcome))
<1>. DEFINE n == row.attempt + 1
            as(result) == [status |-> result, attempt |-> n, waiting |-> result = "RETRY"]
            r == Deliver(row, type, st, on, outcome)
<1>1. row.attempt \in 0..MaxRetries /\ n \in 1..(MaxRetries + 1)
  BY MaxRetriesAssumption DEF Row, WithinBudget, PendingStatuses
<1>2. \E result \in {"FAILED", "SKIPPED", "SENT", "RETRY"} :
        r = as(result) /\ (result = "RETRY" => n <= MaxRetries)
  BY DEF Deliver, CallsProvider, MayRetry
<1>3. ASSUME NEW result \in {"FAILED", "SKIPPED", "SENT", "RETRY"},
             result = "RETRY" => n <= MaxRetries
      PROVE  as(result) \in Row /\ WithinBudget(as(result))
  <2>. DEFINE w == result = "RETRY"
  <2>1. w \in BOOLEAN /\ (w => result = "RETRY")
    OBVIOUS
  <2>2. as(result) = [status |-> result, attempt |-> n, waiting |-> w]
    OBVIOUS
  <2>. HIDE DEF w
  <2>3. as(result) \in Row
    BY <1>1, <2>1, <2>2 DEF Row, DeliveryStatuses
  <2>4. WithinBudget(as(result))
    BY <1>1, <1>3, <2>1, <2>2, MaxRetriesAssumption DEF WithinBudget
  <2>. QED BY <2>3, <2>4
<1>4. PICK result \in {"FAILED", "SKIPPED", "SENT", "RETRY"} :
        r = as(result) /\ (result = "RETRY" => n <= MaxRetries)
  BY <1>2
<1>. QED BY <1>3, <1>4, Zenon

(* _queue_deliveries() adds a row for a pair of an alert and a destination *)
(* only if there is no live one, and the row it adds is the only one.      *)
LEMMA QueuedRows ==
  ASSUME NEW q, Sound(q), NEW type, NEW who
  PROVE  \A al : Proper(q, Queued(q, type, who), al)
<1>. DEFINE r == Queued(q, type, who)
            New(x) == /\ x[2] = type /\ <<x[1], x[3]>> \in Wanted(q, type, who)
                      /\ x[4] \in FreeSlots(q, x[1], type, x[3])
                      /\ \A s \in FreeSlots(q, x[1], type, x[3]) : x[4] <= s
<1>1. \A x \in Addresses : r[x] = IF New(x) THEN NewRow ELSE q[x]
  BY DEF Queued
<1>2. r \in [Addresses -> Row] /\ \A x \in Addresses : WithinBudget(r[x])
  <2>1. NewRow \in Row /\ WithinBudget(NewRow)
    BY MaxRetriesAssumption DEF NewRow, Row, DeliveryStatuses, WithinBudget
  <2>2. r = [x \in Addresses |-> IF New(x) THEN NewRow ELSE q[x]]
    BY DEF Queued
  <2>. HIDE DEF r, New
  <2>. QED BY <2>1, <2>2 DEF Sound
<1>3. ASSUME NEW x \in Addresses, New(x)
      PROVE  /\ x[2] # "repeat" =>
                  \A y \in Addresses :
                    x[1] = y[1] /\ x[2] = y[2] /\ x[3] = y[3] =>
                      q[y].status \notin LiveStatuses
             /\ q[x].status \in {"NONE", "FAILED", "SKIPPED"} \/ x[2] = "repeat"
  <2>1. x[2] # "repeat" => ~HasLive(q, x[1], type, x[3])
    BY <1>3 DEF Wanted
  <2>2. IsReusable(q[x], type)
    BY <1>3, AddressParts DEF FreeSlots
  <2>. QED BY <1>3, <2>1, <2>2, AddressParts DEF HasLive, IsReusable
<1>4. ASSUME NEW x \in Addresses, NEW y \in Addresses, New(x), New(y),
             x[1] = y[1], x[2] = y[2], x[3] = y[3]
      PROVE  x = y
  <2>1. x[4] <= y[4] /\ y[4] <= x[4] /\ x[4] \in Nat /\ y[4] \in Nat
    BY <1>4, AddressParts DEF Slots
  <2>2. x[4] = y[4]
    BY <2>1
  <2>. QED BY <1>4, <2>2, AddressParts
<1>5. Distinct(r)
  <2>. SUFFICES ASSUME NEW x \in Addresses, NEW y \in Addresses,
                       x[1] = y[1], x[2] = y[2], x[3] = y[3], x[2] # "repeat",
                       r[x].status \in LiveStatuses, r[y].status \in LiveStatuses
                PROVE  x = y
    BY DEF Distinct
  <2>1. CASE New(x) /\ New(y)
    BY <2>1, <1>4
  <2>2. CASE New(x) /\ ~New(y)
    BY <2>2, <1>1, <1>3
  <2>3. CASE ~New(x) /\ New(y)
    BY <2>3, <1>1, <1>3
  <2>4. CASE ~New(x) /\ ~New(y)
    BY <2>4, <1>1 DEF Sound, Distinct
  <2>. QED BY <2>1, <2>2, <2>3, <2>4
<1>6. Keeps(q, r)
  BY <1>1, <1>3 DEF Keeps
<1>7. \A al : Speaks(q, r, al)
  <2>. HIDE DEF r, New
  <2>1. \A x \in Addresses : r[x].status = "SENT" => q[x].status = "SENT"
    BY <1>1 DEF NewRow
  <2>. QED BY <2>1 DEF Speaks
<1>. QED BY <1>2, <1>5, <1>6, <1>7 DEF Sound, Proper

(* A row becomes SENT only if the status of its alert allows its kind.     *)
LEMMA SentWasNotifiable ==
  ASSUME NEW row, NEW type, NEW st, NEW on \in BOOLEAN, NEW outcome,
         Deliver(row, type, st, on, outcome).status = "SENT"
  PROVE  IsNotifiable(st, type)
BY DEF Deliver, CallsProvider

(* dispatch_pending() makes a row live only if it was live, and sends only *)
(* what may be sent.                                                       *)
LEMMA DeliveredRows ==
  ASSUME NEW q, Sound(q), NEW al, NEW S, NEW B \in SUBSET Dispatchable(q, S), NEW out
  PROVE  Proper(q, Delivered(q, al, B, out), al)
<1>. DEFINE r == Delivered(q, al, B, out)
<1>1. ASSUME NEW x \in Addresses
      PROVE  /\ r[x] \in Row /\ WithinBudget(r[x])
             /\ x \in B => q[x].status \in PendingStatuses
             /\ x \notin B => r[x] = q[x]
  <2>1. CASE x \in B
    <3>1. /\ q[x] \in Row /\ WithinBudget(q[x]) /\ q[x].status \in PendingStatuses
          /\ (x[3] \in enabled) \in BOOLEAN
      BY <2>1 DEF Sound, Dispatchable, IsDispatchable
    <3>2. r[x] = Deliver(q[x], x[2], al[x[1]].status, x[3] \in enabled, out[x])
      BY <2>1 DEF Delivered
    <3>. QED BY <2>1, <3>1, <3>2, DeliverRow
  <2>2. CASE x \notin B
    BY <2>2 DEF Delivered, Sound
  <2>. QED BY <2>1, <2>2
<1>2. r \in [Addresses -> Row]
  <2>1. r = [x \in Addresses |-> r[x]]
    BY DEF Delivered
  <2>. HIDE DEF r
  <2>. QED BY <1>1, <2>1
<1>3. Distinct(r)
  <2>1. \A x \in Addresses : r[x].status \in LiveStatuses => q[x].status \in LiveStatuses
    BY <1>1 DEF LiveStatuses, PendingStatuses
  <2>. QED BY <2>1 DEF Sound, Distinct
<1>4. Keeps(q, r)
  BY <1>1 DEF Keeps, PendingStatuses
<1>5. Speaks(q, r, al)
  <2>1. ASSUME NEW x \in Addresses, x \in B, x[2] # "recovery",
               al[x[1]].status \notin {"OPEN", "ACKNOWLEDGED"}
        PROVE  r[x].status # "SENT"
    <3>1. r[x] = Deliver(q[x], x[2], al[x[1]].status, x[3] \in enabled, out[x])
      BY <2>1 DEF Delivered
    <3>2. ~IsNotifiable(al[x[1]].status, x[2])
      BY <2>1 DEF IsNotifiable
    <3>3. (x[3] \in enabled) \in BOOLEAN
      OBVIOUS
    <3>. HIDE DEF r
    <3>. QED BY <3>1, <3>2, <3>3, SentWasNotifiable
  <2>. QED BY <1>1, <2>1 DEF Speaks
<1>. QED BY <1>1, <1>2, <1>3, <1>4, <1>5 DEF Sound, Proper

(* Dispatching changes no status of an alert.                              *)
LEMMA AfterDispatchAlerts ==
  ASSUME NEW al \in [Alerts -> AlertRecord], NEW q, NEW sent
  PROVE  /\ AfterDispatch(al, q, sent) \in [Alerts -> AlertRecord]
         /\ \A a \in Alerts : AfterDispatch(al, q, sent)[a].status = al[a].status
BY DEF AfterDispatch, AlertRecord

(* What a handler does in several passes over the table adds up.           *)
LEMMA ProperIsTransitive ==
  ASSUME NEW p, NEW q, NEW r, NEW al, Proper(p, q, al), Proper(q, r, al)
  PROVE  Proper(p, r, al)
BY DEF Proper, Keeps, Speaks

(* dispatch_pending() on any tables.                                       *)
LEMMA Batch ==
  ASSUME NEW q, Sound(q), NEW al \in [Alerts -> AlertRecord], NEW S,
         NEW B \in SUBSET Dispatchable(q, S), DispatchBatch(q, al, B)
  PROVE  /\ Proper(q, delivery', al)
         /\ alert' \in [Alerts -> AlertRecord]
         /\ \A a \in Alerts : alert'[a].status = al[a].status
<1>1. PICK out : /\ delivery' = Delivered(q, al, B, out)
                 /\ alert' = AfterDispatch(al, q, Delivered(q, al, B, out))
  BY DEF DispatchBatch
<1>2. Proper(q, Delivered(q, al, B, out), al)
  BY DeliveredRows, Zenon
<1>3. \A sent : /\ AfterDispatch(al, q, sent) \in [Alerts -> AlertRecord]
                /\ \A a \in Alerts : AfterDispatch(al, q, sent)[a].status = al[a].status
  BY AfterDispatchAlerts
<1>. QED BY <1>1, <1>2, <1>3

-----------------------------------------------------------------------------
(* What every step does.  Apart from publish(), no step changes whether a  *)
(* row of the alerts table exists.                                         *)

SameRows == \A a \in Alerts : alert'[a].status = "NONE" <=> alert[a].status = "NONE"

(* The alerts in S, and no others, take the status v.                      *)
Becomes(S, v) ==
  \A a \in Alerts : alert'[a].status = IF a \in S THEN v ELSE alert[a].status

SameStatuses == \A a \in Alerts : alert'[a].status = alert[a].status

(* publish() opens a row of f, of which no row is active.                  *)
Opens(f) ==
  ActiveOf(f) = {} /\ \E a \in OpenedRows(f) :
    /\ alert'[a].status \in {"OPEN", "SUPPRESSED"}
    /\ \A b \in Alerts \ {a} : alert'[b].status = alert[b].status

Good ==
  /\ alert' \in [Alerts -> AlertRecord]
  /\ Proper(delivery, delivery', alert')
  /\ suppressing' \subseteq Sources
  /\ maintenance' \subseteq Fingerprints
  /\ enabled' \subseteq Destinations

(* To leave the table alone is proper.                                     *)
LEMMA SameTables ==
  ASSUME Sound(delivery), UNCHANGED delivery
  PROVE  Proper(delivery, delivery', alert')
BY DEF Proper, Keeps, Speaks

(* The row that publish() opens has the fingerprint and is open or         *)
(* suppressed.                                                             *)
LEMMA OpenedIsRecord ==
  ASSUME TypeOK, NEW f \in Fingerprints, NEW a \in OpenedRows(f),
         NEW severity \in Severities, NEW rule \in Rules
  PROVE  /\ a \in Alerts /\ a[1] = f
         /\ Opened(a, severity, rule) \in AlertRecord
         /\ Opened(a, severity, rule).status \in {"OPEN", "SUPPRESSED"}
<1>1. a \in Alerts /\ a[1] = f /\ alert[a] \in AlertRecord
  BY DEF OpenedRows, RowsOf, TypeOK
<1>2. 1 \in 0..MaxCount
  BY BoundsAssumption
<1>. QED BY <1>1, <1>2 DEF Opened, AlertRecord, ActiveStatuses

(* publish() of a fault that goes on.                                      *)
LEMMA PublishOccurrenceStep ==
  ASSUME Inv, NEW f \in Fingerprints, NEW severity \in Severities,
         PublishOccurrence(f, severity)
  PROVE  Good /\ SameRows /\ SameStatuses
<1>1. PICK a \in ActiveOf(f) :
        alert' = [alert EXCEPT ![a].severity = severity, ![a].count = Bump(@)]
  BY DEF PublishOccurrence
<1>2. a \in Alerts /\ alert \in [Alerts -> AlertRecord]
  BY DEF ActiveOf, Inv, TypeOK
<1>3. Bump(alert[a].count) \in 0..MaxCount
  BY <1>2, BoundsAssumption DEF Bump, AlertRecord
<1>4. alert' \in [Alerts -> AlertRecord] /\ SameRows /\ SameStatuses
  BY <1>1, <1>2, <1>3 DEF AlertRecord, SameRows, SameStatuses
<1>. QED BY <1>4, SameTables, SoundDelivery DEF Good, PublishOccurrence, Inv, TypeOK

(* publish() of a new fault nobody is told of.                             *)
LEMMA PublishSilentlyStep ==
  ASSUME Inv, NEW f \in Fingerprints, NEW severity \in Severities, NEW rule \in Rules,
         PublishSilently(f, severity, rule)
  PROVE  Good /\ Opens(f)
<1>1. PICK a \in OpenedRows(f) : alert' = [alert EXCEPT ![a] = Opened(a, severity, rule)]
  BY DEF PublishSilently
<1>2. alert' \in [Alerts -> AlertRecord] /\ Opens(f)
  BY <1>1, OpenedIsRecord DEF Inv, TypeOK, Opens, PublishSilently
<1>. QED BY <1>2, SameTables, SoundDelivery DEF Good, PublishSilently, Inv, TypeOK

(* publish() of a new fault: the row is opened, initial rows are queued    *)
(* and delivered.                                                          *)
LEMMA PublishAndNotifyStep ==
  ASSUME Inv, NEW f \in Fingerprints, NEW severity \in Severities, NEW rule \in Rules,
         PublishAndNotify(f, severity, rule)
  PROVE  Good /\ Opens(f)
<1>1. PICK a \in OpenedRows(f) :
        LET row   == Opened(a, severity, rule)
            owned == [row EXCEPT !.policy = IF @ = NoPolicy THEN RoutePolicyOf[f, severity] ELSE @]
            al    == [alert EXCEPT ![a] = owned]
            q     == Queued(delivery, "initial", {a} \X DestinationIds(al, a, "initial"))
        IN  \E B \in SUBSET Dispatchable(q, {a}) : DispatchBatch(q, al, B)
  BY DEF PublishAndNotify
<1>. DEFINE row   == Opened(a, severity, rule)
            owned == [row EXCEPT !.policy = IF @ = NoPolicy THEN RoutePolicyOf[f, severity] ELSE @]
            al    == [alert EXCEPT ![a] = owned]
            q     == Queued(delivery, "initial", {a} \X DestinationIds(al, a, "initial"))
<1>2. a \in Alerts /\ row \in AlertRecord /\ row.status \in {"OPEN", "SUPPRESSED"}
  BY OpenedIsRecord DEF Inv
<1>3. owned \in AlertRecord /\ owned.status \in {"OPEN", "SUPPRESSED"}
  <2>1. RoutePolicyOf[f, severity] \in Policies \cup {NoPolicy}
    BY ConfigurationAssumption
  <2>. HIDE DEF row
  <2>. QED BY <1>2, <2>1 DEF AlertRecord
<1>. HIDE DEF row, owned
<1>4. /\ al \in [Alerts -> AlertRecord] /\ al[a].status \in {"OPEN", "SUPPRESSED"}
      /\ \A b \in Alerts \ {a} : al[b] = alert[b]
  BY <1>2, <1>3 DEF Inv, TypeOK
<1>5. Proper(delivery, q, al)
  BY QueuedRows, SoundDelivery DEF Inv, TypeOK
<1>6. PICK B \in SUBSET Dispatchable(q, {a}) : DispatchBatch(q, al, B)
  BY <1>1 DEF row, owned
<1>. HIDE DEF al, q
<1>7. /\ Proper(q, delivery', al) /\ alert' \in [Alerts -> AlertRecord]
      /\ \A b \in Alerts : alert'[b].status = al[b].status
  BY <1>4, <1>5, <1>6, Batch DEF Proper
<1>8. Proper(delivery, delivery', alert')
  BY <1>5, <1>7, ProperIsTransitive, AddressParts DEF Proper, Speaks
<1>. QED BY <1>2, <1>4, <1>7, <1>8 DEF Good, Opens, PublishAndNotify, Inv, TypeOK

(* resolve_alert() of one alert or of those of a source.                   *)
LEMMA ResolveAlertsStep ==
  ASSUME Inv, NEW S \in SUBSET {a \in Alerts : IsActive(a)}, ResolveAlerts(S)
  PROVE  Good /\ SameRows /\ Becomes(S, "RESOLVED")
<1>. DEFINE al  == [a \in Alerts |->
                     IF a \in S THEN [alert[a] EXCEPT !.status = "RESOLVED", !.resolved = TRUE]
                                ELSE alert[a]]
            who == UNION {{a} \X RecoveryIds(al, a) : a \in Recovering(S)}
            q   == Queued(delivery, "recovery", who)
<1>1. PICK B \in SUBSET Dispatchable(q, Recovering(S)) : DispatchBatch(q, al, B)
  BY DEF ResolveAlerts
<1>2. /\ al \in [Alerts -> AlertRecord]
      /\ \A a \in Alerts : al[a].status = "NONE" <=> alert[a].status = "NONE"
      /\ \A a \in Alerts : al[a].status = IF a \in S THEN "RESOLVED" ELSE alert[a].status
  BY DEF Inv, TypeOK, AlertRecord, IsActive, ActiveStatuses
<1>3. Proper(delivery, q, al)
  BY QueuedRows, SoundDelivery DEF Inv, TypeOK
<1>. HIDE DEF al, q
<1>4. /\ Proper(q, delivery', al) /\ alert' \in [Alerts -> AlertRecord]
      /\ \A b \in Alerts : alert'[b].status = al[b].status
  BY <1>1, <1>2, <1>3, Batch DEF Proper
<1>5. Proper(delivery, delivery', alert')
  BY <1>3, <1>4, ProperIsTransitive, AddressParts DEF Proper, Speaks
<1>. QED BY <1>2, <1>4, <1>5 DEF Good, SameRows, Becomes, ResolveAlerts, Inv, TypeOK

(* The handlers of operators other than a resolution, the expiry job and   *)
(* the passing of time: none touches the status of a delivery.             *)
LEMMA QuietStep ==
  ASSUME Inv,
         \/ \E a \in Alerts : Acknowledge(a) \/ Suppress(a) \/ GrowOlder(a) \/ RepeatPeriodEnds(a)
         \/ \E d \in Editable : EditDestination(d)
         \/ \E f \in Fingerprints : StartMaintenance(f) \/ MaintenanceEnds(f)
         \/ \E s \in Sources : SuppressionEnds(s)
         \/ SuppressionExpiry
  PROVE  Good /\ SameRows
<1>. SUFFICES /\ UNCHANGED delivery /\ alert' \in [Alerts -> AlertRecord] /\ SameRows
              /\ suppressing' \subseteq Sources /\ maintenance' \subseteq Fingerprints
              /\ enabled' \subseteq Destinations
  BY SameTables, SoundDelivery DEF Good, Inv, TypeOK
<1>1. ASSUME NEW a \in Alerts, Acknowledge(a)
      PROVE  alert' \in [Alerts -> AlertRecord] /\ SameRows
  BY <1>1 DEF Acknowledge, Inv, TypeOK, SameRows, AlertRecord, IsActive, ActiveStatuses
<1>2. ASSUME NEW a \in Alerts, Suppress(a)
      PROVE  /\ alert' \in [Alerts -> AlertRecord] /\ SameRows
             /\ suppressing' \subseteq Sources
  <2>1. SourceOf[a[1]] \in Sources
    BY ConfigurationAssumption DEF Alerts
  <2>. QED BY <1>2, <2>1 DEF Suppress, Inv, TypeOK, SameRows, AlertRecord, Exists, ActiveStatuses
<1>3. ASSUME NEW a \in Alerts, GrowOlder(a) \/ RepeatPeriodEnds(a)
      PROVE  alert' \in [Alerts -> AlertRecord] /\ SameRows
  <2>1. alert[a].age < MaxAge => alert[a].age + 1 \in 0..MaxAge
    BY BoundsAssumption DEF Inv, TypeOK, AlertRecord
  <2>2. CASE GrowOlder(a)
    <3>1. [alert[a] EXCEPT !.age = @ + 1] \in AlertRecord
      BY <2>1, <2>2 DEF GrowOlder, Inv, TypeOK, AlertRecord
    <3>. QED BY <2>2, <3>1 DEF GrowOlder, Inv, TypeOK, SameRows
  <2>3. CASE RepeatPeriodEnds(a)
    BY <2>3 DEF RepeatPeriodEnds, Inv, TypeOK, SameRows, AlertRecord
  <2>. QED BY <1>3, <2>2, <2>3
<1>4. ASSUME SuppressionExpiry
      PROVE  alert' \in [Alerts -> AlertRecord] /\ SameRows
  BY <1>4 DEF SuppressionExpiry, Inv, TypeOK, SameRows, AlertRecord, ActiveStatuses
<1>5. ASSUME NEW d \in Editable, EditDestination(d)
      PROVE  enabled' \subseteq Destinations
  BY <1>5, ConfigurationAssumption DEF EditDestination, Inv, TypeOK
<1>. QED BY <1>1, <1>2, <1>3, <1>4, <1>5
        DEF Acknowledge, Suppress, GrowOlder, RepeatPeriodEnds, EditDestination,
            StartMaintenance, MaintenanceEnds, SuppressionEnds, SuppressionExpiry,
            Inv, TypeOK, SameRows

(* A retry time that comes changes no status of a row.                     *)
LEMMA RetryTimeComesStep ==
  ASSUME Inv, NEW x \in Addresses, RetryTimeComes(x)
  PROVE  Good /\ SameRows /\ SameStatuses
<1>1. /\ delivery' \in [Addresses -> Row]
      /\ \A y \in Addresses : /\ delivery'[y].status = delivery[y].status
                              /\ WithinBudget(delivery[y]) => WithinBudget(delivery'[y])
  BY DEF RetryTimeComes, Inv, TypeOK, Row, WithinBudget
<1>2. Sound(delivery)
  BY SoundDelivery DEF Inv, TypeOK
<1>3. Proper(delivery, delivery', alert')
  BY <1>1, <1>2 DEF Proper, Sound, Distinct, Keeps, Speaks
<1>. QED BY <1>3 DEF Good, SameRows, SameStatuses, RetryTimeComes, Inv, TypeOK

(* dispatch_pending() over all alerts, on the tables q and al.             *)
LEMMA DispatchAllStep ==
  ASSUME NEW q, Sound(q), NEW al \in [Alerts -> AlertRecord], DispatchAll(q, al)
  PROVE  /\ Proper(q, delivery', al)
         /\ alert' \in [Alerts -> AlertRecord]
         /\ \A a \in Alerts : alert'[a].status = al[a].status
BY Batch DEF DispatchAll

(* run_escalation(): two rounds of queueing, then dispatching.             *)
LEMMA EscalateStep ==
  ASSUME NEW q, Sound(q), NEW al \in [Alerts -> AlertRecord], Escalate(q, al)
  PROVE  /\ Proper(q, delivery', al)
         /\ alert' \in [Alerts -> AlertRecord]
         /\ \A a \in Alerts : alert'[a].status = al[a].status
<1>. DEFINE q1 == Queued(q, "escalation", Escalations(q))
            q2 == Queued(q1, "repeat", Repeats(al))
<1>1. Proper(q, q1, al)
  BY QueuedRows
<1>2. Proper(q1, q2, al)
  BY <1>1, QueuedRows DEF Proper
<1>3. Proper(q, q2, al)
  BY <1>1, <1>2, ProperIsTransitive
<1>4. DispatchAll(q2, al)
  BY DEF Escalate
<1>. HIDE DEF q1, q2
<1>5. /\ Proper(q2, delivery', al) /\ alert' \in [Alerts -> AlertRecord]
      /\ \A a \in Alerts : alert'[a].status = al[a].status
  BY <1>3, <1>4, DispatchAllStep DEF Proper
<1>. QED BY <1>3, <1>5, ProperIsTransitive

(* The scheduled jobs that dispatch and escalate.                          *)
LEMMA JobStep ==
  ASSUME Inv, DispatchPending \/ EscalationCheck \/ Evaluate
  PROVE  Good /\ SameRows /\ SameStatuses
<1>1. Sound(delivery) /\ alert \in [Alerts -> AlertRecord]
  BY SoundDelivery DEF Inv, TypeOK
<1>2. /\ Proper(delivery, delivery', alert)
      /\ alert' \in [Alerts -> AlertRecord]
      /\ \A a \in Alerts : alert'[a].status = alert[a].status
  <2>1. CASE DispatchPending
    BY <1>1, <2>1, DispatchAllStep DEF DispatchPending
  <2>2. CASE EscalationCheck
    BY <1>1, <2>2, EscalateStep DEF EscalationCheck
  <2>3. CASE Evaluate
    <3>. PICK B \in SUBSET Dispatchable(delivery, Alerts) :
           \E out \in [B -> Outcomes] :
             Escalate(Delivered(delivery, alert, B, out),
                      AfterDispatch(alert, delivery, Delivered(delivery, alert, B, out)))
      BY <2>3 DEF Evaluate
    <3>1. PICK out \in [B -> Outcomes] :
            Escalate(Delivered(delivery, alert, B, out),
                     AfterDispatch(alert, delivery, Delivered(delivery, alert, B, out)))
      OBVIOUS
    <3>. DEFINE q  == Delivered(delivery, alert, B, out)
                al == AfterDispatch(alert, delivery, q)
    <3>2. Proper(delivery, q, alert)
      BY <1>1, DeliveredRows
    <3>3. al \in [Alerts -> AlertRecord] /\ \A a \in Alerts : al[a].status = alert[a].status
      BY <1>1, AfterDispatchAlerts
    <3>4. Escalate(q, al)
      BY <3>1
    <3>. HIDE DEF q, al
    <3>5. /\ Proper(q, delivery', al) /\ alert' \in [Alerts -> AlertRecord]
          /\ \A a \in Alerts : alert'[a].status = al[a].status
      BY <3>2, <3>3, <3>4, EscalateStep DEF Proper
    <3>6. Proper(q, delivery', alert)
      BY <3>3, <3>5, AddressParts DEF Proper, Speaks
    <3>. QED BY <3>2, <3>3, <3>5, <3>6, ProperIsTransitive
  <2>. QED BY <2>1, <2>2, <2>3
<1>3. Proper(delivery, delivery', alert')
  BY <1>2, AddressParts DEF Proper, Speaks
<1>. QED BY <1>2, <1>3 DEF Good, SameRows, SameStatuses, DispatchPending, EscalationCheck, Evaluate, Inv, TypeOK

(* Every step is good, and opens at most one row.                          *)
LEMMA EveryStep ==
  ASSUME Inv, [Next]_vars
  PROVE  Good /\ (SameRows \/ \E f \in Fingerprints : Opens(f))
<1>1. CASE Publish
  BY <1>1, PublishOccurrenceStep, PublishSilentlyStep, PublishAndNotifyStep DEF Publish
<1>2. ASSUME NEW G \in Groups, ResolveSource(G)
      PROVE  Good /\ SameRows
  BY <1>2, ResolveAlertsStep DEF ResolveSource
<1>3. CASE Operator
  <2>1. ASSUME NEW a \in Alerts, Resolve(a)
        PROVE  Good /\ SameRows
    BY <2>1, ResolveAlertsStep DEF Resolve
  <2>. QED BY <1>3, <2>1, QuietStep DEF Operator
<1>4. CASE Job
  BY <1>4, JobStep, QuietStep DEF Job
<1>5. CASE Time
  BY <1>5, QuietStep, RetryTimeComesStep DEF Time
<1>6. CASE UNCHANGED vars
  BY <1>6, SameTables, SoundDelivery DEF vars, Good, SameRows, Inv, TypeOK
<1>. QED BY <1>1, <1>2, <1>3, <1>4, <1>5, <1>6 DEF Next

-----------------------------------------------------------------------------
(* The empty tables satisfy the invariant.                                 *)
LEMMA InitInv == Init => Inv
<1>. SUFFICES ASSUME Init PROVE Inv
  OBVIOUS
<1>1. NoAlert \in AlertRecord
  BY ConfigurationAssumption, BoundsAssumption DEF NoAlert, AlertRecord
<1>2. NoRow \in Row
  BY DEF NoRow, Row, DeliveryStatuses
<1>3. TypeOK
  BY <1>1, <1>2 DEF Init, TypeOK
<1>4. OneRow
  BY DEF Init, OneRow, Exists, NoAlert
<1>5. Sound(delivery)
  BY <1>2, MaxRetriesAssumption DEF Init, Sound, Distinct, WithinBudget, NoRow, LiveStatuses
<1>. QED BY <1>3, <1>4, <1>5, SoundDelivery DEF Inv

(* Every step keeps the invariant; publish() keeps OneRow because it opens *)
(* the only row of the fingerprint or the first.                           *)
LEMMA NextInv == Inv /\ [Next]_vars => Inv'
<1>. SUFFICES ASSUME Inv, [Next]_vars PROVE Inv'
  OBVIOUS
<1>1. Good /\ (SameRows \/ \E f \in Fingerprints : Opens(f))
  BY EveryStep
<1>2. Sound(delivery)'
  BY <1>1 DEF Good, Proper, Sound, Distinct
<1>3. TypeOK' /\ NoDuplicateNotification' /\ RetryBudget'
  <2>1. (Sound(delivery) <=>
           delivery \in [Addresses -> Row] /\ NoDuplicateNotification /\ RetryBudget)'
    BY SoundDelivery, PTL
  <2>. QED BY <1>1, <1>2, <2>1 DEF Good, TypeOK, Proper, Sound
<1>4. OneRow'
  <2>1. CASE SameRows
    BY <2>1 DEF SameRows, Inv, OneRow, Exists
  <2>2. ASSUME NEW f \in Fingerprints, Opens(f)
        PROVE  OneRow'
    <3>1. PICK a \in OpenedRows(f) :
            \A b \in Alerts \ {a} : alert'[b].status = alert[b].status
      BY <2>2 DEF Opens
    <3>2. /\ a \in Alerts /\ a[1] = f
          /\ \A b \in Alerts : b[1] = f /\ Exists(b) => b = a
      <4>1. ASSUME NEW b \in Alerts, b[1] = f, Exists(b)
            PROVE  alert[b].status = "RESOLVED"
        BY <2>2, <4>1 DEF Opens, ActiveOf, IsActive, Exists, Inv, TypeOK, AlertRecord
      <4>2. a \in Alerts /\ a[1] = f
        BY <3>1 DEF OpenedRows, RowsOf
      <4>3. ASSUME NEW b \in Alerts, b[1] = f, Exists(b)
            PROVE  Exists(a)
        BY <3>1, <4>1, <4>3 DEF OpenedRows, RowsOf
      <4>. QED BY <4>2, <4>3 DEF Inv, OneRow
    <3>3. \A b \in Alerts : b[1] = f /\ Exists(b)' => b = a
      BY <3>1, <3>2 DEF Exists
    <3>4. \A b \in Alerts : b[1] # f => (Exists(b)' <=> Exists(b))
      BY <3>1, <3>2 DEF Exists
    <3>5. ASSUME NEW b \in Alerts, NEW c \in Alerts, Exists(b)', Exists(c)', b[1] = c[1]
          PROVE  b = c
      <4>1. CASE b[1] = f
        BY <3>3, <3>5, <4>1
      <4>2. CASE b[1] # f
        BY <3>4, <3>5, <4>2 DEF Inv, OneRow
      <4>. QED BY <4>1, <4>2
    <3>. QED BY <3>5 DEF OneRow
  <2>. QED BY <1>1, <2>1, <2>2
<1>. QED BY <1>3, <1>4 DEF Inv

-----------------------------------------------------------------------------
(* Inv holds in every reachable state.                                     *)
THEOREM Invariance == Spec => []Inv
BY InitInv, NextInv, PTL DEF Spec

(* The tables hold rows of their types, whatever the handlers do: no       *)
(* handler leaves a half-written alert or delivery.                        *)
THEOREM TypeCorrectness == Spec => []TypeOK
<1>1. Inv => TypeOK
  BY DEF Inv
<1>. QED BY <1>1, Invariance, PTL

(* publish(), the resolutions, acknowledgement, suppression and its expiry *)
(* keep at most one active alert for a fingerprint.                        *)
THEOREM OneActiveAlertAlways == Spec => []OneActiveAlert
<1>1. Inv => OneActiveAlert
  BY DEF Inv, OneRow, OneActiveAlert, Exists, IsActive, ActiveStatuses
<1>. QED BY <1>1, Invariance, PTL

(* One transaction at a time, _queue_deliveries(), deliver() and           *)
(* run_escalation() never have two rows of one kind, sent or to be sent,   *)
(* for one alert and destination.  The two jobs that run run_escalation()  *)
(* may overlap, and so may two resolutions: EscalationsBounded and         *)
(* RecoveriesBounded say what is then true, and FaultToldOnce that the     *)
(* first notification is still one.                                        *)
THEOREM NoDuplicates == Spec => []NoDuplicateNotification
<1>1. Inv => NoDuplicateNotification
  BY DEF Inv
<1>. QED BY <1>1, Invariance, PTL

(* deliver() never tries a row more often than the retry schedule allows.  *)
THEOREM Budget == Spec => []RetryBudget
<1>1. Inv => RetryBudget
  BY DEF Inv
<1>. QED BY <1>1, Invariance, PTL

(* One transaction at a time, no destination is told twice of an alert in  *)
(* one of the kinds other than repeat, through resolutions, reopenings and *)
(* retries.  Overlapping transactions can tell of an escalation or of a    *)
(* recovery again: EscalationsBounded, RecoveriesBounded.                  *)
THEOREM ToldOnce == Spec => NotifiedOnce
<1>1. ASSUME Inv, Inv', [Next]_vars
      PROVE  \A x \in NewlySent :
               x[2] # "repeat" => \A s \in Slots : delivery[x[1], x[2], x[3], s].status # "SENT"
  <2>. SUFFICES ASSUME NEW x \in NewlySent, x[2] # "repeat", NEW s \in Slots,
                       delivery[x[1], x[2], x[3], s].status = "SENT"
                PROVE  FALSE
    OBVIOUS
  <2>. DEFINE y == <<x[1], x[2], x[3], s>>
  <2>1. /\ x \in Addresses /\ y \in Addresses
        /\ delivery[x].status # "SENT" /\ delivery'[x].status = "SENT"
    BY AddressParts DEF NewlySent
  <2>2. Sound(delivery') /\ Keeps(delivery, delivery')
    BY <1>1, EveryStep DEF Good, Proper
  <2>3. delivery[y].status = "SENT" /\ delivery'[y].status = "SENT"
    BY <2>1, <2>2 DEF Keeps
  <2>4. x = y
    BY <2>1, <2>2, <2>3 DEF Sound, Distinct, LiveStatuses
  <2>. QED BY <2>1, <2>3, <2>4
<1>. QED BY <1>1, Invariance, PTL DEF Spec, NotifiedOnce

(* Whatever was queued before, a notification other than a recovery leaves *)
(* only for an alert that is open or acknowledged when the handler ends.   *)
THEOREM SilencedStaySilent == Spec => SilencedAlertsStaySilent
<1>1. ASSUME Inv, [Next]_vars
      PROVE  \A x \in NewlySent : x[2] # "recovery" =>
               alert'[x[1]].status \in {"OPEN", "ACKNOWLEDGED"}
  BY <1>1, EveryStep DEF Good, Proper, Speaks, NewlySent
<1>. QED BY <1>1, Invariance, PTL DEF Spec, SilencedAlertsStaySilent
-----------------------------------------------------------------------------
(* The tables implement AlertBoard.  With one row for a fingerprint the    *)
(* board is read off that row, so a handler that gives the rows in S a     *)
(* status repaints the slots of S and no other.                            *)

(* The board shows the status of the active row, if there is one.          *)
ShowsActiveRow ==
  \A f \in Fingerprints :
    /\ \A a \in Alerts : a[1] = f /\ IsActive(a) => Shown(f) = alert[a].status
    /\ (\A a \in Alerts : a[1] = f => ~IsActive(a)) => Shown(f) = "CLEAR"

(* It does, because a fingerprint has one row.                             *)
LEMMA ShownIsTheActiveRow == OneRow => ShowsActiveRow
<1>. SUFFICES ASSUME OneRow, NEW f \in Fingerprints
              PROVE  /\ \A a \in Alerts : a[1] = f /\ IsActive(a) => Shown(f) = alert[a].status
                     /\ (\A a \in Alerts : a[1] = f => ~IsActive(a)) => Shown(f) = "CLEAR"
  BY DEF ShowsActiveRow
<1>1. ASSUME NEW a \in Alerts, a[1] = f, IsActive(a)
      PROVE  Shown(f) = alert[a].status
  <2>1. a \in ActiveOf(f)
    BY <1>1 DEF ActiveOf
  <2>2. \A b \in ActiveOf(f) : b = a
    BY <1>1 DEF ActiveOf, OneRow, IsActive, Exists, ActiveStatuses
  <2>3. (CHOOSE b \in ActiveOf(f) : TRUE) \in ActiveOf(f)
    BY <2>1
  <2>. QED BY <2>1, <2>2, <2>3 DEF Shown
<1>. QED BY <1>1 DEF Shown, ActiveOf

(* The same of the next state.                                             *)
LEMMA ShownNextIsTheActiveRow == OneRow' => ShowsActiveRow'
BY ShownIsTheActiveRow, PTL

(* What the board shows of a fingerprint whose row has status v.           *)
Face(v) == IF v \in ActiveStatuses THEN v ELSE "CLEAR"

(* Giving the rows in S the status v changes the slots of S, and no other. *)
LEMMA Repaint ==
  ASSUME OneRow, OneRow', NEW S \in SUBSET Alerts, NEW v, v # "NONE", Becomes(S, v)
  PROVE  LET F == {f \in Fingerprints : \E a \in S : a[1] = f}
         IN  ShownBoard' = [f \in Fingerprints |-> IF f \in F THEN Face(v) ELSE ShownBoard[f]]
<1>. DEFINE F == {f \in Fingerprints : \E a \in S : a[1] = f}
<1>1. ShowsActiveRow /\ ShowsActiveRow'
  BY ShownIsTheActiveRow, ShownNextIsTheActiveRow
<1>2. ASSUME NEW f \in F
      PROVE  Shown(f)' = Face(v)
  <2>1. PICK a \in S : a[1] = f /\ alert'[a].status = v
    BY DEF Becomes
  <2>2. \A b \in Alerts : b[1] = f /\ IsActive(b)' => b = a
    BY <2>1 DEF OneRow, Exists, IsActive, ActiveStatuses
  <2>3. CASE v \in ActiveStatuses
    BY <1>1, <2>1, <2>3 DEF Face, IsActive, ShowsActiveRow
  <2>4. CASE v \notin ActiveStatuses
    BY <1>1, <2>1, <2>2, <2>4 DEF Face, IsActive, ShowsActiveRow
  <2>. QED BY <2>3, <2>4
<1>3. ASSUME NEW f \in Fingerprints \ F
      PROVE  Shown(f)' = Shown(f)
  <2>1. \A a \in Alerts : a[1] = f => alert'[a].status = alert[a].status
    BY DEF Becomes
  <2>2. \A a \in Alerts : a[1] = f => (IsActive(a)' <=> IsActive(a))
    BY <2>1 DEF IsActive
  <2>3. CASE \E a \in Alerts : a[1] = f /\ IsActive(a)
    BY <1>1, <2>1, <2>2, <2>3 DEF ShowsActiveRow
  <2>4. CASE \A a \in Alerts : a[1] = f => ~IsActive(a)
    BY <1>1, <2>2, <2>4 DEF ShowsActiveRow
  <2>. QED BY <2>3, <2>4
<1>. HIDE DEF F
<1>4. \A f \in Fingerprints : Shown(f)' = IF f \in F THEN Face(v) ELSE ShownBoard[f]
  BY <1>2, <1>3 DEF ShownBoard
<1>5. ShownBoard' = [f \in Fingerprints |-> IF f \in F THEN Face(v) ELSE ShownBoard[f]]
  BY <1>4 DEF ShownBoard
<1>. QED BY <1>5 DEF F

(* The slots that the rows in S fill, in the words of AlertBoard.          *)
SlotsOf(S) == {f \in Fingerprints : \E a \in S : a[1] = f}

(* The same in the words of AlertBoard.                                    *)
LEMMA Shows ==
  ASSUME OneRow, OneRow', NEW S \in SUBSET Alerts, NEW v, v # "NONE", Becomes(S, v)
  PROVE  Board!Show(SlotsOf(S), Face(v))
BY Repaint DEF Board!Show, SlotsOf

(* An alert fills the slot of its fingerprint.                             *)
LEMMA SlotOfOne ==
  ASSUME NEW a \in Alerts
  PROVE  a[1] \in Fingerprints /\ SlotsOf({a}) = {a[1]}
BY DEF Alerts, SlotsOf

(* A handler that changes no status changes nothing on the board.          *)
LEMMA BoardStands ==
  ASSUME OneRow, OneRow', SameStatuses
  PROVE  UNCHANGED ShownBoard
<1>1. Becomes({}, "OPEN")
  BY DEF Becomes, SameStatuses
<1>2. ShownBoard' = [f \in Fingerprints |-> ShownBoard[f]]
  BY <1>1, Repaint
<1>. QED BY <1>2 DEF ShownBoard

(* Each handler takes the board's step of its name, or none.               *)
LEMMA BoardPublishStep ==
  ASSUME Inv, OneRow', NEW f \in Fingerprints, NEW severity \in Severities,
         \/ PublishOccurrence(f, severity)
         \/ \E rule \in Rules :
              PublishSilently(f, severity, rule) \/ PublishAndNotify(f, severity, rule)
  PROVE  Board!Raise(f) \/ UNCHANGED ShownBoard
<1>1. CASE PublishOccurrence(f, severity)
  BY <1>1, PublishOccurrenceStep, BoardStands DEF Inv
<1>2. ASSUME Opens(f)
      PROVE  Board!Raise(f)
  <2>1. PICK a \in OpenedRows(f) :
          /\ alert'[a].status \in {"OPEN", "SUPPRESSED"}
          /\ \A b \in Alerts \ {a} : alert'[b].status = alert[b].status
    BY <1>2 DEF Opens
  <2>2. a \in Alerts /\ a[1] = f
    BY DEF OpenedRows, RowsOf
  <2>3. ASSUME NEW v \in {"OPEN", "SUPPRESSED"}, alert'[a].status = v
        PROVE  Board!Show({f}, v)
    <3>1. Becomes({a}, v)
      BY <2>1, <2>3 DEF Becomes
    <3>2. Board!Show(SlotsOf({a}), Face(v))
      BY <2>2, <3>1, Shows DEF Inv
    <3>. QED BY <2>2, <3>2, SlotOfOne DEF Face, ActiveStatuses
  <2>4. ShownBoard[f] = "CLEAR"
    BY <1>2 DEF Opens, Shown, ShownBoard
  <2>. QED BY <2>1, <2>3, <2>4 DEF Board!Raise
<1>3. ASSUME NEW rule \in Rules,
             PublishSilently(f, severity, rule) \/ PublishAndNotify(f, severity, rule)
      PROVE  Opens(f)
  BY <1>3, PublishSilentlyStep, PublishAndNotifyStep
<1>. QED BY <1>1, <1>2, <1>3

(* A resolution, of one alert or of all active ones of a source, clears    *)
(* their slots.                                                            *)
LEMMA BoardResolveStep ==
  ASSUME Inv, OneRow', NEW S \in SUBSET {a \in Alerts : IsActive(a)}, ResolveAlerts(S)
  PROVE  Board!Clear(SlotsOf(S))
<1>1. Becomes(S, "RESOLVED") /\ S \in SUBSET Alerts
  BY ResolveAlertsStep
<1>2. Board!Show(SlotsOf(S), Face("RESOLVED"))
  BY <1>1, Shows DEF Inv
<1>. QED BY <1>2 DEF Face, ActiveStatuses, Board!Clear

(* Acknowledgement and suppression show on the slot of the alert, even     *)
(* when the alert was resolved before.                                     *)
LEMMA BoardOperatorStep ==
  ASSUME Inv, OneRow', NEW a \in Alerts
  PROVE  /\ Acknowledge(a) => Board!Acknowledge(a[1])
         /\ Suppress(a) => Board!Suppress(a[1])
<1>1. ASSUME NEW v \in ActiveStatuses, Becomes({a}, v)
      PROVE  Board!Show({a[1]}, v)
  <2>1. Board!Show(SlotsOf({a}), Face(v))
    BY <1>1, Shows DEF Inv, ActiveStatuses
  <2>. QED BY <2>1, SlotOfOne DEF Face
<1>2. alert \in [Alerts -> AlertRecord] /\ ShowsActiveRow
  BY ShownIsTheActiveRow DEF Inv, TypeOK
<1>3. ASSUME Acknowledge(a)
      PROVE  Board!Acknowledge(a[1])
  <2>1. Becomes({a}, "ACKNOWLEDGED")
    BY <1>2, <1>3 DEF Acknowledge, Becomes, AlertRecord
  <2>2. ShownBoard[a[1]] # "CLEAR"
    BY <1>2, <1>3, SlotOfOne
       DEF Acknowledge, IsActive, ActiveStatuses, ShowsActiveRow, ShownBoard
  <2>. QED BY <1>1, <2>1, <2>2 DEF Board!Acknowledge, ActiveStatuses
<1>4. ASSUME Suppress(a)
      PROVE  Board!Suppress(a[1])
  <2>1. Becomes({a}, "SUPPRESSED")
    BY <1>2, <1>4 DEF Suppress, Becomes, AlertRecord
  <2>. QED BY <1>1, <2>1 DEF Board!Suppress, ActiveStatuses
<1>. QED BY <1>3, <1>4

(* The expiry job opens exactly slots that showed a suppression.           *)
LEMMA BoardExpiryStep ==
  ASSUME Inv, OneRow', SuppressionExpiry
  PROVE  \E F \in SUBSET Fingerprints : Board!Unsuppress(F)
<1>. DEFINE S == {a \in Alerts : alert[a].status = "SUPPRESSED" /\ ~IsSuppressed(a)}
<1>1. Becomes(S, "OPEN")
  BY DEF SuppressionExpiry, Becomes, Inv, TypeOK, AlertRecord
<1>2. Board!Show(SlotsOf(S), "OPEN")
  BY <1>1, Shows DEF Inv, Face, ActiveStatuses
<1>3. ASSUME NEW f \in SlotsOf(S)
      PROVE  ShownBoard[f] = "SUPPRESSED"
  BY <1>3, ShownIsTheActiveRow
     DEF SlotsOf, ShowsActiveRow, ShownBoard, IsActive, ActiveStatuses, Inv
<1>4. SlotsOf(S) \in SUBSET Fingerprints
  BY DEF SlotsOf
<1>. QED BY <1>2, <1>3, <1>4 DEF Board!Unsuppress

(* Every step of the component is a step of the board, or none.            *)
LEMMA BoardStep ==
  ASSUME Inv, OneRow', [Next]_vars
  PROVE  [Board!Next]_ShownBoard
<1>1. CASE Publish
  BY <1>1, BoardPublishStep DEF Publish, Board!Next
<1>2. ASSUME NEW S \in SUBSET {a \in Alerts : IsActive(a)}, ResolveAlerts(S)
      PROVE  Board!Next
  <2>1. SlotsOf(S) \in SUBSET Fingerprints
    BY DEF SlotsOf
  <2>. QED BY <1>2, <2>1, BoardResolveStep DEF Board!Next
<1>3. ASSUME NEW a \in Alerts, Acknowledge(a) \/ Suppress(a)
      PROVE  Board!Next
  BY <1>3, BoardOperatorStep, SlotOfOne DEF Board!Next
<1>4. CASE SuppressionExpiry
  BY <1>4, BoardExpiryStep DEF Board!Next
<1>5. ASSUME \/ UNCHANGED alert
             \/ DispatchPending \/ EscalationCheck \/ Evaluate
             \/ \E a \in Alerts : GrowOlder(a) \/ RepeatPeriodEnds(a)
      PROVE  UNCHANGED ShownBoard
  <2>1. CASE UNCHANGED alert
    BY <2>1, BoardStands DEF SameStatuses, Inv
  <2>2. CASE DispatchPending \/ EscalationCheck \/ Evaluate
    BY <2>2, JobStep, BoardStands DEF Inv
  <2>3. ASSUME NEW a \in Alerts, GrowOlder(a) \/ RepeatPeriodEnds(a)
        PROVE  UNCHANGED ShownBoard
    <3>1. SameStatuses
      BY <2>3 DEF GrowOlder, RepeatPeriodEnds, SameStatuses, Inv, TypeOK, AlertRecord
    <3>. QED BY <3>1, BoardStands DEF Inv
  <2>. QED BY <1>5, <2>1, <2>2, <2>3
<1>6. CASE \E G \in Groups : ResolveSource(G)
  BY <1>2, <1>6 DEF ResolveSource
<1>7. CASE Operator
  <2>1. ASSUME NEW a \in Alerts, Resolve(a)
        PROVE  Board!Next
    BY <1>2, <2>1 DEF Resolve
  <2>. QED BY <1>3, <1>5, <1>7, <2>1 DEF Operator, EditDestination, StartMaintenance
<1>8. CASE Job
  BY <1>4, <1>5, <1>8 DEF Job
<1>9. CASE Time
  BY <1>5, <1>9 DEF Time, RetryTimeComes, SuppressionEnds, MaintenanceEnds
<1>10. CASE UNCHANGED vars
  BY <1>5, <1>10 DEF vars
<1>. QED BY <1>1, <1>6, <1>7, <1>8, <1>9, <1>10 DEF Next

(* The handlers do to the alerts table what AlertBoard promises: a fault   *)
(* raises only a clear fingerprint, only an operator acknowledges or       *)
(* suppresses, only a suppression that ran out opens what was silenced,    *)
(* and a resolution clears.                                                *)
THEOREM BoardImplemented == Spec => ImplementsBoard
<1>1. Init => Board!Init
  <2>1. Init => \A f \in Fingerprints : Shown(f) = "CLEAR"
    BY DEF Init, Shown, ActiveOf, IsActive, ActiveStatuses, NoAlert
  <2>. QED BY <2>1 DEF Board!Init, ShownBoard
<1>2. Inv /\ Inv' /\ [Next]_vars => [Board!Next]_ShownBoard
  BY BoardStep DEF Inv
<1>. QED BY <1>1, <1>2, Invariance, PTL DEF Spec, ImplementsBoard, Board!Spec

-----------------------------------------------------------------------------
(* EscalationJobs: overlapping jobs of one escalation.                     *)

(* The jobs whose commit will insert a row, and the rows whose failure a   *)
(* job has flushed.                                                        *)
Adders       == {j \in Jobs : job[j].adds}
Condemned(j) == {x \in Notices : job[j].flushed[x] = "FAILED"}

Uncondemned(A) == {x \in LiveNotices : \A j \in A : x \notin Condemned(j)}

(* Only a job that escalates inserts; what a job has read or flushed is a  *)
(* row that exists, and it does not deliver again what it gave up.         *)
Grounded ==
  \A j \in Jobs :
    /\ job[j].adds => j \in Escalators /\ job[j].stage \in {"queued", "closing"}
    /\ \A x \in job[j].held \cup Locked(j) : notice[x] # "NONE"
    /\ job[j].held \cap Condemned(j) = {}

(* A job that inserts has condemned every row it saw alive: whichever of   *)
(* them commit, the rows that then live are no more than the escalators.   *)
Covered ==
  \A A \in SUBSET Adders :
    Cardinality(Uncondemned(A)) + Cardinality(A) <= Cardinality(Escalators)

EscInv == EscTypeOK /\ Grounded /\ Covered

(* What the counts are taken of is finite.                                 *)
LEMMA EscFinite ==
  ASSUME EscTypeOK, Grounded
  PROVE  /\ Adders \subseteq Escalators
         /\ \A S : S \subseteq Notices \/ S \subseteq Escalators =>
              IsFiniteSet(S) /\ Cardinality(S) \in Nat
<1>1. Adders \subseteq Escalators
  BY DEF Adders, Grounded
<1>. QED BY <1>1, JobsAssumption, FS_Subset, FS_CardinalityType

(* A step that adds no live row and condemns no less keeps the count.      *)
LEMMA CoveredKept ==
  ASSUME EscTypeOK, EscTypeOK', Grounded, Grounded', Covered,
         Adders' \subseteq Adders, LiveNotices' \subseteq LiveNotices,
         \A j \in Adders' : Condemned(j)' = Condemned(j)
  PROVE  Covered'
<1> SUFFICES ASSUME NEW A \in SUBSET Adders'
             PROVE  Cardinality(Uncondemned(A)') + Cardinality(A) <= Cardinality(Escalators)
  BY DEF Covered
<1>1. Uncondemned(A)' \subseteq Uncondemned(A)
  BY DEF Uncondemned
<1>2. Uncondemned(A) \subseteq Notices /\ A \subseteq Escalators
  BY EscFinite DEF Uncondemned, LiveNotices
<1>3. Cardinality(Uncondemned(A)') <= Cardinality(Uncondemned(A))
  BY <1>1, <1>2, EscFinite, FS_Subset
<1>4. /\ Cardinality(Uncondemned(A)) \in Nat /\ Cardinality(Uncondemned(A)') \in Nat
      /\ Cardinality(A) \in Nat /\ Cardinality(Escalators) \in Nat
  BY <1>1, <1>2, EscFinite
<1>5. Cardinality(Uncondemned(A)) + Cardinality(A) <= Cardinality(Escalators)
  BY DEF Covered
<1>. QED BY <1>3, <1>4, <1>5

(* A set grows by one element at most.                                     *)
LEMMA OneMore ==
  ASSUME NEW S, IsFiniteSet(S), NEW x
  PROVE  Cardinality(S \cup {x}) <= Cardinality(S) + 1
<1>1. Cardinality(S) \in Nat
  BY FS_CardinalityType
<1>2. CASE x \in S
  <2>1. S \cup {x} = S
    BY <1>2
  <2>2. Cardinality(S \cup {x}) = Cardinality(S)
    BY <2>1
  <2>. QED BY <1>1, <2>2
<1>3. CASE x \notin S
  <2>1. Cardinality(S \cup {x}) = Cardinality(S) + 1
    BY <1>3, FS_AddElement
  <2>. QED BY <1>1, <2>1
<1>. QED BY <1>2, <1>3

(* With no row and no open job, EscInv holds.                              *)
LEMMA EscInitInv == EscInit => EscInv
<1> SUFFICES ASSUME EscInit PROVE EscInv
  OBVIOUS
<1>1. EscTypeOK
  BY DEF EscInit, EscTypeOK, JobRecord, IdleJob, NoticeStatuses
<1>2. Grounded
  BY DEF EscInit, Grounded, IdleJob, Locked
<1>3. Adders = {} /\ LiveNotices = {}
  BY DEF EscInit, Adders, LiveNotices, LiveStates, IdleJob
<1>4. Covered
  <2> SUFFICES ASSUME NEW A \in SUBSET Adders
               PROVE  Cardinality(Uncondemned(A)) + Cardinality(A) <= Cardinality(Escalators)
    BY DEF Covered
  <2>1. Uncondemned(A) = {} /\ A = {}
    BY <1>3 DEF Uncondemned
  <2>. QED BY <2>1, <1>1, <1>2, EscFinite, FS_EmptySet
<1>. QED BY <1>1, <1>2, <1>4 DEF EscInv

(* What a commit writes.                                                   *)
LEMMA CommittedTable ==
  ASSUME EscTypeOK, Grounded, NEW j \in Jobs,
         NEW W \in SUBSET job[j].held, NEW out \in Outcome(W)
  PROVE  /\ Committed(j, W, out) \in [Notices -> NoticeStatuses]
         /\ \A x \in Notices : notice[x] # "NONE" => Committed(j, W, out)[x] # "NONE"
         /\ \A x \in Notices \ (revived \cup RevivedBy(Committed(j, W, out))) :
              Committed(j, W, out)[x] \in LiveStates =>
                notice[x] \in LiveStates /\ x \notin Condemned(j)
<1> USE DEF EscTypeOK, JobRecord, NoticeStatuses, LiveStates, Settled
<1>1. job[j] \in JobRecord
  OBVIOUS
<1>2. ASSUME NEW x \in Notices
      PROVE  /\ Committed(j, W, out)[x] = IF x \in W THEN out[x] ELSE Visible(j, x)
             /\ x \in W => out[x] \in Settled
             /\ Visible(j, x) \in NoticeStatuses
             /\ notice[x] # "NONE" => Visible(j, x) # "NONE"
  BY <1>1 DEF Committed, Visible, Locked, Outcome
<1>3. ASSUME NEW x \in Notices \ (revived \cup RevivedBy(Committed(j, W, out))),
             Committed(j, W, out)[x] \in LiveStates
      PROVE  notice[x] \in LiveStates /\ x \notin Condemned(j)
  <2>1. notice[x] \in LiveStates
    BY <1>1, <1>2, <1>3 DEF RevivedBy, Grounded, Visible, Locked
  <2>2. x \notin Condemned(j)
    BY <1>1, <1>2, <1>3 DEF Condemned, Grounded, Visible, Locked
  <2>. QED BY <2>1, <2>2
<1>. QED BY <1>2, <1>3 DEF Committed

(* When a job ends, and no row vanishes, the others stay grounded.         *)
LEMMA OthersGrounded ==
  ASSUME EscTypeOK, Grounded, NEW j \in Jobs, job'[j] = IdleJob,
         \A i \in Jobs \ {j} : job'[i] = job[i],
         \A x \in Notices : notice[x] # "NONE" => notice'[x] # "NONE"
  PROVE  Grounded'
<1>1. ASSUME NEW i \in Jobs \ {j}
      PROVE  /\ job'[i].adds => i \in Escalators /\ job'[i].stage \in {"queued", "closing"}
             /\ \A x \in job'[i].held \cup Locked(i)' : notice'[x] # "NONE"
             /\ job'[i].held \cap Condemned(i)' = {}
  <2>1. job[i].held \cup Locked(i) \subseteq Notices
    BY DEF EscTypeOK, JobRecord, Locked
  <2>2. Locked(i)' = Locked(i) /\ Condemned(i)' = Condemned(i)
    BY DEF Locked, Condemned
  <2>. QED BY <2>1, <2>2 DEF Grounded
<1>2. job'[j].held = {} /\ Locked(j)' = {} /\ ~job'[j].adds
  BY DEF IdleJob, Locked
<1>. QED BY <1>1, <1>2 DEF Grounded

(* Every step of a job keeps EscInv.                                       *)
LEMMA EscNextInv == EscInv /\ [EscNext]_escVars => EscInv'
<1> SUFFICES ASSUME EscInv, [EscNext]_escVars PROVE EscInv'
  OBVIOUS
<1> USE DEF EscInv
<1>1. ASSUME NEW j \in Jobs, StartDispatch(j) \/ StartRedispatch(j)
      PROVE  EscInv'
  <2>1. PICK stage \in {"sending", "closing"}, S \in {{}, DueForDispatch(j)} :
          /\ job' = [job EXCEPT ![j].stage = stage, ![j].held = S]
          /\ stage = "sending" => job[j].stage = "idle"
          /\ UNCHANGED <<notice, revived>>
    BY <1>1 DEF StartDispatch, StartRedispatch
  <2>2. EscTypeOK'
    BY <2>1 DEF EscTypeOK, JobRecord, DueForDispatch
  <2>3. \A i \in Jobs : /\ Locked(i)' = Locked(i) /\ Condemned(i)' = Condemned(i)
                        /\ job'[i].adds = job[i].adds
    BY <2>1 DEF EscTypeOK, JobRecord, Locked, Condemned
  <2>4. \A x \in DueForDispatch(j) : notice[x] # "NONE" /\ x \notin Condemned(j)
    BY DEF DueForDispatch, Visible, Locked, Condemned, Grounded
  <2>5. Grounded'
    BY <2>1, <2>3, <2>4 DEF Grounded, EscTypeOK, JobRecord
  <2>6. Covered'
    BY <2>1, <2>2, <2>3, <2>5, CoveredKept DEF Adders, LiveNotices
  <2>. QED BY <2>2, <2>5, <2>6
<1>2. ASSUME NEW j \in Jobs, QueueEscalation(j)
      PROVE  EscInv'
  <2>0. PICK W \in SUBSET job[j].held, isDue \in BOOLEAN :
          \E out \in Outcome(W) : job' = [job EXCEPT ![j] = Escalated(j, W, out, isDue)]
    BY <1>2 DEF QueueEscalation
  <2>1. PICK out \in Outcome(W) : job' = [job EXCEPT ![j] = Escalated(j, W, out, isDue)]
    BY <2>0
  <2>2. j \in Escalators /\ job[j].stage = "sending" /\ UNCHANGED <<notice, revived>>
    BY <1>2 DEF QueueEscalation
  <2>3. W \subseteq Notices /\ \A x \in W : out[x] \in Settled
    BY DEF Outcome, EscTypeOK, JobRecord
  <2>4. Escalated(j, W, out, isDue) \in JobRecord
    BY <2>3 DEF Escalated, JobRecord, NoticeStatuses, Settled
  <2>5. EscTypeOK'
    BY <2>1, <2>2, <2>4 DEF EscTypeOK
  <2>6. \A i \in Jobs \ {j} : job'[i] = job[i]
    BY <2>1 DEF EscTypeOK
  <2>7. /\ job'[j].stage = "queued" /\ job'[j].held = {}
        /\ \A x \in Notices : job'[j].flushed[x] = IF x \in W THEN out[x] ELSE "NONE"
        /\ job'[j].adds => \A x \in Notices \ W : notice[x] \notin LiveStates
        /\ job'[j].adds => \A x \in W : out[x] \notin LiveStates
    BY <2>1, <2>3 DEF Escalated, EscTypeOK, Blocks
  <2>8. Grounded'
    BY <2>2, <2>3, <2>6, <2>7 DEF Grounded, Locked, Condemned
  <2>9. job'[j].adds => LiveNotices \subseteq Condemned(j)'
    BY <2>3, <2>7 DEF LiveNotices, Condemned, Settled, LiveStates
  <2>10. ASSUME NEW A \in SUBSET Adders'
         PROVE  Cardinality(Uncondemned(A)') + Cardinality(A) <= Cardinality(Escalators)
    <3>1. CASE j \in A
      <4>1. Uncondemned(A)' = {}
        BY <2>2, <2>9, <3>1 DEF Uncondemned, Adders, LiveNotices
      <4>2. A \subseteq Escalators
        BY <2>8 DEF Grounded, Adders
      <4>. QED BY <4>1, <4>2, JobsAssumption, FS_EmptySet, FS_Subset, FS_CardinalityType
    <3>2. CASE j \notin A
      <4>1. A \subseteq Adders /\ Uncondemned(A)' = Uncondemned(A)
        BY <2>2, <2>6, <3>2 DEF Uncondemned, Adders, LiveNotices, Condemned
      <4>. QED BY <4>1 DEF Covered
    <3>. QED BY <3>1, <3>2
  <2>. QED BY <2>5, <2>8, <2>10 DEF Covered
<1>3. ASSUME NEW j \in Jobs, CommitOutcomes(j) \/ AbortJob(j)
      PROVE  EscInv'
  <2>1. job' = [job EXCEPT ![j] = IdleJob]
    BY <1>3 DEF CommitOutcomes, AbortJob
  <2>2. /\ notice' \in [Notices -> NoticeStatuses]
        /\ \A x \in Notices : notice[x] # "NONE" => notice'[x] # "NONE"
        /\ revived' \subseteq Notices
        /\ LiveNotices' \subseteq LiveNotices
    <3>1. CASE AbortJob(j)
      BY <3>1 DEF AbortJob, EscTypeOK, LiveNotices
    <3>2. CASE CommitOutcomes(j)
      <4>0. PICK W \in SUBSET job[j].held :
              \E out \in Outcome(W) :
                /\ notice' = Committed(j, W, out)
                /\ revived' = revived \cup RevivedBy(Committed(j, W, out))
        BY <3>2 DEF CommitOutcomes
      <4>1. PICK out \in Outcome(W) :
              /\ notice' = Committed(j, W, out)
              /\ revived' = revived \cup RevivedBy(Committed(j, W, out))
        BY <4>0
      <4>. QED BY <4>1, CommittedTable DEF LiveNotices, EscTypeOK, RevivedBy
    <3>. QED BY <1>3, <3>1, <3>2
  <2>3. EscTypeOK'
    BY <2>1, <2>2 DEF EscTypeOK, JobRecord, IdleJob, NoticeStatuses
  <2>4. /\ \A i \in Jobs \ {j} : job'[i] = job[i]
        /\ job'[j] = IdleJob
    BY <2>1 DEF EscTypeOK
  <2>5. Grounded'
    BY <2>2, <2>4, OthersGrounded
  <2>6. Adders' \subseteq Adders /\ \A i \in Adders' : Condemned(i)' = Condemned(i)
    BY <2>4 DEF Adders, Condemned, IdleJob
  <2>. QED BY <2>2, <2>3, <2>5, <2>6, CoveredKept
<1>4. ASSUME NEW j \in Jobs, CommitEscalation(j)
      PROVE  EscInv'
  <2>0. PICK W \in SUBSET job[j].held, x \in Vacant, st \in Settled :
          \E out \in Outcome(W) :
            /\ notice' = [Committed(j, W, out) EXCEPT ![x] = st]
            /\ revived' = (revived \cup RevivedBy(Committed(j, W, out))) \ {x}
    BY <1>4 DEF CommitEscalation
  <2>1. PICK out \in Outcome(W) :
          /\ notice' = [Committed(j, W, out) EXCEPT ![x] = st]
          /\ revived' = (revived \cup RevivedBy(Committed(j, W, out))) \ {x}
    BY <2>0
  <2>2. job' = [job EXCEPT ![j] = IdleJob] /\ j \in Adders
    BY <1>4 DEF CommitEscalation, Adders
  <2>3. x \in Notices /\ \A i \in Jobs : x \notin job[i].held \cup Locked(i)
    BY DEF Vacant
  <2>4. /\ \A i \in Jobs \ {j} : job'[i] = job[i]
        /\ job'[j] = IdleJob
    BY <2>2 DEF EscTypeOK
  <2>5. EscTypeOK'
    BY <2>1, <2>2, <2>3, CommittedTable
    DEF EscTypeOK, JobRecord, IdleJob, NoticeStatuses, Settled, RevivedBy
  <2>6. \A y \in Notices : notice[y] # "NONE" => notice'[y] # "NONE"
    BY <2>1, <2>3, CommittedTable DEF Settled
  <2>7. Grounded'
    BY <2>4, <2>6, OthersGrounded
  <2>8. LiveNotices' \subseteq {y \in LiveNotices : y \notin Condemned(j)} \cup {x}
    BY <2>1, <2>3, CommittedTable DEF LiveNotices
  <2>9. ASSUME NEW A \in SUBSET Adders'
        PROVE  Cardinality(Uncondemned(A)') + Cardinality(A) <= Cardinality(Escalators)
    <3>1. A \subseteq Adders /\ j \notin A /\ \A i \in A : Condemned(i)' = Condemned(i)
      BY <2>4 DEF Adders, IdleJob, Condemned
    <3> DEFINE B == A \cup {j}
    <3>2. B \in SUBSET Adders
      BY <2>2, <3>1
    <3>3. Uncondemned(A)' \subseteq Uncondemned(B) \cup {x}
      BY <2>8, <3>1 DEF Uncondemned
    <3>4. /\ Uncondemned(B) \subseteq Notices /\ A \subseteq Escalators
          /\ Uncondemned(B) \cup {x} \subseteq Notices
      BY <2>3, <3>1, EscFinite DEF Uncondemned, LiveNotices
    <3>5. /\ IsFiniteSet(Uncondemned(B)) /\ Cardinality(Uncondemned(B)) \in Nat
          /\ IsFiniteSet(A) /\ Cardinality(A) \in Nat
          /\ IsFiniteSet(Uncondemned(B) \cup {x})
          /\ Cardinality(Escalators) \in Nat
      BY <3>4, EscFinite
    <3>6. Cardinality(B) = Cardinality(A) + 1
      BY <3>1, <3>5, FS_AddElement
    <3> HIDE DEF B
    <3>7. Cardinality(Uncondemned(B) \cup {x}) <= Cardinality(Uncondemned(B)) + 1
      BY <3>5, OneMore
    <3>8. /\ Cardinality(Uncondemned(A)') <= Cardinality(Uncondemned(B) \cup {x})
          /\ Cardinality(Uncondemned(A)') \in Nat
          /\ Cardinality(Uncondemned(B) \cup {x}) \in Nat
      BY <3>3, <3>5, FS_Subset, FS_CardinalityType
    <3>9. Cardinality(Uncondemned(B)) + Cardinality(B) <= Cardinality(Escalators)
      BY <3>2 DEF Covered
    <3>. QED BY <3>5, <3>6, <3>7, <3>8, <3>9
  <2>. QED BY <2>5, <2>7, <2>9 DEF Covered
<1>5. CASE UNCHANGED escVars
  BY <1>5 DEF escVars, EscTypeOK, Grounded, Covered, Locked, Condemned, Adders,
              Uncondemned, LiveNotices
<1>. QED BY <1>1, <1>2, <1>3, <1>4, <1>5 DEF EscNext

(* The committed rows and the open jobs always fit one another: EscInv is  *)
(* kept by every step of dispatch_pending() and run_escalation().          *)
THEOREM EscInvariance == EscSpec => []EscInv
<1>. QED BY EscInitInv, EscNextInv, PTL DEF EscSpec

(* The rows and the sessions of the jobs hold values of their types.       *)
THEOREM EscTypeCorrect == EscSpec => []EscTypeOK
<1>1. EscInv => EscTypeOK
  BY DEF EscInv
<1>. QED BY <1>1, EscInvariance, PTL

(* However many jobs run dispatch_pending(), one escalation to one         *)
(* destination has no more live rows, come back ones aside, than jobs run  *)
(* run_escalation(): two here, and one where one job escalates.            *)
THEOREM EscalationsBounded == EscSpec => []OneLivePerEscalator
<1>1. EscInv => OneLivePerEscalator
  <2> SUFFICES ASSUME EscInv PROVE OneLivePerEscalator
    OBVIOUS
  <2>1. Uncondemned({}) = LiveNotices /\ {} \in SUBSET Adders
    BY DEF Uncondemned
  <2>2. Cardinality(LiveNotices) + Cardinality({}) <= Cardinality(Escalators)
    BY <2>1 DEF EscInv, Covered
  <2>3. Cardinality(LiveNotices) \in Nat
    BY EscFinite DEF LiveNotices, EscInv
  <2>. QED BY <2>2, <2>3, FS_EmptySet DEF OneLivePerEscalator
<1>. QED BY <1>1, EscInvariance, PTL

-----------------------------------------------------------------------------
(* AlertSessions: overlapping sessions of one fault.                       *)

(* A session has a row from its choice to its commit, and the row exists   *)
(* unless the session is about to insert it; one session at a time has     *)
(* flushed a change of a row.                                              *)
Holding ==
  /\ \A r \in Requests :
       /\ req[r].op = "none" <=> req[r].step = "idle"
       /\ req[r].fresh => req[r].op = "publish" /\ req[r].step \in {"found", "flushed"}
       /\ req[r].row # NoRowId <=>
            req[r].op \notin {"none", "publish"} \/ req[r].step \in {"found", "flushed"}
       /\ req[r].row # NoRowId => (req[r].fresh <=> status[req[r].row] = "NONE")
       /\ req[r].adds => req[r].op \in {"publish", "resolve"}
  /\ \A r, q \in Requests :
       req[r].step = "flushed" /\ req[q].step = "flushed" /\ req[r].row = req[q].row => r = q
  /\ \A r, q \in Requests : req[r].fresh /\ req[q].fresh /\ req[r].row = req[q].row => r = q

(* A session that will insert an INITIAL row has looked under the lock.    *)
Looked ==
  /\ \A r \in Requests :
       req[r].op = "publish" /\ req[r].adds =>
         req[r].step = "flushed" /\ told[req[r].row] = 0
  /\ \A a \in Rows : told[a] <= 1

(* The sessions that will insert a RECOVERY row of an alert count as rows. *)
Clearing(a) ==
  {r \in Requests : req[r].op = "resolve" /\ req[r].adds /\ req[r].row = a}

Promised ==
  \A a \in Rows : cleared[a] + Cardinality(Clearing(a)) <= Cardinality(Requests)

(* What a publisher found is so still, unless another session revived a    *)
(* row beside it.                                                          *)
Undisturbed ==
  \A r \in Requests :
    req[r].op = "publish" /\ ~req[r].beside =>
      /\ req[r].step = "looked" => ActiveFaults = {}
      /\ req[r].fresh => Known = {}

SessInv ==
  SessTypeOK /\ Holding /\ Looked /\ Promised /\ Undisturbed /\ SecondRowIsRaced

(* What the counts are taken of is finite.                                 *)
LEMMA SessFinite ==
  /\ \A S : S \subseteq Rows \/ S \subseteq Requests =>
       IsFiniteSet(S) /\ Cardinality(S) \in Nat
  /\ \A S, T : (T \subseteq Rows \/ T \subseteq Requests) /\ S \subseteq T =>
       Cardinality(S) <= Cardinality(T)
<1>1. \A S : S \subseteq Rows \/ S \subseteq Requests =>
        IsFiniteSet(S) /\ Cardinality(S) \in Nat
  BY RequestsAssumption, FS_Subset, FS_CardinalityType
<1>. QED BY <1>1, FS_Subset

(* With no row and no open session, SessInv holds.                         *)
LEMMA SessInitInv == SessInit => SessInv
<1> SUFFICES ASSUME SessInit PROVE SessInv
  OBVIOUS
<1> USE DEF SessInit, NoRequest
<1>1. SessTypeOK
  BY RequestsAssumption DEF SessTypeOK, RequestRecord, LiveFaults, Known
<1>2. Holding /\ Looked /\ Undisturbed
  BY DEF Holding, Looked, Undisturbed
<1>3. \A a \in Rows : Clearing(a) = {}
  BY DEF Clearing
<1>4. Promised
  BY <1>3, SessFinite, FS_EmptySet DEF Promised
<1>5. Known = {}
  BY DEF Known
<1>6. SecondRowIsRaced
  BY <1>5, FS_EmptySet DEF SecondRowIsRaced
<1>. QED BY <1>1, <1>2, <1>4, <1>6 DEF SessInv

-----------------------------------------------------------------------------
(* A session may come to be `new`: what Holding, and then Looked, Promised *)
(* and Undisturbed, say of a session.                                      *)
Fits(r, new) ==
  /\ new \in RequestRecord
  /\ new.op = "none" <=> new.step = "idle"
  /\ new.fresh => new.op = "publish" /\ new.step \in {"found", "flushed"}
  /\ new.row # NoRowId <=>
       new.op \notin {"none", "publish"} \/ new.step \in {"found", "flushed"}
  /\ new.row # NoRowId => (new.fresh <=> status[new.row] = "NONE")
  /\ new.adds => new.op \in {"publish", "resolve"}
  /\ new.step = "flushed" => Unlocked(r, new.row)
  /\ new.fresh => \A q \in Requests \ {r} : ~(req[q].fresh /\ req[q].row = new.row)
  /\ new.op = "publish" /\ new.adds => new.step = "flushed" /\ told[new.row] = 0
  /\ new.op = "resolve" /\ new.adds => cleared[new.row] = 0 \/ r \in Clearing(new.row)
  /\ new.op = "publish" /\ ~new.beside =>
       /\ new.step = "looked" => ActiveFaults = {}
       /\ new.fresh => Known = {}

(* One session takes a step that no table shows.                           *)
LEMMA OwnStep ==
  ASSUME SessInv, NEW r \in Requests, NEW new, Fits(r, new),
         req' = [req EXCEPT ![r] = new],
         UNCHANGED <<status, told, cleared, races>>
  PROVE  SessInv'
<1> USE DEF SessInv, Fits
<1>1. /\ req'[r] = new
      /\ \A q \in Requests \ {r} : req'[q] = req[q]
  BY DEF SessTypeOK
<1>2. Known' = Known /\ ActiveFaults' = ActiveFaults
  BY DEF Known, ActiveFaults
<1>3. SessTypeOK'
  BY <1>2 DEF SessTypeOK
<1>4. Holding'
  BY <1>1 DEF Holding, Unlocked
<1>5. Looked'
  BY <1>1 DEF Looked
<1>6. ASSUME NEW a \in Rows
      PROVE  cleared'[a] + Cardinality(Clearing(a)') <= Cardinality(Requests)
  <2>1. /\ cleared'[a] = cleared[a] /\ cleared[a] \in Nat
        /\ Clearing(a) \subseteq Requests /\ Clearing(a)' \subseteq Requests
    BY DEF Clearing, SessTypeOK
  <2>2. CASE cleared[a] = 0
    BY <2>1, <2>2, SessFinite
  <2>3. CASE cleared[a] # 0
    <3>1. Clearing(a)' \subseteq Clearing(a)
      BY <1>1, <2>3 DEF Clearing
    <3>2. Cardinality(Clearing(a)') <= Cardinality(Clearing(a))
      BY <2>1, <3>1, SessFinite
    <3>. QED BY <2>1, <3>2, SessFinite DEF Promised
  <2>. QED BY <2>2, <2>3
<1>7. Undisturbed'
  BY <1>1, <1>2 DEF Undisturbed
<1>8. SecondRowIsRaced'
  BY <1>2 DEF SecondRowIsRaced
<1>. QED BY <1>3, <1>4, <1>5, <1>6, <1>7, <1>8 DEF Promised

(* The steps of that kind.                                                 *)
LEMMA ReadingStep ==
  ASSUME SessInv, NEW r \in Requests,
         \/ LookActive(r) \/ LookLatest(r) \/ FlushFault(r)
         \/ ReadResolve(r) \/ QueueRecovery(r) \/ FlushResolve(r)
         \/ ReadAcknowledge(r) \/ ReadSuppress(r) \/ ReadExpiry(r) \/ AbortRequest(r)
  PROVE  SessInv'
<1> USE RequestsAssumption DEF SessInv
<1>0. /\ req[r] \in RequestRecord
      /\ \A q \in Requests : req[q] \in RequestRecord
      /\ \A a \in Rows : told[a] \in Nat /\ cleared[a] \in Nat
  BY DEF SessTypeOK
<1>1. CASE LookActive(r)
  <2> DEFINE new == [req[r] EXCEPT !.op = "publish", !.step = "looked"]
  <2>1. new \in RequestRecord /\ req' = [req EXCEPT ![r] = new]
    BY <1>0, <1>1 DEF LookActive, RequestRecord, SessTypeOK
  <2>2. /\ new.op = "publish" /\ new.step = "looked" /\ new.row = NoRowId
        /\ ~new.fresh /\ ~new.adds
    BY <1>0, <1>1 DEF LookActive, RequestRecord, Holding
  <2> HIDE DEF new
  <2>10. Fits(r, new)
    BY <1>1, <2>1, <2>2 DEF Fits, LookActive
  <2>. QED BY <1>1, <2>1, <2>2, <2>10, OwnStep DEF LookActive
<1>2. CASE LookLatest(r)
  <2>1. ASSUME NEW a \in Reopenable,
               req' = [req EXCEPT ![r].step = "found", ![r].row = a]
        PROVE  SessInv'
    <3> DEFINE new == [req[r] EXCEPT !.step = "found", !.row = a]
    <3>1. new \in RequestRecord /\ req' = [req EXCEPT ![r] = new]
      BY <1>0, <2>1 DEF RequestRecord, SessTypeOK, Reopenable
    <3>2. /\ new.op = "publish" /\ new.step = "found" /\ new.row = a
          /\ ~new.fresh /\ ~new.adds /\ a \in Rows /\ status[a] = "RESOLVED"
      BY <1>0, <1>2, <2>1 DEF LookLatest, RequestRecord, Holding, Looked, Reopenable
    <3> HIDE DEF new
    <3>10. Fits(r, new)
      BY <1>2, <3>1, <3>2 DEF Fits, LookLatest
    <3>. QED BY <1>2, <3>1, <3>2, <3>10, OwnStep DEF LookLatest
  <2>2. ASSUME NEW a \in Rows, MayInsert(a), Unclaimed(a),
               req' = [req EXCEPT ![r].step = "found", ![r].row = a, ![r].fresh = TRUE]
        PROVE  SessInv'
    <3> DEFINE new == [req[r] EXCEPT !.step = "found", !.row = a, !.fresh = TRUE]
    <3>1. new \in RequestRecord /\ req' = [req EXCEPT ![r] = new]
      BY <1>0, <2>2 DEF RequestRecord, SessTypeOK
    <3>2. /\ new.op = "publish" /\ new.step = "found" /\ new.row = a
          /\ new.fresh /\ ~new.adds /\ status[a] = "NONE"
          /\ new.beside = req[r].beside
      BY <1>0, <1>2, <2>2 DEF LookLatest, RequestRecord, Holding, Looked, MayInsert
    <3>3. ~new.beside => Known = {}
      BY <1>2, <2>2, <3>2 DEF LookLatest, MayInsert, Undisturbed
    <3> HIDE DEF new
    <3>10. Fits(r, new)
      BY <1>2, <2>2, <3>1, <3>2, <3>3 DEF Fits, LookLatest, Unclaimed
    <3>. QED BY <1>2, <2>2, <3>1, <3>2, <3>3, <3>10, OwnStep DEF LookLatest, Unclaimed
  <2>. QED BY <1>2, <2>1, <2>2 DEF LookLatest
<1>3. CASE FlushFault(r)
  <2>1. PICK silent \in BOOLEAN, notifies \in BOOLEAN :
          req' = [req EXCEPT ![r].step = "flushed", ![r].silent = silent,
                             ![r].adds = ~silent /\ notifies /\ told[req[r].row] = 0]
    BY <1>3 DEF FlushFault
  <2> DEFINE new == [req[r] EXCEPT !.step = "flushed", !.silent = silent,
                                   !.adds = ~silent /\ notifies /\ told[req[r].row] = 0]
  <2>2. new \in RequestRecord /\ req' = [req EXCEPT ![r] = new]
    BY <1>0, <2>1 DEF RequestRecord, SessTypeOK
  <2>3. /\ new.op = "publish" /\ new.step = "flushed" /\ new.row = req[r].row
        /\ new.fresh = req[r].fresh /\ new.beside = req[r].beside
        /\ new.adds => told[req[r].row] = 0
        /\ req[r].row # NoRowId
    BY <1>0, <1>3 DEF FlushFault, RequestRecord, Holding
  <2> HIDE DEF new
  <2>4. new.fresh => \A q \in Requests \ {r} : ~(req[q].fresh /\ req[q].row = new.row)
    BY <2>3 DEF Holding
  <2>5. /\ new.fresh <=> status[new.row] = "NONE"
        /\ ~new.beside => (new.fresh => Known = {})
    BY <1>3, <2>3 DEF Holding, Undisturbed, FlushFault
  <2>10. Fits(r, new)
    BY <1>3, <2>2, <2>3, <2>4, <2>5 DEF Fits, FlushFault
  <2>. QED BY <1>3, <2>2, <2>3, <2>4, <2>5, <2>10, OwnStep DEF FlushFault
<1>4. CASE ReadResolve(r)
  <2>1. PICK a \in ActiveFaults :
          req' = [req EXCEPT ![r].op = "resolve", ![r].step = "looked", ![r].row = a]
    BY <1>4 DEF ReadResolve
  <2> DEFINE new == [req[r] EXCEPT !.op = "resolve", !.step = "looked", !.row = a]
  <2>2. new \in RequestRecord /\ req' = [req EXCEPT ![r] = new]
    BY <1>0, <2>1 DEF RequestRecord, SessTypeOK, ActiveFaults
  <2>3. /\ new.op = "resolve" /\ new.step = "looked" /\ new.row = a
        /\ ~new.fresh /\ ~new.adds /\ a \in Rows /\ status[a] # "NONE"
    BY <1>0, <1>4 DEF ReadResolve, RequestRecord, Holding, ActiveFaults, LiveFaults
  <2> HIDE DEF new
  <2>10. Fits(r, new)
    BY <1>4, <2>2, <2>3 DEF Fits, ReadResolve
  <2>. QED BY <1>4, <2>2, <2>3, <2>10, OwnStep DEF ReadResolve
<1>5. CASE QueueRecovery(r)
  <2>1. PICK notifies \in BOOLEAN :
          req' = [req EXCEPT ![r].step = "found",
                             ![r].adds = notifies /\ cleared[req[r].row] = 0]
    BY <1>5 DEF QueueRecovery
  <2> DEFINE new == [req[r] EXCEPT !.step = "found",
                                   !.adds = notifies /\ cleared[req[r].row] = 0]
  <2>2. new \in RequestRecord /\ req' = [req EXCEPT ![r] = new]
    BY <1>0, <2>1 DEF RequestRecord, SessTypeOK
  <2>3. /\ new.op = "resolve" /\ new.step = "found" /\ new.row = req[r].row
        /\ new.fresh = req[r].fresh
        /\ new.adds => cleared[req[r].row] = 0
        /\ ~new.fresh /\ new.row # NoRowId
    BY <1>0, <1>5 DEF QueueRecovery, RequestRecord, Holding
  <2> HIDE DEF new
  <2>10. Fits(r, new)
    BY <1>5, <2>2, <2>3 DEF Fits, QueueRecovery, Holding
  <2>. QED BY <1>5, <2>2, <2>3, <2>10, OwnStep DEF QueueRecovery, Holding
<1>6. CASE FlushResolve(r)
  <2> DEFINE new == [req[r] EXCEPT !.step = "flushed"]
  <2>1. new \in RequestRecord /\ req' = [req EXCEPT ![r] = new]
    BY <1>0, <1>6 DEF FlushResolve, RequestRecord, SessTypeOK
  <2>2. /\ new.op = "resolve" /\ new.step = "flushed" /\ new.row = req[r].row
        /\ ~new.fresh /\ new.adds = req[r].adds /\ new.row # NoRowId
    BY <1>0, <1>6 DEF FlushResolve, RequestRecord, Holding
  <2>3. new.adds => r \in Clearing(new.row)
    BY <1>6, <2>2 DEF Clearing, FlushResolve
  <2> HIDE DEF new
  <2>10. Fits(r, new)
    BY <1>6, <2>1, <2>2, <2>3 DEF Fits, FlushResolve, Holding
  <2>. QED BY <1>6, <2>1, <2>2, <2>3, <2>10, OwnStep DEF FlushResolve, Holding
<1>7. ASSUME NEW op \in {"acknowledge", "suppress", "expire"}, NEW from \in SUBSET Known,
             NEW to, ReadStatus(r, op, from, to)
      PROVE  SessInv'
  <2>1. PICK a \in from :
          req' = [req EXCEPT ![r].op = op, ![r].step = "looked", ![r].row = a,
                             ![r].silent = status[a] = to]
    BY <1>7 DEF ReadStatus
  <2> DEFINE new == [req[r] EXCEPT !.op = op, !.step = "looked", !.row = a,
                                   !.silent = status[a] = to]
  <2>2. new \in RequestRecord /\ req' = [req EXCEPT ![r] = new]
    BY <1>0, <2>1 DEF RequestRecord, SessTypeOK, Known
  <2>3. /\ new.op = op /\ new.step = "looked" /\ new.row = a
        /\ ~new.fresh /\ ~new.adds /\ a \in Rows /\ status[a] # "NONE"
    BY <1>0, <1>7 DEF ReadStatus, RequestRecord, Holding, Known
  <2> HIDE DEF new
  <2>10. Fits(r, new)
    BY <1>7, <2>2, <2>3 DEF Fits, ReadStatus
  <2>. QED BY <1>7, <2>2, <2>3, <2>10, OwnStep DEF ReadStatus
<1>8. CASE ReadAcknowledge(r) \/ ReadSuppress(r) \/ ReadExpiry(r)
  <2>1. /\ ActiveFaults \in SUBSET Known /\ Known \in SUBSET Known
        /\ {a \in Rows : status[a] = "SUPPRESSED"} \in SUBSET Known
    BY DEF ActiveFaults, Known, LiveFaults
  <2>. QED BY <1>7, <1>8, <2>1 DEF ReadAcknowledge, ReadSuppress, ReadExpiry
<1>9. CASE AbortRequest(r)
  <2>1. NoRequest \in RequestRecord
    BY DEF NoRequest, RequestRecord
  <2>2. /\ NoRequest.op = "none" /\ NoRequest.step = "idle" /\ NoRequest.row = NoRowId
        /\ ~NoRequest.fresh /\ ~NoRequest.adds
    BY DEF NoRequest
  <2>10. Fits(r, NoRequest)
    BY <1>9, <2>1, <2>2 DEF Fits, AbortRequest
  <2>. QED BY <1>9, <2>1, <2>2, <2>10, OwnStep DEF AbortRequest
<1>. QED BY <1>1, <1>2, <1>3, <1>4, <1>5, <1>6, <1>8, <1>9
-----------------------------------------------------------------------------
(* A session commits the value v to its row.                               *)
LEMMA CommitStep ==
  ASSUME SessInv, NEW r \in Requests, NEW revives \in BOOLEAN, NEW a \in Rows,
         NEW v \in {"RESOLVED"} \cup LiveFaults,
         a = req[r].row, status' = [status EXCEPT ![a] = v],
         req' = Passed(r, revives),
         v \in LiveFaults /\ status[a] \notin LiveFaults => revives,
         req[r].fresh => revives
  PROVE  /\ Holding' /\ Undisturbed'
         /\ Known' = Known \cup {a}
         /\ status' \in [Rows -> {"NONE", "RESOLVED"} \cup LiveFaults]
         /\ req' \in [Requests -> RequestRecord]
         /\ req'[r] = NoRequest
         /\ \A q \in Requests \ {r} :
              /\ req'[q].op = req[q].op /\ req'[q].step = req[q].step
              /\ req'[q].row = req[q].row /\ req'[q].adds = req[q].adds
<1> USE DEF SessInv
<1>1. req'[r] = NoRequest
  BY DEF Passed
<1>2. ASSUME NEW q \in Requests \ {r}
      PROVE  /\ req'[q].op = req[q].op /\ req'[q].step = req[q].step
             /\ req'[q].row = req[q].row /\ req'[q].adds = req[q].adds
             /\ req'[q].fresh = req[q].fresh
             /\ ~req'[q].beside /\ req[q].op = "publish" => ~req[q].beside /\ ~revives
             /\ req'[q] \in RequestRecord
  BY DEF Passed, SessTypeOK, RequestRecord
<1>3. req' \in [Requests -> RequestRecord]
  BY <1>1, <1>2 DEF Passed, NoRequest, RequestRecord
<1>4. /\ status' \in [Rows -> {"NONE", "RESOLVED"} \cup LiveFaults]
      /\ status'[a] = v /\ \A b \in Rows \ {a} : status'[b] = status[b]
  BY DEF SessTypeOK
<1>5. Known' = Known \cup {a}
  BY <1>4 DEF Known, LiveFaults
<1>6. ASSUME NEW q \in Requests \ {r}
      PROVE  req[q].row # NoRowId => (req[q].fresh <=> status'[req[q].row] = "NONE")
  <2>1. req[q].row = a => ~req[q].fresh
    BY RequestsAssumption DEF Holding
  <2>2. req[q].row # NoRowId => req[q].row \in Rows
    BY DEF SessTypeOK, RequestRecord
  <2>. QED BY <1>4, <2>1, <2>2 DEF Holding, LiveFaults
<1>7. Holding'
  BY <1>1, <1>2, <1>6 DEF Holding, NoRequest
<1>8. ASSUME NEW q \in Requests \ {r}, req[q].op = "publish", ~req'[q].beside
      PROVE  /\ req[q].step = "looked" => ActiveFaults' = {}
             /\ req[q].fresh => Known' = {}
  <2>1. ~req[q].beside /\ ~revives
    BY <1>2, <1>8
  <2>2. req[q].step = "looked" => ActiveFaults' = {}
    BY <1>4, <1>8, <2>1 DEF Undisturbed, ActiveFaults, LiveFaults
  <2>3. ~req[q].fresh
    <3>1. ~req[r].fresh
      BY <2>1
    <3>2. a \in Known
      BY <3>1, RequestsAssumption DEF Holding, Known
    <3>. QED BY <1>8, <2>1, <3>2 DEF Undisturbed
  <2>. QED BY <2>2, <2>3
<1>9. Undisturbed'
  BY <1>1, <1>2, <1>8 DEF Undisturbed, NoRequest
<1>. QED BY <1>1, <1>2, <1>3, <1>4, <1>5, <1>7, <1>9

(* The commit of publish() of a fault.                                     *)
LEMMA CommitFaultStep ==
  ASSUME SessInv, NEW r \in Requests, CommitFault(r)
  PROVE  SessInv'
<1> USE DEF SessInv
<1> DEFINE a == req[r].row
           v == IF req[r].silent THEN "SUPPRESSED" ELSE "OPEN"
           revives == status[a] \notin LiveFaults
<1>1. /\ req[r].op = "publish" /\ req[r].step = "flushed"
      /\ status' = [status EXCEPT ![a] = v] /\ req' = Passed(r, revives)
      /\ cleared' = cleared
      /\ told' = told \/ (req[r].adds /\ told' = [told EXCEPT ![a] = @ + 1])
  BY DEF CommitFault
<1>2. a \in Rows /\ v \in {"RESOLVED"} \cup LiveFaults /\ revives \in BOOLEAN
  BY <1>1 DEF Holding, SessTypeOK, RequestRecord, LiveFaults
<1>10. req[r].fresh => revives
  BY <1>2, RequestsAssumption DEF Holding, LiveFaults
<1> HIDE DEF v
<1>3. /\ Holding' /\ Undisturbed'
      /\ Known' = Known \cup {a}
      /\ status' \in [Rows -> {"NONE", "RESOLVED"} \cup LiveFaults]
      /\ req' \in [Requests -> RequestRecord]
      /\ req'[r] = NoRequest
      /\ \A q \in Requests \ {r} :
           /\ req'[q].op = req[q].op /\ req'[q].step = req[q].step
           /\ req'[q].row = req[q].row /\ req'[q].adds = req[q].adds
  BY <1>1, <1>2, <1>10, CommitStep
<1>4. /\ \A b \in Rows : told[b] \in Nat
      /\ \A b \in Rows \ {a} : told'[b] = told[b]
      /\ told'[a] = told[a] \/ (req[r].adds /\ told'[a] = told[a] + 1)
      /\ told' \in [Rows -> Nat]
  BY <1>1, <1>2 DEF SessTypeOK
<1>5. /\ req[r].fresh /\ req[r].beside => races < MaxRaces /\ races' = races + 1
      /\ ~(req[r].fresh /\ req[r].beside) => races' = races
  BY DEF CommitFault
<1>6. SessTypeOK'
  BY <1>1, <1>3, <1>4, <1>5, RequestsAssumption DEF SessTypeOK
<1>7. Looked'
  <2>1. ASSUME NEW q \in Requests, req'[q].op = "publish", req'[q].adds
        PROVE  req'[q].step = "flushed" /\ told'[req'[q].row] = 0
    <3>1. q # r
      BY <1>3, <2>1 DEF NoRequest
    <3>2. req[q].step = "flushed" /\ told[req[q].row] = 0
      BY <1>3, <2>1, <3>1 DEF Looked
    <3>3. req[q].row # a
      BY <1>1, <3>1, <3>2 DEF Holding
    <3>4. req[q].row \in Rows
      BY <1>3, <2>1, <3>1, <3>2 DEF Holding, SessTypeOK, RequestRecord
    <3>. QED BY <1>3, <1>4, <3>1, <3>2, <3>3, <3>4
  <2>2. \A b \in Rows : told'[b] <= 1
    BY <1>1, <1>2, <1>4 DEF Looked
  <2>. QED BY <2>1, <2>2 DEF Looked
<1>8. Promised'
  <2>1. \A b \in Rows : Clearing(b)' = Clearing(b)
    BY <1>1, <1>3 DEF Clearing, NoRequest
  <2>. QED BY <1>1, <2>1 DEF Promised
<1>9. SecondRowIsRaced'
  <2>1. Known \subseteq Rows /\ Known' \subseteq Rows
    BY DEF Known
  <2>2. Cardinality(Known) \in Nat /\ Cardinality(Known') \in Nat /\ races \in Nat
    BY <2>1, SessFinite DEF SessTypeOK
  <2>3. CASE ~req[r].fresh
    <3>1. a # NoRowId
      BY <1>2, RequestsAssumption
    <3>2. status[a] # "NONE"
      BY <2>3, <3>1 DEF Holding
    <3>3. a \in Known
      BY <1>2, <3>2 DEF Known
    <3>4. Known' = Known
      BY <1>3, <3>3
    <3>. QED BY <1>5, <2>3, <3>4 DEF SecondRowIsRaced
  <2>4. CASE req[r].fresh /\ req[r].beside
    <3>1. Cardinality(Known') <= Cardinality(Known) + 1
      BY <1>3, <2>1, SessFinite, OneMore
    <3>. QED BY <1>5, <2>2, <2>4, <3>1 DEF SecondRowIsRaced
  <2>5. CASE req[r].fresh /\ ~req[r].beside
    <3>1. Known' = {a}
      BY <1>1, <1>3, <2>5 DEF Undisturbed
    <3>2. Cardinality(Known') = 1
      BY <3>1, FS_Singleton
    <3>. QED BY <1>5, <2>2, <2>5, <3>2 DEF SecondRowIsRaced
  <2>. QED BY <2>3, <2>4, <2>5
<1>. QED BY <1>3, <1>6, <1>7, <1>8, <1>9

(* The other commits queue no INITIAL row and insert no alert.             *)
LEMMA CommitOtherStep ==
  ASSUME SessInv, NEW r \in Requests,
         CommitResolve(r) \/ CommitAcknowledge(r) \/ CommitSuppress(r) \/ CommitExpiry(r)
  PROVE  SessInv'
<1> USE DEF SessInv
<1> DEFINE a == req[r].row
<1>1. /\ req[r].op \notin {"none", "publish"} /\ UNCHANGED <<told, races>>
      /\ a \in Rows /\ status[a] # "NONE" /\ ~req[r].fresh
  BY RequestsAssumption
  DEF CommitResolve, CommitAcknowledge, CommitSuppress, CommitExpiry, CommitStatus,
      Holding, SessTypeOK, RequestRecord
<1>2. PICK v \in {"RESOLVED"} \cup LiveFaults, revives \in BOOLEAN :
        /\ status' = [status EXCEPT ![a] = v] /\ req' = Passed(r, revives)
        /\ v \in LiveFaults /\ status[a] \notin LiveFaults => revives
  <2>1. CASE CommitResolve(r)
    BY <2>1 DEF CommitResolve, LiveFaults
  <2>2. ASSUME NEW op, NEW new \in LiveFaults, CommitStatus(r, op, new)
        PROVE  \E v \in {"RESOLVED"} \cup LiveFaults, revives \in BOOLEAN :
                 /\ status' = [status EXCEPT ![a] = v] /\ req' = Passed(r, revives)
                 /\ v \in LiveFaults /\ status[a] \notin LiveFaults => revives
    <3>1. CASE req[r].silent
      <4>1. status' = [status EXCEPT ![a] = status[a]] /\ req' = Passed(r, FALSE)
        BY <2>2, <3>1 DEF CommitStatus, SessTypeOK
      <4>2. status[a] \in {"RESOLVED"} \cup LiveFaults
        BY <1>1 DEF SessTypeOK
      <4>. QED BY <4>1, <4>2
    <3>2. CASE ~req[r].silent
      BY <2>2, <3>2 DEF CommitStatus
    <3>. QED BY <3>1, <3>2
  <2>3. {"OPEN", "ACKNOWLEDGED", "SUPPRESSED"} \subseteq LiveFaults
    BY DEF LiveFaults
  <2>. QED BY <2>1, <2>2, <2>3 DEF CommitAcknowledge, CommitSuppress, CommitExpiry
<1>3. /\ Holding' /\ Undisturbed'
      /\ Known' = Known \cup {a}
      /\ status' \in [Rows -> {"NONE", "RESOLVED"} \cup LiveFaults]
      /\ req' \in [Requests -> RequestRecord]
      /\ req'[r] = NoRequest
      /\ \A q \in Requests \ {r} :
           /\ req'[q].op = req[q].op /\ req'[q].step = req[q].step
           /\ req'[q].row = req[q].row /\ req'[q].adds = req[q].adds
  BY <1>1, <1>2, CommitStep
<1>4. Known' = Known
  BY <1>1, <1>3 DEF Known
<1>5. /\ cleared' \in [Rows -> Nat]
      /\ \A b \in Rows : cleared[b] \in Nat
      /\ \A b \in Rows : cleared'[b] = cleared[b] \/
           (cleared'[b] = cleared[b] + 1 /\ r \in Clearing(b))
  <2>1. cleared \in [Rows -> Nat]
    BY DEF SessTypeOK
  <2>2. CASE cleared' = cleared
    BY <2>1, <2>2
  <2>3. CASE /\ req[r].op = "resolve" /\ req[r].adds
             /\ cleared' = [cleared EXCEPT ![a] = @ + 1]
    <3>1. r \in Clearing(a)
      BY <2>3 DEF Clearing
    <3>. QED BY <1>1, <2>1, <2>3, <3>1
  <2>. QED BY <2>2, <2>3
       DEF CommitResolve, CommitAcknowledge, CommitSuppress, CommitExpiry, CommitStatus
<1>6. SessTypeOK'
  BY <1>1, <1>3, <1>4, <1>5
  DEF CommitResolve, CommitAcknowledge, CommitSuppress, CommitExpiry, CommitStatus, SessTypeOK
<1>7. Looked'
  BY <1>1, <1>3 DEF Looked, NoRequest
<1>8. ASSUME NEW b \in Rows
      PROVE  cleared'[b] + Cardinality(Clearing(b)') <= Cardinality(Requests)
  <2>1. Clearing(b)' = Clearing(b) \ {r}
    BY <1>3 DEF Clearing, NoRequest
  <2>2. Clearing(b) \subseteq Requests /\ Clearing(b)' \subseteq Requests
    BY DEF Clearing
  <2>3. /\ Cardinality(Clearing(b)) \in Nat /\ Cardinality(Clearing(b)') \in Nat
        /\ Cardinality(Clearing(b)') <= Cardinality(Clearing(b))
        /\ Cardinality(Requests) \in Nat
    BY <2>1, <2>2, SessFinite
  <2>4. r \in Clearing(b) => Cardinality(Clearing(b)') = Cardinality(Clearing(b)) - 1
    BY <2>1, <2>2, SessFinite, FS_RemoveElement
  <2>. QED BY <1>5, <2>3, <2>4 DEF Promised
<1>9. SecondRowIsRaced'
  BY <1>1, <1>4 DEF SecondRowIsRaced
<1>. QED BY <1>3, <1>6, <1>7, <1>8, <1>9 DEF Promised

(* A dispatch gives a row up: one live row less.                           *)
LEMMA GiveUpStep ==
  ASSUME SessInv, NEW a \in Rows, GiveUpInitial(a) \/ GiveUpRecovery(a)
  PROVE  SessInv'
<1> USE DEF SessInv, GiveUpInitial, GiveUpRecovery
<1>1. /\ Known' = Known /\ ActiveFaults' = ActiveFaults
      /\ \A b \in Rows : Clearing(b)' = Clearing(b)
  BY DEF Known, ActiveFaults, Clearing
<1>2. /\ \A b \in Rows : told[b] \in Nat /\ cleared[b] \in Nat
      /\ told' \in [Rows -> Nat] /\ cleared' \in [Rows -> Nat]
      /\ \A b \in Rows : told'[b] <= told[b] /\ cleared'[b] <= cleared[b]
  BY DEF SessTypeOK
<1>3. SessTypeOK'
  BY <1>1, <1>2 DEF SessTypeOK
<1>4. Looked'
  <2>1. \A r \in Requests :
          req[r].op = "publish" /\ req[r].adds => req[r].row \in Rows
    BY DEF Looked, Holding, SessTypeOK, RequestRecord
  <2>. QED BY <1>2, <2>1 DEF Looked
<1>5. Promised'
  <2>1. \A b \in Rows : Cardinality(Clearing(b)) \in Nat /\ Cardinality(Requests) \in Nat
    BY SessFinite DEF Clearing
  <2>. QED BY <1>1, <1>2, <2>1 DEF Promised
<1>. QED BY <1>1, <1>3, <1>4, <1>5 DEF Holding, Undisturbed, SecondRowIsRaced

(* Every step of a session keeps SessInv.                                  *)
LEMMA SessNextInv == SessInv /\ [SessNext]_sessVars => SessInv'
<1> SUFFICES ASSUME SessInv, [SessNext]_sessVars PROVE SessInv'
  OBVIOUS
<1>1. CASE UNCHANGED sessVars
  BY <1>1 DEF sessVars, SessInv, SessTypeOK, Holding, Looked, Promised, Undisturbed,
              SecondRowIsRaced, Known, ActiveFaults, Clearing
<1>2. CASE SessNext
  BY <1>2, ReadingStep, CommitFaultStep, CommitOtherStep, GiveUpStep DEF SessNext
<1>. QED BY <1>1, <1>2

(* The rows of one fault and the open sessions always fit one another:     *)
(* SessInv is kept by every read, flush, commit and rollback.              *)
THEOREM SessInvariance == SessSpec => []SessInv
<1>. QED BY SessInitInv, SessNextInv, PTL DEF SessSpec

(* The rows and the sessions hold values of their types, and resolved_at   *)
(* belongs to rows that exist.                                             *)
THEOREM SessTypeCorrect == SessSpec => []SessTypeOK
<1>1. SessInv => SessTypeOK
  BY DEF SessInv
<1>. QED BY <1>1, SessInvariance, PTL

(* publish() looks for a live row behind the lock of its flush: however    *)
(* many publishers overlap, one INITIAL row of an alert is live.           *)
THEOREM FaultToldOnce == SessSpec => []ToldOnceOfFault
<1>1. SessInv => ToldOnceOfFault
  BY DEF SessInv, Looked, ToldOnceOfFault
<1>. QED BY <1>1, SessInvariance, PTL

(* resolve_alert() looks before its flush: overlapping resolutions leave   *)
(* at most one live RECOVERY row for each session.                         *)
THEOREM RecoveriesBounded == SessSpec => []ClearedPerSession
<1>1. SessInv => ClearedPerSession
  <2> SUFFICES ASSUME SessInv, NEW a \in Rows
               PROVE  cleared[a] <= Cardinality(Requests)
    BY DEF ClearedPerSession
  <2>1. Cardinality(Clearing(a)) \in Nat /\ Cardinality(Requests) \in Nat
    BY SessFinite DEF Clearing
  <2>. QED BY <2>1 DEF SessInv, Promised, SessTypeOK
<1>. QED BY <1>1, SessInvariance, PTL

(* publish() inserts a second row of a fault only beside another session   *)
(* that made one active: the rows are one more than those races at most.   *)
THEOREM SecondRowNeedsRace == SessSpec => []SecondRowIsRaced
<1>1. SessInv => SecondRowIsRaced
  BY DEF SessInv
<1>. QED BY <1>1, SessInvariance, PTL
=============================================================================
