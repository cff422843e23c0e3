------------------------------ MODULE HealthScan ------------------------------
(***************************************************************************)
(* The health of one application: the rows its cluster and its endpoint    *)
(* have in resource_health, its own row in application_health with the     *)
(* counters of consecutive results, its incidents, its health alerts and   *)
(* the unified alerts about it.                                            *)
(*                                                                         *)
(* Its resources carry its label, and a mapping names it.  The fleet job   *)
(* stores them one by one, the cluster scan stores summaries made from the *)
(* last snapshot instead, which carry no label.  Scans of an environment   *)
(* take a lock, the HTTP checks, the evaluation and operators do not.      *)
(***************************************************************************)
EXTENDS HealthRules, FiniteSets

CONSTANTS
  Worlds,         \* the workload, as Signals has it, and what a probe of the endpoint yields
  OpenAt,         \* failing results in a row that open an incident
  ResolveAt,      \* healthy results in a row that resolve one
  Scanners,       \* application scans under way at one time: 1..n
  Checkers,       \* HTTP checks and evaluations under way at one time: 1..n
  MaxIncidents    \* bound: incidents an operator still finds

ConditionRecord ==
  [reachable : BOOLEAN, desired : Nat, available : Nat, crashing : BOOLEAN, restarting : BOOLEAN,
   workload : HealthStatuses, ingress : HealthStatuses]

Conditions == {w[1] : w \in Worlds}
EndpointStates == {w[2] : w \in Worlds}

ASSUME HealthAssumption ==
  /\ Worlds \subseteq ConditionRecord \X HealthStatuses
  /\ OpenAt \in Nat \ {0} /\ ResolveAt \in Nat \ {0}
  /\ Scanners \subseteq Nat \ {0} /\ Checkers \subseteq Nat
  /\ MaxIncidents \in Nat

VARIABLES
  condition, endpoint,   \* the world
  inventory,             \* the labelled rows of the cluster: the condition they were made from
  endpointRow,           \* the row of the endpoint
  row,                   \* application_health
  incident,              \* health_incident
  revived,               \* whether an active incident was acknowledged once resolved
  alerts, board,         \* open health alerts and active unified alerts, by kind
  lock,                  \* the scan that has inserted the lock of the environment
  session                \* what a transaction is about to write

world == <<condition, endpoint>>
resources == <<inventory, endpointRow>>
vars == <<world, resources, row, incident, revived, alerts, board, lock, session>>

None == "none"
Gone == [reachable |-> FALSE]   \* no row carries the label

(* No replica of those desired was available: down.                        *)
RowType ==
  [status : HealthStatuses, unhealthy : 0..OpenAt, healthy : 0..ResolveAt, down : BOOLEAN]
NoRow == [status |-> None, unhealthy |-> 0, healthy |-> 0, down |-> FALSE]

Incidents == 1..MaxIncidents
NoIncident == 0
(* OPEN and ACKNOWLEDGED are both "ACTIVE" here: no code but the display    *)
(* tells them apart.                                                       *)
IncidentStates == {None, "ACTIVE", "RESOLVED"}
ActiveIncidents == {i \in Incidents : incident[i] = "ACTIVE"}

KindOf == [UNHEALTHY |-> "APPLICATION_UNHEALTHY", CRITICAL |-> "APPLICATION_CRITICAL"]
Kinds ==
  {"APPLICATION_UNHEALTHY", "APPLICATION_CRITICAL", "WORKLOAD_UNAVAILABLE", "ENDPOINT_UNAVAILABLE"}

(* The alerts a transaction opens and closes, in the table and on the board. *)
Changes == [open : SUBSET Kinds, close : SUBSET Kinds, publish : SUBSET Kinds, recover : SUBSET Kinds]

Sessions == {<<"scan", n>> : n \in Scanners} \cup {<<"check", n>> : n \in Checkers}
SessionType ==
  [row : RowType \cup {NoRow}, incident : Incidents \cup {NoIncident},
   endpointRow : EndpointStates \cup {None}, changes : Changes]
Closed == [row |-> None]

TypeOK ==
  /\ <<condition, endpoint>> \in Worlds
  /\ inventory \in Conditions \cup {Gone}
  /\ endpointRow \in EndpointStates \cup {None}
  /\ row \in RowType \cup {NoRow}
  /\ incident \in [Incidents -> IncidentStates]
  /\ revived \in BOOLEAN
  /\ alerts \subseteq Kinds /\ board \subseteq Kinds
  /\ lock \in Scanners \cup {0}
  /\ session \in [Sessions -> {Closed} \cup SessionType]

Init ==
  /\ \E w \in Worlds : condition = w[1] /\ endpoint = w[2]
  /\ inventory = Gone /\ endpointRow = None
  /\ row = NoRow
  /\ incident = [i \in Incidents |-> None] /\ revived = FALSE
  /\ alerts = {} /\ board = {}
  /\ lock = 0
  /\ session = [t \in Sessions |-> Closed]

-----------------------------------------------------------------------------
(* The rows of the cluster.                                                *)

(* Whatever the cluster has that is not in the new list is deleted.  The   *)
(* endpoint's check names no cluster, so its row stays.                    *)
Persist(labelled) == inventory' = labelled

(* persist_account_health(): the listing of the fleet job.  An unreachable *)
(* cluster yields one row, without a label.                                *)
Ingest ==
  /\ Persist(IF condition.reachable THEN condition ELSE Gone)
  /\ UNCHANGED <<world, endpointRow, row, incident, revived, alerts, board, lock, session>>

(* scan_environment_clusters(): summaries from the last snapshot.  Nothing *)
(* is written under the lock of another scan; before the first snapshot    *)
(* nothing is written at all.                                              *)
ClusterScan ==
  /\ lock = 0 /\ inventory # Gone
  /\ Persist(Gone)
  /\ UNCHANGED <<world, endpointRow, row, incident, revived, alerts, board, lock, session>>

-----------------------------------------------------------------------------
(* Transactions over alerts: the rows they change are those they have read. *)

Raise(wanted, published) ==
  [open |-> wanted \ alerts, close |-> {}, publish |-> published \ board, recover |-> {}]
Nothing == Raise({}, {})

Open(t, record) ==
  /\ session[t] = Closed
  /\ session' = [session EXCEPT ![t] = record]

WriteAlerts(changes) ==
  /\ alerts' = (alerts \ changes.close) \cup changes.open
  /\ board' = (board \ changes.recover) \cup changes.publish

Close(t) == session' = [session EXCEPT ![t] = Closed]

-----------------------------------------------------------------------------
(* The application scan.                                                   *)

ApplicationSignals ==
  LET workload == inventory # Gone
      http == IF endpointRow = None THEN "UNKNOWN" ELSE endpointRow
  IN [desired |-> IF workload THEN inventory.desired ELSE 0,
      available |-> IF workload THEN inventory.available ELSE 0,
      crashing |-> workload /\ inventory.crashing,
      restarting |-> workload /\ inventory.restarting,
      workload |-> IF workload THEN inventory.workload ELSE "UNKNOWN",
      ingress |-> IF workload THEN inventory.ingress ELSE "UNKNOWN",
      http |-> http, cluster |-> "UNKNOWN",
      certificate |-> "UNKNOWN", failedRun |-> FALSE]

(* Beyond its threshold a counter makes no difference.                     *)
AtMost(n, bound) == IF n <= bound THEN n ELSE bound

(* Mutant: a failing result leaves the healthy ones counted.               *)
CountedOn(r, status) ==
  CASE status = "HEALTHY" ->
         [r EXCEPT !.status = status, !.unhealthy = 0, !.healthy = AtMost(@ + 1, ResolveAt)]
    [] status \in Failing ->
         [r EXCEPT !.status = status, !.unhealthy = AtMost(@ + 1, OpenAt)]
    [] OTHER -> [r EXCEPT !.status = status]

(* A degraded or unknown result counts neither way.                        *)
Counted(r, status) ==
  CASE status = "HEALTHY" ->
         [r EXCEPT !.status = status, !.unhealthy = 0, !.healthy = AtMost(@ + 1, ResolveAt)]
    [] status \in Failing ->
         [r EXCEPT !.status = status, !.unhealthy = AtMost(@ + 1, OpenAt), !.healthy = 0]
    [] OTHER -> [r EXCEPT !.status = status]

(* Mutant: only the application's own alerts are recovered.                *)
JudgedOwn(status) ==
  CASE status \in Failing -> Raise({KindOf[status]}, {KindOf[status]})
    [] status = "HEALTHY" ->
         [open |-> {}, close |-> alerts, publish |-> {}, recover |-> board \ {"ENDPOINT_UNAVAILABLE"}]
    [] OTHER -> Nothing

(* The alerts of an aggregation: only a healthy result closes any.         *)
Judged(status) ==
  CASE status \in Failing -> Raise({KindOf[status]}, {KindOf[status]})
    [] status = "HEALTHY" -> [open |-> {}, close |-> alerts, publish |-> {}, recover |-> board]
    [] OTHER -> Nothing

(* Mutant: the scan does not ask for the lock.                             *)
AcquireFreely(n) == lock' = n

(* acquire_lock() inserts a row that other transactions never see: they    *)
(* wait for its end, since the key is taken.  A scan has the least number  *)
(* that is free.                                                           *)
Acquire(n) == lock = 0 /\ lock' = n

BeginScan(n) ==
  LET signals == ApplicationSignals
      status == Aggregate(signals)
  IN /\ Acquire(n)
     /\ \A k \in Scanners : k < n => session[<<"scan", k>>] # Closed
     /\ \E i \in (IF ActiveIncidents = {} THEN {NoIncident} ELSE ActiveIncidents) :
          Open(<<"scan", n>>,
               [row |-> [Counted(row, status) EXCEPT !.down = AllDown(signals)],
                incident |-> i, endpointRow |-> None, changes |-> Judged(status)])
     /\ UNCHANGED <<world, resources, row, incident, revived, alerts, board>>

(* evaluate_incident().  A new incident takes the place of a resolved one, *)
(* which is out of the operators' sight from then on.                      *)
OpenIncident(r, found) ==
  /\ r.status \in Failing /\ r.unhealthy >= OpenAt /\ found = NoIncident
  /\ \E i \in Incidents :
       /\ i \notin ActiveIncidents /\ \A k \in Incidents : k < i => k \in ActiveIncidents
       /\ incident' = [incident EXCEPT ![i] = "ACTIVE"]
  /\ UNCHANGED revived

ResolveIncident(r, found) ==
  /\ r.status \notin Failing /\ r.healthy >= ResolveAt /\ found # NoIncident
  /\ incident' = [incident EXCEPT ![found] = "RESOLVED"]
  /\ revived' = (revived /\ ActiveIncidents \ {found} # {})

KeepIncident(r, found) ==
  /\ IF r.status \in Failing THEN r.unhealthy < OpenAt \/ found # NoIncident
     ELSE r.healthy < ResolveAt \/ found = NoIncident
  /\ UNCHANGED <<incident, revived>>

EvaluateIncident(r, found) ==
  OpenIncident(r, found) \/ ResolveIncident(r, found) \/ KeepIncident(r, found)

CommitScan(n) ==
  LET t == <<"scan", n>>
  IN /\ session[t] # Closed
     /\ row' = session[t].row
     /\ EvaluateIncident(session[t].row, session[t].incident)
     /\ WriteAlerts(session[t].changes)
     /\ lock' = IF lock = n THEN 0 ELSE lock
     /\ Close(t)
     /\ UNCHANGED <<world, resources>>

(* run_isolated() rolls back and goes on with the next environment.        *)
FailScan(n) ==
  LET t == <<"scan", n>>
  IN /\ session[t] # Closed
     /\ lock' = IF lock = n THEN 0 ELSE lock
     /\ Close(t)
     /\ UNCHANGED <<world, resources, row, incident, revived, alerts, board>>

-----------------------------------------------------------------------------
(* run_http_health_check(): a failing endpoint is published even when the  *)
(* application's own row does not make it an alert.                        *)
BeginCheck(n) ==
  LET published == IF endpoint \in Failing /\ row # NoRow THEN {"ENDPOINT_UNAVAILABLE"} ELSE {}
  IN /\ Open(<<"check", n>>,
             [row |-> NoRow, incident |-> NoIncident, endpointRow |-> endpoint,
              changes |-> Raise(IF row.status \in {"HEALTHY", "UNKNOWN"} THEN {} ELSE published,
                                published)])
     /\ UNCHANGED <<world, resources, row, incident, revived, alerts, board, lock>>

(* run_health_alert_evaluation(): what the last scan has found, and that a *)
(* workload is down, which is an alert of its own.  Of a healthy row only  *)
(* the unified alerts end here.                                            *)
EvaluationKinds ==
  (IF row.status \in Failing THEN {KindOf[row.status]} ELSE {})
    \cup (IF row.down THEN {"WORKLOAD_UNAVAILABLE"} ELSE {})

BeginEvaluation(n) ==
  /\ row # NoRow
  /\ Open(<<"check", n>>,
          [row |-> NoRow, incident |-> NoIncident, endpointRow |-> None,
           changes |-> IF row.status = "HEALTHY"
                         THEN [Nothing EXCEPT !.recover = board]
                         ELSE Raise(EvaluationKinds, EvaluationKinds)])
  /\ UNCHANGED <<world, resources, row, incident, revived, alerts, board, lock>>

CommitCheck(n) ==
  LET t == <<"check", n>>
  IN /\ session[t] # Closed
     /\ endpointRow' = IF session[t].endpointRow = None THEN endpointRow ELSE session[t].endpointRow
     /\ WriteAlerts(session[t].changes)
     /\ Close(t)
     /\ UNCHANGED <<world, inventory, row, incident, revived, lock>>

FailCheck(n) ==
  /\ session[<<"check", n>>] # Closed
  /\ Close(<<"check", n>>)
  /\ UNCHANGED <<world, resources, row, incident, revived, alerts, board, lock>>

-----------------------------------------------------------------------------
(* acknowledge_incident() does not look at the status: a resolved incident *)
(* is active again.                                                        *)
AcknowledgeIncident(i) ==
  /\ incident[i] = "RESOLVED"
  /\ incident' = [incident EXCEPT ![i] = "ACTIVE"]
  /\ revived' = TRUE
  /\ UNCHANGED <<world, resources, row, alerts, board, lock, session>>

(* The world.                                                              *)
WorldChanges ==
  /\ \E w \in Worlds : condition' = w[1] /\ endpoint' = w[2]
  /\ UNCHANGED <<resources, row, incident, revived, alerts, board, lock, session>>

Next ==
  \/ Ingest \/ ClusterScan
  \/ \E n \in Scanners : BeginScan(n) \/ CommitScan(n) \/ FailScan(n)
  \/ \E n \in Checkers : BeginCheck(n) \/ BeginEvaluation(n) \/ CommitCheck(n) \/ FailCheck(n)
  \/ \E i \in Incidents : AcknowledgeIncident(i)
  \/ WorldChanges

Spec == Init /\ [][Next]_vars

-----------------------------------------------------------------------------
(* Beat starts every job again and again, and not every scan or check      *)
(* meets an error.  Nothing says that an application scan ever runs between *)
(* the fleet job and the next cluster scan.                                *)
CommitProbe(n) == session[<<"check", n>>] # Closed /\ session[<<"check", n>>].endpointRow # None /\ CommitCheck(n)
EndCheck(n) == CommitCheck(n) \/ FailCheck(n)
Fairness ==
  /\ WF_vars(Ingest)
  /\ \A n \in Scanners : SF_vars(BeginScan(n)) /\ SF_vars(CommitScan(n))
  /\ \A n \in Checkers : SF_vars(BeginCheck(n)) /\ WF_vars(EndCheck(n)) /\ SF_vars(CommitProbe(n))

FairSpec == Spec /\ Fairness

-----------------------------------------------------------------------------
(* Two scans never open an incident each, although acquire_lock() is the   *)
(* only thing that keeps them apart (health_sync.py:172): a second active  *)
(* incident takes an operator who acknowledges one that was resolved.      *)
OneIncident == revived \/ Cardinality(ActiveIncidents) <= 1

(* An outage that has been counted out has an active incident, and a       *)
(* counted recovery leaves none, whatever degraded and unknown results     *)
(* come in between (health_sync.py:518).                                   *)
IncidentsFollowCounters ==
  /\ row.unhealthy >= OpenAt => ActiveIncidents # {}
  /\ row.healthy >= ResolveAt => revived \/ ActiveIncidents = {}

Healthy ==
  /\ endpoint = "HEALTHY" /\ condition.reachable
  /\ condition.desired = condition.available /\ ~condition.crashing /\ ~condition.restarting

(* Once an application stays healthy, and nobody acknowledges an incident  *)
(* that was resolved, its alerts and its incident end for good: neither a  *)
(* check that began while the endpoint was down nor the rows the scans     *)
(* replace under one another keep one open (health_sync.py:763).           *)
HealthyEndsAll ==
  <>[](Healthy /\ ~revived) => <>[](alerts = {} /\ board = {} /\ ActiveIncidents = {})
=============================================================================
