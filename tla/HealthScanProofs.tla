--------------------------- MODULE HealthScanProofs ---------------------------
(***************************************************************************)
(* Proofs about HealthScan, for any worlds, thresholds, scans and checks:  *)
(* its type invariant, that two scans do not open an incident each, and    *)
(* that incidents follow the counters.  Then what the rules of HealthRules *)
(* promise of any application.                                             *)
(*                                                                         *)
(* Neither property is inductive.  What a scan has read stays true until   *)
(* it commits, but for what operators revive: Found.  That takes the lock: *)
(* Locked.  And a counter runs only while the other is zero: Counters.     *)
(***************************************************************************)
EXTENDS HealthScan, FiniteSetTheorems, TLAPS

Scan(n) == session[<<"scan", n>>]
Scanning(n) == Scan(n) # Closed

Locked == \A n \in Scanners : Scanning(n) => lock = n

NoTwo == revived \/ \A i, k \in ActiveIncidents : i = k

Counters == row.unhealthy = 0 \/ row.healthy = 0

(* The incident a scan has found, and the row it is about to write.        *)
Found(n) ==
  /\ IF Scan(n).incident = NoIncident
       THEN revived \/ ActiveIncidents = {} ELSE Scan(n).incident \in ActiveIncidents
  /\ Scan(n).row.unhealthy = 0 \/ Scan(n).row.healthy = 0
  /\ Scan(n).row.status \in Failing => Scan(n).row.healthy = 0
  /\ Scan(n).row.unhealthy >= OpenAt /\ Scan(n).row.status \notin Failing =>
       Scan(n).incident # NoIncident

FoundByScans == \A n \in Scanners : Scanning(n) => Found(n)

Inv == TypeOK /\ Locked /\ NoTwo /\ Counters /\ FoundByScans /\ IncidentsFollowCounters

-----------------------------------------------------------------------------
(* Statuses.                                                               *)

(* The worst status of a set that knows some is one of them.               *)
LEMMA WorstParts ==
  ASSUME NEW S \in SUBSET HealthStatuses, S # {}
  PROVE  Worst(S) \in HealthStatuses
<1>1. \E s \in S : \A t \in S : HealthRank[t] <= HealthRank[s]
  <2>1. CASE "CRITICAL" \in S
    BY <2>1 DEF HealthStatuses, Failing, HealthRank
  <2>2. CASE "CRITICAL" \notin S /\ "UNHEALTHY" \in S
    BY <2>2 DEF HealthStatuses, Failing, HealthRank
  <2>3. CASE S \cap Failing = {} /\ "DEGRADED" \in S
    BY <2>3 DEF HealthStatuses, Failing, HealthRank
  <2>4. CASE S \subseteq {"UNKNOWN", "HEALTHY"} /\ "UNKNOWN" \in S
    BY <2>4 DEF HealthStatuses, Failing, HealthRank
  <2>5. CASE S = {"HEALTHY"}
    BY <2>5 DEF HealthStatuses, Failing, HealthRank
  <2>. QED BY <2>1, <2>2, <2>3, <2>4, <2>5 DEF HealthStatuses, Failing
<1>2. Worst(S) \in S
  BY <1>1 DEF Worst
<1>. QED BY <1>2

(* What an aggregation yields is a status.                                 *)
LEMMA AggregateParts ==
  ASSUME NEW s \in Signals
  PROVE  Aggregate(s) \in HealthStatuses
<1>1. {s.workload, s.http, s.ingress, s.cluster, s.certificate} \subseteq HealthStatuses
  BY DEF Signals
<1>2. Worst(Components(s) \cup {"UNKNOWN"}) \in HealthStatuses
  <2>1. Components(s) \cup {"UNKNOWN"} \in SUBSET HealthStatuses
    BY <1>1 DEF Components, HealthStatuses
  <2>. QED BY <2>1, WorstParts
<1>3. {"CRITICAL", "UNHEALTHY", "DEGRADED", "UNKNOWN", "HEALTHY"} \subseteq HealthStatuses
  BY DEF HealthStatuses, Failing
<1>. QED BY <1>1, <1>2, <1>3 DEF Aggregate

(* What a scan sees of the world.                                          *)
LEMMA SignalsParts ==
  ASSUME TypeOK
  PROVE  ApplicationSignals \in Signals
<1>1. inventory # Gone => inventory \in ConditionRecord
  BY HealthAssumption DEF TypeOK, Conditions
<1>2. endpointRow # None => endpointRow \in HealthStatuses
  BY HealthAssumption DEF TypeOK, EndpointStates
<1>3. "UNKNOWN" \in HealthStatuses
  BY DEF HealthStatuses
<1>4. CASE inventory = Gone
  BY <1>2, <1>3, <1>4 DEF ApplicationSignals, Signals
<1>5. CASE inventory # Gone
  <2>1. inventory \in ConditionRecord
    BY <1>1, <1>5
  <2>. QED BY <1>2, <1>3, <1>5, <2>1 DEF ApplicationSignals, Signals, ConditionRecord
<1>. QED BY <1>4, <1>5

(* What a result makes of the counters: one of them is zero, and only a    *)
(* failing result lets the failing one reach its threshold.                *)
LEMMA CountedParts ==
  ASSUME TypeOK, Counters, NEW status \in HealthStatuses
  PROVE  LET r == Counted(row, status)
         IN /\ r \in RowType
            /\ r.unhealthy = 0 \/ r.healthy = 0
            /\ r.status \in Failing => r.healthy = 0
            /\ r.unhealthy >= OpenAt /\ r.status \notin Failing => row.unhealthy >= OpenAt
<1>1. /\ row.unhealthy \in 0..OpenAt /\ row.healthy \in 0..ResolveAt
      /\ row \in [status : HealthStatuses \cup {None}, unhealthy : 0..OpenAt,
                 healthy : 0..ResolveAt, down : BOOLEAN]
  <2>1. row \in RowType \cup {NoRow} /\ 0 \in 0..OpenAt /\ 0 \in 0..ResolveAt
    BY HealthAssumption DEF TypeOK
  <2>2. CASE row \in RowType
    BY <2>2 DEF RowType
  <2>3. CASE row = NoRow
    BY <2>1, <2>3 DEF NoRow
  <2>. QED BY <2>1, <2>2, <2>3
<1>2. /\ OpenAt \in Nat /\ OpenAt > 0 /\ ResolveAt \in Nat /\ ResolveAt > 0
      /\ AtMost(row.unhealthy + 1, OpenAt) \in 0..OpenAt
      /\ AtMost(row.healthy + 1, ResolveAt) \in 0..ResolveAt
  BY <1>1, HealthAssumption DEF AtMost
<1>3. CASE status = "HEALTHY"
  <2> DEFINE n == AtMost(row.healthy + 1, ResolveAt)
  <2>1. Counted(row, status) = [row EXCEPT !.status = status, !.unhealthy = 0, !.healthy = n]
    BY <1>3 DEF Counted, Failing
  <2>2. n \in 0..ResolveAt /\ 0 \in 0..OpenAt
    BY <1>2
  <2> HIDE DEF n
  <2> DEFINE r == Counted(row, status)
  <2>3. r \in RowType /\ r.unhealthy = 0 /\ r.status = "HEALTHY"
    BY <1>1, <1>3, <2>1, <2>2 DEF RowType
  <2> HIDE DEF r
  <2>4. ~(r.unhealthy >= OpenAt) /\ r.status \notin Failing
    BY <1>2, <2>3 DEF Failing
  <2>. QED BY <2>3, <2>4 DEF r
<1>4. CASE status \in Failing
  <2> DEFINE n == AtMost(row.unhealthy + 1, OpenAt)
  <2>1. Counted(row, status) = [row EXCEPT !.status = status, !.unhealthy = n, !.healthy = 0]
    BY <1>4 DEF Counted, Failing
  <2>2. n \in 0..OpenAt /\ 0 \in 0..ResolveAt
    BY <1>2
  <2> HIDE DEF n
  <2>. QED BY <1>1, <1>4, <2>1, <2>2 DEF RowType
<1>5. CASE status \notin Failing \cup {"HEALTHY"}
  <2>1. Counted(row, status) = [row EXCEPT !.status = status]
    BY <1>5 DEF Counted
  <2>. QED BY <1>1, <1>5, <2>1 DEF RowType, Counters
<1>. QED BY <1>3, <1>4, <1>5

(* What an aggregation and the checks want of the alerts.                  *)
LEMMA ChangesParts ==
  ASSUME TypeOK
  PROVE  /\ \A S, T \in SUBSET Kinds : Raise(S, T) \in Changes
         /\ \A status \in HealthStatuses \cup {None} : Judged(status) \in Changes
         /\ [Nothing EXCEPT !.recover = board] \in Changes
<1>1. \A S, T \in SUBSET Kinds : Raise(S, T) \in Changes
  BY DEF Raise, Changes
<1>2. Nothing \in Changes
  BY <1>1 DEF Nothing
<1>3. ASSUME NEW status \in HealthStatuses \cup {None}
      PROVE  Judged(status) \in Changes
  <2>1. CASE status \in Failing
    <3>1. {KindOf[status]} \in SUBSET Kinds /\ Judged(status) = Raise({KindOf[status]}, {KindOf[status]})
      BY <2>1 DEF Failing, KindOf, Kinds, Judged
    <3>. QED BY <3>1, <1>1
  <2>2. CASE status = "HEALTHY"
    <3>1. Judged(status) = [open |-> {}, close |-> alerts, publish |-> {}, recover |-> board]
      BY <2>2 DEF Judged, Failing
    <3>. QED BY <3>1 DEF Changes, TypeOK
  <2>3. CASE status \notin Failing \cup {"HEALTHY"}
    BY <1>2, <2>3 DEF Judged
  <2>. QED BY <2>1, <2>2, <2>3
<1>4. [Nothing EXCEPT !.recover = board] \in Changes
  BY <1>2 DEF Changes, TypeOK
<1>. QED BY <1>1, <1>3, <1>4

(* Sessions of scans and of checks.                                        *)
LEMMA SessionParts ==
  ASSUME TypeOK, NEW t \in Sessions
  PROVE  session[t] # Closed <=> session[t] \in SessionType
<1>1. session[t] \in {Closed} \cup SessionType
  BY DEF TypeOK
<1>2. Closed \notin SessionType
  BY DEF Closed, SessionType
<1>. QED BY <1>1, <1>2

-----------------------------------------------------------------------------
(* Steps that concern neither the counters nor the incidents.              *)
LEMMA QuietKeeps ==
  ASSUME Inv, TypeOK', UNCHANGED <<row, incident, revived, lock>>,
         \A n \in Scanners : Scan(n)' = Scan(n)
  PROVE  Inv'
<1>1. ActiveIncidents' = ActiveIncidents
  BY DEF ActiveIncidents
<1>2. Locked'
  BY DEF Inv, Locked, Scanning
<1>3. NoTwo' /\ Counters' /\ IncidentsFollowCounters'
  BY <1>1 DEF Inv, NoTwo, Counters, IncidentsFollowCounters
<1>4. FoundByScans'
  <2>1. ASSUME NEW n \in Scanners, Scanning(n)'
        PROVE  Found(n)'
    <3>1. Found(n)
      BY <2>1 DEF Inv, FoundByScans, Scanning
    <3>. QED BY <1>1, <3>1 DEF Found
  <2>. QED BY <2>1 DEF FoundByScans
<1>. QED BY <1>2, <1>3, <1>4 DEF Inv

(* The rows of the cluster, and the world.                                 *)
LEMMA RowsKeep ==
  ASSUME Inv, Ingest \/ ClusterScan \/ WorldChanges
  PROVE  Inv'
<1>1. UNCHANGED <<row, incident, revived, alerts, board, lock, session, endpointRow>>
  BY DEF Ingest, ClusterScan, WorldChanges, resources
<1>2. <<condition', endpoint'>> \in Worlds
  <2>1. CASE WorldChanges
    <3>1. PICK w \in Worlds : condition' = w[1] /\ endpoint' = w[2]
      BY <2>1 DEF WorldChanges
    <3>2. w = <<w[1], w[2]>>
      BY HealthAssumption
    <3>. QED BY <3>1, <3>2
  <2>2. CASE UNCHANGED world
    BY <2>2 DEF world, Inv, TypeOK
  <2>. QED BY <2>1, <2>2 DEF Ingest, ClusterScan
<1>3. inventory' \in Conditions \cup {Gone}
  <2>1. condition \in Conditions
    <3>1. <<condition, endpoint>>[1] = condition
      OBVIOUS
    <3>. QED BY <3>1 DEF Inv, TypeOK, Conditions
  <2>. QED BY <2>1 DEF Ingest, ClusterScan, WorldChanges, Persist, resources, Inv, TypeOK
<1>4. TypeOK'
  BY <1>1, <1>2, <1>3 DEF Inv, TypeOK
<1>. QED BY <1>1, <1>4, QuietKeeps DEF Scan

(* Checks and evaluations write neither.                                   *)
LEMMA ChecksKeep ==
  ASSUME Inv, NEW n \in Checkers,
         BeginCheck(n) \/ BeginEvaluation(n) \/ CommitCheck(n) \/ FailCheck(n)
  PROVE  Inv'
<1> DEFINE t == <<"check", n>>
<1>1. t \in Sessions /\ \A m \in Scanners : <<"scan", m>> \in Sessions /\ <<"scan", m>> # t
  BY DEF Sessions
<1>2. UNCHANGED <<world, inventory, row, incident, revived, lock>>
  BY DEF BeginCheck, BeginEvaluation, CommitCheck, FailCheck, resources
<1>3. \E x \in {Closed} \cup SessionType : session' = [session EXCEPT ![t] = x]
  <2>1. CASE BeginCheck(n)
    <3> DEFINE published == IF endpoint \in Failing /\ row # NoRow THEN {"ENDPOINT_UNAVAILABLE"} ELSE {}
               opened == IF row.status \in {"HEALTHY", "UNKNOWN"} THEN {} ELSE published
               x == [row |-> NoRow, incident |-> NoIncident, endpointRow |-> endpoint,
                     changes |-> Raise(opened, published)]
    <3>1. endpoint \in EndpointStates
      <4>1. <<condition, endpoint>>[2] = endpoint
        OBVIOUS
      <4>. QED BY <4>1 DEF Inv, TypeOK, EndpointStates
    <3>2. Raise(opened, published) \in Changes
      <4>1. published \in SUBSET Kinds /\ opened \in SUBSET Kinds
        BY DEF Kinds
      <4> HIDE DEF opened, published
      <4>. QED BY <4>1, ChangesParts DEF Inv
    <3>3. session' = [session EXCEPT ![t] = x]
      BY <2>1 DEF BeginCheck, Open
    <3> HIDE DEF opened, published
    <3>4. x \in SessionType
      BY <3>1, <3>2 DEF SessionType
    <3> HIDE DEF x
    <3>. QED BY <3>3, <3>4
  <2>2. CASE BeginEvaluation(n)
    <3> DEFINE wanted == IF row.status = "HEALTHY" THEN [Nothing EXCEPT !.recover = board]
                         ELSE Raise(EvaluationKinds, EvaluationKinds)
               x == [row |-> NoRow, incident |-> NoIncident, endpointRow |-> None, changes |-> wanted]
    <3>1. row.status \in HealthStatuses \cup {None}
      BY DEF Inv, TypeOK, RowType, NoRow
    <3>2. wanted \in Changes
      <4>1. EvaluationKinds \in SUBSET Kinds
        BY DEF EvaluationKinds, Kinds, KindOf, Failing
      <4>2. [Nothing EXCEPT !.recover = board] \in Changes
        BY <3>1, ChangesParts DEF Inv
      <4>. QED BY <4>1, <4>2, ChangesParts DEF Inv
    <3>3. session' = [session EXCEPT ![t] = x]
      BY <2>2 DEF BeginEvaluation, Open
    <3> HIDE DEF wanted
    <3>4. x \in SessionType
      BY <3>2 DEF SessionType
    <3> HIDE DEF x
    <3>. QED BY <3>3, <3>4
  <2>3. CASE CommitCheck(n) \/ FailCheck(n)
    BY <2>3 DEF CommitCheck, FailCheck, Close
  <2>. QED BY <2>1, <2>2, <2>3
<1>4. endpointRow' \in EndpointStates \cup {None} /\ alerts' \subseteq Kinds /\ board' \subseteq Kinds
  <2>1. CASE CommitCheck(n)
    <3>1. session[t] \in SessionType
      BY <1>1, <2>1, SessionParts DEF CommitCheck, Inv
    <3>2. session[t].endpointRow \in EndpointStates \cup {None} /\ session[t].changes \in Changes
      BY <3>1 DEF SessionType
    <3>. QED BY <2>1, <3>2 DEF CommitCheck, WriteAlerts, Changes, Inv, TypeOK
  <2>2. CASE UNCHANGED <<endpointRow, alerts, board>>
    BY <2>2 DEF Inv, TypeOK
  <2>. QED BY <2>1, <2>2 DEF BeginCheck, BeginEvaluation, FailCheck, resources
<1>5. session' \in [Sessions -> {Closed} \cup SessionType] /\ \A m \in Scanners : Scan(m)' = Scan(m)
  BY <1>1, <1>3 DEF Inv, TypeOK, Scan
<1>6. TypeOK'
  BY <1>2, <1>4, <1>5 DEF world, Inv, TypeOK
<1>. QED BY <1>2, <1>5, <1>6, QuietKeeps

(* An operator who finds a resolved incident makes it active again.        *)
LEMMA AcknowledgeKeeps ==
  ASSUME Inv, NEW i \in Incidents, AcknowledgeIncident(i)
  PROVE  Inv'
<1>1. /\ revived' = TRUE /\ incident' = [incident EXCEPT ![i] = "ACTIVE"]
      /\ UNCHANGED <<world, resources, row, alerts, board, lock, session>>
  BY DEF AcknowledgeIncident
<1>2. TypeOK'
  BY <1>1 DEF Inv, TypeOK, world, resources, IncidentStates
<1>3. ActiveIncidents \subseteq ActiveIncidents'
  BY <1>1 DEF ActiveIncidents, Inv, TypeOK
<1>4. Locked' /\ NoTwo' /\ Counters'
  BY <1>1 DEF Inv, Locked, Scanning, Scan, NoTwo, Counters
<1>5. IncidentsFollowCounters'
  BY <1>1, <1>3 DEF Inv, IncidentsFollowCounters
<1>6. ASSUME NEW n \in Scanners, Scanning(n)'
      PROVE  Found(n)'
  <2>1. Found(n)
    BY <1>1, <1>6 DEF Inv, FoundByScans, Scanning, Scan
  <2>. QED BY <1>1, <1>3, <2>1 DEF Found, Scan
<1>. QED BY <1>2, <1>4, <1>5, <1>6 DEF Inv, FoundByScans

-----------------------------------------------------------------------------
(* A scan that begins is the only one, and has read what is true.          *)
LEMMA BeginScanKeeps ==
  ASSUME Inv, NEW n \in Scanners, BeginScan(n)
  PROVE  Inv'
<1> DEFINE status == Aggregate(ApplicationSignals)
           t == <<"scan", n>>
<1>1. status \in HealthStatuses
  BY SignalsParts, AggregateParts DEF Inv
<1>2. PICK i \in (IF ActiveIncidents = {} THEN {NoIncident} ELSE ActiveIncidents) :
        session' = [session EXCEPT ![t] =
          [row |-> [Counted(row, status) EXCEPT !.down = AllDown(ApplicationSignals)],
           incident |-> i, endpointRow |-> None, changes |-> Judged(status)]]
  BY DEF BeginScan, Open
<1>3. /\ lock = 0 /\ lock' = n
      /\ UNCHANGED <<world, resources, row, incident, revived, alerts, board>>
  BY DEF BeginScan, Acquire
<1> HIDE DEF status
<1> DEFINE counted == Counted(row, status)
           r == [counted EXCEPT !.down = AllDown(ApplicationSignals)]
           x == [row |-> r, incident |-> i, endpointRow |-> None, changes |-> Judged(status)]
<1>4. /\ r \in RowType /\ (r.unhealthy = 0 \/ r.healthy = 0)
      /\ r.status \in Failing => r.healthy = 0
      /\ r.unhealthy >= OpenAt /\ r.status \notin Failing => row.unhealthy >= OpenAt
  <2>1. /\ counted \in RowType /\ (counted.unhealthy = 0 \/ counted.healthy = 0)
        /\ counted.status \in Failing => counted.healthy = 0
        /\ counted.unhealthy >= OpenAt /\ counted.status \notin Failing => row.unhealthy >= OpenAt
    BY <1>1, CountedParts DEF Inv
  <2>2. AllDown(ApplicationSignals) \in BOOLEAN
    BY DEF AllDown
  <2> HIDE DEF counted
  <2>. QED BY <2>1, <2>2 DEF RowType
<1>5. Judged(status) \in Changes
  BY <1>1, ChangesParts DEF Inv
<1> HIDE DEF r
<1>6. i \in Incidents \cup {NoIncident}
  BY <1>2 DEF ActiveIncidents
<1>7. x \in SessionType /\ x.row = r /\ x.incident = i
  BY <1>4, <1>5, <1>6 DEF SessionType
<1>8. session' = [session EXCEPT ![t] = x]
  BY <1>2 DEF r
<1> HIDE DEF x
<1>9. t \in Sessions /\ \A m \in Scanners : <<"scan", m>> \in Sessions /\ (m # n => <<"scan", m>> # t)
  BY DEF Sessions
<1>10. Scan(n)' = x /\ \A m \in Scanners : m # n => Scan(m)' = Scan(m)
  BY <1>8, <1>9 DEF Inv, TypeOK, Scan
<1>11. TypeOK'
  BY <1>3, <1>7, <1>8 DEF Inv, TypeOK, world, resources
<1>12. \A m \in Scanners : Scanning(m)' => m = n
  <2>1. \A m \in Scanners : ~Scanning(m)
    BY <1>3, HealthAssumption DEF Inv, Locked
  <2>. QED BY <1>10, <2>1 DEF Scanning
<1>13. Locked'
  BY <1>3, <1>12 DEF Locked
<1>14. ActiveIncidents' = ActiveIncidents
  BY <1>3 DEF ActiveIncidents
<1>15. NoTwo' /\ Counters' /\ IncidentsFollowCounters'
  BY <1>3, <1>14 DEF Inv, NoTwo, Counters, IncidentsFollowCounters
<1>16. Found(n)'
  <2>1. IF i = NoIncident THEN ActiveIncidents = {} ELSE i \in ActiveIncidents
    BY <1>2 DEF ActiveIncidents, Incidents, NoIncident
  <2>2. row.unhealthy >= OpenAt => i # NoIncident
    BY <2>1 DEF Inv, IncidentsFollowCounters
  <2>. QED BY <1>3, <1>4, <1>7, <1>10, <1>14, <2>1, <2>2 DEF Found
<1>. QED BY <1>11, <1>12, <1>13, <1>15, <1>16 DEF Inv, FoundByScans

(* A scan that ends frees the lock.                                        *)
LEMMA EndScanParts ==
  ASSUME Inv, NEW n \in Scanners, FailScan(n) \/ CommitScan(n)
  PROVE  /\ Scanning(n) /\ <<"scan", n>> \in Sessions
         /\ lock' \in Scanners \cup {0}
         /\ session' \in [Sessions -> {Closed} \cup SessionType]
         /\ \A m \in Scanners : ~Scanning(m)'
<1>1. /\ Scanning(n) /\ lock' = IF lock = n THEN 0 ELSE lock
      /\ session' = [session EXCEPT ![<<"scan", n>>] = Closed]
  BY DEF FailScan, CommitScan, Close, Scanning, Scan
<1>2. \A m \in Scanners : <<"scan", m>> \in Sessions
  BY DEF Sessions
<1>3. \A m \in Scanners : m # n => ~Scanning(m)
  BY <1>1 DEF Inv, Locked
<1>4. \A m \in Scanners : ~Scanning(m)'
  BY <1>1, <1>2, <1>3 DEF Inv, TypeOK, Scanning, Scan
<1>. QED BY <1>1, <1>2, <1>4 DEF Inv, TypeOK

(* A scan that fails changes nothing else.                                 *)
LEMMA FailScanKeeps ==
  ASSUME Inv, NEW n \in Scanners, FailScan(n)
  PROVE  Inv'
<1>1. UNCHANGED <<world, resources, row, incident, revived, alerts, board>>
  BY DEF FailScan
<1>2. TypeOK' /\ \A m \in Scanners : ~Scanning(m)'
  BY <1>1, EndScanParts DEF Inv, TypeOK, world, resources
<1>3. ActiveIncidents' = ActiveIncidents
  BY <1>1 DEF ActiveIncidents
<1>4. NoTwo' /\ Counters' /\ IncidentsFollowCounters'
  BY <1>1, <1>3 DEF Inv, NoTwo, Counters, IncidentsFollowCounters
<1>. QED BY <1>2, <1>4 DEF Inv, Locked, FoundByScans

(* The scan writes its row and does with the incident what the counters    *)
(* ask for.                                                                *)
LEMMA CommitScanKeeps ==
  ASSUME Inv, NEW n \in Scanners, CommitScan(n)
  PROVE  Inv'
<1> DEFINE r == Scan(n).row
           found == Scan(n).incident
<1>1. /\ row' = r /\ EvaluateIncident(r, found) /\ WriteAlerts(Scan(n).changes)
      /\ UNCHANGED <<world, resources>>
  BY DEF CommitScan, Scan
<1>2. Scanning(n) /\ Scan(n) \in SessionType /\ Found(n)
  BY EndScanParts, SessionParts DEF Inv, FoundByScans, Scanning, Scan
<1>3. r \in RowType \cup {NoRow} /\ Scan(n).changes \in Changes
  BY <1>2 DEF SessionType
<1>4. /\ r.unhealthy \in 0..OpenAt /\ r.healthy \in 0..ResolveAt
      /\ r.unhealthy = 0 \/ r.healthy = 0
      /\ r.status \in Failing => r.healthy = 0
      /\ r.unhealthy >= OpenAt /\ r.status \notin Failing => found # NoIncident
      /\ OpenAt \in Nat /\ OpenAt > 0 /\ ResolveAt \in Nat /\ ResolveAt > 0
      /\ IF found = NoIncident THEN revived \/ ActiveIncidents = {} ELSE found \in ActiveIncidents
  BY <1>2, <1>3, HealthAssumption DEF RowType, NoRow, Found
<1> HIDE DEF r, found
<1>5. /\ incident' \in [Incidents -> IncidentStates] /\ revived' \in BOOLEAN
      /\ \/ /\ r.status \in Failing /\ r.unhealthy >= OpenAt /\ found = NoIncident
            /\ \E i \in Incidents : ActiveIncidents' = ActiveIncidents \cup {i}
            /\ revived' = revived
         \/ /\ r.status \notin Failing /\ r.healthy >= ResolveAt /\ found # NoIncident
            /\ ActiveIncidents' = ActiveIncidents \ {found}
            /\ revived' = (revived /\ ActiveIncidents' # {})
         \/ /\ IF r.status \in Failing THEN r.unhealthy < OpenAt \/ found # NoIncident
               ELSE r.healthy < ResolveAt \/ found = NoIncident
            /\ ActiveIncidents' = ActiveIncidents /\ revived' = revived
  <2>1. CASE OpenIncident(r, found)
    <3>1. PICK i \in Incidents : incident' = [incident EXCEPT ![i] = "ACTIVE"]
      BY <2>1 DEF OpenIncident
    <3>2. ActiveIncidents' = ActiveIncidents \cup {i} /\ incident' \in [Incidents -> IncidentStates]
      BY <3>1 DEF ActiveIncidents, Inv, TypeOK, IncidentStates
    <3>. QED BY <2>1, <3>2 DEF OpenIncident, Inv, TypeOK
  <2>2. CASE ResolveIncident(r, found)
    <3>1. incident' = [incident EXCEPT ![found] = "RESOLVED"]
      BY <2>2 DEF ResolveIncident
    <3>2. ActiveIncidents' = ActiveIncidents \ {found} /\ incident' \in [Incidents -> IncidentStates]
      BY <3>1 DEF ActiveIncidents, Inv, TypeOK, IncidentStates
    <3>. QED BY <2>2, <3>2 DEF ResolveIncident, Inv, TypeOK
  <2>3. CASE KeepIncident(r, found)
    BY <2>3 DEF KeepIncident, ActiveIncidents, Inv, TypeOK
  <2>. QED BY <1>1, <2>1, <2>2, <2>3 DEF EvaluateIncident
<1>6. TypeOK' /\ \A m \in Scanners : ~Scanning(m)'
  <2>1. alerts' \subseteq Kinds /\ board' \subseteq Kinds
    BY <1>1, <1>3 DEF WriteAlerts, Changes, Inv, TypeOK
  <2>2. row' \in RowType \cup {NoRow}
    BY <1>1, <1>3 DEF r
  <2>. QED BY <1>1, <1>5, <2>1, <2>2, EndScanParts DEF Inv, TypeOK, world, resources
<1>7. NoTwo'
  BY <1>4, <1>5 DEF Inv, NoTwo
<1>8. Counters'
  BY <1>1, <1>4 DEF Counters
<1>9. row'.unhealthy >= OpenAt => ActiveIncidents' # {}
  <2> SUFFICES ASSUME r.unhealthy >= OpenAt PROVE ActiveIncidents' # {}
    BY <1>1
  <2>1. r.healthy < ResolveAt
    BY <1>4
  <2>. QED BY <1>4, <1>5, <2>1
<1>10. row'.healthy >= ResolveAt => revived' \/ ActiveIncidents' = {}
  <2> SUFFICES ASSUME r.healthy >= ResolveAt PROVE revived' \/ ActiveIncidents' = {}
    BY <1>1
  <2>1. r.status \notin Failing
    BY <1>4
  <2>. QED BY <1>4, <1>5, <2>1 DEF Inv, NoTwo
<1>. QED BY <1>6, <1>7, <1>8, <1>9, <1>10 DEF Inv, Locked, FoundByScans, IncidentsFollowCounters

-----------------------------------------------------------------------------
(* The inductive invariant holds.                                          *)
LEMMA InvHolds == Spec => []Inv
<1>1. Init => Inv
  <2> SUFFICES ASSUME Init PROVE Inv
    OBVIOUS
  <2>1. ActiveIncidents = {} /\ \A n \in Scanners : ~Scanning(n)
    BY DEF Init, ActiveIncidents, Scanning, Scan, Sessions, None
  <2>2. <<condition, endpoint>> \in Worlds
    <3>1. PICK w \in Worlds : condition = w[1] /\ endpoint = w[2]
      BY DEF Init
    <3>2. w = <<w[1], w[2]>>
      BY HealthAssumption
    <3>. QED BY <3>1, <3>2
  <2>3. TypeOK
    BY <2>2 DEF Init, TypeOK, IncidentStates
  <2>4. Counters /\ IncidentsFollowCounters
    BY <2>1, HealthAssumption DEF Init, NoRow, Counters, IncidentsFollowCounters
  <2>. QED BY <2>1, <2>3, <2>4 DEF Inv, Locked, NoTwo, FoundByScans
<1>2. Inv /\ [Next]_vars => Inv'
  <2> SUFFICES ASSUME Inv, [Next]_vars PROVE Inv'
    OBVIOUS
  <2>1. ASSUME NEW n \in Scanners, BeginScan(n) \/ CommitScan(n) \/ FailScan(n)
        PROVE  Inv'
    BY <2>1, BeginScanKeeps, CommitScanKeeps, FailScanKeeps
  <2>2. ASSUME NEW n \in Checkers,
               BeginCheck(n) \/ BeginEvaluation(n) \/ CommitCheck(n) \/ FailCheck(n)
        PROVE  Inv'
    BY <2>2, ChecksKeep
  <2>3. CASE UNCHANGED vars
    <3>1. TypeOK'
      BY <2>3 DEF vars, world, resources, Inv, TypeOK
    <3>. QED BY <2>3, <3>1, QuietKeeps DEF vars, Scan
  <2>. QED BY <2>1, <2>2, <2>3, RowsKeep, AcknowledgeKeeps DEF Next
<1>. QED BY <1>1, <1>2, PTL DEF Spec

(* The variables keep their types.                                         *)
THEOREM TypeCorrect == Spec => []TypeOK
<1>1. Inv => TypeOK
  BY DEF Inv
<1>. QED BY <1>1, InvHolds, PTL

(* Scans alone never leave two active incidents.                           *)
THEOREM NoSecondIncident == Spec => []OneIncident
<1>1. Inv => OneIncident
  <2> SUFFICES ASSUME Inv, ~revived PROVE Cardinality(ActiveIncidents) <= 1
    BY DEF OneIncident
  <2>1. CASE ActiveIncidents = {}
    BY <2>1, FS_EmptySet
  <2>2. CASE ActiveIncidents # {}
    <3>1. PICK i \in ActiveIncidents : ActiveIncidents = {i}
      BY <2>2 DEF Inv, NoTwo
    <3>. QED BY <3>1, FS_Singleton
  <2>. QED BY <2>1, <2>2
<1>. QED BY <1>1, InvHolds, PTL

(* A counted outage has an active incident, a counted recovery none.       *)
THEOREM CountersRuleIncidents == Spec => []IncidentsFollowCounters
<1>1. Inv => IncidentsFollowCounters
  BY DEF Inv
<1>. QED BY <1>1, InvHolds, PTL

-----------------------------------------------------------------------------
(* What the rules of HealthRules promise of every application.  The        *)
(* certificates of an environment are never UNHEALTHY.                     *)

Quiet == {"HEALTHY", "UNKNOWN"}

(* The status of a certificate: aggregate_application_row() makes it of    *)
(* the classes of those of the environment.                                *)
OfCertificates == Quiet \cup {"DEGRADED", "CRITICAL"}

(* Of some statuses one is the worst, and it is none that is not there.    *)
LEMMA WorstOfSome ==
  ASSUME NEW S \in SUBSET HealthStatuses, S # {}
  PROVE  Worst(S) \in S /\ \A t \in S : HealthRank[t] <= HealthRank[Worst(S)]
<1>. DEFINE Worse(s) == s \in S /\ \A t \in S : HealthRank[t] <= HealthRank[s]
<1>1. /\ HealthRank["HEALTHY"] = 0 /\ HealthRank["UNKNOWN"] = 1 /\ HealthRank["DEGRADED"] = 2
      /\ HealthRank["UNHEALTHY"] = 3 /\ HealthRank["CRITICAL"] = 4
  BY DEF HealthRank
<1>2. \A t \in S : t \in {"HEALTHY", "UNKNOWN", "DEGRADED", "UNHEALTHY", "CRITICAL"}
  BY DEF HealthStatuses, Failing
<1>3. CASE "CRITICAL" \in S
  <2>1. Worse("CRITICAL")
    BY <1>1, <1>2, <1>3
  <2>. QED BY <2>1 DEF Worst
<1>4. CASE "CRITICAL" \notin S /\ "UNHEALTHY" \in S
  <2>1. Worse("UNHEALTHY")
    BY <1>1, <1>2, <1>4
  <2>. QED BY <2>1 DEF Worst
<1>5. CASE "CRITICAL" \notin S /\ "UNHEALTHY" \notin S /\ "DEGRADED" \in S
  <2>1. Worse("DEGRADED")
    BY <1>1, <1>2, <1>5
  <2>. QED BY <2>1 DEF Worst
<1>6. CASE S \subseteq Quiet /\ "UNKNOWN" \in S
  <2>1. Worse("UNKNOWN")
    BY <1>1, <1>2, <1>6 DEF Quiet
  <2>. QED BY <2>1 DEF Worst
<1>7. CASE S = {"HEALTHY"}
  <2>1. Worse("HEALTHY")
    BY <1>1, <1>7
  <2>. QED BY <2>1 DEF Worst
<1>. QED BY <1>2, <1>3, <1>4, <1>5, <1>6, <1>7 DEF Quiet

(* The last rule: the worst component, and at best nothing is known.       *)
LEMMA LastRule ==
  ASSUME NEW s \in Signals
  PROVE  LET worst == Worst(Components(s) \cup {"UNKNOWN"})
         IN /\ worst # "HEALTHY"
            /\ worst = "UNKNOWN" => Components(s) \subseteq Quiet
            /\ worst = "CRITICAL" => "CRITICAL" \in Components(s)
<1>. DEFINE S     == Components(s) \cup {"UNKNOWN"}
            worst == Worst(S)
<1>1. S \in SUBSET HealthStatuses /\ "UNKNOWN" \in S
  BY DEF Components, Signals, HealthStatuses
<1>2. worst \in S /\ \A t \in S : HealthRank[t] <= HealthRank[worst]
  <2>. HIDE DEF S
  <2>. QED BY <1>1, WorstOfSome
<1>3. worst # "HEALTHY"
  BY <1>1, <1>2 DEF HealthRank
<1>4. ASSUME worst = "UNKNOWN", NEW t \in S PROVE t \in Quiet
  BY <1>1, <1>2, <1>4 DEF HealthRank, Quiet, HealthStatuses, Failing
<1>. QED BY <1>2, <1>3, <1>4

(* A status that worries nobody hides nothing: no component is degraded or *)
(* failing, no certificate, no pod and no run, whichever rule decided; and *)
(* of a healthy application every replica is there and something is known. *)
THEOREM QuietHidesNothing ==
  ASSUME NEW s \in Signals, s.certificate \in OfCertificates, Aggregate(s) \in Quiet
  PROVE  /\ Components(s) \cup {s.certificate} \subseteq Quiet
         /\ ~s.crashing /\ ~s.restarting /\ ~s.failedRun
         /\ s.available >= s.desired
         /\ Aggregate(s) = "HEALTHY" => s.desired = s.available /\ ~Unheard(s)
<1>. DEFINE worst == Worst(Components(s) \cup {"UNKNOWN"})
<1>1. worst # "HEALTHY" /\ (worst = "UNKNOWN" => Components(s) \subseteq Quiet)
  BY LastRule
<1>. HIDE DEF worst
<1>2. /\ ~AllDown(s) /\ s.http \notin Failing /\ s.ingress \notin Failing
      /\ "CRITICAL" \notin {s.certificate, s.cluster} /\ ~Partial(s) /\ ~Worn(s)
      /\ \/ /\ Components(s) \subseteq Quiet /\ s.desired = s.available
            /\ IF Unheard(s) THEN Aggregate(s) = "UNKNOWN" ELSE Aggregate(s) = "HEALTHY"
         \/ Aggregate(s) = worst
  BY DEF Aggregate, Quiet, Failing, worst
<1>3. Components(s) \subseteq Quiet
  BY <1>1, <1>2 DEF Quiet
<1>4. s.certificate \in Quiet /\ ~s.crashing /\ ~s.restarting /\ ~s.failedRun
  BY <1>2 DEF OfCertificates, Worn, Partial
<1>5. s.available >= s.desired
  BY <1>2 DEF Partial, Signals
<1>6. Aggregate(s) = "HEALTHY" => s.desired = s.available /\ ~Unheard(s)
  BY <1>1, <1>2
<1>. QED BY <1>3, <1>4, <1>5, <1>6

(* A critical application has no replica left or something in it that is   *)
(* critical itself; and where the HTTP check, the ingress, the cluster or  *)
(* a certificate is critical, no milder rule makes the application less    *)
(* than failing.                                                           *)
THEOREM CriticalHasACause ==
  ASSUME NEW s \in Signals, s.certificate \in OfCertificates
  PROVE  /\ Aggregate(s) = "CRITICAL" =>
              AllDown(s) \/ "CRITICAL" \in Components(s) \cup {s.certificate}
         /\ AllDown(s) \/ "CRITICAL" \in {s.http, s.ingress, s.cluster, s.certificate} =>
              Aggregate(s) \in Failing
<1>. DEFINE worst == Worst(Components(s) \cup {"UNKNOWN"})
<1>1. worst = "CRITICAL" => "CRITICAL" \in Components(s)
  BY LastRule
<1>. HIDE DEF worst
<1>2. Aggregate(s) = "CRITICAL" =>
        \/ AllDown(s) \/ s.http = "CRITICAL" \/ s.ingress = "CRITICAL"
        \/ "CRITICAL" \in {s.certificate, s.cluster} \/ worst = "CRITICAL"
  BY DEF Aggregate, Failing, worst
<1>3. AllDown(s) \/ "CRITICAL" \in {s.http, s.ingress, s.cluster, s.certificate} =>
        Aggregate(s) \in Failing
  BY DEF Aggregate, Failing
<1>. QED BY <1>1, <1>2, <1>3 DEF Components
=============================================================================
