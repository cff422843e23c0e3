----------------------------- MODULE HealthRules ------------------------------
(***************************************************************************)
(* Statuses, how a resource of a cluster gets one, and how the statuses of *)
(* what an application consists of make up its own.                        *)
(***************************************************************************)
EXTENDS Integers

Failing == {"UNHEALTHY", "CRITICAL"}
HealthStatuses == {"HEALTHY", "UNKNOWN", "DEGRADED"} \cup Failing

HealthRank ==
  [HEALTHY |-> 0, UNKNOWN |-> 1, DEGRADED |-> 2, UNHEALTHY |-> 3, CRITICAL |-> 4]

(* The worst of a set of statuses; of none at all, nothing is known.       *)
Worst(S) ==
  IF S = {} THEN "UNKNOWN" ELSE CHOOSE s \in S : \A t \in S : HealthRank[t] <= HealthRank[s]

(* Deployments, stateful sets and daemon sets.                             *)
WorkloadStatus(desired, available) ==
  IF desired > 0 /\ available = 0 THEN "CRITICAL"
  ELSE IF available < desired THEN "UNHEALTHY" ELSE "HEALTHY"

(* What aggregate_application() looks at.                                  *)
Signals ==
  [desired : Nat, available : Nat,
   crashing : BOOLEAN,       \* a pod is in CrashLoopBackOff, or failed
   restarting : BOOLEAN,     \* restarts have reached the threshold
   workload : HealthStatuses, http : HealthStatuses, ingress : HealthStatuses,
   cluster : HealthStatuses, certificate : HealthStatuses,
   failedRun : BOOLEAN]      \* the last pipeline run failed

AllDown(s) == s.desired > 0 /\ s.available = 0
Partial(s) == s.crashing \/ (s.desired > 0 /\ s.available < s.desired)
Worn(s) == s.restarting \/ s.certificate = "DEGRADED" \/ s.failedRun \/ s.workload = "DEGRADED"
Components(s) == {s.workload, s.http, s.ingress, s.cluster}
Unheard(s) == s.workload = "UNKNOWN" /\ s.http = "UNKNOWN" /\ s.desired = 0

(* The first rule that applies decides.  No caller sets the status of the  *)
(* dependencies, so it counts as unknown.                                  *)
Aggregate(s) ==
  CASE AllDown(s) -> "CRITICAL"
    [] ~AllDown(s) /\ s.http \in Failing -> s.http
    [] ~AllDown(s) /\ s.http \notin Failing /\ s.ingress \in Failing -> s.ingress
    [] OTHER ->
         IF "CRITICAL" \in {s.certificate, s.cluster} THEN "CRITICAL"
         ELSE IF Partial(s) THEN "UNHEALTHY"
         ELSE IF Worn(s) THEN "DEGRADED"
         ELSE IF Components(s) \subseteq {"HEALTHY", "UNKNOWN"} /\ s.desired = s.available
           THEN IF Unheard(s) THEN "UNKNOWN" ELSE "HEALTHY"
         ELSE Worst(Components(s) \cup {"UNKNOWN"})
=============================================================================
