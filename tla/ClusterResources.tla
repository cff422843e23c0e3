--------------------------- MODULE ClusterResources ---------------------------
(***************************************************************************)
(* From what the Kubernetes API lists to what the platform stores: the     *)
(* normalised resources of a cluster, the snapshot that counts them, the   *)
(* summaries made from a snapshot, and what an application's status is     *)
(* made from.  An inventory is a sequence of resources.                    *)
(***************************************************************************)
EXTENDS HealthRules, Sequences, FiniteSetsExt

CONSTANT RestartThreshold   \* restarts that make a pod degraded

Resource(kind, status) ==
  [kind |-> kind, status |-> status, desired |-> 0, ready |-> 0, available |-> 0,
   restarts |-> 0, reason |-> "", pending |-> FALSE]

One(b) == IF b THEN 1 ELSE 0

-----------------------------------------------------------------------------
(* The resources, each from what decides about its status.                 *)

ClusterApi(reachable) == Resource("cluster", IF reachable THEN "HEALTHY" ELSE "CRITICAL")

(* A node that is ready may still be short of memory, disk or processes.   *)
Node(ready, pressure) ==
  [Resource("node", IF ~ready THEN "UNHEALTHY" ELSE IF pressure THEN "DEGRADED" ELSE "HEALTHY")
     EXCEPT !.desired = 1, !.ready = One(ready)]

(* The reason of a container is the one it waits for, has ended with, or   *)
(* ended with the last time.  It counts before the phase does.             *)
BrokenReasons == {"CrashLoopBackOff", "ImagePullBackOff", "ErrImagePull", "OOMKilled"}
PodStatus(phase, reason, restarts) ==
  CASE reason \in BrokenReasons \/ phase = "failed" -> "UNHEALTHY"
    [] reason \notin BrokenReasons /\ phase = "pending" -> "DEGRADED"
    [] reason \notin BrokenReasons /\ phase = "unknown" -> "UNKNOWN"
    [] OTHER -> IF restarts >= RestartThreshold THEN "DEGRADED" ELSE "HEALTHY"

Pod(phase, reason, restarts) ==
  LET status == PodStatus(phase, reason, restarts)
  IN [Resource("pod", status)
        EXCEPT !.desired = 1, !.ready = One(status = "HEALTHY"), !.restarts = restarts,
               !.reason = reason, !.pending = (phase = "pending")]

Workload(kind, desired, available) ==
  [Resource(kind, WorkloadStatus(desired, available))
     EXCEPT !.desired = desired, !.ready = available, !.available = available]
Deployment(desired, available)  == Workload("deployment", desired, available)
StatefulSet(desired, ready)     == Workload("statefulset", desired, ready)
DaemonSet(scheduled, available) == Workload("daemonset", scheduled, available)

Job(active, succeeded, failed) ==
  [Resource("job", IF failed > 0 THEN "UNHEALTHY" ELSE IF active > 0 THEN "DEGRADED" ELSE "HEALTHY")
     EXCEPT !.desired = active + succeeded + failed, !.ready = succeeded]

(* Endpoints that cannot be read count as none.                            *)
Service(endpoints) ==
  [Resource("service", IF endpoints <= 0 THEN "UNHEALTHY" ELSE "HEALTHY")
     EXCEPT !.desired = 1, !.ready = endpoints, !.available = endpoints]

(* The collector says nothing about TLS, so it is taken to be fine.        *)
Ingress(hasAddress) ==
  [Resource("ingress", IF hasAddress THEN "HEALTHY" ELSE "UNHEALTHY")
     EXCEPT !.desired = 1, !.ready = One(hasAddress)]

-----------------------------------------------------------------------------
(* Queries over an inventory.                                              *)

OfKind(R, kinds) == {i \in DOMAIN R : R[i].kind \in kinds}
Total(R, S, Value(_)) == MapThenSumSet(LAMBDA i : Value(R[i]), S)
StatusesOf(R, kinds) == {R[i].status : i \in OfKind(R, kinds)}
Workloads == {"deployment", "statefulset", "daemonset"}

(* collect_inventory(): one listing that fails makes the whole cluster     *)
(* unreachable.                                                            *)
Inventory(listed, items) ==
  IF ~listed THEN <<ClusterApi(FALSE)>>
  ELSE LET namespace == Resource("namespace", Worst({items[i].status : i \in DOMAIN items}))
       IN <<ClusterApi(TRUE)>> \o items \o (IF items = <<>> THEN <<>> ELSE <<namespace>>)

(* snapshot_from_resources()                                               *)
Snapshot(R) ==
  LET Count(kinds, P(_)) == Cardinality({i \in OfKind(R, kinds) : P(R[i])})
      IsFailing(r) == r.status \in Failing
  IN [reachable   |-> StatusesOf(R, {"cluster"}) = {"HEALTHY"},
      nodes       |-> Cardinality(OfKind(R, {"node"})),
      readyNodes  |-> Count({"node"}, LAMBDA r : r.status = "HEALTHY"),
      badPods     |-> Count({"pod"}, IsFailing),
      crashing    |-> Count({"pod"}, LAMBDA r : r.reason = "CrashLoopBackOff"),
      pending     |-> Count({"pod"}, LAMBDA r : r.pending),
      deployments |-> Count({"deployment"}, LAMBDA r : r.available < r.desired),
      jobs        |-> Count({"job"}, IsFailing),
      statefulSets |-> Count({"statefulset"}, LAMBDA r : r.status \in Failing \cup {"DEGRADED"}),
      ingresses   |-> Count({"ingress"}, IsFailing)]

(* resources_from_snapshot(): one row per kind, three of them only when    *)
(* there is something to report.                                           *)
Summaries(s) ==
  LET Always(kind, status) == Resource(kind, IF s.reachable THEN status ELSE "CRITICAL")
      If(n, kind) == IF n > 0 THEN {Resource(kind, "UNHEALTHY")} ELSE {}
      node == IF s.readyNodes = s.nodes THEN "HEALTHY"
              ELSE IF s.readyNodes > 0 THEN "DEGRADED" ELSE "UNHEALTHY"
      pod == IF s.crashing > 0 THEN "UNHEALTHY"
             ELSE IF s.badPods + s.pending > 0 THEN "DEGRADED" ELSE "HEALTHY"
      deployment == IF s.deployments > 0 THEN "UNHEALTHY" ELSE "HEALTHY"
  IN {ClusterApi(s.reachable), Always("node", node), Always("pod", pod),
      Always("deployment", deployment)}
       \cup If(s.statefulSets, "statefulset") \cup If(s.jobs, "job") \cup If(s.ingresses, "ingress")

(* aggregate_application_row() over rows that all carry the application's  *)
(* label.  Of workloads that want or have nothing, the pods are counted.   *)
Condition(R) ==
  LET workloads == OfKind(R, Workloads)
      pods == OfKind(R, {"pod"})
      Or(n, m) == IF n # 0 THEN n ELSE m
  IN [reachable |-> TRUE,
      desired |-> Or(Total(R, workloads, LAMBDA r : r.desired), Total(R, pods, LAMBDA r : r.desired)),
      available |-> Or(Total(R, workloads, LAMBDA r : r.available), Total(R, pods, LAMBDA r : r.ready)),
      crashing |-> \E i \in pods : R[i].reason = "CrashLoopBackOff" \/ R[i].status \in Failing,
      restarting |-> Total(R, pods, LAMBDA r : r.restarts) >= RestartThreshold,
      workload |-> Worst(StatusesOf(R, Workloads)),
      ingress |-> Worst(StatusesOf(R, {"ingress"}))]
=============================================================================
