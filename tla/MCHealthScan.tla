---------------------------- MODULE MCHealthScan ------------------------------
(***************************************************************************)
(* An instance of HealthScan for TLC, whose conditions are those of small  *)
(* inventories, and the checks of ClusterResources over all of them.       *)
(***************************************************************************)
EXTENDS HealthScan, ClusterResources

Running == Pod("running", "", 0)
Up     == <<Deployment(2, 2), Running, Running, Ingress(TRUE)>>
HalfUp == <<Deployment(2, 1), Running, Pod("running", "CrashLoopBackOff", 1), Ingress(TRUE)>>
MCWorlds == {<<Condition(Up), "HEALTHY">>, <<Condition(HalfUp), "UNHEALTHY">>}

-----------------------------------------------------------------------------
Pods ==
  {Pod(phase, reason, restarts) :
     phase \in {"running", "pending", "failed", "unknown"},
     reason \in {"", "CrashLoopBackOff", "OOMKilled", "Completed"},
     restarts \in {0, RestartThreshold}}
Replicated ==
  {Workload(kind, desired, available) :
     kind \in Workloads, desired \in 0..2, available \in 0..2}
Others ==
  {Node(ready, pressure) : ready \in BOOLEAN, pressure \in BOOLEAN}
    \cup {Job(active, 0, failed) : active \in 0..1, failed \in 0..1}
    \cup {Service(n) : n \in 0..1} \cup {Ingress(b) : b \in BOOLEAN}

(* What one application may consist of, and what a cluster may.            *)
Applications == {<<w, p, q>> : w \in Replicated, p \in Pods, q \in Pods}
Clusters == {<<a, b, c>> : a \in Replicated \cup Others, b \in Pods \cup Others, c \in Others}

StatusOf(R) ==
  LET c == Condition(R)
  IN Aggregate([desired |-> c.desired, available |-> c.available, crashing |-> c.crashing,
                restarting |-> c.restarting, workload |-> c.workload, http |-> "UNKNOWN",
                ingress |-> c.ingress, cluster |-> "UNKNOWN", certificate |-> "UNKNOWN",
                failedRun |-> FALSE])

(* A healthy application hides no failing workload and no failing pod,     *)
(* although replicas and pods are added up before they are compared.       *)
ASSUME HealthyIsSound ==
  \A R \in Applications :
    StatusOf(R) = "HEALTHY" => \A i \in DOMAIN R : R[i].status \notin Failing

(* A workload without any replica is critical, and its application is.     *)
(* The replicas do not count as none, however, when its pods run without   *)
(* being available, so that WORKLOAD_UNAVAILABLE is not raised then.       *)
ASSUME OutageIsCritical ==
  \A R \in Applications :
    R[1].desired > 0 /\ R[1].available = 0 =>
      /\ R[1].status = "CRITICAL"
      /\ Condition(R).available = 0 => StatusOf(R) = "CRITICAL"
      /\ Condition(R).available = 0 \/ \E i \in 2..3 : R[i].ready = 1

(* The summaries that a cluster scan stores in place of the resources tell *)
(* that something fails, for every kind they speak of, and of a cluster    *)
(* that cannot be read they say nothing good.  They are silent about       *)
(* daemon sets and services.                                               *)
Summarised == {"node", "pod", "deployment", "statefulset", "job", "ingress"}
ASSUME SummariesTell ==
  \A items \in Clusters :
    LET R == Inventory(TRUE, items)
        summaries == Summaries(Snapshot(R))
    IN /\ \A i \in OfKind(R, Summarised) :
            R[i].status \in Failing =>
              \E s \in summaries : s.kind = R[i].kind /\ s.status # "HEALTHY"
       /\ \A s \in summaries :
            s.status # "HEALTHY" => \E i \in OfKind(R, {s.kind}) : R[i].status # "HEALTHY"

ASSUME UnreadIsCritical ==
  \A s \in Summaries(Snapshot(Inventory(FALSE, <<>>))) : s.status = "CRITICAL"
==============================================================================
