----------------------------- MODULE PipelineRuns -----------------------------
(***************************************************************************)
(* The runs of one pipeline of Azure DevOps, or of one workflow of GitHub, *)
(* in one environment that has an alert severity, and their alerts.  The   *)
(* provider announces the end of a run by a webhook, which may be lost,    *)
(* late or repeated; the sync jobs list all runs again and again.  Both    *)
(* end in upsert_run() and evaluate_run_alert(), of which each provider    *)
(* has its own.  A run in progress changes nothing here but the status     *)
(* that is shown, so only the outcomes of its attempts are modelled.       *)
(***************************************************************************)
EXTENDS Integers, Sequences, FiniteSets

CONSTANTS
  Sources,        \* whose runs they may be
  Runs,
  Workers,        \* transactions under way at one time
  MaxAttempts,    \* bound: how often the runs are tried, together
  MaxDeliveries   \* bound: webhooks that arrive

AllSources == {"azure", "github"}

ASSUME PipelineAssumption ==
  /\ Sources \subseteq AllSources
  /\ IsFiniteSet(Runs) /\ Workers \subseteq Nat
  /\ MaxAttempts \in Nat /\ MaxDeliveries \in Nat

VARIABLES
  source,      \* whose runs they are
  outcomes,    \* the provider: what the attempts of each run have come to
  delivery,    \* pipeline_webhook_deliveries, by run and attempt
  status,      \* pipeline_runs, github_workflow_runs
  alert,       \* pipeline_alerts, github_alerts: one row per run
  unified,     \* the unified alerts of the pipeline, by who inserted them
  announced,   \* times a run's failure was sent, if not by what was rolled back
  session      \* open transactions

provider == <<source, outcomes>>
vars == <<provider, delivery, status, alert, unified, announced, session>>

None == "none"
Outcomes == {"FAILED", "SUCCEEDED"}
UnifiedStates == {None, "active", "resolved"}
Events == Runs \X (1..MaxAttempts)

(* What a transaction still has to handle, and what it has written so far: *)
(* statuses, alerts inserted, announced and resolved, the unified alerts.  *)
SessionType ==
  [event : Events \cup {None}, listed : [Runs -> Outcomes \cup {None}], todo : SUBSET Runs,
   status : [Runs -> Outcomes \cup {None}], created : SUBSET Runs,
   opened : SUBSET Runs, told : SUBSET Runs, resolved : SUBSET Runs,
   unified : [Workers -> UnifiedStates]]
Untouched == [u \in Workers |-> None]
Closed == [event |-> None, todo |-> {}, opened |-> {}, told |-> {}, open |-> FALSE]
IsOpen(w) == session[w] # Closed

TypeOK ==
  /\ source \in Sources
  /\ outcomes \in [Runs -> Seq(Outcomes)]
  /\ delivery \in [Events -> {None, "queued", "processed"}]
  /\ status \in [Runs -> Outcomes \cup {None}]
  /\ alert \in [Runs -> {None, "OPEN", "RESOLVED"}]
  /\ unified \in [Workers -> UnifiedStates]
  /\ announced \in [Runs -> Nat]
  /\ session \in [Workers -> {Closed} \cup SessionType]

Init ==
  /\ source \in Sources
  /\ outcomes = [r \in Runs |-> <<>>]
  /\ delivery = [e \in Events |-> None]
  /\ status = [r \in Runs |-> None]
  /\ alert = [r \in Runs |-> None]
  /\ unified = Untouched
  /\ announced = [r \in Runs |-> 0]
  /\ session = [w \in Workers |-> Closed]

-----------------------------------------------------------------------------
(* The provider.  A run that has ended may be tried again.                 *)
Finish(r, outcome) ==
  /\ Cardinality({e \in Events : e[2] <= Len(outcomes[e[1]])}) < MaxAttempts
  /\ outcomes' = [outcomes EXCEPT ![r] = Append(@, outcome)]
  /\ UNCHANGED <<source, delivery, status, alert, unified, announced, session>>

Finished(r) == outcomes[r] # <<>>
Outcome(r) == outcomes[r][Len(outcomes[r])]

(* accept_azure_webhook(), accept_webhook() of GitHub, and enqueue_job().  *)
(* A second delivery of the same notification finds its row, also when no  *)
(* job was made for the first.                                             *)
Accept(e) ==
  /\ e[2] <= Len(outcomes[e[1]]) /\ delivery[e] = None
  /\ Cardinality({d \in Events : delivery[d] # None}) < MaxDeliveries
  /\ delivery' = [delivery EXCEPT ![e] = "queued"]
  /\ UNCHANGED <<provider, status, alert, unified, announced, session>>

-----------------------------------------------------------------------------
(* Transactions.                                                           *)

(* A transaction has the least number that is free.                        *)
Begin(w, event, listed) ==
  /\ ~IsOpen(w) /\ \A v \in Workers : v < w => IsOpen(v)
  /\ session' = [session EXCEPT ![w] =
       [event |-> event, listed |-> listed, todo |-> {r \in Runs : listed[r] # None},
        status |-> [r \in Runs |-> None], created |-> {},
        opened |-> {}, told |-> {}, resolved |-> {}, unified |-> Untouched]]
  /\ UNCHANGED <<provider, delivery, status, alert, unified, announced>>

(* process_pipeline_delivery(), process_delivery() of GitHub: also a second *)
(* time, if the broker delivers the task again before the first is done.   *)
BeginDelivery(w, e) ==
  /\ delivery[e] = "queued"
  /\ Begin(w, e, [r \in Runs |-> IF r = e[1] THEN outcomes[r][e[2]] ELSE None])

(* Mutant: a run that is known is not listed again.                        *)
BeginSyncNew(w) ==
  Begin(w, None, [r \in Runs |-> IF Finished(r) /\ status[r] = None THEN Outcome(r) ELSE None])

(* _sync_runs(), run_workflow_run_sync(): the listing comes in any order.  *)
BeginSync(w) == Begin(w, None, [r \in Runs |-> IF Finished(r) THEN Outcome(r) ELSE None])

(* What a transaction sees: its own writes before those committed.         *)
AlertSeen(w, r) ==
  IF r \in session[w].resolved THEN "RESOLVED"
  ELSE IF r \in session[w].opened THEN "OPEN" ELSE alert[r]
OpenSeen(w) == {r \in Runs : AlertSeen(w, r) = "OPEN"}
UnifiedSeen(w, u) == IF session[w].unified[u] = None THEN unified[u] ELSE session[w].unified[u]
UnifiedIn(w, state) == {u \in Workers : UnifiedSeen(w, u) = state}

(* publish() of a failure: another occurrence of an active alert, a        *)
(* resolved one reopened, or a new row.  Nobody is told of an occurrence.  *)
Occurs(w) == UnifiedIn(w, "active") # {}
Published(w) ==
  IF Occurs(w) THEN {session[w].unified}
  ELSE {[session[w].unified EXCEPT ![u] = "active"] :
          u \in (IF UnifiedIn(w, "resolved") = {} THEN {w} ELSE UnifiedIn(w, "resolved"))}

(* publish() of a recovery: one active alert is resolved, if there is one. *)
Recovered(w) ==
  IF Occurs(w) THEN {[session[w].unified EXCEPT ![u] = "resolved"] : u \in UnifiedIn(w, "active")}
  ELSE {session[w].unified}

(* Mutant: the row is not flushed first.                                   *)
InsertLater(w, r) == TRUE

(* The id of an alert is made of its run.  The row is flushed before       *)
(* anything is sent: if another transaction has inserted the same, it is   *)
(* that one's end that decides.                                            *)
MayInsert(w, r) == alert[r] = None /\ \A v \in Workers : r \notin session[v].opened

(* Mutant: the row of a run is written when it is new, and never again.    *)
StatusInserted(w, r) ==
  IF status[r] # None THEN session[w]
  ELSE [session[w] EXCEPT !.status[r] = session[w].listed[r], !.created = @ \cup {r}]

(* The row of the run.                                                     *)
StatusSet(w, r) ==
  LET outcome == session[w].listed[r]
  IN IF status[r] = outcome THEN session[w]
     ELSE [session[w] EXCEPT !.status[r] = outcome,
             !.created = IF status[r] = None THEN @ \cup {r} ELSE @]

(* evaluate_run_alert() of pipeline_sync.  A success of any run resolves   *)
(* all alerts of the pipeline and is published; an alert that was resolved *)
(* is not opened again.                                                    *)
ResolvedByPipeline(w, r) == OpenSeen(w)
KnownToPipeline(w, r) == AlertSeen(w, r) # None

(* evaluate_run_alert() of github_sync.  A success resolves the alert of   *)
(* its own run and is published if there was one; only an open alert is    *)
(* found when the run has failed.                                          *)
ResolvedByWorkflow(w, r) == OpenSeen(w) \cap {r}
KnownToWorkflow(w, r) == AlertSeen(w, r) = "OPEN"

Resolved(w, r) == IF source = "azure" THEN ResolvedByPipeline(w, r) ELSE ResolvedByWorkflow(w, r)
IsKnown(w, r) == IF source = "azure" THEN KnownToPipeline(w, r) ELSE KnownToWorkflow(w, r)

Succeeded(w, r) ==
  /\ session[w].listed[r] = "SUCCEEDED"
  /\ \E u \in (IF source = "azure" \/ Resolved(w, r) # {} THEN Recovered(w) ELSE {session[w].unified}) :
       session' = [session EXCEPT ![w] =
         [StatusSet(w, r) EXCEPT !.todo = @ \ {r}, !.resolved = @ \cup Resolved(w, r), !.unified = u]]
  /\ UNCHANGED announced

FailedFirst(w, r) ==
  /\ session[w].listed[r] = "FAILED" /\ ~IsKnown(w, r)
  /\ MayInsert(w, r)
  /\ \E u \in Published(w) :
       session' = [session EXCEPT ![w] =
         [StatusSet(w, r) EXCEPT !.todo = @ \ {r}, !.opened = @ \cup {r},
            !.told = IF Occurs(w) THEN @ ELSE @ \cup {r}, !.unified = u]]
  /\ announced' = IF Occurs(w) THEN announced ELSE [announced EXCEPT ![r] = @ + 1]

FailedAgain(w, r) ==
  /\ session[w].listed[r] = "FAILED" /\ IsKnown(w, r)
  /\ session' = [session EXCEPT ![w] = [StatusSet(w, r) EXCEPT !.todo = @ \ {r}]]
  /\ UNCHANGED announced

UpsertRun(w, r) ==
  /\ IsOpen(w) /\ r \in session[w].todo
  /\ Succeeded(w, r) \/ FailedFirst(w, r) \/ FailedAgain(w, r)
  /\ UNCHANGED <<provider, delivery, status, alert, unified>>

(* A run that another transaction has inserted meanwhile makes the commit  *)
(* fail.                                                                   *)
Commit(w) ==
  LET s == session[w]
  IN /\ IsOpen(w) /\ s.todo = {}
     /\ \A r \in s.created : status[r] = None
     /\ status' = [r \in Runs |-> IF s.status[r] = None THEN status[r] ELSE s.status[r]]
     /\ alert' = [r \in Runs |-> IF r \in s.opened \cup s.resolved THEN AlertSeen(w, r) ELSE alert[r]]
     /\ unified' = [u \in Workers |-> UnifiedSeen(w, u)]
     /\ delivery' = IF s.event = None THEN delivery ELSE [delivery EXCEPT ![s.event] = "processed"]
     /\ session' = [session EXCEPT ![w] = Closed]
     /\ UNCHANGED <<provider, announced>>

(* A delivery stays queued, for a retry or for good.                       *)
Rollback(w) ==
  /\ IsOpen(w)
  /\ announced' = [r \in Runs |-> IF r \in session[w].told THEN announced[r] - 1 ELSE announced[r]]
  /\ session' = [session EXCEPT ![w] = Closed]
  /\ UNCHANGED <<provider, delivery, status, alert, unified>>

Next ==
  \/ \E r \in Runs, outcome \in Outcomes : Finish(r, outcome)
  \/ \E e \in Events : Accept(e)
  \/ \E w \in Workers : BeginSync(w) \/ Commit(w) \/ Rollback(w)
  \/ \E w \in Workers, e \in Events : BeginDelivery(w, e)
  \/ \E w \in Workers, r \in Runs : UpsertRun(w, r)

Spec == Init /\ [][Next]_vars

(* Beat starts a sync every five minutes, no transaction stays open, and   *)
(* some sync succeeds again and again, unless from some time on each meets *)
(* an alert with the id of the one it has to insert.  No webhook need      *)
(* arrive.                                                                 *)
SyncCommits == \E w \in Workers : IsOpen(w) /\ session[w].event = None /\ Commit(w)
Proceed(w) == Commit(w) \/ Rollback(w) \/ \E r \in Runs : UpsertRun(w, r)
IdTaken ==
  \E r \in Runs :
    source = "github" /\ Finished(r) /\ Outcome(r) = "FAILED" /\ alert[r] = "RESOLVED"
Fairness ==
  /\ \A w \in Workers : WF_vars(Proceed(w))
  /\ []<><<SyncCommits>>_vars \/ <>[]IdTaken
FairSpec == Spec /\ Fairness

-----------------------------------------------------------------------------
(* The failure of a run is announced once, however many syncs, deliveries  *)
(* and redeliveries report it at the same time (pipeline_sync.py:247): a   *)
(* second announcement takes a first whose transaction was rolled back.    *)
AnnouncedOnce == \A r \in Runs : announced[r] <= 1

(* When nothing more happens at the provider the rows come to say what it  *)
(* says, although old webhooks are processed late, webhooks are lost and   *)
(* transactions overwrite each other; unless a sync cannot go through.     *)
RowsFollow == \A r \in Runs : Finished(r) => status[r] = Outcome(r)
RowsCatchUp == <>[]RowsFollow \/ <>[]IdTaken

(* Once every run that has ended has succeeded, no alert stays open, and   *)
(* the unified alerts are clear (pipeline_sync.py:220).  The second holds  *)
(* of a workflow only if no two transactions inserted one each             *)
(* (service.py:282): recoveries that overlap then close the same one twice. *)
AllSucceeded == \A r \in Runs : Finished(r) => Outcome(r) = "SUCCEEDED"
AlertsClear ==
  /\ \A r \in Runs : alert[r] # "OPEN"
  /\ \/ \A u \in Workers : unified[u] # "active"
     \/ source = "github" /\ Cardinality({u \in Workers : unified[u] # None}) > 1
SuccessSettles == <>[]AllSucceeded => <>[]AlertsClear
=============================================================================
