--------------------------- MODULE EscalationJobs ---------------------------
(***************************************************************************)
(* run_escalation() in transactions that overlap, followed for one alert   *)
(* and one destination of its escalation steps.                            *)
(*                                                                         *)
(* AlertLifecycle runs each job as one step.  In the code the beat entries *)
(* alert-evaluate and alert-escalation-check each start run_escalation()   *)
(* every minute, in processes of their own: the query for a live row, the  *)
(* insertion, the provider calls and the commit are a long way apart, and  *)
(* no lock or unique key makes the query of one wait for the other.        *)
(*                                                                         *)
(* PENDING stands for RETRY as well and FAILED for SKIPPED: what tells     *)
(* them apart is the subject of AlertLifecycle and NotificationDispatch.   *)
(***************************************************************************)
EXTENDS Naturals, FiniteSets

CONSTANTS
  Notices,      \* escalation rows of the alert for the destination
  Jobs,         \* the processes that run dispatch_pending()
  Escalators    \* those of them that run run_escalation()

ASSUME JobsAssumption ==
  /\ IsFiniteSet(Notices)
  /\ Escalators \subseteq Jobs /\ IsFiniteSet(Escalators)

NoticeStatuses == {"NONE", "PENDING", "SENT", "FAILED"}
Settled        == {"PENDING", "SENT", "FAILED"}   \* how deliver() leaves a row

VARIABLES
  notice,   \* the committed rows
  job,      \* the jobs with an open session
  revived   \* ghost: rows that came back from FAILED by a late commit

escVars == <<notice, job, revived>>

(* stage: "sending", the first dispatch_pending(); "queued", its rows are  *)
(* flushed and run_escalation() has looked for a live row; "closing", the  *)
(* second dispatch_pending().  held: rows the running dispatch has read.   *)
(* flushed: what the session has written and not committed.                *)
JobRecord ==
  [stage   : {"idle", "sending", "queued", "closing"},
   held    : SUBSET Notices,
   flushed : [Notices -> NoticeStatuses],
   adds    : BOOLEAN]

IdleJob ==
  [stage |-> "idle", held |-> {}, flushed |-> [x \in Notices |-> "NONE"], adds |-> FALSE]

EscInit ==
  /\ notice = [x \in Notices |-> "NONE"]
  /\ job = [j \in Jobs |-> IdleJob]
  /\ revived = {}

-----------------------------------------------------------------------------
(* The rows a flush has written stay locked until the commit.              *)
Locked(j) == {x \in Notices : job[j].flushed[x] # "NONE"}

IsFree(j, S) == \A i \in Jobs \ {j} : S \cap Locked(i) = {}

(* What the queries of j's session find.                                   *)
Visible(j, x) == IF x \in Locked(j) THEN job[j].flushed[x] ELSE notice[x]

DueForDispatch(j) == {x \in Notices : Visible(j, x) = "PENDING"}

LiveStates == {"PENDING", "SENT"}

(* Mutant of Blocks: the query forgets rows that are waiting.              *)
BlocksWhenSent(status) == status = "SENT"

(* due_for_escalation() and _queue_deliveries() look for these.            *)
Blocks(status) == status \in LiveStates

(* The rows in W are delivered: an outcome each.  A row that the limit or  *)
(* its retry time leaves out, and one that stays in RETRY, is not written. *)
Outcome(W) == [W -> Settled]

-----------------------------------------------------------------------------
(* The query of dispatch_pending() reads every row that is due.  An        *)
(* escalation check that is no evaluation has no first dispatch.           *)
StartDispatch(j) ==
  /\ job[j].stage = "idle"
  /\ \E S \in {{}, DueForDispatch(j)} :
       job' = [job EXCEPT ![j].stage = "sending", ![j].held = S]
  /\ UNCHANGED <<notice, revived>>

(* run_escalation(): ensure_defaults() flushes what the first dispatch did, *)
(* to the rows in W; then due_for_escalation() and _queue_deliveries() look *)
(* for a live row.  Whether the alert is open, old enough and neither       *)
(* suppressed nor under maintenance by then is `isDue`.                     *)
Escalated(j, W, out, isDue) ==
  LET seen == [x \in Notices |-> IF x \in W THEN out[x] ELSE notice[x]]
  IN  [stage   |-> "queued",
       held    |-> {},
       flushed |-> [x \in Notices |-> IF x \in W THEN out[x] ELSE "NONE"],
       adds    |-> isDue /\ \A x \in Notices : ~Blocks(seen[x])]

QueueEscalation(j) ==
  /\ j \in Escalators /\ job[j].stage = "sending"
  /\ \E W \in SUBSET job[j].held, isDue \in BOOLEAN :
       /\ IsFree(j, W)
       /\ \E out \in Outcome(W) : job' = [job EXCEPT ![j] = Escalated(j, W, out, isDue)]
  /\ UNCHANGED <<notice, revived>>

(* The second query: rows of its own and of others.                        *)
StartRedispatch(j) ==
  /\ job[j].stage = "queued"
  /\ job' = [job EXCEPT ![j].stage = "closing", ![j].held = DueForDispatch(j)]
  /\ UNCHANGED <<notice, revived>>

(* A place for a new row: none, or a failed one that no session holds.     *)
Vacant ==
  {x \in Notices :
     /\ notice[x] \in {"NONE", "FAILED"}
     /\ \A i \in Jobs : x \notin job[i].held \cup Locked(i)}

(* What the commit writes over the rows, the rows in W delivered last.     *)
Committed(j, W, out) ==
  [x \in Notices |-> IF x \in W THEN out[x] ELSE Visible(j, x)]

RevivedBy(table) ==
  {x \in Notices : notice[x] = "FAILED" /\ table[x] \in LiveStates}

MayCommit(j) ==
  \/ job[j].stage = "closing"
  \/ job[j].stage = "sending" /\ j \notin Escalators

CommitOutcomes(j) ==
  /\ MayCommit(j) /\ ~job[j].adds
  /\ \E W \in SUBSET job[j].held :
       /\ IsFree(j, W)
       /\ \E out \in Outcome(W) :
            /\ notice' = Committed(j, W, out)
            /\ revived' = revived \cup RevivedBy(Committed(j, W, out))
  /\ job' = [job EXCEPT ![j] = IdleJob]

(* The new row was delivered, too, unless the limit was reached.           *)
CommitEscalation(j) ==
  /\ MayCommit(j) /\ job[j].adds
  /\ \E W \in SUBSET job[j].held, x \in Vacant, status \in Settled :
       /\ IsFree(j, W)
       /\ \E out \in Outcome(W) :
            /\ notice' = [Committed(j, W, out) EXCEPT ![x] = status]
            /\ revived' = (revived \cup RevivedBy(Committed(j, W, out))) \ {x}
  /\ job' = [job EXCEPT ![j] = IdleJob]

(* An exception, the end of the process, or PostgreSQL ending a deadlock   *)
(* of row locks.                                                           *)
AbortJob(j) ==
  /\ job[j].stage # "idle"
  /\ job' = [job EXCEPT ![j] = IdleJob]
  /\ UNCHANGED <<notice, revived>>

EscNext ==
  \E j \in Jobs :
    \/ StartDispatch(j) \/ QueueEscalation(j) \/ StartRedispatch(j)
    \/ CommitOutcomes(j) \/ CommitEscalation(j) \/ AbortJob(j)

EscSpec == EscInit /\ [][EscNext]_escVars

-----------------------------------------------------------------------------
(* The variables have their types.                                         *)
EscTypeOK ==
  /\ notice \in [Notices -> NoticeStatuses]
  /\ job \in [Jobs -> JobRecord]
  /\ revived \subseteq Notices

LiveNotices == {x \in Notices : notice[x] \in LiveStates} \ revived

(* The destination may be told of one escalation by as many rows as there  *)
(* are jobs that escalate, and by no more, however often rows fail, are    *)
(* queued anew or are overwritten by a dispatch that read them before.     *)
(* Not counted are failed rows that such a dispatch brings back.           *)
OneLivePerEscalator == Cardinality(LiveNotices) <= Cardinality(Escalators)
=============================================================================
