------------------------------ MODULE JobQueue ------------------------------
(***************************************************************************)
(* Background jobs of one kind and target: enqueue_job(), the platform_jobs *)
(* rows, the messages of the Celery broker, and the task that runs a job.  *)
(*                                                                         *)
(* Requests and the beat process enqueue concurrently; each looks for a    *)
(* queued or running row of the kind, creates one if there is none, and    *)
(* sends a message for it.  A worker takes a message, marks the row        *)
(* running, works, marks the row finished, and acknowledges the message    *)
(* last (acks_late).  A failed task is sent again with one more try.       *)
(***************************************************************************)
EXTENDS Naturals, FiniteSets

CONSTANTS
  MaxRequests, \* bound: how many requests find no active job at first
  Enqueuers,   \* requests and beat ticks under way at one time
  Workers,     \* Celery worker processes
  Families,    \* how the kinds of job differ: a set of FamilyRecord
  MaxTries,    \* max_retries of the task
  MaxMishaps   \* bound: lost submissions, crashes and failing commits

(* Rows are created with these ids in this order.                          *)
Jobs  == 1..MaxRequests
NoJob == 0

(* A transient or permanent error of the provider, or one of the platform  *)
(* itself, the database for instance.                                      *)
Errors == {"transient", "permanent", "internal"}

FamilyRecord ==
  [marksRunning : BOOLEAN,        \* the task calls mark_job_running()
   atOnce       : BOOLEAN,        \* work and finished row are committed together
   marks        : SUBSET (Errors \cup {"success"}),  \* the outcomes the row records
   retries      : SUBSET Errors]  \* the errors after which Celery sends it again

ASSUME JobAssumption ==
  /\ Families \subseteq FamilyRecord
  /\ MaxRequests \in Nat /\ MaxTries \in Nat /\ MaxMishaps \in Nat

VARIABLES
  family,    \* never changes
  status,    \* platform_jobs, as committed
  requests,  \* how many there were
  step,      \* where an enqueuer is in enqueue_job()
  job,       \* the row it is about to commit or submit
  queue,     \* the broker: how many messages there are of a job and a try
  phase,     \* where a worker is in its task
  held,      \* the message it has not acknowledged yet
  pushed,    \* how often a job was submitted or redelivered
  worked,    \* how often the work of a job was committed
  lost,      \* jobs a message or an outcome of which was lost
  mishaps

rows    == <<family, status>>
enqueue == <<requests, step, job>>
broker  == <<queue, pushed, lost>>
work    == <<phase, held, worked>>
vars    == <<family, status, requests, step, job, queue, phase, held, pushed, worked, lost, mishaps>>

JobStatuses == {"none", "queued", "running", "succeeded", "failed"}
Messages == Jobs \X (0..MaxTries)
NoMessage == <<NoJob, 0>>

TypeOK ==
  /\ family \in Families
  /\ status \in [Jobs -> JobStatuses]
  /\ requests \in 0..MaxRequests
  /\ step \in [Enqueuers -> {"idle", "looked", "created", "committed"}]
  /\ job \in [Enqueuers -> Jobs \cup {NoJob}]
  /\ queue \in [Messages -> Nat]
  /\ phase \in [Workers -> {"idle", "taken", "working", "worked", "raised", "marked"}]
  /\ held \in [Workers -> (Messages \cup {NoMessage}) \X (Errors \cup {"none"})]
  /\ pushed \in [Jobs -> Nat] /\ worked \in [Jobs -> Nat]
  /\ lost \subseteq Jobs
  /\ mishaps \in 0..MaxMishaps

Init ==
  /\ family \in Families
  /\ status = [j \in Jobs |-> "none"]
  /\ requests = 0
  /\ step = [e \in Enqueuers |-> "idle"] /\ job = [e \in Enqueuers |-> NoJob]
  /\ queue = [m \in Messages |-> 0]
  /\ phase = [w \in Workers |-> "idle"]
  /\ held = [w \in Workers |-> <<NoMessage, "none">>]
  /\ pushed = [j \in Jobs |-> 0] /\ worked = [j \in Jobs |-> 0]
  /\ lost = {} /\ mishaps = 0

-----------------------------------------------------------------------------
IsActive(j) == status[j] \in {"queued", "running"}
Active == {j \in Jobs : IsActive(j)}

IsFresh(j) == status[j] = "none" /\ \A e \in Enqueuers : job[e] # j

Mishap == mishaps < MaxMishaps /\ mishaps' = mishaps + 1

Push(m) == queue' = [queue EXCEPT ![m] = @ + 1]
Pushed(j) == pushed' = [pushed EXCEPT ![j] = @ + 1]

(* enqueue_job(): the first find_running_job() finds nothing.  When it     *)
(* finds a row, the request ends without having changed anything.          *)
Look(e) ==
  /\ step[e] = "idle" /\ Active = {}
  /\ requests < MaxRequests /\ requests' = requests + 1
  /\ step' = [step EXCEPT ![e] = "looked"]
  /\ UNCHANGED <<rows, job, broker, work, mishaps>>

(* create_job() looks again.  What it finds now, it returns as if it were  *)
(* new; otherwise it inserts a row, which others see after the commit.     *)
FindOther(e) ==
  /\ step[e] = "looked"
  /\ \E j \in Active : job' = [job EXCEPT ![e] = j]
  /\ step' = [step EXCEPT ![e] = "committed"]
  /\ UNCHANGED <<rows, requests, broker, work, mishaps>>

Create(e) ==
  /\ step[e] = "looked" /\ Active = {}
  /\ \E j \in Jobs : /\ IsFresh(j) /\ \A i \in Jobs : IsFresh(i) => j <= i
                     /\ job' = [job EXCEPT ![e] = j]
  /\ step' = [step EXCEPT ![e] = "created"]
  /\ UNCHANGED <<rows, requests, broker, work, mishaps>>

CommitJob(e) ==
  /\ step[e] = "created"
  /\ status' = [status EXCEPT ![job[e]] = "queued"]
  /\ step' = [step EXCEPT ![e] = "committed"]
  /\ UNCHANGED <<family, requests, job, broker, work, mishaps>>

Return(e) ==
  /\ step' = [step EXCEPT ![e] = "idle"]
  /\ job' = [job EXCEPT ![e] = NoJob]

(* submit_job()                                                            *)
Submit(e) ==
  /\ step[e] = "committed"
  /\ Push(<<job[e], 0>>) /\ Pushed(job[e])
  /\ Return(e)
  /\ UNCHANGED <<rows, requests, lost, work, mishaps>>

(* The broker cannot be reached: the exception is logged and swallowed.  A *)
(* request that dies here does the same.                                   *)
SubmitFails(e) ==
  /\ step[e] = "committed"
  /\ Return(e)
  /\ lost' = lost \cup {job[e]} /\ Mishap
  /\ UNCHANGED <<rows, requests, queue, pushed, work>>

-----------------------------------------------------------------------------
(* The task.                                                               *)

JobOf(w) == held[w][1][1]
TriesOf(w) == held[w][1][2]
ErrorOf(w) == held[w][2]

Go(w, p) == phase' = [phase EXCEPT ![w] = p]

Take(w) ==
  /\ phase[w] = "idle"
  /\ \E m \in Messages :
       /\ queue[m] > 0
       /\ queue' = [queue EXCEPT ![m] = @ - 1]
       /\ held' = [held EXCEPT ![w] = <<m, "none">>]
  /\ Go(w, "taken")
  /\ UNCHANGED <<rows, enqueue, pushed, lost, worked, mishaps>>

(* mark_job_running(), whatever the status is.                             *)
Start(w) ==
  /\ phase[w] = "taken"
  /\ status' = IF family.marksRunning THEN [status EXCEPT ![JobOf(w)] = "running"] ELSE status
  /\ Go(w, "working")
  /\ UNCHANGED <<family, enqueue, broker, held, worked, mishaps>>

(* The work is done and committed.                                         *)
WorkDone(w) ==
  /\ phase[w] = "working" /\ ~family.atOnce
  /\ worked' = [worked EXCEPT ![JobOf(w)] = @ + 1]
  /\ Go(w, "worked")
  /\ UNCHANGED <<rows, enqueue, broker, held, mishaps>>

Raise(w, error) ==
  /\ held' = [held EXCEPT ![w] = <<@[1], error>>]
  /\ Go(w, "raised")

(* Mutant of WorkRaises: the work was committed before it raised.          *)
WorkRaisesLate(w, error) ==
  /\ phase[w] \in {"working", "worked"}
  /\ Raise(w, error)
  /\ UNCHANGED <<rows, enqueue, broker, worked, mishaps>>

(* The work raises and is rolled back.                                     *)
WorkRaises(w, error) ==
  /\ phase[w] = "working"
  /\ Raise(w, error)
  /\ UNCHANGED <<rows, enqueue, broker, worked, mishaps>>

Acknowledge(w) ==
  /\ held' = [held EXCEPT ![w] = <<NoMessage, "none">>]
  /\ Go(w, "idle")

(* mark_job_finished(), whatever the status is.                            *)
Succeed(w) ==
  /\ \/ /\ "success" \in family.marks
        /\ status' = [status EXCEPT ![JobOf(w)] = "succeeded"]
        /\ UNCHANGED lost
     \/ /\ "success" \notin family.marks
        /\ lost' = lost \cup {JobOf(w)}
        /\ UNCHANGED status
  /\ Acknowledge(w)
  /\ UNCHANGED <<family, enqueue, queue, pushed, mishaps>>

Finish(w) ==
  /\ phase[w] = "worked"
  /\ Succeed(w)
  /\ UNCHANGED worked

FinishAtOnce(w) ==
  /\ phase[w] = "working" /\ family.atOnce
  /\ Succeed(w)
  /\ worked' = [worked EXCEPT ![JobOf(w)] = @ + 1]

(* The work is committed and the commit of the finished job raises.        *)
FinishRaises(w) ==
  /\ phase[w] = "worked" /\ "success" \in family.marks
  /\ Raise(w, "internal") /\ Mishap
  /\ UNCHANGED <<rows, enqueue, broker, worked>>

(* Mutant of MarkFailed: only the last try records its failure.            *)
MarkFailedAtLast(w) ==
  /\ phase[w] = "raised" /\ ErrorOf(w) \in family.marks
  /\ status' = IF TriesOf(w) = MaxTries THEN [status EXCEPT ![JobOf(w)] = "failed"] ELSE status
  /\ Go(w, "marked")
  /\ UNCHANGED <<family, enqueue, broker, held, worked, mishaps>>

MarkFailed(w) ==
  /\ phase[w] = "raised" /\ ErrorOf(w) \in family.marks
  /\ status' = [status EXCEPT ![JobOf(w)] = "failed"]
  /\ Go(w, "marked")
  /\ UNCHANGED <<family, enqueue, broker, held, worked, mishaps>>

(* The task ends and the row stays as it is.                               *)
LeaveUnmarked(w) ==
  /\ phase[w] = "raised" /\ ErrorOf(w) \notin family.marks
  /\ lost' = lost \cup {JobOf(w)}
  /\ Go(w, "marked")
  /\ UNCHANGED <<rows, enqueue, queue, pushed, held, worked, mishaps>>

IsRetried(w) == ErrorOf(w) \in family.retries /\ TriesOf(w) < MaxTries

(* self.retry(): a new message, which a worker takes after the countdown.  *)
Retry(w) ==
  /\ phase[w] = "marked" /\ IsRetried(w)
  /\ Push(<<JobOf(w), TriesOf(w) + 1>>)
  /\ Acknowledge(w)
  /\ UNCHANGED <<rows, enqueue, pushed, lost, worked, mishaps>>

GiveUp(w) ==
  /\ phase[w] = "marked" /\ ~IsRetried(w)
  /\ Acknowledge(w)
  /\ UNCHANGED <<rows, enqueue, broker, worked, mishaps>>

(* A worker dies.  Its message is lost when Celery acknowledges it for the *)
(* dead process, and redelivered when the broker misses the worker.        *)
CrashLosing(w) ==
  /\ phase[w] # "idle"
  /\ lost' = lost \cup {JobOf(w)} /\ Mishap
  /\ Acknowledge(w)
  /\ UNCHANGED <<rows, enqueue, queue, pushed, worked>>

CrashRedelivering(w) ==
  /\ phase[w] # "idle"
  /\ Push(held[w][1]) /\ Pushed(JobOf(w)) /\ Mishap
  /\ Acknowledge(w)
  /\ UNCHANGED <<rows, enqueue, lost, worked>>

-----------------------------------------------------------------------------
Enqueue(e) == FindOther(e) \/ Create(e) \/ CommitJob(e) \/ Submit(e)

Task(w) ==
  \/ Take(w) \/ Start(w) \/ WorkDone(w) \/ Finish(w) \/ FinishAtOnce(w)
  \/ MarkFailed(w) \/ LeaveUnmarked(w) \/ Retry(w) \/ GiveUp(w)
  \/ \E error \in Errors : WorkRaises(w, error)

Next ==
  \/ \E e \in Enqueuers : Look(e) \/ Enqueue(e) \/ SubmitFails(e)
  \/ \E w \in Workers :
       Task(w) \/ FinishRaises(w) \/ CrashLosing(w) \/ CrashRedelivering(w)

Spec == Init /\ [][Next]_vars

(* A request that was begun goes on, and workers take and process what is  *)
(* in the broker; nobody needs to send another request.                    *)
FairSpec ==
  /\ Spec
  /\ \A e \in Enqueuers : WF_vars(Enqueue(e))
  /\ \A w \in Workers : WF_vars(Task(w))

-----------------------------------------------------------------------------
(* Who will still change the row of j.                                     *)
IsCarried(j) ==
  \/ \E e \in Enqueuers : job[e] = j /\ step[e] = "committed"
  \/ \E t \in 0..MaxTries : queue[j, t] > 0
  \/ \E w \in Workers : phase[w] # "idle" /\ JobOf(w) = j

(* A queued or running row blocks every later request of its kind.  Such a *)
(* row is in somebody's hands unless a message of the job was lost or its  *)
(* task ended in a way it does not record: no order of concurrent          *)
(* requests, tries and redeliveries leaves it behind.                      *)
ActiveIsCarried ==
  \A j \in Active : IsCarried(j) \/ j \in lost

(* The work of a job is committed at most once per message sent for it: a  *)
(* retry does not repeat what was done, unless the commit that should have *)
(* recorded it failed.                                                     *)
WorkIsExplained ==
  \A j \in Jobs : worked[j] <= pushed[j] + mishaps

(* A job ends, unless a message or an outcome of it was lost: two requests   *)
(* that submit the same row and tries that follow each other cannot keep   *)
(* it running for ever.                                                    *)
JobsFinish ==
  \A j \in Jobs : IsActive(j) ~> ~IsActive(j) \/ j \in lost
=============================================================================
