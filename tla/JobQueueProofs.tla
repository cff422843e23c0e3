---------------------------- MODULE JobQueueProofs ----------------------------
(***************************************************************************)
(* Proofs about JobQueue, for any enqueuers, workers, kinds of job and     *)
(* bounds: its type invariant, that no active row is left behind, and that *)
(* no work is committed more often than messages and mishaps explain.      *)
(*                                                                         *)
(* ActiveIsCarried is not inductive: of two workers that have just marked  *)
(* the same job, each would be the one that still carries it for the other.*)
(* Borne leaves such workers out.                                          *)
(***************************************************************************)
EXTENDS JobQueue, FiniteSetTheorems, TLAPS

(* Whoever is past a lookup has a job, whoever is busy has a message.      *)
Linked ==
  /\ \A e \in Enqueuers : step[e] \in {"created", "committed"} => job[e] \in Jobs
  /\ \A w \in Workers : phase[w] # "idle" => held[w][1] \in Messages

BornByWorker(j, w) == phase[w] \notin {"idle", "marked"} /\ JobOf(w) = j
BornByEnqueuer(j, e) == step[e] = "committed" /\ job[e] = j
BornByMessage(j, t) == queue[j, t] > 0
IsBorne(j) ==
  \/ \E e \in Enqueuers : BornByEnqueuer(j, e)
  \/ \E t \in 0..MaxTries : BornByMessage(j, t)
  \/ \E w \in Workers : BornByWorker(j, w)

Borne == \A j \in Jobs : IsActive(j) => IsBorne(j) \/ j \in lost

Inv == TypeOK /\ Linked /\ Borne

-----------------------------------------------------------------------------
(* Messages.                                                               *)

(* The message a busy worker holds.                                        *)
LEMMA HeldParts ==
  ASSUME Inv, NEW w \in Workers
  PROVE  /\ held[w] = <<held[w][1], ErrorOf(w)>> /\ ErrorOf(w) \in Errors \cup {"none"}
         /\ phase[w] # "idle" =>
              /\ JobOf(w) \in Jobs /\ TriesOf(w) \in 0..MaxTries
              /\ held[w][1] = <<JobOf(w), TriesOf(w)>>
<1>1. held[w] \in (Messages \cup {NoMessage}) \X (Errors \cup {"none"})
  BY DEF Inv, TypeOK
<1>2. phase[w] # "idle" => held[w][1] \in Messages
  BY DEF Inv, Linked
<1>. QED BY <1>1, <1>2 DEF ErrorOf, JobOf, TriesOf, Messages

(* A message that is sent bears its job, and takes the place of no other.  *)
LEMMA PushParts ==
  ASSUME Inv, NEW i \in Jobs, NEW u \in 0..MaxTries, Push(<<i, u>>)
  PROVE  /\ queue' \in [Messages -> Nat]
         /\ \A j \in Jobs, t \in 0..MaxTries : BornByMessage(j, t) => BornByMessage(j, t)'
         /\ BornByMessage(i, u)'
<1> DEFINE m == <<i, u>>
<1>1. m \in Messages /\ \A j \in Jobs, t \in 0..MaxTries : <<j, t>> \in Messages
  BY DEF Messages
<1>2. queue \in [Messages -> Nat] /\ queue' = [queue EXCEPT ![m] = queue[m] + 1]
  BY DEF Inv, TypeOK, Push
<1> HIDE DEF m
<1>3. queue' \in [Messages -> Nat]
  BY <1>1, <1>2
<1>4. \A n \in Messages : queue[n] \in Nat /\ queue'[n] = IF n = m THEN queue[n] + 1 ELSE queue[n]
  BY <1>2
<1>5. ASSUME NEW j \in Jobs, NEW t \in 0..MaxTries, BornByMessage(j, t)
      PROVE  BornByMessage(j, t)'
  <2>1. queue[<<j, t>>] > 0 /\ queue[<<j, t>>] \in Nat
    BY <1>1, <1>4, <1>5 DEF BornByMessage
  <2>2. queue'[<<j, t>>] = queue[<<j, t>>] \/ queue'[<<j, t>>] = queue[<<j, t>>] + 1
    BY <1>1, <1>4
  <2>3. queue'[<<j, t>>] > 0
    BY <2>1, <2>2
  <2>. QED BY <2>3 DEF BornByMessage
<1>6. BornByMessage(i, u)'
  <2>1. queue'[m] = queue[m] + 1 /\ queue[m] \in Nat
    BY <1>1, <1>4
  <2>2. queue'[m] > 0
    BY <2>1
  <2>. QED BY <2>2 DEF BornByMessage, m
<1>. QED BY <1>3, <1>5, <1>6

(* A step by which no row becomes active, no bearer goes, and nothing that *)
(* was lost is found, leaves nothing behind.                               *)
LEMMA BorneKept ==
  ASSUME Inv,
         \A j \in Jobs : IsActive(j)' => IsActive(j) \/ IsBorne(j)' \/ j \in lost',
         \A j \in Jobs : IsActive(j)' /\ IsBorne(j) => IsBorne(j)' \/ j \in lost',
         lost \subseteq lost'
  PROVE  Borne'
  BY DEF Inv, Borne

-----------------------------------------------------------------------------
(* Enqueuing.                                                              *)

(* A lookup changes no row and no message.                                 *)
LEMMA LookKeeps ==
  ASSUME Inv, NEW e \in Enqueuers, Look(e) \/ FindOther(e) \/ Create(e)
  PROVE  Inv'
<1>1. UNCHANGED <<rows, broker, work, mishaps>> /\ step[e] \in {"idle", "looked"}
  BY DEF Look, FindOther, Create
<1>2. \/ step' = [step EXCEPT ![e] = "looked"] /\ job' = job
      \/ \E j \in Jobs : \E s \in {"created", "committed"} :
           step' = [step EXCEPT ![e] = s] /\ job' = [job EXCEPT ![e] = j]
  BY DEF Look, FindOther, Create, Active, Jobs, enqueue
<1>3. TypeOK'
  <2>1. requests' \in 0..MaxRequests
    BY JobAssumption DEF Look, FindOther, Create, Inv, TypeOK
  <2>. QED BY <1>1, <1>2, <2>1 DEF Inv, TypeOK, rows, broker, work
<1>4. Linked'
  BY <1>1, <1>2 DEF Inv, TypeOK, Linked, work
<1>5. \A j \in Jobs : IsBorne(j) => IsBorne(j)'
  <2>1. \A j \in Jobs, t \in 0..MaxTries : BornByMessage(j, t)' = BornByMessage(j, t)
    BY <1>1 DEF BornByMessage, broker
  <2>2. \A j \in Jobs, w \in Workers : BornByWorker(j, w)' = BornByWorker(j, w)
    BY <1>1 DEF BornByWorker, work, JobOf
  <2>3. \A j \in Jobs, d \in Enqueuers : BornByEnqueuer(j, d) => BornByEnqueuer(j, d)'
    BY <1>1, <1>2 DEF BornByEnqueuer, Inv, TypeOK
  <2>. QED BY <2>1, <2>2, <2>3 DEF IsBorne
<1>6. Borne'
  BY <1>1, <1>5, BorneKept DEF IsActive, rows, broker
<1>. QED BY <1>3, <1>4, <1>6 DEF Inv

(* The row is committed by an enqueuer that is going to submit it.         *)
LEMMA CommitJobKeeps ==
  ASSUME Inv, NEW e \in Enqueuers, CommitJob(e)
  PROVE  Inv'
<1>1. /\ status' = [status EXCEPT ![job[e]] = "queued"] /\ step' = [step EXCEPT ![e] = "committed"]
      /\ UNCHANGED <<family, requests, job, broker, work, mishaps>>
      /\ job[e] \in Jobs /\ step[e] = "created"
  BY DEF CommitJob, Inv, Linked
<1>2. TypeOK'
  BY <1>1 DEF Inv, TypeOK, JobStatuses, broker, work
<1>3. Linked'
  BY <1>1 DEF Inv, TypeOK, Linked, work
<1>4. \A j \in Jobs : IsBorne(j) => IsBorne(j)'
  <2>1. \A j \in Jobs, t \in 0..MaxTries : BornByMessage(j, t)' = BornByMessage(j, t)
    BY <1>1 DEF BornByMessage, broker
  <2>2. \A j \in Jobs, w \in Workers : BornByWorker(j, w)' = BornByWorker(j, w)
    BY <1>1 DEF BornByWorker, work, JobOf
  <2>3. \A j \in Jobs, d \in Enqueuers : BornByEnqueuer(j, d) => BornByEnqueuer(j, d)'
    BY <1>1 DEF BornByEnqueuer, Inv, TypeOK
  <2>. QED BY <2>1, <2>2, <2>3 DEF IsBorne
<1>5. \A j \in Jobs : IsActive(j)' => IsActive(j) \/ j = job[e]
  BY <1>1 DEF Inv, TypeOK, IsActive
<1>6. IsBorne(job[e])'
  BY <1>1 DEF IsBorne, BornByEnqueuer, Inv, TypeOK
<1>7. Borne'
  BY <1>1, <1>4, <1>5, <1>6, BorneKept DEF broker
<1>. QED BY <1>2, <1>3, <1>7 DEF Inv

(* The enqueuer hands the job to the broker, or it is lost.                *)
LEMMA SubmitKeeps ==
  ASSUME Inv, NEW e \in Enqueuers, Submit(e) \/ SubmitFails(e)
  PROVE  Inv'
<1>1. PICK i \in Jobs : job[e] = i
  BY DEF Submit, SubmitFails, Inv, Linked
<1>2. /\ step' = [step EXCEPT ![e] = "idle"] /\ job' = [job EXCEPT ![e] = NoJob]
      /\ UNCHANGED <<rows, requests, work>>
  BY DEF Submit, SubmitFails, Return
<1>3. \/ Push(<<i, 0>>) /\ Pushed(i) /\ UNCHANGED <<lost, mishaps>>
      \/ lost' = lost \cup {i} /\ Mishap /\ UNCHANGED <<queue, pushed>>
  BY <1>1 DEF Submit, SubmitFails
<1>4. 0 \in 0..MaxTries
  BY JobAssumption
<1>5. /\ queue' \in [Messages -> Nat]
      /\ \A j \in Jobs, t \in 0..MaxTries : BornByMessage(j, t) => BornByMessage(j, t)'
      /\ i \in lost' \/ BornByMessage(i, 0)'
      /\ lost \subseteq lost'
  <2>1. CASE Push(<<i, 0>>) /\ UNCHANGED lost
    BY <2>1, <1>4, PushParts
  <2>2. CASE lost' = lost \cup {i} /\ UNCHANGED queue
    BY <2>2 DEF BornByMessage, Inv, TypeOK
  <2>. QED BY <1>3, <2>1, <2>2
<1>6. TypeOK'
  <2>1. pushed' \in [Jobs -> Nat] /\ lost' \subseteq Jobs
    BY <1>3 DEF Inv, TypeOK, Pushed
  <2>2. mishaps' \in 0..MaxMishaps
    BY <1>3, JobAssumption DEF Inv, TypeOK, Mishap
  <2>. QED BY <1>2, <1>5, <2>1, <2>2 DEF Inv, TypeOK, rows, work
<1>7. Linked'
  BY <1>2 DEF Inv, TypeOK, Linked, work
<1>8. ASSUME NEW j \in Jobs, IsBorne(j)
      PROVE  IsBorne(j)' \/ j \in lost'
  <2>1. \A w \in Workers : BornByWorker(j, w)' = BornByWorker(j, w)
    BY <1>2 DEF BornByWorker, work, JobOf
  <2>2. \A d \in Enqueuers : BornByEnqueuer(j, d) => j = i \/ BornByEnqueuer(j, d)'
    BY <1>1, <1>2 DEF BornByEnqueuer, Inv, TypeOK
  <2>3. CASE j = i
    BY <1>4, <1>5, <2>3 DEF IsBorne
  <2>4. CASE j # i
    BY <1>5, <1>8, <2>1, <2>2, <2>4 DEF IsBorne
  <2>. QED BY <2>3, <2>4
<1>9. Borne'
  BY <1>2, <1>5, <1>8, BorneKept DEF IsActive, rows
<1>. QED BY <1>6, <1>7, <1>9 DEF Inv

-----------------------------------------------------------------------------
(* The task.                                                               *)

(* What a step of worker w has to see to: a row it makes active, it bears; *)
(* and what it no longer bears is not active, lost, or in a message.       *)
LEMMA WorkerKeepsBorne ==
  ASSUME Inv, NEW w \in Workers, UNCHANGED <<step, job>>, lost \subseteq lost',
         \A v \in Workers : v # w => phase'[v] = phase[v] /\ held'[v] = held[v],
         \A j \in Jobs, t \in 0..MaxTries : BornByMessage(j, t) => IsBorne(j)',
         \A j \in Jobs : IsActive(j)' => IsActive(j) \/ BornByWorker(j, w)',
         \A j \in Jobs : BornByWorker(j, w) => IsBorne(j)' \/ ~IsActive(j)' \/ j \in lost'
  PROVE  Borne'
<1>1. \A j \in Jobs, v \in Workers : v # w => BornByWorker(j, v)' = BornByWorker(j, v)
  BY DEF BornByWorker, JobOf
<1>2. \A j \in Jobs, e \in Enqueuers : BornByEnqueuer(j, e)' = BornByEnqueuer(j, e)
  BY DEF BornByEnqueuer
<1>3. \A j \in Jobs : IsActive(j)' /\ IsBorne(j) => IsBorne(j)' \/ j \in lost'
  BY <1>1, <1>2 DEF IsBorne
<1>4. \A j \in Jobs : IsActive(j)' => IsActive(j) \/ IsBorne(j)' \/ j \in lost'
  BY DEF IsBorne
<1>. QED BY <1>3, <1>4, BorneKept

(* The message goes from the broker to the worker.                         *)
LEMMA TakeKeeps ==
  ASSUME Inv, NEW w \in Workers, Take(w)
  PROVE  Inv'
<1>1. PICK m \in Messages :
        /\ queue[m] > 0 /\ queue' = [queue EXCEPT ![m] = queue[m] - 1]
        /\ held' = [held EXCEPT ![w] = <<m, "none">>]
  BY DEF Take
<1>2. /\ phase[w] = "idle" /\ phase' = [phase EXCEPT ![w] = "taken"]
      /\ UNCHANGED <<rows, enqueue, pushed, lost, worked, mishaps>>
  BY DEF Take, Go
<1>3. \A n \in Messages : queue[n] \in Nat /\ queue'[n] = IF n = m THEN queue[n] - 1 ELSE queue[n]
  BY <1>1 DEF Inv, TypeOK
<1>4. TypeOK'
  <2>1. queue[m] - 1 \in Nat
    BY <1>1, <1>3
  <2>2. queue' \in [Messages -> Nat]
    BY <1>1, <2>1 DEF Inv, TypeOK
  <2>. QED BY <1>1, <1>2, <2>2 DEF Inv, TypeOK, rows, enqueue
<1>5. Linked'
  BY <1>1, <1>2 DEF Inv, TypeOK, Linked, enqueue
<1>6. m[1] \in Jobs /\ BornByWorker(m[1], w)' /\ IsBorne(m[1])'
  <2>1. held'[w][1] = m /\ phase'[w] = "taken"
    BY <1>1, <1>2 DEF Inv, TypeOK
  <2>. QED BY <2>1 DEF BornByWorker, JobOf, IsBorne, Messages
<1>7. ASSUME NEW j \in Jobs, NEW t \in 0..MaxTries, BornByMessage(j, t)
      PROVE  IsBorne(j)'
  <2>1. <<j, t>> \in Messages
    BY DEF Messages
  <2>2. CASE <<j, t>> = m
    BY <2>2, <1>6
  <2>3. CASE <<j, t>> # m
    BY <1>3, <1>7, <2>1, <2>3 DEF BornByMessage, IsBorne
  <2>. QED BY <2>2, <2>3
<1>8. Borne'
  <2>1. \A v \in Workers : v # w => phase'[v] = phase[v] /\ held'[v] = held[v]
    BY <1>1, <1>2 DEF Inv, TypeOK
  <2>2. \A j \in Jobs : ~BornByWorker(j, w) /\ IsActive(j)' = IsActive(j)
    BY <1>2 DEF BornByWorker, IsActive, rows
  <2>. QED BY <1>2, <1>7, <2>1, <2>2, WorkerKeepsBorne DEF enqueue
<1>. QED BY <1>4, <1>5, <1>8 DEF Inv

(* Working, failing, and the row marked running: the worker keeps its job. *)
LEMMA BusyKeeps ==
  ASSUME Inv, NEW w \in Workers,
         \/ Start(w) \/ WorkDone(w) \/ FinishRaises(w)
         \/ \E error \in Errors : WorkRaises(w, error)
  PROVE  Inv'
<1>1. PICK i \in Jobs : JobOf(w) = i
  BY HeldParts DEF Start, WorkDone, FinishRaises, WorkRaises
<1>2. PICK p \in {"working", "worked", "raised"} : phase' = [phase EXCEPT ![w] = p]
  BY DEF Start, WorkDone, FinishRaises, WorkRaises, Raise, Go
<1>3. \/ held' = held
      \/ \E error \in Errors : held' = [held EXCEPT ![w] = <<held[w][1], error>>]
  BY DEF Start, WorkDone, FinishRaises, WorkRaises, Raise, Errors
<1>4. /\ phase[w] \notin {"idle", "marked"}
      /\ UNCHANGED <<family, enqueue, broker>>
  BY DEF Start, WorkDone, FinishRaises, WorkRaises, rows
<1>5. status' = status \/ status' = [status EXCEPT ![i] = "running"]
  BY <1>1 DEF Start, WorkDone, FinishRaises, WorkRaises, rows
<1>6. worked' \in [Jobs -> Nat]
  BY <1>1 DEF Start, WorkDone, FinishRaises, WorkRaises, Inv, TypeOK
<1>7. mishaps' \in 0..MaxMishaps
  BY JobAssumption DEF Start, WorkDone, FinishRaises, WorkRaises, Mishap, Inv, TypeOK
<1>8. /\ held' \in [Workers -> (Messages \cup {NoMessage}) \X (Errors \cup {"none"})]
      /\ held'[w][1] = held[w][1]
      /\ \A v \in Workers : v # w => held'[v] = held[v]
  <2>1. held[w][1] \in Messages
    BY <1>4 DEF Inv, Linked
  <2>. QED BY <1>3, <2>1 DEF Inv, TypeOK
<1>9. TypeOK'
  BY <1>2, <1>4, <1>5, <1>6, <1>7, <1>8 DEF Inv, TypeOK, JobStatuses, enqueue, broker
<1>10. Linked'
  BY <1>2, <1>4, <1>8 DEF Inv, TypeOK, Linked, enqueue
<1>11. BornByWorker(i, w) /\ BornByWorker(i, w)' /\ \A j \in Jobs : BornByWorker(j, w) => j = i
  BY <1>1, <1>2, <1>4, <1>8 DEF BornByWorker, JobOf, Inv, TypeOK
<1>12. Borne'
  <2>1. \A v \in Workers : v # w => phase'[v] = phase[v] /\ held'[v] = held[v]
    BY <1>2, <1>8 DEF Inv, TypeOK
  <2>2. \A j \in Jobs : IsActive(j)' => IsActive(j) \/ j = i
    BY <1>5 DEF IsActive, Inv, TypeOK
  <2>3. \A j \in Jobs, t \in 0..MaxTries : BornByMessage(j, t) => IsBorne(j)'
    BY <1>4 DEF BornByMessage, IsBorne, broker
  <2>4. \A j \in Jobs : BornByWorker(j, w) => IsBorne(j)'
    BY <1>11 DEF IsBorne
  <2>5. \A j \in Jobs : IsActive(j)' => IsActive(j) \/ BornByWorker(j, w)'
    BY <1>11, <2>2
  <2>. QED BY <1>4, <2>1, <2>3, <2>4, <2>5, WorkerKeepsBorne DEF enqueue, broker
<1>. QED BY <1>9, <1>10, <1>12 DEF Inv

(* The failure is recorded, or the outcome is lost.                        *)
LEMMA MarkKeeps ==
  ASSUME Inv, NEW w \in Workers, MarkFailed(w) \/ LeaveUnmarked(w)
  PROVE  Inv'
<1>1. PICK i \in Jobs : JobOf(w) = i
  BY HeldParts DEF MarkFailed, LeaveUnmarked
<1>2. /\ phase' = [phase EXCEPT ![w] = "marked"]
      /\ phase[w] = "raised"
      /\ UNCHANGED <<family, enqueue, queue, pushed, held, worked, mishaps>>
  BY DEF MarkFailed, LeaveUnmarked, Go, rows, broker
<1>3. \/ status' = [status EXCEPT ![i] = "failed"] /\ lost' = lost
      \/ status' = status /\ lost' = lost \cup {i}
  BY <1>1 DEF MarkFailed, LeaveUnmarked, rows, broker
<1>4. TypeOK'
  BY <1>2, <1>3 DEF Inv, TypeOK, JobStatuses, enqueue
<1>5. Linked'
  BY <1>2 DEF Inv, TypeOK, Linked, enqueue
<1>6. \A j \in Jobs : BornByWorker(j, w) => j = i
  BY <1>1 DEF BornByWorker
<1>7. Borne'
  <2>1. \A v \in Workers : v # w => phase'[v] = phase[v] /\ held'[v] = held[v]
    BY <1>2 DEF Inv, TypeOK
  <2>2. \A j \in Jobs : IsActive(j)' => IsActive(j) /\ (j # i \/ j \in lost')
    BY <1>3 DEF IsActive, Inv, TypeOK
  <2>3. \A j \in Jobs, t \in 0..MaxTries : BornByMessage(j, t) => IsBorne(j)'
    BY <1>2 DEF BornByMessage, IsBorne
  <2>4. lost \subseteq lost'
    BY <1>3
  <2>. QED BY <1>2, <1>6, <2>1, <2>2, <2>3, <2>4, WorkerKeepsBorne DEF enqueue
<1>. QED BY <1>4, <1>5, <1>7 DEF Inv

(* The message is sent again, which is the only way a worker that ends     *)
(* without a word to the row may leave it active.                          *)
LEMMA SendAgainKeeps ==
  ASSUME Inv, NEW w \in Workers, Retry(w) \/ CrashRedelivering(w)
  PROVE  Inv'
<1>1. PICK i \in Jobs, t \in 0..MaxTries :
        JobOf(w) = i /\ TriesOf(w) = t /\ held[w][1] = <<i, t>>
  BY HeldParts DEF Retry, CrashRedelivering
<1>2. /\ held' = [held EXCEPT ![w] = <<NoMessage, "none">>]
      /\ phase' = [phase EXCEPT ![w] = "idle"]
      /\ UNCHANGED <<rows, enqueue, lost, worked>>
  BY DEF Retry, CrashRedelivering, Acknowledge, Go
<1>3. PICK u \in 0..MaxTries : Push(<<i, u>>)
  <2>1. CASE Retry(w)
    <3>1. t + 1 \in 0..MaxTries
      BY <1>1, <2>1, JobAssumption DEF Retry, IsRetried
    <3>. QED BY <1>1, <2>1, <3>1 DEF Retry
  <2>2. CASE CrashRedelivering(w)
    BY <1>1, <2>2 DEF CrashRedelivering
  <2>. QED BY <2>1, <2>2
<1>4. TypeOK'
  <2>1. pushed' \in [Jobs -> Nat]
    BY <1>1 DEF Retry, CrashRedelivering, Pushed, Inv, TypeOK
  <2>2. mishaps' \in 0..MaxMishaps
    BY JobAssumption DEF Retry, CrashRedelivering, Mishap, Inv, TypeOK
  <2>3. queue' \in [Messages -> Nat]
    BY <1>3, PushParts
  <2>. QED BY <1>2, <2>1, <2>2, <2>3 DEF Inv, TypeOK, rows, enqueue
<1>5. Linked'
  BY <1>2 DEF Inv, TypeOK, Linked, enqueue
<1>6. Borne'
  <2>1. \A v \in Workers : v # w => phase'[v] = phase[v] /\ held'[v] = held[v]
    BY <1>2 DEF Inv, TypeOK
  <2>2. \A j \in Jobs : IsActive(j)' = IsActive(j)
    BY <1>2 DEF IsActive, rows
  <2>3. \A j \in Jobs, s \in 0..MaxTries : BornByMessage(j, s) => IsBorne(j)'
    BY <1>3, PushParts DEF IsBorne
  <2>4. IsBorne(i)'
    BY <1>3, PushParts DEF IsBorne
  <2>5. \A j \in Jobs : BornByWorker(j, w) => IsBorne(j)'
    BY <1>1, <2>4 DEF BornByWorker
  <2>. QED BY <1>2, <2>1, <2>2, <2>3, <2>5, WorkerKeepsBorne DEF enqueue
<1>. QED BY <1>4, <1>5, <1>6 DEF Inv

(* The message is acknowledged for good.                                   *)
LEMMA EndKeeps ==
  ASSUME Inv, NEW w \in Workers,
         Finish(w) \/ FinishAtOnce(w) \/ GiveUp(w) \/ CrashLosing(w)
  PROVE  Inv'
<1>1. PICK i \in Jobs : JobOf(w) = i
  BY HeldParts DEF Finish, FinishAtOnce, GiveUp, CrashLosing
<1>2. /\ held' = [held EXCEPT ![w] = <<NoMessage, "none">>]
      /\ phase' = [phase EXCEPT ![w] = "idle"]
      /\ UNCHANGED <<family, enqueue, queue, pushed>>
  BY DEF Finish, FinishAtOnce, Succeed, GiveUp, CrashLosing, Acknowledge, Go, rows, broker
<1>3. \/ status' = [status EXCEPT ![i] = "succeeded"] /\ lost' = lost
      \/ status' = status /\ lost' = lost \cup {i}
      \/ status' = status /\ lost' = lost /\ phase[w] = "marked"
  BY <1>1 DEF Finish, FinishAtOnce, Succeed, GiveUp, CrashLosing, rows, broker
<1>4. TypeOK'
  <2>1. worked' \in [Jobs -> Nat]
    BY <1>1 DEF Finish, FinishAtOnce, Succeed, GiveUp, CrashLosing, Inv, TypeOK, work
  <2>2. mishaps' \in 0..MaxMishaps
    BY JobAssumption DEF Finish, FinishAtOnce, Succeed, GiveUp, CrashLosing, Mishap, Inv, TypeOK
  <2>. QED BY <1>2, <1>3, <2>1, <2>2 DEF Inv, TypeOK, JobStatuses, enqueue
<1>5. Linked'
  BY <1>2 DEF Inv, TypeOK, Linked, enqueue
<1>6. Borne'
  <2>1. \A v \in Workers : v # w => phase'[v] = phase[v] /\ held'[v] = held[v]
    BY <1>2 DEF Inv, TypeOK
  <2>2. \A j \in Jobs : IsActive(j)' => IsActive(j)
    BY <1>3 DEF IsActive, Inv, TypeOK
  <2>3. \A j \in Jobs, t \in 0..MaxTries : BornByMessage(j, t) => IsBorne(j)'
    BY <1>2 DEF BornByMessage, IsBorne
  <2>4. \A j \in Jobs : BornByWorker(j, w) => ~IsActive(j)' \/ j \in lost'
    BY <1>1, <1>3 DEF BornByWorker, IsActive, Inv, TypeOK
  <2>5. lost \subseteq lost'
    BY <1>3
  <2>. QED BY <1>2, <2>1, <2>2, <2>3, <2>4, <2>5, WorkerKeepsBorne DEF enqueue
<1>. QED BY <1>4, <1>5, <1>6 DEF Inv

-----------------------------------------------------------------------------
(* The inductive invariant holds.                                          *)
LEMMA InvHolds == Spec => []Inv
<1>1. Init => Inv
  <2> SUFFICES ASSUME Init PROVE Inv
    OBVIOUS
  <2>1. NoMessage \in Messages \cup {NoMessage} /\ 0 \in 0..MaxRequests /\ 0 \in 0..MaxMishaps
    BY JobAssumption
  <2>2. TypeOK
    BY <2>1 DEF Init, TypeOK, JobStatuses
  <2>3. Linked /\ Borne
    BY DEF Init, Linked, Borne, IsActive
  <2>. QED BY <2>2, <2>3 DEF Inv
<1>2. Inv /\ [Next]_vars => Inv'
  <2> SUFFICES ASSUME Inv, [Next]_vars PROVE Inv'
    OBVIOUS
  <2>1. ASSUME NEW e \in Enqueuers, Look(e) \/ Enqueue(e) \/ SubmitFails(e)
        PROVE  Inv'
    BY <2>1, LookKeeps, CommitJobKeeps, SubmitKeeps DEF Enqueue
  <2>2. ASSUME NEW w \in Workers,
               Task(w) \/ FinishRaises(w) \/ CrashLosing(w) \/ CrashRedelivering(w)
        PROVE  Inv'
    BY <2>2, TakeKeeps, BusyKeeps, MarkKeeps, SendAgainKeeps, EndKeeps DEF Task
  <2>3. CASE UNCHANGED vars
    BY <2>3 DEF vars, Inv, TypeOK, Linked, Borne, IsActive, IsBorne,
                BornByEnqueuer, BornByMessage, BornByWorker, JobOf
  <2>. QED BY <2>1, <2>2, <2>3 DEF Next
<1>. QED BY <1>1, <1>2, PTL DEF Spec

(* The variables keep their types.                                         *)
THEOREM TypeCorrect == Spec => []TypeOK
<1>1. Inv => TypeOK
  BY DEF Inv
<1>. QED BY <1>1, InvHolds, PTL

(* A queued or running row is in somebody's hands, or a message or an      *)
(* outcome of its job was lost.                                            *)
THEOREM ActiveRowsAreCarried == Spec => []ActiveIsCarried
<1>1. Inv => ActiveIsCarried
  BY DEF Inv, Borne, ActiveIsCarried, Active, IsCarried, IsBorne,
         BornByEnqueuer, BornByMessage, BornByWorker
<1>. QED BY <1>1, InvHolds, PTL
-----------------------------------------------------------------------------
(* The work.  Each message in the broker, and each worker that has still   *)
(* to commit the work of its message or is past it without having done so, *)
(* is a claim to one piece of work.  WorkIsExplained is not inductive: a   *)
(* claim has to be paid for when it comes up, not when the work is done.   *)

Tokens(j) ==
  {c \in Messages \X (Nat \ {0}) : c[1][1] = j /\ c[2] <= queue[c[1]]}

HasClaim(j, w) == phase[w] \in {"taken", "working", "raised", "marked"} /\ JobOf(w) = j
Hands(j) == {c \in Workers \X {0} : HasClaim(j, c[1])}

Claims(j) == Tokens(j) \cup Hands(j)

Paid(j) ==
  /\ IsFiniteSet(Claims(j))
  /\ worked[j] + Cardinality(Claims(j)) <= pushed[j] + mishaps

WorkInv == Inv /\ \A j \in Jobs : Paid(j)

(* A claim that comes up costs a push or a mishap, work that is committed  *)
(* takes a claim away, and one claim may take the place of another.        *)
Unclaimed(j)    == Claims(j)' \subseteq Claims(j) /\ worked'[j] = worked[j]
Claimed(j)      == /\ \E x : Claims(j)' \subseteq Claims(j) \cup {x}
                   /\ worked'[j] = worked[j]
                   /\ pushed[j] + mishaps + 1 <= pushed'[j] + mishaps'
Done(j)         == /\ \E y \in Claims(j) : Claims(j)' \subseteq Claims(j) \ {y}
                   /\ worked'[j] = worked[j] + 1
HandedOver(j)   == /\ \E y \in Claims(j) : \E x : Claims(j)' \subseteq (Claims(j) \ {y}) \cup {x}
                   /\ worked'[j] = worked[j]

(* A set that grows by one element at most, and one that loses an element. *)
LEMMA OneMore ==
  ASSUME NEW S, IsFiniteSet(S), NEW x, NEW T, T \subseteq S \cup {x}
  PROVE  IsFiniteSet(T) /\ Cardinality(T) \in Nat /\ Cardinality(T) <= Cardinality(S) + 1
<1>. DEFINE U == S \cup {x}
<1>1. Cardinality(S) \in Nat
  BY FS_CardinalityType
<1>2. IsFiniteSet(U)
  BY FS_AddElement
<1>3. Cardinality(U) = Cardinality(S) \/ Cardinality(U) = Cardinality(S) + 1
  BY FS_AddElement
<1>4. IsFiniteSet(T) /\ Cardinality(T) <= Cardinality(U)
  <2>1. T \in SUBSET U
    OBVIOUS
  <2>. HIDE DEF U
  <2>. QED BY <1>2, <2>1, FS_Subset
<1>5. Cardinality(T) \in Nat
  BY <1>4, FS_CardinalityType
<1>. HIDE DEF U
<1>. QED BY <1>1, <1>3, <1>4, <1>5

(* A finite set without one of its elements is smaller by one, at least.   *)
LEMMA OneLess ==
  ASSUME NEW S, IsFiniteSet(S), NEW y \in S, NEW T, T \subseteq S \ {y}
  PROVE  IsFiniteSet(T) /\ Cardinality(T) \in Nat /\ Cardinality(T) + 1 <= Cardinality(S)
<1>. DEFINE U == S \ {y}
<1>1. Cardinality(S) \in Nat
  BY FS_CardinalityType
<1>2. IsFiniteSet(U)
  BY FS_RemoveElement
<1>3. Cardinality(U) = Cardinality(S) - 1
  BY FS_RemoveElement
<1>4. IsFiniteSet(T) /\ Cardinality(T) <= Cardinality(U)
  <2>1. T \in SUBSET U
    OBVIOUS
  <2>. HIDE DEF U
  <2>. QED BY <1>2, <2>1, FS_Subset
<1>5. Cardinality(T) \in Nat
  BY <1>4, FS_CardinalityType
<1>. HIDE DEF U
<1>. QED BY <1>1, <1>3, <1>4, <1>5

(* In each of the four cases the account of job j stays balanced.          *)
LEMMA Balance ==
  ASSUME WorkInv, NEW j \in Jobs, TypeOK',
         pushed[j] + mishaps <= pushed'[j] + mishaps',
         Unclaimed(j) \/ Claimed(j) \/ Done(j) \/ HandedOver(j)
  PROVE  Paid(j)'
<1>. DEFINE S == Claims(j)
            T == Claims(j)'
            n == Cardinality(S)
            k == Cardinality(T)
            c == pushed[j] + mishaps
            d == pushed'[j] + mishaps'
<1>1. /\ IsFiniteSet(S) /\ worked[j] + n <= c
      /\ worked[j] \in Nat /\ worked'[j] \in Nat /\ c \in Nat /\ d \in Nat /\ c <= d
  BY JobAssumption DEF WorkInv, Paid, Inv, TypeOK
<1>2. n \in Nat
  BY <1>1, FS_CardinalityType
<1>. SUFFICES IsFiniteSet(T) /\ worked'[j] + k <= d
  BY DEF Paid
<1>. HIDE DEF S, T, c, d
<1>. HIDE DEF n, k
<1>3. CASE Unclaimed(j)
  <2>1. T \in SUBSET S /\ worked'[j] = worked[j]
    BY <1>3 DEF Unclaimed, S, T
  <2>2. IsFiniteSet(T) /\ k <= n
    BY <1>1, <2>1, FS_Subset DEF n, k
  <2>3. k \in Nat
    BY <2>2, FS_CardinalityType DEF k
  <2>. QED BY <1>1, <1>2, <2>1, <2>2, <2>3
<1>4. CASE Claimed(j)
  <2>1. PICK x : T \subseteq S \cup {x}
    BY <1>4 DEF Claimed, S, T
  <2>2. worked'[j] = worked[j] /\ c + 1 <= d
    BY <1>4 DEF Claimed, c, d
  <2>3. IsFiniteSet(T) /\ k \in Nat /\ k <= n + 1
    BY <1>1, <2>1, OneMore DEF n, k
  <2>. QED BY <1>1, <1>2, <2>2, <2>3
<1>5. CASE Done(j)
  <2>1. PICK y \in S : T \subseteq S \ {y}
    BY <1>5 DEF Done, S, T
  <2>2. worked'[j] = worked[j] + 1
    BY <1>5 DEF Done
  <2>3. IsFiniteSet(T) /\ k \in Nat /\ k + 1 <= n
    BY <1>1, <2>1, OneLess DEF n, k
  <2>. QED BY <1>1, <1>2, <2>2, <2>3
<1>6. CASE HandedOver(j)
  <2>1. PICK y \in S : \E x : T \subseteq (S \ {y}) \cup {x}
    BY <1>6 DEF HandedOver, S, T
  <2>2. PICK x : T \subseteq (S \ {y}) \cup {x}
    BY <2>1
  <2>3. worked'[j] = worked[j]
    BY <1>6 DEF HandedOver
  <2>. DEFINE U == S \ {y}
  <2>4. IsFiniteSet(U) /\ Cardinality(U) \in Nat /\ Cardinality(U) + 1 <= n
    BY <1>1, OneLess DEF n
  <2>5. IsFiniteSet(T) /\ k \in Nat /\ k <= Cardinality(U) + 1
    BY <2>2, <2>4, OneMore DEF k
  <2>. HIDE DEF U
  <2>. QED BY <1>1, <1>2, <2>3, <2>4, <2>5
<1>. QED BY <1>3, <1>4, <1>5, <1>6

(* A message that is sent is one more token, one that is taken one less.   *)
LEMMA PushedTokens ==
  ASSUME Inv, NEW m \in Messages, Push(m)
  PROVE  /\ \E x : Tokens(m[1])' \subseteq Tokens(m[1]) \cup {x}
         /\ \A j \in Jobs : j # m[1] => Tokens(j)' \subseteq Tokens(j)
<1>1. \A n \in Messages :
        queue[n] \in Nat /\ queue'[n] = IF n = m THEN queue[n] + 1 ELSE queue[n]
  BY DEF Push, Inv, TypeOK
<1>2. ASSUME NEW j, NEW c \in Tokens(j)' PROVE c \in Tokens(j) \/ (c = <<m, queue[m] + 1>> /\ j = m[1])
  <2>1. c \in Messages \X (Nat \ {0}) /\ c[1][1] = j /\ c[2] <= queue'[c[1]]
    BY DEF Tokens
  <2>2. PICK n \in Messages, k \in Nat \ {0} : c = <<n, k>>
    BY <2>1
  <2>3. n[1] = j /\ k <= queue'[n]
    BY <2>1, <2>2
  <2>4. CASE k <= queue[n]
    BY <2>1, <2>2, <2>4 DEF Tokens
  <2>5. CASE ~(k <= queue[n])
    <3>1. n = m /\ k = queue[m] + 1
      BY <1>1, <2>3, <2>5
    <3>. QED BY <2>2, <2>3, <3>1
  <2>. QED BY <2>4, <2>5
<1>. QED BY <1>2

(* A delivery takes one token of its job from the broker, and none of      *)
(* another job.                                                            *)
LEMMA TakenTokens ==
  ASSUME Inv, NEW m \in Messages, queue[m] > 0, queue' = [queue EXCEPT ![m] = @ - 1]
  PROVE  /\ \E y \in Tokens(m[1]) : Tokens(m[1])' \subseteq Tokens(m[1]) \ {y}
         /\ \A j \in Jobs : j # m[1] => Tokens(j)' \subseteq Tokens(j)
<1>1. \A n \in Messages :
        queue[n] \in Nat /\ queue'[n] = IF n = m THEN queue[n] - 1 ELSE queue[n]
  BY DEF Inv, TypeOK
<1>. DEFINE y == <<m, queue[m]>>
<1>2. y \in Tokens(m[1])
  BY <1>1 DEF Tokens
<1>3. ASSUME NEW j, NEW c \in Tokens(j)' PROVE c \in Tokens(j) /\ c # y
  <2>1. c \in Messages \X (Nat \ {0}) /\ c[1][1] = j /\ c[2] <= queue'[c[1]]
    BY DEF Tokens
  <2>2. PICK n \in Messages, k \in Nat \ {0} : c = <<n, k>>
    BY <2>1
  <2>3. k <= queue[n] /\ ~(n = m /\ k = queue[m])
    BY <1>1, <2>1, <2>2
  <2>. QED BY <2>1, <2>2, <2>3 DEF Tokens
<1>. QED BY <1>2, <1>3

(* Only worker w changes what it does.                                     *)
OnlyWorker(w) == \A v \in Workers : v # w => phase'[v] = phase[v] /\ held'[v] = held[v]

(* A worker changes the hands of a job only by its own.                    *)
LEMMA OtherHands ==
  ASSUME NEW w \in Workers, NEW j, OnlyWorker(w)
  PROVE  /\ Hands(j)' \subseteq Hands(j) \cup {<<w, 0>>}
         /\ ~HasClaim(j, w)' => Hands(j)' \subseteq Hands(j) \ {<<w, 0>>}
         /\ HasClaim(j, w)' /\ HasClaim(j, w) => Hands(j)' \subseteq Hands(j)
<1>1. ASSUME NEW c \in Hands(j)' PROVE c \in Hands(j) \/ (c = <<w, 0>> /\ HasClaim(j, w)')
  <2>1. PICK v \in Workers : c = <<v, 0>> /\ HasClaim(j, v)'
    BY DEF Hands
  <2>2. CASE v = w
    BY <2>1, <2>2
  <2>3. CASE v # w
    <3>1. HasClaim(j, v)
      BY <2>1, <2>3 DEF OnlyWorker, HasClaim, JobOf
    <3>. QED BY <2>1, <3>1 DEF Hands
  <2>. QED BY <2>2, <2>3
<1>2. HasClaim(j, w) => <<w, 0>> \in Hands(j)
  BY DEF Hands
<1>3. ~HasClaim(j, w)' => <<w, 0>> \notin Hands(j)'
  BY DEF Hands
<1>. QED BY <1>1, <1>2, <1>3

(* The claim of a worker is not a token.                                   *)
LEMMA ClaimOfWorker ==
  ASSUME NEW w \in Workers, NEW j
  PROVE  /\ HasClaim(j, w) => <<w, 0>> \in Hands(j) /\ <<w, 0>> \in Claims(j)
         /\ <<w, 0>> \notin Tokens(j)
         /\ \A y \in Tokens(j) : y \notin Hands(j)
BY DEF Hands, Claims, Tokens

(* Nothing is claimed or done.                                             *)
LEMMA EnqueueBalance ==
  ASSUME WorkInv, NEW e \in Enqueuers, Look(e) \/ FindOther(e) \/ Create(e) \/ CommitJob(e),
         NEW j \in Jobs
  PROVE  Unclaimed(j) /\ UNCHANGED <<pushed, mishaps>>
<1>1. UNCHANGED <<queue, pushed, phase, held, worked, mishaps>>
  BY DEF Look, FindOther, Create, CommitJob, broker, work
<1>. QED BY <1>1 DEF Unclaimed, Claims, Tokens, Hands, HasClaim, JobOf

(* A submission to the broker that succeeds or fails keeps the balance of  *)
(* every job.                                                              *)
LEMMA SubmitBalance ==
  ASSUME WorkInv, NEW e \in Enqueuers, Submit(e) \/ SubmitFails(e), NEW j \in Jobs
  PROVE  /\ Unclaimed(j) \/ Claimed(j)
         /\ pushed[j] + mishaps <= pushed'[j] + mishaps'
<1>1. PICK i \in Jobs : job[e] = i
  BY DEF Submit, SubmitFails, WorkInv, Inv, Linked
<1>2. /\ UNCHANGED <<phase, held, worked>> /\ pushed[j] \in Nat /\ mishaps \in Nat
      /\ Hands(j)' = Hands(j)
  BY JobAssumption DEF Submit, SubmitFails, work, WorkInv, Inv, TypeOK, Hands, HasClaim, JobOf
<1>3. CASE Submit(e)
  <2>1. Push(<<i, 0>>) /\ <<i, 0>> \in Messages
    BY <1>1, <1>3, JobAssumption DEF Submit, Messages
  <2>2. pushed'[j] = (IF j = i THEN pushed[j] + 1 ELSE pushed[j]) /\ mishaps' = mishaps
    BY <1>1, <1>3 DEF Submit, Pushed, WorkInv, Inv, TypeOK
  <2>3. /\ \E x : Tokens(i)' \subseteq Tokens(i) \cup {x}
        /\ j # i => Tokens(j)' \subseteq Tokens(j)
    BY <2>1, PushedTokens DEF WorkInv
  <2>4. CASE j = i
    BY <1>2, <2>2, <2>3, <2>4 DEF Claimed, Claims
  <2>5. CASE j # i
    BY <1>2, <2>2, <2>3, <2>5 DEF Unclaimed, Claims
  <2>. QED BY <2>4, <2>5
<1>4. CASE SubmitFails(e)
  BY <1>2, <1>4 DEF SubmitFails, Mishap, Unclaimed, Claims, Tokens
<1>. QED BY <1>3, <1>4

(* The claim passes from the broker to the worker.                         *)
LEMMA TakeBalance ==
  ASSUME WorkInv, NEW w \in Workers, Take(w), NEW j \in Jobs
  PROVE  (Unclaimed(j) \/ HandedOver(j)) /\ UNCHANGED <<pushed, mishaps>>
<1>1. PICK m \in Messages :
        /\ queue[m] > 0 /\ queue' = [queue EXCEPT ![m] = @ - 1]
        /\ held' = [held EXCEPT ![w] = <<m, "none">>]
  BY DEF Take
<1>2. UNCHANGED <<pushed, worked, mishaps>> /\ phase' = [phase EXCEPT ![w] = "taken"]
  BY DEF Take, Go
<1>3. OnlyWorker(w) /\ (HasClaim(j, w)' => j = m[1])
  BY <1>1, <1>2 DEF WorkInv, Inv, TypeOK, OnlyWorker, HasClaim, JobOf
<1>4. /\ \E y \in Tokens(m[1]) : Tokens(m[1])' \subseteq Tokens(m[1]) \ {y}
      /\ j # m[1] => Tokens(j)' \subseteq Tokens(j)
  BY <1>1, TakenTokens DEF WorkInv
<1>5. CASE j = m[1]
  <2>1. PICK y \in Tokens(j) : Tokens(j)' \subseteq Tokens(j) \ {y}
    BY <1>4, <1>5
  <2>2. Hands(j)' \subseteq Hands(j) \cup {<<w, 0>>} /\ y \notin Hands(j)
    BY <1>3, <2>1, OtherHands, ClaimOfWorker
  <2>3. y \in Claims(j) /\ Claims(j)' \subseteq (Claims(j) \ {y}) \cup {<<w, 0>>}
    BY <2>1, <2>2 DEF Claims
  <2>. QED BY <1>2, <2>3 DEF HandedOver
<1>6. CASE j # m[1]
  <2>1. Hands(j)' \subseteq Hands(j)
    BY <1>3, <1>6, OtherHands
  <2>. QED BY <1>2, <1>4, <1>6, <2>1 DEF Unclaimed, Claims
<1>. QED BY <1>5, <1>6

(* The worker goes on with its claim, or drops it.                         *)
LEMMA QuietBalance ==
  ASSUME WorkInv, NEW w \in Workers, NEW j \in Jobs,
         \/ Start(w) \/ MarkFailed(w) \/ LeaveUnmarked(w) \/ \E error \in Errors : WorkRaises(w, error)
         \/ Finish(w) \/ GiveUp(w) \/ CrashLosing(w)
  PROVE  Unclaimed(j) /\ pushed' = pushed /\ mishaps <= mishaps'
<1>1. /\ UNCHANGED <<queue, pushed, worked>> /\ mishaps <= mishaps'
  BY JobAssumption
     DEF Start, MarkFailed, LeaveUnmarked, WorkRaises, Raise, Finish, Succeed, GiveUp, CrashLosing,
         Mishap, broker, WorkInv, Inv, TypeOK
<1>2. /\ OnlyWorker(w)
      /\ HasClaim(j, w)' => HasClaim(j, w)
  <2>1. CASE Start(w) \/ MarkFailed(w) \/ LeaveUnmarked(w)
    BY <2>1 DEF Start, MarkFailed, LeaveUnmarked, Go, WorkInv, Inv, TypeOK, OnlyWorker, HasClaim, JobOf
  <2>2. ASSUME NEW error \in Errors, WorkRaises(w, error)
        PROVE  OnlyWorker(w) /\ (HasClaim(j, w)' => HasClaim(j, w))
    <3>1. /\ phase[w] = "working" /\ phase' = [phase EXCEPT ![w] = "raised"]
          /\ held' = [held EXCEPT ![w] = <<held[w][1], error>>]
      BY <2>2 DEF WorkRaises, Raise, Go
    <3>2. OnlyWorker(w) /\ held'[w][1] = held[w][1]
      BY <3>1 DEF WorkInv, Inv, TypeOK, OnlyWorker
    <3>. QED BY <3>1, <3>2 DEF HasClaim, JobOf
  <2>3. CASE Finish(w) \/ GiveUp(w) \/ CrashLosing(w)
    BY <2>3 DEF Finish, Succeed, GiveUp, CrashLosing, Acknowledge, Go, WorkInv, Inv, TypeOK,
                OnlyWorker, HasClaim
  <2>. QED BY <2>1, <2>2, <2>3
<1>3. Hands(j)' \subseteq Hands(j)
  BY <1>2, OtherHands
<1>. QED BY <1>1, <1>3 DEF Unclaimed, Claims, Tokens

(* The work is committed and the claim with it.                            *)
LEMMA DoneBalance ==
  ASSUME WorkInv, NEW w \in Workers, NEW j \in Jobs, WorkDone(w) \/ FinishAtOnce(w)
  PROVE  (Unclaimed(j) \/ Done(j)) /\ UNCHANGED <<pushed, mishaps>>
<1>1. PICK i \in Jobs : JobOf(w) = i
  BY HeldParts DEF WorkDone, FinishAtOnce, WorkInv
<1>2. /\ worked'[j] = IF j = i THEN worked[j] + 1 ELSE worked[j]
      /\ UNCHANGED <<queue, pushed, mishaps>>
  BY <1>1 DEF WorkDone, FinishAtOnce, Succeed, broker, WorkInv, Inv, TypeOK
<1>3. OnlyWorker(w) /\ ~HasClaim(j, w)'
  BY DEF WorkDone, FinishAtOnce, Succeed, Acknowledge, Go, WorkInv, Inv, TypeOK, OnlyWorker, HasClaim
<1>4. HasClaim(i, w)
  BY <1>1 DEF WorkDone, FinishAtOnce, HasClaim
<1>5. Hands(j)' \subseteq Hands(j) \ {<<w, 0>>}
  BY <1>3, OtherHands
<1>6. CASE j = i
  <2>1. <<w, 0>> \in Claims(j) /\ <<w, 0>> \notin Tokens(j)
    BY <1>4, <1>6, ClaimOfWorker
  <2>2. Tokens(j)' = Tokens(j)
    BY <1>2 DEF Tokens
  <2>3. Claims(j)' \subseteq Claims(j) \ {<<w, 0>>}
    BY <1>5, <2>1, <2>2 DEF Claims
  <2>. QED BY <1>2, <1>6, <2>1, <2>3 DEF Done
<1>7. CASE j # i
  BY <1>2, <1>5, <1>7 DEF Unclaimed, Claims, Tokens
<1>. QED BY <1>2, <1>6, <1>7

(* Work that was committed will be done again: that takes a mishap.        *)
LEMMA FinishRaisesBalance ==
  ASSUME WorkInv, NEW w \in Workers, NEW j \in Jobs, FinishRaises(w)
  PROVE  Claimed(j) /\ pushed' = pushed /\ mishaps <= mishaps'
<1>1. UNCHANGED <<queue, pushed, worked>> /\ mishaps' = mishaps + 1
  BY DEF FinishRaises, Mishap, broker
<1>2. OnlyWorker(w)
  BY DEF FinishRaises, Raise, Go, WorkInv, Inv, TypeOK, OnlyWorker
<1>3. Claims(j)' \subseteq Claims(j) \cup {<<w, 0>>}
  BY <1>1, <1>2, OtherHands DEF Claims, Tokens
<1>4. mishaps \in Nat /\ pushed[j] \in Nat
  BY JobAssumption DEF WorkInv, Inv, TypeOK
<1>. QED BY <1>1, <1>3, <1>4 DEF Claimed

(* A try replaces the one before it.  A redelivery is one more message,    *)
(* whatever its worker had done.                                           *)
LEMMA SendAgainBalance ==
  ASSUME WorkInv, NEW w \in Workers, NEW j \in Jobs, Retry(w) \/ CrashRedelivering(w)
  PROVE  /\ Unclaimed(j) \/ Claimed(j) \/ HandedOver(j)
         /\ pushed[j] + mishaps <= pushed'[j] + mishaps'
<1>1. PICK i \in Jobs, t \in 0..MaxTries :
        JobOf(w) = i /\ TriesOf(w) = t /\ held[w][1] = <<i, t>>
  BY HeldParts DEF Retry, CrashRedelivering, WorkInv
<1>2. PICK u \in 0..MaxTries : Push(<<i, u>>)
  <2>1. CASE Retry(w)
    <3>1. t + 1 \in 0..MaxTries
      BY <1>1, <2>1, JobAssumption DEF Retry, IsRetried
    <3>. QED BY <1>1, <2>1, <3>1 DEF Retry
  <2>2. CASE CrashRedelivering(w)
    BY <1>1, <2>2 DEF CrashRedelivering
  <2>. QED BY <2>1, <2>2
<1>3. /\ \E x : Tokens(i)' \subseteq Tokens(i) \cup {x}
      /\ j # i => Tokens(j)' \subseteq Tokens(j)
  BY <1>2, PushedTokens DEF Messages, WorkInv
<1>4. OnlyWorker(w) /\ ~HasClaim(j, w)' /\ worked' = worked
  BY DEF Retry, CrashRedelivering, Acknowledge, Go, WorkInv, Inv, TypeOK, OnlyWorker, HasClaim
<1>5. Hands(j)' \subseteq Hands(j) \ {<<w, 0>>}
  BY <1>4, OtherHands
<1>6. pushed[j] \in Nat /\ mishaps \in Nat
  BY JobAssumption DEF WorkInv, Inv, TypeOK
<1>7. CASE j # i
  <2>1. Unclaimed(j)
    BY <1>3, <1>4, <1>5, <1>7 DEF Unclaimed, Claims
  <2>2. pushed'[j] = pushed[j] /\ mishaps' \in {mishaps, mishaps + 1}
    BY <1>1, <1>6, <1>7 DEF Retry, CrashRedelivering, Pushed, Mishap, WorkInv, Inv, TypeOK
  <2>. QED BY <1>6, <2>1, <2>2
<1>8. CASE Retry(w) /\ j = i
  <2>1. HasClaim(j, w)
    BY <1>1, <1>8 DEF Retry, HasClaim
  <2>2. PICK x : Tokens(j)' \subseteq Tokens(j) \cup {x}
    BY <1>3, <1>8
  <2>3. Claims(j)' \subseteq (Claims(j) \ {<<w, 0>>}) \cup {x}
    BY <1>5, <2>2, ClaimOfWorker DEF Claims
  <2>4. HandedOver(j)
    BY <1>4, <2>1, <2>3, ClaimOfWorker DEF HandedOver
  <2>. QED BY <1>6, <1>8, <2>4 DEF Retry
<1>9. CASE CrashRedelivering(w) /\ j = i
  <2>1. pushed'[j] = pushed[j] + 1 /\ mishaps' = mishaps + 1
    BY <1>1, <1>9 DEF CrashRedelivering, Pushed, Mishap, WorkInv, Inv, TypeOK
  <2>2. Claimed(j)
    BY <1>3, <1>4, <1>5, <1>6, <1>9, <2>1 DEF Claimed, Claims
  <2>3. pushed[j] + mishaps <= pushed'[j] + mishaps'
    BY <1>6, <2>1
  <2>. QED BY <2>2, <2>3
<1>. QED BY <1>7, <1>8, <1>9

(* Every step keeps every account balanced.                                *)
LEMMA PaidStep ==
  ASSUME WorkInv, Inv', [Next]_vars, NEW j \in Jobs
  PROVE  Paid(j)'
<1>. DEFINE Settled == /\ pushed[j] + mishaps <= pushed'[j] + mishaps'
                       /\ Unclaimed(j) \/ Claimed(j) \/ Done(j) \/ HandedOver(j)
<1>1. pushed[j] \in Nat /\ mishaps \in Nat /\ mishaps' \in Nat
  BY JobAssumption DEF WorkInv, Inv, TypeOK
<1>2. pushed' = pushed /\ mishaps <= mishaps' => pushed[j] + mishaps <= pushed'[j] + mishaps'
  BY <1>1
<1>3. ASSUME NEW e \in Enqueuers, Look(e) \/ Enqueue(e) \/ SubmitFails(e) PROVE Settled
  <2>1. CASE Look(e) \/ FindOther(e) \/ Create(e) \/ CommitJob(e)
    BY <1>1, <1>2, <2>1, EnqueueBalance
  <2>2. CASE Submit(e) \/ SubmitFails(e)
    BY <2>2, SubmitBalance
  <2>. QED BY <1>3, <2>1, <2>2 DEF Enqueue
<1>4. ASSUME NEW w \in Workers,
             Task(w) \/ FinishRaises(w) \/ CrashLosing(w) \/ CrashRedelivering(w)
      PROVE  Settled
  <2>1. CASE Take(w) \/ WorkDone(w) \/ FinishAtOnce(w)
    BY <1>1, <1>2, <2>1, TakeBalance, DoneBalance
  <2>2. CASE \/ Start(w) \/ MarkFailed(w) \/ LeaveUnmarked(w)
             \/ \E error \in Errors : WorkRaises(w, error)
             \/ Finish(w) \/ GiveUp(w) \/ CrashLosing(w)
    BY <1>1, <1>2, <2>2, QuietBalance
  <2>3. CASE FinishRaises(w)
    BY <1>1, <1>2, <2>3, FinishRaisesBalance
  <2>4. CASE Retry(w) \/ CrashRedelivering(w)
    BY <2>4, SendAgainBalance
  <2>. QED BY <1>4, <2>1, <2>2, <2>3, <2>4 DEF Task
<1>5. ASSUME UNCHANGED vars PROVE Settled
  <2>1. pushed' = pushed /\ mishaps <= mishaps'
    BY <1>1, <1>5 DEF vars
  <2>2. Unclaimed(j)
    BY <1>5 DEF vars, Unclaimed, Claims, Tokens, Hands, HasClaim, JobOf
  <2>. QED BY <1>2, <2>1, <2>2
<1>6. Settled
  <2>. HIDE DEF Settled
  <2>. QED BY <1>3, <1>4, <1>5 DEF Next
<1>. QED BY <1>6, Balance DEF Inv

(* Init claims nothing, and every step keeps the balance.                  *)
LEMMA WorkInvHolds == Spec => []WorkInv
<1>1. Init /\ Inv => WorkInv
  <2> SUFFICES ASSUME Init, Inv, NEW j \in Jobs PROVE Paid(j)
    BY DEF WorkInv
  <2>1. Tokens(j) = {} /\ Hands(j) = {}
    BY DEF Init, Tokens, Hands, HasClaim
  <2>2. Claims(j) = {}
    BY <2>1 DEF Claims
  <2>3. worked[j] = 0 /\ pushed[j] = 0 /\ mishaps = 0
    BY DEF Init
  <2>. QED BY <2>2, <2>3, FS_EmptySet DEF Paid
<1>2. WorkInv /\ Inv' /\ [Next]_vars => WorkInv'
  BY PaidStep DEF WorkInv
<1>. QED BY <1>1, <1>2, InvHolds, PTL DEF Spec

(* The work of a job is committed at most once per message sent for it,    *)
(* unless a commit that should have recorded it failed.                    *)
THEOREM WorkIsAlwaysExplained == Spec => []WorkIsExplained
<1>1. WorkInv => WorkIsExplained
  <2> SUFFICES ASSUME WorkInv, NEW j \in Jobs PROVE worked[j] <= pushed[j] + mishaps
    BY DEF WorkIsExplained
  <2>1. /\ worked[j] + Cardinality(Claims(j)) <= pushed[j] + mishaps
        /\ worked[j] \in Nat /\ pushed[j] \in Nat /\ mishaps \in Nat
    BY JobAssumption DEF WorkInv, Paid, Inv, TypeOK
  <2>2. Cardinality(Claims(j)) \in Nat
    BY FS_CardinalityType DEF WorkInv, Paid
  <2>. QED BY <2>1, <2>2
<1>. QED BY <1>1, WorkInvHolds, PTL
=============================================================================
