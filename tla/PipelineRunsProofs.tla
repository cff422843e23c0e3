-------------------------- MODULE PipelineRunsProofs --------------------------
(***************************************************************************)
(* Proofs about PipelineRuns, for any runs, workers and bounds: its type   *)
(* invariant, and that a failure is announced once.                        *)
(*                                                                         *)
(* AnnouncedOnce is not inductive.  Counted says whose announcement it is: *)
(* that of a transaction which has not ended, or of the one that committed *)
(* the alert.  That takes Single: only one transaction has inserted it,    *)
(* and nobody has committed it before.                                     *)
(***************************************************************************)
EXTENDS PipelineRuns, TLAPS

(* Only attempts that have ended are delivered, and only deliveries that   *)
(* were accepted are handled.                                              *)
Delivered ==
  /\ \A e \in Events : delivery[e] # None => e[2] <= Len(outcomes[e[1]])
  /\ \A w \in Workers :
       IsOpen(w) /\ session[w].event # None => delivery[session[w].event] # None

Holds(w, r) == r \in session[w].opened

Single ==
  \A w \in Workers, r \in Runs :
    Holds(w, r) => alert[r] = None /\ \A v \in Workers : Holds(v, r) => v = w

(* What a transaction resolves exists, or is its own.                      *)
Known ==
  \A w \in Workers, r \in Runs :
    IsOpen(w) /\ r \in session[w].resolved => alert[r] # None \/ Holds(w, r)

Tells(w, r) == r \in session[w].told

Counted ==
  \A r \in Runs :
    /\ announced[r] \in {0, 1}
    /\ alert[r] = None /\ (\A w \in Workers : ~Tells(w, r)) => announced[r] = 0
    /\ \A w \in Workers : Tells(w, r) => announced[r] = 1 /\ Holds(w, r)

Inv == TypeOK /\ Delivered /\ Single /\ Known /\ Counted

-----------------------------------------------------------------------------
(* The transactions: the parts of one, whether it is open or not.          *)
LEMMA SessionParts ==
  ASSUME TypeOK, NEW w \in Workers
  PROVE  /\ session[w].opened \subseteq Runs
         /\ IsOpen(w) => session[w] \in SessionType
<1>1. session[w] = Closed \/ session[w] \in SessionType
  BY DEF TypeOK
<1>. QED BY <1>1 DEF Closed, SessionType, IsOpen

(* StatusSet changes a status and what was created, and nothing else.      *)
LEMMA StatusSetParts ==
  ASSUME TypeOK, NEW w \in Workers, NEW r \in Runs, IsOpen(w), session[w].listed[r] \in Outcomes
  PROVE  /\ StatusSet(w, r) \in SessionType
         /\ StatusSet(w, r).event = session[w].event
         /\ StatusSet(w, r).opened = session[w].opened
         /\ StatusSet(w, r).told = session[w].told
         /\ StatusSet(w, r).resolved = session[w].resolved
<1>1. session[w] \in SessionType
  BY SessionParts
<1>. QED BY <1>1 DEF StatusSet, SessionType

(* What a transaction makes of the unified alerts is still a state of them. *)
LEMMA UnifiedParts ==
  ASSUME TypeOK, NEW w \in Workers, IsOpen(w)
  PROVE  /\ Published(w) \subseteq [Workers -> UnifiedStates]
         /\ Recovered(w) \subseteq [Workers -> UnifiedStates]
<1>1. session[w].unified \in [Workers -> UnifiedStates]
  BY SessionParts DEF SessionType
<1>2. "active" \in UnifiedStates /\ "resolved" \in UnifiedStates
  BY DEF UnifiedStates
<1>. QED BY <1>1, <1>2 DEF Published, Recovered

(* The cases of evaluate_run_alert() change the session of w in one way.   *)
LEMMA UpsertParts ==
  ASSUME TypeOK, NEW w \in Workers, NEW r \in Runs, UpsertRun(w, r)
  PROVE  \E s \in SessionType :
           /\ session' = [session EXCEPT ![w] = s] /\ s.event = session[w].event
           /\ s.resolved \subseteq session[w].resolved \cup OpenSeen(w)
           /\ \/ s.opened = session[w].opened /\ s.told = session[w].told /\ announced' = announced
              \/ /\ s.opened = session[w].opened \cup {r} /\ MayInsert(w, r)
                 /\ \/ s.told = session[w].told /\ announced' = announced
                    \/ s.told = session[w].told \cup {r} /\ announced' = [announced EXCEPT ![r] = @ + 1]
<1>1. IsOpen(w) /\ session[w] \in SessionType
  BY SessionParts DEF UpsertRun
<1>2. OpenSeen(w) \subseteq Runs /\ Resolved(w, r) \subseteq OpenSeen(w)
  BY DEF OpenSeen, Resolved, ResolvedByPipeline, ResolvedByWorkflow
<1>3. CASE Succeeded(w, r)
  <2> DEFINE t == StatusSet(w, r)
             s(u) == [t EXCEPT !.todo = @ \ {r}, !.resolved = @ \cup Resolved(w, r), !.unified = u]
  <2>1. /\ t \in SessionType /\ t.event = session[w].event /\ t.told = session[w].told
        /\ t.opened = session[w].opened /\ t.resolved = session[w].resolved
    BY <1>1, <1>3, StatusSetParts DEF Succeeded, Outcomes
  <2>2. PICK u \in Recovered(w) \cup {session[w].unified} :
          session' = [session EXCEPT ![w] = s(u)] /\ announced' = announced
    BY <1>3 DEF Succeeded
  <2>3. u \in [Workers -> UnifiedStates]
    BY <1>1, <2>2, UnifiedParts DEF SessionType
  <2> HIDE DEF t
  <2>4. /\ s(u) \in SessionType /\ s(u).event = t.event /\ s(u).opened = t.opened
        /\ s(u).told = t.told /\ s(u).resolved = t.resolved \cup Resolved(w, r)
    BY <2>1, <2>3, <1>2 DEF SessionType
  <2>. QED BY <2>1, <2>2, <2>4, <1>2
<1>4. CASE FailedFirst(w, r)
  <2> DEFINE t == StatusSet(w, r)
             s(u) == [t EXCEPT !.todo = @ \ {r}, !.opened = @ \cup {r},
                               !.told = IF Occurs(w) THEN @ ELSE @ \cup {r}, !.unified = u]
  <2>1. /\ t \in SessionType /\ t.event = session[w].event /\ t.told = session[w].told
        /\ t.opened = session[w].opened /\ t.resolved = session[w].resolved
    BY <1>1, <1>4, StatusSetParts DEF FailedFirst, Outcomes
  <2>2. PICK u \in Published(w) : session' = [session EXCEPT ![w] = s(u)]
    BY <1>4 DEF FailedFirst
  <2>3. u \in [Workers -> UnifiedStates]
    BY <1>1, <2>2, UnifiedParts
  <2> HIDE DEF t
  <2>4. /\ s(u) \in SessionType /\ s(u).event = t.event /\ s(u).opened = t.opened \cup {r}
        /\ s(u).told = (IF Occurs(w) THEN t.told ELSE t.told \cup {r}) /\ s(u).resolved = t.resolved
    BY <2>1, <2>3 DEF SessionType
  <2>5. announced' = (IF Occurs(w) THEN announced ELSE [announced EXCEPT ![r] = @ + 1]) /\ MayInsert(w, r)
    BY <1>4 DEF FailedFirst
  <2>. QED BY <2>1, <2>2, <2>4, <2>5
<1>5. CASE FailedAgain(w, r)
  <2> DEFINE t == StatusSet(w, r)
             s == [t EXCEPT !.todo = @ \ {r}]
  <2>1. /\ t \in SessionType /\ t.event = session[w].event /\ t.told = session[w].told
        /\ t.opened = session[w].opened /\ t.resolved = session[w].resolved
    BY <1>1, <1>5, StatusSetParts DEF FailedAgain, Outcomes
  <2> HIDE DEF t
  <2>2. /\ s \in SessionType /\ s.event = t.event /\ s.opened = t.opened
        /\ s.told = t.told /\ s.resolved = t.resolved
    BY <2>1 DEF SessionType
  <2>3. session' = [session EXCEPT ![w] = s] /\ announced' = announced
    BY <1>5 DEF FailedAgain, t
  <2>. QED BY <2>1, <2>2, <2>3
<1>. QED BY <1>3, <1>4, <1>5 DEF UpsertRun

(* What a sync and a delivery list are outcomes.                           *)
LEMMA ListedParts ==
  ASSUME TypeOK, Delivered
  PROVE  /\ [r \in Runs |-> IF Finished(r) THEN Outcome(r) ELSE None] \in [Runs -> Outcomes \cup {None}]
         /\ \A e \in Events : delivery[e] = "queued" =>
              [r \in Runs |-> IF r = e[1] THEN outcomes[r][e[2]] ELSE None]
                \in [Runs -> Outcomes \cup {None}]
<1>1. ASSUME NEW r \in Runs, outcomes[r] # <<>>
      PROVE  outcomes[r][Len(outcomes[r])] \in Outcomes
  BY <1>1 DEF TypeOK
<1>2. ASSUME NEW e \in Events, delivery[e] = "queued"
      PROVE  outcomes[e[1]][e[2]] \in Outcomes
  <2>1. e[1] \in Runs /\ e[2] \in 1..MaxAttempts /\ e[2] <= Len(outcomes[e[1]])
    BY <1>2 DEF Delivered, None, Events
  <2>2. outcomes[e[1]] \in Seq(Outcomes) /\ e[2] \in 1..Len(outcomes[e[1]])
    BY <2>1, PipelineAssumption DEF TypeOK
  <2>. QED BY <2>2
<1>. QED BY <1>1, <1>2 DEF Finished, Outcome

-----------------------------------------------------------------------------
(* One lemma per kind of step.                                             *)

(* The provider changes nothing of ours, and attempts do not go away.      *)
LEMMA FinishKeeps ==
  ASSUME Inv, NEW r \in Runs, NEW outcome \in Outcomes, Finish(r, outcome)
  PROVE  Inv'
<1> USE DEF Inv
<1>1. TypeOK'
  BY DEF TypeOK, Finish, provider
<1>2. Delivered'
  <2> SUFFICES ASSUME NEW e \in Events, delivery[e] # None
               PROVE  e[2] <= Len(outcomes'[e[1]])
    BY DEF Delivered, Finish, IsOpen
  <2>1. e[1] \in Runs /\ e[2] \in Int /\ e[2] <= Len(outcomes[e[1]])
    BY PipelineAssumption DEF Delivered, Events
  <2>2. Len(outcomes'[e[1]]) >= Len(outcomes[e[1]])
    BY <2>1 DEF TypeOK, Finish
  <2>3. Len(outcomes'[e[1]]) \in Int /\ Len(outcomes[e[1]]) \in Int
    BY <2>1, <1>1 DEF TypeOK
  <2>. QED BY <2>1, <2>2, <2>3
<1>3. Single' /\ Known' /\ Counted'
  BY DEF Finish, Single, Known, Counted, Tells, Holds, IsOpen
<1>. QED BY <1>1, <1>2, <1>3

(* Only attempts that have ended are announced by a webhook.               *)
LEMMA AcceptKeeps ==
  ASSUME Inv, NEW e \in Events, Accept(e)
  PROVE  Inv'
<1> USE DEF Inv
<1>1. TypeOK'
  BY DEF TypeOK, Accept, provider
<1>2. Delivered'
  BY DEF Delivered, Accept, provider, TypeOK, IsOpen, None
<1>3. Single' /\ Known' /\ Counted'
  BY DEF Accept, provider, Single, Known, Counted, Tells, Holds, IsOpen
<1>. QED BY <1>1, <1>2, <1>3

(* A transaction that begins has written nothing.                          *)
LEMMA BeginKeeps ==
  ASSUME Inv, NEW w \in Workers, NEW event \in Events \cup {None},
         NEW listed \in [Runs -> Outcomes \cup {None}], Begin(w, event, listed),
         event # None => delivery[event] # None
  PROVE  Inv'
<1> DEFINE s == [event |-> event, listed |-> listed, todo |-> {r \in Runs : listed[r] # None},
                 status |-> [r \in Runs |-> None], created |-> {},
                 opened |-> {}, told |-> {}, resolved |-> {}, unified |-> Untouched]
<1>0. session' = [session EXCEPT ![w] = s]
  BY DEF Begin
<1>1. s \in SessionType /\ s.event = event /\ s.opened = {} /\ s.told = {} /\ s.resolved = {}
  BY DEF SessionType, Untouched, UnifiedStates
<1> HIDE DEF s
<1> USE <1>0 DEF Inv
<1>2. UNCHANGED <<source, outcomes, delivery, status, alert, unified, announced>>
  BY DEF Begin, provider
<1>3. TypeOK'
  BY <1>1, <1>2 DEF TypeOK
<1>4. Delivered'
  BY <1>1, <1>2 DEF Delivered, TypeOK, IsOpen
<1>5. \A v \in Workers, r \in Runs : Holds(v, r)' = Holds(v, r) /\ Tells(v, r)' = Tells(v, r)
  <2>1. session[w].opened = {} /\ session[w].told = {}
    BY DEF Begin, IsOpen, Closed
  <2>. QED BY <1>1, <2>1 DEF Holds, Tells, TypeOK
<1>6. Single'
  BY <1>2, <1>5 DEF Single
<1>7. Known'
  <2> SUFFICES ASSUME NEW v \in Workers, NEW r \in Runs, IsOpen(v)', r \in session'[v].resolved
               PROVE  alert'[r] # None \/ Holds(v, r)'
    BY DEF Known
  <2>1. v # w /\ session'[v] = session[v]
    BY <1>1 DEF TypeOK
  <2>. QED BY <1>2, <1>5, <2>1 DEF Known, IsOpen
<1>8. Counted'
  BY <1>2, <1>5 DEF Counted
<1>. QED BY <1>3, <1>4, <1>6, <1>7, <1>8

(* A second transaction waits for the one that has inserted the alert.     *)
LEMMA UpsertKeeps ==
  ASSUME Inv, NEW w \in Workers, NEW r \in Runs, UpsertRun(w, r)
  PROVE  Inv'
<1> USE DEF Inv
<1>1. PICK s \in SessionType :
        /\ session' = [session EXCEPT ![w] = s] /\ s.event = session[w].event
        /\ s.resolved \subseteq session[w].resolved \cup OpenSeen(w)
        /\ \/ s.opened = session[w].opened /\ s.told = session[w].told /\ announced' = announced
           \/ /\ s.opened = session[w].opened \cup {r} /\ MayInsert(w, r)
              /\ \/ s.told = session[w].told /\ announced' = announced
                 \/ s.told = session[w].told \cup {r} /\ announced' = [announced EXCEPT ![r] = @ + 1]
  BY UpsertParts
<1>2. IsOpen(w) /\ UNCHANGED <<source, outcomes, delivery, status, alert, unified>>
  BY DEF UpsertRun, provider
<1>3. TypeOK'
  BY <1>1, <1>2 DEF TypeOK
<1>4. Delivered'
  BY <1>1, <1>2 DEF Delivered, TypeOK, IsOpen
<1>5. /\ session'[w] = s
      /\ \A v \in Workers : v # w => session'[v] = session[v]
  BY <1>1 DEF TypeOK
<1>6. \A q \in Runs : q \in s.resolved => alert[q] # None \/ q \in s.opened
  <2> SUFFICES ASSUME NEW q \in Runs, q \in s.resolved, alert[q] = None
               PROVE  q \in s.opened
    OBVIOUS
  <2>1. session[w].opened \subseteq s.opened
    BY <1>1
  <2>2. CASE q \in session[w].resolved
    BY <2>1, <2>2, <1>2 DEF Known, Holds
  <2>3. CASE q \in OpenSeen(w) /\ q \notin session[w].resolved
    BY <2>1, <2>3 DEF OpenSeen, AlertSeen, None
  <2>. QED BY <1>1, <2>2, <2>3
<1>7. Known'
  BY <1>2, <1>5, <1>6 DEF Known, Holds, IsOpen
<1>8. CASE s.opened = session[w].opened /\ s.told = session[w].told /\ announced' = announced
  <2>1. \A v \in Workers, q \in Runs : Holds(v, q)' = Holds(v, q) /\ Tells(v, q)' = Tells(v, q)
    BY <1>5, <1>8 DEF Holds, Tells
  <2>. QED BY <1>2, <1>3, <1>4, <1>7, <1>8, <2>1 DEF Single, Counted
<1>9. CASE /\ s.opened = session[w].opened \cup {r} /\ MayInsert(w, r)
           /\ \/ s.told = session[w].told /\ announced' = announced
              \/ s.told = session[w].told \cup {r} /\ announced' = [announced EXCEPT ![r] = @ + 1]
  <2>1. alert[r] = None /\ \A v \in Workers : ~Holds(v, r) /\ ~Tells(v, r)
    BY <1>9 DEF MayInsert, Holds, Counted
  <2>2. Holds(w, r)' /\ \A v \in Workers : v # w => ~Holds(v, r)' /\ ~Tells(v, r)'
    BY <1>5, <1>9, <2>1 DEF Holds, Tells
  <2>3. \A v \in Workers, q \in Runs : q # r => Holds(v, q)' = Holds(v, q) /\ Tells(v, q)' = Tells(v, q)
    BY <1>5, <1>9 DEF Holds, Tells
  <2>4. Single'
    BY <1>2, <2>1, <2>2, <2>3 DEF Single
  <2>5. announced[r] = 0 /\ announced \in [Runs -> Nat]
    BY <2>1 DEF Counted, TypeOK
  <2>6. announced'[r] = (IF Tells(w, r)' THEN 1 ELSE 0) /\ \A q \in Runs : q # r => announced'[q] = announced[q]
    BY <1>5, <1>9, <2>1, <2>5 DEF Tells
  <2>7. Counted'
    BY <1>2, <2>1, <2>2, <2>3, <2>6 DEF Counted
  <2>. QED BY <1>3, <1>4, <1>7, <2>4, <2>7
<1>. QED BY <1>1, <1>8, <1>9

(* What was held exists after the commit, so that nothing is counted twice. *)
LEMMA CommitKeeps ==
  ASSUME Inv, NEW w \in Workers, Commit(w)
  PROVE  Inv'
<1> USE DEF Inv
<1> DEFINE s == session[w]
<1>1. IsOpen(w) /\ s \in SessionType
  BY SessionParts DEF Commit
<1>2. /\ session' = [session EXCEPT ![w] = Closed]
      /\ UNCHANGED <<source, outcomes, announced>>
      /\ alert' = [r \in Runs |-> IF r \in s.opened \cup s.resolved THEN AlertSeen(w, r) ELSE alert[r]]
  BY DEF Commit, provider
<1>3. \A r \in Runs : AlertSeen(w, r) \in {None, "OPEN", "RESOLVED"}
  BY DEF AlertSeen, TypeOK
<1>4. TypeOK'
  <2>1. status' \in [Runs -> Outcomes \cup {None}]
    BY <1>1 DEF Commit, TypeOK, SessionType
  <2>2. alert' \in [Runs -> {None, "OPEN", "RESOLVED"}]
    BY <1>2, <1>3 DEF TypeOK
  <2>3. unified' \in [Workers -> UnifiedStates]
    BY <1>1 DEF Commit, UnifiedSeen, TypeOK, SessionType
  <2>4. delivery' \in [Events -> {None, "queued", "processed"}]
    BY <1>1 DEF Commit, TypeOK, SessionType
  <2>. QED BY <1>2, <2>1, <2>2, <2>3, <2>4 DEF TypeOK
<1>5. Delivered'
  <2>1. s.event # None => delivery[s.event] # None
    BY <1>1 DEF Delivered
  <2>2. \A e \in Events : delivery'[e] # None => delivery[e] # None
    BY <1>1, <2>1 DEF Commit, TypeOK, SessionType
  <2>3. \A e \in Events : delivery[e] # None => delivery'[e] # None
    BY <1>1 DEF Commit, TypeOK, SessionType, None
  <2>4. \A v \in Workers : IsOpen(v)' => session'[v] = session[v] /\ IsOpen(v)
    BY <1>2 DEF IsOpen, TypeOK
  <2>5. \A v \in Workers : IsOpen(v) => session[v].event \in Events \cup {None}
    BY SessionParts DEF SessionType
  <2>. QED BY <1>2, <2>2, <2>3, <2>4, <2>5 DEF Delivered
<1>6. \A v \in Workers : IsOpen(v)' => v # w /\ session'[v] = session[v]
  BY <1>2 DEF IsOpen, TypeOK
<1>7. \A v \in Workers, r \in Runs :
        (Holds(v, r)' <=> v # w /\ Holds(v, r)) /\ (Tells(v, r)' <=> v # w /\ Tells(v, r))
  BY <1>2 DEF Holds, Tells, TypeOK, Closed
<1>8. \A r \in Runs : alert'[r] # None <=> alert[r] # None \/ Holds(w, r)
  BY <1>1, <1>2 DEF AlertSeen, Known, Holds, None
<1>9. Single'
  BY <1>7, <1>8 DEF Single
<1>10. Known'
  BY <1>6, <1>7, <1>8 DEF Known, IsOpen
<1>11. Counted'
  BY <1>2, <1>7, <1>8 DEF Counted
<1>. QED BY <1>4, <1>5, <1>9, <1>10, <1>11

(* What was held is gone, and so is what was announced of it.              *)
LEMMA RollbackKeeps ==
  ASSUME Inv, NEW w \in Workers, Rollback(w)
  PROVE  Inv'
<1> USE DEF Inv
<1>1. /\ session' = [session EXCEPT ![w] = Closed]
      /\ announced' = [r \in Runs |-> IF Tells(w, r) THEN announced[r] - 1 ELSE announced[r]]
      /\ UNCHANGED <<source, outcomes, delivery, status, alert, unified>>
  BY DEF Rollback, Tells, provider
<1>2. \A r \in Runs : announced'[r] = IF Tells(w, r) THEN 0 ELSE announced[r]
  BY <1>1 DEF Counted
<1>3. TypeOK'
  <2>1. announced' \in [Runs -> Nat]
    BY <1>1, <1>2 DEF TypeOK
  <2>. QED BY <1>1, <2>1 DEF TypeOK
<1>4. \A v \in Workers : IsOpen(v)' => v # w /\ session'[v] = session[v]
  BY <1>1 DEF IsOpen, TypeOK
<1>5. \A v \in Workers, r \in Runs :
        (Holds(v, r)' <=> v # w /\ Holds(v, r)) /\ (Tells(v, r)' <=> v # w /\ Tells(v, r))
  BY <1>1 DEF Holds, Tells, TypeOK, Closed
<1>6. Delivered'
  BY <1>1, <1>4 DEF Delivered, IsOpen
<1>7. Single'
  BY <1>1, <1>5 DEF Single
<1>8. Known'
  BY <1>1, <1>4, <1>5 DEF Known, IsOpen
<1>9. Counted'
  BY <1>1, <1>2, <1>5 DEF Counted, Single
<1>. QED BY <1>3, <1>6, <1>7, <1>8, <1>9

-----------------------------------------------------------------------------
(* The inductive invariant holds.                                          *)
LEMMA InvHolds == Spec => []Inv
<1>1. Init => Inv
  <2> SUFFICES ASSUME Init PROVE Inv
    OBVIOUS
  <2>1. TypeOK
    <3>1. [r \in Runs |-> <<>>] \in [Runs -> Seq(Outcomes)]
      OBVIOUS
    <3>. QED BY <3>1 DEF Init, TypeOK, Untouched, UnifiedStates
  <2>2. \A w \in Workers : ~IsOpen(w) /\ \A r \in Runs : ~Holds(w, r) /\ ~Tells(w, r)
    BY DEF Init, IsOpen, Holds, Tells, Closed
  <2>3. Delivered /\ Single /\ Known /\ Counted
    BY <2>2 DEF Init, Delivered, Single, Known, Counted
  <2>. QED BY <2>1, <2>3 DEF Inv
<1>2. Inv /\ [Next]_vars => Inv'
  <2> SUFFICES ASSUME Inv, [Next]_vars PROVE Inv'
    OBVIOUS
  <2>1. CASE \E r \in Runs, outcome \in Outcomes : Finish(r, outcome)
    BY <2>1, FinishKeeps
  <2>2. CASE \E e \in Events : Accept(e)
    BY <2>2, AcceptKeeps
  <2>3. CASE \E w \in Workers : BeginSync(w)
    <3>1. [r \in Runs |-> IF Finished(r) THEN Outcome(r) ELSE None] \in [Runs -> Outcomes \cup {None}]
      BY ListedParts DEF Inv
    <3>. QED BY <2>3, <3>1, BeginKeeps DEF BeginSync
  <2>4. CASE \E w \in Workers, e \in Events : BeginDelivery(w, e)
    <3>1. PICK w \in Workers : \E e \in Events : BeginDelivery(w, e)
      BY <2>4
    <3>2. PICK e \in Events : BeginDelivery(w, e)
      BY <3>1
    <3>3. delivery[e] = "queued" /\ delivery[e] # None
      BY <3>2 DEF BeginDelivery, None
    <3>4. [r \in Runs |-> IF r = e[1] THEN outcomes[r][e[2]] ELSE None] \in [Runs -> Outcomes \cup {None}]
      BY <3>3, ListedParts DEF Inv
    <3>. QED BY <3>2, <3>3, <3>4, BeginKeeps DEF BeginDelivery
  <2>5. CASE \E w \in Workers, r \in Runs : UpsertRun(w, r)
    BY <2>5, UpsertKeeps
  <2>6. CASE \E w \in Workers : Commit(w)
    BY <2>6, CommitKeeps
  <2>7. CASE \E w \in Workers : Rollback(w)
    BY <2>7, RollbackKeeps
  <2>8. CASE UNCHANGED vars
    BY <2>8 DEF vars, provider, Inv, TypeOK, Delivered, Single, Known, Counted, Tells, Holds, IsOpen
  <2>. QED BY <2>1, <2>2, <2>3, <2>4, <2>5, <2>6, <2>7, <2>8 DEF Next
<1>. QED BY <1>1, <1>2, PTL DEF Spec

(* The variables keep their types.                                         *)
THEOREM TypeCorrect == Spec => []TypeOK
<1>1. Inv => TypeOK
  BY DEF Inv
<1>. QED BY <1>1, InvHolds, PTL

(* However many transactions report the failure of a run at a time, it is  *)
(* announced once; what was announced before is rolled back.               *)
THEOREM FailureAnnouncedOnce == Spec => []AnnouncedOnce
<1>1. Inv => AnnouncedOnce
  BY DEF Inv, Counted, AnnouncedOnce
<1>. QED BY <1>1, InvHolds, PTL
=============================================================================
