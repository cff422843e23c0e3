----------------------- MODULE CertificateMonitorProofs -----------------------
(***************************************************************************)
(* Proofs about CertificateMonitor, for any jobs, certificates and bounds: *)
(* its type invariant, how many alerts overlapping jobs can leave, that    *)
(* the unified alerts agree with the certificate's own, and that nothing   *)
(* but a renewal or a date that is none of its own ends its alert.  Then   *)
(* what ConsoleViews shows of certificates and clusters, for any database. *)
(*                                                                         *)
(* How many alerts there are is not inductive: what counts is how many     *)
(* there are and how many jobs are about to insert one, Budget.  For the   *)
(* unified alerts it matters that what a job alone has read is still so    *)
(* when it commits, Read.                                                  *)
(***************************************************************************)
EXTENDS CertificateMonitor, ConsoleViews, FiniteSetTheorems, TLAPS

IsBusy(j) == job[j] # Idle

(* The jobs that have found no active alert.                               *)
Inserters == {j \in Jobs : IsBusy(j) /\ job[j].alert = NoAlert}

Budget == Cardinality(ActiveAlerts) + Cardinality(Inserters) <= Cardinality(Jobs)

(* The alert a job has read has a row.                                     *)
HasRow(a) == alerts[a] # NoRow
Referenced == \A j \in Jobs : IsBusy(j) /\ job[j].alert # NoAlert => HasRow(job[j].alert)

Read ==
  \A j \in Jobs : IsBusy(j) /\ job[j].alone =>
    /\ \A i \in Jobs : IsBusy(i) => i = j
    /\ IF job[j].alert = NoAlert THEN ActiveAlerts = {} ELSE Active(job[j].alert)

(* While writers have not raced there is one active alert at most.         *)
Single == ~raced => \A a, b \in ActiveAlerts : a = b

Inv == TypeOK /\ Budget /\ Referenced /\ Read /\ Single /\ AlertsAgree

-----------------------------------------------------------------------------
(* Sets and types.                                                         *)

(* What the budget counts is finite.                                       *)
LEMMA Finite ==
  /\ IsFiniteSet(ActiveAlerts) /\ IsFiniteSet(Inserters) /\ IsFiniteSet(Jobs)
  /\ Cardinality(ActiveAlerts) \in Nat /\ Cardinality(Inserters) \in Nat
  /\ Cardinality(Inserters) <= Cardinality(Jobs) /\ Cardinality(Jobs) \in Nat
<1>1. IsFiniteSet(Jobs) /\ MaxAlerts \in Nat
  BY CertificateAssumption
<1>2. IsFiniteSet(AlertIds)
  BY <1>1, FS_Interval DEF AlertIds
<1>3. ActiveAlerts \subseteq AlertIds /\ Inserters \subseteq Jobs
  BY DEF ActiveAlerts, Inserters
<1>. QED BY <1>1, <1>2, <1>3, FS_Subset, FS_CardinalityType

(* A job that is not idle has read a status and an alert.                  *)
LEMMA JobParts ==
  ASSUME TypeOK, NEW j \in Jobs, IsBusy(j)
  PROVE  /\ job[j] \in JobType
         /\ job[j].status \in ExpiryStatuses /\ job[j].alert \in AlertIds \cup {NoAlert}
         /\ job[j].kind \in Expiring \cup {"none"} /\ job[j].alone \in BOOLEAN
<1>1. job[j] \in JobType
  BY DEF TypeOK, IsBusy
<1>. QED BY <1>1 DEF JobType

(* What a date is classified as.                                           *)
LEMMA StatusParts ==
  ASSUME TypeOK, NEW date \in Int
  PROVE  StatusOf(date) \in ExpiryStatuses
<1> DEFINE days == date - today
<1>1. days \in Int
  BY DEF TypeOK
<1> HIDE DEF days
<1>2. ClassifyExpiry(days) \in ExpiryStatuses
  BY <1>1 DEF ClassifyExpiry, ExpiryStatuses, Expiring
<1>. QED BY <1>2 DEF StatusOf, ExpiryStatuses, days

-----------------------------------------------------------------------------
(* A job begins.  If it is to insert an alert there is none, so it counts  *)
(* as one of the jobs; everybody under way is no longer alone.             *)
LEMMA BeginKeeps ==
  ASSUME Inv, NEW j \in Jobs, NEW new \in CertType, Begin(j, new),
         listing' \in [Jobs -> Nat \cup {Unset}]
  PROVE  Inv'
<1>1. PICK a \in (IF ActiveAlerts = {} THEN {NoAlert} ELSE ActiveAlerts) :
        job' = [i \in Jobs |->
          CASE i = j -> [status |-> new.status, alert |-> a,
                         sets |-> [notAfter |-> {new.notAfter} \ {cert.notAfter},
                                   status |-> {new.status} \ {cert.status}],
                         kind |-> IF a = NoAlert THEN "none" ELSE alerts[a].kind,
                         alone |-> Busy = {}]
            [] i \in Busy -> [job[i] EXCEPT !.alone = FALSE]
            [] OTHER -> job[i]]
  BY DEF Begin
<1>2. ~IsBusy(j) /\ UNCHANGED <<today, issued, cert, alerts, board, raced, misled, hands, manual>>
  BY DEF Begin, IsBusy
<1> DEFINE x == [status |-> new.status, alert |-> a,
                 sets |-> [notAfter |-> {new.notAfter} \ {cert.notAfter},
                           status |-> {new.status} \ {cert.status}],
                 kind |-> IF a = NoAlert THEN "none" ELSE alerts[a].kind,
                 alone |-> Busy = {}]
<1>3. a \in AlertIds \cup {NoAlert} /\ (a # NoAlert => Active(a) /\ a \in ActiveAlerts)
      /\ (a = NoAlert <=> ActiveAlerts = {})
  BY <1>1 DEF ActiveAlerts, AlertIds, NoAlert
<1>4. a # NoAlert => alerts[a] \in AlertType /\ HasRow(a)
  BY <1>3 DEF Active, Inv, TypeOK, NoRow, HasRow, AlertIds, NoAlert
<1>5. x \in JobType /\ x # Idle
  <2>1. [notAfter |-> {new.notAfter} \ {cert.notAfter}, status |-> {new.status} \ {cert.status}]
          \in [notAfter : SUBSET Int, status : SUBSET ExpiryStatuses]
    BY DEF CertType
  <2>2. (IF a = NoAlert THEN "none" ELSE alerts[a].kind) \in Expiring \cup {"none"}
    BY <1>4 DEF AlertType
  <2>3. new.status \in ExpiryStatuses
    BY DEF CertType
  <2>. QED BY <1>3, <2>1, <2>2, <2>3 DEF JobType, Idle
<1>6. job'[j] = x
  <2>1. j \notin Busy
    BY <1>2 DEF Busy, IsBusy
  <2>. QED BY <1>1, <2>1
<1>7. ASSUME NEW i \in Jobs, i # j
      PROVE  /\ job'[i] \in JobType \cup {Idle} /\ (IsBusy(i)' <=> IsBusy(i))
             /\ IsBusy(i) => job'[i].alert = job[i].alert /\ job'[i].alone = FALSE
  <2>1. CASE i \in Busy
    <3>1. job[i] \in JobType /\ job'[i] = [job[i] EXCEPT !.alone = FALSE]
      BY <1>1, <1>7, <2>1, JobParts DEF Busy, IsBusy, Inv
    <3>. QED BY <2>1, <3>1 DEF JobType, IsBusy, Idle, Busy
  <2>2. CASE i \notin Busy
    BY <1>1, <1>7, <2>2 DEF Busy, IsBusy, Inv, TypeOK
  <2>. QED BY <2>1, <2>2
<1> HIDE DEF x
<1>8. IsBusy(j)' /\ job'[j].alert = a /\ job'[j].alone = (Busy = {})
  BY <1>5, <1>6 DEF IsBusy, x
<1>9. TypeOK'
  <2>1. job' \in [Jobs -> JobType \cup {Idle}]
    BY <1>1, <1>5, <1>6, <1>7
  <2>. QED BY <1>2, <2>1 DEF Inv, TypeOK
<1>10. ActiveAlerts' = ActiveAlerts /\ \A b \in AlertIds : Active(b)' = Active(b) /\ HasRow(b)' = HasRow(b)
  BY <1>2 DEF ActiveAlerts, Active, HasRow
<1>11. Referenced'
  BY <1>2, <1>3, <1>4, <1>7, <1>8 DEF Inv, Referenced, HasRow
<1>12. Read'
  <2>1. ASSUME NEW i \in Jobs, IsBusy(i)', job'[i].alone
        PROVE  i = j /\ Busy = {}
    BY <1>7, <1>8, <2>1
  <2>2. Busy = {} => \A i \in Jobs : IsBusy(i)' => i = j
    BY <1>7 DEF Busy, IsBusy
  <2>3. IF a = NoAlert THEN ActiveAlerts' = {} ELSE Active(a)'
    BY <1>3, <1>10
  <2>. QED BY <1>8, <2>1, <2>2, <2>3 DEF Read
<1>13. Single' /\ AlertsAgree'
  BY <1>2, <1>10 DEF Inv, Single, AlertsAgree
<1>14. Budget'
  <2>1. CASE ActiveAlerts = {}
    <3>1. Inserters' \subseteq Jobs /\ Cardinality(ActiveAlerts') = 0
      BY <1>10, <2>1, FS_EmptySet DEF Inserters
    <3>2. Cardinality(Inserters') <= Cardinality(Jobs) /\ Cardinality(Inserters') \in Nat
      BY <3>1, Finite, FS_Subset, FS_CardinalityType
    <3>. QED BY <3>1, <3>2 DEF Budget
  <2>2. CASE ActiveAlerts # {}
    <3>1. Inserters' = Inserters
      BY <1>2, <1>3, <1>7, <1>8, <2>2 DEF Inserters
    <3>. QED BY <1>10, <3>1 DEF Inv, Budget
  <2>. QED BY <2>1, <2>2
<1>. QED BY <1>9, <1>11, <1>12, <1>13, <1>14 DEF Inv

(* A job ends: those still under way overlap it, so they are not alone.    *)
LEMMA EndParts ==
  ASSUME Inv, NEW j \in Jobs, IsBusy(j), job' = [job EXCEPT ![j] = Idle],
         NEW rows \in [AlertIds -> AlertType \cup {NoRow}],
         \A a \in AlertIds : HasRow(a) => rows[a] # NoRow,
         WriteAlerts(j, rows)
  PROVE  /\ alerts' \in [AlertIds -> AlertType \cup {NoRow}]
         /\ job' \in [Jobs -> JobType \cup {Idle}]
         /\ Referenced' /\ Read'
         /\ Inserters' = Inserters \ {j}
         /\ ActiveAlerts' = {a \in AlertIds : rows[a].status = "OPEN"}
<1>1. alerts' = [a \in AlertIds |->
        IF rows[a].status = "RESOLVED" /\ a \notin Referred(Jobs \ {j}) THEN NoRow ELSE rows[a]]
  BY DEF WriteAlerts, Forget
<1>2. alerts' \in [AlertIds -> AlertType \cup {NoRow}]
  BY <1>1
<1>3. ~IsBusy(j)' /\ \A i \in Jobs : i # j => job'[i] = job[i]
  BY DEF Inv, TypeOK, IsBusy
<1>4. job' \in [Jobs -> JobType \cup {Idle}]
  BY DEF Inv, TypeOK
<1>5. ActiveAlerts' = {a \in AlertIds : rows[a].status = "OPEN"}
  BY <1>1 DEF ActiveAlerts, Active, NoRow
<1>6. Inserters' = Inserters \ {j}
  BY <1>3 DEF Inserters, IsBusy
<1>7. Referenced'
  <2> SUFFICES ASSUME NEW i \in Jobs, IsBusy(i)', job'[i].alert # NoAlert
               PROVE  alerts'[job'[i].alert] # NoRow
    BY DEF Referenced, HasRow
  <2>1. i # j /\ job'[i] = job[i] /\ IsBusy(i)
    BY <1>3 DEF IsBusy
  <2>2. PICK a \in AlertIds : a = job[i].alert
    BY <2>1, JobParts DEF Inv
  <2>3. a \in Referred(Jobs \ {j})
    BY <2>1, <2>2 DEF Referred, Busy, IsBusy
  <2>4. alerts'[a] = rows[a] /\ rows[a] # NoRow
    BY <1>1, <2>1, <2>2, <2>3 DEF Inv, Referenced
  <2>. QED BY <2>1, <2>2, <2>4
<1>8. Read'
  BY <1>3, JobParts DEF Inv, Read, IsBusy
<1>. QED BY <1>2, <1>4, <1>5, <1>6, <1>7, <1>8

(* A job writes the columns it changed: what it writes has their types.    *)
LEMMA WriteRowKeepsType ==
  ASSUME TypeOK, NEW j \in Jobs, IsBusy(j), WriteRow(j)
  PROVE  cert' \in CertType
<1>1. /\ job[j].sets.notAfter \in SUBSET Int /\ job[j].sets.status \in SUBSET ExpiryStatuses
  BY JobParts DEF JobType
<1>2. Written(cert.notAfter, job[j].sets.notAfter) \in Int
  BY <1>1 DEF Written, TypeOK, CertType
<1>3. Written(cert.status, job[j].sets.status) \in ExpiryStatuses
  BY <1>1 DEF Written, TypeOK, CertType
<1>4. cert' = [cert EXCEPT !.notAfter = Written(cert.notAfter, job[j].sets.notAfter),
                           !.status = Written(cert.status, job[j].sets.status)]
  BY DEF WriteRow
<1>. QED BY <1>2, <1>3, <1>4 DEF TypeOK, CertType

(* What is left of the budget when a job ends: unless it inserted an alert, *)
(* there are no more alerts than there were.                               *)
LEMMA BudgetKept ==
  ASSUME Inv, NEW j \in Jobs, ActiveAlerts' \subseteq ActiveAlerts,
         Inserters' = Inserters \ {j}
  PROVE  Budget'
<1>1. /\ IsFiniteSet(ActiveAlerts) /\ Cardinality(ActiveAlerts) \in Nat
      /\ IsFiniteSet(Inserters) /\ Cardinality(Inserters) \in Nat /\ Cardinality(Jobs) \in Nat
  BY Finite
<1>2. Cardinality(ActiveAlerts') <= Cardinality(ActiveAlerts) /\ Cardinality(ActiveAlerts') \in Nat
  BY <1>1, FS_Subset, FS_CardinalityType
<1>3. Cardinality(Inserters') <= Cardinality(Inserters) /\ Cardinality(Inserters') \in Nat
  BY <1>1, FS_Subset, FS_CardinalityType
<1>. QED BY <1>1, <1>2, <1>3 DEF Inv, Budget

(* An inserted alert takes the place of the job that was to insert it.     *)
LEMMA OpenAlertKeeps ==
  ASSUME Inv, NEW j \in Jobs, IsBusy(j), job' = [job EXCEPT ![j] = Idle],
         NEW status \in ExpiryStatuses, OpenAlert(j, status)
  PROVE  /\ alerts' \in [AlertIds -> AlertType \cup {NoRow}] /\ board' \subseteq Expiring
         /\ raced' \in BOOLEAN /\ job' \in [Jobs -> JobType \cup {Idle}]
         /\ Budget' /\ Referenced' /\ Read' /\ Single'
         /\ ActiveAlerts' # {} /\ board' # {}
<1>1. PICK a \in AlertIds :
        /\ alerts[a] = NoRow
        /\ WriteAlerts(j, [alerts EXCEPT ![a] = [status |-> "OPEN", kind |-> status]])
  BY DEF OpenAlert
<1>2. /\ status \in Expiring /\ job[j].alert = NoAlert /\ board' = board \cup {status}
      /\ raced' = (raced \/ ~job[j].alone)
  BY DEF OpenAlert, Publish, Disagree
<1> DEFINE rows == [alerts EXCEPT ![a] = [status |-> "OPEN", kind |-> status]]
<1>3. rows \in [AlertIds -> AlertType \cup {NoRow}] /\ rows[a].status = "OPEN"
  BY <1>2 DEF Inv, TypeOK, AlertType
<1>4. \A b \in AlertIds : b # a => rows[b] = alerts[b]
  BY DEF Inv, TypeOK
<1>5. \A b \in AlertIds : HasRow(b) => rows[b] # NoRow
  BY <1>1, <1>4 DEF HasRow
<1>6. WriteAlerts(j, rows)
  BY <1>1
<1> HIDE DEF rows
<1>7. /\ alerts' \in [AlertIds -> AlertType \cup {NoRow}] /\ job' \in [Jobs -> JobType \cup {Idle}]
      /\ Referenced' /\ Read' /\ Inserters' = Inserters \ {j}
      /\ ActiveAlerts' = {b \in AlertIds : rows[b].status = "OPEN"}
  BY <1>3, <1>5, <1>6, EndParts
<1>8. ActiveAlerts' = ActiveAlerts \cup {a} /\ a \notin ActiveAlerts
  BY <1>1, <1>3, <1>4, <1>7 DEF ActiveAlerts, Active, NoRow
<1>9. Budget'
  <2>1. j \in Inserters
    BY <1>2 DEF Inserters
  <2>2. Cardinality(ActiveAlerts') = Cardinality(ActiveAlerts) + 1
    BY <1>8, Finite, FS_AddElement
  <2>3. Cardinality(Inserters') = Cardinality(Inserters) - 1
    BY <1>7, <2>1, Finite, FS_RemoveElement
  <2>. QED BY <2>2, <2>3, Finite DEF Inv, Budget
<1>10. Single'
  <2>1. ~raced' => ActiveAlerts = {}
    BY <1>2 DEF Inv, Read
  <2>. QED BY <1>8, <2>1 DEF Single
<1>11. board' \subseteq Expiring /\ raced' \in BOOLEAN
  BY <1>2, JobParts DEF Inv, TypeOK
<1>. QED BY <1>2, <1>7, <1>8, <1>9, <1>10, <1>11

(* The alert that a job read, and the rows when it changes that one only.  *)
LEMMA AlertOf ==
  ASSUME Inv, NEW j \in Jobs, IsBusy(j), job[j].alert # NoAlert
  PROVE  /\ job[j].alert \in AlertIds /\ alerts[job[j].alert] \in AlertType
         /\ j \notin Inserters
<1>1. job[j].alert \in AlertIds
  BY JobParts DEF Inv
<1>2. alerts[job[j].alert] # NoRow
  BY DEF Inv, Referenced, HasRow
<1>. QED BY <1>1, <1>2 DEF Inv, TypeOK, Inserters

(* A changed kind leaves the same alerts active.                           *)
LEMMA ChangeKindKeeps ==
  ASSUME Inv, NEW j \in Jobs, IsBusy(j), job' = [job EXCEPT ![j] = Idle],
         NEW status \in ExpiryStatuses, ChangeKind(j, status), UNCHANGED manual
  PROVE  /\ alerts' \in [AlertIds -> AlertType \cup {NoRow}] /\ board' \subseteq Expiring
         /\ raced' \in BOOLEAN /\ job' \in [Jobs -> JobType \cup {Idle}]
         /\ Budget' /\ Referenced' /\ Read' /\ Single' /\ AlertsAgree'
<1>1. PICK a \in AlertIds : a = job[j].alert /\ alerts[a] \in AlertType
  BY AlertOf DEF ChangeKind
<1> DEFINE rows == [alerts EXCEPT ![a].kind = status]
<1>2. /\ status \in Expiring /\ a # NoAlert /\ WriteAlerts(j, rows)
      /\ board' \in {board, board \cup {status}}
      /\ raced' = (raced \/ ~job[j].alone)
  BY <1>1 DEF ChangeKind, Publish, Disagree
<1>3. rows \in [AlertIds -> AlertType \cup {NoRow}] /\ rows[a] \in AlertType
      /\ rows[a].status = alerts[a].status
  BY <1>1, <1>2 DEF Inv, TypeOK, AlertType
<1>4. \A b \in AlertIds : b # a => rows[b] = alerts[b]
  BY DEF Inv, TypeOK
<1>5. \A b \in AlertIds : HasRow(b) => rows[b] # NoRow
  BY <1>3, <1>4 DEF HasRow, AlertType, NoRow
<1> HIDE DEF rows
<1>6. /\ alerts' \in [AlertIds -> AlertType \cup {NoRow}] /\ job' \in [Jobs -> JobType \cup {Idle}]
      /\ Referenced' /\ Read' /\ Inserters' = Inserters \ {j}
      /\ ActiveAlerts' = {b \in AlertIds : rows[b].status = "OPEN"}
  BY <1>2, <1>3, <1>5, EndParts
<1>7. ActiveAlerts' = ActiveAlerts
  BY <1>3, <1>4, <1>6 DEF ActiveAlerts, Active
<1>8. Budget'
  BY <1>6, <1>7, BudgetKept
<1>9. Single'
  BY <1>2, <1>7 DEF Inv, Single
<1>10. AlertsAgree'
  <2>1. ~raced' => a \in ActiveAlerts
    BY <1>1, <1>2 DEF Inv, Read, ActiveAlerts
  <2>2. ~manual /\ ActiveAlerts # {} => raced \/ board # {}
    BY DEF Inv, AlertsAgree
  <2>. QED BY <1>2, <1>7, <2>1, <2>2 DEF AlertsAgree
<1>11. board' \subseteq Expiring /\ raced' \in BOOLEAN
  BY <1>2, JobParts DEF Inv, TypeOK
<1>. QED BY <1>6, <1>8, <1>9, <1>10, <1>11

(* The resolved alert was the only one, unless writers raced.              *)
LEMMA ResolveAlertKeeps ==
  ASSUME Inv, NEW j \in Jobs, IsBusy(j), job' = [job EXCEPT ![j] = Idle],
         NEW status \in ExpiryStatuses, ResolveAlert(j, status)
  PROVE  /\ alerts' \in [AlertIds -> AlertType \cup {NoRow}] /\ board' \subseteq Expiring
         /\ raced' \in BOOLEAN /\ job' \in [Jobs -> JobType \cup {Idle}]
         /\ Budget' /\ Referenced' /\ Read' /\ Single' /\ AlertsAgree'
<1>1. PICK a \in AlertIds : a = job[j].alert /\ alerts[a] \in AlertType
  BY AlertOf DEF ResolveAlert
<1> DEFINE rows == [alerts EXCEPT ![a].status = "RESOLVED"]
<1>2. /\ a # NoAlert /\ WriteAlerts(j, rows) /\ board' = {}
      /\ raced' = (raced \/ ~job[j].alone)
  BY <1>1 DEF ResolveAlert, Disagree
<1>3. rows \in [AlertIds -> AlertType \cup {NoRow}] /\ rows[a] \in AlertType
      /\ rows[a].status = "RESOLVED"
  BY <1>1 DEF Inv, TypeOK, AlertType
<1>4. \A b \in AlertIds : b # a => rows[b] = alerts[b]
  BY DEF Inv, TypeOK
<1>5. \A b \in AlertIds : HasRow(b) => rows[b] # NoRow
  BY <1>3, <1>4 DEF HasRow, AlertType, NoRow
<1> HIDE DEF rows
<1>6. /\ alerts' \in [AlertIds -> AlertType \cup {NoRow}] /\ job' \in [Jobs -> JobType \cup {Idle}]
      /\ Referenced' /\ Read' /\ Inserters' = Inserters \ {j}
      /\ ActiveAlerts' = {b \in AlertIds : rows[b].status = "OPEN"}
  BY <1>2, <1>3, <1>5, EndParts
<1>7. ActiveAlerts' = ActiveAlerts \ {a}
  BY <1>3, <1>4, <1>6 DEF ActiveAlerts, Active
<1>8. Budget'
  BY <1>6, <1>7, BudgetKept
<1>9. Single'
  BY <1>2, <1>7 DEF Inv, Single
<1>10. AlertsAgree'
  <2>1. ~raced' => a \in ActiveAlerts /\ \A b \in ActiveAlerts : b = a
    BY <1>1, <1>2 DEF Inv, Read, Single, ActiveAlerts
  <2>. QED BY <1>2, <1>7, <2>1 DEF AlertsAgree
<1>11. board' \subseteq Expiring /\ raced' \in BOOLEAN
  BY <1>2, JobParts DEF Inv, TypeOK
<1>. QED BY <1>6, <1>8, <1>9, <1>10, <1>11

(* A job that leaves the alerts as they are, or that is rolled back.       *)
LEMMA NothingWritten ==
  ASSUME Inv, NEW j \in Jobs, IsBusy(j), job' = [job EXCEPT ![j] = Idle],
         WriteAlerts(j, alerts), UNCHANGED <<board, raced, manual>>
  PROVE  /\ alerts' \in [AlertIds -> AlertType \cup {NoRow}]
         /\ job' \in [Jobs -> JobType \cup {Idle}]
         /\ Budget' /\ Referenced' /\ Read' /\ Single' /\ AlertsAgree'
<1>1. alerts \in [AlertIds -> AlertType \cup {NoRow}]
  BY DEF Inv, TypeOK
<1>2. /\ alerts' \in [AlertIds -> AlertType \cup {NoRow}] /\ job' \in [Jobs -> JobType \cup {Idle}]
      /\ Referenced' /\ Read' /\ Inserters' = Inserters \ {j}
      /\ ActiveAlerts' = {b \in AlertIds : alerts[b].status = "OPEN"}
  BY <1>1, EndParts DEF HasRow
<1>3. ActiveAlerts' = ActiveAlerts
  BY <1>2 DEF ActiveAlerts, Active
<1>4. Budget'
  BY <1>2, <1>3, BudgetKept
<1>5. Single' /\ AlertsAgree'
  BY <1>3 DEF Inv, Single, AlertsAgree
<1>. QED BY <1>2, <1>4, <1>5

(* A job commits.                                                          *)
LEMMA CommitKeeps ==
  ASSUME Inv, NEW j \in Jobs, Commit(j)
  PROVE  Inv'
<1>1. /\ IsBusy(j) /\ job' = [job EXCEPT ![j] = Idle] /\ WriteRow(j)
      /\ Mislead /\ UNCHANGED <<today, issued, listing, hands, manual>>
  BY DEF Commit, IsBusy
<1>2. PICK status \in ExpiryStatuses :
        \/ OpenAlert(j, status) \/ ChangeKind(j, status)
        \/ ResolveAlert(j, status) \/ KeepAlert(j, status)
  BY <1>1, JobParts DEF Commit, Inv
<1>3. cert' \in CertType
  BY <1>1, WriteRowKeepsType DEF Inv
<1>4. /\ alerts' \in [AlertIds -> AlertType \cup {NoRow}] /\ board' \subseteq Expiring
      /\ raced' \in BOOLEAN /\ job' \in [Jobs -> JobType \cup {Idle}]
      /\ Budget' /\ Referenced' /\ Read' /\ Single' /\ AlertsAgree'
  <2>1. CASE OpenAlert(j, status)
    BY <1>1, <2>1, OpenAlertKeeps DEF AlertsAgree
  <2>2. CASE ChangeKind(j, status)
    BY <1>1, <2>2, ChangeKindKeeps
  <2>3. CASE ResolveAlert(j, status)
    BY <1>1, <2>3, ResolveAlertKeeps
  <2>4. CASE KeepAlert(j, status)
    <3>1. WriteAlerts(j, alerts) /\ UNCHANGED <<board, raced>>
      BY <2>4 DEF KeepAlert
    <3>. QED BY <1>1, <3>1, NothingWritten DEF Inv, TypeOK
  <2>. QED BY <1>2, <2>1, <2>2, <2>3, <2>4
<1>5. misled' \in BOOLEAN
  BY <1>1 DEF Mislead, Inv, TypeOK
<1>6. TypeOK'
  BY <1>1, <1>3, <1>4, <1>5 DEF Inv, TypeOK
<1>. QED BY <1>4, <1>6 DEF Inv

(* A job is rolled back.                                                   *)
LEMMA RollbackKeeps ==
  ASSUME Inv, NEW j \in Jobs, Rollback(j)
  PROVE  Inv'
<1>1. /\ IsBusy(j) /\ job' = [job EXCEPT ![j] = Idle] /\ WriteAlerts(j, alerts)
      /\ UNCHANGED <<today, issued, cert, board, listing, raced, misled, hands, manual>>
  BY DEF Rollback, IsBusy
<1>2. /\ alerts' \in [AlertIds -> AlertType \cup {NoRow}]
      /\ job' \in [Jobs -> JobType \cup {Idle}]
      /\ Budget' /\ Referenced' /\ Read' /\ Single' /\ AlertsAgree'
  BY <1>1, NothingWritten
<1>3. TypeOK'
  BY <1>1, <1>2 DEF Inv, TypeOK
<1>. QED BY <1>2, <1>3 DEF Inv

-----------------------------------------------------------------------------
(* Steps that leave the alerts and the jobs alone.                         *)
LEMMA ElsewhereKeeps ==
  ASSUME Inv, UNCHANGED <<cert, alerts, job, raced>>, TypeOK', AlertsAgree'
  PROVE  Inv'
<1>1. ActiveAlerts' = ActiveAlerts /\ Inserters' = Inserters
      /\ \A b \in AlertIds : Active(b)' = Active(b)
  BY DEF ActiveAlerts, Active, Inserters, IsBusy
<1>2. Budget' /\ Single' /\ Referenced'
  BY <1>1 DEF Inv, Budget, Single, Referenced, IsBusy, HasRow
<1>3. Read'
  BY <1>1 DEF Inv, Read, IsBusy, Active
<1>. QED BY <1>2, <1>3 DEF Inv

(* A listing, the days that pass, a renewal and an operator at the unified *)
(* alerts.                                                                 *)
LEMMA WorldKeeps ==
  ASSUME Inv,
         \/ Renew \/ Pass \/ \E kind \in Expiring : ResolveOnBoard(kind)
         \/ \E j \in Jobs : List(j) \/ ListingFails(j)
  PROVE  Inv'
<1>1. UNCHANGED <<cert, alerts, job, raced>>
  BY DEF Renew, Pass, ResolveOnBoard, List, ListingFails
<1>2. ActiveAlerts' = ActiveAlerts
  BY <1>1 DEF ActiveAlerts, Active
<1>3. CASE Renew
  <2>1. TypeOK'
    BY <1>3, CertificateAssumption DEF Renew, Inv, TypeOK
  <2>2. AlertsAgree'
    BY <1>2, <1>3 DEF Renew, Inv, AlertsAgree
  <2>. QED BY <1>1, <2>1, <2>2, ElsewhereKeeps
<1>4. CASE Pass
  <2>1. TypeOK'
    BY <1>4, CertificateAssumption DEF Pass, Inv, TypeOK
  <2>2. AlertsAgree'
    BY <1>2, <1>4 DEF Pass, Inv, AlertsAgree
  <2>. QED BY <1>1, <2>1, <2>2, ElsewhereKeeps
<1>5. CASE \E kind \in Expiring : ResolveOnBoard(kind)
  <2>1. PICK kind \in Expiring : ResolveOnBoard(kind)
    BY <1>5
  <2>2. TypeOK'
    BY <2>1, CertificateAssumption DEF ResolveOnBoard, Hand, Inv, TypeOK
  <2>3. AlertsAgree'
    BY <1>2, <2>1 DEF ResolveOnBoard, Inv, AlertsAgree
  <2>. QED BY <1>1, <2>2, <2>3, ElsewhereKeeps
<1>6. CASE \E j \in Jobs : List(j) \/ ListingFails(j)
  <2>1. listing' \in [Jobs -> Nat \cup {Unset}]
    BY <1>6, CertificateAssumption DEF List, ListingFails, Inv, TypeOK
  <2>2. UNCHANGED <<today, issued, cert, alerts, board, job, raced, misled, hands, manual>>
    BY <1>6 DEF List, ListingFails
  <2>3. TypeOK'
    BY <2>1, <2>2 DEF Inv, TypeOK
  <2>4. AlertsAgree'
    BY <1>2, <2>2 DEF Inv, AlertsAgree
  <2>. QED BY <1>1, <2>3, <2>4, ElsewhereKeeps
<1>. QED BY <1>3, <1>4, <1>5, <1>6

(* What a job makes of the row it read is a row.                           *)
LEMMA DatedParts ==
  ASSUME TypeOK, NEW date \in Int
  PROVE  Dated(cert, date) \in CertType
<1>1. StatusOf(date) \in ExpiryStatuses
  BY StatusParts
<1>. QED BY <1>1 DEF Dated, TypeOK, CertType

(* The jobs that begin.                                                    *)
Begins(j) ==
  \/ ExpiryScan(j) \/ AlertEvaluation(j) \/ Discovery(j)
  \/ \E success \in BOOLEAN : Probe(j, success)
  \/ \E date \in Presents : Validate(j, date)

(* What a host presents has a date.                                        *)
LEMMA PresentsDates ==
  ASSUME TypeOK
  PROVE  Presents \subseteq Nat
<1>1. issued \in 1..Len(Expiry) /\ \A k \in 1..Len(Expiry) : Expiry[k] \in Nat
  BY CertificateAssumption DEF TypeOK
<1>2. \A k \in 1..issued : Expiry[k] \in Nat
  BY <1>1
<1>. QED BY <1>1, <1>2, CertificateAssumption DEF Presents

LEMMA JobsBegin ==
  ASSUME Inv, NEW j \in Jobs, Begins(j)
  PROVE  Inv'
<1>1. cert \in CertType /\ cert.notAfter \in Int /\ Expiry[issued] \in Int /\ Unset \in Int
  BY CertificateAssumption DEF Inv, TypeOK, CertType, Unset
<1>2. \A date \in Int : Dated(cert, date) \in CertType
  BY DatedParts DEF Inv
<1>3. listing[j] \in Int /\ Presents \subseteq Int
  BY PresentsDates DEF Inv, TypeOK, Unset
<1>4. listing' \in [Jobs -> Nat \cup {Unset}]
  BY DEF Begins, ExpiryScan, AlertEvaluation, Discovery, Probe, Validate, Inv, TypeOK
<1>5. \E new \in CertType : Begin(j, new)
  BY <1>1, <1>2, <1>3 DEF Begins, ExpiryScan, AlertEvaluation, Discovery, Probe, Validate
<1>. QED BY <1>4, <1>5, BeginKeeps

-----------------------------------------------------------------------------
(* Initially there are no alerts and no jobs.                              *)
LEMMA InitInv == Init => Inv
<1> SUFFICES ASSUME Init PROVE Inv
  OBVIOUS
<1>1. Expiry[1] \in Nat /\ 1 \in DOMAIN Expiry
  BY CertificateAssumption
<1>2. ClassifyExpiry(Expiry[1]) \in ExpiryStatuses
  BY <1>1 DEF ClassifyExpiry, ExpiryStatuses, Expiring
<1>3. TypeOK
  <2>1. cert \in CertType
    BY <1>1, <1>2, CertificateAssumption DEF Init, CertType
  <2>2. /\ alerts \in [AlertIds -> AlertType \cup {NoRow}] /\ job \in [Jobs -> JobType \cup {Idle}]
        /\ listing \in [Jobs -> Nat \cup {Unset}]
    BY DEF Init
  <2>3. 0 \in 0..MaxHands /\ 0 \in Nat
    BY CertificateAssumption
  <2>4. today \in Nat /\ issued \in DOMAIN Expiry /\ hands \in 0..MaxHands
    BY <1>1, <2>3 DEF Init
  <2>5. board \subseteq Expiring /\ raced \in BOOLEAN /\ misled \in BOOLEAN /\ manual \in BOOLEAN
    BY DEF Init
  <2>. QED BY <2>1, <2>2, <2>4, <2>5 DEF TypeOK
<1>4. ActiveAlerts = {} /\ \A j \in Jobs : ~IsBusy(j)
  BY DEF Init, ActiveAlerts, Active, NoRow, IsBusy
<1>5. Budget
  <2>1. Inserters = {} /\ Cardinality({}) = 0 /\ Cardinality(Jobs) \in Nat
    BY <1>4, Finite, FS_EmptySet DEF Inserters
  <2>. QED BY <1>4, <2>1 DEF Budget
<1>. QED BY <1>3, <1>4, <1>5 DEF Inv, Referenced, Read, Single, AlertsAgree, Init

(* Every step keeps the invariant.                                         *)
LEMMA NextInv == Inv /\ [Next]_vars => Inv'
<1> SUFFICES ASSUME Inv, [Next]_vars PROVE Inv'
  OBVIOUS
<1>1. CASE UNCHANGED vars
  <2>1. TypeOK' /\ UNCHANGED <<cert, alerts, job, raced>>
    BY <1>1 DEF vars, Inv, TypeOK
  <2>2. AlertsAgree'
    BY <1>1 DEF vars, Inv, AlertsAgree, ActiveAlerts, Active
  <2>. QED BY <2>1, <2>2, ElsewhereKeeps
<1>2. ASSUME NEW j \in Jobs, Begins(j)
      PROVE  Inv'
  BY <1>2, JobsBegin
<1>3. CASE \E j \in Jobs : List(j) \/ ListingFails(j)
  BY <1>3, WorldKeeps
<1>4. ASSUME NEW j \in Jobs, Commit(j) \/ Rollback(j)
      PROVE  Inv'
  BY <1>4, CommitKeeps, RollbackKeeps
<1>5. CASE Renew \/ Pass \/ \E kind \in Expiring : ResolveOnBoard(kind)
  BY <1>5, WorldKeeps
<1>. QED BY <1>1, <1>2, <1>3, <1>4, <1>5 DEF Next, Begins

(* The inductive invariant holds in every state.                           *)
LEMMA InvHolds == Spec => []Inv
<1>1. Inv /\ [Next]_vars => Inv'
  BY NextInv
<1>. QED BY <1>1, InitInv, PTL DEF Spec

-----------------------------------------------------------------------------
(* The certificate's row, its alerts and what jobs read have their types   *)
(* in every state.                                                         *)
THEOREM TypeCorrect == Spec => []TypeOK
<1>1. Inv => TypeOK
  BY DEF Inv
<1>. QED BY <1>1, InvHolds, PTL

(* However jobs overlap, a certificate never has more active alerts than   *)
(* jobs that can run at one time.                                          *)
THEOREM AlertsWithinBudget == Spec => []AlertsPerWriter
<1>1. Inv => AlertsPerWriter
  BY Finite DEF Inv, Budget, AlertsPerWriter
<1>. QED BY <1>1, InvHolds, PTL

(* The unified alerts of a certificate agree with its own alert unless     *)
(* overlapping jobs wrote, or an operator resolved one.                    *)
THEOREM UnifiedAlertsAgree == Spec => []AlertsAgree
<1>1. Inv => AlertsAgree
  BY DEF Inv
<1>. QED BY <1>1, InvHolds, PTL

-----------------------------------------------------------------------------
(* The first certificate, while its row has had no other date.             *)
(* EndsByRenewal is not inductive: what a job is about to write was read   *)
(* before.  As days pass, what was due stays due, and so does every class  *)
(* of the certificate's date that is still in a row, in a listing or in a  *)
(* job's hands.  A job with another date in its hands will mislead the     *)
(* row, and nothing is asked of it.                                        *)

First == issued = 1 /\ ~misled

Due(status) == status \in Expiring
IsDue == Due(ClassifyExpiry(Expiry[1] - today))

(* The class was that of the first expiry date, today or earlier.          *)
Dates(status) == status \in Expiring \cup {"HEALTHY"} /\ (Due(status) => IsDue)

FaithfulJob(j) ==
  /\ Dates(job[j].status)
  /\ job[j].sets.status = {} \/ (job[j].sets.status = {job[j].status} /\ Due(job[j].status))
  /\ Due(job[j].status) => Due(cert.status) \/ job[j].sets.status # {}
  /\ job[j].alert # NoAlert => Due(job[j].status)

(* What it writes would be none of the certificate's dates.                *)
Strange(j) == job[j].sets.notAfter # {} /\ Expiry[1] \notin job[j].sets.notAfter

Faithful ==
  First =>
    /\ cert.notAfter = Expiry[1]
    /\ Dates(cert.status)
    /\ ActiveAlerts # {} => Due(cert.status)
    /\ \A j \in Jobs : listing[j] \in {Unset, Expiry[1]}
    /\ \A j \in Jobs : IsBusy(j) => Strange(j) \/ (job[j].sets.notAfter = {} /\ FaithfulJob(j))

(* Days only bring the end nearer.                                         *)
LEMMA DueStaysDue ==
  ASSUME NEW d \in Int, NEW e \in Int, e <= d, Due(ClassifyExpiry(d))
  PROVE  Due(ClassifyExpiry(e))
BY DEF Due, ClassifyExpiry, Expiring

(* A date is due or healthy.                                               *)
LEMMA DueOrHealthy ==
  ASSUME NEW d \in Int
  PROVE  ClassifyExpiry(d) \in Expiring \cup {"HEALTHY"}
BY DEF ClassifyExpiry, Expiring

(* The row and the date that a job makes of it.                            *)
LEMMA FaithfulDates ==
  ASSUME Inv, Faithful, First
  PROVE  /\ Dates(StatusOf(Expiry[1])) /\ cert.notAfter = Expiry[1] /\ Dates(cert.status)
         /\ Due(cert.status) => Due(StatusOf(Expiry[1]))
<1>1. Expiry[1] \in Nat /\ today \in Nat /\ Expiry[1] # Unset
  BY CertificateAssumption DEF Inv, TypeOK, Unset
<1>. DEFINE days == Expiry[1] - today
<1>2. days \in Int /\ StatusOf(Expiry[1]) = ClassifyExpiry(days)
  BY <1>1 DEF StatusOf
<1>. HIDE DEF days
<1>3. ClassifyExpiry(days) \in Expiring \cup {"HEALTHY"}
  BY <1>2, DueOrHealthy
<1>4. IsDue <=> Due(ClassifyExpiry(days))
  BY DEF IsDue, days
<1>. QED BY <1>2, <1>3, <1>4 DEF Faithful, Dates

(* What was due is due, so a job writes a class it can answer for, or a    *)
(* strange date.                                                           *)
LEMMA BeginFaithful ==
  ASSUME Inv, Faithful, First, NEW j \in Jobs, NEW new \in CertType, Begin(j, new),
         new \in {cert, Dated(cert, Expiry[1])} \/ new.notAfter # Expiry[1],
         \A i \in Jobs : listing'[i] \in {Unset, Expiry[1]}
  PROVE  Faithful'
<1>1. PICK a \in (IF ActiveAlerts = {} THEN {NoAlert} ELSE ActiveAlerts) :
        job' = [i \in Jobs |->
          CASE i = j -> [status |-> new.status, alert |-> a,
                         sets |-> [notAfter |-> {new.notAfter} \ {cert.notAfter},
                                   status |-> {new.status} \ {cert.status}],
                         kind |-> IF a = NoAlert THEN "none" ELSE alerts[a].kind,
                         alone |-> Busy = {}]
            [] i \in Busy -> [job[i] EXCEPT !.alone = FALSE]
            [] OTHER -> job[i]]
  BY DEF Begin
<1>2. ~IsBusy(j) /\ UNCHANGED <<today, issued, cert, alerts, board, raced, misled, hands, manual>>
  BY DEF Begin, IsBusy
<1>3. new \in {cert, Dated(cert, Expiry[1])} =>
        /\ Dates(new.status) /\ new.notAfter = cert.notAfter
        /\ Due(cert.status) => Due(new.status)
        /\ new.status = cert.status \/ new.status = StatusOf(Expiry[1])
  BY FaithfulDates DEF Dated, Inv, TypeOK, CertType
<1>4. a # NoAlert => Due(cert.status)
  BY <1>1 DEF Faithful
<1>5. /\ job'[j].status = new.status /\ job'[j].alert = a
      /\ job'[j].sets.notAfter = {new.notAfter} \ {cert.notAfter}
      /\ job'[j].sets.status = {new.status} \ {cert.status}
  <2>1. j \notin Busy
    BY <1>2 DEF Busy, IsBusy
  <2>. QED BY <1>1, <2>1
<1>6. ASSUME new \in {cert, Dated(cert, Expiry[1])}
      PROVE  job'[j].sets.notAfter = {} /\ FaithfulJob(j)'
  <2>1. new.status # cert.status => Due(new.status)
    BY <1>3, <1>6, FaithfulDates DEF Dates, Due
  <2>2. Dates(new.status)'
    BY <1>2, <1>3, <1>6 DEF Dates, IsDue, Due
  <2>3. job'[j].sets.status = {} \/ (job'[j].sets.status = {new.status} /\ Due(new.status))
    BY <1>5, <2>1
  <2>4. Due(new.status) => Due(cert.status) \/ job'[j].sets.status # {}
    BY <1>5
  <2>5. FaithfulJob(j)'
    BY <1>2, <1>3, <1>4, <1>5, <1>6, <2>2, <2>3, <2>4 DEF FaithfulJob, Due
  <2>. QED BY <1>3, <1>5, <1>6, <2>5
<1>7. ASSUME new.notAfter # Expiry[1]
      PROVE  Strange(j)'
  BY <1>5, <1>7, FaithfulDates DEF Strange
<1>8. ASSUME NEW i \in Jobs, i # j, IsBusy(i)'
      PROVE  Strange(i)' \/ (job'[i].sets.notAfter = {} /\ FaithfulJob(i)')
  <2>1. i \in Busy
    BY <1>1, <1>8 DEF Busy, IsBusy
  <2>2. job'[i] = [job[i] EXCEPT !.alone = FALSE] /\ job[i] \in JobType
    BY <1>1, <1>8, <2>1, JobParts DEF Inv, Busy, IsBusy
  <2>3. /\ job'[i].status = job[i].status /\ job'[i].alert = job[i].alert
        /\ job'[i].sets = job[i].sets
    BY <2>2 DEF JobType
  <2>4. Strange(i) \/ (job[i].sets.notAfter = {} /\ FaithfulJob(i))
    BY <2>1 DEF Faithful, Busy, IsBusy
  <2>. QED BY <1>2, <2>3, <2>4 DEF Strange, FaithfulJob, Dates, Due, IsDue
<1>9. ActiveAlerts' = ActiveAlerts /\ Dates(cert.status)'
  BY <1>2, FaithfulDates DEF ActiveAlerts, Active, Dates, Due, IsDue
<1>10. Strange(j)' \/ (job'[j].sets.notAfter = {} /\ FaithfulJob(j)')
  BY <1>6, <1>7
<1>. QED BY <1>2, <1>8, <1>9, <1>10 DEF Faithful, Due

(* Every job reads the row, a listing, or what a host presents.            *)
LEMMA JobsBeginFaithfully ==
  ASSUME Inv, Faithful, NEW j \in Jobs, Begins(j)
  PROVE  Faithful'
<1>1. UNCHANGED <<cert, issued, misled>>
  BY DEF Begins, ExpiryScan, AlertEvaluation, Discovery, Probe, Validate, Begin
<1>2. CASE ~First
  BY <1>1, <1>2 DEF Faithful, First
<1>3. CASE First
  <2>1. /\ cert \in CertType /\ Expiry[1] \in Nat /\ Unset \in Int /\ Expiry[1] # Unset
        /\ cert.notAfter = Expiry[1] /\ issued = 1
    BY <1>3, CertificateAssumption DEF First, Faithful, Inv, TypeOK, Unset
  <2>2. \A date \in Int : Dated(cert, date) \in CertType /\ Dated(cert, date).notAfter = date
    BY <2>1, DatedParts DEF Inv, Dated, CertType
  <2>3. Presents \subseteq Int
    BY PresentsDates DEF Inv
  <2>4. /\ listing[j] \in {Unset, Expiry[1]}
        /\ \A i \in Jobs : listing'[i] \in {Unset, Expiry[1]}
    BY <1>3 DEF Begins, ExpiryScan, AlertEvaluation, Discovery, Probe, Validate, Faithful, Inv, TypeOK
  <2>5. \/ Begin(j, cert)
        \/ \E date \in Int : Begin(j, Dated(cert, date))
    BY <2>1, <2>3, <2>4 DEF Begins, ExpiryScan, AlertEvaluation, Discovery, Probe, Validate
  <2>6. PICK new \in CertType : /\ Begin(j, new)
                                /\ new \in {cert, Dated(cert, Expiry[1])} \/ new.notAfter # Expiry[1]
    <3>1. CASE Begin(j, cert)
      BY <2>1, <3>1
    <3>2. CASE \E date \in Int : Begin(j, Dated(cert, date))
      BY <2>2, <3>2
    <3>. QED BY <2>5, <3>1, <3>2
  <2>. QED BY <1>3, <2>4, <2>6, BeginFaithful
<1>. QED BY <1>2, <1>3

(* A commit that has found an alert and does not resolve it leaves all     *)
(* alerts active, and activates none unless the class is due.              *)
LEMMA CommitKeepsAlerts ==
  ASSUME Inv, NEW j \in Jobs, Commit(j), job[j].alert # NoAlert => Due(job[j].status)
  PROVE  /\ ActiveAlerts \subseteq ActiveAlerts'
         /\ Due(job[j].status) \/ ActiveAlerts' = ActiveAlerts
<1>. DEFINE status == job[j].status
<1>1. IsBusy(j) /\ job' = [job EXCEPT ![j] = Idle] /\ status \in ExpiryStatuses
  BY JobParts DEF Commit, IsBusy, Inv
<1>2. OpenAlert(j, status) \/ ChangeKind(j, status) \/ KeepAlert(j, status)
  BY DEF Commit, ResolveAlert, Due
<1>. HIDE DEF status
<1>3. CASE OpenAlert(j, status)
  <2>1. PICK a \in AlertIds :
          /\ alerts[a] = NoRow
          /\ WriteAlerts(j, [alerts EXCEPT ![a] = [status |-> "OPEN", kind |-> status]])
    BY <1>3 DEF OpenAlert
  <2>. DEFINE rows == [alerts EXCEPT ![a] = [status |-> "OPEN", kind |-> status]]
  <2>2. rows \in [AlertIds -> AlertType \cup {NoRow}] /\ \A b \in AlertIds : b # a => rows[b] = alerts[b]
    BY <1>3 DEF Inv, TypeOK, AlertType, OpenAlert
  <2>3. \A b \in AlertIds : HasRow(b) => rows[b] # NoRow
    BY <2>1, <2>2 DEF HasRow
  <2>4. WriteAlerts(j, rows)
    BY <2>1
  <2>. HIDE DEF rows
  <2>5. ActiveAlerts' = {b \in AlertIds : rows[b].status = "OPEN"}
    BY <1>1, <2>2, <2>3, <2>4, EndParts
  <2>6. ActiveAlerts \subseteq ActiveAlerts'
    BY <2>1, <2>2, <2>5 DEF ActiveAlerts, Active, NoRow
  <2>. QED BY <1>3, <2>6 DEF OpenAlert, Due, status
<1>4. CASE ChangeKind(j, status)
  <2>1. PICK a \in AlertIds : a = job[j].alert /\ alerts[a] \in AlertType
    BY <1>1, <1>4, AlertOf DEF ChangeKind
  <2>. DEFINE rows == [alerts EXCEPT ![a].kind = status]
  <2>2. status \in Expiring /\ WriteAlerts(j, rows)
    BY <1>4, <2>1 DEF ChangeKind
  <2>3. /\ rows \in [AlertIds -> AlertType \cup {NoRow}] /\ rows[a] \in AlertType
        /\ \A b \in AlertIds : b # a => rows[b] = alerts[b]
        /\ rows[a].status = alerts[a].status
    BY <2>1, <2>2 DEF Inv, TypeOK, AlertType
  <2>4. \A b \in AlertIds : HasRow(b) => rows[b] # NoRow
    BY <2>3 DEF HasRow, AlertType, NoRow
  <2>. HIDE DEF rows
  <2>5. ActiveAlerts' = {b \in AlertIds : rows[b].status = "OPEN"}
    BY <1>1, <2>2, <2>3, <2>4, EndParts
  <2>6. ActiveAlerts' = ActiveAlerts
    BY <2>3, <2>5 DEF ActiveAlerts, Active
  <2>. QED BY <2>6
<1>5. CASE KeepAlert(j, status)
  <2>1. WriteAlerts(j, alerts) /\ alerts \in [AlertIds -> AlertType \cup {NoRow}]
    BY <1>5 DEF KeepAlert, Inv, TypeOK
  <2>2. ActiveAlerts' = {b \in AlertIds : alerts[b].status = "OPEN"}
    BY <1>1, <2>1, EndParts DEF HasRow
  <2>. QED BY <2>2 DEF ActiveAlerts, Active
<1>. QED BY <1>2, <1>3, <1>4, <1>5

(* A rollback leaves all alerts as they are.                               *)
LEMMA RollbackKeepsAlerts ==
  ASSUME Inv, NEW j \in Jobs, Rollback(j)
  PROVE  ActiveAlerts' = ActiveAlerts
<1>1. /\ IsBusy(j) /\ job' = [job EXCEPT ![j] = Idle] /\ WriteAlerts(j, alerts)
      /\ alerts \in [AlertIds -> AlertType \cup {NoRow}]
  BY DEF Rollback, IsBusy, Inv, TypeOK
<1>2. ActiveAlerts' = {b \in AlertIds : alerts[b].status = "OPEN"}
  BY <1>1, EndParts DEF HasRow
<1>. QED BY <1>2 DEF ActiveAlerts, Active

(* A strange date in the row misleads.                                     *)
LEMMA StrangeMisleads ==
  ASSUME Inv, First, NEW j \in Jobs, IsBusy(j), Strange(j), WriteRow(j), Mislead
  PROVE  misled'
<1>1. cert'.notAfter = Written(cert.notAfter, job[j].sets.notAfter)
  BY DEF WriteRow, Inv, TypeOK, CertType
<1>2. cert'.notAfter \in job[j].sets.notAfter
  BY <1>1 DEF Written, Strange
<1>3. 1..issued = {1}
  BY DEF First
<1>. QED BY <1>2, <1>3 DEF Mislead, Strange

(* What a job writes into the row, under the invariant.                    *)
LEMMA WrittenFaithfully ==
  ASSUME Inv, Faithful, First, NEW j \in Jobs, IsBusy(j), ~Strange(j), WriteRow(j)
  PROVE  /\ cert'.notAfter = cert.notAfter /\ cert'.source = cert.source
         /\ Dates(cert'.status)
         /\ Due(cert.status) \/ Due(job[j].status) => Due(cert'.status)
<1>1. FaithfulJob(j) /\ job[j].sets.notAfter = {} /\ Dates(cert.status)
  BY DEF Faithful
<1>2. Written(cert.notAfter, job[j].sets.notAfter) = cert.notAfter
  BY <1>1 DEF Written
<1>. DEFINE w == Written(cert.status, job[j].sets.status)
<1>3. /\ cert'.notAfter = Written(cert.notAfter, job[j].sets.notAfter)
      /\ cert'.source = cert.source /\ cert'.status = w
  BY DEF WriteRow, Inv, TypeOK, CertType
<1>4. /\ Dates(w)
      /\ Due(cert.status) \/ Due(job[j].status) => Due(w)
  <2>1. CASE job[j].sets.status = {}
    BY <1>1, <2>1 DEF FaithfulJob, Written
  <2>2. CASE job[j].sets.status = {job[j].status} /\ Due(job[j].status)
    BY <1>1, <2>2 DEF FaithfulJob, Written
  <2>. QED BY <1>1, <2>1, <2>2 DEF FaithfulJob
<1>. QED BY <1>2, <1>3, <1>4

(* A job ends that does not mislead.                                       *)
LEMMA EndFaithful ==
  ASSUME Inv, Faithful, First, NEW j \in Jobs,
         (Commit(j) /\ ~Strange(j)) \/ Rollback(j)
  PROVE  Faithful' /\ ActiveAlerts \subseteq ActiveAlerts'
<1>1. /\ IsBusy(j) /\ job' = [job EXCEPT ![j] = Idle]
      /\ UNCHANGED <<today, issued, listing>>
  BY DEF Commit, Rollback, IsBusy
<1>2. /\ cert'.notAfter = cert.notAfter
      /\ Dates(cert'.status)
      /\ Due(cert.status) => Due(cert'.status)
      /\ ActiveAlerts \subseteq ActiveAlerts'
      /\ ActiveAlerts' = ActiveAlerts \/ Due(cert'.status)
  <2>1. CASE Commit(j) /\ ~Strange(j)
    <3>1. FaithfulJob(j)
      BY <1>1, <2>1 DEF Faithful
    <3>. QED BY <1>1, <2>1, <3>1, WrittenFaithfully, CommitKeepsAlerts DEF Commit, FaithfulJob
  <2>2. CASE Rollback(j)
    BY <2>2, RollbackKeepsAlerts DEF Rollback, Faithful
  <2>. QED BY <2>1, <2>2
<1>3. ASSUME NEW i \in Jobs, IsBusy(i)'
      PROVE  Strange(i)' \/ (job'[i].sets.notAfter = {} /\ FaithfulJob(i)')
  <2>1. i # j /\ job'[i] = job[i] /\ IsBusy(i)
    BY <1>1, <1>3 DEF IsBusy, Inv, TypeOK
  <2>2. Strange(i) \/ (job[i].sets.notAfter = {} /\ FaithfulJob(i))
    BY <2>1 DEF Faithful
  <2>. QED BY <1>1, <1>2, <2>1, <2>2 DEF Strange, FaithfulJob, Dates, Due, IsDue
<1>4. Dates(cert.status)'
  BY <1>1, <1>2 DEF Dates, Due, IsDue
<1>5. ActiveAlerts' # {} => Due(cert.status)'
  BY <1>2 DEF Faithful, Due
<1>6. cert'.notAfter = Expiry[1] /\ \A i \in Jobs : listing'[i] \in {Unset, Expiry[1]}
  BY <1>1, <1>2 DEF Faithful
<1>. QED BY <1>2, <1>3, <1>4, <1>5, <1>6 DEF Faithful

(* A listing, an operator, a renewal or a day: no alert ends, and what was *)
(* due stays due.                                                          *)
LEMMA ElsewhereFaithful ==
  ASSUME Inv, Faithful, First, UNCHANGED <<cert, job>>, ActiveAlerts' = ActiveAlerts,
         \A i \in Jobs : listing'[i] \in {Unset, Expiry[1]},
         today' \in Nat, today <= today'
  PROVE  Faithful'
<1>1. ASSUME NEW status, Dates(status) PROVE Dates(status)'
  <2>. DEFINE d == Expiry[1] - today
              e == Expiry[1] - today'
  <2>1. d \in Int /\ e \in Int /\ e <= d
    BY CertificateAssumption DEF Inv, TypeOK
  <2>2. Due(ClassifyExpiry(d)) => Due(ClassifyExpiry(e))
    <3>. HIDE DEF d, e
    <3>. QED BY <2>1, DueStaysDue
  <2>3. IsDue => IsDue'
    BY <2>2 DEF IsDue, Due
  <2>. QED BY <1>1, <2>3 DEF Dates, Due
<1>2. Dates(cert.status)'
  BY <1>1 DEF Faithful, Dates, Due, IsDue
<1>3. ASSUME NEW i \in Jobs, IsBusy(i)'
      PROVE  Strange(i)' \/ (job'[i].sets.notAfter = {} /\ FaithfulJob(i)')
  <2>1. /\ Strange(i) \/ (job[i].sets.notAfter = {} /\ FaithfulJob(i))
        /\ job'[i] = job[i]
    BY <1>3 DEF Faithful, IsBusy
  <2>2. FaithfulJob(i) => Dates(job[i].status)'
    BY <1>1 DEF FaithfulJob, Dates, Due, IsDue
  <2>. QED BY <2>1, <2>2 DEF Strange, FaithfulJob, Dates, Due, IsDue
<1>. QED BY <1>2, <1>3 DEF Faithful, Due

(* No renewal is taken back, and what misled the row has misled it.        *)
LEMMA FirstBefore ==
  ASSUME Inv, [Next]_vars
  PROVE  First' => First
<1>1. issued \in Nat /\ issued >= 1
  BY CertificateAssumption DEF Inv, TypeOK
<1>2. issued' = issued \/ issued' = issued + 1
  BY DEF Next, ExpiryScan, AlertEvaluation, List, ListingFails, Discovery, Probe, Validate, Begin,
         Commit, Rollback, ResolveOnBoard, Renew, Pass, vars
<1>3. misled => misled'
  BY DEF Next, ExpiryScan, AlertEvaluation, List, ListingFails, Discovery, Probe, Validate, Begin,
         Commit, Mislead, Rollback, ResolveOnBoard, Renew, Pass, vars
<1>. QED BY <1>1, <1>2, <1>3 DEF First

(* While the first certificate is in use and nothing has misled its row,   *)
(* no alert of it ends.                                                    *)
LEMMA FaithfulStep ==
  ASSUME Inv, Faithful, [Next]_vars
  PROVE  Faithful' /\ (First /\ ~misled' => ActiveAlerts \subseteq ActiveAlerts')
<1>1. CASE ~First
  BY <1>1, FirstBefore DEF Faithful
<1>2. CASE misled'
  BY <1>2 DEF Faithful, First
<1>. SUFFICES ASSUME First, ~misled' PROVE Faithful' /\ ActiveAlerts \subseteq ActiveAlerts'
  BY <1>1, <1>2
<1>3. ASSUME NEW j \in Jobs, Begins(j) PROVE Faithful' /\ ActiveAlerts' = ActiveAlerts
  <2>1. alerts' = alerts
    BY <1>3 DEF Begins, ExpiryScan, AlertEvaluation, Discovery, Probe, Validate, Begin
  <2>. QED BY <1>3, <2>1, JobsBeginFaithfully DEF ActiveAlerts, Active
<1>4. ASSUME NEW j \in Jobs, Commit(j) \/ Rollback(j)
      PROVE  Faithful' /\ ActiveAlerts \subseteq ActiveAlerts'
  <2>1. Commit(j) => ~Strange(j)
    BY StrangeMisleads DEF Commit, IsBusy
  <2>. QED BY <1>4, <2>1, EndFaithful
<1>5. /\ today \in Nat /\ today <= today
      /\ \A i \in Jobs : listing[i] \in {Unset, Expiry[1]}
  BY DEF Inv, TypeOK, Faithful
<1>7. ASSUME \/ UNCHANGED vars \/ Renew \/ Pass
             \/ \E kind \in Expiring : ResolveOnBoard(kind)
             \/ \E j \in Jobs : List(j) \/ ListingFails(j)
      PROVE  Faithful' /\ ActiveAlerts' = ActiveAlerts
  <2>1. UNCHANGED <<alerts, cert, job>>
    BY <1>7 DEF vars, Renew, Pass, ResolveOnBoard, List, ListingFails
  <2>2. today' \in Nat /\ today <= today'
    BY <1>5, <1>7, CertificateAssumption DEF vars, Renew, Pass, ResolveOnBoard, List, ListingFails
  <2>3. \A i \in Jobs : listing'[i] \in {Unset, Expiry[1]}
    BY <1>5, <1>7 DEF vars, Renew, Pass, ResolveOnBoard, List, ListingFails, First, Inv, TypeOK
  <2>4. ActiveAlerts' = ActiveAlerts
    BY <2>1 DEF ActiveAlerts, Active
  <2>. QED BY <2>1, <2>2, <2>3, <2>4, ElsewhereFaithful
<1>. QED BY <1>3, <1>4, <1>7 DEF Next, Begins

(* The strengthened invariant holds in every state.                        *)
LEMMA FaithfulHolds == Spec => []Faithful
<1>1. Init => Faithful
  <2> SUFFICES ASSUME Init PROVE Faithful
    OBVIOUS
  <2>. DEFINE d == Expiry[1] - today
  <2>1. d \in Int /\ d = Expiry[1] /\ cert.status = ClassifyExpiry(Expiry[1]) /\ cert.notAfter = Expiry[1]
    BY CertificateAssumption DEF Init
  <2>2. Dates(cert.status)
    <3>1. ClassifyExpiry(d) \in Expiring \cup {"HEALTHY"}
      <4>. HIDE DEF d
      <4>. QED BY <2>1, DueOrHealthy
    <3>. QED BY <2>1, <3>1 DEF Dates, IsDue
  <2>3. ActiveAlerts = {} /\ \A j \in Jobs : ~IsBusy(j) /\ listing[j] = Unset
    BY DEF Init, ActiveAlerts, Active, NoRow, IsBusy
  <2>. QED BY <2>1, <2>2, <2>3 DEF Faithful
<1>2. Inv /\ Faithful /\ [Next]_vars => Faithful'
  BY FaithfulStep
<1>. QED BY <1>1, <1>2, InvHolds, PTL DEF Spec

(* The alert of a certificate does not end before it is renewed, whichever *)
(* jobs ran on whatever they had read or listed, unless the row was given  *)
(* a date that is none of the certificate's.                               *)
THEOREM AlertsEndByRenewal == Spec => EndsByRenewal
<1>1. Inv /\ Faithful /\ [Next]_vars =>
        [\A a \in AlertIds : Active(a) /\ ~Active(a)' => issued > 1 \/ misled']_vars
  <2> SUFFICES ASSUME Inv, Faithful, [Next]_vars, NEW a \in AlertIds,
                      Active(a), ~Active(a)', ~misled'
               PROVE  issued > 1
    OBVIOUS
  <2>1. ~(ActiveAlerts \subseteq ActiveAlerts')
    BY DEF ActiveAlerts
  <2>2. ~First
    BY <2>1, FaithfulStep
  <2>3. misled => misled'
    BY DEF Next, ExpiryScan, AlertEvaluation, List, ListingFails, Discovery, Probe, Validate, Begin,
           Commit, Mislead, Rollback, ResolveOnBoard, Renew, Pass, vars
  <2>4. issued \in Nat /\ issued >= 1
    BY CertificateAssumption DEF Inv, TypeOK
  <2>. QED BY <2>2, <2>3, <2>4 DEF First
<1>. QED BY <1>1, InvHolds, FaithfulHolds, PTL DEF Spec, EndsByRenewal

-----------------------------------------------------------------------------
(* What the console shows of any database, however many rows it has.       *)

(* What two sets without a common member contain.                          *)
LEMMA CountedTogether ==
  ASSUME NEW A, NEW B, IsFiniteSet(A), IsFiniteSet(B), A \cap B = {}
  PROVE  /\ IsFiniteSet(A \cup B)
         /\ Cardinality(A) \in Nat /\ Cardinality(B) \in Nat
         /\ Cardinality(A) + Cardinality(B) = Cardinality(A \cup B)
<1>1. /\ IsFiniteSet(A \cup B)
      /\ Cardinality(A \cup B) = Cardinality(A) + Cardinality(B) - Cardinality(A \cap B)
  BY FS_Union
<1>2. Cardinality(A \cap B) = 0
  BY FS_EmptySet
<1>3. Cardinality(A) \in Nat /\ Cardinality(B) \in Nat
  BY FS_CardinalityType
<1>. QED BY <1>1, <1>2, <1>3

(* Two ways to split one set.                                              *)
LEMMA CountedTwice ==
  ASSUME NEW A, NEW B, NEW C, NEW D,
         IsFiniteSet(A), IsFiniteSet(B), IsFiniteSet(C), IsFiniteSet(D),
         A \cap B = {}, C \cap D = {}, A \cup B = C \cup D
  PROVE  Cardinality(A) + Cardinality(B) = Cardinality(C) + Cardinality(D)
<1>1. Cardinality(A) + Cardinality(B) = Cardinality(A \cup B)
  BY CountedTogether
<1>2. Cardinality(C) + Cardinality(D) = Cardinality(C \cup D)
  BY CountedTogether
<1>. QED BY <1>1, <1>2

(* A set in three parts, two of which make up a part themselves.           *)
LEMMA CountedApart ==
  ASSUME NEW A, NEW B, NEW C, IsFiniteSet(A), IsFiniteSet(B), IsFiniteSet(C),
         A \cap B = {}, A \cap C = {}, B \cap C = {}
  PROVE  Cardinality(A) + Cardinality(B) + Cardinality(C) = Cardinality((A \cup B) \cup C)
<1>1. IsFiniteSet(A \cup B) /\ Cardinality(A) + Cardinality(B) = Cardinality(A \cup B)
  BY CountedTogether
<1>2. (A \cup B) \cap C = {}
  OBVIOUS
<1>3. Cardinality(A \cup B) + Cardinality(C) = Cardinality((A \cup B) \cup C)
  BY <1>1, <1>2, CountedTogether
<1>. QED BY <1>1, <1>3

(* A certificate as the console has it: dated, with the class of its days, *)
(* or without a date and with no days left.                                *)
Presented(record) ==
  /\ record.days \in Int
  /\ \/ record.expiry = ClassifyExpiry(record.days)
     \/ record.expiry = "UNKNOWN" /\ record.days = 0

LEMMA CertificatesArePresented ==
  ASSUME NEW db, NEW scope, \A row \in db.certificates : row.days \in Int /\ row.dated \in BOOLEAN,
         NEW record \in LiveCertificates(db, scope)
  PROVE  Presented(record)
<1>1. PICK row \in db.certificates : record = ToCertificateRecord(row)
  BY DEF LiveCertificates, PresentCertificates
<1>2. /\ record.days = IF row.dated THEN row.days ELSE 0
      /\ record.expiry = IF row.dated THEN ClassifyExpiry(row.days) ELSE "UNKNOWN"
  BY <1>1 DEF ToCertificateRecord, ExpiryOf
<1>. QED BY <1>2 DEF Presented

(* A database shows finitely many certificates.                             *)
LEMMA FinitelyManyCertificates ==
  ASSUME NEW db, NEW scope, IsFiniteSet(db.certificates)
  PROVE  IsFiniteSet(LiveCertificates(db, scope))
<1>. DEFINE S == {row \in db.certificates : row.present}
            T == {ToCertificateRecord(row) : row \in S}
            f == [row \in S |-> ToCertificateRecord(row)]
<1>1. IsFiniteSet(S)
  BY FS_Subset
<1>2. f \in Surjection(S, T)
  BY DEF Surjection
<1>3. IsFiniteSet(T)
  <2>. HIDE DEF S, T, f
  <2>. QED BY <1>1, <1>2, FS_Surjection
<1>4. LiveCertificates(db, scope) \subseteq T
  BY DEF LiveCertificates, PresentCertificates
<1>. HIDE DEF T
<1>. QED BY <1>3, <1>4, FS_Subset

(* The dashboard counts every certificate of its scope as healthy, as      *)
(* expired or as expiring within sixty days, and in one of these only, and *)
(* its windows are nested.                                                 *)
THEOREM CertificatesCountedOnce ==
  ASSUME NEW db, NEW scope, IsFiniteSet(db.certificates),
         \A row \in db.certificates : row.days \in Int /\ row.dated \in BOOLEAN
  PROVE  LET shown == Dashboard(db, scope)
         IN /\ shown.certsHealthy + shown.certs60 + shown.certsExpired
                 = Cardinality(LiveCertificates(db, scope))
            /\ shown.certs7 <= shown.certs30 /\ shown.certs30 <= shown.certs60
<1>. DEFINE certs        == LiveCertificates(db, scope)
            healthy      == {c \in certs : c.expiry = "HEALTHY"}
            within(days) == {c \in certs : 0 < c.days /\ c.days <= days}
            expired      == {c \in certs : c.expiry = "EXPIRED" \/ c.days <= 0}
            shown        == Dashboard(db, scope)
<1>1. /\ shown.certsHealthy = Cardinality(healthy)
      /\ shown.certs60 = Cardinality(within(60))
      /\ shown.certs30 = Cardinality(within(30))
      /\ shown.certs7 = Cardinality(within(7))
      /\ shown.certsExpired = Cardinality(expired)
  BY DEF Dashboard, Many
<1>2. IsFiniteSet(certs)
  BY FinitelyManyCertificates
<1>3. \A c \in certs : Presented(c)
  BY CertificatesArePresented
<1>. HIDE DEF certs, shown
<1>4. /\ healthy \cap within(60) = {} /\ healthy \cap expired = {}
      /\ within(60) \cap expired = {} /\ (healthy \cup within(60)) \cup expired = certs
  BY <1>3 DEF Presented, ClassifyExpiry
<1>5. Cardinality(healthy) + Cardinality(within(60)) + Cardinality(expired) = Cardinality(certs)
  <2>1. IsFiniteSet(healthy) /\ IsFiniteSet(within(60)) /\ IsFiniteSet(expired)
    BY <1>2, FS_Subset
  <2>. HIDE DEF healthy, within, expired
  <2>. QED BY <1>4, <2>1, CountedApart
<1>6. Cardinality(within(30)) <= Cardinality(within(60))
  <2>1. within(30) \subseteq within(60) /\ within(60) \subseteq certs
    BY <1>3 DEF Presented
  <2>. QED BY <1>2, <2>1, FS_Subset
<1>7. Cardinality(within(7)) <= Cardinality(within(30))
  <2>1. within(7) \subseteq within(30) /\ within(30) \subseteq certs
    BY <1>3 DEF Presented
  <2>. QED BY <1>2, <2>1, FS_Subset
<1>. QED BY <1>1, <1>5, <1>6, <1>7 DEF certs, shown

(* The page of an environment and the dashboard, looking at its place,     *)
(* count the same certificates: the page's warnings are those the          *)
(* dashboard has within sixty days and not within thirty, and its critical *)
(* ones those within thirty days or expired, except the ones without a     *)
(* date, which the dashboard takes for expired.                            *)
THEOREM PageAgreesWithDashboard ==
  ASSUME NEW db, NEW row, IsFiniteSet(db.certificates),
         \A r \in db.certificates : r.days \in Int /\ r.dated \in BOOLEAN
  PROVE  LET page    == EnvironmentCertificates(db, row)
             shown   == Dashboard(db, At(Place(row)))
             undated == {c \in LiveCertificates(db, At(Place(row))) : c.expiry = "UNKNOWN"}
         IN /\ page.critical + Cardinality(undated) = shown.certs30 + shown.certsExpired
            /\ page.warning + shown.certs30 = shown.certs60
<1>. DEFINE certs        == LiveCertificates(db, At(Place(row)))
            page         == EnvironmentCertificates(db, row)
            shown        == Dashboard(db, At(Place(row)))
            undated      == {c \in certs : c.expiry = "UNKNOWN"}
            critical     == {c \in certs : c.expiry \in {"CRITICAL", "URGENT", "EXPIRED"}}
            warning      == {c \in certs : c.expiry \in {"WARNING"}}
            within(days) == {c \in certs : 0 < c.days /\ c.days <= days}
            expired      == {c \in certs : c.expiry = "EXPIRED" \/ c.days <= 0}
<1>1. /\ shown.certs60 = Cardinality(within(60))
      /\ shown.certs30 = Cardinality(within(30))
      /\ shown.certsExpired = Cardinality(expired)
  BY DEF Dashboard, Many
<1>2. page.critical = Cardinality(critical) /\ page.warning = Cardinality(warning)
  BY DEF EnvironmentCertificates, Many
<1>3. IsFiniteSet(certs)
  BY FinitelyManyCertificates
<1>4. \A c \in certs : Presented(c)
  BY CertificatesArePresented
<1>. HIDE DEF certs, page, shown
<1>5. /\ critical \cap undated = {} /\ within(30) \cap expired = {}
      /\ critical \cup undated = within(30) \cup expired
  BY <1>4 DEF Presented, ClassifyExpiry
<1>6. warning \cap within(30) = {} /\ warning \cup within(30) = within(60)
  BY <1>4 DEF Presented, ClassifyExpiry
<1>7. /\ IsFiniteSet(within(30)) /\ IsFiniteSet(expired) /\ IsFiniteSet(critical)
      /\ IsFiniteSet(undated) /\ IsFiniteSet(warning)
  BY <1>3, FS_Subset
<1>8. Cardinality(critical) + Cardinality(undated)
        = Cardinality(within(30)) + Cardinality(expired)
  <2>. HIDE DEF critical, undated, within, expired
  <2>. QED BY <1>5, <1>7, CountedTwice
<1>9. Cardinality(warning) + Cardinality(within(30)) = Cardinality(within(60))
  <2>. HIDE DEF warning, within
  <2>. QED BY <1>6, <1>7, CountedTogether
<1>. QED BY <1>1, <1>2, <1>8, <1>9 DEF certs, page, shown

(* Once a provider is configured, or the seeded topology is gone, every    *)
(* environment on the list and in the matrix has an account on the list of *)
(* accounts: no seeded environment is shown beside the real ones.          *)
THEOREM OnlyManagedIsShown ==
  ASSUME NEW db, NEW scope, ManagedOnly(db),
         NEW row \in LiveEnvironments(db, scope) \cup Shown(db, scope)
  PROVE  \E account \in LiveAccounts(db, Anywhere) : account.account = row.account
<1>1. Managed(db, row)
  BY DEF LiveEnvironments, Shown
<1>2. PICK account \in db.accounts : account.account = row.account /\ account.managed
  BY <1>1 DEF Managed
<1>3. Managed(db, account)
  BY <1>2 DEF Managed
<1>4. Within(account, Anywhere, {"provider", "region", "account"}) /\ Anywhere.environment = All
  BY DEF Within, Anywhere
<1>5. account \in LiveAccounts(db, Anywhere)
  BY <1>2, <1>3, <1>4 DEF LiveAccounts
<1>. QED BY <1>2, <1>5

(* The page of an environment leaves out no cluster that the list has of   *)
(* its place, and has beside them only clusters that are ignored, and      *)
(* these only after discovery has been there.                              *)
THEOREM PageHasTheList ==
  ASSUME NEW db, NEW row
  PROVE  LET listed == LiveClusters(db, At(Place(row)))
             page   == EnvironmentClusters(db, row)
         IN /\ ~row.active => page = listed
            /\ All \notin {row.provider, row.region, row.environment} =>
                 /\ listed \subseteq page
                 /\ \A record \in page \ listed :
                      \E cluster \in PresentClusters(db) :
                        /\ record = ToClusterRecord(cluster)
                        /\ cluster.ignored /\ Place(cluster) = Place(row)
<1>. DEFINE listed == LiveClusters(db, At(Place(row)))
            page   == EnvironmentClusters(db, row)
<1>1. ~row.active => page = listed
  BY DEF EnvironmentClusters
<1>2. ASSUME NEW cluster, All \notin {row.provider, row.region, row.environment}
      PROVE  Within(ToClusterRecord(cluster), At(Place(row)), Located \cup {"account"})
               <=> Place(cluster) = Place(row)
  <2>. DEFINE record == ToClusterRecord(cluster)
              here   == At(Place(row))
  <2>1. /\ record["provider"] = cluster.provider /\ record["region"] = cluster.region
        /\ record["environment"] = cluster.environment
    BY DEF ToClusterRecord
  <2>2. /\ here["provider"] = row.provider /\ here["region"] = row.region
        /\ here["environment"] = row.environment /\ here["account"] = All
    BY DEF At, Place, Anywhere
  <2>. HIDE DEF record, here
  <2>3. Within(record, here, Located \cup {"account"}) <=>
          /\ row.provider = cluster.provider /\ row.region = cluster.region
          /\ row.environment = cluster.environment
    BY <1>2, <2>1, <2>2 DEF Within, Located
  <2>. QED BY <2>3 DEF Place, record, here
<1>3. ASSUME row.active, All \notin {row.provider, row.region, row.environment}
      PROVE  /\ listed \subseteq page
             /\ \A record \in page \ listed :
                  \E cluster \in PresentClusters(db) :
                    /\ record = ToClusterRecord(cluster)
                    /\ cluster.ignored /\ Place(cluster) = Place(row)
  <2>1. page = {ToClusterRecord(cluster) :
                  cluster \in {c \in PresentClusters(db) : Place(c) = Place(row)}}
    BY <1>3 DEF EnvironmentClusters
  <2>2. ASSUME NEW record
        PROVE  record \in listed <=>
                 \E cluster \in PresentClusters(db) :
                   /\ ~cluster.ignored /\ record = ToClusterRecord(cluster)
                   /\ Place(cluster) = Place(row)
    BY <1>2, <1>3 DEF LiveClusters
  <2>. HIDE DEF listed, page
  <2>. QED BY <2>1, <2>2
<1>. QED BY <1>1, <1>3
=============================================================================
