-------------------------- MODULE CertificateMonitor --------------------------
(***************************************************************************)
(* One certificate as the monitor sees it: its row in acm_certificates, its *)
(* rows in certificate_alerts, and the unified alerts published about it.  *)
(*                                                                         *)
(* Discovery, endpoint probes, expiry scans and validations are jobs that  *)
(* each bring the row up to date and end in evaluate_alerts(), all in one  *)
(* transaction, which lasts because notifications are sent within it; what *)
(* a discovery stores it has listed before that transaction.  Two jobs     *)
(* overlap whenever beat starts both.  The certificates of a job are       *)
(* evaluated one by one and share no row, so one of them is followed here. *)
(***************************************************************************)
EXTENDS Integers, Sequences, FiniteSets, ExpiryClasses

CONSTANTS
  Jobs,         \* jobs of the monitor under way at one time: 1..n
  Sources,      \* where the certificate may come from
  Expiry,       \* the day it expires, and the days its renewals expire
  Others,       \* the days that other certificates its host may present expire
  Step,         \* days that pass at a time
  MaxSteps,     \* bound: how often they pass
  MaxAlerts,    \* bound: rows of certificate_alerts that are active or still referred to
  MaxHands      \* bound: how many unified alerts operators resolve

(* An external endpoint, or a listing of a provider or of a cluster.       *)
AllSources == {"https", "listed"}

ASSUME CertificateAssumption ==
  /\ Sources \subseteq AllSources
  /\ Jobs \subseteq Nat /\ IsFiniteSet(Jobs)
  /\ Expiry \in Seq(Nat) /\ Len(Expiry) > 0
  /\ Others \subseteq Nat
  /\ {Step, MaxSteps, MaxAlerts, MaxHands} \subseteq Nat

VARIABLES
  today,
  issued,    \* which certificate is in use: the first or a renewal
  cert,      \* its row: source, not_after and expiry_status
  alerts,    \* certificate_alerts
  board,     \* the kinds with an active unified alert about it
  listing,   \* the date in what a discovery has listed and not yet stored
  job,       \* what a job has read and is about to write
  raced,     \* jobs that overlapped have written what they disagree on
  misled,    \* the row has had a date on which the certificate never expired
  hands,     \* how many unified alerts operators resolved
  manual     \* an operator resolved a unified alert

vars == <<today, issued, cert, alerts, board, listing, job, raced, misled, hands, manual>>

Unset == -1
Expiring == {"WARNING", "CRITICAL", "URGENT", "EXPIRED"}
ExpiryStatuses == Expiring \cup {"HEALTHY", "UNKNOWN"}

StatusOf(date) == IF date = Unset THEN "UNKNOWN" ELSE ClassifyExpiry(date - today)

StatusRank ==
  [HEALTHY |-> 0, UNKNOWN |-> 0, WARNING |-> 1, CRITICAL |-> 2, URGENT |-> 3, EXPIRED |-> 4]

AlertIds == 1..MaxAlerts
NoAlert == 0
(* OPEN stands for ACKNOWLEDGED as well: the jobs ask for either.          *)
AlertType == [status : {"OPEN", "RESOLVED"}, kind : Expiring]
NoRow == [status |-> "none"]
Active(a) == alerts[a].status = "OPEN"
ActiveAlerts == {a \in AlertIds : Active(a)}

CertType == [source : AllSources, notAfter : Int, status : ExpiryStatuses]

JobType ==
  [status : ExpiryStatuses,                      \* the class it evaluates
   sets : [notAfter : SUBSET Int, status : SUBSET ExpiryStatuses], \* the columns it writes
   alert : AlertIds \cup {NoAlert}, kind : Expiring \cup {"none"}, \* the active alert it found
   alone : BOOLEAN]
Idle == [alone |-> TRUE]

TypeOK ==
  /\ today \in Nat
  /\ issued \in DOMAIN Expiry
  /\ cert \in CertType
  /\ alerts \in [AlertIds -> AlertType \cup {NoRow}]
  /\ board \subseteq Expiring
  /\ listing \in [Jobs -> Nat \cup {Unset}]
  /\ job \in [Jobs -> JobType \cup {Idle}]
  /\ misled \in BOOLEAN
  /\ raced \in BOOLEAN
  /\ hands \in 0..MaxHands
  /\ manual \in BOOLEAN

Init ==
  /\ today = 0
  /\ issued = 1
  /\ cert \in [source : Sources, notAfter : {Expiry[1]}, status : {ClassifyExpiry(Expiry[1])}]
  /\ alerts = [a \in AlertIds |-> NoRow]
  /\ board = {}
  /\ listing = [j \in Jobs |-> Unset]
  /\ job = [j \in Jobs |-> Idle]
  /\ misled = FALSE
  /\ raced = FALSE
  /\ hands = 0
  /\ manual = FALSE

-----------------------------------------------------------------------------
(* A job reads the row, changes it to new, and looks for the alert; its    *)
(* transaction writes only the columns it changed.  That a day begins, or  *)
(* another job commits, between reading the row and looking for the alert  *)
(* is left out.                                                            *)

Busy == {j \in Jobs : job[j] # Idle}

Begin(j, new) ==
  /\ job[j] = Idle
  /\ \E a \in (IF ActiveAlerts = {} THEN {NoAlert} ELSE ActiveAlerts) :
       job' = [i \in Jobs |->
         CASE i = j -> [status |-> new.status, alert |-> a,
                        sets |-> [notAfter |-> {new.notAfter} \ {cert.notAfter},
                                  status |-> {new.status} \ {cert.status}],
                        kind |-> IF a = NoAlert THEN "none" ELSE alerts[a].kind,
                        alone |-> Busy = {}]
           [] i \in Busy -> [job[i] EXCEPT !.alone = FALSE]
           [] OTHER -> job[i]]
  /\ UNCHANGED <<today, issued, cert, alerts, board, raced, misled, hands, manual>>

Dated(row, date) == [row EXCEPT !.notAfter = date, !.status = StatusOf(date)]

(* A worker is free for the job; workers are taken in their order.         *)
Free(j) ==
  LET Taken(i) == job[i] # Idle \/ listing[i] # Unset
  IN ~Taken(j) /\ \A i \in Jobs : i < j => Taken(i)

(* run_expiry_scan(): refresh_days() of what is known.  A listing without  *)
(* the certificate ends in the same: mark_missing() makes it absent, which *)
(* neither refresh_days() nor evaluate_alerts() looks at.  So does the     *)
(* second transaction of run_certificate_discovery().                      *)
ExpiryScan(j) == Free(j) /\ Begin(j, Dated(cert, cert.notAfter)) /\ UNCHANGED listing

(* run_alert_evaluation(): the class of the last scan.                     *)
AlertEvaluation(j) == Free(j) /\ Begin(j, cert) /\ UNCHANGED listing

(* A discovery lists the certificates of an account, which takes as long   *)
(* as the provider does and may fail, and then opens the transaction that  *)
(* stores them, whatever happened meanwhile: upsert_discovered().          *)
List(j) ==
  /\ cert.source = "listed"
  /\ Free(j)
  /\ listing' = [listing EXCEPT ![j] = Expiry[issued]]
  /\ UNCHANGED <<today, issued, cert, alerts, board, job, raced, misled, hands, manual>>

ListingFails(j) ==
  /\ listing[j] # Unset
  /\ listing' = [listing EXCEPT ![j] = Unset]
  /\ UNCHANGED <<today, issued, cert, alerts, board, job, raced, misled, hands, manual>>

Discovery(j) ==
  /\ listing[j] # Unset
  /\ Begin(j, Dated(cert, listing[j]))
  /\ listing' = [listing EXCEPT ![j] = Unset]

(* check_https_endpoint() verifies what the host presents: no handshake    *)
(* succeeds with a certificate that has expired.                           *)
Accepted(date) == date >= today

(* upsert_https_result() writes what the handshake yielded, nothing if it  *)
(* failed.                                                                 *)
Probe(j, success) ==
  /\ cert.source = "https"
  /\ Free(j)
  /\ success => Accepted(Expiry[issued])
  /\ Begin(j, Dated(cert, IF success THEN Expiry[issued] ELSE Unset))
  /\ UNCHANGED listing

(* The host named by a listed certificate may present another one, or the  *)
(* one before the renewal.                                                 *)
Presents ==
  IF cert.source = "https" THEN {Expiry[issued]}
    ELSE {Expiry[k] : k \in 1..issued} \cup Others

(* run_certificate_validate() writes the date of what the host presents,   *)
(* whichever certificate it is; a failed handshake keeps what is known.    *)
ValidateUnclassified(j, date) ==
  /\ Free(j)
  /\ IF Accepted(date) THEN Begin(j, Dated(cert, date))
                       ELSE Begin(j, [cert EXCEPT !.status = "UNKNOWN"])
  /\ UNCHANGED listing
Validate(j, date) ==
  /\ Free(j)
  /\ Begin(j, cert) \/ (Accepted(date) /\ Begin(j, Dated(cert, date)))
  /\ UNCHANGED listing

Written(old, set) == IF set = {} THEN old ELSE CHOOSE new \in set : TRUE
WriteRow(j) ==
  cert' = [cert EXCEPT !.notAfter = Written(@, job[j].sets.notAfter),
                       !.status = Written(@, job[j].sets.status)]
Mislead == misled' = (misled \/ cert'.notAfter \notin {Expiry[k] : k \in 1..issued})

(* _notify() publishes the kind: an active unified alert stays what it is. *)
Publish(kind) == board' = board \cup {kind}

Disagree(j) == raced' = (raced \/ ~job[j].alone)

(* Nothing reads a resolved alert again unless it was read before: then    *)
(* its id may stand for another row.                                       *)
Referred(J) == {job[i].alert : i \in J \cap Busy}
Forget(rows, referred) ==
  [a \in AlertIds |-> IF rows[a].status = "RESOLVED" /\ a \notin referred THEN NoRow ELSE rows[a]]
WriteAlerts(j, rows) == alerts' = Forget(rows, Referred(Jobs \ {j}))

(* evaluate_alerts(): no active alert was found, so one is inserted.       *)
OpenAlertBlindly(j, status) ==
  /\ status \in Expiring
  /\ \E a \in AlertIds :
       /\ alerts[a] = NoRow /\ \A b \in 1..(a - 1) : alerts[b] # NoRow
       /\ WriteAlerts(j, [alerts EXCEPT ![a] = [status |-> "OPEN", kind |-> status]])
  /\ Publish(status)
  /\ Disagree(j)
OpenAlertInTime(j, status) ==
  /\ status \in Expiring \ {"EXPIRED"} /\ job[j].alert = NoAlert
  /\ \E a \in AlertIds :
       /\ alerts[a] = NoRow /\ \A b \in 1..(a - 1) : alerts[b] # NoRow
       /\ WriteAlerts(j, [alerts EXCEPT ![a] = [status |-> "OPEN", kind |-> status]])
  /\ Publish(status)
  /\ Disagree(j)
OpenAlert(j, status) ==
  /\ status \in Expiring /\ job[j].alert = NoAlert
  /\ \E a \in AlertIds :
       /\ alerts[a] = NoRow /\ \A b \in 1..(a - 1) : alerts[b] # NoRow
       /\ WriteAlerts(j, [alerts EXCEPT ![a] =
            [status |-> "OPEN", kind |-> status]])
  /\ Publish(status)
  /\ Disagree(j)

(* The active alert changes its kind; a milder one is not published.       *)
ChangeKind(j, status) ==
  LET a == job[j].alert
  IN /\ status \in Expiring /\ a # NoAlert /\ status # job[j].kind
     /\ WriteAlerts(j, [alerts EXCEPT ![a].kind = status])
     /\ IF StatusRank[status] >= StatusRank[job[j].kind]
          THEN Publish(status) ELSE UNCHANGED board
     /\ Disagree(j)

(* Neither due nor expired any more: the alert and every unified alert of  *)
(* the certificate are resolved.                                           *)
ResolveAlertQuietly(j, status) ==
  LET a == job[j].alert
  IN /\ status \notin Expiring /\ a # NoAlert
     /\ WriteAlerts(j, [alerts EXCEPT ![a].status = "RESOLVED"])
     /\ UNCHANGED board
     /\ Disagree(j)
ResolveSevereAlert(j, status) ==
  LET a == job[j].alert
  IN /\ status \notin Expiring /\ a # NoAlert
     /\ WriteAlerts(j, [alerts EXCEPT ![a].status =
          IF StatusRank[job[j].kind] > 1 THEN "RESOLVED" ELSE @])
     /\ board' = {}
     /\ Disagree(j)
ResolveAlert(j, status) ==
  LET a == job[j].alert
  IN /\ status \notin Expiring /\ a # NoAlert
     /\ WriteAlerts(j, [alerts EXCEPT ![a].status = "RESOLVED"])
     /\ board' = {}
     /\ Disagree(j)

KeepAlert(j, status) ==
  /\ IF job[j].alert = NoAlert THEN status \notin Expiring ELSE status = job[j].kind
  /\ WriteAlerts(j, alerts)
  /\ UNCHANGED <<board, raced>>

Commit(j) ==
  /\ job[j] # Idle
  /\ WriteRow(j) /\ Mislead
  /\ LET status == job[j].status
     IN \/ OpenAlert(j, status) \/ ChangeKind(j, status)
        \/ ResolveAlert(j, status) \/ KeepAlert(j, status)
  /\ job' = [job EXCEPT ![j] = Idle]
  /\ UNCHANGED <<today, issued, listing, hands, manual>>

(* An error anywhere in the job rolls all of it back.                      *)
Rollback(j) ==
  /\ job[j] # Idle
  /\ WriteAlerts(j, alerts)
  /\ job' = [job EXCEPT ![j] = Idle]
  /\ UNCHANGED <<today, issued, cert, board, listing, raced, misled, hands, manual>>

-----------------------------------------------------------------------------
Hand == hands < MaxHands /\ hands' = hands + 1

(* An operator resolves a unified alert; its certificate alert is untouched. *)
ResolveOnBoard(kind) ==
  /\ kind \in board
  /\ Hand
  /\ board' = board \ {kind}
  /\ manual' = TRUE
  /\ UNCHANGED <<today, issued, cert, alerts, listing, job, raced, misled>>

-----------------------------------------------------------------------------
(* The world.                                                              *)

Renew ==
  /\ issued < Len(Expiry)
  /\ issued' = issued + 1
  /\ UNCHANGED <<today, cert, alerts, board, listing, job, raced, misled, hands, manual>>

Pass ==
  /\ today < MaxSteps * Step
  /\ today' = today + Step
  /\ UNCHANGED <<issued, cert, alerts, board, listing, job, raced, misled, hands, manual>>

Next ==
  \/ \E j \in Jobs :
       \/ ExpiryScan(j) \/ AlertEvaluation(j)
       \/ List(j) \/ ListingFails(j) \/ Discovery(j)
       \/ \E success \in BOOLEAN : Probe(j, success)
       \/ \E date \in Presents : Validate(j, date)
       \/ Commit(j) \/ Rollback(j)
  \/ \E kind \in Expiring : ResolveOnBoard(kind)
  \/ Renew \/ Pass

(* Beat starts every kind of job again and again and a worker takes it in  *)
(* the end, so the certificate is listed or probed again and again; not    *)
(* every listing comes after the next renewal, and not every job that      *)
(* found the class the certificate is in meets an error before it commits. *)
Listed == \E j \in Jobs : List(j)
Observe ==
  \E j \in Jobs : (listing[j] = Expiry[issued] /\ Discovery(j)) \/ Probe(j, TRUE)
CommitObserved ==
  \E j \in Jobs :
    job[j] # Idle /\ job[j].status = StatusOf(Expiry[issued]) /\ Commit(j)
Fairness ==
  /\ SF_vars(Listed) /\ SF_vars(Observe) /\ SF_vars(CommitObserved)
  /\ \A j \in Jobs : WF_vars(Discovery(j) \/ ListingFails(j)) /\ WF_vars(Commit(j) \/ Rollback(j))

Spec == Init /\ [][Next]_vars /\ Fairness

-----------------------------------------------------------------------------
(* Jobs that overlap and find no alert insert one each, and no more than   *)
(* that: a later job finds one of them and adds none                       *)
(* (certificate_monitor.py:264).                                           *)
AlertsPerWriter == Cardinality(ActiveAlerts) <= Cardinality(Jobs)

(* The unified alerts of a certificate come and go with its own alert,     *)
(* unless writers raced or an operator resolved one by hand: none outlives *)
(* it, although its kind changed meanwhile, and it has one from the start. *)
AlertsAgree ==
  /\ ~raced /\ ActiveAlerts = {} => board = {}
  /\ ~manual /\ ActiveAlerts # {} => raced \/ board # {}

(* The alert of a certificate does not end before it is renewed, whichever *)
(* jobs ran on whatever they had read or listed, unless its row was given  *)
(* a date that is none of its own: that of another certificate which its   *)
(* host presents, or none when an endpoint did not answer                  *)
(* (certificate_monitor.py:662, 476).  Said of jobs that look for the      *)
(* alert as they read the row (Begin).                                     *)
EndsByRenewal ==
  [][\A a \in AlertIds : Active(a) /\ ~Active(a)' => issued > 1 \/ misled']_vars

(* A certificate that was renewed and stays healthy has no active alert in *)
(* the end, the duplicates of overlapping jobs included.                   *)
RenewalEndsAlerts ==
  ClassifyExpiry(Expiry[issued] - today) = "HEALTHY"
    ~> ActiveAlerts = {} \/ ClassifyExpiry(Expiry[issued] - today) # "HEALTHY"

(* A listed certificate that has expired gets an alert.                    *)
ExpiryIsAlerted ==
  ClassifyExpiry(Expiry[issued] - today) = "EXPIRED" /\ cert.source = "listed"
    ~> ActiveAlerts # {} \/ ClassifyExpiry(Expiry[issued] - today) # "EXPIRED"
=============================================================================
