--------------------------- MODULE CredentialStore ---------------------------
(***************************************************************************)
(* Credentials: metadata in PostgreSQL, the secret in a backend of its own. *)
(*                                                                         *)
(* No transaction spans both stores.  A request that creates or replaces a *)
(* credential reads the row, writes the secret to the backend, and commits *)
(* the row last; other requests, a validation job and the scan of rotation *)
(* dates run in between.  A commit writes only the columns the request     *)
(* changed from what it had read (the unit of work of SQLAlchemy).         *)
(***************************************************************************)
EXTENDS Naturals, FiniteSets

CONSTANTS
  Credentials,  \* provider, region, account, environment and name
  Reference,    \* where each keeps its secret: [Credentials -> References]
  References,
  Secrets,      \* a secret stands for its fingerprint too
  Accepted,     \* the secrets the provider accepts
  Requests,     \* create and replace requests under way at one time
  MaxRequests,  \* bound: create and replace requests
  MaxChecks,    \* bound: validation jobs
  MaxEdits      \* bound: metadata updates, and times a due date comes closer

None == "none"   \* no secret, hence no fingerprint

ASSUME CredentialAssumption ==
  /\ Reference \in [Credentials -> References]
  /\ Accepted \subseteq Secrets
  /\ None \notin Secrets
  /\ MaxRequests \in Nat /\ MaxChecks \in Nat /\ MaxEdits \in Nat

VARIABLES
  row,        \* credentials, as committed
  store,      \* the secret backend
  request,    \* what a request has read and where it is
  check,      \* the validation job
  scan,       \* the rotation scan: the statuses it is about to write
  made,       \* how many requests, validation jobs and edits there were
  disturbed,  \* credentials whose secret was written outside one quiet request
  unhealed    \* credentials with a failed validation no replacement has seen

vars == <<row, store, request, check, scan, made, disturbed, unhealed>>

Rotating == {"HEALTHY", "ROTATION_DUE", "OVERDUE"}
Statuses == Rotating \cup {"INVALID", "DISABLED"}

(* Where the clock stands between last_rotated_at and rotation_due_at.     *)
Dues == {"far", "soon", "past"}

RowType == [status : Statuses, fingerprint : Secrets \cup {None}, due : Dues]
NoRow == [status |-> None, fingerprint |-> None, due |-> "far"]

RequestType ==
  [phase : {"read", "stored"}, credential : Credentials, secret : Secrets \cup {None},
   seen : RowType \cup {NoRow}, overlapped : BOOLEAN, failure : BOOLEAN]
NoRequest == [phase |-> "idle"]

CheckType == [phase : {"read", "loaded", "passed"}, credential : Credentials,
              material : Secrets \cup {None}]
NoCheck == [phase |-> "idle"]

NoScan == [c \in {} |-> "HEALTHY"]

TypeOK ==
  /\ row \in [Credentials -> RowType \cup {NoRow}]
  /\ store \in [References -> Secrets \cup {None}]
  /\ request \in [Requests -> RequestType \cup {NoRequest}]
  /\ check \in CheckType \cup {NoCheck}
  /\ scan.on \in BOOLEAN /\ scan.writes \in UNION {[S -> Rotating] : S \in SUBSET Credentials}
  /\ made \in [requests : 0..MaxRequests, checks : 0..MaxChecks, edits : 0..MaxEdits]
  /\ disturbed \subseteq Credentials /\ unhealed \subseteq Credentials

Init ==
  /\ row = [c \in Credentials |-> NoRow]
  /\ store = [r \in References |-> None]
  /\ request = [q \in Requests |-> NoRequest]
  /\ check = NoCheck
  /\ scan = [on |-> FALSE, writes |-> NoScan]
  /\ made = [requests |-> 0, checks |-> 0, edits |-> 0]
  /\ disturbed = {} /\ unhealed = {}

-----------------------------------------------------------------------------
(* Requests.                                                               *)

Exists(c) == row[c] # NoRow

(* compute_status(): INVALID and DISABLED stay what they are.              *)
DueStatus(due) ==
  CASE due = "far" -> "HEALTHY" [] due = "soon" -> "ROTATION_DUE" [] due = "past" -> "OVERDUE"
ComputeStatus(status, due) == IF status \in Rotating THEN DueStatus(due) ELSE status

(* A column keeps what another transaction committed unless this one set   *)
(* it to a value other than it had read.                                   *)
ColumnUnhealed(now, read, set) == IF set = read \/ now = "INVALID" THEN now ELSE set
Column(now, read, set) == IF set = read THEN now ELSE set

InFlight(q) == request[q] # NoRequest
SharesReference(q, c) == InFlight(q) /\ Reference[request[q].credential] = Reference[c]

(* The row is read, the duplicate is looked for, the payload is checked.   *)
Begin(q, c, s) ==
  LET others == {p \in Requests \ {q} : SharesReference(p, c)}
  IN /\ request[q] = NoRequest /\ made.requests < MaxRequests
     /\ made' = [made EXCEPT !.requests = @ + 1]
     /\ request' = [p \in Requests |->
          CASE p = q -> [phase |-> "read", credential |-> c, secret |-> s, seen |-> row[c],
                         overlapped |-> others # {}, failure |-> FALSE]
            [] p \in others -> [request[p] EXCEPT !.overlapped = TRUE]
            [] OTHER -> request[p]]
     /\ UNCHANGED <<row, store, check, scan, disturbed, unhealed>>

(* A credential of a role type may come without a secret.                  *)
BeginCreate(q, c, s) == ~Exists(c) /\ Begin(q, c, s)
BeginReplace(q, c, s) == Exists(c) /\ s # None /\ Begin(q, c, s)

(* store_secret() or replace_secret(): the backend keeps the last value.   *)
StoreOnce(q) ==
  LET r == Reference[request[q].credential]
  IN /\ request[q].phase = "read" /\ request[q].secret # None
     /\ store' = IF store[r] = None THEN [store EXCEPT ![r] = request[q].secret] ELSE store
     /\ request' = [request EXCEPT ![q].phase = "stored"]
     /\ disturbed' = disturbed \cup {c \in Credentials : Exists(c) /\ Reference[c] = r}
     /\ UNCHANGED <<row, check, scan, made, unhealed>>
Store(q) ==
  LET r == Reference[request[q].credential]
  IN /\ request[q].phase = "read" /\ request[q].secret # None
     /\ store' = [store EXCEPT ![r] = request[q].secret]
     /\ request' = [request EXCEPT ![q].phase = "stored"]
     /\ disturbed' = disturbed \cup {c \in Credentials : Exists(c) /\ Reference[c] = r}
     /\ UNCHANGED <<row, check, scan, made, unhealed>>

ReadyToCommitFirst(q) == InFlight(q)
ReadyToCommit(q) ==
  /\ InFlight(q)
  /\ request[q].phase = (IF request[q].secret = None THEN "read" ELSE "stored")
Done(q) == request' = [request EXCEPT ![q] = NoRequest]
Settle(q, c) ==
  disturbed' = IF request[q].overlapped \/ request[q].secret = None THEN disturbed ELSE disturbed \ {c}

(* The insert of create_credential(): uq_credentials_scope_name admits one. *)
CommitCreate(q) ==
  LET c == request[q].credential
  IN /\ ReadyToCommit(q) /\ request[q].seen = NoRow /\ ~Exists(c)
     /\ row' = [row EXCEPT ![c] =
          [status |-> "HEALTHY", fingerprint |-> request[q].secret, due |-> "far"]]
     /\ disturbed' = IF request[q].overlapped THEN disturbed \cup {c} ELSE disturbed
     /\ Done(q)
     /\ UNCHANGED <<store, check, scan, made, unhealed>>

CommitReplace(q) ==
  LET c == request[q].credential
      seen == request[q].seen
  IN /\ ReadyToCommit(q) /\ seen # NoRow
     /\ row' = [row EXCEPT
          ![c].status = Column(@, seen.status, "HEALTHY"),
          ![c].fingerprint = Column(@, seen.fingerprint, request[q].secret),
          ![c].due = "far"]
     /\ unhealed' = IF request[q].failure THEN unhealed ELSE unhealed \ {c}
     /\ Settle(q, c)
     /\ Done(q)
     /\ UNCHANGED <<store, check, scan, made>>

(* The backend refuses, the name was taken meanwhile, or the commit fails: *)
(* the transaction rolls back and the backend keeps what it was given.     *)
Fail(q) ==
  /\ InFlight(q)
  /\ Done(q)
  /\ UNCHANGED <<row, store, check, scan, made, disturbed, unhealed>>

Edit == made.edits < MaxEdits /\ made' = [made EXCEPT !.edits = @ + 1]

(* update_credential(): the policy moves the due date, DISABLED stays until *)
(* the next replacement.                                                   *)
UpdatePolicy(c, due) ==
  /\ Edit
  /\ Exists(c)
  /\ row' = [row EXCEPT ![c].due = due, ![c].status = ComputeStatus(@, due)]
  /\ UNCHANGED <<store, request, check, scan, disturbed, unhealed>>

Disable(c) ==
  /\ Edit
  /\ Exists(c)
  /\ row' = [row EXCEPT ![c].status = "DISABLED"]
  /\ UNCHANGED <<store, request, check, scan, disturbed, unhealed>>

-----------------------------------------------------------------------------
(* The validation job.                                                     *)

StartCheck(c) ==
  /\ check = NoCheck /\ made.checks < MaxChecks
  /\ Exists(c)
  /\ check' = [phase |-> "read", credential |-> c, material |-> None]
  /\ made' = [made EXCEPT !.checks = @ + 1]
  /\ UNCHANGED <<row, store, request, scan, disturbed, unhealed>>

(* get_secret() of the reference, if the backend knows it.                 *)
LoadSecret ==
  /\ check.phase = "read"
  /\ check' = [check EXCEPT !.phase = "loaded", !.material = store[Reference[check.credential]]]
  /\ UNCHANGED <<row, store, request, scan, made, disturbed, unhealed>>

(* The identity call went through; record_validation_result(success=True). *)
(* compute_status() of an INVALID row is INVALID.                          *)
RecordSuccess ==
  LET c == check.credential
  IN /\ check.phase = "loaded" /\ check.material \in Accepted \cup {None}
     /\ row' = [row EXCEPT ![c].status =
          IF @ = "INVALID" THEN ComputeStatus(@, row[c].due) ELSE @]
     /\ check' = [check EXCEPT !.phase = "passed"]
     /\ UNCHANGED <<store, request, scan, made, disturbed, unhealed>>

FinishCheck ==
  /\ check.phase = "passed"
  /\ check' = NoCheck
  /\ UNCHANGED <<row, store, request, scan, made, disturbed, unhealed>>

(* The backend, the provider or the commit of the success raised: the same *)
(* handler takes them all, a failing mark_job_finished() of a validation   *)
(* that passed included.                                                   *)
RecordFailure ==
  LET c == check.credential
  IN /\ check # NoCheck
     /\ row' = [row EXCEPT ![c].status = "INVALID"]
     /\ request' = [q \in Requests |->
          IF InFlight(q) /\ request[q].credential = c
            THEN [request[q] EXCEPT !.failure = TRUE] ELSE request[q]]
     /\ unhealed' = unhealed \cup {c}
     /\ check' = NoCheck
     /\ UNCHANGED <<store, scan, made, disturbed>>

-----------------------------------------------------------------------------
(* scan_rotation_statuses(): one select, one commit of the rows that differ. *)

(* Mutant of ReadScan: a scan of what grows due, and of nothing else.      *)
ReadScanOfDue ==
  /\ ~scan.on
  /\ LET stale == {c \in Credentials : Exists(c) /\ row[c].due # "far"
                     /\ ComputeStatus(row[c].status, row[c].due) # row[c].status}
     IN scan' = [on |-> TRUE, writes |-> [c \in stale |-> DueStatus(row[c].due)]]
  /\ UNCHANGED <<row, store, request, check, made, disturbed, unhealed>>

ReadScan ==
  /\ ~scan.on
  /\ LET stale == {c \in Credentials : Exists(c) /\ ComputeStatus(row[c].status, row[c].due) # row[c].status}
     IN scan' = [on |-> TRUE, writes |-> [c \in stale |-> DueStatus(row[c].due)]]
  /\ UNCHANGED <<row, store, request, check, made, disturbed, unhealed>>

CommitScan ==
  /\ scan.on
  /\ row' = [c \in Credentials |->
       IF c \in DOMAIN scan.writes THEN [row[c] EXCEPT !.status = scan.writes[c]] ELSE row[c]]
  /\ scan' = [on |-> FALSE, writes |-> NoScan]
  /\ UNCHANGED <<store, request, check, made, disturbed, unhealed>>

(* Time passes.                                                            *)
Tick(c) ==
  /\ Edit
  /\ Exists(c) /\ row[c].due # "past"
  /\ row' = [row EXCEPT ![c].due = IF @ = "far" THEN "soon" ELSE "past"]
  /\ UNCHANGED <<store, request, check, scan, disturbed, unhealed>>

Next ==
  \/ \E q \in Requests, c \in Credentials, s \in Secrets \cup {None} :
       BeginCreate(q, c, s) \/ BeginReplace(q, c, s)
  \/ \E q \in Requests : Store(q) \/ CommitCreate(q) \/ CommitReplace(q) \/ Fail(q)
  \/ \E c \in Credentials :
       \/ \E due \in Dues : UpdatePolicy(c, due)
       \/ Disable(c) \/ StartCheck(c) \/ Tick(c)
  \/ LoadSecret \/ RecordSuccess \/ FinishCheck \/ RecordFailure
  \/ ReadScan \/ CommitScan

(* Beat starts the scan every six hours.                                   *)
Fairness == WF_vars(ReadScan) /\ WF_vars(CommitScan)

Spec == Init /\ [][Next]_vars /\ Fairness

-----------------------------------------------------------------------------
(* A row with a fingerprint has its secret in the backend: the request that *)
(* commits the row has stored the secret first and nothing deletes it, in  *)
(* whatever order requests run and wherever they fail (credentials.py:258). *)
SecretIsThere ==
  \A c \in Credentials : row[c].fingerprint # None => store[Reference[c]] # None

(* The fingerprint is that of the stored secret unless the last writes were *)
(* disturbed: by a request that failed after it had stored its secret, by  *)
(* two that overlapped, or by a credential of another account with the same *)
(* reference.  One replacement that runs alone repairs the pair.           *)
FingerprintIsOfStoredSecret ==
  \A c \in Credentials :
    row[c].fingerprint # None /\ c \notin disturbed => store[Reference[c]] = row[c].fingerprint

(* INVALID is always the trace of a failed validation that no replacement  *)
(* begun after it has superseded (credentials.py:605).                     *)
InvalidIsExplained ==
  \A c \in Credentials : row[c].status = "INVALID" => c \in unhealed

(* A status that speaks of the rotation comes to fit the date: what grows  *)
(* due is shown as due, although the scan writes what it had read before a *)
(* replacement, over it or in vain, and so is what a late scan has wrongly *)
(* called overdue (credentials.py:576).                                    *)
Fits(c) == row[c].status \in Rotating => row[c].status = DueStatus(row[c].due)

RotationIsShown == \A c \in Credentials : ~Fits(c) ~> Fits(c)

(* Provider, region, account, environment, credential (docs/credentials.md:9): *)
(* what a request does to one credential leaves the secret of another as it was. *)
OwnSecret ==
  [][\A c \in Credentials :
       Exists(c) /\ store'[Reference[c]] # store[Reference[c]]
         => \E q \in Requests : request[q].phase = "read" /\ request'[q].phase = "stored"
                                /\ request[q].credential = c]_vars
=============================================================================
