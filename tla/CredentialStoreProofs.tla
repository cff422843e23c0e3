------------------------ MODULE CredentialStoreProofs ------------------------
(***************************************************************************)
(* Proofs about CredentialStore, for any credentials, references, secrets, *)
(* requests and bounds: its type invariant, that a row has its secret, that *)
(* an undisturbed fingerprint is that of the stored secret, and that       *)
(* INVALID is the trace of a validation that failed.                       *)
(*                                                                         *)
(* What the rows say follows from what each request knows while it is      *)
(* under way: Requested.  The heart is Alone: nothing has happened to the  *)
(* secret and the fingerprint of a request nobody overlaps.                *)
(***************************************************************************)
EXTENDS CredentialStore, TLAPS

CredentialOf(q) == request[q].credential

(* What is replaced exists; what is stored is in the backend.              *)
Backed(q) ==
  /\ request[q].seen # NoRow => Exists(CredentialOf(q)) /\ request[q].secret # None
  /\ request[q].phase = "stored" =>
       request[q].secret # None /\ store[Reference[CredentialOf(q)]] # None

Alone(q) ==
  ~request[q].overlapped =>
    /\ \A p \in Requests : p # q => ~SharesReference(p, CredentialOf(q))
    /\ row[CredentialOf(q)].fingerprint = request[q].seen.fingerprint
    /\ request[q].phase = "stored" =>
         store[Reference[CredentialOf(q)]] = request[q].secret

(* A replacement that has stored its secret is a disturbance until it ends. *)
Marked(q) ==
  request[q].phase = "stored" /\ request[q].seen # NoRow => CredentialOf(q) \in disturbed

(* If no validation has failed since, an invalid row was read as invalid.  *)
Unfailed(q) ==
  ~request[q].failure /\ row[CredentialOf(q)].status = "INVALID" /\ request[q].seen # NoRow =>
    request[q].seen.status = "INVALID"

Requested ==
  \A q \in Requests : InFlight(q) => Backed(q) /\ Alone(q) /\ Marked(q) /\ Unfailed(q)

(* What the job and the scan have read exists.                             *)
Known ==
  /\ check # NoCheck => Exists(check.credential)
  /\ \A c \in DOMAIN scan.writes : Exists(c)

Kept == SecretIsThere /\ FingerprintIsOfStoredSecret /\ InvalidIsExplained

Inv == TypeOK /\ Requested /\ Known /\ Kept

-----------------------------------------------------------------------------
(* Records.                                                                *)

(* A row that exists has a status.                                         *)
LEMMA RowParts ==
  ASSUME TypeOK, NEW c \in Credentials
  PROVE  /\ row[c].fingerprint \in Secrets \cup {None} /\ row[c].due \in Dues
         /\ Exists(c) <=> row[c] \in RowType
         /\ Exists(c) <=> row[c].status \in Statuses
         /\ ~Exists(c) => row[c].fingerprint = None /\ row[c].status = None
<1>1. row[c] \in RowType \/ row[c] = NoRow
  BY DEF TypeOK
<1>2. None \notin Statuses
  BY DEF None, Statuses, Rotating
<1>. QED BY <1>1, <1>2 DEF RowType, NoRow, Exists, Dues

(* A request under way is a record of what it has read.                    *)
LEMMA RequestParts ==
  ASSUME TypeOK, NEW q \in Requests
  PROVE  /\ InFlight(q) <=> request[q] \in RequestType
         /\ InFlight(q) <=> request[q].phase \in {"read", "stored"}
         /\ InFlight(q) => /\ CredentialOf(q) \in Credentials
                           /\ request[q].secret \in Secrets \cup {None}
                           /\ request[q].seen \in RowType \cup {NoRow}
                           /\ request[q].overlapped \in BOOLEAN /\ request[q].failure \in BOOLEAN
<1>1. request[q] \in RequestType \/ request[q] = NoRequest
  BY DEF TypeOK
<1>. QED BY <1>1 DEF RequestType, NoRequest, InFlight, CredentialOf

(* What compute_status() returns, and that it makes nothing invalid.       *)
LEMMA StatusParts ==
  ASSUME NEW status \in Statuses, NEW due \in Dues
  PROVE  /\ ComputeStatus(status, due) \in Statuses
         /\ ComputeStatus(status, due) = "INVALID" <=> status = "INVALID"
         /\ DueStatus(due) \in Rotating
<1>1. DueStatus(due) \in Rotating
  BY DEF DueStatus, Rotating, Dues
<1>. QED BY <1>1 DEF ComputeStatus, Statuses, Rotating

(* A step that changes nothing but statuses and due dates, and makes no    *)
(* row invalid.                                                            *)
LEMMA EditKeeps ==
  ASSUME Inv, UNCHANGED <<store, request, disturbed, unhealed>>, TypeOK',
         \A c \in Credentials :
           /\ Exists(c)' <=> Exists(c)
           /\ row'[c].fingerprint = row[c].fingerprint
           /\ row'[c].status = "INVALID" => row[c].status = "INVALID"
  PROVE  Requested' /\ Kept'
<1>1. Kept'
  BY DEF Inv, Kept, SecretIsThere, FingerprintIsOfStoredSecret, InvalidIsExplained
<1>2. ASSUME NEW q \in Requests, InFlight(q)'
      PROVE  Backed(q)' /\ Alone(q)' /\ Marked(q)' /\ Unfailed(q)'
  <2>1. InFlight(q) /\ CredentialOf(q) \in Credentials /\ CredentialOf(q)' = CredentialOf(q)
    BY <1>2, RequestParts DEF Inv, InFlight, CredentialOf
  <2>2. Backed(q) /\ Alone(q) /\ Marked(q) /\ Unfailed(q)
    BY <2>1 DEF Inv, Requested
  <2>3. Backed(q)'
    BY <2>1, <2>2 DEF Backed, CredentialOf, Exists
  <2>4. Alone(q)'
    BY <2>1, <2>2 DEF Alone, CredentialOf, SharesReference, InFlight
  <2>5. Marked(q)' /\ Unfailed(q)'
    BY <2>1, <2>2 DEF Marked, Unfailed, CredentialOf
  <2>. QED BY <2>3, <2>4, <2>5
<1>. QED BY <1>1, <1>2 DEF Requested

-----------------------------------------------------------------------------
(* Edits, time, and the scan.                                              *)

(* One row gets another status and due date.                               *)
LEMMA OneEdit ==
  ASSUME Inv, UNCHANGED <<store, request, scan, disturbed, unhealed>>,
         made' \in [requests : 0..MaxRequests, checks : 0..MaxChecks, edits : 0..MaxEdits],
         check' \in CheckType \cup {NoCheck},
         check' # NoCheck => check # NoCheck /\ check'.credential = check.credential,
         NEW c \in Credentials, Exists(c),
         NEW r \in RowType, row' = [row EXCEPT ![c] = r], r.fingerprint = row[c].fingerprint,
         r.status = "INVALID" => row[c].status = "INVALID"
  PROVE  Inv'
<1>1. row \in [Credentials -> RowType \cup {NoRow}]
  BY DEF Inv, TypeOK
<1>2. row' \in [Credentials -> RowType \cup {NoRow}] /\ row'[c] = r
  BY <1>1
<1>3. \A d \in Credentials : d # c => row'[d] = row[d]
  BY <1>1
<1>4. Exists(c)'
  <2>1. r.status # None /\ NoRow.status = None
    BY DEF Statuses, Rotating, None, RowType, NoRow
  <2>. QED BY <1>2, <2>1 DEF Exists
<1>5. \A d \in Credentials :
        /\ Exists(d)' <=> Exists(d)
        /\ row'[d].fingerprint = row[d].fingerprint
        /\ row'[d].status = "INVALID" => row[d].status = "INVALID"
  BY <1>2, <1>3, <1>4 DEF Exists
<1>6. TypeOK'
  BY <1>2 DEF Inv, TypeOK
<1>7. Requested' /\ Kept'
  BY <1>5, <1>6, EditKeeps
<1>8. Known'
  <2>1. check # NoCheck => check.credential \in Credentials
    BY DEF Inv, TypeOK, CheckType
  <2>2. DOMAIN scan.writes \subseteq Credentials
    BY DEF Inv, TypeOK
  <2>. QED BY <1>5, <2>1, <2>2 DEF Inv, Known, Exists
<1>. QED BY <1>6, <1>7, <1>8 DEF Inv

(* update_credential() and the clock.                                      *)
LEMMA EditsKeep ==
  ASSUME Inv, NEW c \in Credentials,
         Disable(c) \/ Tick(c) \/ \E due \in Dues : UpdatePolicy(c, due)
  PROVE  Inv'
<1>1. /\ UNCHANGED <<store, request, check, scan, disturbed, unhealed>>
      /\ check' \in CheckType \cup {NoCheck} /\ Exists(c)
      /\ made' \in [requests : 0..MaxRequests, checks : 0..MaxChecks, edits : 0..MaxEdits]
  <2>1. /\ UNCHANGED <<store, request, check, scan, disturbed, unhealed>> /\ Exists(c)
        /\ made.edits < MaxEdits /\ made' = [made EXCEPT !.edits = made.edits + 1]
    BY DEF Disable, Tick, UpdatePolicy, Edit
  <2>2. /\ made \in [requests : 0..MaxRequests, checks : 0..MaxChecks, edits : 0..MaxEdits]
        /\ check \in CheckType \cup {NoCheck}
    BY DEF Inv, TypeOK
  <2>3. made.edits + 1 \in 0..MaxEdits
    BY <2>1, <2>2, CredentialAssumption
  <2>. QED BY <2>1, <2>2, <2>3
<1>2. row[c] \in RowType /\ row \in [Credentials -> RowType \cup {NoRow}]
  BY <1>1, RowParts DEF Inv, TypeOK
<1>3. CASE Disable(c)
  <2> DEFINE r == [row[c] EXCEPT !.status = "DISABLED"]
  <2>1. r \in RowType /\ r.fingerprint = row[c].fingerprint /\ r.status # "INVALID"
    BY <1>2 DEF RowType, Statuses
  <2>2. row' = [row EXCEPT ![c] = r]
    BY <1>3 DEF Disable
  <2> HIDE DEF r
  <2>. QED BY <1>1, <2>1, <2>2, OneEdit
<1>4. CASE Tick(c)
  <2> DEFINE r == [row[c] EXCEPT !.due = IF @ = "far" THEN "soon" ELSE "past"]
  <2>1. r \in RowType /\ r.fingerprint = row[c].fingerprint /\ r.status = row[c].status
    BY <1>2 DEF RowType, Dues
  <2>2. row' = [row EXCEPT ![c] = r]
    BY <1>4 DEF Tick
  <2> HIDE DEF r
  <2>. QED BY <1>1, <2>1, <2>2, OneEdit
<1>5. ASSUME NEW due \in Dues, UpdatePolicy(c, due)
      PROVE  Inv'
  <2> DEFINE status == ComputeStatus(row[c].status, due)
             r == [row[c] EXCEPT !.due = due, !.status = status]
  <2>1. status \in Statuses /\ (status = "INVALID" => row[c].status = "INVALID")
    BY <1>2, StatusParts DEF RowType
  <2>2. row' = [row EXCEPT ![c] = r]
    BY <1>2, <1>5 DEF UpdatePolicy, RowType
  <2> HIDE DEF status
  <2>3. r \in RowType /\ r.fingerprint = row[c].fingerprint /\ r.status = status
    BY <1>2, <2>1 DEF RowType
  <2> HIDE DEF r
  <2>. QED BY <1>1, <2>1, <2>2, <2>3, OneEdit
<1>. QED BY <1>3, <1>4, <1>5

(* A validation that passed makes no row worse.                            *)
LEMMA CheckKeeps ==
  ASSUME Inv, RecordSuccess
  PROVE  Inv'
<1>1. /\ check \in CheckType /\ check.phase = "loaded" /\ check # NoCheck
      /\ check' = [check EXCEPT !.phase = "passed"]
      /\ UNCHANGED <<store, request, scan, made, disturbed, unhealed>>
  BY DEF RecordSuccess, Inv, TypeOK, NoCheck
<1>2. PICK c \in Credentials : c = check.credential
  BY <1>1 DEF CheckType
<1>3. check' \in CheckType /\ check'.credential = check.credential
  BY <1>1 DEF CheckType
<1>4. Exists(c) /\ row[c] \in RowType
  BY <1>1, <1>2, RowParts DEF Inv, Known
<1> DEFINE status == IF row[c].status = "INVALID" THEN ComputeStatus(row[c].status, row[c].due)
                     ELSE row[c].status
           r == [row[c] EXCEPT !.status = status]
<1>5. row' = [row EXCEPT ![c] = r]
  BY <1>2, <1>4 DEF RecordSuccess, Inv, TypeOK
<1>6. status \in Statuses /\ (status = "INVALID" => row[c].status = "INVALID")
  BY <1>4, StatusParts DEF RowType
<1> HIDE DEF status
<1>7. r \in RowType /\ r.fingerprint = row[c].fingerprint /\ r.status = status
  BY <1>4, <1>6 DEF RowType
<1> HIDE DEF r
<1>8. made \in [requests : 0..MaxRequests, checks : 0..MaxChecks, edits : 0..MaxEdits]
  BY DEF Inv, TypeOK
<1>. QED BY <1>1, <1>3, <1>4, <1>5, <1>6, <1>7, <1>8, OneEdit

(* The scan writes what it has computed to rows that exist, and none of it *)
(* is INVALID.                                                             *)
LEMMA CommitScanKeeps ==
  ASSUME Inv, CommitScan
  PROVE  Inv'
<1>1. /\ scan' = [on |-> FALSE, writes |-> NoScan]
      /\ UNCHANGED <<store, request, check, made, disturbed, unhealed>>
      /\ row' = [c \in Credentials |->
           IF c \in DOMAIN scan.writes THEN [row[c] EXCEPT !.status = scan.writes[c]] ELSE row[c]]
  BY DEF CommitScan
<1>2. ASSUME NEW c \in Credentials, c \in DOMAIN scan.writes
      PROVE  /\ row'[c] \in RowType /\ row'[c].fingerprint = row[c].fingerprint
             /\ row'[c].status # "INVALID" /\ Exists(c)
  <2>1. Exists(c) /\ row[c] \in RowType
    BY <1>2, RowParts DEF Inv, Known
  <2>2. scan.writes[c] \in Rotating
    BY <1>2 DEF Inv, TypeOK
  <2>3. row'[c] = [row[c] EXCEPT !.status = scan.writes[c]]
    BY <1>1, <1>2
  <2>. QED BY <2>1, <2>2, <2>3 DEF RowType, Statuses, Rotating
<1>3. ASSUME NEW c \in Credentials, c \notin DOMAIN scan.writes
      PROVE  row'[c] = row[c]
  BY <1>1, <1>3
<1>4. \A c \in Credentials :
        /\ Exists(c)' <=> Exists(c)
        /\ row'[c].fingerprint = row[c].fingerprint
        /\ row'[c].status = "INVALID" => row[c].status = "INVALID"
  <2>1. \A r \in RowType : r # NoRow
    BY DEF RowType, NoRow, Statuses, Rotating, None
  <2>. QED BY <1>2, <1>3, <2>1 DEF Exists
<1>5. TypeOK'
  <2>1. \A c \in Credentials : row'[c] \in RowType \cup {NoRow}
    BY <1>2, <1>3 DEF Inv, TypeOK
  <2>2. row' \in [Credentials -> RowType \cup {NoRow}]
    BY <1>1, <2>1
  <2>3. scan'.on \in BOOLEAN /\ scan'.writes \in [{} -> Rotating]
    BY <1>1 DEF NoScan
  <2>4. scan'.writes \in UNION {[S -> Rotating] : S \in SUBSET Credentials}
    BY <2>3
  <2>. QED BY <1>1, <2>2, <2>3, <2>4 DEF Inv, TypeOK
<1>6. Requested' /\ Kept'
  BY <1>1, <1>4, <1>5, EditKeeps
<1>7. Known'
  <2>1. check # NoCheck => check.credential \in Credentials
    BY DEF Inv, TypeOK, CheckType
  <2>2. DOMAIN scan'.writes = {}
    BY <1>1 DEF NoScan
  <2>. QED BY <1>1, <1>4, <2>1, <2>2 DEF Inv, Known, Exists
<1>. QED BY <1>5, <1>6, <1>7 DEF Inv

(* Reading changes no row.                                                 *)
LEMMA ReadKeeps ==
  ASSUME Inv, ReadScan \/ LoadSecret \/ FinishCheck \/ \E c \in Credentials : StartCheck(c)
  PROVE  Inv'
<1>1. UNCHANGED <<row, store, request, disturbed, unhealed>>
  BY DEF ReadScan, LoadSecret, FinishCheck, StartCheck
<1>2. /\ scan'.on \in BOOLEAN
      /\ scan'.writes \in UNION {[S -> Rotating] : S \in SUBSET Credentials}
      /\ \A c \in DOMAIN scan'.writes : Exists(c)
  <2>1. CASE scan' = scan
    BY <2>1 DEF Inv, TypeOK, Known
  <2>2. CASE ReadScan
    <3> DEFINE stale == {c \in Credentials : Exists(c) /\ ComputeStatus(row[c].status, row[c].due) # row[c].status}
    <3>1. scan' = [on |-> TRUE, writes |-> [c \in stale |-> DueStatus(row[c].due)]]
      BY <2>2 DEF ReadScan
    <3>2. \A c \in stale : Exists(c) /\ DueStatus(row[c].due) \in Rotating
      BY RowParts, StatusParts DEF Inv
    <3>3. stale \in SUBSET Credentials
      OBVIOUS
    <3> HIDE DEF stale
    <3>4. scan'.writes \in [stale -> Rotating]
      BY <3>1, <3>2
    <3>. QED BY <3>1, <3>2, <3>3, <3>4
  <2>. QED BY <2>1, <2>2 DEF LoadSecret, FinishCheck, StartCheck
<1>3. /\ check' \in CheckType \cup {NoCheck}
      /\ check' # NoCheck => check'.credential \in Credentials /\ Exists(check'.credential)
  <2>1. CASE check' = check
    BY <2>1 DEF Inv, TypeOK, Known, CheckType
  <2>2. CASE LoadSecret
    <3>1. check \in CheckType /\ check # NoCheck
      BY <2>2 DEF LoadSecret, Inv, TypeOK, NoCheck
    <3>2. store[Reference[check.credential]] \in Secrets \cup {None}
      BY <3>1, CredentialAssumption DEF CheckType, Inv, TypeOK
    <3>3. check' \in CheckType /\ check'.credential = check.credential
      BY <2>2, <3>1, <3>2 DEF LoadSecret, CheckType
    <3>. QED BY <3>1, <3>3 DEF Inv, Known, CheckType
  <2>3. ASSUME NEW c \in Credentials, StartCheck(c)
        PROVE  check' \in CheckType /\ check'.credential = c /\ Exists(c)
    BY <2>3 DEF StartCheck, CheckType
  <2>4. CASE FinishCheck
    BY <2>4 DEF FinishCheck
  <2>. QED BY <2>1, <2>2, <2>3, <2>4 DEF ReadScan
<1>4. made' \in [requests : 0..MaxRequests, checks : 0..MaxChecks, edits : 0..MaxEdits]
  <2>1. made \in [requests : 0..MaxRequests, checks : 0..MaxChecks, edits : 0..MaxEdits]
    BY DEF Inv, TypeOK
  <2>2. ASSUME NEW c \in Credentials, StartCheck(c)
        PROVE  made' = [made EXCEPT !.checks = made.checks + 1] /\ made.checks + 1 \in 0..MaxChecks
    BY <2>1, <2>2, CredentialAssumption DEF StartCheck
  <2>. QED BY <2>1, <2>2 DEF ReadScan, LoadSecret, FinishCheck
<1>5. TypeOK'
  BY <1>1, <1>2, <1>3, <1>4 DEF Inv, TypeOK
<1>6. Requested' /\ Kept'
  BY <1>1, <1>5, EditKeeps DEF Exists
<1>7. Known'
  BY <1>1, <1>2, <1>3 DEF Known, Exists
<1>. QED BY <1>5, <1>6, <1>7 DEF Inv

(* A failed validation marks the row, and every request under way for it.  *)
LEMMA RecordFailureKeeps ==
  ASSUME Inv, RecordFailure
  PROVE  Inv'
<1>1. PICK c \in Credentials : c = check.credential /\ Exists(c)
  BY DEF RecordFailure, Inv, Known, TypeOK, CheckType
<1>2. /\ row' = [row EXCEPT ![c].status = "INVALID"] /\ unhealed' = unhealed \cup {c}
      /\ request' = [q \in Requests |->
           IF InFlight(q) /\ CredentialOf(q) = c
             THEN [request[q] EXCEPT !.failure = TRUE] ELSE request[q]]
      /\ check' = NoCheck /\ UNCHANGED <<store, scan, made, disturbed>>
  BY <1>1 DEF RecordFailure, CredentialOf
<1>3. row[c] \in RowType /\ row \in [Credentials -> RowType \cup {NoRow}]
  BY <1>1, RowParts DEF Inv, TypeOK
<1>4. /\ row'[c] \in RowType /\ row'[c].fingerprint = row[c].fingerprint
      /\ \A d \in Credentials : d # c => row'[d] = row[d]
      /\ row' \in [Credentials -> RowType \cup {NoRow}]
  BY <1>2, <1>3 DEF RowType, Statuses
<1>5. \A d \in Credentials : Exists(d)' <=> Exists(d)
  <2>1. \A r \in RowType : r # NoRow
    BY DEF RowType, NoRow, Statuses, Rotating, None
  <2>. QED BY <1>1, <1>4, <2>1 DEF Exists
<1>6. ASSUME NEW q \in Requests
      PROVE  /\ request'[q] \in RequestType \cup {NoRequest}
             /\ InFlight(q)' <=> InFlight(q)
             /\ InFlight(q) =>
                  /\ CredentialOf(q)' = CredentialOf(q) /\ request'[q].phase = request[q].phase
                  /\ request'[q].secret = request[q].secret /\ request'[q].seen = request[q].seen
                  /\ request'[q].overlapped = request[q].overlapped
                  /\ request'[q].failure = (request[q].failure \/ CredentialOf(q) = c)
  <2>1. CASE InFlight(q) /\ CredentialOf(q) = c
    <3>1. request[q] \in RequestType /\ request'[q] = [request[q] EXCEPT !.failure = TRUE]
      BY <1>2, <2>1, RequestParts DEF Inv
    <3>. QED BY <2>1, <3>1 DEF RequestType, InFlight, NoRequest, CredentialOf
  <2>2. CASE ~(InFlight(q) /\ CredentialOf(q) = c)
    <3>1. request'[q] = request[q] /\ request[q] \in RequestType \cup {NoRequest}
      BY <1>2, <2>2 DEF Inv, TypeOK
    <3>2. InFlight(q) => request[q].failure \in BOOLEAN
      BY RequestParts DEF Inv
    <3>. QED BY <2>2, <3>1, <3>2 DEF InFlight, CredentialOf
  <2>. QED BY <2>1, <2>2
<1>7. TypeOK'
  <2>1. request' \in [Requests -> RequestType \cup {NoRequest}]
    BY <1>2, <1>6
  <2>. QED BY <1>2, <1>4, <2>1 DEF Inv, TypeOK
<1>8. Kept'
  BY <1>2, <1>4 DEF Inv, Kept, SecretIsThere, FingerprintIsOfStoredSecret, InvalidIsExplained
<1>9. Known'
  BY <1>2, <1>5 DEF Inv, TypeOK, Known
<1>10. ASSUME NEW q \in Requests, InFlight(q)'
       PROVE  Backed(q)' /\ Alone(q)' /\ Marked(q)' /\ Unfailed(q)'
  <2>1. InFlight(q) /\ CredentialOf(q) \in Credentials /\ CredentialOf(q)' = CredentialOf(q)
    BY <1>6, <1>10, RequestParts DEF Inv
  <2>2. Backed(q) /\ Alone(q) /\ Marked(q) /\ Unfailed(q)
    BY <2>1 DEF Inv, Requested
  <2>3. row'[CredentialOf(q)].fingerprint = row[CredentialOf(q)].fingerprint
    BY <1>4, <2>1
  <2>4. Backed(q)'
    BY <1>2, <1>5, <1>6, <2>1, <2>2 DEF Backed, Exists
  <2>5. Alone(q)'
    BY <1>2, <1>6, <2>1, <2>2, <2>3 DEF Alone, SharesReference, CredentialOf
  <2>6. Marked(q)'
    BY <1>2, <1>6, <2>1, <2>2 DEF Marked
  <2>7. Unfailed(q)'
    BY <1>4, <1>6, <2>1, <2>2 DEF Unfailed
  <2>. QED BY <2>4, <2>5, <2>6, <2>7
<1>. QED BY <1>7, <1>8, <1>9, <1>10 DEF Inv, Requested

-----------------------------------------------------------------------------
(* Requests.                                                               *)

(* A request ends: nobody else is disturbed by that.                       *)
LEMMA FailKeeps ==
  ASSUME Inv, NEW q \in Requests, Fail(q)
  PROVE  Inv'
<1>1. /\ request' = [request EXCEPT ![q] = NoRequest]
      /\ UNCHANGED <<row, store, check, scan, made, disturbed, unhealed>>
  BY DEF Fail, Done
<1>2. TypeOK'
  BY <1>1 DEF Inv, TypeOK
<1>3. Kept' /\ Known'
  BY <1>1 DEF Inv, Kept, Known, SecretIsThere, FingerprintIsOfStoredSecret, InvalidIsExplained, Exists
<1>4. \A p \in Requests : InFlight(p)' => p # q /\ InFlight(p) /\ request'[p] = request[p]
  BY <1>1 DEF Inv, TypeOK, InFlight
<1>5. ASSUME NEW p \in Requests, InFlight(p)'
      PROVE  Backed(p)' /\ Alone(p)' /\ Marked(p)' /\ Unfailed(p)'
  <2>1. request'[p] = request[p] /\ Backed(p) /\ Alone(p) /\ Marked(p) /\ Unfailed(p)
    BY <1>4, <1>5 DEF Inv, Requested
  <2>2. Backed(p)' /\ Marked(p)' /\ Unfailed(p)'
    BY <1>1, <2>1 DEF Backed, Marked, Unfailed, CredentialOf, Exists
  <2>3. Alone(p)'
    BY <1>1, <1>4, <2>1 DEF Alone, SharesReference, CredentialOf
  <2>. QED BY <2>2, <2>3
<1>. QED BY <1>2, <1>3, <1>5 DEF Inv, Requested

(* A request begins: it and those it shares its reference with overlap.    *)
LEMMA BeginKeeps ==
  ASSUME Inv, NEW q \in Requests, NEW c \in Credentials, NEW s \in Secrets \cup {None},
         Begin(q, c, s), Exists(c) => s # None
  PROVE  Inv'
<1> DEFINE others == {p \in Requests \ {q} : SharesReference(p, c)}
           new == [phase |-> "read", credential |-> c, secret |-> s, seen |-> row[c],
                   overlapped |-> others # {}, failure |-> FALSE]
<1>1. /\ request[q] = NoRequest
      /\ request' = [p \in Requests |->
           CASE p = q -> new
             [] p \in others -> [request[p] EXCEPT !.overlapped = TRUE]
             [] OTHER -> request[p]]
      /\ UNCHANGED <<row, store, check, scan, disturbed, unhealed>>
  BY DEF Begin
<1>2. new \in RequestType /\ new # NoRequest
  <2>1. row[c] \in RowType \cup {NoRow}
    BY DEF Inv, TypeOK
  <2>. QED BY <2>1 DEF RequestType, NoRequest
<1>3. request'[q] = new
  BY <1>1
<1>4. ASSUME NEW p \in Requests, p # q
      PROVE  /\ request'[p] \in RequestType \cup {NoRequest}
             /\ InFlight(p)' <=> InFlight(p)
             /\ InFlight(p) =>
                  /\ CredentialOf(p)' = CredentialOf(p) /\ request'[p].phase = request[p].phase
                  /\ request'[p].secret = request[p].secret /\ request'[p].seen = request[p].seen
                  /\ request'[p].failure = request[p].failure
                  /\ request'[p].overlapped = (request[p].overlapped \/ SharesReference(p, c))
  <2>1. CASE p \in others
    <3>1. InFlight(p) /\ SharesReference(p, c)
      BY <2>1 DEF SharesReference
    <3>2. request[p] \in RequestType /\ request'[p] = [request[p] EXCEPT !.overlapped = TRUE]
      BY <1>1, <1>4, <2>1, <3>1, RequestParts DEF Inv
    <3>. QED BY <3>1, <3>2 DEF RequestType, InFlight, NoRequest, CredentialOf
  <2>2. CASE p \notin others
    <3>1. request'[p] = request[p] /\ request[p] \in RequestType \cup {NoRequest} /\ ~SharesReference(p, c)
      BY <1>1, <1>4, <2>2 DEF Inv, TypeOK
    <3>2. InFlight(p) => request[p].overlapped \in BOOLEAN
      BY RequestParts DEF Inv
    <3>. QED BY <3>1, <3>2 DEF InFlight, CredentialOf
  <2>. QED BY <2>1, <2>2
<1>5. TypeOK'
  <2>1. request' \in [Requests -> RequestType \cup {NoRequest}]
    BY <1>1, <1>2, <1>3, <1>4
  <2>2. made' \in [requests : 0..MaxRequests, checks : 0..MaxChecks, edits : 0..MaxEdits]
    <3>1. /\ made \in [requests : 0..MaxRequests, checks : 0..MaxChecks, edits : 0..MaxEdits]
          /\ made.requests < MaxRequests /\ made' = [made EXCEPT !.requests = made.requests + 1]
      BY DEF Inv, TypeOK, Begin
    <3>2. made.requests + 1 \in 0..MaxRequests
      BY <3>1, CredentialAssumption
    <3>. QED BY <3>1, <3>2
  <2>. QED BY <1>1, <2>1, <2>2 DEF Inv, TypeOK
<1>6. Kept' /\ Known'
  BY <1>1 DEF Inv, Kept, Known, SecretIsThere, FingerprintIsOfStoredSecret, InvalidIsExplained, Exists
<1>7. Backed(q)' /\ Alone(q)' /\ Marked(q)' /\ Unfailed(q)'
  <2>1. /\ request'[q].phase = "read" /\ CredentialOf(q)' = c /\ request'[q].secret = s
        /\ request'[q].seen = row[c] /\ request'[q].overlapped = (others # {})
        /\ InFlight(q)'
    BY <1>2, <1>3 DEF CredentialOf, InFlight
  <2>2. Backed(q)' /\ Marked(q)' /\ Unfailed(q)'
    BY <1>1, <2>1 DEF Backed, Marked, Unfailed, Exists
  <2>3. Alone(q)'
    <3>1. ASSUME others = {}, NEW p \in Requests, p # q
          PROVE  ~SharesReference(p, c) /\ ~(InFlight(p)' /\ Reference[request'[p].credential] = Reference[c])
      BY <1>4, <3>1 DEF SharesReference, CredentialOf
    <3>. QED BY <1>1, <2>1, <3>1 DEF Alone, SharesReference
  <2>. QED BY <2>2, <2>3
<1>8. ASSUME NEW p \in Requests, p # q, InFlight(p)'
      PROVE  Backed(p)' /\ Alone(p)' /\ Marked(p)' /\ Unfailed(p)'
  <2>1. InFlight(p) /\ CredentialOf(p) \in Credentials
    BY <1>4, <1>8, RequestParts DEF Inv
  <2>2. Backed(p) /\ Alone(p) /\ Marked(p) /\ Unfailed(p)
    BY <2>1 DEF Inv, Requested
  <2>3. Backed(p)' /\ Marked(p)' /\ Unfailed(p)'
    <3>1. /\ CredentialOf(p)' = CredentialOf(p) /\ request'[p].phase = request[p].phase
          /\ request'[p].secret = request[p].secret /\ request'[p].seen = request[p].seen
          /\ request'[p].failure = request[p].failure
      BY <1>4, <1>8, <2>1
    <3>2. Backed(p)'
      BY <1>1, <2>2, <3>1 DEF Backed, Exists
    <3>3. Marked(p)'
      BY <1>1, <2>2, <3>1 DEF Marked
    <3>4. Unfailed(p)'
      BY <1>1, <2>2, <3>1 DEF Unfailed
    <3>. QED BY <3>2, <3>3, <3>4
  <2>4. Alone(p)'
    <3> SUFFICES ASSUME ~request'[p].overlapped PROVE Alone(p)'
      BY DEF Alone
    <3>1. ~request[p].overlapped /\ ~SharesReference(p, c)
      BY <1>4, <1>8, <2>1
    <3>2. Reference[CredentialOf(p)] # Reference[c]
      BY <2>1, <3>1 DEF SharesReference, CredentialOf
    <3>3. ASSUME NEW o \in Requests, o # p
          PROVE  ~(InFlight(o)' /\ Reference[request'[o].credential] = Reference[CredentialOf(p)])
      <4>1. CASE o = q
        BY <1>2, <1>3, <3>2, <4>1
      <4>2. CASE o # q
        BY <1>4, <2>2, <3>1, <3>3, <4>2 DEF Alone, SharesReference, CredentialOf
      <4>. QED BY <4>1, <4>2
    <3>4. /\ CredentialOf(p)' = CredentialOf(p) /\ request'[p].seen = request[p].seen
          /\ request'[p].phase = request[p].phase /\ request'[p].secret = request[p].secret
      BY <1>4, <1>8, <2>1
    <3>. QED BY <1>1, <2>2, <3>1, <3>3, <3>4 DEF Alone, SharesReference
  <2>. QED BY <2>3, <2>4
<1>. QED BY <1>5, <1>6, <1>7, <1>8 DEF Inv, Requested

(* The backend has the secret; whoever shares the reference is disturbed.  *)
LEMMA StoreKeeps ==
  ASSUME Inv, NEW q \in Requests, Store(q)
  PROVE  Inv'
<1>1. InFlight(q) /\ request[q] \in RequestType
  BY RequestParts DEF Store, Inv
<1>2. PICK c \in Credentials, s \in Secrets : c = CredentialOf(q) /\ s = request[q].secret
  BY <1>1 DEF Store, RequestType, CredentialOf
<1>3. /\ store' = [store EXCEPT ![Reference[c]] = s]
      /\ request' = [request EXCEPT ![q].phase = "stored"]
      /\ disturbed' = disturbed \cup {d \in Credentials : Exists(d) /\ Reference[d] = Reference[c]}
      /\ UNCHANGED <<row, check, scan, made, unhealed>>
  BY <1>2 DEF Store, CredentialOf
<1>4. s # None /\ Reference \in [Credentials -> References]
  BY CredentialAssumption
<1>5. /\ store' \in [References -> Secrets \cup {None}]
      /\ \A d \in Credentials :
           store'[Reference[d]] = IF Reference[d] = Reference[c] THEN s ELSE store[Reference[d]]
  BY <1>3, <1>4 DEF Inv, TypeOK
<1>6. /\ request'[q] \in RequestType /\ request'[q].phase = "stored"
      /\ CredentialOf(q)' = c /\ request'[q].secret = s
      /\ request'[q].seen = request[q].seen
      /\ request'[q].overlapped = request[q].overlapped
      /\ request'[q].failure = request[q].failure
      /\ request' \in [Requests -> RequestType \cup {NoRequest}]
      /\ \A p \in Requests : p # q => request'[p] = request[p]
  BY <1>1, <1>2, <1>3 DEF Inv, TypeOK, RequestType, CredentialOf
<1>7. InFlight(q)'
  BY <1>6 DEF InFlight, NoRequest
<1>8. TypeOK'
  BY <1>3, <1>5, <1>6 DEF Inv, TypeOK
<1>9. Known'
  BY <1>3 DEF Inv, Known, Exists
<1>10. Kept'
  <2>1. SecretIsThere'
    BY <1>3, <1>4, <1>5 DEF Inv, Kept, SecretIsThere
  <2>2. ASSUME NEW d \in Credentials, row[d].fingerprint # None, d \notin disturbed'
        PROVE  store'[Reference[d]] = row[d].fingerprint
    <3>1. Exists(d)
      BY <2>2, RowParts DEF Inv
    <3>2. Reference[d] # Reference[c] /\ d \notin disturbed
      BY <1>3, <2>2, <3>1
    <3>. QED BY <1>5, <2>2, <3>2 DEF Inv, Kept, FingerprintIsOfStoredSecret
  <2>3. FingerprintIsOfStoredSecret' /\ InvalidIsExplained'
    BY <1>3, <2>2 DEF FingerprintIsOfStoredSecret, Inv, Kept, InvalidIsExplained
  <2>. QED BY <2>1, <2>3 DEF Kept
<1>11. Backed(q)' /\ Alone(q)' /\ Marked(q)' /\ Unfailed(q)'
  <2>1. Backed(q) /\ Alone(q) /\ Unfailed(q)
    BY <1>1 DEF Inv, Requested
  <2>2. Backed(q)'
    BY <1>2, <1>3, <1>4, <1>5, <1>6, <2>1 DEF Backed, Exists
  <2>3. Alone(q)'
    BY <1>2, <1>3, <1>5, <1>6, <2>1 DEF Alone, SharesReference, InFlight
  <2>4. Marked(q)'
    BY <1>2, <1>3, <1>6, <2>1 DEF Marked, Backed
  <2>5. Unfailed(q)'
    BY <1>2, <1>3, <1>6, <2>1 DEF Unfailed
  <2>. QED BY <2>2, <2>3, <2>4, <2>5
<1>12. ASSUME NEW p \in Requests, p # q, InFlight(p)'
       PROVE  Backed(p)' /\ Alone(p)' /\ Marked(p)' /\ Unfailed(p)'
  <2>1. request'[p] = request[p] /\ InFlight(p)
    BY <1>6, <1>12 DEF InFlight
  <2>2. PICK d \in Credentials : d = CredentialOf(p) /\ d = CredentialOf(p)'
    BY <2>1, RequestParts DEF Inv, CredentialOf
  <2>3. Backed(p) /\ Alone(p) /\ Marked(p) /\ Unfailed(p)
    BY <2>1 DEF Inv, Requested
  <2>4. Backed(p)'
    BY <1>3, <1>4, <1>5, <2>1, <2>2, <2>3 DEF Backed, Exists
  <2>5. Alone(p)'
    <3> SUFFICES ASSUME ~request[p].overlapped PROVE Alone(p)'
      BY <2>1 DEF Alone
    <3>1. ~SharesReference(q, d)
      BY <1>12, <2>2, <2>3 DEF Alone
    <3>2. Reference[d] # Reference[c]
      BY <1>1, <1>2, <3>1 DEF SharesReference, CredentialOf
    <3>3. ASSUME NEW o \in Requests, o # p
          PROVE  ~SharesReference(o, d)'
      <4>1. CASE o = q
        BY <1>6, <3>2, <4>1 DEF SharesReference, CredentialOf
      <4>2. CASE o # q
        BY <1>6, <2>2, <2>3, <3>3, <4>2 DEF Alone, SharesReference, InFlight
      <4>. QED BY <4>1, <4>2
    <3>4. store'[Reference[d]] = store[Reference[d]]
      BY <1>5, <3>2
    <3>. QED BY <1>3, <2>1, <2>2, <2>3, <3>3, <3>4 DEF Alone, SharesReference
  <2>6. Marked(p)' /\ Unfailed(p)'
    BY <1>3, <2>1, <2>2, <2>3 DEF Marked, Unfailed
  <2>. QED BY <2>4, <2>5, <2>6
<1>. QED BY <1>8, <1>9, <1>10, <1>11, <1>12 DEF Inv, Requested

(* A request commits its row: what that means to the other requests.       *)
LEMMA CommitParts ==
  ASSUME Inv, NEW q \in Requests, InFlight(q), NEW c \in Credentials, c = CredentialOf(q),
         NEW r \in RowType, row' = [row EXCEPT ![c] = r],
         r.status = "INVALID" => row[c].status = "INVALID",
         request' = [request EXCEPT ![q] = NoRequest],
         UNCHANGED <<store, check, scan, made>>,
         disturbed' \subseteq Credentials, unhealed' \subseteq Credentials,
         \A d \in disturbed : d \in disturbed' \/ (d = c /\ ~request[q].overlapped)
  PROVE  /\ TypeOK' /\ Requested' /\ Known'
         /\ row'[c] = r /\ \A d \in Credentials : d # c => row'[d] = row[d]
<1>1. /\ row' \in [Credentials -> RowType \cup {NoRow}] /\ row'[c] = r
      /\ \A d \in Credentials : d # c => row'[d] = row[d]
  BY DEF Inv, TypeOK
<1>2. TypeOK'
  BY <1>1 DEF Inv, TypeOK
<1>3. \A d \in Credentials : Exists(d) => Exists(d)'
  <2>1. r # NoRow
    BY DEF RowType, NoRow, Statuses, Rotating, None
  <2>. QED BY <1>1, <2>1 DEF Exists
<1>4. Known'
  <2>1. check # NoCheck => check.credential \in Credentials
    BY DEF Inv, TypeOK, CheckType
  <2>2. DOMAIN scan.writes \subseteq Credentials
    BY DEF Inv, TypeOK
  <2>. QED BY <1>3, <2>1, <2>2 DEF Inv, Known, Exists
<1>5. \A p \in Requests : InFlight(p)' => p # q /\ InFlight(p) /\ request'[p] = request[p]
  BY DEF Inv, TypeOK, InFlight
<1>6. ASSUME NEW p \in Requests, InFlight(p)'
      PROVE  Backed(p)' /\ Alone(p)' /\ Marked(p)' /\ Unfailed(p)'
  <2>1. p # q /\ InFlight(p) /\ request'[p] = request[p]
    BY <1>5, <1>6
  <2>2. PICK d \in Credentials : d = CredentialOf(p) /\ d = CredentialOf(p)'
    BY <2>1, RequestParts DEF Inv, CredentialOf
  <2>3. Backed(p) /\ Alone(p) /\ Marked(p) /\ Unfailed(p) /\ Alone(q)
    BY <2>1 DEF Inv, Requested
  <2>4. d = c => request[p].overlapped /\ request[q].overlapped
    BY <2>1, <2>2, <2>3 DEF Alone, SharesReference, CredentialOf
  <2>5. Backed(p)'
    BY <1>3, <2>1, <2>2, <2>3 DEF Backed, Exists
  <2>6. Alone(p)'
    BY <1>1, <1>5, <2>1, <2>2, <2>3, <2>4 DEF Alone, SharesReference
  <2>7. Marked(p)'
    BY <2>1, <2>2, <2>3, <2>4 DEF Marked
  <2>8. Unfailed(p)'
    BY <1>1, <2>1, <2>2, <2>3 DEF Unfailed
  <2>. QED BY <2>5, <2>6, <2>7, <2>8
<1>. QED BY <1>1, <1>2, <1>4, <1>6 DEF Requested

(* create_credential() inserts a healthy row.                              *)
LEMMA CommitCreateKeeps ==
  ASSUME Inv, NEW q \in Requests, CommitCreate(q)
  PROVE  Inv'
<1>1. InFlight(q) /\ request[q] \in RequestType
  BY RequestParts DEF CommitCreate, ReadyToCommit, Inv
<1>2. PICK c \in Credentials, s \in Secrets \cup {None} : c = CredentialOf(q) /\ s = request[q].secret
  BY <1>1 DEF RequestType, CredentialOf
<1> DEFINE r == [status |-> "HEALTHY", fingerprint |-> s, due |-> "far"]
<1>3. /\ request[q].seen = NoRow /\ ~Exists(c) /\ row' = [row EXCEPT ![c] = r]
      /\ disturbed' = IF request[q].overlapped THEN disturbed \cup {c} ELSE disturbed
      /\ request' = [request EXCEPT ![q] = NoRequest]
      /\ UNCHANGED <<store, check, scan, made, unhealed>>
      /\ request[q].phase = (IF s = None THEN "read" ELSE "stored")
  BY <1>2 DEF CommitCreate, ReadyToCommit, Done, CredentialOf
<1>4. r \in RowType /\ r.status # "INVALID" /\ r.fingerprint = s
  BY DEF RowType, Statuses, Rotating, Dues
<1> HIDE DEF r
<1>5. disturbed' \subseteq Credentials /\ unhealed' \subseteq Credentials /\ disturbed \subseteq disturbed'
  BY <1>3 DEF Inv, TypeOK
<1>6. /\ TypeOK' /\ Requested' /\ Known'
      /\ row'[c] = r /\ \A d \in Credentials : d # c => row'[d] = row[d]
  BY <1>1, <1>2, <1>3, <1>4, <1>5, CommitParts
<1>7. Backed(q) /\ Alone(q)
  BY <1>1 DEF Inv, Requested
<1>8. SecretIsThere'
  <2>1. s # None => store[Reference[c]] # None
    BY <1>2, <1>3, <1>7 DEF Backed
  <2>. QED BY <1>3, <1>4, <1>6, <2>1 DEF Inv, Kept, SecretIsThere
<1>9. FingerprintIsOfStoredSecret'
  <2>1. s # None /\ c \notin disturbed' => store[Reference[c]] = s
    BY <1>2, <1>3, <1>7 DEF Alone
  <2>. QED BY <1>3, <1>4, <1>5, <1>6, <2>1 DEF Inv, Kept, FingerprintIsOfStoredSecret
<1>10. InvalidIsExplained'
  BY <1>3, <1>4, <1>6 DEF Inv, Kept, InvalidIsExplained
<1>. QED BY <1>6, <1>8, <1>9, <1>10 DEF Inv, Kept

(* replace_credential() writes the columns it has changed.                 *)
LEMMA CommitReplaceKeeps ==
  ASSUME Inv, NEW q \in Requests, CommitReplace(q)
  PROVE  Inv'
<1>1. InFlight(q) /\ request[q] \in RequestType /\ request[q].seen # NoRow
  BY RequestParts DEF CommitReplace, ReadyToCommit, Inv
<1>2. PICK c \in Credentials, s \in Secrets \cup {None}, seen \in RowType :
        c = CredentialOf(q) /\ s = request[q].secret /\ seen = request[q].seen
  BY <1>1 DEF RequestType, CredentialOf
<1>3. Backed(q) /\ Alone(q) /\ Marked(q) /\ Unfailed(q)
  BY <1>1 DEF Inv, Requested
<1>4. row[c] \in RowType /\ s # None
  BY <1>1, <1>2, <1>3, RowParts DEF Inv, Backed
<1> DEFINE status == Column(row[c].status, seen.status, "HEALTHY")
           fingerprint == Column(row[c].fingerprint, seen.fingerprint, s)
           r == [row[c] EXCEPT !.status = status, !.fingerprint = fingerprint, !.due = "far"]
<1>5. /\ row' = [row EXCEPT ![c] = r]
      /\ disturbed' = IF request[q].overlapped THEN disturbed ELSE disturbed \ {c}
      /\ unhealed' = IF request[q].failure THEN unhealed ELSE unhealed \ {c}
      /\ request' = [request EXCEPT ![q] = NoRequest]
      /\ UNCHANGED <<store, check, scan, made>>
      /\ request[q].phase = "stored"
  <2>1. row' = [row EXCEPT ![c] = r]
    BY <1>1, <1>2, <1>4 DEF CommitReplace, CredentialOf, RowType, Inv, TypeOK
  <2>. QED BY <1>1, <1>2, <1>4, <2>1 DEF CommitReplace, ReadyToCommit, Settle, Done, CredentialOf
<1>6. /\ status = row[c].status \/ status = "HEALTHY"
      /\ seen.status = "INVALID" => status = "HEALTHY"
  BY DEF Column
<1>7. fingerprint = row[c].fingerprint \/ fingerprint = s
  BY DEF Column
<1>8. ~request[q].overlapped => fingerprint = s
  BY <1>2, <1>3 DEF Column, Alone
<1> HIDE DEF status, fingerprint
<1>9. r \in RowType /\ r.status = status /\ r.fingerprint = fingerprint
  BY <1>4, <1>6, <1>7 DEF RowType, Statuses, Rotating, Dues
<1> HIDE DEF r
<1>10. disturbed' \subseteq Credentials /\ unhealed' \subseteq Credentials
  BY <1>5 DEF Inv, TypeOK
<1>11. /\ TypeOK' /\ Requested' /\ Known'
       /\ row'[c] = r /\ \A d \in Credentials : d # c => row'[d] = row[d]
  <2>1. r.status = "INVALID" => row[c].status = "INVALID"
    BY <1>6, <1>9
  <2>. QED BY <1>1, <1>2, <1>5, <1>9, <1>10, <2>1, CommitParts
<1>12. SecretIsThere'
  <2>1. store[Reference[c]] # None
    BY <1>2, <1>3, <1>5 DEF Backed
  <2>. QED BY <1>5, <1>11, <2>1 DEF Inv, Kept, SecretIsThere
<1>13. FingerprintIsOfStoredSecret'
  <2>1. c \notin disturbed' => ~request[q].overlapped
    BY <1>1, <1>2, <1>3, <1>5 DEF Marked
  <2>2. c \notin disturbed' => store[Reference[c]] = fingerprint
    BY <1>2, <1>3, <1>5, <1>8, <2>1 DEF Alone
  <2>. QED BY <1>5, <1>9, <1>11, <2>2 DEF Inv, Kept, FingerprintIsOfStoredSecret
<1>14. InvalidIsExplained'
  <2>1. ASSUME r.status = "INVALID" PROVE c \in unhealed'
    <3>1. row[c].status = "INVALID" /\ seen.status # "INVALID"
      BY <1>6, <1>9, <2>1
    <3>2. request[q].failure
      BY <1>1, <1>2, <1>3, <3>1 DEF Unfailed
    <3>. QED BY <1>5, <3>1, <3>2 DEF Inv, Kept, InvalidIsExplained
  <2>. QED BY <1>5, <1>11, <2>1 DEF Inv, Kept, InvalidIsExplained
<1>. QED BY <1>11, <1>12, <1>13, <1>14 DEF Inv, Kept

-----------------------------------------------------------------------------
(* The inductive invariant holds.                                          *)
LEMMA InvHolds == Spec => []Inv
<1>1. Init => Inv
  <2> SUFFICES ASSUME Init PROVE Inv
    OBVIOUS
  <2>1. /\ \A c \in Credentials : row[c] = NoRow
        /\ \A q \in Requests : ~InFlight(q)
        /\ check = NoCheck /\ scan.writes = NoScan /\ scan.on = FALSE
    BY DEF Init, InFlight
  <2>2. TypeOK
    <3>1. NoScan \in [{} -> Rotating]
      BY DEF NoScan
    <3>2. scan.writes \in UNION {[S -> Rotating] : S \in SUBSET Credentials}
      BY <2>1, <3>1
    <3>3. made \in [requests : 0..MaxRequests, checks : 0..MaxChecks, edits : 0..MaxEdits]
      BY CredentialAssumption DEF Init
    <3>. QED BY <2>1, <3>2, <3>3 DEF Init, TypeOK
  <2>3. Requested /\ Known
    BY <2>1 DEF Requested, Known, NoScan
  <2>4. Kept
    <3>1. NoRow.fingerprint = None /\ NoRow.status # "INVALID"
      BY DEF NoRow, None
    <3>. QED BY <2>1, <3>1 DEF Kept, SecretIsThere, FingerprintIsOfStoredSecret, InvalidIsExplained
  <2>. QED BY <2>2, <2>3, <2>4 DEF Inv
<1>2. Inv /\ [Next]_vars => Inv'
  <2> SUFFICES ASSUME Inv, [Next]_vars PROVE Inv'
    OBVIOUS
  <2>1. ASSUME NEW q \in Requests, NEW c \in Credentials, NEW s \in Secrets \cup {None},
               BeginCreate(q, c, s) \/ BeginReplace(q, c, s)
        PROVE  Inv'
    BY <2>1, BeginKeeps DEF BeginCreate, BeginReplace
  <2>2. ASSUME NEW q \in Requests, Store(q) \/ CommitCreate(q) \/ CommitReplace(q) \/ Fail(q)
        PROVE  Inv'
    BY <2>2, StoreKeeps, CommitCreateKeeps, CommitReplaceKeeps, FailKeeps
  <2>3. ASSUME NEW c \in Credentials,
               (\E due \in Dues : UpdatePolicy(c, due)) \/ Disable(c) \/ Tick(c) \/ StartCheck(c)
        PROVE  Inv'
    BY <2>3, EditsKeep, ReadKeeps
  <2>4. CASE LoadSecret \/ RecordSuccess \/ FinishCheck \/ RecordFailure \/ ReadScan \/ CommitScan
    BY <2>4, ReadKeeps, CheckKeeps, RecordFailureKeeps, CommitScanKeeps
  <2>5. CASE UNCHANGED vars
    <3>1. /\ UNCHANGED <<row, store, request, disturbed, unhealed, check, scan, made>>
          /\ \A c \in Credentials : Exists(c)' <=> Exists(c)
      BY <2>5 DEF vars, Exists
    <3>2. TypeOK' /\ Known'
      BY <3>1 DEF Inv, TypeOK, Known, Exists
    <3>. QED BY <3>1, <3>2, EditKeeps DEF Inv
  <2>. QED BY <2>1, <2>2, <2>3, <2>4, <2>5 DEF Next
<1>. QED BY <1>1, <1>2, PTL DEF Spec

(* The variables keep their types.                                         *)
THEOREM TypeCorrect == Spec => []TypeOK
<1>1. Inv => TypeOK
  BY DEF Inv
<1>. QED BY <1>1, InvHolds, PTL

(* Nothing removes the secret of a row, in whatever order requests run and *)
(* wherever they fail.                                                     *)
THEOREM SecretsAreThere == Spec => []SecretIsThere
<1>1. Inv => SecretIsThere
  BY DEF Inv, Kept
<1>. QED BY <1>1, InvHolds, PTL

(* A fingerprint nobody has disturbed is that of the secret in the backend. *)
THEOREM FingerprintsAgree == Spec => []FingerprintIsOfStoredSecret
<1>1. Inv => FingerprintIsOfStoredSecret
  BY DEF Inv, Kept
<1>. QED BY <1>1, InvHolds, PTL

(* A row is invalid only by a failed validation that no later replacement  *)
(* has superseded.                                                         *)
THEOREM InvalidRowsAreExplained == Spec => []InvalidIsExplained
<1>1. Inv => InvalidIsExplained
  BY DEF Inv, Kept
<1>. QED BY <1>1, InvHolds, PTL
=============================================================================
