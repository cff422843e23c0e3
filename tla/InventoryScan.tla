---------------------------- MODULE InventoryScan ----------------------------
(***************************************************************************)
(* What the inventory knows of the clusters of several cloud accounts, and *)
(* of the TLS certificates in them.  A discovery lists the clusters of the *)
(* accounts in its scope by their environment tag; a certificate scan      *)
(* lists the secrets of the clusters the inventory has.  Both list first,  *)
(* for as long as the cloud takes, and then store everything in one        *)
(* transaction.  The jobs that run them are JobQueue's; the columns that   *)
(* say when a scope was scanned last are left out.                         *)
(***************************************************************************)
EXTENDS Integers, FiniteSets

CONSTANTS
  Accounts,
  Clusters,
  AccountOf,      \* the account of each cluster
  Environments,
  Scopes,         \* cloud_environments: the environments of each account
  Secrets,        \* names of TLS secrets
  SecretOf,       \* the name of the one secret of each cluster
  Workers,        \* scans under way at one time
  None,
  MaxChanges      \* bound: moves, and clusters a listing leaves out, together

ASSUME InventoryAssumption ==
  /\ AccountOf \in [Clusters -> Accounts]
  /\ SecretOf \in [Clusters -> Secrets]
  /\ Scopes \subseteq Accounts \X Environments
  /\ IsFiniteSet(Clusters)
  /\ Workers \subseteq Nat
  /\ MaxChanges \in Nat

VARIABLES
  where,      \* the cloud: the environment a cluster is tagged with, if it is there
  row,        \* eks_clusters
  tls,        \* the rows of acm_certificates with source kubernetes
  changes,    \* moves and omissions so far
  session     \* the scans under way

vars == <<where, row, tls, changes, session>>

Kinds == {"discovery", "certificates"}
ClusterRow == [env : Environments, present : BOOLEAN]
TlsRow == [holder : Clusters, env : Environments, present : BOOLEAN]
ASSUME NoneAssumption == None \notin Environments \cup ClusterRow \cup TlsRow
NoRows == [c \in Clusters |-> None]
NoTls == [n \in Secrets |-> None]

(* `scopes` are those of the accounts whose listing succeeded, `found` has *)
(* the environment of each cluster listed, `rows` and `tls` what was read. *)
SessionType ==
  [phase : {"listed", "writing"}, kind : Kinds, scopes : SUBSET Scopes,
   found : [Clusters -> Environments \cup {None}],
   rows : [Clusters -> ClusterRow \cup {None}], tls : [Secrets -> TlsRow \cup {None}]]
Idle == [phase |-> "idle"]
IsOpen(w) == session[w] # Idle

TypeOK ==
  /\ where \in [Clusters -> Environments \cup {None}]
  /\ row \in [Clusters -> ClusterRow \cup {None}]
  /\ tls \in [Secrets -> TlsRow \cup {None}]
  /\ changes \in Nat
  /\ session \in [Workers -> {Idle} \cup SessionType]

(* A tag that names no environment of the account is as good as none.      *)
PlacesOf(c) == {e \in Environments : <<AccountOf[c], e>> \in Scopes} \cup {None}

Init ==
  /\ where \in [Clusters -> Environments \cup {None}]
  /\ \A c \in Clusters : where[c] \in PlacesOf(c)
  /\ row = NoRows
  /\ tls = NoTls
  /\ changes = 0
  /\ session = [w \in Workers |-> Idle]

-----------------------------------------------------------------------------
(* The cloud.  A cluster is created, tagged otherwise, or deleted.         *)
Move(c, e) ==
  /\ changes < MaxChanges /\ e \in PlacesOf(c) \ {where[c]}
  /\ where' = [where EXCEPT ![c] = e]
  /\ changes' = changes + 1
  /\ UNCHANGED <<row, tls, session>>

-----------------------------------------------------------------------------
(* The scans.                                                              *)

(* accounts_for_job(): all accounts, one account, or one environment of    *)
(* it.  What a scan of certificates lists does not depend on environments. *)
ScopesOf(accounts) == {s \in Scopes : s[1] \in accounts}
Targets ==
  {Scopes} \cup {ScopesOf({a}) : a \in Accounts} \cup {{s} : s \in Scopes}

IsListed(scopes, c) == \E s \in scopes : s[1] = AccountOf[c]

(* Mutant: present_clusters() returns the missing ones too.                *)
HasAnyRow(c) == row[c] # None

(* present_clusters()                                                      *)
HasRow(c) == row[c] # None /\ row[c].present

(* list_clusters() of EksDiscovery, normalize_ack_cluster(): the clusters  *)
(* whose tag is one of the environments asked for.                         *)
Discovered(scopes, c) ==
  IF <<AccountOf[c], where[c]>> \in scopes THEN where[c] ELSE None

(* _eks_tls_certificates(), _tls_certificates(): the secret of each        *)
(* cluster the inventory has, under the environment the inventory has.     *)
SecretListed(scopes, c) ==
  IF HasRow(c) /\ IsListed(scopes, c) THEN row[c].env ELSE None

Listable(kind, scopes, c) ==
  IF kind = "discovery" THEN Discovered(scopes, c) ELSE SecretListed(scopes, c)

(* _run_bounded(): the accounts are listed side by side, and the others go *)
(* on without one whose listing raises.  A cluster that cannot be          *)
(* described, or whose secrets cannot be listed, is left out; of one that  *)
(* is gone, or has lost its tag, the secrets may be listed or not.  A scan *)
(* has the least number that is free.                                      *)
List(w, kind, scopes, missed) ==
  LET found == {c \in Clusters : Listable(kind, scopes, c) # None}
  IN /\ ~IsOpen(w) /\ \A v \in Workers : v < w => IsOpen(v)
     /\ scopes # {} /\ missed \subseteq found
     /\ changes' = changes + Cardinality({c \in missed : where[c] # None})
     /\ changes' <= MaxChanges
     /\ session' = [session EXCEPT ![w] =
          [phase |-> "listed", kind |-> kind, scopes |-> scopes,
           found |-> [c \in Clusters |->
             IF c \in found \ missed THEN Listable(kind, scopes, c) ELSE None],
           rows |-> NoRows, tls |-> NoTls]]
     /\ UNCHANGED <<where, row, tls>>

Discover(w, target, failed) ==
  \E missed \in SUBSET Clusters : List(w, "discovery", target \ ScopesOf(failed), missed)
ScanCertificates(w, accounts) ==
  \E missed \in SUBSET Clusters : List(w, "certificates", ScopesOf(accounts), missed)

(* _finish_fleet_job(), persist_certificate_results(): the transaction     *)
(* reads the rows.  It does so account by account and writes in between;   *)
(* no two accounts have a row in common but that of a shared secret name.  *)
Read(w) ==
  LET s == session[w]
  IN /\ IsOpen(w) /\ s.phase = "listed"
     /\ session' = [session EXCEPT ![w] =
          IF s.kind = "discovery"
          THEN [s EXCEPT !.phase = "writing",
                  !.rows = [c \in Clusters |-> IF IsListed(s.scopes, c) THEN row[c] ELSE None]]
          ELSE [s EXCEPT !.phase = "writing", !.tls = tls]]
     /\ UNCHANGED <<where, row, tls, changes>>

(* SQLAlchemy writes the columns of a row that some value of it in this    *)
(* transaction differed in from the last one.                              *)
Column(values, last, current) == IF values \subseteq {last} THEN current ELSE last
WriteCluster(values, last, current) ==
  [env |-> Column({v.env : v \in values}, last.env, current.env),
   present |-> Column({v.present : v \in values}, last.present, current.present)]
WriteSecret(values, last, current) ==
  [holder |-> Column({v.holder : v \in values}, last.holder, current.holder),
   env |-> Column({v.env : v \in values}, last.env, current.env),
   present |-> Column({v.present : v \in values}, last.present, current.present)]
Missing(r) == [r EXCEPT !.present = FALSE]

(* Mutant: the query for the clusters that were not found does not ask for *)
(* the environment.                                                        *)
ScopedToAccount(w, c) == session[w].rows[c] # None

(* Mutant: only environments in which something was found are stored, as   *)
(* replace_clusters() groups them.                                         *)
ScopedIfFound(w, c) ==
  LET s == session[w]
  IN /\ s.rows[c] # None
     /\ \E d \in Clusters : AccountOf[d] = AccountOf[c] /\ s.found[d] = s.rows[c].env

(* The row belongs to a scope that is stored.                              *)
Scoped(w, c) ==
  LET s == session[w]
  IN s.rows[c] # None /\ <<AccountOf[c], s.rows[c].env>> \in s.scopes

(* replace_clusters_for_scope() of every scope.  A cluster that has        *)
(* changed its scope is marked missing in the old one, if that is stored   *)
(* before the new one.                                                     *)
Found(w, c) == [env |-> session[w].found[c], present |-> TRUE]
Crossing(w) ==
  {c \in Clusters : session[w].found[c] # None /\ Scoped(w, c)
                     /\ session[w].rows[c].env # session[w].found[c]}
StoreCluster(w, c, marked) ==
  LET read == session[w].rows[c]
      values == IF c \in marked THEN {read, Missing(read)} ELSE {read}
  IN IF session[w].found[c] # None
     THEN IF read = None THEN Found(w, c) ELSE WriteCluster(values, Found(w, c), row[c])
     ELSE IF Scoped(w, c) THEN WriteCluster({read}, Missing(read), row[c])
     ELSE row[c]

(* upsert_discovered() of every secret and mark_missing() of every         *)
(* account.  The id of a row is made of the name of the secret alone: of   *)
(* clusters that share it the one listed last has the row.  The account    *)
(* whose cluster had it may have marked it missing first.                  *)
Holders(w, n) == {c \in Clusters : SecretOf[c] = n /\ session[w].found[c] # None}
Upserted(w, c) == [holder |-> c, env |-> session[w].found[c], present |-> TRUE]
HolderMisses(w, n) ==
  LET read == session[w].tls[n]
  IN /\ read # None /\ IsListed(session[w].scopes, read.holder)
     /\ \A c \in Holders(w, n) : AccountOf[c] # AccountOf[read.holder]
StoreSecret(w, n, last, marked) ==
  LET read == session[w].tls[n]
      before == IF n \in marked THEN {read, Missing(read)} ELSE {read}
      values == before \cup {Upserted(w, c) : c \in Holders(w, n)}
  IN IF Holders(w, n) # {}
     THEN IF read = None THEN Upserted(w, last[n])
          ELSE WriteSecret(values, Upserted(w, last[n]), tls[n])
     ELSE IF HolderMisses(w, n) THEN WriteSecret({read}, Missing(read), tls[n])
     ELSE tls[n]

(* A row that another scan has inserted meanwhile makes the insert fail.   *)
Ready(w, kind) == IsOpen(w) /\ session[w].phase = "writing" /\ session[w].kind = kind
CommitDiscovery(w) ==
  /\ Ready(w, "discovery")
  /\ \A c \in Clusters : session[w].found[c] # None /\ session[w].rows[c] = None => row[c] = None
  /\ \E marked \in SUBSET Crossing(w) :
       row' = [c \in Clusters |-> StoreCluster(w, c, marked)]
  /\ session' = [session EXCEPT ![w] = Idle]
  /\ UNCHANGED <<where, tls, changes>>

CommitCertificates(w) ==
  /\ Ready(w, "certificates")
  /\ \A n \in Secrets : Holders(w, n) # {} /\ session[w].tls[n] = None => tls[n] = None
  /\ \E last \in [Secrets -> Clusters], marked \in SUBSET {n \in Secrets : HolderMisses(w, n)} :
       /\ \A n \in Secrets : Holders(w, n) # {} => last[n] \in Holders(w, n)
       /\ tls' = [n \in Secrets |-> StoreSecret(w, n, last, marked)]
  /\ session' = [session EXCEPT ![w] = Idle]
  /\ UNCHANGED <<where, row, changes>>

Rollback(w) ==
  /\ IsOpen(w)
  /\ session' = [session EXCEPT ![w] = Idle]
  /\ UNCHANGED <<where, row, tls, changes>>

Next ==
  \/ \E c \in Clusters, e \in Environments \cup {None} : Move(c, e)
  \/ \E w \in Workers, target \in Targets, failed \in SUBSET Accounts : Discover(w, target, failed)
  \/ \E w \in Workers, accounts \in SUBSET Accounts : ScanCertificates(w, accounts)
  \/ \E w \in Workers : Read(w) \/ CommitDiscovery(w) \/ CommitCertificates(w) \/ Rollback(w)

Spec == Init /\ [][Next]_vars

Proceed(w) == Rollback(w) \/ Read(w) \/ CommitDiscovery(w) \/ CommitCertificates(w)
FairSpec == Spec /\ \A w \in Workers : WF_vars(Proceed(w))

-----------------------------------------------------------------------------
RowRight(c) ==
  IF where[c] = None THEN row[c] = None \/ ~row[c].present
  ELSE row[c] = [env |-> where[c], present |-> TRUE]

(* A row that says what the cloud says comes to say something else only    *)
(* because the cloud changes, or because of a discovery whose listing of   *)
(* the cluster, or whose reading of its row, is no longer true: no         *)
(* discovery touches what is out of its scope, or of an account that could *)
(* not be listed (repository.py:150).                                      *)
Outdated(w, c) ==
  \/ session[w].found[c] # Discovered(session[w].scopes, c)
  \/ session[w].rows[c] # row[c]
RightRowsStayRight ==
  [][\A c \in Clusters : RowRight(c) /\ ~RowRight(c)' =>
       \/ where'[c] # where[c]
       \/ \E w \in Workers : CommitDiscovery(w) /\ IsListed(session[w].scopes, c) /\ Outdated(w, c)
    ]_vars

(* If discoveries of all environments of an account succeed again and      *)
(* again, its rows come to say what the cloud says and go on to, whatever  *)
(* other scans run beside them.                                            *)
DiscoveryOf(a) ==
  \E w \in Workers :
    CommitDiscovery(w) /\ ScopesOf({a}) \subseteq session[w].scopes
InventoryCatchesUp ==
  \A a \in Accounts :
    []<><<DiscoveryOf(a)>>_vars => <>[](\A c \in Clusters : AccountOf[c] = a => RowRight(c))

(* If the certificate scans succeed as well, a secret name has a present   *)
(* row if and only if some cluster with a secret of that name is there,    *)
(* and the row names such a cluster and its environment.  Of two clusters  *)
(* that share the name (repository.py:33) it may name the one and the      *)
(* environment of the other.                                               *)
TlsRight(n) ==
  LET there == {c \in Clusters : SecretOf[c] = n /\ where[c] # None}
  IN IF there = {} THEN tls[n] = None \/ ~tls[n].present
     ELSE \E c, d \in there : tls[n] = [holder |-> c, env |-> where[d], present |-> TRUE]
CertificatesOf(a) ==
  \E w \in Workers : CommitCertificates(w) /\ ScopesOf({a}) \subseteq session[w].scopes
CertificatesFollow ==
  (\A a \in Accounts : []<><<DiscoveryOf(a)>>_vars /\ []<><<CertificatesOf(a)>>_vars)
    => <>[](\A n \in Secrets : TlsRight(n))
=============================================================================
