--------------------------- MODULE PlatformProofs ----------------------------
(***************************************************************************)
(* Proofs about the two components that write the platform's tables.       *)
(*                                                                         *)
(* InventoryScan, for any accounts, clusters, scopes, scans and changes:   *)
(* its type invariant, and that a row which is right stays right unless    *)
(* the cloud changes or a discovery stores what is no longer true.         *)
(*                                                                         *)
(* PlatformAdmin, for any accounts and environments and any number of      *)
(* handlers and discoveries at one time: its type invariant, that nothing  *)
(* loses its owner and that a stored readiness was earned.  AdminInv, the  *)
(* inductive invariant, says of each handler under way that what it has    *)
(* checked or read still holds when it commits, or that the deletion it    *)
(* overlapped with is noted.                                               *)
(***************************************************************************)
EXTENDS InventoryScan, PlatformAdmin, FiniteSetTheorems, TLAPS

(* A scan has found only clusters of the accounts it has listed.           *)
FoundIsListed ==
  \A w \in Workers, c \in Clusters :
    IsOpen(w) /\ session[w].found[c] # None => IsListed(session[w].scopes, c)

(* No row is deleted: what a scan has read still exists when it stores.    *)
ReadExists ==
  \A w \in Workers :
    IsOpen(w) => /\ \A c \in Clusters : session[w].rows[c] # None => row[c] # None
                 /\ \A n \in Secrets : session[w].tls[n] # None => tls[n] # None

Inv == TypeOK /\ FoundIsListed /\ ReadExists

-----------------------------------------------------------------------------
(* A scan under way has a session of the type.                             *)
LEMMA SessionParts ==
  ASSUME TypeOK, NEW w \in Workers, IsOpen(w)
  PROVE  session[w] \in SessionType
BY DEF TypeOK, IsOpen

(* A written row is a row, whatever its values were.                       *)
LEMMA WrittenCluster ==
  ASSUME NEW values, NEW last \in ClusterRow, NEW current \in ClusterRow
  PROVE  WriteCluster(values, last, current) \in ClusterRow
BY DEF WriteCluster, Column, ClusterRow

(* The same of the certificates.                                           *)
LEMMA WrittenSecret ==
  ASSUME NEW values, NEW last \in TlsRow, NEW current \in TlsRow
  PROVE  WriteSecret(values, last, current) \in TlsRow
BY DEF WriteSecret, Column, TlsRow

(* What a listing puts into `found`.                                       *)
LEMMA ListableType ==
  ASSUME TypeOK, NEW kind \in Kinds, NEW scopes \in SUBSET Scopes, NEW c \in Clusters
  PROVE  /\ Listable(kind, scopes, c) \in Environments \cup {None}
         /\ Listable(kind, scopes, c) # None => IsListed(scopes, c)
<1>1. row[c] \in ClusterRow \cup {None} /\ where[c] \in Environments \cup {None}
  BY DEF TypeOK
<1>2. Discovered(scopes, c) # None => IsListed(scopes, c)
  <2>1. SUFFICES ASSUME <<AccountOf[c], where[c]>> \in scopes
                 PROVE  IsListed(scopes, c)
    BY DEF Discovered
  <2>. QED BY <2>1 DEF IsListed
<1>3. SecretListed(scopes, c) \in Environments \cup {None}
  BY <1>1 DEF SecretListed, HasRow, ClusterRow
<1>. QED BY <1>1, <1>2, <1>3 DEF Listable, SecretListed, Discovered

-----------------------------------------------------------------------------
(* Listing.                                                                *)
LEMMA ListKeeps ==
  ASSUME Inv, NEW w \in Workers, NEW kind \in Kinds, NEW scopes \in SUBSET Scopes,
         NEW missed \in SUBSET Clusters, List(w, kind, scopes, missed)
  PROVE  Inv'
<1> DEFINE s == [phase |-> "listed", kind |-> kind, scopes |-> scopes,
                 found |-> [c \in Clusters |->
                   IF c \in {d \in Clusters : Listable(kind, scopes, d) # None} \ missed
                   THEN Listable(kind, scopes, c) ELSE None],
                 rows |-> NoRows, tls |-> NoTls]
<1>1. session' = [session EXCEPT ![w] = s] /\ UNCHANGED <<where, row, tls>>
  BY DEF List
<1>2. \A c \in Clusters : /\ Listable(kind, scopes, c) \in Environments \cup {None}
                          /\ Listable(kind, scopes, c) # None => IsListed(scopes, c)
  BY ListableType DEF Inv
<1>3. s.found \in [Clusters -> Environments \cup {None}]
  BY <1>2
<1>4. NoRows \in [Clusters -> ClusterRow \cup {None}] /\ NoTls \in [Secrets -> TlsRow \cup {None}]
  BY DEF NoRows, NoTls
<1>5. s \in SessionType
  BY <1>3, <1>4 DEF SessionType
<1>6. changes' \in Nat
  <2>1. IsFiniteSet({c \in missed : where[c] # None})
    BY FS_Subset, InventoryAssumption
  <2>. QED BY <2>1, FS_CardinalityType DEF List, Inv, TypeOK
<1>7. TypeOK'
  BY <1>1, <1>5, <1>6 DEF Inv, TypeOK
<1>8. FoundIsListed'
  <2> SUFFICES ASSUME NEW v \in Workers, NEW c \in Clusters,
                      session'[v] # Idle, session'[v].found[c] # None
               PROVE  IsListed(session'[v].scopes, c)
    BY DEF FoundIsListed, IsOpen, IsListed
  <2>1. CASE v = w
    <3>1. session'[w] = s
      BY <1>1 DEF Inv, TypeOK
    <3>2. Listable(kind, scopes, c) # None
      BY <2>1, <3>1
    <3>. QED BY <2>1, <3>1, <3>2, <1>2
  <2>2. CASE v # w
    <3>1. session'[v] = session[v]
      BY <2>2, <1>1 DEF Inv, TypeOK
    <3>. QED BY <3>1 DEF Inv, FoundIsListed, IsOpen
  <2>. QED BY <2>1, <2>2
<1>9. ReadExists'
  <2>1. \A v \in Workers : v # w => session'[v] = session[v]
    BY <1>1 DEF Inv, TypeOK
  <2>2. /\ session'[w].rows = NoRows /\ session'[w].tls = NoTls
    BY <1>1 DEF Inv, TypeOK
  <2>. QED BY <2>1, <2>2, <1>1 DEF Inv, ReadExists, IsOpen, NoRows, NoTls
<1>. QED BY <1>7, <1>8, <1>9 DEF Inv

(* Reading.                                                                *)
LEMMA ReadKeeps ==
  ASSUME Inv, NEW w \in Workers, Read(w)
  PROVE  Inv'
<1>1. session[w] \in SessionType
  BY SessionParts DEF Read, Inv
<1> DEFINE s == session[w]
           seen == [c \in Clusters |-> IF IsListed(s.scopes, c) THEN row[c] ELSE None]
<1>2. seen \in [Clusters -> ClusterRow \cup {None}] /\ tls \in [Secrets -> TlsRow \cup {None}]
  BY DEF Inv, TypeOK
<1>3. PICK t \in SessionType :
        /\ session' = [session EXCEPT ![w] = t]
        /\ t.found = s.found /\ t.scopes = s.scopes
        /\ t.rows \in {s.rows, seen} /\ t.tls \in {s.tls, tls}
  <2>1. CASE s.kind = "discovery"
    <3>1. session' = [session EXCEPT ![w] = [s EXCEPT !.phase = "writing", !.rows = seen]]
      BY <2>1 DEF Read
    <3>2. [s EXCEPT !.phase = "writing", !.rows = seen] \in SessionType
      BY <1>1, <1>2 DEF SessionType
    <3>. QED BY <3>1, <3>2, <1>1 DEF SessionType
  <2>2. CASE s.kind # "discovery"
    <3>1. session' = [session EXCEPT ![w] = [s EXCEPT !.phase = "writing", !.tls = tls]]
      BY <2>2 DEF Read
    <3>2. [s EXCEPT !.phase = "writing", !.tls = tls] \in SessionType
      BY <1>1, <1>2 DEF SessionType
    <3>. QED BY <3>1, <3>2, <1>1 DEF SessionType
  <2>. QED BY <2>1, <2>2
<1>4. UNCHANGED <<where, row, tls, changes>> /\ IsOpen(w)
  BY DEF Read
<1>5. TypeOK'
  BY <1>3, <1>4 DEF Inv, TypeOK
<1>6. FoundIsListed'
  <2> SUFFICES ASSUME NEW v \in Workers, NEW c \in Clusters,
                      session'[v] # Idle, session'[v].found[c] # None
               PROVE  IsListed(session'[v].scopes, c)
    BY DEF FoundIsListed, IsOpen, IsListed
  <2>1. v = w => session'[v].found = s.found /\ session'[v].scopes = s.scopes /\ IsOpen(v)
    BY <1>3, <1>4 DEF Inv, TypeOK
  <2>2. v # w => session'[v] = session[v]
    BY <1>3 DEF Inv, TypeOK
  <2>. QED BY <2>1, <2>2 DEF Inv, FoundIsListed, IsOpen
<1>7. ReadExists'
  <2>1. \A v \in Workers : v # w => session'[v] = session[v]
    BY <1>3 DEF Inv, TypeOK
  <2>2. /\ session'[w].rows \in {s.rows, seen} /\ session'[w].tls \in {s.tls, tls}
    BY <1>3 DEF Inv, TypeOK
  <2>3. /\ \A c \in Clusters : session'[w].rows[c] # None => row[c] # None
        /\ \A n \in Secrets : session'[w].tls[n] # None => tls[n] # None
    BY <2>2, <1>4 DEF Inv, ReadExists
  <2>. QED BY <2>1, <2>3, <1>4 DEF Inv, ReadExists, IsOpen
<1>. QED BY <1>5, <1>6, <1>7 DEF Inv

(* A scan that ends.                                                       *)
LEMMA EndKeeps ==
  ASSUME Inv, NEW w \in Workers, session' = [session EXCEPT ![w] = Idle],
         row' \in [Clusters -> ClusterRow \cup {None}], tls' \in [Secrets -> TlsRow \cup {None}],
         UNCHANGED <<where, changes>>,
         \A c \in Clusters : row[c] # None => row'[c] # None,
         \A n \in Secrets : tls[n] # None => tls'[n] # None
  PROVE  Inv'
<1>1. TypeOK'
  BY DEF Inv, TypeOK
<1>2. FoundIsListed'
  <2> SUFFICES ASSUME NEW v \in Workers, NEW c \in Clusters,
                      session'[v] # Idle, session'[v].found[c] # None
               PROVE  IsListed(session'[v].scopes, c)
    BY DEF FoundIsListed, IsOpen, IsListed
  <2>1. v # w /\ session'[v] = session[v]
    BY DEF Inv, TypeOK
  <2>. QED BY <2>1 DEF Inv, FoundIsListed, IsOpen
<1>3. ReadExists'
  <2>1. \A v \in Workers : session'[v] # Idle => session'[v] = session[v]
    BY DEF Inv, TypeOK
  <2>. QED BY <2>1 DEF Inv, ReadExists, IsOpen
<1>. QED BY <1>1, <1>2, <1>3 DEF Inv

-----------------------------------------------------------------------------
(* Storing.                                                                *)
LEMMA StoredCluster ==
  ASSUME Inv, NEW w \in Workers, IsOpen(w), NEW c \in Clusters, NEW marked
  PROVE  /\ StoreCluster(w, c, marked) \in ClusterRow \cup {None}
         /\ row[c] # None => StoreCluster(w, c, marked) # None
<1> DEFINE read == session[w].rows[c]
<1>1. /\ session[w].found[c] \in Environments \cup {None}
      /\ read \in ClusterRow \cup {None}
      /\ row[c] \in ClusterRow \cup {None}
      /\ read # None => row[c] # None
  BY SessionParts DEF SessionType, Inv, TypeOK, ReadExists
<1>2. None \notin ClusterRow
  BY NoneAssumption
<1>3. CASE session[w].found[c] # None
  <2>1. Found(w, c) \in ClusterRow
    BY <1>1, <1>3 DEF Found, ClusterRow
  <2>. QED BY <1>1, <1>2, <1>3, <2>1, WrittenCluster DEF StoreCluster
<1>4. CASE session[w].found[c] = None /\ Scoped(w, c)
  <2>1. read \in ClusterRow /\ row[c] \in ClusterRow
    BY <1>1, <1>4 DEF Scoped
  <2>2. Missing(read) \in ClusterRow
    BY <2>1 DEF Missing, ClusterRow
  <2>. QED BY <1>2, <1>4, <2>1, <2>2, WrittenCluster DEF StoreCluster
<1>5. CASE session[w].found[c] = None /\ ~Scoped(w, c)
  BY <1>1, <1>5 DEF StoreCluster
<1>. QED BY <1>3, <1>4, <1>5

(* A discovery or scan that commits leaves a certificate row a row, and    *)
(* deletes none.                                                           *)
LEMMA StoredSecret ==
  ASSUME Inv, NEW w \in Workers, IsOpen(w), NEW n \in Secrets, NEW marked,
         NEW last \in [Secrets -> Clusters],
         Holders(w, n) # {} => last[n] \in Holders(w, n)
  PROVE  /\ StoreSecret(w, n, last, marked) \in TlsRow \cup {None}
         /\ tls[n] # None => StoreSecret(w, n, last, marked) # None
<1> DEFINE read == session[w].tls[n]
<1>1. /\ \A c \in Clusters : session[w].found[c] \in Environments \cup {None}
      /\ read \in TlsRow \cup {None}
      /\ tls[n] \in TlsRow \cup {None}
      /\ read # None => tls[n] # None
  BY SessionParts DEF SessionType, Inv, TypeOK, ReadExists
<1>2. None \notin TlsRow
  BY NoneAssumption
<1>3. CASE Holders(w, n) # {}
  <2>1. Upserted(w, last[n]) \in TlsRow
    BY <1>1, <1>3 DEF Upserted, TlsRow, Holders
  <2>. QED BY <1>1, <1>2, <1>3, <2>1, WrittenSecret DEF StoreSecret
<1>4. CASE Holders(w, n) = {} /\ HolderMisses(w, n)
  <2>1. read \in TlsRow /\ tls[n] \in TlsRow
    BY <1>1, <1>4 DEF HolderMisses
  <2>2. Missing(read) \in TlsRow
    BY <2>1 DEF Missing, TlsRow
  <2>. QED BY <1>2, <1>4, <2>1, <2>2, WrittenSecret DEF StoreSecret
<1>5. CASE Holders(w, n) = {} /\ ~HolderMisses(w, n)
  BY <1>1, <1>5 DEF StoreSecret
<1>. QED BY <1>3, <1>4, <1>5

(* The commit of a discovery.                                              *)
LEMMA CommitDiscoveryKeeps ==
  ASSUME Inv, NEW w \in Workers, CommitDiscovery(w)
  PROVE  Inv'
<1>1. PICK marked \in SUBSET Crossing(w) : row' = [c \in Clusters |-> StoreCluster(w, c, marked)]
  BY DEF CommitDiscovery
<1>2. IsOpen(w) /\ session' = [session EXCEPT ![w] = Idle] /\ UNCHANGED <<where, tls, changes>>
  BY DEF CommitDiscovery, Ready
<1>3. \A c \in Clusters : /\ row'[c] \in ClusterRow \cup {None}
                          /\ row[c] # None => row'[c] # None
  BY <1>1, <1>2, StoredCluster
<1>4. row' \in [Clusters -> ClusterRow \cup {None}]
  BY <1>1, <1>3
<1>5. tls' \in [Secrets -> TlsRow \cup {None}]
  BY <1>2 DEF Inv, TypeOK
<1>. QED BY <1>2, <1>3, <1>4, <1>5, EndKeeps

(* The commit of a scan of certificates.                                   *)
LEMMA CommitCertificatesKeeps ==
  ASSUME Inv, NEW w \in Workers, CommitCertificates(w)
  PROVE  Inv'
<1>1. PICK last \in [Secrets -> Clusters], marked \in SUBSET {n \in Secrets : HolderMisses(w, n)} :
        /\ \A n \in Secrets : Holders(w, n) # {} => last[n] \in Holders(w, n)
        /\ tls' = [n \in Secrets |-> StoreSecret(w, n, last, marked)]
  BY DEF CommitCertificates
<1>2. IsOpen(w) /\ session' = [session EXCEPT ![w] = Idle] /\ UNCHANGED <<where, row, changes>>
  BY DEF CommitCertificates, Ready
<1>3. \A n \in Secrets : /\ tls'[n] \in TlsRow \cup {None}
                         /\ tls[n] # None => tls'[n] # None
  BY <1>1, <1>2, StoredSecret
<1>4. tls' \in [Secrets -> TlsRow \cup {None}]
  BY <1>1, <1>3
<1>5. row' \in [Clusters -> ClusterRow \cup {None}]
  BY <1>2 DEF Inv, TypeOK
<1>. QED BY <1>2, <1>3, <1>4, <1>5, EndKeeps

-----------------------------------------------------------------------------
(* The empty inventory satisfies the invariant.                            *)
LEMMA InitEstablishes == Init => Inv
<1> SUFFICES ASSUME Init PROVE Inv
  OBVIOUS
<1>1. TypeOK
  BY DEF Init, TypeOK, NoRows, NoTls
<1>2. \A w \in Workers : ~IsOpen(w)
  BY DEF Init, IsOpen
<1>. QED BY <1>1, <1>2 DEF Inv, FoundIsListed, ReadExists

(* Every step of the cloud and of the scans keeps the invariant.           *)
LEMMA NextKeeps == Inv /\ [Next]_vars => Inv'
<1> SUFFICES ASSUME Inv, [Next]_vars PROVE Inv'
  OBVIOUS
<1>1. ASSUME NEW c \in Clusters, NEW e \in Environments \cup {None}, Move(c, e)
      PROVE  Inv'
  <2>1. TypeOK'
    BY <1>1 DEF Move, Inv, TypeOK
  <2>2. FoundIsListed' /\ ReadExists'
    BY <1>1 DEF Move, Inv, FoundIsListed, ReadExists, IsOpen, IsListed
  <2>. QED BY <2>1, <2>2 DEF Inv
<1>2. ASSUME NEW w \in Workers, NEW target \in Targets, NEW failed \in SUBSET Accounts,
             Discover(w, target, failed)
      PROVE  Inv'
  <2>1. target \ ScopesOf(failed) \in SUBSET Scopes
    BY <1>2 DEF Targets, ScopesOf
  <2>2. "discovery" \in Kinds
    BY DEF Kinds
  <2>. QED BY <1>2, <2>1, <2>2, ListKeeps DEF Discover
<1>3. ASSUME NEW w \in Workers, NEW accounts \in SUBSET Accounts, ScanCertificates(w, accounts)
      PROVE  Inv'
  <2>1. ScopesOf(accounts) \in SUBSET Scopes /\ "certificates" \in Kinds
    BY DEF ScopesOf, Kinds
  <2>. QED BY <1>3, <2>1, ListKeeps DEF ScanCertificates
<1>4. ASSUME NEW w \in Workers, Rollback(w)
      PROVE  Inv'
  <2>1. row' \in [Clusters -> ClusterRow \cup {None}] /\ tls' \in [Secrets -> TlsRow \cup {None}]
    BY <1>4 DEF Rollback, Inv, TypeOK
  <2>. QED BY <1>4, <2>1, EndKeeps DEF Rollback
<1>5. CASE UNCHANGED vars
  <2>1. TypeOK'
    BY <1>5 DEF vars, Inv, TypeOK
  <2>2. FoundIsListed' /\ ReadExists'
    BY <1>5 DEF vars, Inv, FoundIsListed, ReadExists, IsOpen, IsListed
  <2>. QED BY <2>1, <2>2 DEF Inv
<1>. QED BY <1>1, <1>2, <1>3, <1>4, <1>5, ReadKeeps, CommitDiscoveryKeeps, CommitCertificatesKeeps
         DEF Next

(* The tables and the scans keep their types.                              *)
THEOREM TypeCorrect == Spec => []TypeOK
<1>1. Spec => []Inv
  BY InitEstablishes, NextKeeps, PTL DEF Spec
<1>. QED BY <1>1, PTL DEF Inv

-----------------------------------------------------------------------------
(* A discovery that lists and reads what is true leaves a right row right. *)
LEMMA CommitKeepsRight ==
  ASSUME Inv, NEW w \in Workers, CommitDiscovery(w), NEW c \in Clusters, RowRight(c),
         ~(IsListed(session[w].scopes, c) /\ Outdated(w, c))
  PROVE  RowRight(c)'
<1> DEFINE s == session[w]
           read == s.rows[c]
<1>1. PICK marked \in SUBSET Crossing(w) : row' = [d \in Clusters |-> StoreCluster(w, d, marked)]
  BY DEF CommitDiscovery
<1>2. IsOpen(w) /\ where' = where
  BY DEF CommitDiscovery, Ready
<1>3. row'[c] = StoreCluster(w, c, marked)
  BY <1>1
<1>4. /\ s \in SessionType
      /\ read \in ClusterRow \cup {None} /\ row[c] \in ClusterRow \cup {None}
      /\ where[c] \in Environments \cup {None}
  BY <1>2, SessionParts DEF SessionType, Inv, TypeOK
<1>5. s.scopes \subseteq Accounts \X Environments
  BY <1>4, InventoryAssumption DEF SessionType
<1>6. None \notin Environments /\ None \notin ClusterRow
  BY NoneAssumption
<1>7. CASE ~IsListed(s.scopes, c)
  <2>1. s.found[c] = None
    BY <1>2, <1>7 DEF Inv, FoundIsListed
  <2>2. ~Scoped(w, c)
    BY <1>7 DEF Scoped, IsListed
  <2>. QED BY <2>1, <2>2, <1>2, <1>3 DEF StoreCluster, RowRight
<1>8. CASE IsListed(s.scopes, c)
  <2>1. s.found[c] = Discovered(s.scopes, c) /\ read = row[c]
    BY <1>8 DEF Outdated
  <2>2. CASE where[c] = None
    <3>1. s.found[c] = None
      BY <2>1, <2>2 DEF Discovered
    <3>2. CASE Scoped(w, c)
      <4>1. row'[c] = WriteCluster({row[c]}, Missing(row[c]), row[c])
        BY <1>3, <2>1, <3>1, <3>2 DEF StoreCluster
      <4>2. row[c] \in ClusterRow /\ ~row[c].present
        BY <1>4, <2>1, <2>2, <3>2 DEF Scoped, RowRight
      <4>3. ~row'[c].present
        BY <4>1, <4>2 DEF WriteCluster, Column, Missing, ClusterRow
      <4>. QED BY <4>3, <1>2, <2>2 DEF RowRight
    <3>3. CASE ~Scoped(w, c)
      BY <1>2, <1>3, <3>1, <3>3 DEF StoreCluster, RowRight
    <3>. QED BY <3>2, <3>3
  <2>3. CASE where[c] # None
    <3> DEFINE right == [env |-> where[c], present |-> TRUE]
    <3>1. row[c] = right /\ read = right /\ row[c] # None
      <4>1. row[c] = right
        BY <2>3 DEF RowRight
      <4>2. right \in ClusterRow
        BY <1>4, <2>3 DEF ClusterRow
      <4>. QED BY <4>1, <4>2, <1>6, <2>1
    <3>2. CASE <<AccountOf[c], where[c]>> \in s.scopes
      <4>1. s.found[c] = where[c]
        BY <2>1, <3>2 DEF Discovered
      <4>2. PICK values : StoreCluster(w, c, marked) = WriteCluster(values, Found(w, c), row[c])
        BY <2>1, <2>3, <3>1, <4>1 DEF StoreCluster
      <4>3. WriteCluster(values, right, right) = right
        BY DEF WriteCluster, Column
      <4>4. Found(w, c) = right
        BY <4>1 DEF Found
      <4>. QED BY <1>2, <1>3, <2>3, <3>1, <4>2, <4>3, <4>4 DEF RowRight
    <3>3. CASE <<AccountOf[c], where[c]>> \notin s.scopes
      <4>1. s.found[c] = None
        BY <2>1, <3>3 DEF Discovered
      <4>2. ~Scoped(w, c)
        BY <3>1, <3>3 DEF Scoped
      <4>. QED BY <1>2, <1>3, <2>3, <3>1, <4>1, <4>2 DEF StoreCluster, RowRight
    <3>. QED BY <3>2, <3>3
  <2>. QED BY <2>2, <2>3
<1>. QED BY <1>7, <1>8

(* Whatever scans overlap, fail or are rolled back, a row that is right is  *)
(* left alone by every discovery whose listing and reading are still true. *)
THEOREM RightRowsAreLeft == Spec => RightRowsStayRight
<1> DEFINE Left ==
      \A c \in Clusters : RowRight(c) /\ ~RowRight(c)' =>
        \/ where'[c] # where[c]
        \/ \E w \in Workers : CommitDiscovery(w) /\ IsListed(session[w].scopes, c) /\ Outdated(w, c)
<1>1. Inv /\ [Next]_vars => [Left]_vars
  <2> SUFFICES ASSUME Inv, [Next]_vars PROVE Left
    OBVIOUS
  <2> SUFFICES ASSUME NEW c \in Clusters, RowRight(c), ~RowRight(c)', where'[c] = where[c]
               PROVE  \E w \in Workers :
                        CommitDiscovery(w) /\ IsListed(session[w].scopes, c) /\ Outdated(w, c)
    OBVIOUS
  <2>1. row' # row
    BY DEF RowRight
  <2>2. PICK w \in Workers : CommitDiscovery(w)
    BY <2>1 DEF Next, vars, Move, Discover, ScanCertificates, List, Read, CommitCertificates, Rollback
  <2>. QED BY <2>2, CommitKeepsRight
<1>2. Spec => []Inv
  BY InitEstablishes, NextKeeps, PTL DEF Spec
<1>. QED BY <1>1, <1>2, PTL DEF Spec, RightRowsStayRight

-----------------------------------------------------------------------------
(* Administration.                                                         *)

(* The readiness values that say the account has been validated.           *)
EarnedValues == {"READY", "DISCOVERY_PENDING", "ACTIVE", "VALIDATION_FAILED"}

(* What a handler under way has checked or read still holds, or its owner's *)
(* deletion has been noted.                                                *)
SoundRequest(q) ==
  /\ q.op = "create account" => q.provider \in providers \/ q.account \in overlapped
  /\ q.op = "create environment" =>
       /\ HasAccount(AliasOf[q.env])
       /\ q.base \in EarnedValues => account[AliasOf[q.env]].validated
  /\ q.op = "delete environment" => q.env \notin present \/ q.env \in overlapped
  /\ q.op = "validate" => \A a \in Aliases : q.rows[a] # Nothing => HasAccount(a)

(* The scopes of a discovery under way.                                    *)
SoundJob(j) ==
  job[j] # Nothing => \A e \in job[j] : HasEnvironment(e) \/ e \in overlapped

(* A failed validation is a validation.                                    *)
SoundAccount(a) ==
  HasAccount(a) /\ account[a].validation = "FAILED" => account[a].validated

AdminInv ==
  /\ AdminTypeOK /\ NothingIsHomeless /\ ReadinessIsEarned
  /\ \A r \in Requests : SoundRequest(request[r])
  /\ \A j \in Jobs : SoundJob(j)
  /\ \A a \in Aliases : SoundAccount(a)

-----------------------------------------------------------------------------
(* Operators of PlatformAdmin.                                             *)

(* account_readiness(): a readiness, and one that is earned only if the    *)
(* account was validated.                                                  *)
LEMMA ReadinessOfAccount ==
  ASSUME NEW a \in AccountRow, a.validation = "FAILED" => a.validated
  PROVE  /\ AccountReadiness(a) \in Readiness
         /\ AccountReadiness(a) \in EarnedValues => a.validated
BY DEF AccountReadiness, Readiness, EarnedValues, AccountRow

(* environment_readiness(): it is earned only if that of the account is.   *)
LEMMA ReadinessOfEnvironment ==
  ASSUME NEW e \in EnvironmentRow, NEW base \in Readiness
  PROVE  /\ EnvironmentReadiness(e, base) \in Readiness
         /\ EnvironmentReadiness(e, base) \in EarnedValues => base \in EarnedValues
BY DEF EnvironmentReadiness, Readiness, EarnedValues, EnvironmentRow

(* The rows, and what may be said of them without looking at the handlers. *)
LEMMA AdminRows ==
  ASSUME AdminInv
  PROVE  /\ \A a \in Aliases : HasAccount(a) => account[a] \in AccountRow
         /\ \A e \in ScopeIds : HasEnvironment(e) => env[e] \in EnvironmentRow
         /\ \A e \in ScopeIds : AliasOf[e] \in Aliases
         /\ Nothing \notin AccountRow /\ Nothing \notin EnvironmentRow
BY PlatformAssumption, NothingAssumption
   DEF AdminInv, AdminTypeOK, HasAccount, HasEnvironment

(* The fields of a handler's operation.                                    *)
LEMMA AdminRequests ==
  ASSUME AdminInv, NEW r \in Requests
  PROVE  /\ Is(r, "create account") =>
              request[r].account \in Aliases /\ request[r].provider \in Providers
         /\ Is(r, "delete account") => request[r].account \in Aliases
         /\ Is(r, "delete provider") => request[r].provider \in Providers
         /\ Is(r, "create environment") =>
              request[r].env \in ScopeIds /\ request[r].base \in Readiness
         /\ Is(r, "delete environment") => request[r].env \in ScopeIds
         /\ Is(r, "validate") =>
              request[r].rows \in [Aliases -> AccountRow \cup {Nothing}]
         /\ SoundRequest(request[r])
<1>1. request[r] \in {NoRequest} \cup RequestType /\ SoundRequest(request[r])
  BY DEF AdminInv, AdminTypeOK
<1>2. ASSUME NEW q \in {NoRequest} \cup RequestType
      PROVE  /\ q.op = "create account" => q.account \in Aliases /\ q.provider \in Providers
             /\ q.op = "delete account" => q.account \in Aliases
             /\ q.op = "delete provider" => q.provider \in Providers
             /\ q.op = "create environment" => q.env \in ScopeIds /\ q.base \in Readiness
             /\ q.op = "delete environment" => q.env \in ScopeIds
             /\ q.op = "validate" => q.rows \in [Aliases -> AccountRow \cup {Nothing}]
  <2>1. CASE q = NoRequest
    BY <2>1 DEF NoRequest
  <2>2. CASE q \in [op : {"create account"}, account : Aliases, provider : Providers]
    BY <2>2
  <2>3. CASE q \in [op : {"delete account"}, account : Aliases]
    BY <2>3
  <2>4. CASE q \in [op : {"delete provider"}, provider : Providers]
    BY <2>4
  <2>5. CASE q \in [op : {"create environment"}, env : ScopeIds, base : Readiness]
    BY <2>5
  <2>6. CASE q \in [op : {"delete environment"}, env : ScopeIds]
    BY <2>6
  <2>7. CASE q \in [op : {"validate"}, rows : [Aliases -> AccountRow \cup {Nothing}]]
    BY <2>7
  <2>. QED BY <2>1, <2>2, <2>3, <2>4, <2>5, <2>6, <2>7 DEF RequestType
<1>. QED BY <1>1, <1>2 DEF Is

(* The requests keep their types.                                          *)
RequestsAreTyped == request \in [Requests -> {NoRequest} \cup RequestType]

(* A request that ends leaves the others as they were.                     *)
OnlyEnds ==
  /\ RequestsAreTyped'
  /\ \A s \in Requests : request'[s] = request[s] \/ request'[s] = NoRequest

(* A handler that commits or aborts ends, and no other.                    *)
LEMMA FinishedEnds ==
  ASSUME AdminInv, NEW r \in Requests, request' = Finished(r)
  PROVE  OnlyEnds
BY DEF AdminInv, AdminTypeOK, Finished, OnlyEnds, RequestsAreTyped

(* What the parent, validation and validated columns of the accounts say   *)
(* stays, and nothing but accounts changes.                                *)
LEMMA AccountsStand ==
  ASSUME AdminInv,
         account' \in [Aliases -> AccountRow \cup {Nothing}],
         \A b \in Aliases :
           /\ HasAccount(b)' <=> HasAccount(b)
           /\ HasAccount(b) => /\ account'[b].parent = account[b].parent
                               /\ account'[b].validation = account[b].validation
                               /\ account'[b].validated = account[b].validated,
         UNCHANGED <<providers, env, present, request, job, overlapped>>
  PROVE  AdminInv'
<1>1. AdminTypeOK'
  BY DEF AdminInv, AdminTypeOK
<1>2. NothingIsHomeless' /\ ReadinessIsEarned'
  BY AdminRows DEF AdminInv, NothingIsHomeless, ReadinessIsEarned, HasEnvironment
<1>3. ASSUME NEW r \in Requests PROVE SoundRequest(request[r])'
  <2>1. /\ SoundRequest(request[r]) /\ request'[r] = request[r]
        /\ request[r].op = "create environment" => AliasOf[request[r].env] \in Aliases
    BY AdminRequests, AdminRows DEF Is
  <2>. QED BY <2>1 DEF SoundRequest
<1>4. \A j \in Jobs : SoundJob(j)'
  BY DEF AdminInv, SoundJob, HasEnvironment
<1>5. \A a \in Aliases : SoundAccount(a)'
  BY DEF AdminInv, SoundAccount
<1>. QED BY <1>1, <1>2, <1>3, <1>4, <1>5 DEF AdminInv

(* One environment's row changes and its readiness, if it claims a         *)
(* validation, is earned.                                                  *)
LEMMA EnvironmentChanges ==
  ASSUME AdminInv, NEW e \in ScopeIds, NEW new \in EnvironmentRow,
         HasAccount(AliasOf[e]),
         new.readiness \in EarnedValues => account[AliasOf[e]].validated,
         env' = [env EXCEPT ![e] = new],
         OnlyEnds,
         UNCHANGED <<providers, account, present, job, overlapped>>
  PROVE  AdminInv'
<1>1. /\ env' \in [ScopeIds -> EnvironmentRow \cup {Nothing}]
      /\ env'[e] = new /\ HasEnvironment(e)'
      /\ \A d \in ScopeIds : d # e => env'[d] = env[d]
      /\ \A d \in ScopeIds : HasEnvironment(d) => HasEnvironment(d)'
  BY AdminRows DEF AdminInv, AdminTypeOK, HasEnvironment
<1>2. AdminTypeOK'
  BY <1>1 DEF AdminInv, AdminTypeOK, OnlyEnds, RequestsAreTyped
<1>3. NothingIsHomeless'
  BY <1>1 DEF AdminInv, AdminTypeOK, NothingIsHomeless, HasAccount, HasEnvironment
<1>4. ReadinessIsEarned'
  BY <1>1 DEF AdminInv, ReadinessIsEarned, HasEnvironment, EarnedValues
<1>5. ASSUME NEW r \in Requests PROVE SoundRequest(request[r])'
  <2>1. SoundRequest(request[r]) /\ (request'[r] = request[r] \/ request'[r] = NoRequest)
    BY DEF AdminInv, OnlyEnds
  <2>2. CASE request'[r] = NoRequest
    BY <2>2 DEF SoundRequest, NoRequest
  <2>3. CASE request'[r] = request[r]
    BY <2>1, <2>3 DEF SoundRequest, HasAccount
  <2>. QED BY <2>1, <2>2, <2>3
<1>6. \A j \in Jobs : SoundJob(j)'
  BY <1>1 DEF AdminInv, AdminTypeOK, SoundJob
<1>7. \A a \in Aliases : SoundAccount(a)'
  BY DEF AdminInv, SoundAccount, HasAccount
<1>. QED BY <1>2, <1>3, <1>4, <1>5, <1>6, <1>7 DEF AdminInv

-----------------------------------------------------------------------------
(* Handlers that ask nobody, and those that only check.                    *)

(* create_provider(), update_account() and update_environment().           *)
LEMMA EditKeeps ==
  ASSUME AdminInv, Edit
  PROVE  AdminInv'
<1>1. ASSUME NEW p \in Providers, CreateProvider(p)
      PROVE  AdminInv'
  <2>1. /\ providers' = providers \cup {p}
        /\ UNCHANGED <<account, env, present, request, job, overlapped>>
    BY <1>1 DEF CreateProvider
  <2>. QED BY <2>1
       DEF AdminInv, AdminTypeOK, NothingIsHomeless, ReadinessIsEarned, HasAccount,
           HasEnvironment, SoundRequest, SoundJob, SoundAccount
<1>2. ASSUME NEW a \in Aliases, NEW s \in AccountSettings, UpdateAccount(a, s[1], s[2])
      PROVE  AdminInv'
  <2>1. /\ HasAccount(a) /\ s[1] \in BOOLEAN /\ s[2] \in BOOLEAN
        /\ account' = [account EXCEPT ![a].enabled = s[1], ![a].auth = s[2]]
        /\ UNCHANGED <<providers, env, present, request, job, overlapped>>
    BY <1>2, PlatformAssumption DEF UpdateAccount
  <2>2. account[a] \in AccountRow
    BY <2>1, AdminRows
  <2>. DEFINE new == [account[a] EXCEPT !.enabled = s[1], !.auth = s[2]]
  <2>3. /\ new \in AccountRow /\ new.parent = account[a].parent
        /\ new.validation = account[a].validation /\ new.validated = account[a].validated
    BY <2>1, <2>2 DEF AccountRow
  <2>4. account' = [account EXCEPT ![a] = new]
    BY <2>1, <2>2 DEF AdminInv, AdminTypeOK, AccountRow
  <2>. HIDE DEF new
  <2>5. /\ account' \in [Aliases -> AccountRow \cup {Nothing}]
        /\ \A b \in Aliases :
             /\ HasAccount(b)' <=> HasAccount(b)
             /\ HasAccount(b) =>
                  /\ account'[b].parent = account[b].parent
                  /\ account'[b].validation = account[b].validation
                  /\ account'[b].validated = account[b].validated
    BY <2>1, <2>3, <2>4, AdminRows DEF AdminInv, AdminTypeOK, HasAccount
  <2>. QED BY <2>1, <2>5, AccountsStand
<1>3. ASSUME NEW e \in ScopeIds, NEW enabled \in BOOLEAN, UpdateEnvironment(e, enabled)
      PROVE  AdminInv'
  <2>. DEFINE old  == [env[e] EXCEPT !.enabled = enabled]
              base == AccountReadiness(account[AliasOf[e]])
              new  == [old EXCEPT !.readiness = EnvironmentReadiness(old, base)]
  <2>1. /\ HasEnvironment(e) /\ HasAccount(AliasOf[e])
        /\ env' = [env EXCEPT ![e] = new]
        /\ UNCHANGED <<providers, account, present, request, job, overlapped>>
    BY <1>3 DEF UpdateEnvironment
  <2>2. old \in EnvironmentRow
    BY <2>1, AdminRows DEF EnvironmentRow
  <2>3. base \in Readiness /\ (base \in EarnedValues => account[AliasOf[e]].validated)
    BY <2>1, AdminRows, ReadinessOfAccount DEF AdminInv, SoundAccount
  <2>. HIDE DEF old, base
  <2>4. /\ new \in EnvironmentRow
        /\ new.readiness \in EarnedValues => account[AliasOf[e]].validated
    BY <2>2, <2>3, ReadinessOfEnvironment DEF EnvironmentRow
  <2>5. OnlyEnds
    BY <2>1 DEF AdminInv, AdminTypeOK, OnlyEnds, RequestsAreTyped
  <2>. HIDE DEF new
  <2>. QED BY <2>1, <2>4, <2>5, EnvironmentChanges
<1>. QED BY <1>1, <1>2, <1>3 DEF Edit

(* A handler that begins has checked what SoundRequest says.               *)
LEMMA BegunKeeps ==
  ASSUME AdminInv, NEW r \in Requests, NEW q \in RequestType, SoundRequest(q), Begin(r, q)
  PROVE  AdminInv'
<1>1. /\ request' = [request EXCEPT ![r] = q]
      /\ UNCHANGED <<providers, account, env, present, job, overlapped>>
  BY DEF Begin
<1>2. AdminTypeOK' /\ NothingIsHomeless' /\ ReadinessIsEarned'
  BY <1>1 DEF AdminInv, AdminTypeOK, NothingIsHomeless, ReadinessIsEarned, HasAccount,
              HasEnvironment
<1>3. ASSUME NEW s \in Requests PROVE SoundRequest(request[s])'
  <2>1. SoundRequest(request'[s])
    BY <1>1 DEF AdminInv, AdminTypeOK
  <2>. QED BY <1>1, <2>1 DEF SoundRequest, HasAccount
<1>4. /\ \A j \in Jobs : SoundJob(j)'
      /\ \A a \in Aliases : SoundAccount(a)'
  BY <1>1 DEF AdminInv, SoundJob, SoundAccount, HasEnvironment, HasAccount
<1>. QED BY <1>2, <1>3, <1>4 DEF AdminInv

(* The handlers that check before they create, delete or validate.         *)
LEMMA CheckKeeps ==
  ASSUME AdminInv, NEW r \in Requests, Check(r) \/ Validation(r)
  PROVE  AdminInv'
<1>1. ASSUME NEW a \in Aliases, NEW p \in Providers, BeginCreateAccount(r, a, p)
      PROVE  AdminInv'
  <2>. DEFINE q == [op |-> "create account", account |-> a, provider |-> p]
  <2>1. p \in providers /\ Begin(r, q)
    BY <1>1 DEF BeginCreateAccount
  <2>2. q \in RequestType /\ SoundRequest(q)
    BY <2>1 DEF RequestType, SoundRequest
  <2>. HIDE DEF q
  <2>. QED BY <2>1, <2>2, BegunKeeps
<1>2. ASSUME NEW p \in Providers, BeginDeleteProvider(r, p)
      PROVE  AdminInv'
  <2>. DEFINE q == [op |-> "delete provider", provider |-> p]
  <2>1. Begin(r, q)
    BY <1>2 DEF BeginDeleteProvider
  <2>2. q \in RequestType /\ SoundRequest(q)
    BY DEF RequestType, SoundRequest
  <2>. HIDE DEF q
  <2>. QED BY <2>1, <2>2, BegunKeeps
<1>3. ASSUME NEW a \in Aliases, BeginDeleteAccount(r, a)
      PROVE  AdminInv'
  <2>. DEFINE q == [op |-> "delete account", account |-> a]
  <2>1. Begin(r, q)
    BY <1>3 DEF BeginDeleteAccount
  <2>2. q \in RequestType /\ SoundRequest(q)
    BY DEF RequestType, SoundRequest
  <2>. HIDE DEF q
  <2>. QED BY <2>1, <2>2, BegunKeeps
<1>4. ASSUME NEW e \in ScopeIds, BeginCreateEnvironment(r, e)
      PROVE  AdminInv'
  <2>. DEFINE base == AccountReadiness(account[AliasOf[e]])
              q    == [op |-> "create environment", env |-> e, base |-> base]
  <2>1. HasAccount(AliasOf[e]) /\ Begin(r, q)
    BY <1>4 DEF BeginCreateEnvironment
  <2>2. base \in Readiness /\ (base \in EarnedValues => account[AliasOf[e]].validated)
    BY <2>1, AdminRows, ReadinessOfAccount DEF AdminInv, SoundAccount
  <2>. HIDE DEF base
  <2>3. q \in RequestType /\ SoundRequest(q)
    BY <2>1, <2>2 DEF RequestType, SoundRequest
  <2>. HIDE DEF q
  <2>. QED BY <2>1, <2>3, BegunKeeps
<1>5. ASSUME NEW e \in ScopeIds, BeginDeleteEnvironment(r, e)
      PROVE  AdminInv'
  <2>. DEFINE q == [op |-> "delete environment", env |-> e]
  <2>1. e \notin present /\ Begin(r, q)
    BY <1>5 DEF BeginDeleteEnvironment
  <2>2. q \in RequestType /\ SoundRequest(q)
    BY <2>1 DEF RequestType, SoundRequest
  <2>. HIDE DEF q
  <2>. QED BY <2>1, <2>2, BegunKeeps
<1>6. ASSUME NEW accounts \in SUBSET Aliases, BeginValidate(r, accounts)
      PROVE  AdminInv'
  <2>. DEFINE rows == [a \in Aliases |-> IF a \in accounts THEN account[a] ELSE Nothing]
              q    == [op |-> "validate", rows |-> rows]
  <2>1. (\A a \in accounts : HasAccount(a)) /\ Begin(r, q)
    BY <1>6 DEF BeginValidate
  <2>2. rows \in [Aliases -> AccountRow \cup {Nothing}]
    BY DEF AdminInv, AdminTypeOK
  <2>3. \A a \in Aliases : rows[a] # Nothing => HasAccount(a)
    BY DEF HasAccount
  <2>. HIDE DEF rows
  <2>4. q \in RequestType
    BY <2>2 DEF RequestType
  <2>5. SoundRequest(q)
    BY <2>3 DEF SoundRequest
  <2>. HIDE DEF q
  <2>. QED BY <2>1, <2>4, <2>5, BegunKeeps
<1>7. CASE Check(r)
  BY <1>1, <1>2, <1>3, <1>4, <1>5, <1>7 DEF Check
<1>8. CASE Validation(r)
  BY <1>6, <1>8 DEF Validation, AccountsOf
<1>. QED BY <1>7, <1>8

-----------------------------------------------------------------------------
(* The commits.                                                            *)

(* A handler that ends without a trace.                                    *)
LEMMA AbortKeeps ==
  ASSUME AdminInv, NEW r \in Requests, Abort(r)
  PROVE  AdminInv'
<1>1. OnlyEnds /\ UNCHANGED <<providers, account, env, present, job, overlapped>>
  BY FinishedEnds DEF Abort
<1>2. AdminTypeOK' /\ NothingIsHomeless' /\ ReadinessIsEarned'
  BY <1>1 DEF AdminInv, AdminTypeOK, OnlyEnds, RequestsAreTyped, NothingIsHomeless,
              ReadinessIsEarned, HasAccount, HasEnvironment
<1>3. ASSUME NEW s \in Requests PROVE SoundRequest(request[s])'
  <2>1. SoundRequest(request[s]) /\ (request'[s] = request[s] \/ request'[s] = NoRequest)
    BY <1>1 DEF AdminInv, OnlyEnds
  <2>2. CASE request'[s] = NoRequest
    BY <2>2 DEF SoundRequest, NoRequest
  <2>3. CASE request'[s] = request[s]
    BY <1>1, <2>1, <2>3 DEF SoundRequest, HasAccount
  <2>. QED BY <2>1, <2>2, <2>3
<1>4. /\ \A j \in Jobs : SoundJob(j)'
      /\ \A a \in Aliases : SoundAccount(a)'
  BY <1>1 DEF AdminInv, SoundJob, SoundAccount, HasEnvironment, HasAccount
<1>. QED BY <1>2, <1>3, <1>4 DEF AdminInv

(* The new account is not validated, so no environment may count on it:    *)
(* there is none, and no handler that creates one.                         *)
LEMMA CreateAccountKeeps ==
  ASSUME AdminInv, NEW r \in Requests, CommitCreateAccount(r)
  PROVE  AdminInv'
<1>. DEFINE a == request[r].account
<1>1. PICK s \in AccountSettings :
        account' = [account EXCEPT ![a] =
          [parent |-> request[r].provider, enabled |-> s[1], auth |-> s[2],
           validation |-> "", validated |-> FALSE]]
  BY DEF CommitCreateAccount
<1>2. /\ a \in Aliases /\ request[r].provider \in Providers /\ ~HasAccount(a)
      /\ request[r].provider \in providers \/ a \in overlapped
      /\ OnlyEnds /\ UNCHANGED <<providers, env, present, job, overlapped>>
  BY AdminRequests, FinishedEnds DEF CommitCreateAccount, SoundRequest, Is
<1>. DEFINE new == [parent |-> request[r].provider, enabled |-> s[1], auth |-> s[2],
                    validation |-> "", validated |-> FALSE]
<1>3. /\ new \in AccountRow /\ new.parent = request[r].provider /\ new.validation = ""
      /\ new # Nothing
  <2>1. s[1] \in BOOLEAN /\ s[2] \in BOOLEAN
    BY PlatformAssumption
  <2>2. new \in AccountRow
    BY <1>2, <2>1 DEF AccountRow
  <2>. QED BY <2>2, NothingAssumption
<1>4. account' = [account EXCEPT ![a] = new]
  BY <1>1
<1>. HIDE DEF a, new
<1>5. /\ account' \in [Aliases -> AccountRow \cup {Nothing}] /\ account'[a] = new
      /\ \A b \in Aliases : b # a => account'[b] = account[b]
      /\ \A b \in Aliases : HasAccount(b) => b # a /\ HasAccount(b)'
  BY <1>2, <1>3, <1>4 DEF AdminInv, AdminTypeOK, HasAccount
<1>6. AdminTypeOK'
  BY <1>2, <1>5 DEF AdminInv, AdminTypeOK, OnlyEnds, RequestsAreTyped
<1>7. NothingIsHomeless'
  <2>1. \A e \in ScopeIds : HasEnvironment(e)' => HasAccount(AliasOf[e])'
    BY <1>2, <1>5, AdminRows DEF AdminInv, NothingIsHomeless, HasEnvironment
  <2>2. \A b \in Aliases : HasAccount(b)' => account'[b].parent \in providers \/ b \in overlapped
    BY <1>2, <1>3, <1>5 DEF a, AdminInv, NothingIsHomeless, HasAccount
  <2>3. \A e \in present : HasEnvironment(e) \/ e \in overlapped
    BY DEF AdminInv, NothingIsHomeless
  <2>. QED BY <1>2, <2>1, <2>2, <2>3 DEF NothingIsHomeless, HasEnvironment
<1>8. ReadinessIsEarned'
  <2>1. \A e \in ScopeIds : HasEnvironment(e) => account'[AliasOf[e]] = account[AliasOf[e]]
    BY <1>5, AdminRows DEF AdminInv, NothingIsHomeless
  <2>. QED BY <1>2, <2>1 DEF AdminInv, ReadinessIsEarned, HasEnvironment
<1>9. ASSUME NEW t \in Requests PROVE SoundRequest(request[t])'
  <2>1. SoundRequest(request[t]) /\ (request'[t] = request[t] \/ request'[t] = NoRequest)
    BY <1>2 DEF AdminInv, OnlyEnds
  <2>2. CASE request'[t] = NoRequest
    BY <2>2 DEF SoundRequest, NoRequest
  <2>3. CASE request'[t] = request[t]
    <3>1. request[t].op = "create environment" => AliasOf[request[t].env] \in Aliases
      BY AdminRequests, AdminRows DEF Is
    <3>. QED BY <1>2, <1>5, <2>1, <2>3, <3>1 DEF SoundRequest
  <2>. QED BY <2>1, <2>2, <2>3
<1>10. /\ \A j \in Jobs : SoundJob(j)'
       /\ \A b \in Aliases : SoundAccount(b)'
  BY <1>2, <1>3, <1>5 DEF AdminInv, SoundJob, SoundAccount, HasEnvironment, HasAccount
<1>. QED BY <1>6, <1>7, <1>8, <1>9, <1>10 DEF AdminInv

(* The accounts that lose their provider, and those about to be created    *)
(* under it, are noted.                                                    *)
LEMMA DeleteProviderKeeps ==
  ASSUME AdminInv, NEW r \in Requests, CommitDeleteProvider(r)
  PROVE  AdminInv'
<1>. DEFINE p == request[r].provider
            orphans == {request[s].account : s \in {t \in Requests :
                          Is(t, "create account") /\ request[t].provider = p}}
<1>1. /\ providers' = providers \ {p}
      /\ overlapped' = overlapped \cup AccountsOf(p) \cup orphans
      /\ UNCHANGED <<account, env, present, job>>
  BY DEF CommitDeleteProvider
<1>2. \A s \in Requests : request'[s] = request[s] \/ request'[s] = NoRequest
  BY DEF CommitDeleteProvider
<1>3. RequestsAreTyped'
  BY DEF CommitDeleteProvider, AdminInv, AdminTypeOK, RequestsAreTyped
<1>4. orphans \subseteq Aliases /\ AccountsOf(p) \subseteq Aliases
  BY AdminRequests DEF AccountsOf
<1>5. \A s \in Requests :
        Is(s, "create account") /\ request[s].provider = p => request[s].account \in orphans
  OBVIOUS
<1>. HIDE DEF p, orphans
<1>6. AdminTypeOK'
  BY <1>1, <1>3, <1>4 DEF AdminInv, AdminTypeOK, RequestsAreTyped
<1>7. NothingIsHomeless' /\ ReadinessIsEarned'
  BY <1>1 DEF AdminInv, NothingIsHomeless, ReadinessIsEarned, HasAccount, HasEnvironment,
              AccountsOf
<1>8. ASSUME NEW s \in Requests PROVE SoundRequest(request[s])'
  <2>1. SoundRequest(request[s]) /\ (request'[s] = request[s] \/ request'[s] = NoRequest)
    BY <1>2 DEF AdminInv
  <2>2. CASE request'[s] = NoRequest
    BY <2>2 DEF SoundRequest, NoRequest
  <2>3. CASE request'[s] = request[s]
    BY <1>1, <1>5, <2>1, <2>3 DEF SoundRequest, HasAccount, Is
  <2>. QED BY <2>1, <2>2, <2>3
<1>9. /\ \A j \in Jobs : SoundJob(j)'
      /\ \A a \in Aliases : SoundAccount(a)'
  BY <1>1 DEF AdminInv, SoundJob, SoundAccount, HasEnvironment, HasAccount
<1>. QED BY <1>6, <1>7, <1>8, <1>9 DEF AdminInv

(* The account has no environment, and every handler that read its row, or *)
(* would create an environment of it, fails.                               *)
LEMMA DeleteAccountKeeps ==
  ASSUME AdminInv, NEW r \in Requests, CommitDeleteAccount(r)
  PROVE  AdminInv'
<1>. DEFINE a == request[r].account
<1>1. /\ a \in Aliases /\ EnvironmentsOf(a) = {}
      /\ account' = [account EXCEPT ![a] = Nothing]
      /\ request' = [s \in Requests |-> IF Holds(s, a) THEN NoRequest ELSE request[s]]
      /\ UNCHANGED <<providers, env, present, job, overlapped>>
  BY AdminRequests DEF CommitDeleteAccount
<1>. HIDE DEF a
<1>2. /\ account' \in [Aliases -> AccountRow \cup {Nothing}]
      /\ \A b \in Aliases : b # a => account'[b] = account[b]
      /\ account'[a] = Nothing
  BY <1>1 DEF AdminInv, AdminTypeOK, HasAccount
<1>3. \A e \in ScopeIds : HasEnvironment(e) => AliasOf[e] # a
  BY <1>1 DEF EnvironmentsOf
<1>4. AdminTypeOK'
  BY <1>1, <1>2 DEF AdminInv, AdminTypeOK
<1>5. NothingIsHomeless' /\ ReadinessIsEarned'
  <2>1. \A e \in ScopeIds : HasEnvironment(e) => account'[AliasOf[e]] = account[AliasOf[e]]
    BY <1>2, <1>3, AdminRows
  <2>2. NothingIsHomeless'
    BY <1>1, <1>2, <2>1 DEF AdminInv, NothingIsHomeless, HasAccount, HasEnvironment
  <2>3. ReadinessIsEarned'
    BY <1>1, <2>1 DEF AdminInv, ReadinessIsEarned, HasEnvironment
  <2>. QED BY <2>2, <2>3
<1>6. ASSUME NEW s \in Requests PROVE SoundRequest(request[s])'
  <2>1. CASE Holds(s, a)
    <3>1. request'[s] = NoRequest
      BY <1>1, <2>1
    <3>. QED BY <3>1 DEF SoundRequest, NoRequest
  <2>2. CASE ~Holds(s, a)
    <3>1. request'[s] = request[s] /\ SoundRequest(request[s])
      BY <1>1, <2>2 DEF AdminInv
    <3>2. /\ request[s].op = "create environment" =>
               AliasOf[request[s].env] \in Aliases /\ AliasOf[request[s].env] # a
          /\ request[s].op = "validate" => request[s].rows[a] = Nothing
      BY <2>2, AdminRequests, AdminRows DEF Holds, Is
    <3>. QED BY <1>1, <1>2, <3>1, <3>2 DEF SoundRequest, HasAccount
  <2>. QED BY <2>1, <2>2
<1>7. /\ \A j \in Jobs : SoundJob(j)'
      /\ \A b \in Aliases : SoundAccount(b)'
  BY <1>1, <1>2 DEF AdminInv, SoundJob, SoundAccount, HasEnvironment, HasAccount
<1>. QED BY <1>4, <1>5, <1>6, <1>7 DEF AdminInv

(* The readiness of the new environment is that of the account when the    *)
(* handler read it; what it earned then the account has not lost.          *)
LEMMA CreateEnvironmentKeeps ==
  ASSUME AdminInv, NEW r \in Requests, CommitCreateEnvironment(r)
  PROVE  AdminInv'
<1>. DEFINE e    == request[r].env
            base == request[r].base
<1>1. PICK enabled \in BOOLEAN :
        LET fresh == [enabled |-> enabled, readiness |-> "NOT_CONFIGURED", scanned |-> "never"]
        IN env' = [env EXCEPT ![e] =
             [fresh EXCEPT !.readiness = EnvironmentReadiness(fresh, base)]]
  BY DEF CommitCreateEnvironment
<1>2. /\ e \in ScopeIds /\ base \in Readiness /\ HasAccount(AliasOf[e])
      /\ base \in EarnedValues => account[AliasOf[e]].validated
      /\ OnlyEnds /\ UNCHANGED <<providers, account, present, job, overlapped>>
  BY AdminRequests, FinishedEnds DEF CommitCreateEnvironment, SoundRequest, Is
<1>. DEFINE fresh == [enabled |-> enabled, readiness |-> "NOT_CONFIGURED", scanned |-> "never"]
            new   == [fresh EXCEPT !.readiness = EnvironmentReadiness(fresh, base)]
<1>3. fresh \in EnvironmentRow
  BY DEF EnvironmentRow, Readiness
<1>4. env' = [env EXCEPT ![e] = new]
  BY <1>1
<1>. HIDE DEF e, base, fresh
<1>5. /\ new \in EnvironmentRow
      /\ new.readiness \in EarnedValues => account[AliasOf[e]].validated
  BY <1>2, <1>3, ReadinessOfEnvironment DEF EnvironmentRow
<1>. HIDE DEF new
<1>. QED BY <1>2, <1>4, <1>5, EnvironmentChanges

(* No cluster was present in it when the handler asked; what a discovery   *)
(* found since, or may still find, is noted.                               *)
LEMMA DeleteEnvironmentKeeps ==
  ASSUME AdminInv, NEW r \in Requests, CommitDeleteEnvironment(r)
  PROVE  AdminInv'
<1>. DEFINE e == request[r].env
            scanned == {d \in {e} : \E j \in Jobs : job[j] # Nothing /\ d \in job[j]}
<1>1. /\ e \in ScopeIds /\ (e \notin present \/ e \in overlapped)
      /\ env' = [env EXCEPT ![e] = Nothing]
      /\ overlapped' = overlapped \cup scanned
      /\ OnlyEnds /\ UNCHANGED <<providers, account, present, job>>
  BY AdminRequests, FinishedEnds DEF CommitDeleteEnvironment, SoundRequest, Is
<1>2. /\ scanned \subseteq {e}
      /\ \A j \in Jobs : job[j] # Nothing /\ e \in job[j] => e \in scanned
  OBVIOUS
<1>. HIDE DEF e, scanned
<1>3. /\ env' \in [ScopeIds -> EnvironmentRow \cup {Nothing}]
      /\ \A d \in ScopeIds : d # e => env'[d] = env[d]
      /\ env'[e] = Nothing
  BY <1>1 DEF AdminInv, AdminTypeOK, HasEnvironment
<1>4. AdminTypeOK'
  BY <1>1, <1>2, <1>3 DEF AdminInv, AdminTypeOK, OnlyEnds, RequestsAreTyped
<1>5. NothingIsHomeless'
  BY <1>1, <1>3 DEF AdminInv, AdminTypeOK, NothingIsHomeless, HasAccount, HasEnvironment
<1>6. ReadinessIsEarned'
  BY <1>1, <1>3 DEF AdminInv, ReadinessIsEarned, HasEnvironment
<1>7. ASSUME NEW s \in Requests PROVE SoundRequest(request[s])'
  <2>1. SoundRequest(request[s]) /\ (request'[s] = request[s] \/ request'[s] = NoRequest)
    BY <1>1 DEF AdminInv, OnlyEnds
  <2>2. CASE request'[s] = NoRequest
    BY <2>2 DEF SoundRequest, NoRequest
  <2>3. CASE request'[s] = request[s]
    BY <1>1, <2>1, <2>3 DEF SoundRequest, HasAccount
  <2>. QED BY <2>1, <2>2, <2>3
<1>8. \A j \in Jobs : SoundJob(j)'
  BY <1>1, <1>2, <1>3 DEF AdminInv, AdminTypeOK, SoundJob, HasEnvironment
<1>9. \A a \in Aliases : SoundAccount(a)'
  BY <1>1 DEF AdminInv, SoundAccount, HasAccount
<1>. QED BY <1>4, <1>5, <1>6, <1>7, <1>8, <1>9 DEF AdminInv

(* Every account that was asked is there, is now validated, and only its   *)
(* environments are judged.                                                *)
LEMMA ValidateKeeps ==
  ASSUME AdminInv, NEW r \in Requests,
         NEW failed \in SUBSET Aliases, NEW connected \in SUBSET Aliases,
         CommitValidate(r, failed, connected)
  PROVE  AdminInv'
<1>. DEFINE rows   == request[r].rows
            asked  == failed \cup connected
            New(a) == Validated(account[a], rows[a], Answered(a, connected))
<1>1. /\ rows \in [Aliases -> AccountRow \cup {Nothing}]
      /\ \A a \in asked : rows[a] # Nothing /\ HasAccount(a)
      /\ StoreValidation(r, failed, connected)
      /\ OnlyEnds /\ UNCHANGED <<providers, present, job, overlapped>>
  BY AdminRequests, FinishedEnds DEF CommitValidate, SoundRequest, Is
<1>2. account' = [a \in Aliases |-> IF a \in asked THEN New(a) ELSE account[a]]
  BY <1>1 DEF StoreValidation
<1>3. ASSUME NEW a \in asked
      PROVE  /\ New(a) \in AccountRow /\ New(a).parent = account[a].parent /\ New(a).validated
             /\ rows[a] \in AccountRow
  <2>1. account[a] \in AccountRow /\ Answered(a, connected) \in {"HEALTHY", "FAILED"}
    BY <1>1, AdminRows DEF Answered
  <2>. QED BY <1>1, <2>1 DEF Validated, AccountRow
<1>. HIDE DEF New
<1>4. /\ account' \in [Aliases -> AccountRow \cup {Nothing}]
      /\ \A a \in Aliases :
           /\ HasAccount(a)' <=> HasAccount(a)
           /\ HasAccount(a) => account'[a].parent = account[a].parent
           /\ a \in asked => account'[a].validated
           /\ a \notin asked => account'[a] = account[a]
  BY <1>1, <1>2, <1>3, NothingAssumption DEF AdminInv, AdminTypeOK, HasAccount
<1>5. ASSUME NEW e \in ScopeIds
      PROVE  /\ HasEnvironment(e) => env'[e] \in EnvironmentRow
             /\ HasEnvironment(e) /\ AliasOf[e] \notin asked => env'[e] = env[e]
             /\ ~HasEnvironment(e) => env'[e] = Nothing
  <2>. DEFINE base == Judged(rows[AliasOf[e]], Answered(AliasOf[e], connected))
  <2>1. env'[e] = IF HasEnvironment(e) /\ AliasOf[e] \in asked
                  THEN [env[e] EXCEPT !.readiness = EnvironmentReadiness(env[e], base)]
                  ELSE env[e]
    BY <1>1 DEF StoreValidation
  <2>2. ASSUME HasEnvironment(e), AliasOf[e] \in asked
        PROVE  env'[e] \in EnvironmentRow
    <3>1. Answered(AliasOf[e], connected) \in {"HEALTHY", "FAILED"}
      BY DEF Answered
    <3>2. base \in Readiness
      BY <1>3, <2>2, <3>1, ReadinessOfAccount DEF Judged, AccountRow
    <3>. HIDE DEF base
    <3>3. EnvironmentReadiness(env[e], base) \in Readiness /\ env[e] \in EnvironmentRow
      BY <2>2, <3>2, AdminRows, ReadinessOfEnvironment
    <3>. QED BY <2>1, <2>2, <3>3 DEF EnvironmentRow
  <2>. HIDE DEF base
  <2>. QED BY <2>1, <2>2, AdminRows DEF HasEnvironment
<1>6. env' \in [ScopeIds -> EnvironmentRow \cup {Nothing}]
  <2>1. env' = [e \in ScopeIds |-> env'[e]]
    BY <1>1 DEF StoreValidation
  <2>. QED BY <1>5, <2>1
<1>7. \A e \in ScopeIds : HasEnvironment(e)' <=> HasEnvironment(e)
  BY <1>5, AdminRows DEF HasEnvironment
<1>. HIDE DEF asked, rows
<1>8. AdminTypeOK'
  BY <1>1, <1>4, <1>6 DEF AdminInv, AdminTypeOK, OnlyEnds, RequestsAreTyped
<1>9. NothingIsHomeless'
  <2>1. \A e \in ScopeIds : HasEnvironment(e)' => HasAccount(AliasOf[e])'
    BY <1>4, <1>7, AdminRows DEF AdminInv, NothingIsHomeless
  <2>2. \A a \in Aliases : HasAccount(a)' => account'[a].parent \in providers \/ a \in overlapped
    BY <1>4 DEF AdminInv, NothingIsHomeless
  <2>3. \A e \in present : HasEnvironment(e)' \/ e \in overlapped
    BY <1>7 DEF AdminInv, AdminTypeOK, NothingIsHomeless
  <2>. QED BY <1>1, <2>1, <2>2, <2>3 DEF NothingIsHomeless
<1>10. ReadinessIsEarned'
  <2>1. ASSUME NEW e \in ScopeIds, HasEnvironment(e)', env'[e].readiness \in EarnedValues
        PROVE  account'[AliasOf[e]].validated
    <3>1. AliasOf[e] \in Aliases
      BY AdminRows
    <3>2. CASE AliasOf[e] \in asked
      BY <1>4, <3>1, <3>2
    <3>3. CASE AliasOf[e] \notin asked
      BY <1>4, <1>5, <1>7, <2>1, <3>1, <3>3 DEF asked, AdminInv, ReadinessIsEarned, EarnedValues
    <3>. QED BY <3>2, <3>3
  <2>. QED BY <2>1 DEF ReadinessIsEarned, EarnedValues
<1>11. ASSUME NEW s \in Requests PROVE SoundRequest(request[s])'
  <2>1. SoundRequest(request[s]) /\ (request'[s] = request[s] \/ request'[s] = NoRequest)
    BY <1>1 DEF AdminInv, OnlyEnds
  <2>2. CASE request'[s] = NoRequest
    BY <2>2 DEF SoundRequest, NoRequest
  <2>3. CASE request'[s] = request[s]
    <3>1. request[s].op = "create environment" => AliasOf[request[s].env] \in Aliases
      BY AdminRequests, AdminRows DEF Is
    <3>. QED BY <1>1, <1>4, <2>1, <2>3, <3>1 DEF SoundRequest
  <2>. QED BY <2>1, <2>2, <2>3
<1>12. \A j \in Jobs : SoundJob(j)'
  BY <1>1, <1>7 DEF AdminInv, AdminTypeOK, SoundJob
<1>13. \A a \in Aliases : SoundAccount(a)'
  BY <1>4 DEF AdminInv, SoundAccount
<1>. QED BY <1>8, <1>9, <1>10, <1>11, <1>12, <1>13 DEF AdminInv

-----------------------------------------------------------------------------
(* Discoveries.  The clusters they find are in environments that had a row *)
(* when the discovery began, and have one now unless its deletion is noted.*)
LEMMA DiscoveryKeeps ==
  ASSUME AdminInv, NEW j \in Jobs, Discovery(j)
  PROVE  AdminInv'
<1>1. ASSUME \/ \E target \in JobTargets : StartDiscovery(j, target)
             \/ RollbackDiscovery(j)
      PROVE  AdminInv'
  <2>1. UNCHANGED <<providers, account, env, present, request, overlapped>>
    BY <1>1 DEF StartDiscovery, RollbackDiscovery
  <2>2. PICK S \in (SUBSET {e \in ScopeIds : HasEnvironment(e)}) \cup {Nothing} :
          job' = [job EXCEPT ![j] = S]
    <3>1. \A target \in JobTargets : JobScopes(target) \subseteq {e \in ScopeIds : HasEnvironment(e)}
      BY DEF JobScopes, EnvironmentsOf
    <3>. QED BY <1>1, <3>1 DEF StartDiscovery, RollbackDiscovery
  <2>3. AdminTypeOK'
    BY <2>1, <2>2 DEF AdminInv, AdminTypeOK
  <2>4. NothingIsHomeless' /\ ReadinessIsEarned'
    BY <2>1 DEF AdminInv, NothingIsHomeless, ReadinessIsEarned, HasAccount, HasEnvironment
  <2>5. \A r \in Requests : SoundRequest(request[r])'
    BY <2>1 DEF AdminInv, SoundRequest, HasAccount
  <2>6. \A i \in Jobs : SoundJob(i)'
    BY <2>1, <2>2 DEF AdminInv, AdminTypeOK, SoundJob, HasEnvironment
  <2>7. \A a \in Aliases : SoundAccount(a)'
    BY <2>1 DEF AdminInv, SoundAccount, HasAccount
  <2>. QED BY <2>3, <2>4, <2>5, <2>6, <2>7 DEF AdminInv
<1>2. ASSUME NEW failed \in SUBSET Aliases, NEW found \in SUBSET ScopeIds,
             FinishDiscovery(j, failed, found)
      PROVE  AdminInv'
  <2>. DEFINE listed  == {e \in job[j] : AliasOf[e] \notin failed}
              deleted == {e \in found : \E r \in Requests :
                            Is(r, "delete environment") /\ request[r].env = e}
  <2>1. /\ job[j] # Nothing /\ found \subseteq listed
        /\ present' = (present \ listed) \cup found
        /\ overlapped' = overlapped \cup deleted
        /\ env' = [e \in ScopeIds |->
             IF ~HasEnvironment(e) \/ e \notin job[j] THEN env[e]
             ELSE IF e \in listed THEN [env[e] EXCEPT !.scanned = "active"]
             ELSE [env[e] EXCEPT !.scanned = IF @ = "never" THEN "attempted" ELSE @]]
        /\ job' = [job EXCEPT ![j] = Nothing]
        /\ UNCHANGED <<providers, account, request>>
    BY <1>2 DEF FinishDiscovery
  <2>2. \A e \in found : e \in ScopeIds /\ (HasEnvironment(e) \/ e \in overlapped)
    BY <2>1 DEF AdminInv, SoundJob
  <2>3. deleted \subseteq found
    OBVIOUS
  <2>4. \A r \in Requests : Is(r, "delete environment") /\ request[r].env \in found =>
          request[r].env \in deleted
    OBVIOUS
  <2>5. ASSUME NEW e \in ScopeIds
        PROVE  /\ HasEnvironment(e) => /\ env'[e] \in EnvironmentRow
                                       /\ env'[e].readiness = env[e].readiness
               /\ ~HasEnvironment(e) => env'[e] = Nothing
    BY <2>1, AdminRows DEF EnvironmentRow, HasEnvironment
  <2>6. env' \in [ScopeIds -> EnvironmentRow \cup {Nothing}]
    <3>1. env' = [e \in ScopeIds |-> env'[e]]
      BY <2>1
    <3>. QED BY <2>5, <3>1
  <2>7. \A e \in ScopeIds : HasEnvironment(e)' <=> HasEnvironment(e)
    BY <2>5, AdminRows DEF HasEnvironment
  <2>8. present' \subseteq present \cup found
    BY <2>1
  <2>. HIDE DEF listed, deleted
  <2>9. AdminTypeOK'
    BY <2>1, <2>2, <2>3, <2>6, <2>8 DEF AdminInv, AdminTypeOK
  <2>10. NothingIsHomeless'
    <3>1. \A e \in ScopeIds : HasEnvironment(e)' => HasAccount(AliasOf[e])'
      BY <2>1, <2>7 DEF AdminInv, NothingIsHomeless, HasAccount
    <3>2. \A a \in Aliases : HasAccount(a)' => account'[a].parent \in providers' \/ a \in overlapped'
      BY <2>1 DEF AdminInv, NothingIsHomeless, HasAccount
    <3>3. \A e \in present' : HasEnvironment(e)' \/ e \in overlapped'
      BY <2>1, <2>2, <2>7, <2>8 DEF AdminInv, AdminTypeOK, NothingIsHomeless
    <3>. QED BY <3>1, <3>2, <3>3 DEF NothingIsHomeless
  <2>11. ReadinessIsEarned'
    BY <2>1, <2>5, <2>7 DEF AdminInv, ReadinessIsEarned
  <2>12. ASSUME NEW r \in Requests PROVE SoundRequest(request[r])'
    <3>1. SoundRequest(request[r]) /\ request'[r] = request[r]
      BY <2>1 DEF AdminInv
    <3>2. request[r].op = "delete environment" =>
            request[r].env \notin present' \/ request[r].env \in overlapped'
      BY <2>1, <2>4, <2>8, <3>1 DEF SoundRequest, Is
    <3>. QED BY <2>1, <3>1, <3>2 DEF SoundRequest, HasAccount
  <2>13. \A i \in Jobs : SoundJob(i)'
    BY <2>1, <2>7 DEF AdminInv, AdminTypeOK, SoundJob
  <2>14. \A a \in Aliases : SoundAccount(a)'
    BY <2>1 DEF AdminInv, SoundAccount, HasAccount
  <2>. QED BY <2>9, <2>10, <2>11, <2>12, <2>13, <2>14 DEF AdminInv
<1>. QED BY <1>1, <1>2 DEF Discovery

-----------------------------------------------------------------------------
(* The initial tables are empty, and no handler is under way.              *)
LEMMA AdminInitEstablishes == AdminInit => AdminInv
<1>. SUFFICES ASSUME AdminInit PROVE AdminInv
  OBVIOUS
<1>1. AdminTypeOK
  BY DEF AdminInit, AdminTypeOK
<1>2. NothingIsHomeless /\ ReadinessIsEarned
  BY PlatformAssumption
     DEF AdminInit, NothingIsHomeless, ReadinessIsEarned, HasAccount, HasEnvironment
<1>3. \A r \in Requests : SoundRequest(request[r])
  BY DEF AdminInit, SoundRequest, NoRequest
<1>4. /\ \A j \in Jobs : SoundJob(j)
      /\ \A a \in Aliases : SoundAccount(a)
  BY DEF AdminInit, SoundJob, SoundAccount, HasAccount
<1>. QED BY <1>1, <1>2, <1>3, <1>4 DEF AdminInv

(* Every handler and every discovery keeps the invariant.                  *)
LEMMA AdminNextKeeps == AdminInv /\ [AdminNext]_adminVars => AdminInv'
<1>. SUFFICES ASSUME AdminInv, [AdminNext]_adminVars
              PROVE  AdminInv'
  OBVIOUS
<1>1. CASE Edit
  BY <1>1, EditKeeps
<1>2. ASSUME NEW r \in Requests, Commit(r)
      PROVE  AdminInv'
  BY <1>2, CreateAccountKeeps, DeleteProviderKeeps, DeleteAccountKeeps,
     CreateEnvironmentKeeps, DeleteEnvironmentKeeps DEF Commit
<1>3. ASSUME NEW r \in Requests,
             \/ Check(r) \/ Abort(r) \/ Validation(r)
             \/ \E failed, connected \in SUBSET Aliases : CommitValidate(r, failed, connected)
      PROVE  AdminInv'
  BY <1>3, CheckKeeps, AbortKeeps, ValidateKeeps
<1>4. ASSUME NEW j \in Jobs, Discovery(j)
      PROVE  AdminInv'
  BY <1>4, DiscoveryKeeps
<1>5. CASE UNCHANGED adminVars
  BY <1>5 DEF adminVars, AdminInv, AdminTypeOK, NothingIsHomeless, ReadinessIsEarned,
              SoundRequest, SoundJob, SoundAccount, HasAccount, HasEnvironment
<1>. QED BY <1>1, <1>2, <1>3, <1>4, <1>5 DEF AdminNext

(* AdminInv holds in every reachable state of PlatformAdmin.               *)
THEOREM AdminInvariance == AdminSpec => []AdminInv
BY AdminInitEstablishes, AdminNextKeeps, PTL DEF AdminSpec

(* The rows of providers, accounts and environments and the handlers under *)
(* way keep their types: no handler writes into a row that another deleted *)
(* beside it, nor a readiness the code does not know.                      *)
THEOREM AdminTypeCorrect == AdminSpec => []AdminTypeOK
<1>1. AdminInv => AdminTypeOK
  BY DEF AdminInv
<1>. QED BY <1>1, AdminInvariance, PTL

(* delete_provider(), delete_account() and delete_environment() leave      *)
(* nothing without its owner, whatever is created, validated or discovered *)
(* beside them, except what they overlapped with.                          *)
THEOREM NobodyIsHomeless == AdminSpec => []NothingIsHomeless
<1>1. AdminInv => NothingIsHomeless
  BY DEF AdminInv
<1>. QED BY <1>1, AdminInvariance, PTL

(* create_environment(), update_environment(), the validations and the     *)
(* discoveries store the readiness of a validated account only if the      *)
(* account that is there now was validated.                                *)
THEOREM ReadinessIsAlwaysEarned == AdminSpec => []ReadinessIsEarned
<1>1. AdminInv => ReadinessIsEarned
  BY DEF AdminInv
<1>. QED BY <1>1, AdminInvariance, PTL
==============================================================================
