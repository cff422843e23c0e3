---------------------------- MODULE ConsoleChecks ----------------------------
(***************************************************************************)
(* How far the views of the console agree with each other, over every      *)
(* database of a few rows: two accounts of AWS, the first of which also    *)
(* hosts DEV in a second region while the second has a row of its own for  *)
(* a place of the first.  TLC evaluates the assumptions.                   *)
(***************************************************************************)
EXTENDS ConsoleViews

Emea == [provider |-> "AWS", region |-> "EMEA", environment |-> "DEV"]
Apac == [Emea EXCEPT !.region = "APAC"]

Environment(place, account, enabled, active, scanned, failing) ==
  [provider |-> place.provider, region |-> place.region,
   environment |-> place.environment, account |-> account, enabled |-> enabled,
   active |-> active, scanned |-> scanned, failing |-> failing]

\* The rows of environments there may be, each with a switch of its own.
Homes == {<<Emea, "a">>, <<Emea, "b">>, <<Apac, "a">>}

EnvironmentSets(Row(_, _, _)) ==
  {{Row(home[1], home[2], switch[home]) :
      home \in {h \in Homes : switch[h] # "absent"}} :
     switch \in [Homes -> {"absent", "on", "off"}]}

Cluster(id, place, account, ignored, health) ==
  [id |-> <<id>>, provider |-> place.provider, region |-> place.region,
   environment |-> place.environment, account |-> account, present |-> TRUE,
   ignored |-> ignored, running |-> TRUE, health |-> health]

ClusterSets ==
  {{Cluster("eks1", p, "a", i, "well"), Cluster("eks2", q, "b", j, "troubled")} :
     p \in {Emea, Apac}, q \in {Emea, Apac}, i \in BOOLEAN, j \in BOOLEAN}

Certificate(id, environment, days) ==
  [id |-> <<id>>, provider |-> "AWS", region |-> "EMEA", account |-> "a",
   environment |-> environment, present |-> TRUE, dated |-> days # 999,
   days |-> days]

\* Lives at every boundary; 999 stands for no date.
Lives == {-1, 0, 1, 7, 8, 30, 31, 60, 61, 999}

Account(alias, managed) ==
  [account |-> alias, provider |-> "AWS", region |-> "EMEA", enabled |-> TRUE,
   managed |-> managed]

AccountSets ==
  {{Account("a", m), Account("b", n)} : m \in BOOLEAN, n \in BOOLEAN}

Empty ==
  [configured |-> TRUE, seeded |-> TRUE, accounts |-> {}, environments |-> {},
   clusters |-> {}, certificates |-> {}, alerts |-> {}, applications |-> {},
   health |-> {}, incidents |-> {}]

Managing == [Empty EXCEPT !.accounts = {Account("a", TRUE), Account("b", TRUE)}]

Enabling(place, account, switch) ==
  Environment(place, account, switch = "on", account = "a", TRUE, FALSE)

Discovering(place, account, switch) ==
  Environment(place, account, TRUE, switch = "on", switch = "on", FALSE)

Filters ==
  {Anywhere, [Anywhere EXCEPT !.region = "EMEA"],
   [Anywhere EXCEPT !.region = "APAC", !.environment = "DEV"],
   [Anywhere EXCEPT !.environment = "UAT"]}

------------------------------------------------------------------------------
(***************************************************************************)
(* Clusters.                                                               *)
(***************************************************************************)

Inventories ==
  {[Empty EXCEPT !.configured = configured, !.accounts = accounts,
                 !.environments = environments, !.clusters = clusters] :
     configured \in BOOLEAN, accounts \in AccountSets,
     environments \in EnvironmentSets(Enabling), clusters \in ClusterSets}

\* The dashboard counts a listed cluster exactly if its place has an enabled
\* environment of a managed account, and counts it once although two accounts
\* have a row for the place.  What it leaves out stays on the list.
ASSUME IndicatorsCountTheList ==
  \A db \in Inventories, scope \in Filters :
    Dashboard(db, scope).clusters
      = Many(LiveClusters(db, scope),
             LAMBDA c : \E row \in db.environments :
                          row.enabled /\ Managed(db, row) /\ Place(row) = Place(c))

\* The page of an environment shows what the list shows of its place, and the
\* ignored clusters as well once discovery has been there.
ASSUME PageShowsTheList ==
  \A db \in Inventories : \A row \in db.environments :
    LET listed == LiveClusters(db, At(Place(row)))
        page == EnvironmentClusters(db, row)
    IN /\ listed \subseteq page
       /\ page \ listed = {ToClusterRecord(c) :
                             c \in {d \in db.clusters :
                                      /\ row.active /\ d.ignored
                                      /\ Place(d) = Place(row)}}

\* With an enabled provider, whatever is shown has a managed account: no
\* environment of the seeded topology remains beside the real ones.
ASSUME NoSeedBesideReal ==
  \A db \in Inventories, scope \in Filters :
    /\ db.configured =>
         \A row \in LiveEnvironments(db, scope) \cup Shown(db, scope) :
           \E account \in LiveAccounts(db, Anywhere) :
             account.account = row.account
    /\ LiveRegions(db, scope) = {} <=>
         {a \in LiveAccounts(db, [scope EXCEPT !.environment = All]) : a.enabled} = {}

------------------------------------------------------------------------------
(***************************************************************************)
(* Certificates.                                                           *)
(***************************************************************************)

Certified ==
  {[Managing EXCEPT
      !.environments = {Environment(Emea, "a", TRUE, TRUE, TRUE, FALSE)},
      !.certificates = {Certificate("one", environment, d),
                        Certificate("two", "DEV", e)}] :
     environment \in {"DEV", "UAT", Unassigned}, d \in Lives, e \in Lives}

\* Every certificate is counted as healthy, expired or within sixty days,
\* and in one of these only; the windows are nested.  One without a date is
\* counted as expired, where its own page counts it as nothing.
ASSUME IndicatorsPartition ==
  \A db \in Certified :
    LET shown == Dashboard(db, Anywhere)
        page == EnvironmentCertificates(db, Emea)
        here == Dashboard(db, At(Place(Emea)))
        undated == Many(LiveCertificates(db, At(Place(Emea))),
                        LAMBDA c : c.expiry = "UNKNOWN")
    IN /\ shown.certsHealthy + shown.certsExpired + shown.certs60 = 2
       /\ shown.certs7 <= shown.certs30 /\ shown.certs30 <= shown.certs60
       /\ page.critical = here.certs30 + here.certsExpired - undated
       /\ page.warning = here.certs60 - here.certs30

------------------------------------------------------------------------------
(***************************************************************************)
(* Alerts.                                                                 *)
(***************************************************************************)

Alert(id, place, status) ==
  [id |-> <<id>>, provider |-> place.provider, region |-> place.region,
   environment |-> place.environment, status |-> status, severity |-> "CRITICAL"]

Alerting ==
  {[Managing EXCEPT
      !.environments = environments,
      !.alerts = {Alert("one", Emea, s), Alert("two", Apac, t)}] :
     environments \in EnvironmentSets(Enabling),
     s \in {"OPEN", "ACKNOWLEDGED", "SUPPRESSED", "RESOLVED"},
     t \in {"OPEN", "ACKNOWLEDGED", "SUPPRESSED", "RESOLVED"}}

\* The dashboard counts no fewer alerts than are active, and exactly those
\* while no environment is shown in two regions; it counts them once for each
\* region otherwise.  The critical ones include those that are suppressed.
ASSUME AlertsPerRegion ==
  \A db \in Alerting :
    LET active == Many(AlertList(db), LAMBDA a : a.status # "SUPPRESSED")
        regions == Cardinality({Place(row) : row \in Shown(db, Anywhere)})
        shown == Dashboard(db, Anywhere)
    IN /\ shown.alerts = active * (IF regions = 2 THEN 2 ELSE 1)
       /\ shown.critical = Cardinality(AlertList(db))

\* What the pages of all environments count is what is active: none twice.
ASSUME PagesCountOnce ==
  \A db \in Alerting :
    MapThenSumSet(LAMBDA place : AlertsSummary(db, place).open
                                   + AlertsSummary(db, place).acknowledged,
                  {Place(Emea), Place(Apac)})
      = Many(db.alerts, LAMBDA a : a.status \in Open)

------------------------------------------------------------------------------
(***************************************************************************)
(* Health of applications.                                                 *)
(***************************************************************************)

Application(id, place) ==
  [id |-> id, name |-> "shop", provider |-> place.provider, enabled |-> TRUE,
   region |-> place.region, environment |-> place.environment]

Health(id, place, status) ==
  [application |-> id, name |-> "shop", provider |-> place.provider,
   region |-> place.region, environment |-> place.environment, status |-> status]

Incident(place, status) ==
  [id |-> <<"one">>, provider |-> place.provider, region |-> place.region,
   environment |-> place.environment, status |-> status]

Watched ==
  {[Managing EXCEPT
      !.environments = {Environment(Emea, "a", TRUE, TRUE, TRUE, FALSE)},
      !.applications = {Application("app1", Emea), Application("app2", Apac)},
      !.health = health, !.incidents = incidents] :
     health \in SUBSET {Health("app1", Emea, "CRITICAL"),
                        Health("app2", Apac, "HEALTHY")},
     incidents \in SUBSET {Incident(Emea, "OPEN"), Incident(Apac, "RESOLVED")}}

\* An application that was looked at has one health everywhere.  One that was
\* not shows none on the list and that of its namesake, which is of another
\* region, on its page.
ASSUME HealthIsItsOwn ==
  \A db \in Watched : \A app \in LiveApplications(db, Anywhere) :
    IF \E health \in db.health : health.application = app.id
    THEN ApplyHealth(db, app) = OwnHealth(db, app)
    ELSE /\ OwnHealth(db, app) = {Unread}
         /\ db.health # {} <=> ApplyHealth(db, app) # {Unread}

\* The cells of the demonstration matrix add up to the indicators, except
\* that without any application an open incident is in none of them.
ASSUME CellsShowIncidents ==
  \A db \in Watched :
    LET cells == UNION {HealthByScope(db, place) : place \in {Place(Emea), Place(Apac)}}
        shown == Dashboard(db, Anywhere)
        Total(field) == MapThenSumSet(LAMBDA cell : cell[field], cells)
    IN /\ Total("critical") = shown.appsCritical
       /\ Total("healthy") = shown.appsHealthy
       /\ Total("incidents") = IF db.health = {} THEN 0 ELSE shown.incidents

------------------------------------------------------------------------------
(***************************************************************************)
(* The demonstration inventory under the live one.                         *)
(***************************************************************************)

MockClusters ==
  {[ToClusterRecord(Cluster("mock", place, "demo", FALSE, "well"))
      EXCEPT !.id = <<"mock", place.region>>] : place \in {Emea, Apac}}

MockCertificates ==
  {[ToCertificateRecord(Certificate("mock", "DEV", 90))
      EXCEPT !.region = place.region, !.id = <<"mock", place.region>>] :
     place \in {Emea, Apac}}

Overlaid ==
  {[Managing EXCEPT
      !.environments = environments, !.clusters = clusters,
      !.certificates = {Certificate("one", environment, 5)}] :
     environments \in EnvironmentSets(Discovering), clusters \in ClusterSets,
     environment \in {"DEV", "UAT", Unassigned}}

\* No place shows live and demonstration clusters, or certificates, together.
ASSUME NoMixture ==
  \A db \in Overlaid :
    LET clusters == OverlayClusters(db, MockClusters)
        certificates == OverlayCertificates(db, MockCertificates)
    IN \A place \in {Place(Emea), Place(Apac)} :
         LET Of(S) == {item \in S : Place(item) = place}
         IN /\ Of(clusters) \cap MockClusters = {}
                 \/ Of(clusters) \subseteq MockClusters
            /\ Of(certificates) \cap MockCertificates = {}
                 \/ Of(certificates) \subseteq MockCertificates

\* The cell of a place agrees with the list, the ignored clusters included,
\* as long as the rows of the place agree on whether discovery was there.
ASSUME CellShowsTheList ==
  \A db \in Overlaid : \A row \in db.environments :
    LET alike == {other \in db.environments : Place(other) = Place(row)}
        listed == {c \in OverlayClusters(db, MockClusters) : Place(c) = Place(row)}
        cell == OverlayCell(db, row).clusters
    IN (\A other \in alike : other.active = row.active) =>
         IF row.active
         THEN cell = {[healthy |-> Many(listed, LAMBDA c : c.status = "Healthy"),
                       degraded |-> Many(listed, LAMBDA c : c.status = "Degraded"),
                       unreachable |-> 0]}
         ELSE cell = {} /\ listed \subseteq MockClusters

\* A certificate an account holds without an environment is shown in both
\* regions of the account under one id.
ASSUME OneIdInTwoRegions ==
  \A db \in Overlaid :
    LET records == OverlayCertificates(db, MockCertificates) \ MockCertificates
        ids == {record.id : record \in records}
    IN Cardinality(ids) < Cardinality(records) <=>
         /\ \A place \in {Place(Emea), Place(Apac)} :
              place \in ScannedPlaces(db)
                /\ \E row \in db.environments : row.account = "a" /\ Place(row) = place
         /\ \A row \in db.certificates : row.environment # "UAT"
==============================================================================
