---------------------------- MODULE ConsoleViews -----------------------------
(***************************************************************************)
(* What the console shows of one database: the list of clusters, the page  *)
(* of an environment, the matrix of the dashboard and its indicators, each *)
(* computed by code of its own from the same rows, live or laid over the   *)
(* demonstration inventory.                                                *)
(*                                                                         *)
(* A database `db` is a record of sets of rows; ids are sequences.  A      *)
(* scope is a record whose fields are values or All; a place is the        *)
(* provider, region and environment a row belongs to.                      *)
(***************************************************************************)
EXTENDS Sequences, FiniteSetsExt, ExpiryClasses

All == "all"
Unassigned == "unset"

Anywhere ==
  [provider |-> All, region |-> All, environment |-> All, account |-> All]

Place(row) == <<row.provider, row.region, row.environment>>

At(place) ==
  [Anywhere EXCEPT !.provider = place[1], !.region = place[2],
                   !.environment = place[3]]

Within(record, scope, fields) ==
  \A field \in fields : scope[field] \in {All, record[field]}

Located == {"provider", "region", "environment"}

Many(S, P(_)) == Cardinality({x \in S : P(x)})

------------------------------------------------------------------------------
(***************************************************************************)
(* Rows as the console presents them.                                      *)
(***************************************************************************)

\* A cluster that runs and was never looked at counts as healthy.
CatalogStatus(cluster) ==
  IF ~cluster.running THEN "Unreachable"
  ELSE CASE cluster.health = "unreachable" -> "Unreachable"
         [] cluster.health = "troubled" -> "Degraded"
         [] OTHER -> "Healthy"

ToClusterRecord(cluster) ==
  [id |-> cluster.id, provider |-> cluster.provider,
   region |-> cluster.region, environment |-> cluster.environment,
   account |-> cluster.account, status |-> CatalogStatus(cluster)]

ExpiryOf(row) == IF row.dated THEN ClassifyExpiry(row.days) ELSE "UNKNOWN"

\* A certificate without a date has 0 days left, one without an environment
\* belongs to DEV.
ToCertificateRecord(row) ==
  [id |-> row.id, provider |-> row.provider, region |-> row.region,
   environment |-> IF row.environment = Unassigned THEN "DEV" ELSE row.environment,
   account |-> row.account,
   days |-> IF row.dated THEN row.days ELSE 0, expiry |-> ExpiryOf(row)]

PresentClusters(db) == {cluster \in db.clusters : cluster.present}

PresentCertificates(db) == {row \in db.certificates : row.present}

\* What belongs to an account that no provider manages is not shown once
\* there is an enabled provider.
ManagedOnly(db) == db.configured \/ ~db.seeded

Managed(db, row) ==
  ManagedOnly(db) =>
    \E account \in db.accounts :
      account.account = row.account /\ account.managed

------------------------------------------------------------------------------
(***************************************************************************)
(* Live.                                                                   *)
(***************************************************************************)

LiveRegions(db, scope) ==
  LET regions == {[provider |-> account.provider, region |-> account.region] :
                    account \in {a \in db.accounts :
                                   a.enabled /\ Managed(db, a)}}
  IN {region \in regions : Within(region, scope, {"provider", "region"})}

\* An account is found under every environment it has.
LiveAccounts(db, scope) ==
  {account \in db.accounts :
     /\ Managed(db, account)
     /\ Within(account, scope, {"provider", "region", "account"})
     /\ \/ scope.environment = All
        \/ \E row \in db.environments :
             row.account = account.account
               /\ row.environment = scope.environment}

LiveEnvironments(db, scope) ==
  {row \in db.environments :
     Managed(db, row) /\ Within(row, scope, Located \cup {"account"})}

LiveClusters(db, scope) ==
  LET records ==
        {ToClusterRecord(cluster) :
           cluster \in {c \in PresentClusters(db) : ~c.ignored}}
  IN {record \in records : Within(record, scope, Located \cup {"account"})}

LiveCertificates(db, scope) ==
  {record \in {ToCertificateRecord(row) : row \in PresentCertificates(db)} :
     Within(record, scope, Located)}

\* The clusters of the page of an environment: the list, unless discovery
\* has been there, which brings the rows themselves.
EnvironmentClusters(db, row) ==
  IF row.active
  THEN {ToClusterRecord(cluster) :
          cluster \in {c \in PresentClusters(db) : Place(c) = Place(row)}}
  ELSE LiveClusters(db, At(Place(row)))

EnvironmentCertificates(db, row) ==
  LET certs == LiveCertificates(db, At(Place(row)))
      Count(statuses) == Many(certs, LAMBDA c : c.expiry \in statuses)
  IN [total |-> Cardinality(certs),
      warning |-> Count({"WARNING"}),
      critical |-> Count({"CRITICAL", "URGENT", "EXPIRED"})]

\* An application with the health of its own; "" when it was never looked at.
Unread == ""

OwnHealth(db, app) ==
  LET own == {health \in db.health : health.application = app.id}
  IN IF own = {} THEN {Unread} ELSE {health.status : health \in own}

LiveApplications(db, scope) ==
  {app \in db.applications :
     app.enabled /\ Within(app, scope, Located)}

\* On the page of an environment, and on the demonstration pages, an
\* application without a row of its own takes the health of any of its name
\* and its environment.
ApplyHealth(db, app) ==
  LET alike == {health \in db.health :
                  health.name = app.name
                    /\ health.environment = app.environment}
  IN IF OwnHealth(db, app) # {Unread} \/ alike = {} THEN OwnHealth(db, app)
     ELSE {health.status : health \in alike}

Open == {"OPEN", "ACKNOWLEDGED"}

AlertsSummary(db, place) ==
  LET scoped == {alert \in db.alerts : Place(alert) = place}
  IN [open |-> Many(scoped, LAMBDA a : a.status = "OPEN"),
      acknowledged |-> Many(scoped, LAMBDA a : a.status = "ACKNOWLEDGED"),
      critical |-> Many(scoped, LAMBDA a : a.status \in Open
                                             /\ a.severity = "CRITICAL")]

\* The list of alerts shows the silenced ones as well.
AlertList(db) == {alert \in db.alerts : alert.status \in Open \cup {"SUPPRESSED"}}

\* The alerts of a cell are those of the provider and the environment,
\* whatever their region.
Cell(db, place) ==
  LET clusters == LiveClusters(db, At(place))
      Count(status) == Many(clusters, LAMBDA c : c.status = status)
  IN [healthy |-> Count("Healthy"), degraded |-> Count("Degraded"),
      unreachable |-> Count("Unreachable"),
      alerts |-> Many(db.alerts, LAMBDA a : /\ a.provider = place[1]
                                            /\ a.environment = place[3]
                                            /\ a.status \in Open)]

\* Two rows of one place write one cell.
Shown(db, scope) ==
  {row \in db.environments :
     row.enabled /\ Managed(db, row) /\ Within(row, scope, {"provider", "region"})}

LiveMatrix(db, scope) ==
  [place \in {Place(row) : row \in Shown(db, scope)} |->
     IF scope.environment \in {All, place[3]} THEN Cell(db, place)
     ELSE [healthy |-> 0, degraded |-> 0, unreachable |-> 0, alerts |-> 0]]

Summary(matrix) ==
  LET Total(field) ==
        MapThenSumSet(LAMBDA place : matrix[place][field], DOMAIN matrix)
  IN [healthy |-> Total("healthy"), degraded |-> Total("degraded"),
      unreachable |-> Total("unreachable"), alerts |-> Total("alerts")]

\* The indicators of the dashboard.  Alerts and health are those of the whole
\* installation, whatever the scope.
Dashboard(db, scope) ==
  LET cells == Summary(LiveMatrix(db, scope))
      certs == LiveCertificates(db, scope)
      open == Many(db.alerts, LAMBDA a : a.status \in Open)
      Apps(status) == Many(db.health, LAMBDA a : a.status = status)
      Expiring(days) == Many(certs, LAMBDA c : 0 < c.days /\ c.days <= days)
  IN [clusters |-> cells.healthy + cells.degraded + cells.unreachable,
      alerts |-> IF cells.alerts > open THEN cells.alerts ELSE open,
      certsHealthy |-> Many(certs, LAMBDA c : c.expiry = "HEALTHY"),
      certs60 |-> Expiring(60), certs30 |-> Expiring(30), certs7 |-> Expiring(7),
      certsExpired |-> Many(certs, LAMBDA c : c.expiry = "EXPIRED"
                                                \/ c.days <= 0),
      appsHealthy |-> Apps("HEALTHY"), appsDegraded |-> Apps("DEGRADED"),
      appsUnhealthy |-> Apps("UNHEALTHY"), appsCritical |-> Apps("CRITICAL"),
      incidents |-> Many(db.incidents, LAMBDA i : i.status \in Open),
      critical |-> Many(db.alerts, LAMBDA a : a.severity = "CRITICAL"
                                                /\ a.status # "RESOLVED")]

------------------------------------------------------------------------------
(***************************************************************************)
(* Laid over the demonstration inventory: `mock` is a set of records.      *)
(***************************************************************************)

DiscoveredPlaces(db) ==
  {Place(row) : row \in {r \in db.environments : r.active}}

ScannedPlaces(db) ==
  {Place(row) : row \in {r \in db.environments : r.scanned /\ ~r.failing}}

OverlayClusters(db, mock) ==
  {item \in mock : Place(item) \notin DiscoveredPlaces(db)}
    \cup {ToClusterRecord(cluster) :
            cluster \in {c \in PresentClusters(db) :
                           Place(c) \in DiscoveredPlaces(db)}}

\* A certificate of an account is shown in each scanned environment of the
\* account, or in its own if it names one.
OverlayCertificates(db, mock) ==
  LET Targets(row) ==
        {env \in db.environments :
           env.account = row.account
             /\ row.environment \in {Unassigned, env.environment}}
      live ==
        UNION {{[ToCertificateRecord(row) EXCEPT
                   !.region = env.region, !.environment = env.environment,
                   !.id = IF Cardinality(Targets(row)) > 1
                          THEN Append(row.id, env.environment) ELSE row.id] :
                  env \in {e \in Targets(row) :
                             Place(e) \in ScannedPlaces(db)}} :
               row \in PresentCertificates(db)}
  IN {item \in mock : Place(item) \notin {Place(record) : record \in live}}
       \cup live

\* The health of a place, once any application has been looked at.
HealthByScope(db, place) ==
  LET apps == {a \in db.health : Place(a) = place}
      Apps(status) == Many(apps, LAMBDA a : a.status = status)
      incidents ==
        Many(db.incidents, LAMBDA i : i.status \in Open /\ Place(i) = place)
  IN IF db.health = {} \/ (apps = {} /\ incidents = 0) THEN {}
     ELSE {[healthy |-> Apps("HEALTHY"), degraded |-> Apps("DEGRADED"),
            unhealthy |-> Apps("UNHEALTHY"), critical |-> Apps("CRITICAL"),
            incidents |-> incidents]}

\* A cell of the matrix, from one row of its place; which one of several is
\* up to the database.  A cell that no row makes live stays as it was.
OverlayCell(db, row) ==
  LET clusters == {c \in PresentClusters(db) : Place(c) = Place(row)}
      Count(status) == Many(clusters, LAMBDA c : CatalogStatus(c) = status)
      certs == {c \in PresentCertificates(db) :
                  /\ c.account = row.account
                  /\ c.environment \in {Unassigned, row.environment}}
      Expiring(days) ==
        Many(certs, LAMBDA c : c.dated /\ 0 < c.days /\ c.days <= days)
      Expiry(status) == Many(certs, LAMBDA c : ExpiryOf(c) = status)
  IN [clusters |->
        IF row.active THEN {[healthy |-> Count("Healthy"),
                             degraded |-> Count("Degraded"),
                             unreachable |-> Count("Unreachable")]} ELSE {},
      certificates |->
        IF row.scanned /\ certs # {}
        THEN {[healthy |-> Expiry("HEALTHY"), expired |-> Expiry("EXPIRED"),
               within60 |-> Expiring(60), within30 |-> Expiring(30),
               within7 |-> Expiring(7)]} ELSE {},
      health |-> HealthByScope(db, Place(row))]
==============================================================================
