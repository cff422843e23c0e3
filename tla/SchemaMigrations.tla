--------------------------- MODULE SchemaMigrations ---------------------------
(***************************************************************************)
(* The ten migrations `alembic upgrade head` applies before the API and    *)
(* the workers start, each way, and what they leave behind beside the      *)
(* tables that init_db() creates from the models when the API starts.      *)
(*                                                                         *)
(* A schema is a set of tables as SchemaModels describes them.  PostgreSQL *)
(* runs all migrations of one call in one transaction: either every step   *)
(* applies or none does.  Types, defaults and indexes are left out.        *)
(***************************************************************************)
EXTENDS SchemaModels, Naturals, SequencesExt

Names(schema) == {row.table : row \in schema}

Named(schema, name) == CHOOSE row \in schema : row.table = name

Create(row) == [does |-> "create", table |-> row.table, row |-> row]
Drop(name) == [does |-> "drop", table |-> name]
Add(name, columns) ==
  [does |-> "add", table |-> name, columns |-> columns]
Extend(name, columns) ==
  [does |-> "extend", table |-> name, columns |-> columns]
DropColumns(name, columns) ==
  [does |-> "remove", table |-> name, columns |-> columns]

Creates(rows) == [i \in DOMAIN rows |-> Create(rows[i])]
Drops(names) == [i \in DOMAIN names |-> Drop(names[i])]

------------------------------------------------------------------------------
(***************************************************************************)
(* The migrations.                                                         *)
(***************************************************************************)

\* 0001: the inventory of clusters and certificates, and the jobs.
Phase3Upgrade ==
  Creates(<<
    Wide("eks_clusters", {"id", "arn", "name", "cloud_region",
         "aws_account_id", "account_alias", "provider", "platform_region",
         "environment", "kubernetes_version", "endpoint_status",
         "cluster_status", "platform_version", "created_at", "last_seen_at",
         "present"}, {}, {{"arn"}}),
    Wide("eks_cluster_health", {"cluster_id", "control_plane_status",
         "kubernetes_api_reachable", "node_count", "ready_node_count",
         "pod_count", "unhealthy_pod_count", "crashloop_backoff_count",
         "pending_pod_count", "unavailable_deployment_count",
         "failed_job_count", "last_checked", "detail"}, {}, {}),
    Wide("acm_certificates", {"id", "arn", "domain_name",
         "subject_alternative_names", "issuer", "status", "not_before",
         "not_after", "days_remaining", "in_use_by", "renewal_eligibility",
         "last_checked", "provider", "platform_region", "environment",
         "account_alias", "cloud_region", "present"}, {}, {{"arn"}}),
    Wide("platform_jobs", {"id", "kind", "name", "status", "detail",
         "correlation_id", "provider", "platform_region", "environment",
         "created_at", "started_at", "finished_at", "error_class"}, {}, {}),
    Plain("live_scope_state")>>)

Phase3Downgrade ==
  Drops(<<"live_scope_state", "platform_jobs", "acm_certificates",
            "eks_cluster_health", "eks_clusters">>)

\* 0002: providers, regions, accounts and environments.
Phase4Upgrade ==
  Creates(<<
    Plain("cloud_providers"),
    Table("platform_regions", {"cloud_providers"}, {}),
    Wide("cloud_accounts", {"id", "provider", "platform_region",
         "cloud_region", "alias", "account_id", "role_arn", "external_id",
         "account_class", "readonly", "session_name",
         "cluster_environment_tag"}, {}, {{"alias"}}),
    Wide("cloud_environments", {"id", "account_id", "provider",
         "platform_region", "cloud_region", "environment", "account_alias",
         "readonly", "enabled", "discovery_active", "last_discovery_at",
         "last_health_at", "last_certificate_scan_at",
         "last_successful_scan_at", "last_error", "last_error_class",
         "last_error_at"}, {"cloud_accounts"}, {})>>)
  \o <<Add("eks_clusters", {"environment_id"})>>

Phase4Downgrade ==
  <<DropColumns("eks_clusters", {"environment_id"})>>
  \o Drops(<<"cloud_environments", "cloud_accounts", "platform_regions",
            "cloud_providers">>)

\* 0003: credentials of accounts, Alibaba clusters, TLS secrets.
Phase5Upgrade ==
  <<Add("cloud_accounts", {"credential_ref", "credential_fingerprint",
         "last_validated_at", "validation_status"}),
    Add("eks_clusters", {"cluster_type", "extra_json"}),
    Add("eks_cluster_health", {"stateful_set_unhealthy_count",
         "ingress_unhealthy_count"}),
    Add("acm_certificates", {"cluster_name", "namespace", "source"})>>

Phase5Downgrade ==
  <<DropColumns("acm_certificates", {"source", "namespace", "cluster_name"}),
    DropColumns("eks_cluster_health", {"ingress_unhealthy_count",
            "stateful_set_unhealthy_count"}),
    DropColumns("eks_clusters", {"extra_json", "cluster_type"}),
    DropColumns("cloud_accounts", {"validation_status", "last_validated_at",
            "credential_fingerprint", "credential_ref"})>>

\* 0004: the credentials and their history.
Phase6Upgrade ==
  <<Add("platform_jobs", {"target_id"})>>
  \o Creates(<<
    Table("credentials", {}, {{"provider", "platform_region", "account_alias",
          "environment", "name"}}),
    Table("credential_versions", {"credentials"}, {}),
    Table("credential_validations", {"credentials"}, {}),
    Table("credential_rotation_events", {"credentials"}, {}),
    Plain("credential_audit_events")>>)

Phase6Downgrade ==
  Drops(<<"credential_audit_events", "credential_rotation_events",
            "credential_validations", "credential_versions",
            "credentials">>)
  \o <<DropColumns("platform_jobs", {"target_id"})>>

\* 0005: certificate monitoring.  The table dropped first is what a batch
\* operation that SQLite did not finish leaves behind.
Phase7Upgrade ==
  <<Drop("_alembic_tmp_acm_certificates"),
    Add("cloud_environments", {"last_attempted_scan_at"}),
    Add("acm_certificates", {"serial_number", "auto_renew",
         "discovery_status", "first_seen_at", "last_seen_at", "cluster_id",
         "application_id", "expiry_status", "hostname", "handshake_ok",
         "handshake_latency_ms", "last_error", "last_error_class",
         "last_attempted_at"})>>
  \o Creates(<<
    Table("certificate_history_events", {"acm_certificates"}, {}),
    Table("certificate_alerts", {"acm_certificates"}, {}),
    Table("certificate_validations", {"acm_certificates"}, {}),
    Table("certificate_endpoints", {}, {{"url"}}),
    Plain("notification_events"),
    Plain("certificate_audit_events")>>)

Phase7Downgrade ==
  Drops(<<"certificate_audit_events", "notification_events",
            "certificate_endpoints", "certificate_validations",
            "certificate_alerts", "certificate_history_events">>)
  \o <<DropColumns("acm_certificates", {"last_attempted_at",
               "last_error_class", "last_error", "handshake_latency_ms",
               "handshake_ok", "hostname", "expiry_status", "application_id",
               "cluster_id", "last_seen_at", "first_seen_at",
               "discovery_status", "auto_renew", "serial_number"}),
       DropColumns("cloud_environments", {"last_attempted_scan_at"})>>

\* 0006: GitHub.
RepositoryTables ==
  Creates(<<
    Plain("github_integrations"),
    Table("github_organizations", {"github_integrations"}, {}),
    Table("github_repositories", {"github_organizations"}, {{"github_id"}}),
    Table("github_application_repositories", {"github_repositories"},
          {{"repository_id", "application_id"}}),
    Table("github_environment_mapping", {"github_repositories"},
          {{"github_repository_id", "github_environment"}}),
    Table("github_workflows", {"github_repositories"}, {{"github_id"}}),
    Table("github_workflow_runs", {"github_repositories", "github_workflows"},
          {{"github_id"}}),
    Table("github_workflow_jobs", {"github_workflow_runs"}, {{"github_id"}})>>)

GithubEventTables ==
  Creates(<<
    Table("github_variables", {"github_repositories"}, {{"repository_id",
          "name", "scope", "github_environment"}}),
    Table("github_secrets", {"github_repositories"}, {{"repository_id",
          "name", "scope", "github_environment"}}),
    Table("github_webhook_deliveries", {}, {{"delivery_id"}}),
    Plain("github_audit_events"),
    Plain("github_alerts")>>)

Phase8Upgrade ==
  RepositoryTables \o GithubEventTables

Phase8Downgrade ==
  Drops(<<"github_alerts", "github_audit_events", "github_webhook_deliveries",
            "github_secrets", "github_variables",
            "github_workflow_jobs", "github_workflow_runs",
            "github_workflows", "github_environment_mapping",
            "github_application_repositories", "github_repositories",
            "github_organizations", "github_integrations">>)

\* 0007: pipelines.
PipelineTables ==
  Creates(<<
    Table("pipeline_providers", {}, {{"key"}}),
    Table("pipelines", {"pipeline_providers"}, {{"provider_id",
          "external_id"}}),
    Table("pipeline_runs", {"pipelines"}, {{"pipeline_id",
          "external_run_id"}}),
    Table("pipeline_stages", {"pipeline_runs"}, {{"run_id", "external_id"}}),
    Table("pipeline_jobs", {"pipeline_runs"}, {{"run_id", "external_id"}})>>)

PipelineEventTables ==
  Creates(<<
    Table("pipeline_environment_mapping", {"pipelines"}, {{"pipeline_id",
          "environment_id", "branch_pattern", "stage_name"}}),
    Table("pipeline_application_mapping", {"pipelines"}, {{"pipeline_id",
          "application_id"}}),
    Table("pipeline_webhook_deliveries", {}, {{"delivery_id"}}),
    Plain("pipeline_audit_events"),
    Plain("pipeline_alerts")>>)

Phase9Upgrade ==
  PipelineTables \o PipelineEventTables

Phase9Downgrade ==
  Drops(<<"pipeline_alerts", "pipeline_audit_events",
            "pipeline_webhook_deliveries",
            "pipeline_application_mapping",
            "pipeline_environment_mapping", "pipeline_jobs",
            "pipeline_stages", "pipeline_runs", "pipelines",
            "pipeline_providers">>)

\* 0008: health.
HealthTables ==
  Creates(<<
    Plain("health_check_definition"),
    Plain("health_check_result"),
    Table("resource_health", {}, {{"cluster_id", "resource_type", "namespace",
          "resource_name"}}),
    Table("application_health", {}, {{"application_id", "environment_id"}})>>)

IncidentTables ==
  Creates(<<
    Plain("health_incident"),
    Plain("application_resource_mapping"),
    Plain("application_dependency"),
    Table("health_alerts", {}, {{"fingerprint"}}),
    Plain("health_timeline_event"),
    Plain("health_audit_events"),
    Plain("health_scan_lock")>>)

Phase10Upgrade ==
  HealthTables \o IncidentTables

Phase10Downgrade ==
  Drops(<<"health_scan_lock", "health_audit_events", "health_timeline_event",
            "health_alerts", "application_dependency",
            "application_resource_mapping", "health_incident",
            "application_health", "resource_health",
            "health_check_result", "health_check_definition">>)

\* 0009: alerting.
AlertTables ==
  Creates(<<
    Plain("alerts"),
    Plain("alert_events"),
    Plain("alert_rules")>>)

NotificationTables ==
  Creates(<<
    Plain("notification_destinations"),
    Plain("notification_policies"),
    Plain("notification_policy_steps"),
    Plain("alert_routing_rules"),
    Plain("notification_deliveries"),
    Plain("alert_suppressions"),
    Plain("maintenance_windows"),
    Plain("alert_audit_events")>>)

Phase11Upgrade ==
  AlertTables \o NotificationTables

Phase11Downgrade ==
  Drops(<<"alert_audit_events", "maintenance_windows", "alert_suppressions",
            "notification_deliveries", "alert_routing_rules",
            "notification_policy_steps", "notification_policies",
            "notification_destinations", "alert_rules", "alert_events",
            "alerts">>)

\* 0010: administration.
AdministrationUpgrade ==
  <<Extend("cloud_accounts", {"managed_provider_id", "enabled", "display_name",
         "description", "auth_strategy", "ram_role", "cloud_regions_json",
         "last_error_class", "identity_account", "identity_principal"}),
    Extend("cloud_environments", {"name", "code", "description",
         "readiness_status"}),
    Extend("eks_clusters", {"ignored", "monitoring_enabled"}),
    Extend("platform_jobs", {"resources_found", "error_count"})>>
  \o Creates(<<
    Plain("managed_providers"),
    Plain("managed_applications"),
    Table("application_environment_bindings", {"managed_applications"}, {}),
    Plain("platform_settings"),
    Plain("platform_audit_events")>>)

AdministrationDowngrade ==
  <<>>

------------------------------------------------------------------------------
(***************************************************************************)
(* What a migration does to a schema.                                      *)
(***************************************************************************)

\* A later migration looks before it creates, drops, adds or removes; the
\* first four do not.
Migration(up, down, guarded) ==
  [up |-> up, down |-> down, guarded |-> guarded]

Migrations ==
  <<Migration(Phase3Upgrade, Phase3Downgrade, FALSE),
    Migration(Phase4Upgrade, Phase4Downgrade, FALSE),
    Migration(Phase5Upgrade, Phase5Downgrade, FALSE),
    Migration(Phase6Upgrade, Phase6Downgrade, FALSE),
    Migration(Phase7Upgrade, Phase7Downgrade, TRUE),
    Migration(Phase8Upgrade, Phase8Downgrade, TRUE),
    Migration(Phase9Upgrade, Phase9Downgrade, TRUE),
    Migration(Phase10Upgrade, Phase10Downgrade, TRUE),
    Migration(Phase11Upgrade, Phase11Downgrade, TRUE),
    Migration(AdministrationUpgrade, AdministrationDowngrade, TRUE)>>

Newest == Len(Migrations)

\* What steps do one after the other.  No migration alters a table it makes
\* or makes one it drops.
Done(schema, steps) ==
  LET Of(does) == {step \in ToSet(steps) : step.does \in does}
      dropped == {step.table : step \in Of({"drop"})}
      made == {step.row : step \in Of({"create"})}
      Gained(table) ==
        UNION {step.columns : step \in
                 {s \in Of({"add", "extend"}) : s.table = table}}
      Lost(table) ==
        UNION {step.columns : step \in {s \in Of({"remove"}) : s.table = table}}
      kept == {row \in schema : row.table \notin dropped}
      new == {row \in made : row.table \notin Names(schema)}
  IN {[row EXCEPT !.columns = (@ \cup Gained(row.table)) \ Lost(row.table)] :
        row \in kept \cup new}

\* PostgreSQL refuses to create a table twice or before the tables it refers
\* to, to drop one that another refers to, and to add or remove a column
\* that is there or is not.
Refused(schema, guarded, step) ==
  LET there == step.table \in Names(schema)
      columns == Named(schema, step.table).columns
  IN \/ /\ step.does = "create"
        /\ IF there THEN ~guarded
                    ELSE ~(step.row.parents \subseteq Names(schema))
     \/ /\ step.does = "drop"
        /\ IF there THEN \E row \in schema : step.table \in row.parents
                    ELSE ~guarded
     \/ /\ step.does = "add"
        /\ there => ~guarded /\ step.columns \cap columns # {}
     \/ /\ step.does = "remove"
        /\ ~guarded
        /\ there => ~(step.columns \subseteq columns)

Fails(schema, guarded, steps) ==
  \E i \in DOMAIN steps :
    Refused(Done(schema, SubSeq(steps, 1, i - 1)), guarded, steps[i])

\* What has been reached: the schema, or the failure that rolls all back.
Reached(schema) == [failed |-> FALSE, schema |-> schema]

Run(reached, guarded, steps) ==
  IF reached.failed \/ Fails(reached.schema, guarded, steps)
  THEN [reached EXCEPT !.failed = TRUE]
  ELSE Reached(Done(reached.schema, steps))

Upgrade(schema, from) ==
  FoldLeft(LAMBDA r, m : Run(r, m.guarded, m.up), Reached(schema),
           SubSeq(Migrations, from + 1, Newest))

Downgrade(schema, to) ==
  FoldLeft(LAMBDA r, m : Run(r, m.guarded, m.down), Reached(schema),
           Reverse(SubSeq(Migrations, to + 1, Newest)))

\* The schema of each revision.
At[n \in 0 .. Newest] ==
  IF n = 0 THEN {} ELSE Done(At[n - 1], Migrations[n].up)

\* Base.metadata.create_all(): tables that are missing, as the models have
\* them.  A table that is there keeps the columns it has.
CreateAll(schema) ==
  schema \cup {row \in Metadata : row.table \notin Names(schema)}

------------------------------------------------------------------------------
(***************************************************************************)
(* What TLC evaluates.                                                     *)
(***************************************************************************)

\* An empty database reaches the head, and the head is what the models
\* declare: no code reads a table, a column or a reference that no migration
\* makes.  One key is missing: nothing keeps a migrated database from
\* binding an application to one environment twice.
HeadIsMetadata ==
  /\ ~Upgrade({}, 0).failed
  /\ Upgrade({}, 0).schema =
       {IF row.table = "application_environment_bindings"
        THEN [row EXCEPT !.keys = {}] ELSE row : row \in Metadata}
ASSUME HeadIsMetadata

\* Each downgrade takes back what its upgrade did, in an order that drops
\* no table another still refers to.  The last one takes nothing back.
DowngradesUndo ==
  \A n \in 1 .. Newest :
    LET m == Migrations[n]
        down == Run(Reached(At[n]), m.guarded, m.down)
    IN ~down.failed /\ down.schema = At[IF n = Newest THEN n ELSE n - 1]
ASSUME DowngradesUndo

\* Although the last downgrade leaves its tables and columns behind, a
\* database taken back to any revision comes forward again to the same head.
ThereAndBack ==
  \A n \in 0 .. Newest :
    LET back == Downgrade(At[Newest], n)
        again == Upgrade(back.schema, n)
    IN ~back.failed /\ ~again.failed /\ again.schema = At[Newest]
ASSUME ThereAndBack

\* An API that starts before the migrations creates the tables of later
\* revisions.  From revision 0004 on the migrations step over them and end
\* with every column; before it, and on an empty database, they can never
\* be applied.
StartedTooEarly ==
  \A n \in 0 .. Newest :
    LET after == Upgrade(CreateAll(At[n]), n)
    IN /\ after.failed <=> n < 4
       /\ n \in 4 .. Newest - 1 => after.schema = Metadata
ASSUME StartedTooEarly
==============================================================================
