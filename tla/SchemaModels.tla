---------------------------- MODULE SchemaModels -----------------------------
(***************************************************************************)
(* The database as the declarative models declare it: what                 *)
(* Base.metadata.create_all() creates.  A table is kept with the tables    *)
(* its foreign keys refer to and its unique keys.  Columns are listed for  *)
(* the six tables that migrations alter after they made them; the columns  *)
(* of the others arrive with the table and are left out.                   *)
(***************************************************************************)
EXTENDS FiniteSets

Wide(name, columns, parents, keys) ==
  [table |-> name, columns |-> columns, parents |-> parents, keys |-> keys]

Table(name, parents, keys) == Wide(name, {}, parents, keys)

Plain(name) == Table(name, {}, {})

TopologyModels ==
  {Plain("cloud_providers"),
   Table("platform_regions", {"cloud_providers"}, {}),
   Wide("cloud_accounts", {"id", "provider", "platform_region",
        "cloud_region", "alias", "account_id", "role_arn", "external_id",
        "account_class", "readonly", "session_name",
        "cluster_environment_tag", "credential_ref", "credential_fingerprint",
        "last_validated_at", "validation_status", "managed_provider_id",
        "enabled", "display_name", "description", "auth_strategy", "ram_role",
        "cloud_regions_json", "last_error_class", "identity_account",
        "identity_principal"}, {}, {{"alias"}}),
   Wide("cloud_environments", {"id", "account_id", "provider",
        "platform_region", "cloud_region", "environment", "account_alias",
        "readonly", "enabled", "discovery_active", "last_discovery_at",
        "last_health_at", "last_certificate_scan_at",
        "last_successful_scan_at", "last_error", "last_error_class",
        "last_error_at", "last_attempted_scan_at", "name", "code",
        "description", "readiness_status"}, {"cloud_accounts"}, {})}

InventoryModels ==
  {Wide("eks_clusters", {"id", "arn", "name", "cloud_region",
        "aws_account_id", "account_alias", "provider", "platform_region",
        "environment", "kubernetes_version", "endpoint_status",
        "cluster_status", "platform_version", "created_at", "last_seen_at",
        "present", "environment_id", "cluster_type", "extra_json", "ignored",
        "monitoring_enabled"}, {}, {{"arn"}}),
   Wide("eks_cluster_health", {"cluster_id", "control_plane_status",
        "kubernetes_api_reachable", "node_count", "ready_node_count",
        "pod_count", "unhealthy_pod_count", "crashloop_backoff_count",
        "pending_pod_count", "unavailable_deployment_count",
        "failed_job_count", "stateful_set_unhealthy_count",
        "ingress_unhealthy_count", "last_checked", "detail"}, {}, {}),
   Wide("acm_certificates", {"id", "arn", "domain_name",
        "subject_alternative_names", "issuer", "status", "not_before",
        "not_after", "days_remaining", "in_use_by", "renewal_eligibility",
        "last_checked", "provider", "platform_region", "environment",
        "account_alias", "cloud_region", "present", "cluster_name",
        "namespace", "source", "serial_number", "auto_renew",
        "discovery_status", "first_seen_at", "last_seen_at", "cluster_id",
        "application_id", "expiry_status", "hostname", "handshake_ok",
        "handshake_latency_ms", "last_error", "last_error_class",
        "last_attempted_at"}, {}, {{"arn"}}),
   Wide("platform_jobs", {"id", "kind", "name", "status", "detail",
        "correlation_id", "provider", "platform_region", "environment",
        "created_at", "started_at", "finished_at", "error_class", "target_id",
        "resources_found", "error_count"}, {}, {}),
   Plain("live_scope_state")}

CredentialModels ==
  {Table("credentials", {}, {{"provider", "platform_region", "account_alias",
         "environment", "name"}}),
   Table("credential_versions", {"credentials"}, {}),
   Table("credential_validations", {"credentials"}, {}),
   Table("credential_rotation_events", {"credentials"}, {}),
   Plain("credential_audit_events")}

CertificateModels ==
  {Table("certificate_history_events", {"acm_certificates"}, {}),
   Table("certificate_alerts", {"acm_certificates"}, {}),
   Table("certificate_validations", {"acm_certificates"}, {}),
   Table("certificate_endpoints", {}, {{"url"}}),
   Plain("notification_events"),
   Plain("certificate_audit_events")}

RepositoryModels ==
  {Plain("github_integrations"),
   Table("github_organizations", {"github_integrations"}, {}),
   Table("github_repositories", {"github_organizations"}, {{"github_id"}}),
   Table("github_application_repositories", {"github_repositories"},
         {{"repository_id", "application_id"}}),
   Table("github_environment_mapping", {"github_repositories"},
         {{"github_repository_id", "github_environment"}}),
   Table("github_workflows", {"github_repositories"}, {{"github_id"}}),
   Table("github_workflow_runs", {"github_repositories", "github_workflows"},
         {{"github_id"}}),
   Table("github_workflow_jobs", {"github_workflow_runs"}, {{"github_id"}})}

GithubEventModels ==
  {Table("github_variables", {"github_repositories"}, {{"repository_id",
         "name", "scope", "github_environment"}}),
   Table("github_secrets", {"github_repositories"}, {{"repository_id", "name",
         "scope", "github_environment"}}),
   Table("github_webhook_deliveries", {}, {{"delivery_id"}}),
   Plain("github_audit_events"),
   Plain("github_alerts")}

PipelineModels ==
  {Table("pipeline_providers", {}, {{"key"}}),
   Table("pipelines", {"pipeline_providers"}, {{"provider_id",
         "external_id"}}),
   Table("pipeline_runs", {"pipelines"}, {{"pipeline_id", "external_run_id"}}),
   Table("pipeline_stages", {"pipeline_runs"}, {{"run_id", "external_id"}}),
   Table("pipeline_jobs", {"pipeline_runs"}, {{"run_id", "external_id"}}),
   Table("pipeline_environment_mapping", {"pipelines"}, {{"pipeline_id",
         "environment_id", "branch_pattern", "stage_name"}})}

PipelineEventModels ==
  {Table("pipeline_application_mapping", {"pipelines"}, {{"pipeline_id",
         "application_id"}}),
   Table("pipeline_webhook_deliveries", {}, {{"delivery_id"}}),
   Plain("pipeline_audit_events"),
   Plain("pipeline_alerts")}

HealthModels ==
  {Plain("health_check_definition"),
   Plain("health_check_result"),
   Table("resource_health", {}, {{"cluster_id", "resource_type", "namespace",
         "resource_name"}}),
   Table("application_health", {}, {{"application_id", "environment_id"}})}

IncidentModels ==
  {Plain("health_incident"),
   Plain("application_resource_mapping"),
   Plain("application_dependency"),
   Table("health_alerts", {}, {{"fingerprint"}}),
   Plain("health_timeline_event"),
   Plain("health_audit_events"),
   Plain("health_scan_lock")}

AlertModels ==
  {Plain("alerts"),
   Plain("alert_events"),
   Plain("alert_rules")}

NotificationModels ==
  {Plain("notification_destinations"),
   Plain("notification_policies"),
   Plain("notification_policy_steps"),
   Plain("alert_routing_rules"),
   Plain("notification_deliveries"),
   Plain("alert_suppressions"),
   Plain("maintenance_windows")}

AdministrationModels ==
  {Plain("managed_providers"),
   Plain("managed_applications"),
   Table("application_environment_bindings", {"managed_applications"},
         {{"application_id", "environment_id"}}),
   Plain("platform_settings"),
   Plain("platform_audit_events"),
   Plain("alert_audit_events")}

\* Base.metadata: every table of the models.
Metadata ==
  UNION {TopologyModels, InventoryModels, CredentialModels,
         CertificateModels, RepositoryModels, GithubEventModels,
         PipelineModels, PipelineEventModels, HealthModels,
         IncidentModels, AlertModels, NotificationModels,
         AdministrationModels}
==============================================================================
