------------------------------ MODULE JobKinds ------------------------------
(***************************************************************************)
(* The forty kinds of background job and how their tasks differ: what a    *)
(* task records in the row of its job, when Celery sends it again, and     *)
(* whether the beat process enqueues it.  A family of JobQueue stands for  *)
(* all kinds that treat their row alike.                                   *)
(***************************************************************************)
EXTENDS JobQueue

Outcomes == Errors \cup {"success"}
Provider == {"transient", "permanent"}

Family(marksRunning, atOnce, marks, retries) ==
  [marksRunning |-> marksRunning, atOnce |-> atOnce, marks |-> marks, retries |-> retries]

(* _finish_fleet_job() classifies and records the errors of the accounts;  *)
(* autoretry_for names the transient error of the provider.                *)
Inventory == Family(TRUE, TRUE, Provider \cup {"success"}, {"transient"})

(* _run() of alerting/jobs.py, and self.retry().                           *)
Alerting == Family(TRUE, FALSE, Outcomes, Errors)

(* run_credential_validation() records every error and raises none.        *)
Validation == Family(TRUE, FALSE, Outcomes, {})

(* run_rotation_status_scan() records no error.                            *)
RotationScan == Family(TRUE, FALSE, {"success"}, {})

(* The scans of health_sync commit one environment after the other; they   *)
(* record no error.                                                        *)
EnvironmentScan == Family(TRUE, FALSE, {"success"}, Errors)

(* The checks of health_sync commit with _finish().                        *)
HealthCheck == Family(TRUE, TRUE, {"success"}, Errors)

(* run_certificate_discovery() records `failed` when both providers fail;  *)
(* an error of the evaluation that follows is raised.                      *)
CertificateScan == Family(TRUE, FALSE, Provider \cup {"success"}, {})

(* The jobs of certificate_monitor and of github_sync: one transaction,    *)
(* and another one for the error.                                          *)
OneTransaction == Family(FALSE, TRUE, Outcomes, {})

(* The same job as a task that retries the transient error of Alibaba.     *)
AlibabaTransaction == Family(FALSE, TRUE, Outcomes, {"transient"})

(* The jobs of pipeline_sync: the work is committed, then the row.         *)
PipelineJob == Family(FALSE, FALSE, Outcomes, Errors)

(* pipeline_webhook records nothing; github_webhook records its end.       *)
PipelineDelivery == Family(FALSE, FALSE, {}, Errors)
GithubDelivery   == Family(FALSE, FALSE, {"success"}, {})

-----------------------------------------------------------------------------
(* A kind of job: its family, max_retries of its task (3 where Celery's    *)
(* default holds), and whether beat_schedule has an entry for it.          *)

Scheduled == TRUE
OnRequest == FALSE
Kind(kind, family_, tries, beat) ==
  [kind |-> kind, family |-> family_, tries |-> tries, beat |-> beat]

AwsClusterDiscovery      == Kind("aws-cluster-discovery", Inventory, 5, OnRequest)
AwsClusterHealth         == Kind("aws-health-scan", Inventory, 5, OnRequest)
AwsCertificateScan       == Kind("aws-certificate-scan", Inventory, 5, OnRequest)
AlibabaAccountValidation == Kind("alibaba-account-validation", Inventory, 5, OnRequest)
AlibabaClusterDiscovery  == Kind("alibaba-cluster-discovery", Inventory, 5, OnRequest)
AlibabaClusterHealth     == Kind("alibaba-health-scan", Inventory, 5, OnRequest)
AlibabaCertificateScan   == Kind("alibaba-certificate-discovery", Inventory, 5, OnRequest)
AlibabaCertificateExpiry == Kind("alibaba-certificate-expiry-scan", AlibabaTransaction, 5, OnRequest)

CredentialValidate     == Kind("credential-validate", Validation, 3, OnRequest)
CredentialRotationScan == Kind("credential-rotation-status-scan", RotationScan, 3, Scheduled)

CertificateDiscovery == Kind("certificate-discovery", CertificateScan, 3, Scheduled)
CertificateExpiry    == Kind("certificate-expiry-scan", OneTransaction, 3, Scheduled)
CertificateEndpoint  == Kind("certificate-endpoint-validation", OneTransaction, 3, Scheduled)
CertificateAlerts    == Kind("certificate-alert-evaluation", OneTransaction, 3, Scheduled)
CertificateValidate  == Kind("certificate-validate", OneTransaction, 3, OnRequest)

GithubRepositorySync  == Kind("github-repository-sync", OneTransaction, 3, Scheduled)
GithubWorkflowSync    == Kind("github-workflow-sync", OneTransaction, 3, Scheduled)
GithubWorkflowRunSync == Kind("github-workflow-run-sync", OneTransaction, 3, Scheduled)
GithubVariableSync    == Kind("github-variable-sync", OneTransaction, 3, Scheduled)
GithubSecretSync      == Kind("github-secret-metadata-sync", OneTransaction, 3, Scheduled)
GithubWebhook         == Kind("github-webhook-process", GithubDelivery, 3, OnRequest)

PipelineProviderSync  == Kind("pipeline-provider-sync", PipelineJob, 3, Scheduled)
PipelineSync          == Kind("pipeline-sync", PipelineJob, 3, Scheduled)
PipelineRunSync       == Kind("pipeline-run-sync", PipelineJob, 3, Scheduled)
PipelineRunDetailSync == Kind("pipeline-run-detail-sync", PipelineJob, 3, Scheduled)
PipelineRetention     == Kind("pipeline-retention", PipelineJob, 3, Scheduled)
PipelineWebhook       == Kind("pipeline-webhook-process", PipelineDelivery, 3, OnRequest)

ClusterHealthScan     == Kind("cluster-health-scan", EnvironmentScan, 3, Scheduled)
ApplicationHealthScan == Kind("application-health-scan", EnvironmentScan, 3, Scheduled)
HealthAggregation     == Kind("health-aggregation", EnvironmentScan, 3, Scheduled)
HttpHealthCheck       == Kind("http-health-check", HealthCheck, 3, Scheduled)
DependencyHealthCheck == Kind("dependency-health-check", HealthCheck, 3, Scheduled)
HealthAlertEvaluation == Kind("health-alert-evaluation", HealthCheck, 3, Scheduled)
HealthRetention       == Kind("health-retention", HealthCheck, 3, Scheduled)

AlertEvaluate             == Kind("alert-evaluate", Alerting, 3, Scheduled)
AlertNotificationDispatch == Kind("alert-notification-dispatch", Alerting, 3, Scheduled)
AlertEscalationCheck      == Kind("alert-escalation-check", Alerting, 3, Scheduled)
AlertRecoveryNotification == Kind("alert-recovery-notification", Alerting, 3, Scheduled)
AlertSuppressionExpiry    == Kind("alert-suppression-expiry", Alerting, 3, Scheduled)
MaintenanceWindowExpiry   == Kind("maintenance-window-expiry", Alerting, 3, Scheduled)

(* TASK_NAMES                                                              *)
JobKinds ==
  { AwsClusterDiscovery, AwsClusterHealth, AwsCertificateScan,
    AlibabaAccountValidation, AlibabaClusterDiscovery, AlibabaClusterHealth,
    AlibabaCertificateScan, AlibabaCertificateExpiry,
    CredentialValidate, CredentialRotationScan,
    CertificateDiscovery, CertificateExpiry, CertificateEndpoint, CertificateAlerts,
    CertificateValidate,
    GithubRepositorySync, GithubWorkflowSync, GithubWorkflowRunSync,
    GithubVariableSync, GithubSecretSync, GithubWebhook,
    PipelineProviderSync, PipelineSync, PipelineRunSync, PipelineRunDetailSync,
    PipelineRetention, PipelineWebhook,
    ClusterHealthScan, ApplicationHealthScan, HealthAggregation, HttpHealthCheck,
    DependencyHealthCheck, HealthAlertEvaluation, HealthRetention,
    AlertEvaluate, AlertNotificationDispatch, AlertEscalationCheck,
    AlertRecoveryNotification, AlertSuppressionExpiry, MaintenanceWindowExpiry }

(* With celery_eager the process that submits a job runs it at once: there *)
(* is no retry, and both webhooks record their end.                        *)
Inline(k) ==
  [k.family EXCEPT !.retries = {}, !.marks = @ \cup {"success"}]

AllFamilies == UNION {{k.family, Inline(k)} : k \in JobKinds}

-----------------------------------------------------------------------------
(* No two kinds share a name, and MaxTries is within what every task does. *)
ASSUME KindAssumption ==
  /\ \A k, l \in JobKinds : k.kind = l.kind => k = l
  /\ \A k \in JobKinds : k.family.retries # {} => MaxTries <= k.tries

(* A provider that is unreachable for a while costs no job its work for    *)
(* good: its task is sent again, or beat enqueues the kind again.  The     *)
(* exceptions are what one request asks for, which has to ask again.       *)
ASSUME OutagesAreMadeUpFor ==
  {k \in JobKinds : "transient" \notin k.family.retries /\ ~k.beat}
    = {CredentialValidate, CertificateValidate, GithubWebhook}
=============================================================================
