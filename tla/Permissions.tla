---------------------------- MODULE Permissions ----------------------------
(* The registers authority is decided from: which action belongs to which kind
   of caller, which capability each staff role has, which service principal
   each internal contract names and which grant of an app covers a scope.  All
   of them are constants of the program, fixed at build time. *)
EXTENDS TLC

(* modes.ts: actions of a signed-in parent outside learner mode. *)
ParentActions ==
  {"parent.account.read", "parent.account.security", "parent.account.security.read",
   "parent.account.email_change.cancel", "parent.account.email_change.request",
   "parent.account.email_change.resend", "parent.account.password.change", "parent.account.delete",
   "parent.billing.read", "parent.billing.checkout.create", "parent.billing.subscriptions.read",
   "parent.billing.status.read", "parent.billing.auto_renew.disable",
   "parent.billing.subscription.cancel", "parent.billing.auto_renew.resume",
   "parent.billing.payment_recovery.read", "parent.billing.payment_method.update",
   "parent.billing.reassignment_case.create", "parent.learners.list", "parent.learner.select",
   "parent.learner.read", "parent.learner.manage", "parent.learner.credits.read",
   "parent.learner.report.read", "parent.learner.achievements.read", "parent.learner.journey.read",
   "parent.learner.consistency.read", "parent.learner.past_apps.read",
   "parent.learner.subscribe_again.create", "parent.profile.read", "parent.profile.update",
   "parent.consent.processing_envelope.read", "parent.consent.processing_envelope.update",
   "parent.notification_preferences.read", "parent.notification_preferences.update",
   "parent.onboarding.ensure", "parent.passkeys.manage", "parent.attention.read",
   "parent.attention.summary.read", "parent.dashboard.read", "parent.learner.detail.read",
   "parent.learner.app_detail.read", "parent.shell_context.read", "parent.notification_history.read",
   "learner.mode.enter"}

(* Actions of a learner, on a device in learner mode. *)
LearnerActions ==
  {"learner.home.read", "learner.achievements.read", "learner.journey.read",
   "learner.consistency.read", "learner.session.start", "learner.session.resume",
   "learner.technical_issue.confirm", "learner.session.cancel_start", "learner.mode.exit"}

(* Actions of staff. *)
AdministratorActions ==
  {"admin.account.restore", "admin.billing.reassignment_case.read",
   "admin.billing.subscription.reassign", "admin.analytics.daily.read", "admin.analytics.daily.export",
   "admin.analytics.runs.read", "admin.analytics.run.retry", "admin.app.list", "admin.app.create",
   "admin.app.bootstrap", "admin.app.read", "admin.app.update", "admin.app.activate",
   "admin.app.restore", "admin.app.delete", "admin.learner.list", "admin.learner.session_limit.update",
   "admin.learner_app.list", "admin.learner_app.session_limit.update",
   "admin.learner_app.access_end.update", "admin.deployment.bindings.read",
   "admin.deployment.bindings.create", "admin.deployment.bindings.update",
   "admin.deployment.bindings.verify", "admin.deployment.releases.read",
   "admin.deployment.release.deploy_staging", "admin.deployment.release.approve_production",
   "admin.deployment.deployments.read", "admin.deployment.windows.read",
   "admin.deployment.windows.schedule", "admin.deployment.windows.reschedule",
   "admin.deployment.windows.cancel", "admin.deployment.rollback", "admin.app_availability.read",
   "admin.app_availability.manage", "admin.staff.invitation.create",
   "admin.staff.session_context.read", "admin.staff.passkey.registration_options",
   "admin.staff.passkey.register", "admin.staff.passkey.assertion_options",
   "admin.staff.passkey.verify", "admin.staff.status.update", "admin.staff.roles.update",
   "admin.staff.list.read", "admin.billing.refund.create", "admin.billing.refund.confirm",
   "deployment.schedule", "deployment.reschedule", "deployment.cancel", "deployment.promote",
   "deployment.rollback", "admin.entitlements.security_revoke",
   "admin.entitlement_integrity.incident.read", "admin.entitlement_integrity.incident.action",
   "admin.progress_integrity.incident.read", "admin.progress_integrity.incident.action",
   "admin.progress_integrity.health.read", "admin.progress_recovery.incidents.read",
   "admin.support.resolve_customer", "admin.support.case.create", "admin.support.case.list",
   "admin.support.case.read", "admin.support.case.workflow_update", "admin.support.case.note.add",
   "admin.support.case.reopen", "admin.support.billing.workspace.read",
   "admin.support.billing.reassignment_eligibility.read", "admin.support.billing.reassign",
   "admin.support.billing.refund_eligibility.read", "admin.support.billing.refund",
   "admin.operations.change.create", "admin.operations.change.list", "admin.operations.change.read",
   "admin.operations.change.workflow_update", "admin.platform.governance.read",
   "admin.staff.recovery_session.create", "admin.platform.recovery_codes.rotate",
   "admin.platform.audit.read", "admin.platform.recovery_test.start",
   "admin.platform.recovery_test.update", "admin.platform.recovery_test.read",
   "admin.monitoring.status.read", "admin.monitoring.alerts.read"}

(* Actions of internal services and of providers. *)
ServiceActions ==
  {"service.deployment.release_create", "service.deployment.published.read",
   "service.deployment.safety_sweep", "service.deployment.window_sweep",
   "service.deployment.webhook_ingest", "service.deployment.retention_purge",
   "service.analytics.contribute", "service.analytics.run", "service.authorization.decide",
   "service.entitlements.apply_cycle", "service.entitlements.evaluate_access",
   "service.entitlements.apply_lifecycle_event", "service.entitlements.process_due_transitions",
   "service.entitlements.reconcile_lifecycle", "service.entitlements.reconcile_integrity",
   "service.entitlements.reconcile_paid_cycle", "service.entitlements.reconcile_learner_app",
   "service.launcher.invalidate", "service.launcher.reconcile_freshness",
   "service.consistency.contribute", "service.consistency.finalize", "service.consistency.reconcile",
   "service.consistency.context.read", "service.journey.retention",
   "service.learning_reminders.evaluate", "service.learning_reminders.send",
   "service.learning_reminders.reconcile", "service.app_availability.read",
   "service.billing.provider_event", "service.billing.reconcile", "service.billing.renewal_reminder",
   "service.billing.grace_expiry", "service.billing.financial_event_webhook",
   "service.progress_integrity.reconcile", "service.progress_recovery.reconcile",
   "service.notifications.enqueue", "service.notifications.deliver",
   "service.notifications.provider_event", "service.notifications.reconcile",
   "service.notifications.read", "service.notifications.monitor_health", "service.monitoring.sync",
   "service.backup.report_status"}

(* Actions of learning apps. *)
AppActions ==
  {"app.launch.exchange", "app.grant.renew", "app.grant.status", "app.progress.completions.read",
   "app.progress.current.read", "app.progress.write", "app.progress.summary.write",
   "app.lesson.complete", "app.session.complete", "app.session.disconnect",
   "app.session.exit_state.read", "app.session.finish", "app.session.mark_resumable",
   "app.session.resume", "app.session.usable_launch", "app.progress.integrity.validate",
   "app.progress.recover", "app.achievement.write", "app.achievement.revoke",
   "app.achievement.contract.read", "app.journey.milestone.write"}

(* The mode a device must be in; an action of another kind of caller is refused
   in either mode. *)
ModeOf(action) == IF action \in LearnerActions THEN "learner_mode"
                  ELSE IF action \in ParentActions THEN "parent_management" ELSE "neither"

Roles == {"support_agent", "billing_administrator", "operations_administrator", "platform_administrator"}

(* The complete capability set of each role: no role inherits from another. *)
SupportAgentMay ==
  {"admin.support.resolve_customer", "admin.support.case.create", "admin.support.case.list",
   "admin.support.case.read", "admin.support.case.workflow_update", "admin.support.case.note.add",
   "admin.support.case.reopen"}

BillingAdministratorMay ==
  {"admin.billing.reassignment_case.read", "admin.billing.subscription.reassign",
   "admin.billing.refund.create", "admin.billing.refund.confirm",
   "admin.support.billing.workspace.read", "admin.support.billing.reassignment_eligibility.read",
   "admin.support.billing.reassign", "admin.support.billing.refund_eligibility.read",
   "admin.support.billing.refund"}

OperationsAdministratorMay ==
  {"admin.app.list", "admin.app.create", "admin.app.bootstrap", "admin.app.read", "admin.app.update",
   "admin.app.activate", "admin.app.restore", "admin.app.delete", "admin.learner.list",
   "admin.learner.session_limit.update", "admin.learner_app.list",
   "admin.learner_app.session_limit.update", "admin.learner_app.access_end.update",
   "admin.deployment.bindings.read", "admin.deployment.bindings.create",
   "admin.deployment.bindings.update", "admin.deployment.bindings.verify",
   "admin.deployment.releases.read", "admin.deployment.release.deploy_staging",
   "admin.deployment.release.approve_production", "admin.deployment.deployments.read",
   "admin.deployment.windows.read", "admin.deployment.windows.schedule",
   "admin.deployment.windows.reschedule", "admin.deployment.windows.cancel",
   "admin.deployment.rollback", "deployment.schedule", "deployment.reschedule", "deployment.cancel",
   "deployment.promote", "deployment.rollback", "admin.app_availability.read",
   "admin.app_availability.manage", "admin.analytics.daily.read", "admin.analytics.daily.export",
   "admin.analytics.runs.read", "admin.analytics.run.retry", "admin.entitlements.security_revoke",
   "admin.entitlement_integrity.incident.read", "admin.entitlement_integrity.incident.action",
   "admin.progress_integrity.incident.read", "admin.progress_integrity.incident.action",
   "admin.progress_integrity.health.read", "admin.progress_recovery.incidents.read",
   "admin.operations.change.create", "admin.operations.change.list", "admin.operations.change.read",
   "admin.operations.change.workflow_update", "admin.monitoring.status.read",
   "admin.monitoring.alerts.read"}

PlatformAdministratorMay ==
  {"admin.account.restore", "admin.staff.invitation.create", "admin.staff.status.update",
   "admin.staff.roles.update", "admin.staff.list.read", "admin.platform.governance.read",
   "admin.staff.recovery_session.create", "admin.platform.recovery_codes.rotate",
   "admin.platform.audit.read", "admin.platform.recovery_test.start",
   "admin.platform.recovery_test.update", "admin.platform.recovery_test.read"}

(* What any staff member with a role may do about their own identity. *)
SelfServiceActions ==
  {"admin.staff.session_context.read", "admin.staff.passkey.registration_options",
   "admin.staff.passkey.register", "admin.staff.passkey.assertion_options", "admin.staff.passkey.verify"}

Capabilities == [role \in Roles |->
  CASE role = "support_agent" -> SupportAgentMay
    [] role = "billing_administrator" -> BillingAdministratorMay
    [] role = "operations_administrator" -> OperationsAdministratorMay
    [] role = "platform_administrator" -> PlatformAdministratorMay]

(* roleHasCapability: the roles any one of which is enough for the action. *)
RolesWith(action) ==
  IF action \in SelfServiceActions THEN Roles ELSE {role \in Roles : action \in Capabilities[role]}

(* The service principal each internal contract is made with.  An assertion also
   names the audience of the contract, so one made for another contract's routes
   is not accepted here. *)
ServiceKey ==
  "scheduler" :> "analytics-scheduler"
  @@ "contributor" :> "analytics-contributor"
  @@ "entitlement-applier" :> "entitlement-cycle-applier"
  @@ "entitlement-evaluator" :> "entitlement-access-evaluator"
  @@ "ci-deployer" :> "ci-deployment-service"
  @@ "deployment-scheduler" :> "deployment-pipeline-scheduler"
  @@ "progress-integrity" :> "progress-integrity-reconciler"
  @@ "billing-reconciliation" :> "billing-reconciliation-service"
  @@ "billing-notification" :> "billing-notification-service"
  @@ "billing-recovery" :> "billing-recovery-service"
  @@ "progress-recovery" :> "progress-recovery-reconciler"
  @@ "entitlement-lifecycle" :> "entitlement-lifecycle-service"
  @@ "entitlement-reconciliation" :> "entitlement-reconciliation-service"
  @@ "entitlement-integrity-monitor" :> "entitlement-integrity-monitor-service"
  @@ "launcher-domain-outbox" :> "learner-launcher-domain-outbox"
  @@ "launcher-reconciliation" :> "learner-launcher-reconciliation"
  @@ "app-availability-reader" :> "app-availability-reader"
  @@ "consistency-session-domain" :> "session-domain-service"
  @@ "consistency-scheduler" :> "consistency-scheduler"
  @@ "consistency-reconciliation" :> "consistency-reconciliation-service"
  @@ "journey-retention" :> "journey-retention-service"
  @@ "learning-reminder-scheduler" :> "learning-reminder-scheduler"
  @@ "learning-reminder-sender" :> "learning-reminder-sender"
  @@ "learning-reminder-reconciliation" :> "learning-reminder-reconciliation"
  @@ "notification-enqueue" :> "notification-enqueue-service"
  @@ "notification-delivery" :> "notification-delivery-worker"
  @@ "notification-reconcile" :> "notification-reconciliation-service"
  @@ "notification-read-billing" :> "notification-status-reader-billing"
  @@ "notification-read-identity" :> "notification-status-reader-identity"
  @@ "notification-read-operations" :> "notification-status-reader-operations"
  @@ "notification-read-support" :> "notification-status-reader"
  @@ "notification-health-monitor" :> "notification-health-monitor"
  @@ "operational-monitoring" :> "operational-monitoring-sync"
  @@ "backup-status-reporter" :> "backup-status-reporter"
ServiceKeys == {ServiceKey[c] : c \in DOMAIN ServiceKey}

(* The scopes of an active grant. *)
AppApiScopes ==
  {"session.usable_launch", "progress.read", "progress.write", "lesson.complete", "session.complete",
   "progress.summary.write", "progress.integrity_validate", "progress.recover", "session.exit",
   "achievement.write", "journey.milestone.write"}

(* A grant is provisional until the app confirms its launch, and covers nothing
   but that confirmation until then. *)
GrantsWith(scope) ==
  (IF scope \in AppApiScopes THEN {"active grant"} ELSE {})
    \cup (IF scope = "session.usable_launch" THEN {"provisional grant"} ELSE {})
=============================================================================
