-------------------------------- MODULE StaffRoutes --------------------------------
(* The handlers under /v1/admin, read the same way.  A handler that can be
   entered with a pending token or within a session is one program for each. *)
EXTENDS RouteSteps

(* /v1/admin/accounts *)
PostAdminAccountsIdRestore == Staff("admin.account.restore") \o Receipt \o Body \o Change

(* /v1/admin/analytics *)
GetAdminAnalyticsDailyExport == Staff("admin.analytics.daily.export") \o Check \o Read
GetAdminAnalyticsDaily == Staff("admin.analytics.daily.read") \o Check \o Read
PostAdminAnalyticsRunsIdRetry == Staff("admin.analytics.run.retry") \o Limit \o Check \o Receipt \o Change
GetAdminAnalyticsRuns == Staff("admin.analytics.runs.read") \o Check \o Read

(* /v1/admin/apps *)
PostAdminAppsIdActivate == Staff("admin.app.activate") \o Limit \o Body \o Receipt \o Change
PostAdminAppsIdAvailabilityTransition ==
  Staff("admin.app_availability.manage") \o Limit \o Body \o Receipt \o Check \o Change
GetAdminAppsIdAvailability == Staff("admin.app_availability.read") \o Receipt \o Limit \o Read
PatchAdminAppsIdDeploymentBindingsId == Staff("admin.deployment.bindings.read") \o Body \o Change
PostAdminAppsIdDeploymentBindingsIdVerify == Staff("admin.deployment.bindings.verify") \o Change
GetAdminAppsIdDeploymentBindings == Staff("admin.deployment.bindings.read") \o Read
PostAdminAppsIdDeploymentBindings == Staff("admin.deployment.bindings.create") \o Limit \o Body \o Change
PostAdminAppsIdDeploymentWindowsIdCancel ==
  Staff("admin.deployment.windows.cancel") \o Limit \o Body \o Receipt \o Change
PatchAdminAppsIdDeploymentWindowsId ==
  Staff("admin.deployment.windows.reschedule") \o Limit \o Body \o Receipt \o Check \o Change
GetAdminAppsIdDeploymentWindows == Staff("admin.deployment.windows.read") \o Read
PostAdminAppsIdDeploymentWindows ==
  Staff("admin.deployment.windows.schedule") \o Limit \o Body \o Receipt \o Check \o Change
PostAdminAppsIdDeploymentsIdCancel == DeploymentMutation("deployment.cancel")
PostAdminAppsIdDeploymentsIdPromote == DeploymentMutation("deployment.promote")
PostAdminAppsIdDeploymentsIdReschedule == DeploymentMutation("deployment.reschedule")
PostAdminAppsIdDeploymentsIdRollback ==
  Staff("admin.deployment.rollback") \o Limit \o Body \o Receipt \o Check \o Change \o Change
PostAdminAppsIdDeploymentsIdSchedule == DeploymentMutation("deployment.schedule")
GetAdminAppsIdDeployments == Staff("admin.deployment.deployments.read") \o Read
PatchAdminAppsIdMaintenanceWindowsId ==
  Staff("admin.app_availability.manage") \o Limit \o Body \o Receipt \o Check \o Change
PostAdminAppsIdMaintenanceWindows ==
  Staff("admin.app_availability.manage") \o Limit \o Body \o Receipt \o Check \o Change \o Change
GetAdminAppsIdProgressIntegrityHealth == Staff("admin.progress_integrity.health.read") \o Read
GetAdminAppsIdProgressRecoveryIncidents == Staff("admin.progress_recovery.incidents.read") \o Read
PostAdminAppsIdReleasesIdApproveProduction ==
  Staff("admin.deployment.release.approve_production") \o Limit \o Body \o Receipt \o Change
PostAdminAppsIdReleasesIdDeployStaging ==
  Staff("admin.deployment.release.deploy_staging") \o Limit \o Body \o Change
GetAdminAppsIdReleases == Staff("admin.deployment.releases.read") \o Read
PostAdminAppsIdRestore == Staff("admin.app.restore") \o Limit \o Body \o Receipt \o Check \o Change
GetAdminAppsId == Staff("admin.app.read") \o Read
PatchAdminAppsId == Staff("admin.app.update") \o Limit \o Body \o Change
PostAdminAppsIdSoftDelete ==
  Staff("admin.app.delete") \o Limit \o Body \o Receipt \o Check \o Change \o Change
PostAdminAppsBootstrap == Staff("admin.app.bootstrap") \o Change
GetAdminApps == Staff("admin.app.list") \o Read
PostAdminApps == Staff("admin.app.create") \o Limit \o Body \o Change

(* /v1/admin/auth *)
PostAdminAuthLogin == Body \o Limit \o Password \o Change
AssertionOptionsAtLogin == Body \o Limit \o Body \o Password \o Change
AssertionOptionsInSession ==
  Body \o Staff("admin.staff.passkey.assertion_options") \o Body \o Password \o Change
RegisterPasskeyByToken == Body \o Proof \o Change \o Change
RegisterPasskeyInSession == Body \o Staff("admin.staff.passkey.register") \o Receipt \o Change
RegistrationOptionsByToken == Body \o Proof \o Check \o Change
RegistrationOptionsInSession ==
  Body \o Staff("admin.staff.passkey.registration_options") \o Receipt \o Check \o Change
PostAdminAuthPasskeyVerify == Body \o Proof \o Change
PostAdminAuthReauth == Staff("admin.staff.passkey.assertion_options") \o Body \o Password \o Change

(* /v1/admin/billing *)
PostAdminBillingRefundCasesIdConfirm == Staff("admin.billing.refund.confirm") \o Receipt \o Body \o Change
PostAdminBillingRefundCases == Staff("admin.billing.refund.create") \o Receipt \o Body \o Change

(* /v1/admin/entitlement-integrity-incidents *)
PostAdminEntitlementIntegrityIncidentsIdAction ==
  Staff("admin.entitlement_integrity.incident.action") \o Limit \o Body \o Receipt \o Check \o Change
GetAdminEntitlementIntegrityIncidentsId == Staff("admin.entitlement_integrity.incident.read") \o Read

(* /v1/admin/entitlements *)
PostAdminEntitlementsIdRevoke ==
  Staff("admin.entitlements.security_revoke") \o Limit \o Body \o Receipt \o Check \o Change

(* /v1/admin/learner-apps *)
PatchAdminLearnerAppsIdIdAccessEnd == Staff("admin.learner_app.access_end.update") \o Limit \o Body \o Change
PatchAdminLearnerAppsIdIdSessionLimit ==
  Staff("admin.learner_app.session_limit.update") \o Limit \o Body \o Change
GetAdminLearnerApps == Staff("admin.learner_app.list") \o Read

(* /v1/admin/learners *)
PatchAdminLearnersIdSessionLimit == Staff("admin.learner.session_limit.update") \o Limit \o Body \o Change
GetAdminLearners == Staff("admin.learner.list") \o Read

(* /v1/admin/monitoring *)
GetAdminMonitoringAlerts == Staff("admin.monitoring.alerts.read") \o Read
GetAdminMonitoringStatus == Staff("admin.monitoring.status.read") \o Read

(* /v1/admin/operations *)
GetAdminOperationsChangesId == Staff("admin.operations.change.read") \o Read
PatchAdminOperationsChangesId == Staff("admin.operations.change.workflow_update") \o Body \o Change
PostAdminOperationsChanges == Staff("admin.operations.change.create") \o Body \o Change
GetAdminOperationsChanges == Staff("admin.operations.change.list") \o Check \o Read

(* /v1/admin/platform *)
GetAdminPlatformAudit == Staff("admin.platform.audit.read") \o Check \o Read
GetAdminPlatformGovernance == Staff("admin.platform.governance.read") \o Read
PostAdminPlatformParentRestorations == Staff("admin.account.restore") \o Receipt \o Body \o Change
PostAdminPlatformRecoveryCodesRotate == Staff("admin.platform.recovery_codes.rotate") \o Receipt \o Change
GetAdminPlatformRecoveryTestsId == Staff("admin.platform.recovery_test.read") \o Read
PatchAdminPlatformRecoveryTestsId == SuperAdmin("admin.platform.recovery_test.update") \o Body \o Change
GetAdminPlatformRecoveryTests == Staff("admin.platform.recovery_test.read") \o Read
PostAdminPlatformRecoveryTests == SuperAdmin("admin.platform.recovery_test.start") \o Body \o Change
PostAdminPlatformRecoveryBreakGlass == Body \o Password \o Proof \o Change
PostAdminPlatformRecoveryConsume == Body \o Password \o Proof \o Change
PostAdminPlatformStaffIdRecoverySessions ==
  Staff("admin.staff.recovery_session.create") \o Receipt \o Body \o Change

(* /v1/admin/progress-integrity-incidents *)
PostAdminProgressIntegrityIncidentsIdAction ==
  Staff("admin.progress_integrity.incident.action") \o Limit \o Body \o Receipt \o Check \o Change
GetAdminProgressIntegrityIncidentsId == Staff("admin.progress_integrity.incident.read") \o Read

(* /v1/admin/session-context *)
GetAdminSessionContext == Staff("admin.staff.session_context.read") \o Check \o Read

(* /v1/admin/staff *)
PutAdminStaffIdRoles == Staff("admin.staff.roles.update") \o Receipt \o Body \o Change
PatchAdminStaffIdStatus == Staff("admin.staff.status.update") \o Receipt \o Body \o Change
PostAdminStaffInvitations == Staff("admin.staff.invitation.create") \o Receipt \o Body \o Change
GetAdminStaff == Staff("admin.staff.list.read") \o Read

(* /v1/admin/subscription-reassignment-cases *)
GetAdminSubscriptionReassignmentCasesId ==
  Staff("admin.billing.reassignment_case.read") \o Receipt \o Limit \o Read

(* /v1/admin/subscriptions *)
PostAdminSubscriptionsIdReassignLearner ==
  Staff("admin.billing.subscription.reassign") \o Limit \o Body \o Receipt \o Check \o Change

(* /v1/admin/support *)
PostAdminSupportCasesIdBillingReassignSubscription ==
  Staff("admin.support.billing.reassign") \o Receipt \o Body \o Change
GetAdminSupportCasesIdBillingReassignmentEligibility ==
  Staff("admin.support.billing.reassignment_eligibility.read") \o Read
GetAdminSupportCasesIdBillingRefundEligibility ==
  Staff("admin.support.billing.refund_eligibility.read") \o Read
PostAdminSupportCasesIdBillingRefunds == Staff("admin.support.billing.refund") \o Receipt \o Body \o Change
GetAdminSupportCasesIdBilling == Staff("admin.support.billing.workspace.read") \o Read
PostAdminSupportCasesIdNotes == Staff("admin.support.case.note.add") \o Body \o Check \o Change
PostAdminSupportCasesIdReopen == Staff("admin.support.case.reopen") \o Body \o Check \o Change
GetAdminSupportCasesId == Staff("admin.support.case.read") \o Read
PatchAdminSupportCasesId == Staff("admin.support.case.workflow_update") \o Body \o Change
PostAdminSupportCases == Staff("admin.support.case.create") \o Body \o Change
GetAdminSupportCases == Staff("admin.support.case.list") \o Check \o Read
PostAdminSupportResolveCustomer == Staff("admin.support.resolve_customer") \o Limit \o Body \o Change
=============================================================================
