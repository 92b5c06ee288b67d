---------------------------- MODULE RouteActions ----------------------------
(* The register of the routes: the action the middleware declares for a request,
   by method and path, beside the handler that answers it.  A path that is not
   declared is answered "not found" before any handler runs. *)
EXTENDS ParentRoutes, StaffRoutes, ServiceRoutes

(* Routes of parents, learners and the open ones. *)
ParentTable ==
  [PostAccountEmailChangeCancel |-> <<"parent.account.email_change.cancel", PostAccountEmailChangeCancel>>,
   PostAccountEmailChangeRequest |-> <<"parent.account.email_change.request", PostAccountEmailChangeRequest>>,
   PostAccountEmailChangeResend |-> <<"parent.account.email_change.resend", PostAccountEmailChangeResend>>,
   PostAccountPasswordChange |-> <<"parent.account.password.change", PostAccountPasswordChange>>,
   GetAccountSecurity |-> <<"parent.account.security.read", GetAccountSecurity>>,
   PostAccountSoftDelete |-> <<"parent.account.delete", PostAccountSoftDelete>>,
   GetAppsId |-> <<"public", GetAppsId>>,
   GetApps |-> <<"public", GetApps>>,
   PostBillingCheckoutIntents |-> <<"parent.billing.checkout.create", PostBillingCheckoutIntents>>,
   GetLearnerAchievements |-> <<"learner.achievements.read", GetLearnerAchievements>>,
   GetLearnerAppsIdJourney |-> <<"learner.journey.read", GetLearnerAppsIdJourney>>,
   GetLearnerConsistency |-> <<"learner.consistency.read", GetLearnerConsistency>>,
   GetLearnerHome |-> <<"learner.home.read", GetLearnerHome>>,
   PostLearnerModeEnterDirect |-> <<"learner.mode.enter", PostLearnerModeEnterDirect>>,
   PostLearnerModeEnterOptions |-> <<"learner.mode.enter", PostLearnerModeEnterOptions>>,
   PostLearnerModeEnterVerify |-> <<"learner.mode.enter", PostLearnerModeEnterVerify>>,
   PostLearnerModeExit |-> <<"learner.mode.exit", PostLearnerModeExit>>,
   GetLearnerSelection |-> <<"parent.learners.list", GetLearnerSelection>>,
   PutLearnerSelection |-> <<"parent.learner.select", PutLearnerSelection>>,
   PostLearnerSessionsIdCancelStart |-> <<"learner.session.cancel_start", PostLearnerSessionsIdCancelStart>>,
   PostLearnerSessionsIdLaunchDispatch |-> <<"learner.session.start", PostLearnerSessionsIdLaunchDispatch>>,
   PostLearnerSessionsIdTechnicalCredit |-> <<"learner.technical_issue.confirm", PostLearnerSessionsIdTechnicalCredit>>,
   PostLearnerSessions |-> <<"learner.session.start", PostLearnerSessions>>,
   PostLearnersIdPasskeysIdRevoke |-> <<"parent.passkeys.manage", PostLearnersIdPasskeysIdRevoke>>,
   PostLearnersIdPasskeysRegistrationOptions |-> <<"parent.passkeys.manage", PostLearnersIdPasskeysRegistrationOptions>>,
   PostLearnersIdPasskeysRegistrationVerify |-> <<"parent.passkeys.manage", PostLearnersIdPasskeysRegistrationVerify>>,
   GetLearnersIdPasskeys |-> <<"parent.passkeys.manage", GetLearnersIdPasskeys>>,
   GetLearnersIdProgress |-> <<"parent.learner.report.read", GetLearnersIdProgress>>,
   PostLearnersIdResetWeeklyLimit |-> <<"parent.learner.manage", PostLearnersIdResetWeeklyLimit>>,
   GetLearnersId |-> <<"parent.learner.read", GetLearnersId>>,
   PatchLearnersId |-> <<"parent.learner.manage", PatchLearnersId>>,
   GetLearnersIdSessionCredits |-> <<"parent.learner.credits.read", GetLearnersIdSessionCredits>>,
   PostLearners |-> <<"parent.learner.manage", PostLearners>>,
   PostMobileAuthLogin |-> <<"public", PostMobileAuthLogin>>,
   PostOnboardingEnsureParentProfile |-> <<"parent.onboarding.ensure", PostOnboardingEnsureParentProfile>>,
   GetParentAttentionCenter |-> <<"parent.attention.read", GetParentAttentionCenter>>,
   GetParentAttentionSummary |-> <<"parent.attention.summary.read", GetParentAttentionSummary>>,
   GetParentAttention |-> <<"parent.attention.read", GetParentAttention>>,
   GetParentAttentionBadge |-> <<"parent.attention.summary.read", GetParentAttentionBadge>>,
   GetParentCommunicationHistory |-> <<"parent.notification_history.read", GetParentCommunicationHistory>>,
   GetParentConsentProcessingEnvelope |-> <<"parent.consent.processing_envelope.read", GetParentConsentProcessingEnvelope>>,
   PostParentConsentProcessingEnvelope |-> <<"parent.consent.processing_envelope.update", PostParentConsentProcessingEnvelope>>,
   GetParentDashboard |-> <<"parent.dashboard.read", GetParentDashboard>>,
   GetParentLearnersIdAchievements |-> <<"parent.learner.achievements.read", GetParentLearnersIdAchievements>>,
   GetParentLearnersIdAppsIdJourney |-> <<"parent.learner.journey.read", GetParentLearnersIdAppsIdJourney>>,
   GetParentLearnersIdAppsId |-> <<"parent.learner.app_detail.read", GetParentLearnersIdAppsId>>,
   GetParentLearnersIdApps |-> <<"parent.learner.detail.read", GetParentLearnersIdApps>>,
   GetParentLearnersIdConsistency |-> <<"parent.learner.consistency.read", GetParentLearnersIdConsistency>>,
   GetParentLearnersIdDetail |-> <<"parent.learner.detail.read", GetParentLearnersIdDetail>>,
   PostParentLearnersIdPastAppsIdSubscribeAgain |-> <<"parent.learner.subscribe_again.create", PostParentLearnersIdPastAppsIdSubscribeAgain>>,
   GetParentLearnersIdPastApps |-> <<"parent.learner.past_apps.read", GetParentLearnersIdPastApps>>,
   GetParentLearnersId |-> <<"parent.learner.detail.read", GetParentLearnersId>>,
   GetParentNotificationPreferences |-> <<"parent.notification_preferences.read", GetParentNotificationPreferences>>,
   PatchParentNotificationPreferences |-> <<"parent.notification_preferences.update", PatchParentNotificationPreferences>>,
   GetParentProfile |-> <<"parent.profile.read", GetParentProfile>>,
   PatchParentProfile |-> <<"parent.profile.update", PatchParentProfile>>,
   GetParentShellContext |-> <<"parent.shell_context.read", GetParentShellContext>>,
   GetParentSubscriptionsIdBillingStatus |-> <<"parent.billing.status.read", GetParentSubscriptionsIdBillingStatus>>,
   PostParentSubscriptionsIdCancel |-> <<"parent.billing.subscription.cancel", PostParentSubscriptionsIdCancel>>,
   PostParentSubscriptionsIdDisableAutoRenew |-> <<"parent.billing.auto_renew.disable", PostParentSubscriptionsIdDisableAutoRenew>>,
   PostParentSubscriptionsIdPaymentMethodUpdateSession |-> <<"parent.billing.payment_method.update", PostParentSubscriptionsIdPaymentMethodUpdateSession>>,
   GetParentSubscriptionsIdPaymentRecoveryStatus |-> <<"parent.billing.payment_recovery.read", GetParentSubscriptionsIdPaymentRecoveryStatus>>,
   PostParentSubscriptionsIdResumeAutoRenew |-> <<"parent.billing.auto_renew.resume", PostParentSubscriptionsIdResumeAutoRenew>>,
   GetParentSubscriptions |-> <<"parent.billing.subscriptions.read", GetParentSubscriptions>>,
   PostSubscriptionReassignmentCases |-> <<"parent.billing.reassignment_case.create", PostSubscriptionReassignmentCases>>]

(* Routes of staff. *)
StaffTable ==
  [PostAdminAccountsIdRestore |-> <<"admin.account.restore", PostAdminAccountsIdRestore>>,
   GetAdminAnalyticsDailyExport |-> <<"admin.analytics.daily.export", GetAdminAnalyticsDailyExport>>,
   GetAdminAnalyticsDaily |-> <<"admin.analytics.daily.read", GetAdminAnalyticsDaily>>,
   PostAdminAnalyticsRunsIdRetry |-> <<"admin.analytics.run.retry", PostAdminAnalyticsRunsIdRetry>>,
   GetAdminAnalyticsRuns |-> <<"admin.analytics.runs.read", GetAdminAnalyticsRuns>>,
   PostAdminAppsIdActivate |-> <<"admin.app.activate", PostAdminAppsIdActivate>>,
   PostAdminAppsIdAvailabilityTransition |-> <<"admin.app_availability.manage", PostAdminAppsIdAvailabilityTransition>>,
   GetAdminAppsIdAvailability |-> <<"admin.app_availability.read", GetAdminAppsIdAvailability>>,
   PatchAdminAppsIdDeploymentBindingsId |-> <<"admin.deployment.bindings.update", PatchAdminAppsIdDeploymentBindingsId>>,
   PostAdminAppsIdDeploymentBindingsIdVerify |-> <<"admin.deployment.bindings.verify", PostAdminAppsIdDeploymentBindingsIdVerify>>,
   GetAdminAppsIdDeploymentBindings |-> <<"admin.deployment.bindings.read", GetAdminAppsIdDeploymentBindings>>,
   PostAdminAppsIdDeploymentBindings |-> <<"admin.deployment.bindings.create", PostAdminAppsIdDeploymentBindings>>,
   PostAdminAppsIdDeploymentWindowsIdCancel |-> <<"admin.deployment.windows.cancel", PostAdminAppsIdDeploymentWindowsIdCancel>>,
   PatchAdminAppsIdDeploymentWindowsId |-> <<"admin.deployment.windows.reschedule", PatchAdminAppsIdDeploymentWindowsId>>,
   GetAdminAppsIdDeploymentWindows |-> <<"admin.deployment.windows.read", GetAdminAppsIdDeploymentWindows>>,
   PostAdminAppsIdDeploymentWindows |-> <<"admin.deployment.windows.schedule", PostAdminAppsIdDeploymentWindows>>,
   PostAdminAppsIdDeploymentsIdCancel |-> <<"deployment.cancel", PostAdminAppsIdDeploymentsIdCancel>>,
   PostAdminAppsIdDeploymentsIdPromote |-> <<"deployment.promote", PostAdminAppsIdDeploymentsIdPromote>>,
   PostAdminAppsIdDeploymentsIdReschedule |-> <<"deployment.reschedule", PostAdminAppsIdDeploymentsIdReschedule>>,
   PostAdminAppsIdDeploymentsIdRollback |-> <<"admin.deployment.rollback", PostAdminAppsIdDeploymentsIdRollback>>,
   PostAdminAppsIdDeploymentsIdSchedule |-> <<"deployment.schedule", PostAdminAppsIdDeploymentsIdSchedule>>,
   GetAdminAppsIdDeployments |-> <<"admin.deployment.deployments.read", GetAdminAppsIdDeployments>>,
   PatchAdminAppsIdMaintenanceWindowsId |-> <<"admin.app_availability.manage", PatchAdminAppsIdMaintenanceWindowsId>>,
   PostAdminAppsIdMaintenanceWindows |-> <<"admin.app_availability.manage", PostAdminAppsIdMaintenanceWindows>>,
   GetAdminAppsIdProgressIntegrityHealth |-> <<"admin.progress_integrity.health.read", GetAdminAppsIdProgressIntegrityHealth>>,
   GetAdminAppsIdProgressRecoveryIncidents |-> <<"admin.progress_recovery.incidents.read", GetAdminAppsIdProgressRecoveryIncidents>>,
   PostAdminAppsIdReleasesIdApproveProduction |-> <<"admin.deployment.release.approve_production", PostAdminAppsIdReleasesIdApproveProduction>>,
   PostAdminAppsIdReleasesIdDeployStaging |-> <<"admin.deployment.release.deploy_staging", PostAdminAppsIdReleasesIdDeployStaging>>,
   GetAdminAppsIdReleases |-> <<"admin.deployment.releases.read", GetAdminAppsIdReleases>>,
   PostAdminAppsIdRestore |-> <<"admin.app.restore", PostAdminAppsIdRestore>>,
   GetAdminAppsId |-> <<"admin.app.read", GetAdminAppsId>>,
   PatchAdminAppsId |-> <<"admin.app.update", PatchAdminAppsId>>,
   PostAdminAppsIdSoftDelete |-> <<"admin.app.delete", PostAdminAppsIdSoftDelete>>,
   PostAdminAppsBootstrap |-> <<"admin.app.bootstrap", PostAdminAppsBootstrap>>,
   GetAdminApps |-> <<"admin.app.list", GetAdminApps>>,
   PostAdminApps |-> <<"admin.app.create", PostAdminApps>>,
   PostAdminAuthLogin |-> <<"public", PostAdminAuthLogin>>,
   AssertionOptionsAtLogin |-> <<"admin.staff.passkey.assertion_options", AssertionOptionsAtLogin>>,
   AssertionOptionsInSession |-> <<"admin.staff.passkey.assertion_options", AssertionOptionsInSession>>,
   RegisterPasskeyByToken |-> <<"admin.staff.passkey.register", RegisterPasskeyByToken>>,
   RegisterPasskeyInSession |-> <<"admin.staff.passkey.register", RegisterPasskeyInSession>>,
   RegistrationOptionsByToken |-> <<"admin.staff.passkey.registration_options", RegistrationOptionsByToken>>,
   RegistrationOptionsInSession |-> <<"admin.staff.passkey.registration_options", RegistrationOptionsInSession>>,
   PostAdminAuthPasskeyVerify |-> <<"admin.staff.passkey.verify", PostAdminAuthPasskeyVerify>>,
   PostAdminAuthReauth |-> <<"admin.staff.passkey.assertion_options", PostAdminAuthReauth>>,
   PostAdminBillingRefundCasesIdConfirm |-> <<"admin.billing.refund.confirm", PostAdminBillingRefundCasesIdConfirm>>,
   PostAdminBillingRefundCases |-> <<"admin.billing.refund.create", PostAdminBillingRefundCases>>,
   PostAdminEntitlementIntegrityIncidentsIdAction |-> <<"admin.entitlement_integrity.incident.action", PostAdminEntitlementIntegrityIncidentsIdAction>>,
   GetAdminEntitlementIntegrityIncidentsId |-> <<"admin.entitlement_integrity.incident.read", GetAdminEntitlementIntegrityIncidentsId>>,
   PostAdminEntitlementsIdRevoke |-> <<"admin.entitlements.security_revoke", PostAdminEntitlementsIdRevoke>>,
   PatchAdminLearnerAppsIdIdAccessEnd |-> <<"admin.learner_app.access_end.update", PatchAdminLearnerAppsIdIdAccessEnd>>,
   PatchAdminLearnerAppsIdIdSessionLimit |-> <<"admin.learner_app.session_limit.update", PatchAdminLearnerAppsIdIdSessionLimit>>,
   GetAdminLearnerApps |-> <<"admin.learner_app.list", GetAdminLearnerApps>>,
   PatchAdminLearnersIdSessionLimit |-> <<"admin.learner.session_limit.update", PatchAdminLearnersIdSessionLimit>>,
   GetAdminLearners |-> <<"admin.learner.list", GetAdminLearners>>,
   GetAdminMonitoringAlerts |-> <<"admin.monitoring.alerts.read", GetAdminMonitoringAlerts>>,
   GetAdminMonitoringStatus |-> <<"admin.monitoring.status.read", GetAdminMonitoringStatus>>,
   GetAdminOperationsChangesId |-> <<"admin.operations.change.read", GetAdminOperationsChangesId>>,
   PatchAdminOperationsChangesId |-> <<"admin.operations.change.workflow_update", PatchAdminOperationsChangesId>>,
   PostAdminOperationsChanges |-> <<"admin.operations.change.create", PostAdminOperationsChanges>>,
   GetAdminOperationsChanges |-> <<"admin.operations.change.list", GetAdminOperationsChanges>>,
   GetAdminPlatformAudit |-> <<"admin.platform.audit.read", GetAdminPlatformAudit>>,
   GetAdminPlatformGovernance |-> <<"admin.platform.governance.read", GetAdminPlatformGovernance>>,
   PostAdminPlatformParentRestorations |-> <<"admin.account.restore", PostAdminPlatformParentRestorations>>,
   PostAdminPlatformRecoveryCodesRotate |-> <<"admin.platform.recovery_codes.rotate", PostAdminPlatformRecoveryCodesRotate>>,
   GetAdminPlatformRecoveryTestsId |-> <<"admin.platform.recovery_test.read", GetAdminPlatformRecoveryTestsId>>,
   PatchAdminPlatformRecoveryTestsId |-> <<"admin.platform.recovery_test.update", PatchAdminPlatformRecoveryTestsId>>,
   GetAdminPlatformRecoveryTests |-> <<"admin.platform.recovery_test.read", GetAdminPlatformRecoveryTests>>,
   PostAdminPlatformRecoveryTests |-> <<"admin.platform.recovery_test.start", PostAdminPlatformRecoveryTests>>,
   PostAdminPlatformRecoveryBreakGlass |-> <<"public", PostAdminPlatformRecoveryBreakGlass>>,
   PostAdminPlatformRecoveryConsume |-> <<"public", PostAdminPlatformRecoveryConsume>>,
   PostAdminPlatformStaffIdRecoverySessions |-> <<"admin.staff.recovery_session.create", PostAdminPlatformStaffIdRecoverySessions>>,
   PostAdminProgressIntegrityIncidentsIdAction |-> <<"admin.progress_integrity.incident.action", PostAdminProgressIntegrityIncidentsIdAction>>,
   GetAdminProgressIntegrityIncidentsId |-> <<"admin.progress_integrity.incident.read", GetAdminProgressIntegrityIncidentsId>>,
   GetAdminSessionContext |-> <<"admin.staff.session_context.read", GetAdminSessionContext>>,
   PutAdminStaffIdRoles |-> <<"admin.staff.roles.update", PutAdminStaffIdRoles>>,
   PatchAdminStaffIdStatus |-> <<"admin.staff.status.update", PatchAdminStaffIdStatus>>,
   PostAdminStaffInvitations |-> <<"admin.staff.invitation.create", PostAdminStaffInvitations>>,
   GetAdminStaff |-> <<"admin.staff.list.read", GetAdminStaff>>,
   GetAdminSubscriptionReassignmentCasesId |-> <<"admin.billing.reassignment_case.read", GetAdminSubscriptionReassignmentCasesId>>,
   PostAdminSubscriptionsIdReassignLearner |-> <<"admin.billing.subscription.reassign", PostAdminSubscriptionsIdReassignLearner>>,
   PostAdminSupportCasesIdBillingReassignSubscription |-> <<"admin.support.billing.reassign", PostAdminSupportCasesIdBillingReassignSubscription>>,
   GetAdminSupportCasesIdBillingReassignmentEligibility |-> <<"admin.support.billing.reassignment_eligibility.read", GetAdminSupportCasesIdBillingReassignmentEligibility>>,
   GetAdminSupportCasesIdBillingRefundEligibility |-> <<"admin.support.billing.refund_eligibility.read", GetAdminSupportCasesIdBillingRefundEligibility>>,
   PostAdminSupportCasesIdBillingRefunds |-> <<"admin.support.billing.refund", PostAdminSupportCasesIdBillingRefunds>>,
   GetAdminSupportCasesIdBilling |-> <<"admin.support.billing.workspace.read", GetAdminSupportCasesIdBilling>>,
   PostAdminSupportCasesIdNotes |-> <<"admin.support.case.note.add", PostAdminSupportCasesIdNotes>>,
   PostAdminSupportCasesIdReopen |-> <<"admin.support.case.reopen", PostAdminSupportCasesIdReopen>>,
   GetAdminSupportCasesId |-> <<"admin.support.case.read", GetAdminSupportCasesId>>,
   PatchAdminSupportCasesId |-> <<"admin.support.case.workflow_update", PatchAdminSupportCasesId>>,
   PostAdminSupportCases |-> <<"admin.support.case.create", PostAdminSupportCases>>,
   GetAdminSupportCases |-> <<"admin.support.case.list", GetAdminSupportCases>>,
   PostAdminSupportResolveCustomer |-> <<"admin.support.resolve_customer", PostAdminSupportResolveCustomer>>]

(* Routes of services, apps and providers. *)
ServiceTable ==
  [PostAnalyticsDailyContribution |-> <<"service.analytics.contribute", PostAnalyticsDailyContribution>>,
   PostAnalyticsDailyRunsId |-> <<"service.analytics.run", PostAnalyticsDailyRunsId>>,
   PostAnalyticsDailyRunsMonitor |-> <<"service.analytics.run", PostAnalyticsDailyRunsMonitor>>,
   PostAppLaunchExchange |-> <<"app.launch.exchange", PostAppLaunchExchange>>,
   PostAppSessionGrantsIdRenew |-> <<"app.grant.renew", PostAppSessionGrantsIdRenew>>,
   GetAppSessionGrantsIdStatus |-> <<"app.grant.status", GetAppSessionGrantsIdStatus>>,
   GetAppsIdAchievementContract |-> <<"app.achievement.contract.read", GetAppsIdAchievementContract>>,
   GetAppsIdAvailability |-> <<"service.app_availability.read", GetAppsIdAvailability>>,
   GetAppsIdPublishedDeployment |-> <<"service.deployment.published.read", GetAppsIdPublishedDeployment>>,
   PostAppsIdReleases |-> <<"service.deployment.release_create", PostAppsIdReleases>>,
   PostAuthorizationDecision |-> <<"service.authorization.decide", PostAuthorizationDecision>>,
   PostBackupStatus |-> <<"service.backup.report_status", PostBackupStatus>>,
   PostBillingGraceExpirySweep |-> <<"service.billing.grace_expiry", PostBillingGraceExpirySweep>>,
   PostBillingReconcile |-> <<"service.billing.reconcile", PostBillingReconcile>>,
   PostBillingUpcomingRenewalReminderSweep |-> <<"service.billing.renewal_reminder", PostBillingUpcomingRenewalReminderSweep>>,
   PostDeploymentProviderWebhook |-> <<"service.deployment.webhook_ingest", PostDeploymentProviderWebhook>>,
   PostDeploymentsRetentionPurge |-> <<"service.deployment.retention_purge", PostDeploymentsRetentionPurge>>,
   PostDeploymentsSafetySweep |-> <<"service.deployment.safety_sweep", PostDeploymentsSafetySweep>>,
   PostDeploymentsWindowSweep |-> <<"service.deployment.window_sweep", PostDeploymentsWindowSweep>>,
   PostEntitlementsApplyLifecycleEvent |-> <<"service.entitlements.apply_lifecycle_event", PostEntitlementsApplyLifecycleEvent>>,
   PostEntitlementsApplyPaidCycle |-> <<"service.entitlements.apply_cycle", PostEntitlementsApplyPaidCycle>>,
   PostEntitlementsEvaluateAccess |-> <<"service.entitlements.evaluate_access", PostEntitlementsEvaluateAccess>>,
   PostEntitlementsProcessDueTransitions |-> <<"service.entitlements.process_due_transitions", PostEntitlementsProcessDueTransitions>>,
   PostEntitlementsReconcileIntegrity |-> <<"service.entitlements.reconcile_integrity", PostEntitlementsReconcileIntegrity>>,
   PostEntitlementsReconcileLearnerApp |-> <<"service.entitlements.reconcile_learner_app", PostEntitlementsReconcileLearnerApp>>,
   PostEntitlementsReconcileLifecycle |-> <<"service.entitlements.reconcile_lifecycle", PostEntitlementsReconcileLifecycle>>,
   PostEntitlementsReconcilePaidCycleId |-> <<"service.entitlements.reconcile_paid_cycle", PostEntitlementsReconcilePaidCycleId>>,
   PostLearnerAchievementsIdRevoke |-> <<"app.achievement.revoke", PostLearnerAchievementsIdRevoke>>,
   PostLearnerAchievements |-> <<"app.achievement.write", PostLearnerAchievements>>,
   GetLearnerAppProgressCompletions |-> <<"app.progress.completions.read", GetLearnerAppProgressCompletions>>,
   GetLearnerAppProgressCurrent |-> <<"app.progress.current.read", GetLearnerAppProgressCurrent>>,
   PutLearnerAppProgressCurrent |-> <<"app.progress.write", PutLearnerAppProgressCurrent>>,
   PostLearnerAppProgressLessonsIdComplete |-> <<"app.lesson.complete", PostLearnerAppProgressLessonsIdComplete>>,
   PostLearnerAppProgressReconcileIntegrity |-> <<"service.progress_integrity.reconcile", PostLearnerAppProgressReconcileIntegrity>>,
   PostLearnerAppProgressReconcileRecovery |-> <<"service.progress_recovery.reconcile", PostLearnerAppProgressReconcileRecovery>>,
   PostLearnerAppProgressRecoverCurrent |-> <<"app.progress.recover", PostLearnerAppProgressRecoverCurrent>>,
   PutLearnerAppProgressSummary |-> <<"app.progress.summary.write", PutLearnerAppProgressSummary>>,
   ValidateIntegrityOfReconciler |-> <<"app.progress.integrity.validate", ValidateIntegrityOfReconciler>>,
   ValidateIntegrityOfApp |-> <<"app.progress.integrity.validate", ValidateIntegrityOfApp>>,
   GetLearnerConsistencyIdCadenceCompletionContext |-> <<"service.consistency.context.read", GetLearnerConsistencyIdCadenceCompletionContext>>,
   PostLearnerConsistencyFinalizeWeek |-> <<"service.consistency.finalize", PostLearnerConsistencyFinalizeWeek>>,
   PostLearnerConsistencyReconcile |-> <<"service.consistency.reconcile", PostLearnerConsistencyReconcile>>,
   PostLearnerConsistencyStandardSessionCommitted |-> <<"service.consistency.contribute", PostLearnerConsistencyStandardSessionCommitted>>,
   PostLearnerJourneyMilestones |-> <<"app.journey.milestone.write", PostLearnerJourneyMilestones>>,
   PostLearnerJourneyRetentionReconcile |-> <<"service.journey.retention", PostLearnerJourneyRetentionReconcile>>,
   PostLearnerLauncherInvalidate |-> <<"service.launcher.invalidate", PostLearnerLauncherInvalidate>>,
   PostLearnerLauncherReconcileFreshness |-> <<"service.launcher.reconcile_freshness", PostLearnerLauncherReconcileFreshness>>,
   PostLearnerSessionsIdComplete |-> <<"app.session.complete", PostLearnerSessionsIdComplete>>,
   PostLearnerSessionsIdDisconnect |-> <<"app.session.disconnect", PostLearnerSessionsIdDisconnect>>,
   GetLearnerSessionsIdExitState |-> <<"app.session.exit_state.read", GetLearnerSessionsIdExitState>>,
   PostLearnerSessionsIdFinish |-> <<"app.session.finish", PostLearnerSessionsIdFinish>>,
   PostLearnerSessionsIdMarkResumable |-> <<"app.session.mark_resumable", PostLearnerSessionsIdMarkResumable>>,
   PostLearnerSessionsIdResume |-> <<"app.session.resume", PostLearnerSessionsIdResume>>,
   PostLearnerSessionsIdUsableLaunch |-> <<"app.session.usable_launch", PostLearnerSessionsIdUsableLaunch>>,
   PostLearningRemindersEvaluate |-> <<"service.learning_reminders.evaluate", PostLearningRemindersEvaluate>>,
   PostLearningRemindersReconcileDelivery |-> <<"service.learning_reminders.reconcile", PostLearningRemindersReconcileDelivery>>,
   PostLearningRemindersSend |-> <<"service.learning_reminders.send", PostLearningRemindersSend>>,
   PostMonitoringSync |-> <<"service.monitoring.sync", PostMonitoringSync>>,
   GetNotificationsBySourceIdId |-> <<"service.notifications.read", GetNotificationsBySourceIdId>>,
   PostNotificationsDeliveryRun |-> <<"service.notifications.deliver", PostNotificationsDeliveryRun>>,
   PostNotificationsHealthMonitor |-> <<"service.notifications.monitor_health", PostNotificationsHealthMonitor>>,
   PostNotificationsProviderEvents |-> <<"service.notifications.provider_event", PostNotificationsProviderEvents>>,
   PostNotificationsReconcile |-> <<"service.notifications.reconcile", PostNotificationsReconcile>>,
   PostNotificationsTransactionalIntents |-> <<"service.notifications.enqueue", PostNotificationsTransactionalIntents>>,
   PostWebhooksFinancialEvents |-> <<"service.billing.financial_event_webhook", PostWebhooksFinancialEvents>>,
   PostWebhooksPaymentsId |-> <<"service.billing.provider_event", PostWebhooksPaymentsId>>]

(* The links of e-mails and of the identity provider, outside /v1: the
   middleware lets them through undeclared. *)
LinkTable ==
  [GetAuthCallback |-> <<"public", GetAuthCallback>>,
   GetAuthConfirm |-> <<"public", GetAuthConfirm>>,
   GetAuthEmailChangeCallback |-> <<"public", GetAuthEmailChangeCallback>>]

RouteTable == ParentTable @@ StaffTable @@ ServiceTable @@ LinkTable
=============================================================================
