------------------------------- MODULE ServiceRoutes -------------------------------
(* The handlers internal services, learning apps and providers call: under
   /v1/internal, and the webhooks, whose caller is known by the signature. *)
EXTENDS RouteSteps

(* /v1/internal/analytics *)
PostAnalyticsDailyContribution == Service({"contributor"}) \o Body \o Change
PostAnalyticsDailyRunsId == Service({"scheduler"}) \o Check \o Change
PostAnalyticsDailyRunsMonitor == Service({"scheduler"}) \o Change

(* /v1/internal/app-launch *)
PostAppLaunchExchange == Limit \o Body \o Exchange

(* /v1/internal/app-session-grants *)
PostAppSessionGrantsIdRenew == Limit \o Body \o Renewal
GetAppSessionGrantsIdStatus == AppPrincipal \o Check \o Read

(* /v1/internal/apps *)
GetAppsIdAchievementContract == AppPrincipal \o Check \o Read
GetAppsIdAvailability == Service({"app-availability-reader"}) \o Read
GetAppsIdPublishedDeployment == Service({"ci-deployer"}) \o Check \o Read
PostAppsIdReleases == Service({"ci-deployer"}) \o Body \o Change

(* /v1/internal/authorization *)
PostAuthorizationDecision == Body \o Decision

(* /v1/internal/backup-status *)
PostBackupStatus == Service({"backup-status-reporter"}) \o Body \o Change

(* /v1/internal/billing *)
PostBillingGraceExpirySweep == Service({"billing-recovery"}) \o Body \o Change
PostBillingReconcile == Service({"billing-reconciliation"}) \o Body \o Change
PostBillingUpcomingRenewalReminderSweep == Service({"billing-notification"}) \o Body \o Change

(* /v1/internal/deployment-provider *)
PostDeploymentProviderWebhook == Body \o Proof \o Change

(* /v1/internal/deployments *)
PostDeploymentsRetentionPurge == Service({"deployment-scheduler"}) \o Change
PostDeploymentsSafetySweep == Service({"deployment-scheduler"}) \o Change
PostDeploymentsWindowSweep == Service({"deployment-scheduler"}) \o Change

(* /v1/internal/entitlements *)
PostEntitlementsApplyLifecycleEvent == Service({"entitlement-lifecycle"}) \o Body \o Change
PostEntitlementsApplyPaidCycle == Service({"entitlement-applier"}) \o Body \o Change
PostEntitlementsEvaluateAccess == Service({"entitlement-evaluator"}) \o Body \o Change
PostEntitlementsProcessDueTransitions == Service({"entitlement-lifecycle"}) \o Body \o Change
PostEntitlementsReconcileIntegrity == Service({"entitlement-integrity-monitor"}) \o Body \o Change
PostEntitlementsReconcileLearnerApp == Service({"entitlement-integrity-monitor"}) \o Body \o Change
PostEntitlementsReconcileLifecycle == Service({"entitlement-reconciliation"}) \o Body \o Change
PostEntitlementsReconcilePaidCycleId == Service({"entitlement-integrity-monitor"}) \o Body \o Change

(* /v1/internal/learner-achievements *)
PostLearnerAchievementsIdRevoke == AppPrincipal \o Body \o Change
PostLearnerAchievements == App("achievement.write") \o Body \o Change

(* /v1/internal/learner-app-progress *)
GetLearnerAppProgressCompletions == App("progress.read") \o Read
GetLearnerAppProgressCurrent == App("progress.read") \o Read
PutLearnerAppProgressCurrent == App("progress.write") \o Body \o Change
PostLearnerAppProgressLessonsIdComplete == App("lesson.complete") \o Body \o Change
PostLearnerAppProgressReconcileIntegrity == Service({"progress-integrity"}) \o Body \o Change
PostLearnerAppProgressReconcileRecovery == Service({"progress-recovery"}) \o Body \o Change
PostLearnerAppProgressRecoverCurrent == App("progress.recover") \o Body \o Change
PutLearnerAppProgressSummary == App("progress.summary.write") \o Body \o Change
ValidateIntegrityOfReconciler == Body \o Service({"progress-integrity"}) \o Check \o Change
ValidateIntegrityOfApp == Body \o App("progress.integrity_validate") \o Change

(* /v1/internal/learner-consistency *)
GetLearnerConsistencyIdCadenceCompletionContext == Service({"consistency-session-domain"}) \o Read
PostLearnerConsistencyFinalizeWeek == Service({"consistency-scheduler"}) \o Body \o Change
PostLearnerConsistencyReconcile == Service({"consistency-reconciliation"}) \o Body \o Change
PostLearnerConsistencyStandardSessionCommitted == Service({"consistency-session-domain"}) \o Body \o Change

(* /v1/internal/learner-journey *)
PostLearnerJourneyMilestones == App("journey.milestone.write") \o Body \o Change
PostLearnerJourneyRetentionReconcile == Service({"journey-retention"}) \o Body \o Change

(* /v1/internal/learner-launcher *)
PostLearnerLauncherInvalidate == Service({"launcher-domain-outbox"}) \o Body \o Change
PostLearnerLauncherReconcileFreshness == Service({"launcher-reconciliation"}) \o Body \o Change

(* /v1/internal/learner-sessions *)
PostLearnerSessionsIdComplete == App("session.complete") \o Body \o Change
PostLearnerSessionsIdDisconnect == App("session.usable_launch") \o Body \o Change
GetLearnerSessionsIdExitState == App("session.exit") \o Read
PostLearnerSessionsIdFinish == App("session.complete") \o Body \o Change
PostLearnerSessionsIdMarkResumable == App("session.exit") \o Body \o Change
PostLearnerSessionsIdResume == App("session.usable_launch") \o Body \o Change
PostLearnerSessionsIdUsableLaunch == App("session.usable_launch") \o Body \o Change

(* /v1/internal/learning-reminders *)
PostLearningRemindersEvaluate == Service({"learning-reminder-scheduler"}) \o Body \o Change
PostLearningRemindersReconcileDelivery == Service({"learning-reminder-reconciliation"}) \o Body \o Change
PostLearningRemindersSend == Service({"learning-reminder-sender"}) \o Body \o Change

(* /v1/internal/monitoring *)
PostMonitoringSync == Service({"operational-monitoring"}) \o Change \o Change

(* /v1/internal/notifications *)
GetNotificationsBySourceIdId ==
  Check \o Service({"notification-read-billing", "notification-read-identity", "notification-read-operations", "notification-read-support"})
    \o Read
PostNotificationsDeliveryRun == Service({"notification-delivery"}) \o Body \o Change
PostNotificationsHealthMonitor == Service({"notification-health-monitor"}) \o Change
PostNotificationsProviderEvents == Body \o Proof \o Change
PostNotificationsReconcile == Service({"notification-reconcile"}) \o Body \o Change
PostNotificationsTransactionalIntents == Service({"notification-enqueue"}) \o Body \o Change

(* /v1/webhooks *)
PostWebhooksFinancialEvents == Body \o Proof \o Change
PostWebhooksPaymentsId == Limit \o Body \o Proof \o Change
=============================================================================
