-------------------------------- MODULE ParentRoutes --------------------------------
(* The handlers a parent's or a learner's browser calls, with the open ones
   (the app catalogue, signing in, the links of e-mails): what each asks of its
   caller and in which order it reads and writes.  A name is the method followed
   by the path; Id stands for a parameter. *)
EXTENDS RouteSteps

(* /auth/callback *)
GetAuthCallback == Proof \o Change

(* /auth/confirm *)
GetAuthConfirm == Proof \o Change

(* /auth/email-change *)
GetAuthEmailChangeCallback == Proof \o Change

(* /v1/account *)
PostAccountEmailChangeCancel ==
  EndUser("parent.account.email_change.cancel") \o Locked("parent.account.email_change.cancel")
PostAccountEmailChangeRequest ==
  EndUser("parent.account.email_change.request") \o Limit \o Body \o Password \o Check
    \o Locked("parent.account.email_change.request")
PostAccountEmailChangeResend ==
  EndUser("parent.account.email_change.resend") \o Limit \o Locked("parent.account.email_change.resend")
PostAccountPasswordChange ==
  EndUser("parent.account.password.change") \o Limit \o Body \o Password \o Check
    \o Locked("parent.account.password.change")
GetAccountSecurity == EndUser("parent.account.security.read") \o Read
PostAccountSoftDelete ==
  EndUser("parent.account.delete") \o Limit \o Body \o Password \o Locked("parent.account.delete")

(* /v1/apps *)
GetAppsId == Read
GetApps == Read

(* /v1/billing *)
PostBillingCheckoutIntents ==
  Body \o EndUser("parent.billing.checkout.create") \o Limit \o Check
    \o Locked("parent.billing.checkout.create")

(* /v1/learner-achievements *)
GetLearnerAchievements == EndUser("learner.achievements.read") \o Read

(* /v1/learner-apps *)
GetLearnerAppsIdJourney == EndUser("learner.journey.read") \o Check \o Read

(* /v1/learner-consistency *)
GetLearnerConsistency == EndUser("learner.consistency.read") \o Read

(* /v1/learner-home *)
GetLearnerHome == EndUser("learner.home.read") \o Read

(* /v1/learner-mode *)
PostLearnerModeEnterDirect == EndUser("learner.mode.enter") \o Limit \o Body \o Change \o Change
PostLearnerModeEnterOptions == EndUser("learner.mode.enter") \o Limit \o Body \o Change \o Change
PostLearnerModeEnterVerify == EndUser("learner.mode.enter") \o Limit \o Body \o Change
PostLearnerModeExit ==
  EndUser("learner.mode.exit") \o Limit \o Body \o Password \o Locked("learner.mode.exit")

(* /v1/learner-selection *)
GetLearnerSelection == EndUser("parent.learners.list") \o Read
PutLearnerSelection == EndUser("parent.learner.select") \o Body \o Locked("parent.learner.select")

(* /v1/learner-sessions *)
PostLearnerSessionsIdCancelStart ==
  EndUser("learner.session.cancel_start") \o Limit \o Body \o Locked("learner.session.cancel_start")
PostLearnerSessionsIdLaunchDispatch ==
  EndUser("learner.session.start") \o Check \o Limit \o Body \o Locked("learner.session.start")
PostLearnerSessionsIdTechnicalCredit ==
  EndUser("learner.technical_issue.confirm") \o Limit \o Body \o Locked("learner.technical_issue.confirm")
PostLearnerSessions ==
  EndUser("learner.session.start") \o Check \o Limit \o Body \o Locked("learner.session.start")

(* /v1/learners *)
PostLearnersIdPasskeysIdRevoke ==
  EndUser("parent.passkeys.manage") \o Limit \o Body \o Password \o Locked("parent.passkeys.manage")
PostLearnersIdPasskeysRegistrationOptions == EndUser("parent.passkeys.manage") \o Limit \o Change
PostLearnersIdPasskeysRegistrationVerify == EndUser("parent.passkeys.manage") \o Limit \o Body \o Change
GetLearnersIdPasskeys == EndUser("parent.passkeys.manage") \o Read
GetLearnersIdProgress == EndUser("parent.learner.report.read") \o Read
PostLearnersIdResetWeeklyLimit == EndUser("parent.learner.manage") \o Locked("parent.learner.manage")
GetLearnersId == EndUser("parent.learner.read") \o Read
PatchLearnersId == EndUser("parent.learner.manage") \o Limit \o Body \o Locked("parent.learner.manage")
GetLearnersIdSessionCredits == EndUser("parent.learner.credits.read") \o Read
PostLearners == EndUser("parent.learner.manage") \o Limit \o Body \o Change

(* /v1/mobile *)
PostMobileAuthLogin == Body \o Password \o Change

(* /v1/onboarding *)
PostOnboardingEnsureParentProfile == Session \o EndUser("parent.onboarding.ensure") \o Read

(* /v1/parent *)
GetParentAttentionCenter == EndUser("parent.attention.read") \o Read
GetParentAttentionSummary == EndUser("parent.attention.summary.read") \o Read
GetParentAttention == EndUser("parent.attention.read") \o Read
GetParentAttentionBadge == EndUser("parent.attention.summary.read") \o Read
GetParentCommunicationHistory == EndUser("parent.notification_history.read") \o Read
GetParentConsentProcessingEnvelope == EndUser("parent.consent.processing_envelope.read") \o Read
PostParentConsentProcessingEnvelope == EndUser("parent.consent.processing_envelope.update") \o Limit \o Change
GetParentDashboard == EndUser("parent.dashboard.read") \o Read
GetParentLearnersIdAchievements == EndUser("parent.learner.achievements.read") \o Read
GetParentLearnersIdAppsIdJourney == EndUser("parent.learner.journey.read") \o Read
GetParentLearnersIdAppsId == EndUser("parent.learner.app_detail.read") \o Read
GetParentLearnersIdApps == EndUser("parent.learner.detail.read") \o Read
GetParentLearnersIdConsistency == EndUser("parent.learner.consistency.read") \o Read
GetParentLearnersIdDetail == EndUser("parent.learner.detail.read") \o Check \o Read
PostParentLearnersIdPastAppsIdSubscribeAgain == EndUser("parent.learner.subscribe_again.create") \o Change
GetParentLearnersIdPastApps == EndUser("parent.learner.past_apps.read") \o Read
GetParentLearnersId == EndUser("parent.learner.detail.read") \o Read
GetParentNotificationPreferences == EndUser("parent.notification_preferences.read") \o Read
PatchParentNotificationPreferences ==
  EndUser("parent.notification_preferences.update") \o Body \o Locked("parent.notification_preferences.update")
GetParentProfile == EndUser("parent.profile.read") \o Check \o Read
PatchParentProfile == EndUser("parent.profile.update") \o Limit \o Body \o Locked("parent.profile.update")
GetParentShellContext == EndUser("parent.shell_context.read") \o Read
GetParentSubscriptionsIdBillingStatus == EndUser("parent.billing.status.read") \o Read
PostParentSubscriptionsIdCancel ==
  EndUser("parent.billing.subscription.cancel") \o Limit \o Body \o Locked("parent.billing.subscription.cancel")
PostParentSubscriptionsIdDisableAutoRenew ==
  EndUser("parent.billing.auto_renew.disable") \o Limit \o Body \o Locked("parent.billing.auto_renew.disable")
PostParentSubscriptionsIdPaymentMethodUpdateSession ==
  EndUser("parent.billing.payment_method.update") \o Body \o Change
GetParentSubscriptionsIdPaymentRecoveryStatus == EndUser("parent.billing.payment_recovery.read") \o Read
PostParentSubscriptionsIdResumeAutoRenew ==
  EndUser("parent.billing.auto_renew.resume") \o Limit \o Body \o Locked("parent.billing.auto_renew.resume")
GetParentSubscriptions == EndUser("parent.billing.subscriptions.read") \o Limit \o Check \o Read

(* /v1/subscription-reassignment-cases *)
PostSubscriptionReassignmentCases ==
  Body \o EndUser("parent.billing.reassignment_case.create") \o Limit \o Check
    \o Locked("parent.billing.reassignment_case.create")
=============================================================================
