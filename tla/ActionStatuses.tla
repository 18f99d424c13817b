--------------------------- MODULE ActionStatuses ---------------------------
(***************************************************************************)
(* The statuses of an operational action and of its attempts, the table    *)
(* ALLOWED_TRANSITIONS that require_transition consults, and the sets of   *)
(* statuses the handlers branch on.                                        *)
(*                                                                         *)
(* Source: backend/app/operational_actions/domain.py                       *)
(***************************************************************************)

ActionStatus ==
    { "CREATED", "PREVIEWED", "STALE", "AUTHORIZED", "CONFIRMED",
      "EXECUTING", "SUCCEEDED", "FAILED", "VERIFIED", "VERIFICATION_FAILED",
      "ROLLBACK_REQUESTED", "ROLLING_BACK", "ROLLED_BACK",
      "ROLLBACK_FAILED", "RECOVERY_REQUIRED", "RECOVERED" }

ActionAttemptPhase == { "EXECUTION", "ROLLBACK" }

ActionAttemptStatus == { "REQUESTED", "CLAIMED", "COMPLETED", "OUTCOME_UNKNOWN" }

ALLOWED_TRANSITIONS ==
    [ s \in ActionStatus |->
        CASE s = "CREATED"    -> {"PREVIEWED", "STALE"}
          [] s = "PREVIEWED"  -> {"PREVIEWED", "AUTHORIZED", "CONFIRMED", "STALE"}
          [] s = "STALE"      -> {"PREVIEWED"}
          [] s = "AUTHORIZED" -> {"AUTHORIZED", "CONFIRMED", "STALE"}
          [] s = "CONFIRMED"  -> {"EXECUTING", "STALE"}
          [] s = "EXECUTING"  -> {"SUCCEEDED", "FAILED", "RECOVERY_REQUIRED"}
          [] s = "SUCCEEDED"  -> {"VERIFIED", "VERIFICATION_FAILED", "ROLLBACK_REQUESTED"}
          [] s = "FAILED"     -> {"ROLLBACK_REQUESTED", "RECOVERY_REQUIRED"}
          [] s = "VERIFIED"   -> {"ROLLBACK_REQUESTED"}
          [] s = "VERIFICATION_FAILED" -> {"ROLLBACK_REQUESTED", "RECOVERY_REQUIRED"}
          [] s = "ROLLBACK_REQUESTED"  -> {"ROLLING_BACK", "RECOVERY_REQUIRED"}
          [] s = "ROLLING_BACK"        -> {"ROLLED_BACK", "ROLLBACK_FAILED", "RECOVERY_REQUIRED"}
          [] s = "ROLLBACK_FAILED"     -> {"ROLLBACK_REQUESTED", "RECOVERY_REQUIRED"}
          [] s = "RECOVERY_REQUIRED"   -> {"RECOVERY_REQUIRED", "RECOVERED", "ROLLBACK_REQUESTED"}
          [] OTHER -> {} ]              \* ROLLED_BACK and RECOVERED are final

\* require_transition(current, target) raises unless this holds.
MayTransition(current, target) == target \in ALLOWED_TRANSITIONS[current]

----------------------------------------------------------------------------
(* The statuses the handlers of service.py branch on.                      *)

\* Seeded fault: an authorized action may be previewed again.
PreviewableLate == {"CREATED", "PREVIEWED", "STALE", "AUTHORIZED"}

\* preview_action
Previewable    == {"CREATED", "PREVIEWED", "STALE"}

\* authorize_action, confirm_action
Reviewed       == {"PREVIEWED", "AUTHORIZED"}

\* request_or_execute_rollback: after an execution, after a failed rollback
RollbackSource == {"SUCCEEDED", "VERIFIED", "FAILED", "VERIFICATION_FAILED"}
RetrySource    == {"ROLLBACK_FAILED", "RECOVERY_REQUIRED"}

\* Seeded fault: recovery may be recorded while a rollback is under way.
RecoverableInFlight ==
    {"FAILED", "VERIFICATION_FAILED", "ROLLBACK_FAILED", "RECOVERY_REQUIRED", "ROLLING_BACK"}

\* record_recovery
Recoverable    == {"FAILED", "VERIFICATION_FAILED", "ROLLBACK_FAILED", "RECOVERY_REQUIRED"}

\* cancel_maintenance_window: the statuses that keep a window from closing
CancelBlocking == {"EXECUTING", "ROLLBACK_REQUESTED", "ROLLING_BACK", "RECOVERY_REQUIRED"}
============================================================================
