-------------------------- MODULE ActionLifecycle --------------------------
(***************************************************************************)
(* The abstract specification of an action's status: the history that the  *)
(* table ALLOWED_TRANSITIONS promises.                                     *)
(***************************************************************************)
EXTENDS ActionStatuses

(* What the table promises.  One request may record several transitions    *)
(* before its single commit (authorize with confirm, recovery resolved),   *)
(* and the rollback claim with execute=true goes from a finished execution *)
(* to ROLLING_BACK in one UPDATE without require_transition, so a          *)
(* committed step is a short path of table steps.                          *)

VARIABLE status

CommittedPaths ==
    { <<"PREVIEWED", "CONFIRMED">>, <<"AUTHORIZED", "CONFIRMED">> }
      \cup { <<s, "RECOVERED">>    : s \in Recoverable }
      \cup { <<s, "ROLLING_BACK">> : s \in RollbackSource }

LifecycleInit == status = "CREATED"

LifecycleNext ==
    \E target \in ActionStatus :
        /\ \/ MayTransition(status, target)
           \/ <<status, target>> \in CommittedPaths
        /\ status' = target

LifecycleSpec == LifecycleInit /\ [][LifecycleNext]_status
============================================================================
