---------------------- MODULE OperationalActions_proofs ----------------------
(***************************************************************************)
(* Theorems about OperationalActions, for every set of requests and        *)
(* attempt identities and every value of the other constants.              *)
(***************************************************************************)
EXTENDS OperationalActions, TLAPS

----------------------------------------------------------------------------
(* Typing *)

\* What a flush writes is again a row.
LEMMA FlushFactsType ==
    ASSUME row \in ActionRow, NEW c \in ActionRow, NEW n \in ActionRow, NEW refilled
    PROVE  FlushFacts(c, n, refilled) \in ActionRow
  BY DEF FlushFacts, Written, ActionRow

LEMMA FlushType ==
    ASSUME row \in ActionRow, NEW c \in ActionRow, NEW n \in ActionRow
    PROVE  Flush(c, n) \in ActionRow
  BY FlushFactsType DEF Flush

LEMMA CreatedType == CreatedRow \in ActionRow /\ Idle \in Request
  BY ConstantsAssumption DEF CreatedRow, Idle, ActionRow, Request, Binding, WindowFacts, TargetFacts,
     InitTarget, ActionStatus, Operations, Steps

\* What a request sees of the window and the target is well typed.
LEMMA SeenType ==
    ASSUME TypeOK, NEW r \in Requests
    PROVE  /\ Seen(r) \in [target : TargetFacts, lapsed : 0..MaxPreviews]
           /\ WindowBinding \in WindowFacts \cup {None}
           /\ req[r].row \in ActionRow
  BY DEF TypeOK, Seen, WindowBinding, Request

LEMMA InitType == Init => TypeOK
  BY CreatedType, ConstantsAssumption DEF Init, TypeOK, WindowFacts, TargetFacts,
     InitTarget, InitWindow, Absent, AttemptRow

LEMMA ReturnType ==
    ASSUME TypeOK, NEW r \in Requests, Return(r)
    PROVE  req' \in [Requests -> Request]
  BY CreatedType DEF TypeOK, Return, Move

LEMMA LoadType ==
    ASSUME TypeOK, NEW r \in Requests, NEW o, NEW a \in AttemptIds \cup {None},
           NEW exec \in BOOLEAN, NEW given \in BOOLEAN, Load(r, o, a, exec, given)
    PROVE  TypeOK'
  <1>1. [Idle EXCEPT !.op = o, !.step = "loaded", !.row = row,
                     !.attempt = a, !.execute = exec, !.facts = given] \in Request
    BY CreatedType, ConstantsAssumption DEF Load, TypeOK, Request, Steps
  <1>. QED BY <1>1 DEF Load, Move, TypeOK, dbVars

LEMMA MarkStaleType ==
    ASSUME TypeOK, NEW r \in Requests, MarkStale(r)
    PROVE  TypeOK'
  <1>. DEFINE c == req[r].row
              n == [c EXCEPT !.status = "STALE", !.authorized = FALSE,
                             !.approved = FALSE, !.confirmed = FALSE]
  <1>1. c \in ActionRow /\ n \in ActionRow
    BY SeenType DEF ActionRow, ActionStatus
  <1>2. row' = Flush(c, n)
    BY DEF MarkStale
  <1>3. row' \in ActionRow
    BY <1>1, <1>2, FlushType DEF TypeOK
  <1>. QED BY <1>3, ReturnType DEF MarkStale, TypeOK

LEMMA RejectType ==
    ASSUME TypeOK, NEW r \in Requests, Reject(r)
    PROVE  TypeOK'
  BY ReturnType DEF Reject, TypeOK, dbVars

\* A step of request r that only moves r on keeps the types.
LEMMA MoveType ==
    ASSUME TypeOK, NEW r \in Requests, NEW q \in Request, Move(r, q)
    PROVE  req' \in [Requests -> Request]
  BY DEF TypeOK, Move

LEMMA SetStatusType ==
    ASSUME TypeOK, NEW a, NEW s \in ActionAttemptStatus, SetStatus(a, s)
    PROVE  attempts' \in [AttemptIds -> AttemptRow]
  BY DEF TypeOK, SetStatus, AttemptRow

LEMMA InsertType ==
    ASSUME TypeOK, NEW a, NEW p \in ActionAttemptPhase,
           NEW s \in ActionAttemptStatus, Insert(a, p, s)
    PROVE  attempts' \in [AttemptIds -> AttemptRow]
  BY DEF TypeOK, Insert, AttemptRow

LEMMA SnapshotTypes ==
    ASSUME TypeOK, NEW r \in Requests, Snapshot(r)
    PROVE  TypeOK'
  <1>. DEFINE q == [req[r] EXCEPT !.step = "checked",
                                  !.seen = [target |-> target, lapsed |-> lapsed]]
  <1>1. q \in Request
    BY DEF TypeOK, Request, Steps
  <1>. QED BY <1>1, MoveType DEF Snapshot, TypeOK, dbVars

LEMMA PreviewTypes ==
    ASSUME TypeOK, NEW r \in Requests, Preview(r)
    PROVE  TypeOK'
  <1>. DEFINE c == req[r].row
              s == Seen(r)
              n == [c EXCEPT !.status = "PREVIEWED", !.token = issued + 1,
                             !.bound = [window |-> WindowBinding, target |-> s.target],
                             !.authorized = FALSE, !.approved = FALSE,
                             !.recovery = FALSE, !.confirmed = FALSE]
  <1>1. CASE MarkStale(r)
    BY <1>1, MarkStaleType
  <1>2. CASE issued < MaxPreviews /\ issued' = issued + 1 /\ row' = Flush(c, n) /\ Return(r)
             /\ UNCHANGED <<attempts, window, target, lapsed, calls, confirmedFacts>>
    <2>1. issued + 1 \in 0..MaxPreviews
      BY <1>2, ConstantsAssumption DEF TypeOK
    <2>2. [window |-> WindowBinding, target |-> s.target] \in Binding
      BY SeenType DEF Binding
    <2>3. c \in ActionRow /\ n \in ActionRow
      BY <2>1, <2>2, SeenType DEF ActionRow, ActionStatus
    <2>4. row' \in ActionRow
      BY <1>2, <2>3, FlushType DEF TypeOK
    <2>. QED BY <1>2, <2>1, <2>4, ReturnType DEF TypeOK
  <1>. QED BY <1>1, <1>2 DEF Preview

\* The step that commits new contents of the row, and nothing else but
\* confirmedFacts, and ends the request.
LEMMA CommitType ==
    ASSUME TypeOK, NEW r \in Requests, row' \in ActionRow, Return(r),
           confirmedFacts' \subseteq Binding,
           UNCHANGED <<attempts, window, target, issued, lapsed, calls>>
    PROVE  TypeOK'
  BY ReturnType DEF TypeOK

LEMMA AuthorizeTypes ==
    ASSUME TypeOK, NEW r \in Requests, Authorize(r)
    PROVE  TypeOK'
  <1>. DEFINE c == req[r].row
              n(approval, confirm) ==
                   [c EXCEPT !.status = IF confirm THEN "CONFIRMED" ELSE "AUTHORIZED",
                             !.approved = approval, !.recovery = req[r].facts,
                             !.authorized = TRUE,
                             !.confirmed = confirm \/ c.confirmed]
  <1>1. CASE MarkStale(r) \/ Reject(r)
    BY <1>1, MarkStaleType, RejectType
  <1>2. ASSUME NEW approval \in BOOLEAN, NEW confirm \in BOOLEAN, NEW refilled,
               row' = FlushFacts(c, n(approval, confirm), refilled),
               confirmedFacts' = IF confirm THEN confirmedFacts \cup {c.bound} ELSE confirmedFacts,
               Return(r), UNCHANGED <<attempts, window, target, issued, lapsed, calls>>
        PROVE  TypeOK'
    <2>1. c \in ActionRow /\ c.bound \in Binding /\ c.confirmed \in BOOLEAN
      BY SeenType DEF ActionRow
    <2>4. req[r].facts \in BOOLEAN /\ (confirm \/ c.confirmed) \in BOOLEAN
      BY <2>1 DEF TypeOK, Request
    <2>5. (IF confirm THEN "CONFIRMED" ELSE "AUTHORIZED") \in ActionStatus
      BY DEF ActionStatus
    <2>2. n(approval, confirm) \in ActionRow
      BY <2>1, <2>4, <2>5 DEF ActionRow
    <2>3. row' \in ActionRow
      BY <1>2, <2>1, <2>2, FlushFactsType DEF TypeOK
    <2>. QED BY <1>2, <2>1, <2>3, CommitType DEF TypeOK
  <1>. QED BY <1>1, <1>2 DEF Authorize

LEMMA ConfirmTypes ==
    ASSUME TypeOK, NEW r \in Requests, Confirm(r)
    PROVE  TypeOK'
  <1>. DEFINE c == req[r].row
              n == [c EXCEPT !.status = "CONFIRMED", !.authorized = TRUE, !.confirmed = TRUE]
  <1>1. CASE MarkStale(r) \/ Reject(r)
    BY <1>1, MarkStaleType, RejectType
  <1>2. ASSUME NEW refilled, row' = FlushFacts(c, n, refilled),
               confirmedFacts' = confirmedFacts \cup {c.bound},
               Return(r), UNCHANGED <<attempts, window, target, issued, lapsed, calls>>
        PROVE  TypeOK'
    <2>1. c \in ActionRow /\ c.bound \in Binding /\ n \in ActionRow
      BY SeenType DEF ActionRow, ActionStatus
    <2>2. row' \in ActionRow
      BY <1>2, <2>1, FlushFactsType DEF TypeOK
    <2>. QED BY <1>2, <2>1, <2>2, CommitType DEF TypeOK
  <1>. QED BY <1>1, <1>2 DEF Confirm

LEMMA ExecuteTypes ==
    ASSUME TypeOK, NEW r \in Requests, Execute(r)
    PROVE  TypeOK'
  <1>1. CASE MarkStale(r) \/ Reject(r)
    BY <1>1, MarkStaleType, RejectType
  <1>2. ASSUME NEW a \in AttemptIds,
               row' = [row EXCEPT !.status = "EXECUTING", !.execution = a],
               Insert(a, "EXECUTION", "CLAIMED"),
               Move(r, [req[r] EXCEPT !.step = "claimed", !.attempt = a]),
               UNCHANGED <<window, target, issued, lapsed, calls, confirmedFacts>>
        PROVE  TypeOK'
    <2>1. row' \in ActionRow
      BY <1>2 DEF TypeOK, ActionRow, ActionStatus
    <2>2. [req[r] EXCEPT !.step = "claimed", !.attempt = a] \in Request
      BY DEF TypeOK, Request, Steps
    <2>3. attempts' \in [AttemptIds -> AttemptRow]
      BY <1>2, InsertType DEF ActionAttemptPhase, ActionAttemptStatus
    <2>. QED BY <1>2, <2>1, <2>2, <2>3, MoveType DEF TypeOK
  <1>. QED BY <1>1, <1>2 DEF Execute

\* One more adapter call.
LEMMA CallType ==
    ASSUME TypeOK, NEW a, calls' = [calls EXCEPT ![a] = @ + 1]
    PROVE  calls' \in [AttemptIds -> Nat]
  <1>1. DOMAIN calls = AttemptIds /\ \A b \in AttemptIds : calls[b] \in Nat
    BY DEF TypeOK
  <1>2. ASSUME NEW b \in AttemptIds
        PROVE  calls'[b] \in Nat
    <2>1. calls'[b] = calls[b] \/ calls'[b] = calls[b] + 1
      BY <1>1
    <2>. QED BY <1>1, <2>1
  <1>. QED BY <1>1, <1>2

LEMMA InvokeTypes ==
    ASSUME TypeOK, NEW r \in Requests, Invoke(r)
    PROVE  TypeOK'
  <1>1. [req[r] EXCEPT !.step = "called", !.row = row] \in Request
    BY DEF TypeOK, Request, Steps
  <1>2. calls' \in [AttemptIds -> Nat]
    BY CallType DEF Invoke
  <1>. QED BY <1>1, <1>2, MoveType DEF Invoke, TypeOK, dbVars

LEMMA RecordTypes ==
    ASSUME TypeOK, NEW r \in Requests, NEW outcome \in ActionStatus, NEW a,
           row' = Flush(req[r].row, [req[r].row EXCEPT !.status = outcome]),
           SetStatus(a, "COMPLETED") \/ attempts' = attempts, Return(r),
           UNCHANGED <<window, target, issued, lapsed, calls, confirmedFacts>>
    PROVE  TypeOK'
  <1>1. req[r].row \in ActionRow /\ [req[r].row EXCEPT !.status = outcome] \in ActionRow
    BY SeenType DEF ActionRow
  <1>2. row' \in ActionRow
    BY <1>1, FlushType DEF TypeOK
  <1>3. attempts' \in [AttemptIds -> AttemptRow]
    BY SetStatusType DEF TypeOK, ActionAttemptStatus
  <1>. QED BY <1>2, <1>3, ReturnType DEF TypeOK

LEMMA RecordExecutionTypes ==
    ASSUME TypeOK, NEW r \in Requests, RecordExecution(r)
    PROVE  TypeOK'
  <1>1. CASE Reject(r)
    BY <1>1, RejectType
  <1>2. ASSUME NEW outcome \in ExecutionOutcome,
               row' = Flush(req[r].row, [req[r].row EXCEPT !.status = outcome]),
               SetStatus(req[r].attempt, "COMPLETED"), Return(r),
               UNCHANGED <<window, target, issued, lapsed, calls, confirmedFacts>>
        PROVE  TypeOK'
    BY <1>2, RecordTypes DEF ExecutionOutcome, ActionStatus
  <1>. QED BY <1>1, <1>2 DEF RecordExecution

LEMMA VerifyTypes ==
    ASSUME TypeOK, NEW r \in Requests, Verify(r)
    PROVE  TypeOK'
  BY RecordTypes DEF Verify, ActionStatus

LEMMA RecordRollbackTypes ==
    ASSUME TypeOK, NEW r \in Requests, RecordRollback(r)
    PROVE  TypeOK'
  BY RecordTypes DEF RecordRollback, ActionStatus

\* The columns a rollback writes keep their types.
LEMMA WithFactsType ==
    ASSUME TypeOK, NEW r \in Requests
    PROVE  WithFacts(r) \subseteq BOOLEAN
  BY DEF WithFacts, TypeOK, ActionRow

LEMMA RequestRetryTypes ==
    ASSUME TypeOK, NEW r \in Requests, RequestRetry(r)
    PROVE  TypeOK'
  <1>. DEFINE a == req[r].attempt
  <1>1. CASE Reject(r)
    BY <1>1, RejectType
  <1>2. ASSUME NEW recovery \in WithFacts(r),
               row' = [row EXCEPT !.status = "ROLLBACK_REQUESTED", !.rollback = a,
                                  !.recovery = recovery],
               Insert(a, "ROLLBACK", "REQUESTED"),
               Move(r, IF req[r].execute
                       THEN [req[r] EXCEPT !.step = "refresh2", !.held = TRUE] ELSE Idle),
               UNCHANGED <<window, target, issued, lapsed, calls, confirmedFacts>>
        PROVE  TypeOK'
    <2>1. a \in AttemptIds \cup {None} /\ recovery \in BOOLEAN
      BY <1>2, WithFactsType DEF TypeOK, Request
    <2>2. row' \in ActionRow
      BY <1>2, <2>1 DEF TypeOK, ActionRow, ActionStatus
    <2>3. (IF req[r].execute THEN [req[r] EXCEPT !.step = "refresh2", !.held = TRUE] ELSE Idle)
             \in Request
      BY CreatedType DEF TypeOK, Request, Steps
    <2>4. attempts' \in [AttemptIds -> AttemptRow]
      BY <1>2, InsertType DEF ActionAttemptPhase, ActionAttemptStatus
    <2>. QED BY <1>2, <2>2, <2>3, <2>4, MoveType DEF TypeOK
  <1>3. CASE Move(r, [req[r] EXCEPT !.step = "reread"])
             /\ UNCHANGED <<dbVars, calls, confirmedFacts>>
    <2>1. [req[r] EXCEPT !.step = "reread"] \in Request
      BY DEF TypeOK, Request, Steps
    <2>. QED BY <1>3, <2>1, MoveType DEF TypeOK, dbVars
  <1>. QED BY <1>1, <1>2, <1>3 DEF RequestRetry

LEMMA RereadTypes ==
    ASSUME TypeOK, NEW r \in Requests, Reread(r) \/ Refresh(r)
    PROVE  TypeOK'
  <1>1. [req[r] EXCEPT !.step = "stage2", !.row = row] \in Request
    BY DEF TypeOK, Request, Steps
  <1>2. [req[r] EXCEPT !.row = row,
                       !.step = CASE @ = "refresh2" -> "stage2"
                                  [] @ = "refresh3" -> "stage3"
                                  [] OTHER -> "stage4"] \in Request
    BY DEF TypeOK, Request, Steps
  <1>3. CASE Reread(r)
    BY <1>1, <1>3, MoveType, CreatedType DEF Reread, TypeOK, dbVars
  <1>4. CASE Refresh(r)
    BY <1>2, <1>4, MoveType DEF Refresh, TypeOK, dbVars
  <1>. QED BY <1>3, <1>4

LEMMA ClaimFirstTypes ==
    ASSUME TypeOK, NEW r \in Requests, ClaimFirst(r)
    PROVE  TypeOK'
  <1>1. CASE Reject(r)
    BY <1>1, RejectType
  <1>2. ASSUME NEW a \in AttemptIds \cup {None}, NEW recovery \in WithFacts(r),
               row' = [row EXCEPT !.status = IF req[r].execute THEN "ROLLING_BACK"
                                                               ELSE "ROLLBACK_REQUESTED",
                                  !.rollback = a, !.recovery = recovery],
               Insert(a, "ROLLBACK", IF req[r].execute THEN "CLAIMED" ELSE "REQUESTED"),
               Move(r, IF req[r].execute
                       THEN [req[r] EXCEPT !.step = "refresh3", !.attempt = a, !.held = TRUE]
                       ELSE Idle),
               UNCHANGED <<window, target, issued, lapsed, calls, confirmedFacts>>
        PROVE  TypeOK'
    <2>1. recovery \in BOOLEAN
      BY <1>2, WithFactsType
    <2>2. row' \in ActionRow
      BY <1>2, <2>1 DEF TypeOK, ActionRow, ActionStatus
    <2>3. (IF req[r].execute
           THEN [req[r] EXCEPT !.step = "refresh3", !.attempt = a, !.held = TRUE]
           ELSE Idle) \in Request
      BY CreatedType DEF TypeOK, Request, Steps
    <2>4. attempts' \in [AttemptIds -> AttemptRow]
      BY <1>2, InsertType DEF ActionAttemptPhase, ActionAttemptStatus
    <2>. QED BY <1>2, <2>2, <2>3, <2>4, MoveType DEF TypeOK
  <1>3. req[r].attempt \in AttemptIds \cup {None}
    BY DEF TypeOK, Request
  <1>. QED BY <1>1, <1>2, <1>3 DEF ClaimFirst

LEMMA ClaimRequestedTypes ==
    ASSUME TypeOK, NEW r \in Requests, ClaimRequested(r)
    PROVE  TypeOK'
  <1>. DEFINE a == req[r].row.rollback
  <1>3. a \in AttemptIds \cup {None}
    BY SeenType DEF ActionRow
  <1>1. CASE Reject(r)
    BY <1>1, RejectType
  <1>2. ASSUME NEW recovery \in WithFacts(r),
               row' = [row EXCEPT !.status = "ROLLING_BACK", !.recovery = recovery],
               SetStatus(a, "CLAIMED"),
               Move(r, [req[r] EXCEPT !.step = "refresh4", !.attempt = a, !.held = TRUE]),
               UNCHANGED <<window, target, issued, lapsed, calls, confirmedFacts>>
        PROVE  TypeOK'
    <2>1. recovery \in BOOLEAN
      BY <1>2, WithFactsType
    <2>2. row' \in ActionRow
      BY <1>2, <2>1 DEF TypeOK, ActionRow, ActionStatus
    <2>3. [req[r] EXCEPT !.step = "refresh4", !.attempt = a, !.held = TRUE] \in Request
      BY <1>3 DEF TypeOK, Request, Steps
    <2>4. attempts' \in [AttemptIds -> AttemptRow]
      BY <1>2, SetStatusType DEF ActionAttemptStatus
    <2>. QED BY <1>2, <2>2, <2>3, <2>4, MoveType DEF TypeOK
  <1>. QED BY <1>1, <1>2 DEF ClaimRequested

LEMMA InvokeRollbackTypes ==
    ASSUME TypeOK, NEW r \in Requests, InvokeRollback(r)
    PROVE  TypeOK'
  <1>. DEFINE a == req[r].row.rollback
  <1>3. a \in AttemptIds \cup {None}
    BY SeenType DEF ActionRow
  <1>1. CASE Reject(r)
    BY <1>1, RejectType
  <1>2. CASE /\ calls' = [calls EXCEPT ![a] = @ + 1]
             /\ Move(r, [req[r] EXCEPT !.step = "called", !.attempt = a])
             /\ UNCHANGED <<dbVars, confirmedFacts>>
    <2>1. [req[r] EXCEPT !.step = "called", !.attempt = a] \in Request
      BY <1>3 DEF TypeOK, Request, Steps
    <2>2. calls' \in [AttemptIds -> Nat]
      BY <1>2, CallType
    <2>. QED BY <1>2, <2>1, <2>2, MoveType DEF TypeOK, dbVars
  <1>. QED BY <1>1, <1>2 DEF InvokeRollback

LEMMA ReconcileTypes ==
    ASSUME TypeOK, NEW r \in Requests, Reconcile(r)
    PROVE  TypeOK'
  <1>. DEFINE c == req[r].row
              n == [c EXCEPT !.status = "RECOVERY_REQUIRED"]
  <1>1. CASE Reject(r)
    BY <1>1, RejectType
  <1>2. CASE /\ SetStatus(req[r].attempt, "OUTCOME_UNKNOWN")
             /\ row' = Flush(c, n)
             /\ Return(r)
             /\ UNCHANGED <<window, target, issued, lapsed, calls, confirmedFacts>>
    <2>1. c \in ActionRow /\ n \in ActionRow
      BY SeenType DEF ActionRow, ActionStatus
    <2>2. row' \in ActionRow
      BY <1>2, <2>1, FlushType DEF TypeOK
    <2>3. attempts' \in [AttemptIds -> AttemptRow]
      BY <1>2, SetStatusType DEF ActionAttemptStatus
    <2>. QED BY <1>2, <2>2, <2>3, ReturnType DEF TypeOK
  <1>. QED BY <1>1, <1>2 DEF Reconcile

LEMMA RecoverTypes ==
    ASSUME TypeOK, NEW r \in Requests, Recover(r)
    PROVE  TypeOK'
  <1>. DEFINE c == req[r].row
              known == c.recovery \/ req[r].facts
  <1>1. PICK outcome \in {"RECOVERED", "RECOVERY_REQUIRED"}, refilled \in SUBSET {"recovery"} :
            row' = FlushFacts(c, [c EXCEPT !.status = outcome, !.recovery = known], refilled)
    BY DEF Recover
  <1>2. c \in ActionRow /\ known \in BOOLEAN
    BY SeenType
  <1>3. [c EXCEPT !.status = outcome, !.recovery = known] \in ActionRow
    BY <1>2 DEF ActionRow, ActionStatus
  <1>4. row' \in ActionRow
    BY <1>1, <1>2, <1>3, FlushFactsType DEF TypeOK
  <1>. QED BY <1>4, ReturnType DEF Recover, TypeOK

LEMMA EnvironmentTypes ==
    ASSUME TypeOK, Environment
    PROVE  TypeOK'
  <1>1. CASE CancelWindow
    BY <1>1 DEF CancelWindow, TypeOK, WindowFacts
  <1>2. CASE RenameWindowStatus
    BY <1>2, ConstantsAssumption DEF RenameWindowStatus, TypeOK, WindowFacts
  <1>3. CASE EditTarget
    BY <1>3, ConstantsAssumption DEF EditTarget, TypeOK, TargetFacts
  <1>4. CASE Lapse
    BY <1>4, ConstantsAssumption DEF Lapse, TypeOK
  <1>. QED BY <1>1, <1>2, <1>3, <1>4 DEF Environment

\* Every way a request arrives is a Load.
LEMMA ArriveIsLoad ==
    ASSUME NEW r \in Requests, Arrive(r)
    PROVE  \E o \in Operations, a \in AttemptIds \cup {None}, exec, given \in BOOLEAN :
              Load(r, o, a, exec, given)
  BY DEF Arrive, LoadPreview, LoadAuthorize, LoadConfirm, LoadExecute, LoadVerify,
         LoadRollback, LoadReconcile, LoadRecover, Operations

LEMMA ArriveTypes ==
    ASSUME TypeOK, NEW r \in Requests, Arrive(r)
    PROVE  TypeOK'
  BY ArriveIsLoad, LoadType

LEMMA AbortTypes ==
    ASSUME TypeOK, NEW r \in Requests, Abort(r)
    PROVE  TypeOK'
  BY ReturnType DEF Abort, TypeOK, dbVars

LEMMA ProceedTypes ==
    ASSUME TypeOK, NEW r \in Requests, Proceed(r)
    PROVE  TypeOK'
  BY SnapshotTypes, PreviewTypes, AuthorizeTypes, ConfirmTypes, ExecuteTypes, InvokeTypes,
     RecordExecutionTypes, VerifyTypes, RequestRetryTypes, RereadTypes, ClaimFirstTypes,
     ClaimRequestedTypes, InvokeRollbackTypes, RecordRollbackTypes, ReconcileTypes, RecoverTypes
  DEF Proceed

LEMMA NextTypes == TypeOK /\ [Next]_vars => TypeOK'
  <1>. SUFFICES ASSUME TypeOK, [Next]_vars PROVE TypeOK'
    OBVIOUS
  <1>1. CASE Environment
    BY <1>1, EnvironmentTypes
  <1>2. ASSUME NEW r \in Requests, Arrive(r) \/ Proceed(r) \/ Abort(r)
        PROVE  TypeOK'
    BY <1>2, ArriveTypes, ProceedTypes, AbortTypes
  <1>3. CASE UNCHANGED vars
    BY <1>3 DEF TypeOK, vars
  <1>. QED BY <1>1, <1>2, <1>3 DEF Next

\* Every reachable state of every instance is well typed: the rows, the
\* requests' copies of them and the facts they have seen stay in the sets
\* the schema and the status enumerations give them.
THEOREM TypeCorrect == Spec => []TypeOK
  BY InitType, NextTypes, PTL DEF Spec


----------------------------------------------------------------------------
(* AttemptsOwned is inductive.  Most steps of a request leave the attempts *)
(* alone: Quiet describes them once.  The others change one attempt.       *)

Rollbackish == {"ROLLBACK_REQUESTED", "ROLLING_BACK"}

Past == {"CLAIMED", "COMPLETED", "OUTCOME_UNKNOWN"}

\* PointsAtRollback for a given table of attempts.
Points(rw, table) ==
    /\ rw.rollback # None => table[rw.rollback].phase = "ROLLBACK"
    /\ rw.status = "ROLLING_BACK" => rw.rollback # None /\ table[rw.rollback].status \in Past

\* A rollback attempt stays one, and does not become open again.
Forward ==
    \A b \in AttemptIds : attempts[b].phase = "ROLLBACK" =>
        /\ attempts'[b].phase = "ROLLBACK"
        /\ attempts[b].status \in Past => attempts'[b].status \in Past

\* Request q holds no attempt that its row does not account for.
Harmless(q) ==
    /\ q.op = "execute" => q.step \notin {"claimed", "called"}
    /\ q.op = "rollback" =>
          /\ q.step # "called"
          /\ q.step = "loaded" /\ q.row.status \in RetrySource => q.attempt \in AttemptIds

LEMMA PointsKept ==
    ASSUME NEW rw \in ActionRow, Points(rw, attempts), Forward
    PROVE  Points(rw, attempts')
  BY DEF Points, Forward, ActionRow

LEMMA MoveValue ==
    ASSUME TypeOK, NEW r \in Requests, NEW q, Move(r, q)
    PROVE  \A s \in Requests : req'[s] = IF s = r THEN q ELSE req[s]
  BY DEF TypeOK, Move

LEMMA SetStatusValue ==
    ASSUME TypeOK, NEW a, NEW s, SetStatus(a, s)
    PROVE  \A b \in AttemptIds :
              /\ attempts'[b].phase = attempts[b].phase
              /\ b = a => attempts'[b].status = s
              /\ b # a => attempts'[b] = attempts[b]
  BY DEF TypeOK, SetStatus, AttemptRow

LEMMA InsertValue ==
    ASSUME TypeOK, NEW a, NEW p, NEW s, Insert(a, p, s)
    PROVE  \A b \in AttemptIds :
              attempts'[b] = IF b = a THEN [phase |-> p, status |-> s] ELSE attempts[b]
  BY DEF TypeOK, Insert

\* Every row of the table has a phase exactly when it has a status.
LEMMA UnusedIsNothing ==
    ASSUME NEW a \in AttemptIds, Unused(a)
    PROVE  attempts[a].phase \notin ActionAttemptPhase /\ attempts[a].status = "ABSENT"
  BY ConstantsAssumption DEF Unused, Absent

\* The rows the requests hold stay sound when attempts only move forward
\* and the moving request holds its old copy or the committed row.
LEMMA CopiesKept ==
    ASSUME TypeOK, AttemptsOwned, Forward, NEW r \in Requests, NEW q, Move(r, q),
           q.row \in ActionRow, Points(q.row, attempts')
    PROVE  \A s \in Requests : Points(req'[s].row, attempts')
  <1>1. \A s \in Requests : req[s].row \in ActionRow /\ Points(req[s].row, attempts)
    BY SeenType DEF AttemptsOwned, RowPointersSound, PointsAtRollback, Points, Past
  <1>2. \A s \in Requests : Points(req[s].row, attempts')
    BY <1>1, PointsKept
  <1>. QED BY <1>2, MoveValue

\* The step of one request that leaves every attempt alone.
Quiet(r, q) ==
    /\ Move(r, q)
    /\ q.row \in ActionRow /\ Points(q.row, attempts)
    /\ Harmless(q)
    /\ UNCHANGED <<attempts, calls, window>>
    /\ row'.execution = row.execution
    /\ row'.rollback = row.rollback
    /\ row'.status = row.status \/ row'.status \notin Rollbackish

LEMMA QuietKeeps ==
    ASSUME TypeOK, AttemptsOwned, NEW r \in Requests, NEW q, Quiet(r, q)
    PROVE  AttemptsOwned'
  <1>1. \A s \in Requests : req'[s] = IF s = r THEN q ELSE req[s]
    BY MoveValue DEF Quiet
  <1>2. AttemptRowsSound'
    BY DEF AttemptsOwned, AttemptRowsSound, Quiet
  <1>3. RowPointersSound'
    <2>1. \A s \in Requests : Points(req'[s].row, attempts')
      BY CopiesKept DEF Quiet, Forward
    <2>2. Points(row', attempts')
      BY DEF AttemptsOwned, RowPointersSound, PointsAtRollback, Points, Past, Quiet, Rollbackish
    <2>3. row'.status = "ROLLBACK_REQUESTED" =>
             row'.rollback # None /\ attempts'[row'.rollback].status = "REQUESTED"
      BY DEF AttemptsOwned, RowPointersSound, Quiet, Rollbackish
    <2>. QED BY <2>1, <2>2, <2>3 DEF RowPointersSound, PointsAtRollback, Points, Past
  <1>4. ExecutorsOwn'
    <2>1. \A s \in Requests : Executing(s)' => Executing(s) /\ req'[s] = req[s]
      BY <1>1 DEF Executing, Quiet, Harmless
    <2>. QED BY <2>1 DEF AttemptsOwned, ExecutorsOwn, Quiet
  <1>5. RollbackRequestsSound'
    BY <1>1 DEF AttemptsOwned, RollbackRequestsSound, Quiet, Harmless
  <1>6. ClosedWindowSound'
    BY DEF AttemptsOwned, ClosedWindowSound, Quiet
  <1>. QED BY <1>2, <1>3, <1>4, <1>5, <1>6 DEF AttemptsOwned

LEMMA IdleHarmless == Harmless(Idle) /\ \A table : Points(Idle.row, table) /\ Idle.row \in ActionRow
  BY CreatedType DEF Harmless, Idle, Points, CreatedRow

\* A request that ends and commits nothing but the columns of its row
\* that are not Rollbackish.
LEMMA QuietReturn ==
    ASSUME NEW r \in Requests, Return(r),
           UNCHANGED <<attempts, calls, window>>,
           row'.execution = row.execution, row'.rollback = row.rollback,
           row'.status = row.status \/ row'.status \notin Rollbackish
    PROVE  Quiet(r, Idle)
  BY IdleHarmless DEF Quiet, Return

\* A flush keeps the pointers, and writes the status of the new row or none.
LEMMA FlushKeeps ==
    ASSUME NEW c, NEW n, NEW refilled, row' = FlushFacts(c, n, refilled)
    PROVE  /\ row'.execution = row.execution /\ row'.rollback = row.rollback
           /\ row'.status = row.status \/ row'.status = n.status
  BY DEF FlushFacts, Written

LEMMA QuietReject ==
    ASSUME NEW r \in Requests, Reject(r)
    PROVE  Quiet(r, Idle)
  BY QuietReturn DEF Reject, dbVars

LEMMA QuietMarkStale ==
    ASSUME TypeOK, NEW r \in Requests, MarkStale(r)
    PROVE  Quiet(r, Idle)
  <1>. DEFINE c == req[r].row
              n == [c EXCEPT !.status = "STALE", !.authorized = FALSE,
                             !.approved = FALSE, !.confirmed = FALSE]
  <1>1. n.status = "STALE"
    BY SeenType DEF ActionRow
  <1>2. row' = FlushFacts(c, n, {})
    BY DEF MarkStale, Flush
  <1>3. row'.status = row.status \/ row'.status = "STALE"
    BY <1>1, <1>2, FlushKeeps
  <1>4. row'.execution = row.execution /\ row'.rollback = row.rollback
    BY <1>2, FlushKeeps
  <1>. QED BY <1>3, <1>4, QuietReturn DEF MarkStale, Rollbackish

\* The general case of a planning step: a status of PlainStatus is flushed.
LEMMA QuietFlush ==
    ASSUME NEW r \in Requests, NEW c, NEW n, NEW refilled,
           row' = FlushFacts(c, n, refilled), n.status \notin Rollbackish,
           Return(r), UNCHANGED <<attempts, calls, window>>
    PROVE  Quiet(r, Idle)
  BY FlushKeeps, QuietReturn

LEMMA QuietSnapshot ==
    ASSUME TypeOK, AttemptsOwned, NEW r \in Requests, Snapshot(r)
    PROVE  \E q : Quiet(r, q)
  <1>. DEFINE q == [req[r] EXCEPT !.step = "checked",
                                  !.seen = [target |-> target, lapsed |-> lapsed]]
  <1>1. q.op = req[r].op /\ q.step = "checked" /\ q.row = req[r].row
    BY DEF TypeOK, Request
  <1>2. q.row \in ActionRow /\ Points(q.row, attempts)
    BY <1>1, SeenType DEF AttemptsOwned, RowPointersSound, PointsAtRollback, Points, Past
  <1>3. Harmless(q)
    BY <1>1 DEF Harmless
  <1>4. Quiet(r, q)
    BY <1>2, <1>3 DEF Snapshot, Quiet, dbVars
  <1>. QED BY <1>4

LEMMA QuietPreview ==
    ASSUME TypeOK, NEW r \in Requests, Preview(r)
    PROVE  \E q : Quiet(r, q)
  <1>. DEFINE c == req[r].row
              n == [c EXCEPT !.status = "PREVIEWED", !.token = issued + 1,
                             !.bound = [window |-> WindowBinding, target |-> Seen(r).target],
                             !.authorized = FALSE, !.approved = FALSE,
                             !.recovery = FALSE, !.confirmed = FALSE]
  <1>1. CASE MarkStale(r)
    BY <1>1, QuietMarkStale
  <1>2. CASE row' = Flush(c, n) /\ Return(r)
             /\ UNCHANGED <<attempts, window, target, lapsed, calls, confirmedFacts>>
    <2>1. n.status \notin Rollbackish
      BY SeenType DEF ActionRow, Rollbackish
    <2>. QED BY <1>2, <2>1, QuietFlush DEF Flush
  <1>. QED BY <1>1, <1>2 DEF Preview

LEMMA QuietAuthorize ==
    ASSUME TypeOK, NEW r \in Requests, Authorize(r)
    PROVE  \E q : Quiet(r, q)
  <1>. DEFINE c == req[r].row
              n(approval, confirm) ==
                   [c EXCEPT !.status = IF confirm THEN "CONFIRMED" ELSE "AUTHORIZED",
                             !.approved = approval, !.recovery = req[r].facts,
                             !.authorized = TRUE,
                             !.confirmed = confirm \/ c.confirmed]
  <1>1. CASE MarkStale(r) \/ Reject(r)
    BY <1>1, QuietMarkStale, QuietReject
  <1>2. ASSUME NEW approval \in BOOLEAN, NEW confirm \in BOOLEAN, NEW refilled,
               row' = FlushFacts(c, n(approval, confirm), refilled),
               Return(r), UNCHANGED <<attempts, window, target, issued, lapsed, calls>>
        PROVE  \E q : Quiet(r, q)
    <2>1. n(approval, confirm).status \notin Rollbackish
      BY SeenType DEF ActionRow, Rollbackish
    <2>. QED BY <1>2, <2>1, QuietFlush
  <1>. QED BY <1>1, <1>2 DEF Authorize

LEMMA QuietConfirm ==
    ASSUME TypeOK, NEW r \in Requests, Confirm(r)
    PROVE  \E q : Quiet(r, q)
  <1>. DEFINE c == req[r].row
              n == [c EXCEPT !.status = "CONFIRMED", !.authorized = TRUE, !.confirmed = TRUE]
  <1>1. CASE MarkStale(r) \/ Reject(r)
    BY <1>1, QuietMarkStale, QuietReject
  <1>2. ASSUME NEW refilled, row' = FlushFacts(c, n, refilled),
               Return(r), UNCHANGED <<attempts, window, target, issued, lapsed, calls>>
        PROVE  \E q : Quiet(r, q)
    <2>1. n.status \notin Rollbackish
      BY SeenType DEF ActionRow, Rollbackish
    <2>. QED BY <1>2, <2>1, QuietFlush
  <1>. QED BY <1>1, <1>2 DEF Confirm

LEMMA QuietVerify ==
    ASSUME TypeOK, NEW r \in Requests, Verify(r)
    PROVE  \E q : Quiet(r, q)
  <1>1. PICK outcome \in {"VERIFIED", "VERIFICATION_FAILED"} :
            row' = FlushFacts(req[r].row, [req[r].row EXCEPT !.status = outcome], {})
    BY DEF Verify, Flush
  <1>2. [req[r].row EXCEPT !.status = outcome].status \notin Rollbackish
    BY SeenType DEF ActionRow, Rollbackish
  <1>. QED BY <1>1, <1>2, QuietFlush DEF Verify

LEMMA QuietRecover ==
    ASSUME TypeOK, NEW r \in Requests, Recover(r)
    PROVE  \E q : Quiet(r, q)
  <1>. DEFINE c == req[r].row
              known == c.recovery \/ req[r].facts
  <1>1. PICK outcome \in {"RECOVERED", "RECOVERY_REQUIRED"}, refilled \in SUBSET {"recovery"} :
            row' = FlushFacts(c, [c EXCEPT !.status = outcome, !.recovery = known], refilled)
    BY DEF Recover
  <1>2. [c EXCEPT !.status = outcome, !.recovery = known].status \notin Rollbackish
    BY SeenType DEF ActionRow, Rollbackish
  <1>. QED BY <1>1, <1>2, QuietFlush DEF Recover

LEMMA QuietAbort ==
    ASSUME NEW r \in Requests, Abort(r)
    PROVE  Quiet(r, Idle)
  BY QuietReturn DEF Abort, dbVars

\* The committed row can be copied: AttemptsOwned makes it sound.
LEMMA RowIsSound ==
    ASSUME TypeOK, AttemptsOwned
    PROVE  row \in ActionRow /\ Points(row, attempts)
  BY DEF TypeOK, AttemptsOwned, RowPointersSound, PointsAtRollback, Points, Past

LEMMA QuietLoad ==
    ASSUME TypeOK, AttemptsOwned, NEW r \in Requests, NEW o, NEW a, NEW exec, NEW given,
           Load(r, o, a, exec, given),
           o = "rollback" /\ row.status \in RetrySource => a \in AttemptIds
    PROVE  \E q : Quiet(r, q)
  <1>. DEFINE q == [Idle EXCEPT !.op = o, !.step = "loaded", !.row = row,
                                !.attempt = a, !.execute = exec, !.facts = given]
  <1>1. q.op = o /\ q.step = "loaded" /\ q.row = row /\ q.attempt = a
    BY DEF Idle
  <1>2. Harmless(q)
    BY <1>1 DEF Harmless
  <1>3. Quiet(r, q)
    BY <1>1, <1>2, RowIsSound DEF Load, Quiet, dbVars
  <1>. QED BY <1>3

LEMMA QuietArrive ==
    ASSUME TypeOK, AttemptsOwned, NEW r \in Requests, Arrive(r)
    PROVE  \E q : Quiet(r, q)
  <1>1. CASE LoadRollback(r)
    <2>1. PICK a \in AttemptIds \cup {None}, exec, given \in BOOLEAN :
              /\ row.status \in RetrySource => a # None /\ a # row.rollback
              /\ Load(r, "rollback", a, exec, given)
      BY <1>1 DEF LoadRollback
    <2>. QED BY <2>1, QuietLoad
  <1>2. CASE ~LoadRollback(r)
    <2>1. \E o \in Operations \ {"rollback"}, a \in AttemptIds \cup {None}, exec, given \in BOOLEAN :
              Load(r, o, a, exec, given)
      BY <1>2 DEF Arrive, LoadPreview, LoadAuthorize, LoadConfirm, LoadExecute, LoadVerify,
                  LoadReconcile, LoadRecover, Operations
    <2>. QED BY <2>1, QuietLoad
  <1>. QED BY <1>1, <1>2

LEMMA QuietReread ==
    ASSUME TypeOK, AttemptsOwned, NEW r \in Requests, Reread(r) \/ Refresh(r)
    PROVE  \E q : Quiet(r, q)
  <1>. DEFINE q1 == [req[r] EXCEPT !.step = "stage2", !.row = row]
              q2 == [req[r] EXCEPT !.row = row,
                                   !.step = CASE @ = "refresh2" -> "stage2"
                                              [] @ = "refresh3" -> "stage3"
                                              [] OTHER -> "stage4"]
  <1>1. q1.row = row /\ q2.row = row /\ q1.op = req[r].op /\ q2.op = req[r].op
    BY DEF TypeOK, Request
  <1>2. q1.step \in {"stage2", "stage3", "stage4"} /\ q2.step \in {"stage2", "stage3", "stage4"}
    BY DEF TypeOK, Request
  <1>3. CASE Reread(r) /\ Move(r, q1)
    <2>1. Harmless(q1)
      BY <1>1, <1>2 DEF Harmless
    <2>. QED BY <1>1, <1>3, <2>1, RowIsSound DEF Reread, Quiet, dbVars
  <1>4. CASE Reread(r) /\ Return(r)
    BY <1>4, QuietReturn DEF Reread, dbVars
  <1>5. CASE Refresh(r)
    <2>1. Harmless(q2)
      BY <1>1, <1>2 DEF Harmless
    <2>2. Quiet(r, q2)
      BY <1>1, <1>5, <2>1, RowIsSound DEF Refresh, Quiet, dbVars
    <2>. QED BY <2>2
  <1>. QED BY <1>3, <1>4, <1>5 DEF Reread, Return

----------------------------------------------------------------------------
(* The steps that change an attempt. *)

\* An execution claim: won while the row points at no execution, so no
\* other attempt executes; the window is active.
LEMMA ExecuteOwned ==
    ASSUME TypeOK, AttemptsOwned, NEW r \in Requests, Execute(r)
    PROVE  AttemptsOwned'
  <1>1. CASE MarkStale(r) \/ Reject(r)
    BY <1>1, QuietMarkStale, QuietReject, QuietKeeps
  <1>2. ASSUME NEW a \in AttemptIds, Unused(a), WindowUsable, row.execution = None,
               row' = [row EXCEPT !.status = "EXECUTING", !.execution = a],
               Insert(a, "EXECUTION", "CLAIMED"), req[r].op = "execute",
               Move(r, [req[r] EXCEPT !.step = "claimed", !.attempt = a]),
               UNCHANGED <<window, target, issued, lapsed, calls, confirmedFacts>>
        PROVE  AttemptsOwned'
    <2>. DEFINE q == [req[r] EXCEPT !.step = "claimed", !.attempt = a]
    <2>1. /\ q.op = "execute" /\ q.step = "claimed" /\ q.attempt = a
          /\ q.row = req[r].row /\ q.row \in ActionRow /\ Points(q.row, attempts)
      BY <1>2, SeenType
      DEF TypeOK, Request, AttemptsOwned, RowPointersSound, PointsAtRollback, Points, Past
    <2>2. \A s \in Requests : req'[s] = IF s = r THEN q ELSE req[s]
      BY <1>2, MoveValue
    <2>3. \A b \in AttemptIds :
             attempts'[b] = IF b = a THEN [phase |-> "EXECUTION", status |-> "CLAIMED"]
                                     ELSE attempts[b]
      BY <1>2, InsertValue
    <2>4. /\ attempts[a].phase \notin ActionAttemptPhase
          /\ row'.execution = a /\ row'.status = "EXECUTING" /\ row'.rollback = row.rollback
      BY <1>2, UnusedIsNothing DEF TypeOK, ActionRow
    <2>5. \A b \in AttemptIds : attempts[b].phase # "EXECUTION"
      BY <1>2, ConstantsAssumption DEF AttemptsOwned, AttemptRowsSound, Absent, ActionAttemptPhase
    <2>6. Forward
      BY <2>3, <2>4 DEF Forward, ActionAttemptPhase
    <2>7. calls[a] = 0
      BY <2>4 DEF AttemptsOwned, AttemptRowsSound, ActionAttemptPhase
    <2>8. AttemptRowsSound'
      BY <1>2, <2>3, <2>4, <2>5, <2>7, ConstantsAssumption
      DEF AttemptsOwned, AttemptRowsSound, Absent, ActionAttemptPhase
    <2>9. RowPointersSound'
      <3>1. \A s \in Requests : Points(req'[s].row, attempts')
        BY <1>2, <2>1, <2>6, PointsKept, CopiesKept
      <3>2. Points(row, attempts')
        BY <2>6, RowIsSound, PointsKept
      <3>. QED BY <2>4, <3>1, <3>2 DEF RowPointersSound, PointsAtRollback, Points, Past
    <2>10. ExecutorsOwn'
      <3>1. \A s \in Requests : ~Executing(s)
        BY <1>2, ConstantsAssumption DEF AttemptsOwned, ExecutorsOwn
      <3>2. \A s \in Requests : Executing(s)' => s = r
        BY <2>2, <3>1 DEF Executing
      <3>3. req'[r].attempt = a /\ calls'[a] = 0
        BY <1>2, <2>1, <2>2, <2>7
      <3>4. attempts'[a].phase = "EXECUTION" /\ attempts'[a].status = "CLAIMED"
        BY <2>3
      <3>. QED BY <2>4, <3>2, <3>3, <3>4 DEF ExecutorsOwn
    <2>11. RollbackRequestsSound'
      <3>1. \A s \in Requests : req'[s].op = "rollback" => req'[s] = req[s]
        BY <2>1, <2>2
      <3>2. \A b \in AttemptIds : attempts[b].phase = "ROLLBACK" => attempts'[b] = attempts[b]
        BY <2>3, <2>4 DEF ActionAttemptPhase
      <3>. QED BY <3>1, <3>2 DEF AttemptsOwned, RollbackRequestsSound
    <2>12. ClosedWindowSound'
      BY <1>2 DEF AttemptsOwned, ClosedWindowSound, WindowUsable
    <2>. QED BY <2>8, <2>9, <2>10, <2>11, <2>12 DEF AttemptsOwned
  <1>. QED BY <1>1, <1>2 DEF Execute, Fresh, Claimable, Checking

\* The adapter call: only the owner makes it, once.
LEMMA InvokeOwned ==
    ASSUME TypeOK, AttemptsOwned, NEW r \in Requests, Invoke(r)
    PROVE  AttemptsOwned'
  <1>. DEFINE a == req[r].attempt
              q == [req[r] EXCEPT !.step = "called", !.row = row]
  <1>1. q.op = "execute" /\ q.step = "called" /\ q.attempt = a /\ q.row = row
    BY DEF Invoke, TypeOK, Request
  <1>2. \A s \in Requests : req'[s] = IF s = r THEN q ELSE req[s]
    BY MoveValue DEF Invoke
  <1>3. /\ a \in AttemptIds /\ row.execution = a
        /\ attempts[a].phase = "EXECUTION" /\ calls[a] = 0
    BY DEF AttemptsOwned, ExecutorsOwn, Executing, Invoke
  <1>4. calls'[a] = 1 /\ \A b \in AttemptIds : b # a => calls'[b] = calls[b]
    BY <1>3 DEF Invoke, TypeOK
  <1>5. row' = row /\ attempts' = attempts /\ window' = window
    BY DEF Invoke, dbVars
  <1>6. AttemptRowsSound'
    BY <1>3, <1>4, <1>5, ConstantsAssumption
    DEF AttemptsOwned, AttemptRowsSound, Absent, ActionAttemptPhase
  <1>7. RowPointersSound'
    <2>1. \A s \in Requests : Points(req'[s].row, attempts')
      BY <1>1, <1>5, RowIsSound, CopiesKept DEF Forward, Invoke
    <2>. QED BY <1>5, <2>1 DEF AttemptsOwned, RowPointersSound, PointsAtRollback, Points, Past
  <1>8. ExecutorsOwn'
    <2>1. Executing(r) /\ \A s \in Requests : Executing(s)' => Executing(s)
      BY <1>2 DEF Executing, Invoke
    <2>2. \A s \in Requests : Executing(s)' => s = r
      BY <2>1 DEF AttemptsOwned, ExecutorsOwn
    <2>3. attempts[a].status \in {"CLAIMED", "OUTCOME_UNKNOWN"}
      BY <2>1 DEF AttemptsOwned, ExecutorsOwn
    <2>4. req'[r].attempt = a /\ req'[r].step = "called"
      BY <1>1, <1>2
    <2>. QED BY <1>3, <1>5, <2>2, <2>3, <2>4 DEF ExecutorsOwn
  <1>9. RollbackRequestsSound'
    <2>1. \A s \in Requests : req'[s].op = "rollback" => req'[s] = req[s]
      BY <1>1, <1>2
    <2>. QED BY <1>5, <2>1 DEF AttemptsOwned, RollbackRequestsSound
  <1>10. ClosedWindowSound'
    BY <1>5 DEF AttemptsOwned, ClosedWindowSound
  <1>. QED BY <1>6, <1>7, <1>8, <1>9, <1>10 DEF AttemptsOwned

\* A step of a rollback: the attempts it changes are rollback attempts,
\* before (unless unused) and after.
LEMMA RollbackKeeps ==
    ASSUME TypeOK, AttemptsOwned, NEW r \in Requests, NEW q, Move(r, q),
           q.row \in ActionRow, Points(q.row, attempts'), Harmless(q), Forward,
           \A b \in AttemptIds :
              \/ attempts'[b] = attempts[b]
              \/ /\ attempts[b].phase # "EXECUTION"
                 /\ attempts'[b].phase = "ROLLBACK"
                 /\ attempts'[b].status # "ABSENT",
           UNCHANGED <<calls, window>>, row'.execution = row.execution,
           Points(row', attempts'),
           row'.status = "ROLLBACK_REQUESTED" =>
              row'.rollback # None /\ attempts'[row'.rollback].status = "REQUESTED"
    PROVE  AttemptsOwned'
  <1>1. \A s \in Requests : req'[s] = IF s = r THEN q ELSE req[s]
    BY MoveValue
  <1>2. AttemptRowsSound'
    BY DEF AttemptsOwned, AttemptRowsSound
  <1>3. RowPointersSound'
    <2>1. \A s \in Requests : Points(req'[s].row, attempts')
      BY CopiesKept
    <2>. QED BY <2>1 DEF RowPointersSound, PointsAtRollback, Points, Past
  <1>4. ExecutorsOwn'
    <2>1. \A s \in Requests : Executing(s)' => Executing(s) /\ req'[s] = req[s]
      BY <1>1 DEF Executing, Harmless
    <2>2. \A b \in AttemptIds : attempts[b].phase = "EXECUTION" => attempts'[b] = attempts[b]
      OBVIOUS
    <2>. QED BY <2>1, <2>2 DEF AttemptsOwned, ExecutorsOwn
  <1>5. RollbackRequestsSound'
    <2>1. /\ Harmless(req'[r])
          /\ \A s \in Requests : s # r => req'[s] = req[s]
      BY <1>1
    <2>. QED BY <2>1 DEF AttemptsOwned, RollbackRequestsSound, Forward, Harmless, Past
  <1>6. ClosedWindowSound'
    BY DEF AttemptsOwned, ClosedWindowSound
  <1>. QED BY <1>2, <1>3, <1>4, <1>5, <1>6 DEF AttemptsOwned

\* A request's own copy of the row.
LEMMA CopyIsSound ==
    ASSUME TypeOK, AttemptsOwned, NEW r \in Requests
    PROVE  req[r].row \in ActionRow /\ Points(req[r].row, attempts)
  BY SeenType DEF AttemptsOwned, RowPointersSound, PointsAtRollback, Points, Past

\* An attempt is inserted for a rollback: by RequestRetry or ClaimFirst.
LEMMA InsertRollback ==
    ASSUME TypeOK, AttemptsOwned, NEW r \in Requests, NEW q, Move(r, q),
           q.row = req[r].row \/ q = Idle, Harmless(q),
           NEW a \in AttemptIds, Unused(a), NEW recovery, NEW exec \in BOOLEAN,
           row' = [row EXCEPT !.status = IF exec THEN "ROLLING_BACK" ELSE "ROLLBACK_REQUESTED",
                              !.rollback = a, !.recovery = recovery],
           Insert(a, "ROLLBACK", IF exec THEN "CLAIMED" ELSE "REQUESTED"),
           UNCHANGED <<calls, window>>
    PROVE  AttemptsOwned'
  <1>1. \A b \in AttemptIds :
           attempts'[b] = IF b = a THEN [phase |-> "ROLLBACK",
                                         status |-> IF exec THEN "CLAIMED" ELSE "REQUESTED"]
                                   ELSE attempts[b]
    BY InsertValue
  <1>2. /\ row'.status = IF exec THEN "ROLLING_BACK" ELSE "ROLLBACK_REQUESTED"
        /\ row'.rollback = a /\ row'.execution = row.execution
    BY DEF TypeOK, ActionRow
  <1>3. attempts[a].phase \notin ActionAttemptPhase
    BY UnusedIsNothing
  <1>4. Forward
    BY <1>1, <1>3 DEF Forward, ActionAttemptPhase
  <1>5. q.row \in ActionRow /\ Points(q.row, attempts')
    BY <1>4, PointsKept, CopyIsSound, IdleHarmless
  <1>6. /\ Points(row', attempts')
        /\ row'.status = "ROLLBACK_REQUESTED" =>
              row'.rollback # None /\ attempts'[row'.rollback].status = "REQUESTED"
    BY <1>1, <1>2, ConstantsAssumption DEF Points, Past
  <1>7. \A b \in AttemptIds :
              \/ attempts'[b] = attempts[b]
              \/ /\ attempts[b].phase # "EXECUTION"
                 /\ attempts'[b].phase = "ROLLBACK"
                 /\ attempts'[b].status # "ABSENT"
    BY <1>1, <1>3 DEF ActionAttemptPhase
  <1>. QED BY <1>2, <1>4, <1>5, <1>6, <1>7, RollbackKeeps

LEMMA RequestRetryOwned ==
    ASSUME TypeOK, AttemptsOwned, NEW r \in Requests, RequestRetry(r)
    PROVE  AttemptsOwned'
  <1>. DEFINE a == req[r].attempt
              q == IF req[r].execute THEN [req[r] EXCEPT !.step = "refresh2", !.held = TRUE] ELSE Idle
              p == [req[r] EXCEPT !.step = "reread"]
  <1>1. CASE Reject(r)
    BY <1>1, QuietReject, QuietKeeps
  <1>2. ASSUME Unused(a), NEW recovery \in WithFacts(r),
               row' = [row EXCEPT !.status = "ROLLBACK_REQUESTED", !.rollback = a,
                                  !.recovery = recovery],
               Insert(a, "ROLLBACK", "REQUESTED"), Move(r, q),
               UNCHANGED <<window, target, issued, lapsed, calls, confirmedFacts>>
        PROVE  AttemptsOwned'
    <2>1. a \in AttemptIds
      BY DEF RequestRetry, InRollback, AttemptsOwned, RollbackRequestsSound
    <2>2. Harmless(q) /\ (q.row = req[r].row \/ q = Idle)
      <3>1. CASE req[r].execute
        <4>1. q.op = req[r].op /\ q.step = "refresh2" /\ q.row = req[r].row
          BY <3>1 DEF TypeOK, Request
        <4>. QED BY <4>1 DEF Harmless
      <3>2. CASE ~req[r].execute
        BY <3>2, IdleHarmless
      <3>. QED BY <3>1, <3>2
    <2>3. FALSE \in BOOLEAN
      OBVIOUS
    <2>. HIDE DEF q
    <2>. QED BY <1>2, <2>1, <2>2, <2>3, InsertRollback
  <1>3. CASE Move(r, p) /\ UNCHANGED <<dbVars, calls, confirmedFacts>>
    <2>1. p.op = req[r].op /\ p.step = "reread" /\ p.row = req[r].row
      BY DEF TypeOK, Request
    <2>2. Harmless(p)
      BY <2>1 DEF Harmless
    <2>3. Quiet(r, p)
      BY <1>3, <2>1, <2>2, CopyIsSound DEF Quiet, dbVars
    <2>. QED BY <2>3, QuietKeeps
  <1>. QED BY <1>1, <1>2, <1>3 DEF RequestRetry

LEMMA ClaimFirstOwned ==
    ASSUME TypeOK, AttemptsOwned, NEW r \in Requests, ClaimFirst(r)
    PROVE  AttemptsOwned'
  <1>1. CASE Reject(r)
    BY <1>1, QuietReject, QuietKeeps
  <1>2. ASSUME NEW a \in AttemptIds \cup {None}, req[r].attempt = None \/ a = req[r].attempt,
               req[r].attempt = None => a \in AttemptIds, Unused(a), NEW recovery \in WithFacts(r),
               row' = [row EXCEPT !.status = IF req[r].execute THEN "ROLLING_BACK"
                                                               ELSE "ROLLBACK_REQUESTED",
                                  !.rollback = a, !.recovery = recovery],
               Insert(a, "ROLLBACK", IF req[r].execute THEN "CLAIMED" ELSE "REQUESTED"),
               Move(r, IF req[r].execute
                       THEN [req[r] EXCEPT !.step = "refresh3", !.attempt = a, !.held = TRUE]
                       ELSE Idle),
               UNCHANGED <<window, target, issued, lapsed, calls, confirmedFacts>>
        PROVE  AttemptsOwned'
    <2>. DEFINE q == IF req[r].execute
                     THEN [req[r] EXCEPT !.step = "refresh3", !.attempt = a, !.held = TRUE]
                     ELSE Idle
    <2>1. a \in AttemptIds
      BY <1>2
    <2>2. Harmless(q) /\ (q.row = req[r].row \/ q = Idle)
      <3>1. CASE req[r].execute
        <4>1. q.op = req[r].op /\ q.step = "refresh3" /\ q.row = req[r].row
          BY <3>1 DEF TypeOK, Request
        <4>. QED BY <4>1 DEF Harmless
      <3>2. CASE ~req[r].execute
        BY <3>2, IdleHarmless
      <3>. QED BY <3>1, <3>2
    <2>3. req[r].execute \in BOOLEAN /\ Move(r, q)
      BY <1>2 DEF TypeOK, Request
    <2>. HIDE DEF q
    <2>. QED BY <1>2, <2>1, <2>2, <2>3, InsertRollback
  <1>3. req[r].attempt \in AttemptIds \cup {None}
    BY DEF TypeOK, Request
  <1>. QED BY <1>1, <1>2, <1>3 DEF ClaimFirst

\* The claim of a requested attempt: the row points at it.
LEMMA ClaimRequestedOwned ==
    ASSUME TypeOK, AttemptsOwned, NEW r \in Requests, ClaimRequested(r)
    PROVE  AttemptsOwned'
  <1>1. CASE Reject(r)
    BY <1>1, QuietReject, QuietKeeps
  <1>2. ASSUME NEW a, a = req[r].row.rollback, Requested(a), NEW recovery \in WithFacts(r),
               row' = [row EXCEPT !.status = "ROLLING_BACK", !.recovery = recovery],
               SetStatus(a, "CLAIMED"),
               Move(r, [req[r] EXCEPT !.step = "refresh4", !.attempt = a, !.held = TRUE]),
               UNCHANGED <<window, target, issued, lapsed, calls, confirmedFacts>>
        PROVE  AttemptsOwned'
    <2>. DEFINE q == [req[r] EXCEPT !.step = "refresh4", !.attempt = a, !.held = TRUE]
    <2>1. a \in AttemptIds /\ attempts[a].phase = "ROLLBACK"
      BY <1>2 DEF Requested, TypeOK, ActionRow, AttemptsOwned, RowPointersSound, PointsAtRollback
    <2>2. \A b \in AttemptIds :
             /\ attempts'[b].phase = attempts[b].phase
             /\ b = a => attempts'[b].status = "CLAIMED"
             /\ b # a => attempts'[b] = attempts[b]
      BY <1>2, SetStatusValue
    <2>3. Forward
      BY <2>2 DEF Forward, Past
    <2>4. q.op = req[r].op /\ q.step = "refresh4" /\ q.row = req[r].row
      BY DEF TypeOK, Request
    <2>5. Harmless(q) /\ q.row \in ActionRow /\ Points(q.row, attempts')
      BY <2>3, <2>4, PointsKept, CopyIsSound DEF Harmless
    <2>6. row'.status = "ROLLING_BACK" /\ row'.rollback = a /\ row'.execution = row.execution
      BY <1>2 DEF TypeOK, ActionRow, Requested
    <2>7. Points(row', attempts')
      BY <2>1, <2>2, <2>6, ConstantsAssumption DEF Points, Past
    <2>8. \A b \in AttemptIds :
              \/ attempts'[b] = attempts[b]
              \/ /\ attempts[b].phase # "EXECUTION"
                 /\ attempts'[b].phase = "ROLLBACK"
                 /\ attempts'[b].status # "ABSENT"
      BY <2>1, <2>2
    <2>. HIDE DEF q
    <2>. QED BY <1>2, <2>3, <2>5, <2>6, <2>7, <2>8, RollbackKeeps DEF q
  <1>. QED BY <1>1, <1>2 DEF ClaimRequested

\* The rollback adapter is called for a claimed rollback attempt.
LEMMA InvokeRollbackOwned ==
    ASSUME TypeOK, AttemptsOwned, NEW r \in Requests, InvokeRollback(r)
    PROVE  AttemptsOwned'
  <1>. DEFINE a == req[r].row.rollback
              q == [req[r] EXCEPT !.step = "called", !.attempt = a]
  <1>1. CASE Reject(r)
    BY <1>1, QuietReject, QuietKeeps
  <1>2. CASE /\ req[r].row.status = "ROLLING_BACK"
             /\ req[r].op = "rollback"
             /\ calls' = [calls EXCEPT ![a] = @ + 1]
             /\ Move(r, q)
             /\ UNCHANGED <<dbVars, confirmedFacts>>
    <2>1. a \in AttemptIds /\ attempts[a].phase = "ROLLBACK" /\ attempts[a].status \in Past
      BY <1>2, CopyIsSound DEF Points, ActionRow
    <2>2. q.op = "rollback" /\ q.step = "called" /\ q.attempt = a /\ q.row = req[r].row
      BY <1>2 DEF TypeOK, Request
    <2>3. \A s \in Requests : req'[s] = IF s = r THEN q ELSE req[s]
      BY <1>2, MoveValue
    <2>4. \A b \in AttemptIds : b # a => calls'[b] = calls[b]
      BY <1>2 DEF TypeOK
    <2>5. row' = row /\ attempts' = attempts /\ window' = window
      BY <1>2 DEF dbVars
    <2>. HIDE DEF q, a
    <2>6. AttemptRowsSound'
      BY <2>1, <2>4, <2>5 DEF AttemptsOwned, AttemptRowsSound, Past
    <2>7. RowPointersSound'
      <3>1. \A s \in Requests : req'[s].row = req[s].row
        BY <2>2, <2>3
      <3>. QED BY <2>5, <3>1 DEF AttemptsOwned, RowPointersSound, PointsAtRollback
    <2>8. ExecutorsOwn'
      <3>1. \A s \in Requests : Executing(s)' => Executing(s) /\ req'[s] = req[s]
        BY <2>2, <2>3 DEF Executing
      <3>2. \A s \in Requests : Executing(s) => req[s].attempt # a
        BY <2>1 DEF AttemptsOwned, ExecutorsOwn
      <3>. QED BY <2>4, <2>5, <3>1, <3>2 DEF AttemptsOwned, ExecutorsOwn
    <2>9. RollbackRequestsSound'
      <3>1. req'[r].step = "called" /\ req'[r].attempt = a
        BY <2>2, <2>3
      <3>2. \A s \in Requests : s # r => req'[s] = req[s]
        BY <2>3
      <3>. QED BY <2>1, <2>5, <3>1, <3>2 DEF AttemptsOwned, RollbackRequestsSound, Past
    <2>10. ClosedWindowSound'
      BY <2>5 DEF AttemptsOwned, ClosedWindowSound
    <2>. QED BY <2>6, <2>7, <2>8, <2>9, <2>10 DEF AttemptsOwned
  <1>. QED BY <1>1, <1>2 DEF InvokeRollback, InRollback

\* A request that ends records a status that is not Rollbackish, and sets
\* the status of an attempt that is claimed, completed or in doubt.
LEMMA SettleKeeps ==
    ASSUME TypeOK, AttemptsOwned, NEW r \in Requests, Return(r),
           NEW a, NEW new \in {"COMPLETED", "OUTCOME_UNKNOWN"}, SetStatus(a, new),
           a \in AttemptIds => attempts[a].status \in Past,
           a \in AttemptIds /\ attempts[a].phase = "EXECUTION" =>
              \/ new = "OUTCOME_UNKNOWN" /\ attempts[a].status = "CLAIMED"
              \/ new = "COMPLETED" /\ Executing(r) /\ req[r].attempt = a,
           UNCHANGED <<calls, window>>,
           row'.execution = row.execution, row'.rollback = row.rollback,
           row'.status = row.status \/ row'.status \notin Rollbackish
    PROVE  AttemptsOwned'
  <1>1. \A b \in AttemptIds :
           /\ attempts'[b].phase = attempts[b].phase
           /\ b = a => attempts'[b].status = new
           /\ b # a => attempts'[b] = attempts[b]
    BY SetStatusValue
  <1>2. \A s \in Requests : req'[s] = IF s = r THEN Idle ELSE req[s]
    BY MoveValue DEF Return
  <1>3. Forward
    BY <1>1 DEF Forward, Past
  <1>4. AttemptRowsSound'
    BY <1>1, ConstantsAssumption DEF AttemptsOwned, AttemptRowsSound, Past, Absent, ActionAttemptPhase
  <1>5. RowPointersSound'
    <2>1. \A s \in Requests : Points(req'[s].row, attempts')
      BY <1>3, IdleHarmless, CopiesKept DEF Return
    <2>2. Points(row, attempts')
      BY <1>3, RowIsSound, PointsKept
    <2>3. Points(row', attempts')
      BY <2>2 DEF Points, Rollbackish
    <2>4. row'.status = "ROLLBACK_REQUESTED" =>
             row'.rollback # None /\ attempts'[row'.rollback].status = "REQUESTED"
      <3>1. row'.status = "ROLLBACK_REQUESTED" =>
               /\ row.rollback # None /\ row.rollback \in AttemptIds
               /\ attempts[row.rollback].status = "REQUESTED"
        BY DEF AttemptsOwned, RowPointersSound, Rollbackish, TypeOK, ActionRow
      <3>. QED BY <1>1, <3>1 DEF Past
    <2>. QED BY <2>1, <2>3, <2>4 DEF RowPointersSound, PointsAtRollback, Points, Past
  <1>6. ExecutorsOwn'
    <2>1. \A s \in Requests : Executing(s)' => s # r /\ Executing(s) /\ req'[s] = req[s]
      BY <1>2 DEF Executing, Idle
    <2>2. \A s \in Requests : Executing(s)' =>
             \/ req[s].attempt # a
             \/ new = "OUTCOME_UNKNOWN"
      BY <2>1 DEF AttemptsOwned, ExecutorsOwn
    <2>. QED BY <1>1, <2>1, <2>2 DEF AttemptsOwned, ExecutorsOwn
  <1>7. RollbackRequestsSound'
    <2>1. \A s \in Requests : req'[s].op = "rollback" => req'[s] = req[s]
      BY <1>2 DEF Idle
    <2>. QED BY <1>3, <2>1 DEF AttemptsOwned, RollbackRequestsSound, Forward, Past
  <1>8. ClosedWindowSound'
    BY <1>1 DEF AttemptsOwned, ClosedWindowSound
  <1>. QED BY <1>4, <1>5, <1>6, <1>7, <1>8 DEF AttemptsOwned

LEMMA RecordExecutionOwned ==
    ASSUME TypeOK, AttemptsOwned, NEW r \in Requests, RecordExecution(r)
    PROVE  AttemptsOwned'
  <1>. DEFINE c == req[r].row
              a == req[r].attempt
  <1>1. CASE Reject(r)
    BY <1>1, QuietReject, QuietKeeps
  <1>2. ASSUME NEW outcome \in ExecutionOutcome,
               row' = Flush(c, [c EXCEPT !.status = outcome]),
               SetStatus(a, "COMPLETED"), Return(r),
               UNCHANGED <<window, target, issued, lapsed, calls, confirmedFacts>>
        PROVE  AttemptsOwned'
    <2>1. Executing(r) /\ a \in AttemptIds /\ attempts[a].status \in Past
      BY DEF RecordExecution, Executing, AttemptsOwned, ExecutorsOwn, Past
    <2>2. [c EXCEPT !.status = outcome].status = outcome
      BY SeenType DEF ActionRow
    <2>3. outcome \notin Rollbackish
      BY DEF ExecutionOutcome, Rollbackish
    <2>4. /\ row'.execution = row.execution /\ row'.rollback = row.rollback
          /\ row'.status = row.status \/ row'.status \notin Rollbackish
      BY <1>2, <2>2, <2>3, FlushKeeps DEF Flush
    <2>. QED BY <1>2, <2>1, <2>4, SettleKeeps
  <1>. QED BY <1>1, <1>2 DEF RecordExecution

LEMMA RecordRollbackOwned ==
    ASSUME TypeOK, AttemptsOwned, NEW r \in Requests, RecordRollback(r)
    PROVE  AttemptsOwned'
  <1>. DEFINE c == req[r].row
              a == req[r].attempt
  <1>1. PICK outcome \in {"ROLLED_BACK", "ROLLBACK_FAILED"} :
            row' = Flush(c, [c EXCEPT !.status = outcome])
    BY DEF RecordRollback
  <1>2. a \in AttemptIds /\ attempts[a].phase = "ROLLBACK" /\ attempts[a].status \in Past
    BY DEF RecordRollback, InRollback, AttemptsOwned, RollbackRequestsSound, Past
  <1>3. [c EXCEPT !.status = outcome].status = outcome /\ outcome \notin Rollbackish
    BY SeenType DEF ActionRow, Rollbackish
  <1>4. /\ row'.execution = row.execution /\ row'.rollback = row.rollback
        /\ row'.status = row.status \/ row'.status \notin Rollbackish
    BY <1>1, <1>3, FlushKeeps DEF Flush
  <1>. QED BY <1>2, <1>4, SettleKeeps DEF RecordRollback

LEMMA ReconcileOwned ==
    ASSUME TypeOK, AttemptsOwned, NEW r \in Requests, Reconcile(r)
    PROVE  AttemptsOwned'
  <1>. DEFINE c == req[r].row
              n == [c EXCEPT !.status = "RECOVERY_REQUIRED"]
              a == req[r].attempt
  <1>1. CASE Reject(r)
    BY <1>1, QuietReject, QuietKeeps
  <1>2. CASE /\ attempts[a].status = "CLAIMED"
             /\ SetStatus(a, "OUTCOME_UNKNOWN")
             /\ row' = Flush(c, n)
             /\ Return(r)
             /\ UNCHANGED <<window, target, issued, lapsed, calls, confirmedFacts>>
    <2>1. n.status = "RECOVERY_REQUIRED" /\ n.status \notin Rollbackish
      BY SeenType DEF ActionRow, Rollbackish
    <2>2. /\ row'.execution = row.execution /\ row'.rollback = row.rollback
          /\ row'.status = row.status \/ row'.status \notin Rollbackish
      BY <1>2, <2>1, FlushKeeps DEF Flush
    <2>3. attempts[a].status \in Past
      BY <1>2 DEF Past
    <2>. QED BY <1>2, <2>2, <2>3, SettleKeeps
  <1>. QED BY <1>1, <1>2 DEF Reconcile

\* Cancelling the window, and the other steps no request takes.
LEMMA EnvironmentOwned ==
    ASSUME TypeOK, AttemptsOwned, Environment \/ UNCHANGED vars
    PROVE  AttemptsOwned'
  <1>1. UNCHANGED <<row, attempts, req, calls>>
    BY DEF Environment, CancelWindow, RenameWindowStatus, EditTarget, Lapse, vars
  <1>2. AttemptRowsSound' /\ RowPointersSound' /\ ExecutorsOwn' /\ RollbackRequestsSound'
    BY <1>1 DEF AttemptsOwned, AttemptRowsSound, RowPointersSound, PointsAtRollback,
                ExecutorsOwn, Executing, RollbackRequestsSound
  <1>3. ClosedWindowSound'
    <2>1. CASE CancelWindow
      <3>1. \A a \in AttemptIds : attempts[a].phase = "EXECUTION" => attempts[a].status = "COMPLETED"
        BY <2>1, ConstantsAssumption
        DEF CancelWindow, Unresolved, AttemptsOwned, AttemptRowsSound, Absent, ActionAttemptPhase
      <3>. QED BY <1>1, <2>1, <3>1 DEF ClosedWindowSound, CancelWindow
    <2>2. CASE ~CancelWindow
      <3>1. window'.state = window.state
        BY <2>2 DEF Environment, RenameWindowStatus, EditTarget, Lapse, vars, TypeOK, WindowFacts
      <3>. QED BY <1>1, <3>1 DEF AttemptsOwned, ClosedWindowSound
    <2>. QED BY <2>1, <2>2
  <1>. QED BY <1>2, <1>3 DEF AttemptsOwned

LEMMA ProceedOwned ==
    ASSUME TypeOK, AttemptsOwned, NEW r \in Requests, Proceed(r)
    PROVE  AttemptsOwned'
  <1>1. CASE Snapshot(r) \/ Preview(r) \/ Authorize(r) \/ Confirm(r)
             \/ Verify(r) \/ Recover(r) \/ Reread(r) \/ Refresh(r)
    BY <1>1, QuietKeeps, QuietSnapshot, QuietPreview, QuietAuthorize, QuietConfirm,
       QuietVerify, QuietRecover, QuietReread
  <1>2. CASE \/ Execute(r) \/ Invoke(r) \/ RecordExecution(r) \/ RequestRetry(r) \/ ClaimFirst(r)
             \/ ClaimRequested(r) \/ InvokeRollback(r) \/ RecordRollback(r) \/ Reconcile(r)
    BY <1>2, ExecuteOwned, InvokeOwned, RecordExecutionOwned, RequestRetryOwned, ClaimFirstOwned,
       ClaimRequestedOwned, InvokeRollbackOwned, RecordRollbackOwned, ReconcileOwned
  <1>. QED BY <1>1, <1>2 DEF Proceed

LEMMA NextOwned == TypeOK /\ AttemptsOwned /\ [Next]_vars => AttemptsOwned'
  <1>. SUFFICES ASSUME TypeOK, AttemptsOwned, [Next]_vars PROVE AttemptsOwned'
    OBVIOUS
  <1>1. CASE Environment \/ UNCHANGED vars
    BY <1>1, EnvironmentOwned
  <1>2. ASSUME NEW r \in Requests, Arrive(r) \/ Abort(r)
        PROVE  AttemptsOwned'
    BY <1>2, QuietArrive, QuietAbort, QuietKeeps
  <1>3. ASSUME NEW r \in Requests, Proceed(r)
        PROVE  AttemptsOwned'
    BY <1>3, ProceedOwned
  <1>. QED BY <1>1, <1>2, <1>3 DEF Next

LEMMA InitOwned == Init => AttemptsOwned
  BY ConstantsAssumption
  DEF Init, CreatedRow, Idle, Absent, InitWindow, AttemptsOwned, AttemptRowsSound,
      RowPointersSound, PointsAtRollback, ExecutorsOwn, Executing, RollbackRequestsSound,
      ClosedWindowSound

\* Every attempt has one owner and every pointer to an attempt is sound in
\* every reachable state, however many requests race and wherever they die.
THEOREM Ownership == Spec => []AttemptsOwned
  BY InitType, InitOwned, NextTypes, NextOwned, PTL DEF Spec

----------------------------------------------------------------------------
(* What AttemptsOwned is for. *)

\* The adapter of an action is invoked for one execution attempt, once.
THEOREM ExecutedOnce == Spec => []OneExecution
  <1>1. AttemptsOwned => OneExecution
    BY ConstantsAssumption
    DEF AttemptsOwned, AttemptRowsSound, OneExecution, Absent, ActionAttemptPhase
  <1>. QED BY <1>1, Ownership, PTL

\* A cancelled window has no execution under way and none in doubt.
THEOREM CancelledStaysQuiescent == Spec => []CancelledIsQuiescent
  <1>1. AttemptsOwned => CancelledIsQuiescent
    BY DEF AttemptsOwned, ClosedWindowSound, ExecutorsOwn, Executing, CancelledIsQuiescent
  <1>. QED BY <1>1, Ownership, PTL

----------------------------------------------------------------------------
(* The attempt rows implement AttemptLedger. *)

\* Steps that leave the ledger alone are stutters of it.
Stutter == UNCHANGED <<attempts, window.state = "active">>

LEMMA LedgerInitially == Init => Ledger!LedgerInit
  BY DEF Init, InitWindow, Absent, Ledger!LedgerInit, Ledger!Unused

LEMMA QuietStutters ==
    ASSUME NEW r, NEW q, Quiet(r, q)
    PROVE  Stutter
  BY DEF Quiet, Stutter

LEMMA ExecuteSimulates ==
    ASSUME TypeOK, AttemptsOwned, NEW r \in Requests, Execute(r)
    PROVE  Ledger!LedgerNext \/ Stutter
  <1>1. CASE MarkStale(r) \/ Reject(r)
    BY <1>1, QuietMarkStale, QuietReject, QuietStutters
  <1>2. ASSUME NEW a \in AttemptIds, Unused(a), WindowUsable, row.execution = None,
               Insert(a, "EXECUTION", "CLAIMED"), window' = window
        PROVE  Ledger!ClaimExecution(a)
    <2>1. window.state = "active"
      BY <1>2 DEF WindowUsable, TypeOK, WindowFacts, AttemptsOwned, ClosedWindowSound
    <2>2. ~Ledger!Executed
      BY <1>2, ConstantsAssumption
      DEF Ledger!Executed, AttemptsOwned, AttemptRowsSound, Absent, ActionAttemptPhase
    <2>. QED BY <1>2, <2>1, <2>2 DEF Ledger!ClaimExecution, Ledger!Unused, Unused, Absent, Insert
  <1>. QED BY <1>1, <1>2 DEF Execute, Fresh, Claimable, Ledger!LedgerNext

LEMMA SetStatusSimulates ==
    ASSUME TypeOK, NEW a, NEW s, SetStatus(a, s), window' = window,
           a \in AttemptIds =>
              \/ s = "COMPLETED" /\ attempts[a].status \in {"CLAIMED", "OUTCOME_UNKNOWN"}
              \/ s = "COMPLETED" /\ attempts[a].status = "COMPLETED"
              \/ s = "OUTCOME_UNKNOWN" /\ attempts[a].status = "CLAIMED"
    PROVE  Ledger!LedgerNext \/ Stutter
  <1>1. CASE a \notin AttemptIds
    BY <1>1 DEF SetStatus, TypeOK, Stutter
  <1>2. CASE a \in AttemptIds /\ attempts[a].status = s
    <2>1. [attempts[a] EXCEPT !.status = s] = attempts[a]
      BY <1>2 DEF TypeOK, AttemptRow
    <2>2. attempts' = attempts
      BY <1>2, <2>1 DEF SetStatus, TypeOK
    <2>. QED BY <2>2 DEF Stutter
  <1>3. CASE /\ a \in AttemptIds /\ s = "COMPLETED"
             /\ attempts[a].status \in {"CLAIMED", "OUTCOME_UNKNOWN"}
    BY <1>3 DEF SetStatus, Ledger!Complete, Ledger!LedgerNext
  <1>4. CASE a \in AttemptIds /\ s = "OUTCOME_UNKNOWN" /\ attempts[a].status = "CLAIMED"
    BY <1>4 DEF SetStatus, Ledger!Doubt, Ledger!LedgerNext
  <1>. QED BY <1>1, <1>2, <1>3, <1>4

LEMMA InsertSimulates ==
    ASSUME NEW a \in AttemptIds, NEW s \in {"REQUESTED", "CLAIMED"}, Unused(a),
           Insert(a, "ROLLBACK", s), window' = window
    PROVE  Ledger!LedgerNext
  <1>1. CASE s = "REQUESTED"
    BY <1>1 DEF Unused, Absent, Insert, Ledger!RequestRollback, Ledger!Unused, Ledger!LedgerNext
  <1>2. CASE s = "CLAIMED"
    BY <1>2 DEF Unused, Absent, Insert, Ledger!ClaimRollback, Ledger!Unused, Ledger!LedgerNext
  <1>. QED BY <1>1, <1>2

LEMMA RequestRetrySimulates ==
    ASSUME TypeOK, AttemptsOwned, NEW r \in Requests, RequestRetry(r)
    PROVE  Ledger!LedgerNext \/ Stutter
  <1>1. req[r].attempt \in AttemptIds
    BY DEF RequestRetry, InRollback, AttemptsOwned, RollbackRequestsSound
  <1>2. CASE Reject(r)
    BY <1>2, QuietReject, QuietStutters
  <1>3. CASE UNCHANGED <<dbVars, calls, confirmedFacts>>
    BY <1>3 DEF dbVars, Stutter
  <1>4. CASE Unused(req[r].attempt) /\ Insert(req[r].attempt, "ROLLBACK", "REQUESTED") /\ window' = window
    BY <1>1, <1>4, InsertSimulates
  <1>. QED BY <1>2, <1>3, <1>4 DEF RequestRetry

LEMMA ClaimFirstSimulates ==
    ASSUME TypeOK, NEW r \in Requests, ClaimFirst(r)
    PROVE  Ledger!LedgerNext \/ Stutter
  <1>1. CASE Reject(r)
    BY <1>1, QuietReject, QuietStutters
  <1>2. ASSUME NEW a \in AttemptIds, Unused(a), window' = window,
               Insert(a, "ROLLBACK", IF req[r].execute THEN "CLAIMED" ELSE "REQUESTED")
        PROVE  Ledger!LedgerNext
    BY <1>2, InsertSimulates
  <1>3. req[r].attempt \in AttemptIds \cup {None}
    BY DEF TypeOK, Request
  <1>. QED BY <1>1, <1>2, <1>3 DEF ClaimFirst

LEMMA ClaimRequestedSimulates ==
    ASSUME TypeOK, AttemptsOwned, NEW r \in Requests, ClaimRequested(r)
    PROVE  Ledger!LedgerNext \/ Stutter
  <1>1. CASE Reject(r)
    BY <1>1, QuietReject, QuietStutters
  <1>2. ASSUME NEW a, Requested(a), SetStatus(a, "CLAIMED"), window' = window
        PROVE  Ledger!LedgerNext
    <2>1. /\ a \in AttemptIds /\ attempts[a].phase = "ROLLBACK"
          /\ attempts[a].status = "REQUESTED"
      BY <1>2 DEF Requested, TypeOK, ActionRow, AttemptsOwned, RowPointersSound, PointsAtRollback
    <2>2. /\ attempts[a] = [phase |-> "ROLLBACK", status |-> "REQUESTED"]
          /\ [attempts[a] EXCEPT !.status = "CLAIMED"] = [phase |-> "ROLLBACK", status |-> "CLAIMED"]
      BY <2>1 DEF TypeOK, AttemptRow
    <2>3. Ledger!ClaimRollback(a)
      BY <1>2, <2>1, <2>2 DEF Ledger!ClaimRollback, SetStatus, TypeOK
    <2>. QED BY <2>1, <2>3 DEF Ledger!LedgerNext
  <1>. QED BY <1>1, <1>2 DEF ClaimRequested

LEMMA RecordSimulates ==
    ASSUME TypeOK, AttemptsOwned, NEW r \in Requests, RecordExecution(r) \/ RecordRollback(r)
    PROVE  Ledger!LedgerNext \/ Stutter
  <1>1. CASE Reject(r)
    BY <1>1, QuietReject, QuietStutters
  <1>2. CASE SetStatus(req[r].attempt, "COMPLETED") /\ window' = window
    <2>1. attempts[req[r].attempt].status \in Past
      BY DEF RecordExecution, RecordRollback, InRollback, AttemptsOwned, ExecutorsOwn, Executing,
             RollbackRequestsSound, Past
    <2>. QED BY <1>2, <2>1, SetStatusSimulates DEF Past
  <1>. QED BY <1>1, <1>2 DEF RecordExecution, RecordRollback

LEMMA ReconcileSimulates ==
    ASSUME TypeOK, NEW r \in Requests, Reconcile(r)
    PROVE  Ledger!LedgerNext \/ Stutter
  <1>1. CASE Reject(r)
    BY <1>1, QuietReject, QuietStutters
  <1>2. CASE /\ attempts[req[r].attempt].status = "CLAIMED"
             /\ SetStatus(req[r].attempt, "OUTCOME_UNKNOWN") /\ window' = window
    BY <1>2, SetStatusSimulates
  <1>. QED BY <1>1, <1>2 DEF Reconcile

LEMMA EnvironmentSimulates ==
    ASSUME TypeOK, Environment \/ UNCHANGED vars
    PROVE  Ledger!LedgerNext \/ Stutter
  <1>1. CASE CancelWindow
    <2>1. \A a \in AttemptIds : attempts[a].status \in {"ABSENT", "COMPLETED"}
      BY <1>1 DEF CancelWindow, Unresolved, TypeOK, AttemptRow, ActionAttemptStatus
    <2>2. window.state = "active" /\ ~(window'.state = "active") /\ attempts' = attempts
      BY <1>1 DEF CancelWindow, TypeOK, WindowFacts
    <2>. QED BY <2>1, <2>2 DEF Ledger!Close, Ledger!LedgerNext
  <1>2. CASE ~CancelWindow
    <2>1. window'.state = window.state /\ attempts' = attempts
      BY <1>2 DEF Environment, RenameWindowStatus, EditTarget, Lapse, vars, TypeOK, WindowFacts
    <2>. QED BY <2>1 DEF Stutter
  <1>. QED BY <1>1, <1>2

LEMMA ProceedSimulates ==
    ASSUME TypeOK, AttemptsOwned, NEW r \in Requests, Proceed(r)
    PROVE  Ledger!LedgerNext \/ Stutter
  <1>1. CASE Snapshot(r) \/ Preview(r) \/ Authorize(r) \/ Confirm(r)
             \/ Verify(r) \/ Recover(r) \/ Reread(r) \/ Refresh(r)
    BY <1>1, QuietStutters, QuietSnapshot, QuietPreview, QuietAuthorize, QuietConfirm,
       QuietVerify, QuietRecover, QuietReread
  <1>2. CASE Invoke(r)
    BY <1>2 DEF Invoke, dbVars, Stutter
  <1>3. CASE InvokeRollback(r)
    BY <1>3 DEF InvokeRollback, Reject, dbVars, Stutter
  <1>4. CASE \/ Execute(r) \/ RecordExecution(r) \/ RequestRetry(r) \/ ClaimFirst(r)
             \/ ClaimRequested(r) \/ RecordRollback(r) \/ Reconcile(r)
    BY <1>4, ExecuteSimulates, RecordSimulates, RequestRetrySimulates, ClaimFirstSimulates,
       ClaimRequestedSimulates, ReconcileSimulates
  <1>. QED BY <1>1, <1>2, <1>3, <1>4 DEF Proceed

LEMMA NextSimulates ==
    TypeOK /\ AttemptsOwned /\ [Next]_vars =>
        [Ledger!LedgerNext]_<<attempts, window.state = "active">>
  <1>. SUFFICES ASSUME TypeOK, AttemptsOwned, [Next]_vars
                PROVE  Ledger!LedgerNext \/ Stutter
    BY DEF Stutter
  <1>1. CASE Environment \/ UNCHANGED vars
    BY <1>1, EnvironmentSimulates
  <1>2. ASSUME NEW r \in Requests, Arrive(r) \/ Abort(r)
        PROVE  Stutter
    BY <1>2, QuietArrive, QuietAbort, QuietStutters
  <1>3. ASSUME NEW r \in Requests, Proceed(r)
        PROVE  Ledger!LedgerNext \/ Stutter
    BY <1>3, ProceedSimulates
  <1>. QED BY <1>1, <1>2, <1>3 DEF Next

\* The attempt rows implement AttemptLedger: whatever the interleaving,
\* identities are used once, attempts only move forward, one attempt
\* executes, and no execution starts in a window once it is cancelled.
THEOREM LedgerImplemented == Spec => ImplementsLedger
  BY LedgerInitially, InitType, InitOwned, NextTypes, NextOwned, NextSimulates, PTL
  DEF Spec, ImplementsLedger, Ledger!LedgerSpec

----------------------------------------------------------------------------
(* Only a claim points the row at an execution, and it is taken in one     *)
(* transaction with the checks when a window is linked.                    *)

LEMMA PointerStays ==
    ASSUME TypeOK, AttemptsOwned, [Next]_vars, row'.execution # row.execution
    PROVE  \E r \in Requests : Execute(r) /\ ~MarkStale(r) /\ ~Reject(r)
  <1>1. CASE Environment \/ UNCHANGED vars
    BY <1>1 DEF Environment, CancelWindow, RenameWindowStatus, EditTarget, Lapse, vars
  <1>2. ASSUME NEW r \in Requests, Arrive(r) \/ Abort(r)
        PROVE  FALSE
    BY <1>2, QuietArrive, QuietAbort DEF Quiet
  <1>3. ASSUME NEW r \in Requests, Proceed(r), ~Execute(r)
        PROVE  FALSE
    <2>1. CASE Snapshot(r) \/ Preview(r) \/ Authorize(r) \/ Confirm(r)
               \/ Verify(r) \/ Recover(r) \/ Reread(r) \/ Refresh(r)
      BY <2>1, QuietSnapshot, QuietPreview, QuietAuthorize, QuietConfirm,
         QuietVerify, QuietRecover, QuietReread DEF Quiet
    <2>2. CASE Invoke(r) \/ InvokeRollback(r)
      BY <2>2 DEF Invoke, InvokeRollback, Reject, dbVars
    <2>3. CASE RecordExecution(r) \/ RecordRollback(r) \/ Reconcile(r)
      BY <2>3 DEF RecordExecution, RecordRollback, Reconcile, Reject, dbVars, Flush, FlushFacts
    <2>4. CASE RequestRetry(r) \/ ClaimFirst(r) \/ ClaimRequested(r)
      BY <2>4 DEF RequestRetry, ClaimFirst, ClaimRequested, Reject, dbVars, TypeOK, ActionRow
    <2>. QED BY <1>3, <2>1, <2>2, <2>3, <2>4 DEF Proceed
  <1>4. ASSUME NEW r \in Requests, MarkStale(r) \/ Reject(r)
        PROVE  FALSE
    BY <1>4, QuietMarkStale, QuietReject DEF Quiet
  <1>. QED BY <1>1, <1>2, <1>3, <1>4 DEF Next

LEMMA ClaimIsBound ==
    ASSUME Linked, TypeOK, AttemptsOwned, [Next]_vars,
           row.execution = None, row'.execution # None
    PROVE  /\ WindowUsable
           /\ target.cond = "live"
           /\ \E r \in Requests :
                 /\ req'[r].step = "claimed"
                 /\ req[r].row.bound = [window |-> WindowBinding, target |-> target]
  <1>1. PICK r \in Requests : Execute(r) /\ ~MarkStale(r) /\ ~Reject(r)
    BY PointerStays
  <1>2. PICK a \in AttemptIds :
            Fresh(r) /\ Move(r, [req[r] EXCEPT !.step = "claimed", !.attempt = a])
    BY <1>1 DEF Execute
  <1>3. [req[r] EXCEPT !.step = "claimed", !.attempt = a].step = "claimed"
    BY DEF TypeOK, Request
  <1>4. req'[r].step = "claimed"
    BY <1>2, <1>3, MoveValue
  <1>5. /\ WindowUsable /\ target.cond = "live"
        /\ WindowBinding = req[r].row.bound.window /\ target = req[r].row.bound.target
    BY <1>2 DEF Fresh, Seen
  <1>6. req[r].row.bound \in [window : WindowFacts \cup {None}, target : TargetFacts]
    BY SeenType DEF ActionRow, Binding
  <1>7. req[r].row.bound = [window |-> WindowBinding, target |-> target]
    BY <1>5, <1>6
  <1>. QED BY <1>4, <1>5, <1>7

\* An action linked to a window is claimed for execution only while the
\* window is active and the window and the target are exactly those the
\* claiming request's preview was bound to.
THEOREM ClaimsAreBound == Linked => (Spec => ClaimsOnBoundFacts)
  <1>. SUFFICES ASSUME Linked PROVE Spec => ClaimsOnBoundFacts
    OBVIOUS
  <1>1. TypeOK /\ AttemptsOwned /\ [Next]_vars =>
           [ (row.execution = None /\ row'.execution # None) =>
                 /\ WindowUsable
                 /\ target.cond = "live"
                 /\ \E r \in Requests :
                       /\ req'[r].step = "claimed"
                       /\ req[r].row.bound = [window |-> WindowBinding, target |-> target] ]_vars
    BY ClaimIsBound
  <1>. QED BY <1>1, InitType, InitOwned, NextTypes, NextOwned, PTL DEF Spec, ClaimsOnBoundFacts

----------------------------------------------------------------------------
(* SerialSound is inductive as long as requests do not overlap.  Every     *)
(* step is shown to keep it and to change the status as the lifecycle      *)
(* allows.                                                                 *)

\* The status may go from s to t in one commit.
Legal(s, t) ==
    \/ t = s
    \/ MayTransition(s, t)
    \/ <<s, t>> \in Lifecycle!CommittedPaths

\* The hypothesis of the lemmas about single actions.
Serially == TypeOK /\ AttemptsOwned /\ SerialSound /\ OneInFlight /\ OneInFlight'

\* Request r steps on to q while no other request is in flight.
Solo(r, q) ==
    /\ TypeOK /\ AttemptsOwned /\ SerialSound
    /\ Move(r, q)
    /\ \A s \in Requests \ {r} : req[s].step = "idle"

LEMMA StatusesKnown == Lifecycle!ActionStatus = ActionStatus
  BY DEF Lifecycle!ActionStatus, ActionStatus

\* The steps of the lifecycle that the handlers take.
LEMMA LegalSteps ==
    /\ \A s \in Previewable \cup Reviewed \cup {"CONFIRMED"} : Legal(s, "STALE")
    /\ \A s \in Previewable : Legal(s, "PREVIEWED")
    /\ \A s \in Reviewed : Legal(s, "AUTHORIZED") /\ Legal(s, "CONFIRMED")
    /\ Legal("CONFIRMED", "EXECUTING")
    /\ Legal("EXECUTING", "SUCCEEDED") /\ Legal("EXECUTING", "FAILED")
    /\ Legal("SUCCEEDED", "VERIFIED") /\ Legal("SUCCEEDED", "VERIFICATION_FAILED")
  BY DEF Legal, MayTransition, ALLOWED_TRANSITIONS, ActionStatus, Previewable, Reviewed

LEMMA LegalRecovery ==
    /\ \A s \in RollbackSource : Legal(s, "ROLLING_BACK") /\ Legal(s, "ROLLBACK_REQUESTED")
    /\ \A s \in RetrySource : Legal(s, "ROLLBACK_REQUESTED")
    /\ Legal("ROLLBACK_REQUESTED", "ROLLING_BACK")
    /\ Legal("ROLLING_BACK", "ROLLED_BACK") /\ Legal("ROLLING_BACK", "ROLLBACK_FAILED")
    /\ Legal("EXECUTING", "RECOVERY_REQUIRED") /\ Legal("ROLLING_BACK", "RECOVERY_REQUIRED")
    /\ \A s \in Recoverable : Legal(s, "RECOVERED") /\ Legal(s, "RECOVERY_REQUIRED")
  BY DEF Legal, MayTransition, ALLOWED_TRANSITIONS, ActionStatus, RollbackSource, RetrySource,
         Recoverable, Lifecycle!CommittedPaths, Lifecycle!Recoverable, Lifecycle!RollbackSource

\* A flush by a request whose copy is the committed row writes its new row.
LEMMA CurrentFlush ==
    ASSUME row \in ActionRow, NEW n \in ActionRow, NEW refilled,
           n.execution = row.execution, n.rollback = row.rollback
    PROVE  FlushFacts(row, n, refilled) = n
  BY DEF FlushFacts, Written, ActionRow

\* A request in flight was alone before its step and is after it.
LEMMA SoloInFlight ==
    ASSUME Serially, NEW r \in Requests, NEW q, Move(r, q),
           req[r].step # "idle" \/ q.step # "idle"
    PROVE  Solo(r, q)
  <1>1. \A s \in Requests : req'[s] = IF s = r THEN q ELSE req[s]
    BY MoveValue DEF Serially
  <1>2. ASSUME NEW s \in Requests \ {r}
        PROVE  req[s].step = "idle"
    BY <1>1 DEF Serially, OneInFlight
  <1>. QED BY <1>2 DEF Solo, Serially

LEMMA OthersFit ==
    ASSUME NEW r \in Requests, NEW q, Solo(r, q), Fits(q, row', calls')
    PROVE  \A s \in Requests : Fits(req'[s], row', calls')
  <1>1. \A s \in Requests : req'[s] = IF s = r THEN q ELSE req[s]
    BY MoveValue DEF Solo
  <1>2. \A s \in Requests \ {r} : Fits(req[s], row', calls')
    BY DEF Solo, Fits
  <1>. QED BY <1>1, <1>2

LEMMA IdleFits == \A rw, count : Fits(Idle, rw, count)
  BY DEF Fits, Idle

\* A request that ends without having touched an attempt, from a status
\* in which none is claimed, or without having changed the status either.
LEMMA SerialReturn ==
    ASSUME NEW r \in Requests, Solo(r, Idle), UNCHANGED <<attempts, calls>>,
           \/ row.status \notin {"EXECUTING", "ROLLING_BACK"}
           \/ row'.status = row.status /\ row'.execution = row.execution /\ row'.rollback = row.rollback,
           ConfirmedIsCovered'
    PROVE  SerialSound'
  <1>1. \A s \in Requests : Fits(req'[s], row', calls')
    BY OthersFit, IdleFits
  <1>2. ClaimedIsCurrent'
    BY DEF Solo, SerialSound, ClaimedIsCurrent
  <1>3. RequestedIsUncalled'
    BY DEF Solo, SerialSound, RequestedIsUncalled
  <1>. QED BY <1>1, <1>2, <1>3 DEF SerialSound

LEMMA SerialReject ==
    ASSUME NEW r \in Requests, Solo(r, Idle), UNCHANGED <<dbVars, calls, confirmedFacts>>
    PROVE  SerialSound' /\ Legal(row.status, row'.status)
  <1>1. ConfirmedIsCovered'
    BY DEF Solo, SerialSound, ConfirmedIsCovered, dbVars, RiskFacts
  <1>2. SerialSound'
    BY <1>1, SerialReturn DEF dbVars
  <1>. QED BY <1>2 DEF dbVars, Legal

\* A planning or closing step: the request flushes n, which only changes
\* columns of its own, and ends.  It stands on a status admitted for o.
LEMMA SerialFlush ==
    ASSUME Serially, NEW r \in Requests, req[r].step \in {"loaded", "checked"}, Return(r),
           NEW n \in ActionRow, NEW refilled, row' = FlushFacts(req[r].row, n, refilled),
           n.execution = req[r].row.execution, n.rollback = req[r].row.rollback,
           UNCHANGED <<attempts, calls>>,
           req[r].op # "reconcile",
           n.status = "CONFIRMED" =>
              /\ n.bound \in confirmedFacts'
              /\ n.authorized /\ n.confirmed
              /\ RiskFacts(n.approved, n.recovery)
    PROVE  /\ SerialSound'
           /\ req[r].row = row /\ row' = n /\ row.status \in Admitted[req[r].op]
  <1>1. Solo(r, Idle)
    BY SoloInFlight DEF Return
  <1>2. /\ req[r].row = row /\ req[r].op \in Operations
        /\ row.status \in Admitted[req[r].op] /\ row \in ActionRow
    BY DEF Serially, SerialSound, Fits, TypeOK
  <1>3. row' = n
    BY <1>2, CurrentFlush
  <1>4. row.status \notin {"EXECUTING", "ROLLING_BACK"}
    BY <1>2 DEF Admitted, Operations, Previewable, Reviewed, RollbackSource, RetrySource, Recoverable
  <1>5. ConfirmedIsCovered'
    BY <1>3 DEF ConfirmedIsCovered, RiskFacts
  <1>. QED BY <1>1, <1>2, <1>3, <1>4, <1>5, SerialReturn

LEMMA RejectSerial ==
    ASSUME Serially, NEW r \in Requests, req[r].step # "idle", Reject(r)
    PROVE  SerialSound' /\ Legal(row.status, row'.status)
  BY SoloInFlight, SerialReject DEF Reject, Return

LEMMA AdmittedStatuses ==
    /\ Admitted["preview"] = Previewable /\ Admitted["verify"] = {"SUCCEEDED"}
    /\ Admitted["authorize"] = Reviewed /\ Admitted["confirm"] = Reviewed
    /\ Admitted["execute"] = {"CONFIRMED"} /\ Admitted["recover"] = Recoverable
    /\ Admitted["rollback"] = RollbackSource \cup RetrySource \cup {"ROLLBACK_REQUESTED"}
    /\ Admitted["reconcile"] = {"EXECUTING", "ROLLING_BACK"}
  BY DEF Admitted, Operations

LEMMA MarkStaleSerial ==
    ASSUME Serially, NEW r \in Requests, req[r].step \in {"loaded", "checked"}, MarkStale(r),
           req[r].op \in {"preview", "authorize", "confirm", "execute"}
    PROVE  SerialSound' /\ Legal(row.status, row'.status)
  <1>. DEFINE c == req[r].row
              n == [c EXCEPT !.status = "STALE", !.authorized = FALSE,
                             !.approved = FALSE, !.confirmed = FALSE]
  <1>1. /\ n \in ActionRow /\ n.status = "STALE"
        /\ n.execution = c.execution /\ n.rollback = c.rollback
    BY SeenType DEF Serially, ActionRow, ActionStatus
  <1>2. row' = FlushFacts(c, n, {}) /\ Return(r) /\ UNCHANGED <<attempts, calls>>
    BY DEF MarkStale, Flush
  <1>3. SerialSound' /\ row' = n /\ row.status \in Admitted[req[r].op]
    BY <1>1, <1>2, SerialFlush
  <1>4. row.status \in Previewable \cup Reviewed \cup {"CONFIRMED"}
    BY <1>3, AdmittedStatuses
  <1>. QED BY <1>1, <1>3, <1>4, LegalSteps

LEMMA PreviewSerial ==
    ASSUME Serially, NEW r \in Requests, Preview(r)
    PROVE  SerialSound' /\ Legal(row.status, row'.status)
  <1>. DEFINE c == req[r].row
              n == [c EXCEPT !.status = "PREVIEWED", !.token = issued + 1,
                             !.bound = [window |-> WindowBinding, target |-> Seen(r).target],
                             !.authorized = FALSE, !.approved = FALSE,
                             !.recovery = FALSE, !.confirmed = FALSE]
  <1>1. req[r].op = "preview" /\ req[r].step \in {"loaded", "checked"}
    BY DEF Preview, Checking
  <1>2. CASE MarkStale(r)
    BY <1>1, <1>2, MarkStaleSerial
  <1>3. CASE issued < MaxPreviews /\ row' = Flush(c, n) /\ Return(r)
             /\ UNCHANGED <<attempts, window, target, lapsed, calls, confirmedFacts>>
    <2>1. issued + 1 \in 0..MaxPreviews
      BY <1>3, ConstantsAssumption DEF Serially, TypeOK
    <2>2. [window |-> WindowBinding, target |-> Seen(r).target] \in Binding
      BY SeenType DEF Serially, Binding
    <2>3. /\ n \in ActionRow /\ n.status = "PREVIEWED"
          /\ n.execution = c.execution /\ n.rollback = c.rollback
      BY <2>1, <2>2, SeenType DEF Serially, ActionRow, ActionStatus
    <2>4. SerialSound' /\ row' = n /\ row.status \in Previewable
      BY <1>1, <1>3, <2>3, SerialFlush, AdmittedStatuses DEF Flush
    <2>. QED BY <2>3, <2>4, LegalSteps
  <1>. QED BY <1>2, <1>3 DEF Preview

LEMMA AuthorizeSerial ==
    ASSUME Serially, NEW r \in Requests, Authorize(r)
    PROVE  SerialSound' /\ Legal(row.status, row'.status)
  <1>. DEFINE c == req[r].row
              n(approval, confirm) ==
                   [c EXCEPT !.status = IF confirm THEN "CONFIRMED" ELSE "AUTHORIZED",
                             !.approved = approval, !.recovery = req[r].facts,
                             !.authorized = TRUE,
                             !.confirmed = confirm \/ c.confirmed]
  <1>1. req[r].op = "authorize" /\ req[r].step \in {"loaded", "checked"}
    BY DEF Authorize, Checking
  <1>2. CASE MarkStale(r) \/ Reject(r)
    BY <1>1, <1>2, MarkStaleSerial, RejectSerial
  <1>3. ASSUME NEW approval \in BOOLEAN, NEW confirm \in BOOLEAN, NEW refilled,
               RiskFacts(approval, req[r].facts),
               row' = FlushFacts(c, n(approval, confirm), refilled),
               confirmedFacts' = IF confirm THEN confirmedFacts \cup {c.bound} ELSE confirmedFacts,
               Return(r), UNCHANGED <<attempts, window, target, issued, lapsed, calls>>
        PROVE  SerialSound' /\ Legal(row.status, row'.status)
    <2>. DEFINE m == n(approval, confirm)
    <2>1. c \in ActionRow /\ req[r].facts \in BOOLEAN /\ (confirm \/ c.confirmed) \in BOOLEAN
      BY SeenType DEF Serially, ActionRow, TypeOK, Request
    <2>2. (IF confirm THEN "CONFIRMED" ELSE "AUTHORIZED") \in ActionStatus
      BY DEF ActionStatus
    <2>3. m \in ActionRow
      BY <2>1, <2>2 DEF ActionRow
    <2>4. /\ m.status = IF confirm THEN "CONFIRMED" ELSE "AUTHORIZED"
          /\ m.execution = c.execution /\ m.rollback = c.rollback /\ m.bound = c.bound
          /\ m.authorized = TRUE /\ m.confirmed = (confirm \/ c.confirmed)
          /\ m.approved = approval /\ m.recovery = req[r].facts
      BY <2>1 DEF ActionRow
    <2>5. m.status = "CONFIRMED" =>
             /\ m.bound \in confirmedFacts'
             /\ m.authorized /\ m.confirmed /\ RiskFacts(m.approved, m.recovery)
      BY <1>3, <2>4
    <2>. HIDE DEF n, m
    <2>6. SerialSound' /\ row' = m /\ row.status \in Reviewed
      BY <1>1, <1>3, <2>3, <2>4, <2>5, SerialFlush, AdmittedStatuses DEF m
    <2>. QED BY <2>4, <2>6, LegalSteps
  <1>. QED BY <1>2, <1>3 DEF Authorize

LEMMA ConfirmSerial ==
    ASSUME Serially, NEW r \in Requests, Confirm(r)
    PROVE  SerialSound' /\ Legal(row.status, row'.status)
  <1>. DEFINE c == req[r].row
              n == [c EXCEPT !.status = "CONFIRMED", !.authorized = TRUE, !.confirmed = TRUE]
  <1>1. req[r].op = "confirm" /\ req[r].step \in {"loaded", "checked"}
    BY DEF Confirm, Checking
  <1>2. CASE MarkStale(r) \/ Reject(r)
    BY <1>1, <1>2, MarkStaleSerial, RejectSerial
  <1>3. ASSUME NEW refilled, RiskFacts(c.approved, c.recovery), row' = FlushFacts(c, n, refilled),
               confirmedFacts' = confirmedFacts \cup {c.bound},
               Return(r), UNCHANGED <<attempts, window, target, issued, lapsed, calls>>
        PROVE  SerialSound' /\ Legal(row.status, row'.status)
    <2>1. /\ n \in ActionRow /\ n.status = "CONFIRMED" /\ n.bound = c.bound
          /\ n.execution = c.execution /\ n.rollback = c.rollback
          /\ n.authorized = TRUE /\ n.confirmed = TRUE
          /\ n.approved = c.approved /\ n.recovery = c.recovery
      BY SeenType DEF Serially, ActionRow, ActionStatus
    <2>2. /\ n.bound \in confirmedFacts' /\ n.authorized /\ n.confirmed
          /\ RiskFacts(n.approved, n.recovery)
      BY <1>3, <2>1
    <2>. HIDE DEF n
    <2>3. SerialSound' /\ row' = n /\ row.status \in Reviewed
      BY <1>1, <1>3, <2>1, <2>2, SerialFlush, AdmittedStatuses
    <2>. QED BY <2>1, <2>3, LegalSteps
  <1>. QED BY <1>2, <1>3 DEF Confirm

LEMMA VerifySerial ==
    ASSUME Serially, NEW r \in Requests, Verify(r)
    PROVE  SerialSound' /\ Legal(row.status, row'.status)
  <1>. DEFINE n(outcome) == [req[r].row EXCEPT !.status = outcome]
  <1>1. PICK outcome \in {"VERIFIED", "VERIFICATION_FAILED"} :
            row' = FlushFacts(req[r].row, n(outcome), {})
    BY DEF Verify, Flush
  <1>2. /\ n(outcome) \in ActionRow /\ n(outcome).status = outcome
        /\ n(outcome).execution = req[r].row.execution /\ n(outcome).rollback = req[r].row.rollback
    BY SeenType DEF Serially, ActionRow, ActionStatus
  <1>3. SerialSound' /\ row' = n(outcome) /\ row.status \in {"SUCCEEDED"}
    BY <1>1, <1>2, SerialFlush, AdmittedStatuses DEF Verify
  <1>. QED BY <1>2, <1>3, LegalSteps

LEMMA RecoverSerial ==
    ASSUME Serially, NEW r \in Requests, Recover(r)
    PROVE  SerialSound' /\ Legal(row.status, row'.status)
  <1>. DEFINE c == req[r].row
              known == c.recovery \/ req[r].facts
              n(outcome) == [c EXCEPT !.status = outcome, !.recovery = known]
  <1>1. PICK outcome \in {"RECOVERED", "RECOVERY_REQUIRED"}, refilled \in SUBSET {"recovery"} :
            row' = FlushFacts(c, n(outcome), refilled)
    BY DEF Recover
  <1>2. known \in BOOLEAN /\ c \in ActionRow
    BY SeenType DEF Serially
  <1>3. /\ n(outcome) \in ActionRow /\ n(outcome).status = outcome
        /\ n(outcome).execution = c.execution /\ n(outcome).rollback = c.rollback
    BY <1>2 DEF ActionRow, ActionStatus
  <1>4. SerialSound' /\ row' = n(outcome) /\ row.status \in Recoverable
    BY <1>1, <1>3, SerialFlush, AdmittedStatuses DEF Recover
  <1>. QED BY <1>3, <1>4, LegalRecovery

\* A step that changes neither the row nor an attempt: request r goes on as
\* q, which still fits.
LEMMA SerialMove ==
    ASSUME Serially, NEW r \in Requests, NEW q, Move(r, q),
           req[r].step # "idle" \/ q.step # "idle",
           UNCHANGED <<row, attempts, calls, confirmedFacts>>, Fits(q, row, calls)
    PROVE  SerialSound' /\ Legal(row.status, row'.status)
  <1>1. \A s \in Requests : Fits(req'[s], row', calls')
    BY SoloInFlight, OthersFit
  <1>2. ClaimedIsCurrent' /\ RequestedIsUncalled' /\ ConfirmedIsCovered'
    BY DEF Serially, SerialSound, ClaimedIsCurrent, RequestedIsUncalled, ConfirmedIsCovered, RiskFacts
  <1>. QED BY <1>1, <1>2 DEF SerialSound, Legal

LEMMA SnapshotSerial ==
    ASSUME Serially, NEW r \in Requests, Snapshot(r)
    PROVE  SerialSound' /\ Legal(row.status, row'.status)
  <1>. DEFINE q == [req[r] EXCEPT !.step = "checked",
                                  !.seen = [target |-> target, lapsed |-> lapsed]]
  <1>1. /\ q.op = req[r].op /\ q.step = "checked" /\ q.row = req[r].row
        /\ req[r].step = "loaded" /\ Move(r, q)
        /\ UNCHANGED <<row, attempts, calls, confirmedFacts>>
    BY DEF Snapshot, Serially, TypeOK, Request, dbVars
  <1>2. Fits(req[r], row, calls)
    BY DEF Serially, SerialSound
  <1>. HIDE DEF q
  <1>3. Fits(q, row, calls)
    BY <1>1, <1>2 DEF Fits
  <1>. QED BY <1>1, <1>3, SerialMove

LEMMA RefreshSerial ==
    ASSUME Serially, NEW r \in Requests, Refresh(r)
    PROVE  SerialSound' /\ Legal(row.status, row'.status)
  <1>. DEFINE q == [req[r] EXCEPT !.row = row,
                                  !.step = CASE @ = "refresh2" -> "stage2"
                                             [] @ = "refresh3" -> "stage3"
                                             [] OTHER -> "stage4"]
  <1>1. /\ q.op = "rollback" /\ q.row = row
        /\ q.step = CASE req[r].step = "refresh2" -> "stage2"
                      [] req[r].step = "refresh3" -> "stage3"
                      [] OTHER -> "stage4"
        /\ req[r].step \in {"refresh2", "refresh3", "refresh4"} /\ Move(r, q)
        /\ UNCHANGED <<row, attempts, calls, confirmedFacts>>
    BY DEF Refresh, InRollback, Serially, TypeOK, Request, dbVars
  <1>2. Fits(req[r], row, calls)
    BY DEF Serially, SerialSound
  <1>. HIDE DEF q
  <1>3. Fits(q, row, calls)
    BY <1>1, <1>2 DEF Fits
  <1>. QED BY <1>1, <1>3, SerialMove

\* The claim finds no other attempt claimed, because the row is CONFIRMED.
LEMMA ExecuteSerial ==
    ASSUME Serially, NEW r \in Requests, Execute(r)
    PROVE  SerialSound' /\ Legal(row.status, row'.status)
  <1>1. req[r].op = "execute" /\ req[r].step \in {"loaded", "checked"}
    BY DEF Execute, Checking
  <1>2. CASE MarkStale(r) \/ Reject(r)
    BY <1>1, <1>2, MarkStaleSerial, RejectSerial
  <1>3. ASSUME NEW a \in AttemptIds, Unused(a), row.status = "CONFIRMED",
               row' = [row EXCEPT !.status = "EXECUTING", !.execution = a],
               Insert(a, "EXECUTION", "CLAIMED"),
               Move(r, [req[r] EXCEPT !.step = "claimed", !.attempt = a]),
               UNCHANGED <<window, target, issued, lapsed, calls, confirmedFacts>>
        PROVE  SerialSound' /\ Legal(row.status, row'.status)
    <2>. DEFINE q == [req[r] EXCEPT !.step = "claimed", !.attempt = a]
    <2>1. q.op = "execute" /\ q.step = "claimed"
      BY <1>1 DEF Serially, TypeOK, Request
    <2>2. row'.status = "EXECUTING" /\ row'.execution = a
      BY <1>3 DEF Serially, TypeOK, ActionRow
    <2>3. \A b \in AttemptIds :
             attempts'[b] = IF b = a THEN [phase |-> "EXECUTION", status |-> "CLAIMED"] ELSE attempts[b]
      BY <1>3, InsertValue DEF Serially
    <2>. HIDE DEF q
    <2>4. Solo(r, q)
      BY <1>1, <1>3, SoloInFlight DEF q
    <2>5. \A s \in Requests : Fits(req'[s], row', calls')
      BY <2>1, <2>2, <2>4, OthersFit DEF Fits
    <2>6. ClaimedIsCurrent'
      BY <1>3, <2>2, <2>3 DEF Serially, SerialSound, ClaimedIsCurrent
    <2>7. RequestedIsUncalled'
      BY <1>3, <2>3 DEF Serially, SerialSound, RequestedIsUncalled
    <2>8. ConfirmedIsCovered'
      BY <2>2 DEF ConfirmedIsCovered
    <2>. QED BY <1>3, <2>2, <2>5, <2>6, <2>7, <2>8, LegalSteps DEF SerialSound
  <1>. QED BY <1>2, <1>3 DEF Execute, Claimable

LEMMA InvokeSerial ==
    ASSUME Serially, NEW r \in Requests, Invoke(r)
    PROVE  SerialSound' /\ Legal(row.status, row'.status)
  <1>. DEFINE q == [req[r] EXCEPT !.step = "called", !.row = row]
              a == req[r].attempt
  <1>1. /\ q.op = "execute" /\ q.step = "called" /\ q.row = row /\ req[r].step = "claimed"
        /\ Move(r, q) /\ UNCHANGED <<row, attempts, confirmedFacts>>
    BY DEF Invoke, Serially, TypeOK, Request, dbVars
  <1>2. /\ a \in AttemptIds /\ attempts[a].phase = "EXECUTION"
        /\ row.status = "EXECUTING"
    BY DEF Invoke, Serially, SerialSound, Fits, AttemptsOwned, ExecutorsOwn, Executing
  <1>3. \A b \in AttemptIds : b # a => calls'[b] = calls[b]
    BY DEF Invoke, Serially, TypeOK
  <1>. HIDE DEF q
  <1>4. Solo(r, q)
    BY <1>1, SoloInFlight
  <1>5. \A s \in Requests : Fits(req'[s], row', calls')
    BY <1>1, <1>2, <1>4, OthersFit DEF Fits
  <1>6. ClaimedIsCurrent' /\ ConfirmedIsCovered'
    BY <1>1 DEF Serially, SerialSound, ClaimedIsCurrent, ConfirmedIsCovered, RiskFacts
  <1>7. RequestedIsUncalled'
    BY <1>1, <1>2, <1>3 DEF Serially, SerialSound, RequestedIsUncalled
  <1>. QED BY <1>1, <1>5, <1>6, <1>7 DEF SerialSound, Legal

\* A step that settles the attempt a the row points at and ends the request.
LEMMA SettleSerial ==
    ASSUME Serially, NEW r \in Requests, req[r].step # "idle", Return(r),
           NEW a \in AttemptIds, NEW s \in {"COMPLETED", "OUTCOME_UNKNOWN"}, SetStatus(a, s),
           \/ row.status = "EXECUTING" /\ row.execution = a
           \/ row.status = "ROLLING_BACK" /\ row.rollback = a,
           row'.status # "CONFIRMED", UNCHANGED <<calls, confirmedFacts>>
    PROVE  SerialSound'
  <1>1. \A b \in AttemptIds :
           /\ attempts'[b].phase = attempts[b].phase
           /\ b = a => attempts'[b].status = s
           /\ b # a => attempts'[b] = attempts[b]
    BY SetStatusValue DEF Serially
  <1>2. \A t \in Requests : Fits(req'[t], row', calls')
    BY SoloInFlight, OthersFit, IdleFits DEF Return
  <1>3. ClaimedIsCurrent'
    BY <1>1 DEF Serially, SerialSound, ClaimedIsCurrent
  <1>4. RequestedIsUncalled'
    BY <1>1 DEF Serially, SerialSound, RequestedIsUncalled
  <1>5. ConfirmedIsCovered'
    BY DEF ConfirmedIsCovered
  <1>. QED BY <1>2, <1>3, <1>4, <1>5 DEF SerialSound

\* The row that records an outcome.
LEMMA OutcomeRow ==
    ASSUME Serially, NEW r \in Requests, req[r].row = row, NEW outcome \in ActionStatus,
           row' = Flush(req[r].row, [req[r].row EXCEPT !.status = outcome])
    PROVE  row'.status = outcome
  <1>1. /\ [row EXCEPT !.status = outcome] \in ActionRow
        /\ [row EXCEPT !.status = outcome].status = outcome
        /\ [row EXCEPT !.status = outcome].execution = row.execution
        /\ [row EXCEPT !.status = outcome].rollback = row.rollback
    BY DEF Serially, TypeOK, ActionRow
  <1>. QED BY <1>1, CurrentFlush DEF Flush, Serially, TypeOK

LEMMA RecordExecutionSerial ==
    ASSUME Serially, NEW r \in Requests, RecordExecution(r)
    PROVE  SerialSound' /\ Legal(row.status, row'.status)
  <1>1. /\ req[r].step = "called" /\ req[r].row = row /\ row.status = "EXECUTING"
        /\ req[r].attempt \in AttemptIds /\ row.execution = req[r].attempt
    BY DEF RecordExecution, Serially, SerialSound, Fits, AttemptsOwned, ExecutorsOwn, Executing
  <1>2. CASE Reject(r)
    BY <1>1, <1>2, RejectSerial
  <1>3. ASSUME NEW outcome \in ExecutionOutcome,
               row' = Flush(req[r].row, [req[r].row EXCEPT !.status = outcome]),
               SetStatus(req[r].attempt, "COMPLETED"), Return(r),
               UNCHANGED <<window, target, issued, lapsed, calls, confirmedFacts>>
        PROVE  SerialSound' /\ Legal(row.status, row'.status)
    <2>1. row'.status = outcome
      BY <1>1, <1>3, OutcomeRow DEF ExecutionOutcome, ActionStatus
    <2>2. SerialSound'
      BY <1>1, <1>3, <2>1, SettleSerial DEF ExecutionOutcome
    <2>. QED BY <1>1, <2>1, <2>2, LegalSteps DEF ExecutionOutcome
  <1>. QED BY <1>2, <1>3 DEF RecordExecution

LEMMA RecordRollbackSerial ==
    ASSUME Serially, NEW r \in Requests, RecordRollback(r)
    PROVE  SerialSound' /\ Legal(row.status, row'.status)
  <1>1. /\ req[r].step = "called" /\ req[r].row = row /\ row.status = "ROLLING_BACK"
        /\ req[r].attempt \in AttemptIds /\ row.rollback = req[r].attempt
    BY DEF RecordRollback, InRollback, Serially, SerialSound, Fits, AttemptsOwned, RollbackRequestsSound
  <1>2. PICK outcome \in {"ROLLED_BACK", "ROLLBACK_FAILED"} :
           row' = Flush(req[r].row, [req[r].row EXCEPT !.status = outcome])
    BY DEF RecordRollback
  <1>3. row'.status = outcome
    BY <1>1, <1>2, OutcomeRow DEF ActionStatus
  <1>4. SerialSound'
    BY <1>1, <1>3, SettleSerial DEF RecordRollback
  <1>. QED BY <1>1, <1>3, <1>4, LegalRecovery

LEMMA ReconcileSerial ==
    ASSUME Serially, NEW r \in Requests, Reconcile(r)
    PROVE  SerialSound' /\ Legal(row.status, row'.status)
  <1>1. /\ req[r].step = "loaded" /\ req[r].row = row /\ req[r].attempt \in AttemptIds
    BY DEF Reconcile, Serially, SerialSound, Fits
  <1>2. CASE Reject(r)
    BY <1>1, <1>2, RejectSerial
  <1>3. CASE /\ attempts[req[r].attempt].status = "CLAIMED"
             /\ SetStatus(req[r].attempt, "OUTCOME_UNKNOWN")
             /\ row' = Flush(req[r].row, [req[r].row EXCEPT !.status = "RECOVERY_REQUIRED"])
             /\ Return(r) /\ UNCHANGED <<window, target, issued, lapsed, calls, confirmedFacts>>
    <2>1. \/ row.status = "EXECUTING" /\ row.execution = req[r].attempt
          \/ row.status = "ROLLING_BACK" /\ row.rollback = req[r].attempt
      BY <1>1, <1>3 DEF Serially, SerialSound, ClaimedIsCurrent
    <2>2. row'.status = "RECOVERY_REQUIRED"
      BY <1>1, <1>3, OutcomeRow DEF ActionStatus
    <2>3. SerialSound'
      BY <1>1, <1>3, <2>1, <2>2, SettleSerial
    <2>. QED BY <2>1, <2>2, <2>3, LegalRecovery
  <1>. QED BY <1>2, <1>3 DEF Reconcile

\* The rollback request in flight holds the committed row when it chooses
\* its next block.
LEMMA RollbackFits ==
    ASSUME Serially, NEW r \in Requests, InRollback(r, {"loaded", "stage2", "stage3", "stage4"})
    PROVE  /\ req[r].row = row /\ req[r].step # "idle"
           /\ req[r].step = "loaded" => row.status \in Admitted["rollback"]
           /\ req[r].step = "stage2" => row.status = "ROLLBACK_REQUESTED"
           /\ req[r].step \in {"stage3", "stage4"} =>
                 row.status = "ROLLING_BACK" /\ calls[row.rollback] = 0
  BY DEF InRollback, Serially, SerialSound, Fits

\* A rollback attempt a is inserted as s while none is claimed.
LEMMA InsertSerial ==
    ASSUME Serially, NEW r \in Requests, NEW q, Move(r, q), req[r].step # "idle",
           NEW a \in AttemptIds, Unused(a), NEW s \in {"REQUESTED", "CLAIMED"},
           Insert(a, "ROLLBACK", s), row.status \notin {"EXECUTING", "ROLLING_BACK"},
           row'.rollback = a,
           row'.status = IF s = "CLAIMED" THEN "ROLLING_BACK" ELSE "ROLLBACK_REQUESTED",
           UNCHANGED <<calls, confirmedFacts>>,
           q = Idle \/ (q.op = "rollback" /\ q.step = IF s = "CLAIMED" THEN "refresh3" ELSE "refresh2")
    PROVE  SerialSound'
  <1>1. \A b \in AttemptIds :
           attempts'[b] = IF b = a THEN [phase |-> "ROLLBACK", status |-> s] ELSE attempts[b]
    BY InsertValue DEF Serially
  <1>2. calls[a] = 0
    BY UnusedIsNothing DEF Serially, AttemptsOwned, AttemptRowsSound, ActionAttemptPhase
  <1>3. Fits(q, row', calls')
    BY <1>2, IdleFits DEF Fits
  <1>4. \A t \in Requests : Fits(req'[t], row', calls')
    BY <1>3, SoloInFlight, OthersFit
  <1>5. ClaimedIsCurrent'
    BY <1>1 DEF Serially, SerialSound, ClaimedIsCurrent
  <1>6. RequestedIsUncalled'
    BY <1>1, <1>2 DEF Serially, SerialSound, RequestedIsUncalled
  <1>7. ConfirmedIsCovered'
    BY DEF ConfirmedIsCovered
  <1>. QED BY <1>4, <1>5, <1>6, <1>7 DEF SerialSound

LEMMA RequestRetrySerial ==
    ASSUME Serially, NEW r \in Requests, RequestRetry(r)
    PROVE  SerialSound' /\ Legal(row.status, row'.status)
  <1>. DEFINE a == req[r].attempt
              q == [req[r] EXCEPT !.step = "refresh2", !.held = TRUE]
  <1>1. /\ req[r].row = row /\ req[r].step = "loaded" /\ row.status \in RetrySource
        /\ a \in AttemptIds
    BY RollbackFits
    DEF RequestRetry, InRollback, Serially, AttemptsOwned, RollbackRequestsSound
  <1>2. CASE Reject(r)
    BY <1>1, <1>2, RejectSerial
  <1>3. ASSUME Unused(a), NEW recovery,
               row' = [row EXCEPT !.status = "ROLLBACK_REQUESTED", !.rollback = a,
                                  !.recovery = recovery],
               Insert(a, "ROLLBACK", "REQUESTED"), Move(r, IF req[r].execute THEN q ELSE Idle),
               UNCHANGED <<window, target, issued, lapsed, calls, confirmedFacts>>
        PROVE  SerialSound' /\ Legal(row.status, row'.status)
    <2>1. q.op = "rollback" /\ q.step = "refresh2"
      BY DEF RequestRetry, InRollback, Serially, TypeOK, Request
    <2>2. row'.status = "ROLLBACK_REQUESTED" /\ row'.rollback = a
      BY <1>3 DEF Serially, TypeOK, ActionRow
    <2>. HIDE DEF q
    <2>3. row.status \notin {"EXECUTING", "ROLLING_BACK"}
      BY <1>1 DEF RetrySource
    <2>. DEFINE p == IF req[r].execute THEN q ELSE Idle
    <2>4. Move(r, p) /\ (p = Idle \/ (p.op = "rollback" /\ p.step = "refresh2"))
      BY <1>3, <2>1
    <2>. HIDE DEF p
    <2>5. SerialSound'
      BY <1>1, <1>3, <2>2, <2>3, <2>4, InsertSerial
    <2>. QED BY <1>1, <2>2, <2>5, LegalRecovery
  <1>. QED BY <1>1, <1>2, <1>3 DEF RequestRetry

LEMMA ClaimFirstSerial ==
    ASSUME Serially, NEW r \in Requests, ClaimFirst(r)
    PROVE  SerialSound' /\ Legal(row.status, row'.status)
  <1>1. req[r].row = row /\ req[r].step # "idle" /\ row.status \in RollbackSource
    BY RollbackFits DEF ClaimFirst, InRollback
  <1>2. CASE Reject(r)
    BY <1>1, <1>2, RejectSerial
  <1>3. ASSUME NEW a \in AttemptIds, Unused(a), NEW recovery,
               row' = [row EXCEPT !.status = IF req[r].execute THEN "ROLLING_BACK"
                                                               ELSE "ROLLBACK_REQUESTED",
                                  !.rollback = a, !.recovery = recovery],
               Insert(a, "ROLLBACK", IF req[r].execute THEN "CLAIMED" ELSE "REQUESTED"),
               Move(r, IF req[r].execute
                       THEN [req[r] EXCEPT !.step = "refresh3", !.attempt = a, !.held = TRUE]
                       ELSE Idle),
               UNCHANGED <<window, target, issued, lapsed, calls, confirmedFacts>>
        PROVE  SerialSound' /\ Legal(row.status, row'.status)
    <2>. DEFINE q == [req[r] EXCEPT !.step = "refresh3", !.attempt = a, !.held = TRUE]
    <2>1. q.op = "rollback" /\ q.step = "refresh3"
      BY DEF ClaimFirst, InRollback, Serially, TypeOK, Request
    <2>2. /\ row'.status = IF req[r].execute THEN "ROLLING_BACK" ELSE "ROLLBACK_REQUESTED"
          /\ row'.rollback = a
      BY <1>3 DEF Serially, TypeOK, ActionRow
    <2>3. row.status \notin {"EXECUTING", "ROLLING_BACK"}
      BY <1>1 DEF RollbackSource
    <2>. HIDE DEF q
    <2>. DEFINE p == IF req[r].execute THEN q ELSE Idle
                s == IF req[r].execute THEN "CLAIMED" ELSE "REQUESTED"
    <2>4. /\ Move(r, p) /\ Insert(a, "ROLLBACK", s) /\ s \in {"REQUESTED", "CLAIMED"}
          /\ p = Idle \/ (p.op = "rollback" /\ p.step = IF s = "CLAIMED" THEN "refresh3" ELSE "refresh2")
          /\ row'.status = IF s = "CLAIMED" THEN "ROLLING_BACK" ELSE "ROLLBACK_REQUESTED"
      BY <1>3, <2>1, <2>2 DEF q
    <2>. HIDE DEF p, s
    <2>5. SerialSound'
      BY <1>1, <1>3, <2>2, <2>3, <2>4, InsertSerial
    <2>. QED BY <1>1, <2>4, <2>5, LegalRecovery
  <1>4. req[r].attempt \in AttemptIds \cup {None}
    BY DEF Serially, TypeOK, Request
  <1>. QED BY <1>2, <1>3, <1>4 DEF ClaimFirst

\* The requested attempt is claimed before the adapter has been called for it.
LEMMA ClaimRequestedSerial ==
    ASSUME Serially, NEW r \in Requests, ClaimRequested(r)
    PROVE  SerialSound' /\ Legal(row.status, row'.status)
  <1>. DEFINE a == row.rollback
              q == [req[r] EXCEPT !.step = "refresh4", !.attempt = a, !.held = TRUE]
  <1>1. /\ req[r].row = row /\ req[r].step # "idle" /\ row.status = "ROLLBACK_REQUESTED"
    BY RollbackFits DEF ClaimRequested, InRollback
  <1>2. /\ a \in AttemptIds /\ attempts[a].phase = "ROLLBACK"
        /\ attempts[a].status = "REQUESTED" /\ calls[a] = 0
    BY <1>1 DEF Serially, TypeOK, ActionRow, AttemptsOwned, RowPointersSound, PointsAtRollback,
       SerialSound, RequestedIsUncalled
  <1>3. CASE Reject(r)
    BY <1>1, <1>3, RejectSerial
  <1>4. ASSUME NEW recovery, row' = [row EXCEPT !.status = "ROLLING_BACK", !.recovery = recovery],
               SetStatus(a, "CLAIMED"), Move(r, q),
               UNCHANGED <<window, target, issued, lapsed, calls, confirmedFacts>>
        PROVE  SerialSound' /\ Legal(row.status, row'.status)
    <2>1. q.op = "rollback" /\ q.step = "refresh4"
      BY DEF ClaimRequested, InRollback, Serially, TypeOK, Request
    <2>2. row'.status = "ROLLING_BACK" /\ row'.rollback = a
      BY <1>4 DEF Serially, TypeOK, ActionRow
    <2>3. \A b \in AttemptIds :
             /\ attempts'[b].phase = attempts[b].phase
             /\ b = a => attempts'[b].status = "CLAIMED"
             /\ b # a => attempts'[b] = attempts[b]
      BY <1>4, SetStatusValue DEF Serially
    <2>. HIDE DEF q
    <2>4. Fits(q, row', calls')
      BY <1>2, <1>4, <2>1, <2>2 DEF Fits
    <2>5. \A t \in Requests : Fits(req'[t], row', calls')
      BY <1>1, <1>4, <2>4, SoloInFlight, OthersFit
    <2>6. ClaimedIsCurrent'
      BY <1>1, <1>2, <2>2, <2>3 DEF Serially, SerialSound, ClaimedIsCurrent
    <2>7. RequestedIsUncalled'
      BY <1>2, <1>4, <2>3 DEF Serially, SerialSound, RequestedIsUncalled
    <2>8. ConfirmedIsCovered'
      BY <2>2 DEF ConfirmedIsCovered
    <2>. QED BY <1>1, <2>2, <2>5, <2>6, <2>7, <2>8, LegalRecovery DEF SerialSound
  <1>. QED BY <1>1, <1>3, <1>4 DEF ClaimRequested

LEMMA InvokeRollbackSerial ==
    ASSUME Serially, NEW r \in Requests, InvokeRollback(r)
    PROVE  SerialSound' /\ Legal(row.status, row'.status)
  <1>. DEFINE a == row.rollback
              q == [req[r] EXCEPT !.step = "called", !.attempt = a]
  <1>1. /\ req[r].row = row /\ req[r].step # "idle"
        /\ row.status = "ROLLING_BACK" /\ calls[a] = 0
    BY RollbackFits DEF InvokeRollback, InRollback
  <1>2. /\ a \in AttemptIds /\ attempts[a].phase = "ROLLBACK" /\ attempts[a].status \in Past
    BY <1>1 DEF Serially, TypeOK, ActionRow, AttemptsOwned, RowPointersSound, PointsAtRollback, Past
  <1>3. CASE Reject(r)
    BY <1>1, <1>3, RejectSerial
  <1>4. CASE /\ calls' = [calls EXCEPT ![a] = @ + 1] /\ Move(r, q)
             /\ UNCHANGED <<dbVars, confirmedFacts>>
    <2>1. q.op = "rollback" /\ q.step = "called" /\ q.row = row /\ q.attempt = a
      BY <1>1 DEF InvokeRollback, InRollback, Serially, TypeOK, Request
    <2>2. calls'[a] = 1 /\ \A b \in AttemptIds : b # a => calls'[b] = calls[b]
      BY <1>1, <1>2, <1>4 DEF Serially, TypeOK
    <2>3. UNCHANGED <<row, attempts, confirmedFacts>>
      BY <1>4 DEF dbVars
    <2>. HIDE DEF q
    <2>4. \A t \in Requests : Fits(req'[t], row', calls')
      BY <1>1, <1>4, <2>1, <2>3, SoloInFlight, OthersFit DEF Fits
    <2>5. ClaimedIsCurrent' /\ ConfirmedIsCovered'
      BY <2>3 DEF Serially, SerialSound, ClaimedIsCurrent, ConfirmedIsCovered, RiskFacts
    <2>6. RequestedIsUncalled'
      BY <1>2, <2>2, <2>3 DEF Serially, SerialSound, RequestedIsUncalled, Past
    <2>. QED BY <2>3, <2>4, <2>5, <2>6 DEF SerialSound, Legal
  <1>. QED BY <1>1, <1>3, <1>4 DEF InvokeRollback

\* A request that arrives finds a status its operation is admitted in.
LEMMA ArriveSerial ==
    ASSUME Serially, NEW r \in Requests, Arrive(r)
    PROVE  SerialSound' /\ Legal(row.status, row'.status)
  <1>. DEFINE Goal == \E o \in Operations, a \in AttemptIds \cup {None}, exec, given \in BOOLEAN :
                         /\ Load(r, o, a, exec, given)
                         /\ row.status \in Admitted[o]
                         /\ o = "reconcile" => a \in AttemptIds
  <1>1. Goal
    <2>1. CASE LoadPreview(r) \/ LoadExecute(r) \/ LoadVerify(r)
      BY <2>1, AdmittedStatuses DEF LoadPreview, LoadExecute, LoadVerify, Operations
    <2>2. CASE LoadConfirm(r)
      BY <2>2, AdmittedStatuses DEF LoadConfirm, Operations
    <2>5. CASE LoadAuthorize(r)
      <3>1. row.status \in Admitted["authorize"] /\ "authorize" \in Operations
        BY <2>5, AdmittedStatuses DEF LoadAuthorize, Operations
      <3>2. PICK given \in BOOLEAN : Load(r, "authorize", None, FALSE, given)
        BY <2>5 DEF LoadAuthorize
      <3>. QED BY <3>1, <3>2
    <2>6. CASE LoadRecover(r)
      <3>1. row.status \in Admitted["recover"] /\ "recover" \in Operations
        BY <2>6, AdmittedStatuses DEF LoadRecover, Operations
      <3>2. PICK given \in BOOLEAN : Load(r, "recover", None, FALSE, given)
        BY <2>6 DEF LoadRecover
      <3>. QED BY <3>1, <3>2
    <2>3. CASE LoadRollback(r)
      BY <2>3, AdmittedStatuses DEF LoadRollback, Operations
    <2>4. CASE LoadReconcile(r)
      BY <2>4, AdmittedStatuses DEF LoadReconcile, Operations
    <2>. QED BY <2>1, <2>2, <2>3, <2>4, <2>5, <2>6 DEF Arrive
  <1>5. PICK o \in Operations, a \in AttemptIds \cup {None}, exec \in BOOLEAN, given \in BOOLEAN :
            /\ Load(r, o, a, exec, given)
            /\ row.status \in Admitted[o]
            /\ o = "reconcile" => a \in AttemptIds
    BY <1>1
  <1>. DEFINE q == [Idle EXCEPT !.op = o, !.step = "loaded", !.row = row,
                                !.attempt = a, !.execute = exec, !.facts = given]
  <1>2. q.op = o /\ q.step = "loaded" /\ q.row = row /\ q.attempt = a
    BY DEF Idle
  <1>3. Move(r, q) /\ UNCHANGED <<row, attempts, calls, confirmedFacts>>
    BY <1>5 DEF Load, dbVars
  <1>. HIDE DEF q
  <1>4. Fits(q, row, calls)
    BY <1>5, <1>2 DEF Fits
  <1>. QED BY <1>2, <1>3, <1>4, SerialMove

LEMMA AbortSerial ==
    ASSUME Serially, NEW r \in Requests, Abort(r)
    PROVE  SerialSound' /\ Legal(row.status, row'.status)
  BY SoloInFlight, SerialReject DEF Abort, Return

LEMMA EnvironmentSerial ==
    ASSUME Serially, Environment \/ UNCHANGED vars
    PROVE  SerialSound' /\ Legal(row.status, row'.status)
  <1>1. UNCHANGED <<row, attempts, req, calls, confirmedFacts>>
    BY DEF Environment, CancelWindow, RenameWindowStatus, EditTarget, Lapse, vars
  <1>. QED BY <1>1
    DEF Serially, SerialSound, Fits, ClaimedIsCurrent, RequestedIsUncalled, ConfirmedIsCovered,
        RiskFacts, Legal

LEMMA ProceedSerial ==
    ASSUME Serially, NEW r \in Requests, Proceed(r)
    PROVE  SerialSound' /\ Legal(row.status, row'.status)
  <1>1. ~Reread(r)
    BY DEF Reread, InRollback, Serially, SerialSound, Fits
  <1>. QED BY <1>1, SnapshotSerial, PreviewSerial, AuthorizeSerial, ConfirmSerial, ExecuteSerial,
       InvokeSerial, RecordExecutionSerial, VerifySerial, RequestRetrySerial, RefreshSerial,
       ClaimFirstSerial, ClaimRequestedSerial, InvokeRollbackSerial, RecordRollbackSerial,
       ReconcileSerial, RecoverSerial
    DEF Proceed

LEMMA NextSerial == Serially /\ [Next]_vars => SerialSound' /\ Legal(row.status, row'.status)
  <1>. SUFFICES ASSUME Serially, [Next]_vars
                PROVE  SerialSound' /\ Legal(row.status, row'.status)
    OBVIOUS
  <1>1. CASE Environment \/ UNCHANGED vars
    BY <1>1, EnvironmentSerial
  <1>2. ASSUME NEW r \in Requests, Arrive(r) \/ Proceed(r) \/ Abort(r)
        PROVE  SerialSound' /\ Legal(row.status, row'.status)
    BY <1>2, ArriveSerial, ProceedSerial, AbortSerial
  <1>. QED BY <1>1, <1>2 DEF Next

LEMMA InitSerial == Init => SerialSound
  BY IdleFits, ConstantsAssumption
  DEF Init, SerialSound, ClaimedIsCurrent, RequestedIsUncalled, ConfirmedIsCovered,
      Absent, CreatedRow, ActionAttemptPhase

\* While requests do not overlap, a request that is alone works on the
\* committed row, the row points at every claimed attempt, no requested
\* attempt has called the adapter, and a confirmed row is covered.
THEOREM SerialStaysSound == Spec /\ []OneInFlight => []SerialSound
  BY InitType, InitOwned, InitSerial, NextTypes, NextOwned, NextSerial, PTL DEF Spec, Serially

\* A rollback attempt calls the adapter at most once while requests do not
\* overlap, wherever they die.
THEOREM RolledBackOnce == Spec /\ []OneInFlight => []OneRollbackPerAttempt
  <1>1. SerialSound => OneRollbackPerAttempt
    BY DEF SerialSound, RequestedIsUncalled, OneRollbackPerAttempt
  <1>. QED BY <1>1, SerialStaysSound, PTL

\* Without overlapping requests an attempt whose request died can be
\* reconciled: the action waits in its phase and points at it.
THEOREM AbandonedIsReconcilable == Spec /\ []OneInFlight => []AbandonedCanBeReconciled
  <1>1. SerialSound => AbandonedCanBeReconciled
    BY DEF SerialSound, ClaimedIsCurrent, AbandonedCanBeReconciled
  <1>. QED BY <1>1, SerialStaysSound, PTL

LEMMA LegalSimulates ==
    ASSUME TypeOK', Legal(row.status, row'.status)
    PROVE  [Lifecycle!LifecycleNext]_(row.status)
  <1>1. row'.status \in Lifecycle!ActionStatus
    BY StatusesKnown DEF TypeOK, ActionRow
  <1>2. Lifecycle!MayTransition(row.status, row'.status) <=> MayTransition(row.status, row'.status)
    BY DEF Lifecycle!MayTransition, MayTransition, Lifecycle!ALLOWED_TRANSITIONS, ALLOWED_TRANSITIONS,
           Lifecycle!ActionStatus, ActionStatus
  <1>. QED BY <1>1, <1>2 DEF Legal, Lifecycle!LifecycleNext

\* Without overlapping requests the committed status follows the lifecycle
\* table of the domain, one path of table steps per commit.
THEOREM LifecycleImplemented == Spec /\ []OneInFlight => ImplementsLifecycle
  <1>1. Init => Lifecycle!LifecycleInit
    BY DEF Init, CreatedRow, Lifecycle!LifecycleInit
  <1>2. TypeOK /\ AttemptsOwned /\ SerialSound /\ OneInFlight /\ OneInFlight' /\ TypeOK'
          /\ [Next]_vars => [Lifecycle!LifecycleNext]_(row.status)
    BY NextSerial, LegalSimulates DEF Serially
  <1>. QED BY <1>1, <1>2, TypeCorrect, Ownership, SerialStaysSound, PTL
    DEF Spec, ImplementsLifecycle, Lifecycle!LifecycleSpec

----------------------------------------------------------------------------
(* What an execution claim relies on when requests do not overlap. *)

\* The claim is taken by a request whose copy is the committed row.
LEMMA ClaimIsCurrent ==
    ASSUME TypeOK, AttemptsOwned, SerialSound, OneInFlight, [Next]_vars,
           row.execution = None, row'.execution # None
    PROVE  \E r \in Requests : Fresh(r) /\ req[r].row = row /\ row.status = "CONFIRMED"
  <1>1. PICK r \in Requests : Execute(r) /\ ~MarkStale(r) /\ ~Reject(r)
    BY PointerStays
  <1>2. Fresh(r) /\ Claimable /\ Checking(r, "execute")
    BY <1>1 DEF Execute
  <1>. QED BY <1>2 DEF Checking, SerialSound, Fits, Claimable

\* Without overlapping requests an action linked to a window is only
\* executed on facts that an operator's confirmation covered.
THEOREM ConfirmedIsExecuted == Spec /\ []OneInFlight => ExecutesConfirmedFacts
  <1>1. ASSUME TypeOK, AttemptsOwned, SerialSound, OneInFlight, [Next]_vars,
               Linked, row.execution = None, row'.execution # None
        PROVE  [window |-> window, target |-> target] \in confirmedFacts
    <2>1. PICK r \in Requests : Fresh(r) /\ req[r].row = row /\ row.status = "CONFIRMED"
      BY <1>1, ClaimIsCurrent
    <2>2. window = row.bound.window /\ target = row.bound.target
      BY <1>1, <2>1 DEF Fresh, Seen, WindowBinding
    <2>3. row.bound \in [window : WindowFacts \cup {None}, target : TargetFacts]
      BY <1>1 DEF TypeOK, ActionRow, Binding
    <2>4. row.bound = [window |-> window, target |-> target]
      BY <2>2, <2>3
    <2>. QED BY <1>1, <2>1, <2>4 DEF SerialSound, ConfirmedIsCovered
  <1>2. TypeOK /\ AttemptsOwned /\ SerialSound /\ OneInFlight /\ [Next]_vars =>
           [ (Linked /\ row.execution = None /\ row'.execution # None) =>
                 [window |-> window, target |-> target] \in confirmedFacts ]_vars
    BY <1>1
  <1>. QED BY <1>2, TypeCorrect, Ownership, SerialStaysSound, PTL DEF Spec, ExecutesConfirmedFacts

\* Without overlapping requests a high-risk action is only claimed while it
\* carries the approval, recovery, authorization and confirmation facts.
THEOREM ApprovedIsExecuted == Spec /\ []OneInFlight => ExecutesApproved
  <1>1. ASSUME TypeOK, AttemptsOwned, SerialSound, OneInFlight, [Next]_vars,
               HighRisk, row.execution = None, row'.execution # None
        PROVE  row.approved /\ row.recovery /\ row.authorized /\ row.confirmed
    BY <1>1, ClaimIsCurrent DEF SerialSound, ConfirmedIsCovered, RiskFacts
  <1>2. TypeOK /\ AttemptsOwned /\ SerialSound /\ OneInFlight /\ [Next]_vars =>
           [ (HighRisk /\ row.execution = None /\ row'.execution # None) =>
                 row.approved /\ row.recovery /\ row.authorized /\ row.confirmed ]_vars
    BY <1>1
  <1>. QED BY <1>2, TypeCorrect, Ownership, SerialStaysSound, PTL DEF Spec, ExecutesApproved
==============================================================================
