------------------------- MODULE OperationalActions -------------------------
(***************************************************************************)
(* One operational action, the maintenance window and the device it refers *)
(* to, and the concurrent HTTP requests that act on it.                    *)
(*                                                                         *)
(* A request owns a database session for its whole life.  The session      *)
(* reads the action row once and keeps it (expire_on_commit=False,         *)
(* autoflush=False, database.py), so every later decision of the request   *)
(* is taken on that copy until a rollback or refresh reads the row again.  *)
(* A SELECT is a transaction of its own; the first INSERT or UPDATE takes  *)
(* SQLite's single write lock, which lasts until the commit.  A request is *)
(* therefore a chain of atomic reads and atomic write transactions, and    *)
(* other requests run between two links of the chain.  A flush writes the  *)
(* columns the request changed, with no version check (Flush below).       *)
(*                                                                         *)
(* Source: backend/app/operational_actions/service.py,                     *)
(*         backend/app/maintenance_windows.py, backend/app/api/maintenance.py *)
(***************************************************************************)
EXTENDS ActionStatuses, Naturals

CONSTANTS
    Requests,       \* the requests that can be in flight at the same time
    AttemptIds,     \* identities of execution and rollback attempts
    None,           \* NULL
    Linked,         \* is the action linked to a maintenance window?
    HighRisk,       \* does its definition require approval and recovery facts?
    Ops,            \* the operations clients call in this instance
    Faults,         \* may a request die between two of its steps?
    MaxPreviews,    \* bound on successful previews
    MaxEdits        \* bound on edits of the device and of the window

Operations == { "preview", "authorize", "confirm", "execute",
                "verify", "rollback", "reconcile", "recover" }

ASSUME ConstantsAssumption ==
    /\ None \notin AttemptIds \cup ActionAttemptPhase
    /\ Linked \in BOOLEAN
    /\ HighRisk \in BOOLEAN
    /\ Faults \in BOOLEAN
    /\ Ops \subseteq Operations
    /\ MaxPreviews \in Nat
    /\ MaxEdits \in Nat

VARIABLES
    row,        \* the operational_actions row, as committed
    attempts,   \* the operational_action_attempts rows, by id
    window,     \* the linked maintenance_windows row
    target,     \* the target device's row
    issued,     \* number of preview tokens issued
    lapsed,     \* tokens up to this one have passed preview_expires_at
    req,        \* the requests in flight
    calls,      \* observation: adapter invocations made for each attempt
    confirmedFacts \* observation: the facts an operator's confirmation covered

dbVars == <<row, attempts, window, target, issued, lapsed>>
vars   == <<row, attempts, window, target, issued, lapsed, req, calls, confirmedFacts>>

----------------------------------------------------------------------------
(* Data *)

TargetFacts == [rev : 0..MaxEdits, cond : {"live", "decommissioned", "missing"}]
WindowFacts == [rev : 0..MaxEdits, state : {"active", "cancelled"}]
Binding     == [window : WindowFacts \cup {None}, target : TargetFacts]

(* The facts columns are kept as "is it filled in?": the code only tests   *)
(* them for emptiness.  token stands for preview_token (0 is NULL) and     *)
(* bound for precondition_snapshot, target_set_hash and the target rows.   *)
ActionRow ==
    [ status     : ActionStatus,
      token      : 0..MaxPreviews,
      bound      : Binding,
      authorized : BOOLEAN,              \* authorization_facts
      approved   : BOOLEAN,              \* approval_facts
      recovery   : BOOLEAN,              \* recovery_facts
      confirmed  : BOOLEAN,              \* confirmation_facts
      execution  : AttemptIds \cup {None},  \* execution_attempt_id
      rollback   : AttemptIds \cup {None} ] \* rollback_attempt_id

AttemptRow ==
    [phase : ActionAttemptPhase \cup {None}, status : ActionAttemptStatus \cup {"ABSENT"}]

Absent == [phase |-> None, status |-> "ABSENT"]

Steps == { "idle",       \* no request in this slot
           "loaded",     \* the action row has been read
           "checked",    \* the target devices have been read too
           "claimed",    \* an execution claim is committed
           "called",     \* the adapter has returned
           "reread",     \* a lost retry request reads the row again
           "refresh2", "refresh3", "refresh4",   \* a rollback write is
           "stage2", "stage3", "stage4" }        \* committed; what follows

(* A request: the operation, where it is, its copy of the row, and for     *)
(* rollback and reconcile the attempt it names.  held: the session's       *)
(* identity map holds that attempt in an open status.                      *)
Request ==
    [ op      : Operations \cup {"none"},
      step    : Steps,
      row     : ActionRow,
      attempt : AttemptIds \cup {None},
      held    : BOOLEAN,
      execute : BOOLEAN,                 \* rollback: the execute flag
      facts   : BOOLEAN,                 \* recovery_facts in the request body
      seen    : [target : TargetFacts, lapsed : 0..MaxPreviews] ]

InitTarget == [rev |-> 0, cond |-> "live"]
InitWindow == [rev |-> 0, state |-> "active"]

\* create_action: the row as the creating transaction commits it
CreatedRow ==
    [ status |-> "CREATED", token |-> 0,
      bound |-> [window |-> None, target |-> InitTarget],
      authorized |-> FALSE, approved |-> FALSE, recovery |-> FALSE, confirmed |-> FALSE,
      execution |-> None, rollback |-> None ]

Idle == [ op |-> "none", step |-> "idle", row |-> CreatedRow, attempt |-> None,
          held |-> FALSE, execute |-> FALSE, facts |-> FALSE,
          seen |-> [target |-> InitTarget, lapsed |-> 0] ]

Init ==
    /\ row = CreatedRow
    /\ attempts = [a \in AttemptIds |-> Absent]
    /\ window = InitWindow
    /\ target = InitTarget
    /\ issued = 0
    /\ lapsed = 0
    /\ req = [r \in Requests |-> Idle]
    /\ calls = [a \in AttemptIds |-> 0]
    /\ confirmedFacts = {}

----------------------------------------------------------------------------
(* Sessions *)

\* A flush emits UPDATE ... SET only for columns whose new value differs
\* from the value the session loaded; the others keep what is committed.
Written(loaded, new, committed) == IF new = loaded THEN committed ELSE new

FactColumns == {"authorized", "approved", "recovery", "confirmed"}

\* Facts that stay filled in may still have other contents than the loaded
\* ones; the columns in refilled do, and are written.
FlushFacts(c, n, refilled) ==
    LET fact(f) == IF n[f] /\ f \in refilled THEN TRUE ELSE Written(c[f], n[f], row[f])
    IN  [ status     |-> Written(c.status, n.status, row.status),
          token      |-> Written(c.token, n.token, row.token),
          bound      |-> Written(c.bound, n.bound, row.bound),
          authorized |-> fact("authorized"),
          approved   |-> fact("approved"),
          recovery   |-> fact("recovery"),
          confirmed  |-> fact("confirmed"),
          execution  |-> row.execution,      \* only ever set by the claims
          rollback   |-> row.rollback ]

Flush(c, n) == FlushFacts(c, n, {})

\* Request r goes on as q; it returns; attempt a is inserted; it gets a
\* new status.
Move(r, q) == req' = [req EXCEPT ![r] = q]
Return(r) == Move(r, Idle)
Insert(a, p, s) == attempts' = [attempts EXCEPT ![a] = [phase |-> p, status |-> s]]
SetStatus(a, s) == attempts' = [attempts EXCEPT ![a].status = s]

\* A request is accepted and reads the action row (_get_action).
Load(r, o, a, exec, given) ==
    /\ o \in Ops
    /\ req[r].step = "idle"
    /\ Move(r, [Idle EXCEPT !.op = o, !.step = "loaded", !.row = row,
                            !.attempt = a, !.execute = exec, !.facts = given])
    /\ UNCHANGED <<dbVars, calls, confirmedFacts>>

\* A request that dies: the database stays locked too long, the event
\* sequence number collides, the client disconnects, the process stops.
Abort(r) ==
    /\ Faults
    /\ req[r].step # "idle"
    /\ Return(r)
    /\ UNCHANGED <<dbVars, calls, confirmedFacts>>

----------------------------------------------------------------------------
(* Preconditions: _window_preconditions, _target_snapshots and             *)
(* _ensure_fresh_preview.                                                  *)

\* Without a linked window nothing locks the database before the first
\* write, so the target snapshot is a read of its own.  With one,
\* locked_window's UPDATE takes the write lock first and the reads below
\* belong to the transaction that commits the outcome.
Snapshot(r) ==
    /\ ~Linked
    /\ req[r].op \in {"preview", "authorize", "confirm", "execute"}
    /\ req[r].step = "loaded"
    /\ Move(r, [req[r] EXCEPT !.step = "checked",
                              !.seen = [target |-> target, lapsed |-> lapsed]])
    /\ UNCHANGED <<dbVars, calls, confirmedFacts>>

Checking(r, o) ==
    /\ req[r].op = o
    /\ req[r].step = IF Linked THEN "loaded" ELSE "checked"

Seen(r) == IF Linked THEN [target |-> target, lapsed |-> lapsed] ELSE req[r].seen

WindowBinding == IF Linked THEN window ELSE None

WindowUsable == Linked => window.state = "active"

\* Seeded fault: the window is not looked at again.
FreshTargetOnly(r) ==
    LET c == req[r].row
        s == Seen(r)
    IN  s.lapsed < c.token /\ s.target = c.bound.target /\ s.target.cond = "live"

\* Seeded fault: the target devices are not looked at again.
FreshWindowOnly(r) ==
    LET c == req[r].row
    IN  Seen(r).lapsed < c.token /\ WindowUsable /\ WindowBinding = c.bound.window

\* _ensure_fresh_preview: not expired, the window is active and unchanged,
\* the targets exist, are unchanged and not decommissioned.
Fresh(r) ==
    LET c == req[r].row
        s == Seen(r)
    IN  /\ s.lapsed < c.token
        /\ WindowUsable
        /\ WindowBinding = c.bound.window
        /\ s.target = c.bound.target
        /\ s.target.cond = "live"

\* _mark_stale, committed before the error is raised
MarkStale(r) ==
    LET c == req[r].row
    IN  /\ row' = Flush(c, [c EXCEPT !.status = "STALE", !.authorized = FALSE,
                                     !.approved = FALSE, !.confirmed = FALSE])
        /\ Return(r)
        /\ UNCHANGED <<attempts, window, target, issued, lapsed, calls, confirmedFacts>>

\* The request ends with an error, and its session rolls back.
Reject(r) ==
    /\ Return(r)
    /\ UNCHANGED <<dbVars, calls, confirmedFacts>>

----------------------------------------------------------------------------
(* Planning: preview_action, authorize_action, confirm_action *)

LoadPreview(r) == row.status \in Previewable /\ Load(r, "preview", None, FALSE, FALSE)

\* A preview fails, and leaves the action STALE, when the linked window is
\* not active or a target is missing or decommissioned.  Otherwise it binds
\* what it has just seen under a new token and clears what was granted
\* under an earlier one.
Preview(r) ==
    LET c == req[r].row
        s == Seen(r)
        usable == WindowUsable /\ s.target.cond = "live"
    IN  /\ Checking(r, "preview")
        /\ \/ ~usable /\ MarkStale(r)
           \/ /\ usable
              /\ issued < MaxPreviews
              /\ issued' = issued + 1
              /\ row' = Flush(c, [c EXCEPT !.status = "PREVIEWED", !.token = issued + 1,
                                           !.bound = [window |-> WindowBinding, target |-> s.target],
                                           !.authorized = FALSE, !.approved = FALSE,
                                           !.recovery = FALSE, !.confirmed = FALSE])
              /\ Return(r)
              /\ UNCHANGED <<attempts, window, target, lapsed, calls, confirmedFacts>>

\* Seeded fault: the recovery facts of a high-risk definition are not asked for.
RiskFactsApprovalOnly(approval, recovery) == HighRisk => approval

\* What a high-risk definition asks for (APPROVAL_FACTS_REQUIRED,
\* RECOVERY_FACTS_REQUIRED).
RiskFacts(approval, recovery) == HighRisk => approval /\ recovery

LoadAuthorize(r) ==
    /\ row.status \in Reviewed
    /\ row.token # 0                     \* PREVIEW_TOKEN_MISMATCH
    /\ \E given \in BOOLEAN : Load(r, "authorize", None, FALSE, given)

\* approval: the request carries approval facts; confirm: its confirm flag
Authorize(r) ==
    LET c == req[r].row
    IN  /\ Checking(r, "authorize")
        /\ \/ ~Fresh(r) /\ MarkStale(r)
           \/ \E approval, confirm \in BOOLEAN, refilled \in SUBSET FactColumns :
                /\ Fresh(r)
                /\ \/ ~RiskFacts(approval, req[r].facts) /\ Reject(r)
                   \/ /\ RiskFacts(approval, req[r].facts)
                      /\ "confirmed" \in refilled => confirm
                      \* authorization_facts holds a hash of the other two
                      /\ (\/ refilled \cap {"approved", "recovery"} # {}
                          \/ <<approval, req[r].facts>> # <<c.approved, c.recovery>>)
                         => "authorized" \in refilled
                      /\ row' = FlushFacts(c, [c EXCEPT !.status = IF confirm THEN "CONFIRMED" ELSE "AUTHORIZED",
                                                        !.approved = approval, !.recovery = req[r].facts,
                                                        !.authorized = TRUE,
                                                        !.confirmed = confirm \/ c.confirmed],
                                          refilled)
                      /\ confirmedFacts' = IF confirm THEN confirmedFacts \cup {c.bound} ELSE confirmedFacts
                      /\ Return(r)
                      /\ UNCHANGED <<attempts, window, target, issued, lapsed, calls>>

LoadConfirm(r) ==
    /\ row.status \in Reviewed
    /\ row.token # 0
    /\ Load(r, "confirm", None, FALSE, FALSE)

Confirm(r) ==
    LET c == req[r].row
    IN  /\ Checking(r, "confirm")
        /\ \/ ~Fresh(r) /\ MarkStale(r)
           \/ Fresh(r) /\ ~RiskFacts(c.approved, c.recovery) /\ Reject(r)
           \/ /\ Fresh(r)
              /\ RiskFacts(c.approved, c.recovery)
              /\ \E refilled \in SUBSET {"confirmed"} :
                    row' = FlushFacts(c, [c EXCEPT !.status = "CONFIRMED", !.authorized = TRUE,
                                                   !.confirmed = TRUE], refilled)
              /\ confirmedFacts' = confirmedFacts \cup {c.bound}
              /\ Return(r)
              /\ UNCHANGED <<attempts, window, target, issued, lapsed, calls>>

----------------------------------------------------------------------------
(* Execution: execute_action, record_verification *)

LoadExecute(r) ==
    /\ row.status = "CONFIRMED"
    /\ row.token # 0
    /\ Load(r, "execute", None, FALSE, FALSE)

\* Seeded fault: the claim's UPDATE matches on the status alone.
ClaimableByStatus == row.status = "CONFIRMED"

\* WHERE status = 'CONFIRMED' AND execution_attempt_id IS NULL
Claimable == row.status = "CONFIRMED" /\ row.execution = None

\* Seeded fault: the identity of a finished attempt may be inserted again.
UnusedOrFinished(a) == attempts[a].status \in {"ABSENT", "COMPLETED"}

\* An attempt identity is a primary key: it is inserted once.
Unused(a) == attempts[a] = Absent

\* The conditional UPDATE that claims the action, with the attempt row and
\* the event of the same transaction.  Attempt identities are fresh uuids.
Execute(r) ==
    LET c == req[r].row
    IN  /\ Checking(r, "execute")
        /\ \/ ~Fresh(r) /\ MarkStale(r)
           \/ Fresh(r) /\ ~(c.authorized /\ c.confirmed /\ Claimable) /\ Reject(r)
           \/ /\ Fresh(r)
              /\ c.authorized /\ c.confirmed
              /\ Claimable
              /\ \E a \in AttemptIds :
                    /\ Unused(a)
                    /\ row' = [row EXCEPT !.status = "EXECUTING", !.execution = a]
                    /\ Insert(a, "EXECUTION", "CLAIMED")
                    /\ Move(r, [req[r] EXCEPT !.step = "claimed", !.attempt = a])
              /\ UNCHANGED <<window, target, issued, lapsed, calls, confirmedFacts>>

\* Seeded fault: the row is not refreshed after the claim's commit.
InvokeUnrefreshed(r) ==
    /\ req[r].op = "execute"
    /\ req[r].step = "claimed"
    /\ Move(r, [req[r] EXCEPT !.step = "called"])
    /\ calls' = [calls EXCEPT ![req[r].attempt] = @ + 1]
    /\ UNCHANGED <<dbVars, confirmedFacts>>

\* After the claim's commit: refresh the row, then call the adapter.
Invoke(r) ==
    /\ req[r].op = "execute"
    /\ req[r].step = "claimed"
    /\ Move(r, [req[r] EXCEPT !.step = "called", !.row = row])
    /\ calls' = [calls EXCEPT ![req[r].attempt] = @ + 1]
    /\ UNCHANGED <<dbVars, confirmedFacts>>

\* Seeded fault: the attempt's status is recorded as the action's.
OutcomeOfAttempt == {"COMPLETED", "FAILED"}

\* _outcome_status
ExecutionOutcome == {"SUCCEEDED", "FAILED"}

\* Record the adapter's outcome.  The transition is checked against the
\* session's copy of the status; when that is not EXECUTING,
\* require_transition raises and nothing is recorded.
RecordExecution(r) ==
    LET c == req[r].row
    IN  /\ req[r].op = "execute"
        /\ req[r].step = "called"
        /\ \/ c.status # "EXECUTING" /\ Reject(r)
           \/ /\ c.status = "EXECUTING"
              /\ \E outcome \in ExecutionOutcome :
                    row' = Flush(c, [c EXCEPT !.status = outcome])
              /\ SetStatus(req[r].attempt, "COMPLETED")
              /\ Return(r)
              /\ UNCHANGED <<window, target, issued, lapsed, calls, confirmedFacts>>

LoadVerify(r) == row.status = "SUCCEEDED" /\ Load(r, "verify", None, FALSE, FALSE)

Verify(r) ==
    LET c == req[r].row
    IN  /\ req[r].op = "verify"
        /\ req[r].step = "loaded"
        /\ \E outcome \in {"VERIFIED", "VERIFICATION_FAILED"} :
              row' = Flush(c, [c EXCEPT !.status = outcome])
        /\ Return(r)
        /\ UNCHANGED <<attempts, window, target, issued, lapsed, calls, confirmedFacts>>

----------------------------------------------------------------------------
(* Rollback: request_or_execute_rollback.  The function has three blocks,  *)
(* each a conditional UPDATE that only applies to some statuses of the     *)
(* session's copy, then the adapter call.  "loaded", "stage2", "stage3"    *)
(* and "stage4" are the points where the next block is chosen.             *)

LoadRollback(r) ==
    \E a \in AttemptIds \cup {None}, exec, given \in BOOLEAN :
        /\ row.status \in RollbackSource \cup RetrySource \cup {"ROLLBACK_REQUESTED"}
        /\ HighRisk => given \/ row.recovery        \* RECOVERY_FACTS_REQUIRED
        /\ row.status \in RetrySource => a # None /\ a # row.rollback
        /\ Load(r, "rollback", a, exec, given)

\* recovery_facts given in the body are written by the first flush of the
\* request only, and only when they differ from the loaded ones.
WithFacts(r) ==
    IF req[r].step = "loaded" /\ req[r].facts
    THEN IF req[r].row.recovery THEN {row.recovery, TRUE} ELSE {TRUE}
    ELSE {row.recovery}

InRollback(r, steps) == req[r].op = "rollback" /\ req[r].step \in steps

\* First block: a new attempt after a failed or unknown one.  A primary key
\* that is already taken raises IntegrityError; a lost race re-reads.
RequestRetry(r) ==
    LET c == req[r].row
        a == req[r].attempt
        won == row.status \in RetrySource /\ row.rollback = c.rollback
    IN  /\ InRollback(r, {"loaded"})
        /\ c.status \in RetrySource
        /\ \/ won /\ ~Unused(a) /\ Reject(r)
           \/ /\ won
              /\ Unused(a)
              /\ \E recovery \in WithFacts(r) :
                    row' = [row EXCEPT !.status = "ROLLBACK_REQUESTED", !.rollback = a,
                                       !.recovery = recovery]
              /\ Insert(a, "ROLLBACK", "REQUESTED")
              /\ Move(r, IF req[r].execute
                         THEN [req[r] EXCEPT !.step = "refresh2", !.held = TRUE] ELSE Idle)
              /\ UNCHANGED <<window, target, issued, lapsed, calls, confirmedFacts>>
           \/ /\ ~won
              /\ Move(r, [req[r] EXCEPT !.step = "reread"])
              /\ UNCHANGED <<dbVars, calls, confirmedFacts>>

\* The loser of that race adopts the current row when it carries the
\* identity this request asked for.
Reread(r) ==
    /\ InRollback(r, {"reread"})
    /\ Move(r, IF row.rollback = req[r].attempt /\ req[r].execute
               THEN [req[r] EXCEPT !.step = "stage2", !.row = row] ELSE Idle)
    /\ UNCHANGED <<dbVars, calls, confirmedFacts>>

\* db.refresh(action) after a commit of this request
Refresh(r) ==
    /\ InRollback(r, {"refresh2", "refresh3", "refresh4"})
    /\ Move(r, [req[r] EXCEPT !.row = row,
                              !.step = CASE @ = "refresh2" -> "stage2"
                                         [] @ = "refresh3" -> "stage3"
                                         [] OTHER -> "stage4"])
    /\ UNCHANGED <<dbVars, calls, confirmedFacts>>

\* Second block: the first rollback attempt of a finished execution, either
\* requested only or claimed at once.  Every way of losing it returns.
ClaimFirst(r) ==
    LET c == req[r].row
        won == row.status \in RollbackSource /\ row.rollback = None
    IN  /\ InRollback(r, {"loaded", "stage2"})
        /\ c.status \in RollbackSource
        /\ \/ ~won /\ Reject(r)
           \/ \E a \in IF req[r].attempt = None
                       THEN {b \in AttemptIds : Unused(b)}
                       ELSE {req[r].attempt} :
                 /\ won
                 /\ c.rollback = None
                 /\ \/ ~Unused(a) /\ Reject(r)
                    \/ /\ Unused(a)
                       /\ \E recovery \in WithFacts(r) :
                             row' = [row EXCEPT !.status = IF req[r].execute THEN "ROLLING_BACK"
                                                                             ELSE "ROLLBACK_REQUESTED",
                                                !.rollback = a, !.recovery = recovery]
                       /\ Insert(a, "ROLLBACK", IF req[r].execute THEN "CLAIMED" ELSE "REQUESTED")
                       /\ Move(r, IF req[r].execute
                                  THEN [req[r] EXCEPT !.step = "refresh3", !.attempt = a, !.held = TRUE]
                                  ELSE Idle)
                       /\ UNCHANGED <<window, target, issued, lapsed, calls, confirmedFacts>>

\* Seeded fault: the claim of a requested attempt ignores the status.
RequestedByIdentity(a) == row.rollback = a

\* WHERE status = 'ROLLBACK_REQUESTED' AND rollback_attempt_id = a
Requested(a) == row.status = "ROLLBACK_REQUESTED" /\ row.rollback = a

\* Third block: claim the requested attempt.
ClaimRequested(r) ==
    LET c == req[r].row
        a == c.rollback
        won == Requested(a)
    IN  /\ InRollback(r, {"loaded", "stage2", "stage3"})
        /\ c.status = "ROLLBACK_REQUESTED"
        /\ \/ ~won /\ Reject(r)
           \/ /\ won
              /\ \E recovery \in WithFacts(r) :
                    row' = [row EXCEPT !.status = "ROLLING_BACK", !.recovery = recovery]
              /\ SetStatus(a, "CLAIMED")
              /\ Move(r, [req[r] EXCEPT !.step = "refresh4", !.attempt = a, !.held = TRUE])
              /\ UNCHANGED <<window, target, issued, lapsed, calls, confirmedFacts>>

\* Seeded fault: the adapter is only called for an attempt not yet claimed.
OnlyRequested(s) == s = "REQUESTED"

\* Neither OUTCOME_UNKNOWN (an error) nor COMPLETED (the row is returned)
OpenAttempt(s) == s \in {"REQUESTED", "CLAIMED"}

\* No block applies any more: call the adapter for the row's attempt when
\* the row is ROLLING_BACK and the attempt, as this session knows it, is
\* open; otherwise return.
InvokeRollback(r) ==
    LET c == req[r].row
        a == c.rollback
        known == IF req[r].held /\ req[r].attempt = a THEN "CLAIMED"
                 ELSE IF a = None THEN "ABSENT" ELSE attempts[a].status
        go == c.status = "ROLLING_BACK" /\ OpenAttempt(known)
    IN  /\ InRollback(r, {"stage2", "stage3", "stage4"})
        /\ req[r].step = "stage2" => c.status \notin RollbackSource
        /\ req[r].step \in {"stage2", "stage3"} => c.status # "ROLLBACK_REQUESTED"
        /\ \/ ~go /\ Reject(r)
           \/ /\ go
              /\ calls' = [calls EXCEPT ![a] = @ + 1]
              /\ Move(r, [req[r] EXCEPT !.step = "called", !.attempt = a])
              /\ UNCHANGED <<dbVars, confirmedFacts>>

RecordRollback(r) ==
    LET c == req[r].row
    IN  /\ InRollback(r, {"called"})
        /\ \E outcome \in {"ROLLED_BACK", "ROLLBACK_FAILED"} :
              row' = Flush(c, [c EXCEPT !.status = outcome])
        /\ SetStatus(req[r].attempt, "COMPLETED")
        /\ Return(r)
        /\ UNCHANGED <<window, target, issued, lapsed, calls, confirmedFacts>>

----------------------------------------------------------------------------
(* Reconciliation and recovery: reconcile_action_attempt, record_recovery  *)

\* An attempt can be reconciled when the action is in the attempt's phase
\* and points at it.
LoadReconcile(r) ==
    \E a \in AttemptIds :
        /\ attempts[a].status \notin {"ABSENT", "COMPLETED"}
        /\ \/ row.status = "EXECUTING" /\ attempts[a].phase = "EXECUTION" /\ row.execution = a
           \/ row.status = "ROLLING_BACK" /\ attempts[a].phase = "ROLLBACK" /\ row.rollback = a
        /\ Load(r, "reconcile", a, FALSE, FALSE)

Reconcile(r) ==
    LET c == req[r].row
        a == req[r].attempt
    IN  /\ req[r].op = "reconcile"
        /\ req[r].step = "loaded"
        /\ \/ attempts[a].status # "CLAIMED" /\ Reject(r)
           \/ /\ attempts[a].status = "CLAIMED"
              /\ SetStatus(a, "OUTCOME_UNKNOWN")
              /\ row' = Flush(c, [c EXCEPT !.status = "RECOVERY_REQUIRED"])
              /\ Return(r)
              /\ UNCHANGED <<window, target, issued, lapsed, calls, confirmedFacts>>

LoadRecover(r) ==
    /\ row.status \in Recoverable
    /\ \E given \in BOOLEAN : Load(r, "recover", None, FALSE, given)

\* Resolved needs recovery facts; unresolved leaves the action where it is,
\* in RECOVERY_REQUIRED.
Recover(r) ==
    LET c == req[r].row
        known == c.recovery \/ req[r].facts
    IN  /\ req[r].op = "recover"
        /\ req[r].step = "loaded"
        /\ \E outcome \in {"RECOVERED", "RECOVERY_REQUIRED"}, refilled \in SUBSET {"recovery"} :
              /\ outcome = "RECOVERED" => known
              /\ refilled # {} => req[r].facts
              /\ row' = FlushFacts(c, [c EXCEPT !.status = outcome, !.recovery = known], refilled)
        /\ Return(r)
        /\ UNCHANGED <<attempts, window, target, issued, lapsed, calls, confirmedFacts>>

----------------------------------------------------------------------------
(* The rest of the system *)

\* Seeded fault: an attempt whose outcome is unknown counts as resolved.
NotYetSettled == {"REQUESTED", "CLAIMED"}

\* The attempts that keep a window from being cancelled.
Unresolved == {"REQUESTED", "CLAIMED", "OUTCOME_UNKNOWN"}

\* cancel_maintenance_window: one transaction under the window's lock
CancelWindow ==
    /\ Linked
    /\ window.state = "active"
    /\ row.status \notin CancelBlocking
    /\ \A a \in AttemptIds : attempts[a].status \notin Unresolved
    /\ window' = [window EXCEPT !.state = "cancelled"]
    /\ UNCHANGED <<row, attempts, target, issued, lapsed, req, calls, confirmedFacts>>

\* Renaming a status option rewrites the status of the windows that use it.
RenameWindowStatus ==
    /\ Linked
    /\ window.rev < MaxEdits
    /\ window' = [window EXCEPT !.rev = @ + 1]
    /\ UNCHANGED <<row, attempts, target, issued, lapsed, req, calls, confirmedFacts>>

\* The device is edited, decommissioned, archived or restored elsewhere:
\* an edit that the snapshot (its fields and updated_at) shows.
EditTarget ==
    /\ target.rev < MaxEdits
    /\ \E cond \in {"live", "decommissioned", "missing"} :
          target' = [rev |-> target.rev + 1, cond |-> cond]
    /\ UNCHANGED <<row, attempts, window, issued, lapsed, req, calls, confirmedFacts>>

\* preview_expires_at of the oldest unexpired token passes.
Lapse ==
    /\ lapsed < issued
    /\ lapsed' = lapsed + 1
    /\ UNCHANGED <<row, attempts, window, target, issued, req, calls, confirmedFacts>>

\* A client calls an endpoint.
Arrive(r) ==
    \/ LoadPreview(r) \/ LoadAuthorize(r) \/ LoadConfirm(r) \/ LoadExecute(r)
    \/ LoadVerify(r) \/ LoadRollback(r) \/ LoadReconcile(r) \/ LoadRecover(r)

\* The event loop resumes a request that is in flight.
Proceed(r) ==
    \/ Snapshot(r) \/ Preview(r) \/ Authorize(r) \/ Confirm(r)
    \/ Execute(r) \/ Invoke(r) \/ RecordExecution(r) \/ Verify(r)
    \/ RequestRetry(r) \/ Reread(r) \/ Refresh(r) \/ ClaimFirst(r) \/ ClaimRequested(r)
    \/ InvokeRollback(r) \/ RecordRollback(r) \/ Reconcile(r) \/ Recover(r)

Environment == CancelWindow \/ RenameWindowStatus \/ EditTarget \/ Lapse

Next == Environment \/ \E r \in Requests : Arrive(r) \/ Proceed(r) \/ Abort(r)

Spec == Init /\ [][Next]_vars

\* A request in flight that nothing kills is resumed until it returns.
Fairness == \A r \in Requests : WF_vars(Proceed(r))

FairSpec == Spec /\ Fairness
----------------------------------------------------------------------------
(* Properties *)

\* Type invariant.
TypeOK ==
    /\ row \in ActionRow
    /\ attempts \in [AttemptIds -> AttemptRow]
    /\ window \in WindowFacts
    /\ target \in TargetFacts
    /\ issued \in 0..MaxPreviews
    /\ lapsed \in 0..MaxPreviews
    /\ req \in [Requests -> Request]
    /\ calls \in [AttemptIds -> Nat]
    /\ confirmedFacts \subseteq Binding

\* The execution adapter is called at most once in the life of the action,
\* however many execute requests, crashes and retries there are: the claim
\* of execute_action is won once, by one request.
OneExecution ==
    /\ \A a, b \in AttemptIds :
          attempts[a].phase = "EXECUTION" /\ attempts[b].phase = "EXECUTION" => a = b
    /\ \A a \in AttemptIds : attempts[a].phase = "EXECUTION" => calls[a] <= 1

\* A cancelled window has no execution under way or in doubt: cancellation
\* and the execution claim decide under the same database lock.
CancelledIsQuiescent ==
    window.state = "cancelled" =>
        /\ \A a \in AttemptIds : attempts[a].phase = "EXECUTION" => attempts[a].status = "COMPLETED"
        /\ \A r \in Requests : req[r].op = "execute" => req[r].step \notin {"claimed", "called"}

\* A claim is taken on the facts the claiming request's preview was bound
\* to: the window is active and, like the target, exactly as it was then.
ClaimsOnBoundFacts ==
    [][ (row.execution = None /\ row'.execution # None) =>
            /\ WindowUsable
            /\ target.cond = "live"
            /\ \E r \in Requests :
                  /\ req'[r].step = "claimed"
                  /\ req[r].row.bound = [window |-> WindowBinding, target |-> target] ]_vars

\* The attempt rows behave like the ledger of AttemptLedger, whatever the
\* interleaving of requests: identities are never reused, attempts never
\* move back, one execution, none in a cancelled window.
Ledger == INSTANCE AttemptLedger WITH ledger <- attempts, open <- window.state = "active"
ImplementsLedger == Ledger!LedgerSpec

\* Every committed change of status is one the lifecycle table allows.
Lifecycle == INSTANCE ActionLifecycle WITH status <- row.status
ImplementsLifecycle == Lifecycle!LifecycleSpec

\* Execution of a linked action only starts on facts an operator's
\* confirmation has covered: the window and the target as they are at the
\* claim were shown by a preview that was confirmed.
ExecutesConfirmedFacts ==
    [][ (Linked /\ row.execution = None /\ row'.execution # None) =>
            [window |-> window, target |-> target] \in confirmedFacts ]_vars

\* A high-risk action is claimed for execution only while the row carries
\* the approval, recovery, authorization and confirmation facts.
ExecutesApproved ==
    [][ (HighRisk /\ row.execution = None /\ row'.execution # None) =>
            row.approved /\ row.recovery /\ row.authorized /\ row.confirmed ]_vars

\* A rollback attempt calls the adapter at most once.
OneRollbackPerAttempt ==
    \A a \in AttemptIds : attempts[a].phase = "ROLLBACK" => calls[a] <= 1

\* The request that holds an attempt, if it is still in flight.
InFlight(a) ==
    \E r \in Requests : /\ req[r].op \in {"execute", "rollback"}
                        /\ req[r].attempt = a
                        /\ req[r].step \in {"claimed", "called", "refresh2", "refresh3", "refresh4",
                                            "stage2", "stage3", "stage4"}

\* An attempt whose request is gone can be reconciled: the action is in the
\* attempt's phase and points at it.
AbandonedCanBeReconciled ==
    \A a \in AttemptIds :
        attempts[a].status = "CLAIMED" /\ ~InFlight(a) =>
            \/ attempts[a].phase = "EXECUTION" /\ row.status = "EXECUTING" /\ row.execution = a
            \/ attempts[a].phase = "ROLLBACK" /\ row.status = "ROLLING_BACK" /\ row.rollback = a

\* Once recovery is recorded as resolved, no attempt of the action keeps
\* the linked window from being cancelled.
RecoveredFreesWindow ==
    row.status = "RECOVERED" =>
        \A a \in AttemptIds : attempts[a].status \notin Unresolved

\* When no request is killed, every claimed attempt gets an outcome.
ClaimsSettle ==
    \A a \in AttemptIds :
        attempts[a].status = "CLAIMED" ~> attempts[a].status \in {"COMPLETED", "OUTCOME_UNKNOWN"}

----------------------------------------------------------------------------
(* The inductive invariant behind OneExecution, CancelledIsQuiescent and   *)
(* ImplementsLedger: who owns which attempt, in every state.               *)

Executing(r) == req[r].op = "execute" /\ req[r].step \in {"claimed", "called"}

\* A row (the committed one or a request's copy) that points at a rollback
\* attempt points at one that exists, claimed if the row says so.
PointsAtRollback(rw) ==
    /\ rw.rollback # None => attempts[rw.rollback].phase = "ROLLBACK"
    /\ rw.status = "ROLLING_BACK" =>
          /\ rw.rollback # None
          /\ attempts[rw.rollback].status \in {"CLAIMED", "COMPLETED", "OUTCOME_UNKNOWN"}

AttemptRowsSound ==
    \A a \in AttemptIds :
        \/ attempts[a] = Absent /\ calls[a] = 0
        \/ attempts[a].phase = "ROLLBACK" /\ attempts[a].status # "ABSENT"
        \/ /\ attempts[a].phase = "EXECUTION"
           /\ attempts[a].status \in {"CLAIMED", "COMPLETED", "OUTCOME_UNKNOWN"}
           /\ row.execution = a
           /\ calls[a] <= 1

RowPointersSound ==
    /\ PointsAtRollback(row)
    /\ row.status = "ROLLBACK_REQUESTED" =>
          row.rollback # None /\ attempts[row.rollback].status = "REQUESTED"
    /\ \A r \in Requests : PointsAtRollback(req[r].row)

ExecutorsOwn ==
    /\ \A r \in Requests : Executing(r) =>
          /\ req[r].attempt \in AttemptIds
          /\ row.execution = req[r].attempt
          /\ attempts[req[r].attempt].phase = "EXECUTION"
          /\ attempts[req[r].attempt].status \in {"CLAIMED", "OUTCOME_UNKNOWN"}
          /\ req[r].step = "claimed" => calls[req[r].attempt] = 0
    /\ \A r, s \in Requests : Executing(r) /\ Executing(s) => r = s

RollbackRequestsSound ==
    \A r \in Requests : req[r].op = "rollback" =>
        /\ req[r].step = "called" =>
              /\ req[r].attempt \in AttemptIds
              /\ attempts[req[r].attempt].phase = "ROLLBACK"
              /\ attempts[req[r].attempt].status \in {"CLAIMED", "COMPLETED", "OUTCOME_UNKNOWN"}
        /\ req[r].step = "loaded" /\ req[r].row.status \in RetrySource =>
              req[r].attempt \in AttemptIds

ClosedWindowSound ==
    window.state = "cancelled" =>
        /\ Linked
        /\ \A a \in AttemptIds : attempts[a].phase = "EXECUTION" => attempts[a].status = "COMPLETED"

\* Every attempt has one owner, and every pointer to an attempt is sound,
\* whatever is committed between a request's reads and its writes.
AttemptsOwned ==
    /\ AttemptRowsSound
    /\ RowPointersSound
    /\ ExecutorsOwn
    /\ RollbackRequestsSound
    /\ ClosedWindowSound

----------------------------------------------------------------------------
(* What holds beyond that while requests do not overlap.  Their reads are  *)
(* then still true when they write, so the flushes write what the handler  *)
(* decided on.  The properties OneRollbackPerAttempt,                      *)
(* AbandonedCanBeReconciled, ImplementsLifecycle, ExecutesConfirmedFacts   *)
(* and ExecutesApproved rest on it.                                        *)

\* At most one request is in flight.  Any of them may still die between two
\* of its steps, and the next one finds what it left behind.
OneInFlight ==
    \A r, s \in Requests : req[r].step # "idle" /\ req[s].step # "idle" => r = s

\* The statuses an operation may find when it is accepted.
Admitted ==
    [ o \in Operations |->
        CASE o = "preview" -> Previewable
          [] o \in {"authorize", "confirm"} -> Reviewed
          [] o = "execute" -> {"CONFIRMED"}
          [] o = "verify" -> {"SUCCEEDED"}
          [] o = "rollback" -> RollbackSource \cup RetrySource \cup {"ROLLBACK_REQUESTED"}
          [] o = "reconcile" -> {"EXECUTING", "ROLLING_BACK"}
          [] o = "recover" -> Recoverable ]

\* What the committed row rw, and the adapter calls counted so far, are to a
\* request q that is alone.
Fits(q, rw, count) ==
    /\ q.step # "reread"                  \* no race is lost
    /\ q.step \in {"loaded", "checked", "called", "stage2", "stage3", "stage4"} => q.row = rw
    /\ q.step \in {"loaded", "checked"} => q.op \in Operations /\ rw.status \in Admitted[q.op]
    /\ q.op = "reconcile" /\ q.step = "loaded" => q.attempt \in AttemptIds
    /\ q.op = "execute" /\ q.step \in {"claimed", "called"} => rw.status = "EXECUTING"
    /\ q.step \in {"refresh2", "stage2"} => rw.status = "ROLLBACK_REQUESTED"
    /\ q.step \in {"refresh3", "refresh4", "stage3", "stage4"} =>
          rw.status = "ROLLING_BACK" /\ count[rw.rollback] = 0
    /\ q.op = "rollback" /\ q.step = "called" =>
          rw.status = "ROLLING_BACK" /\ q.attempt = rw.rollback

\* The row points at every attempt that is claimed, in the attempt's phase.
ClaimedIsCurrent ==
    \A a \in AttemptIds : attempts[a].status = "CLAIMED" =>
        \/ attempts[a].phase = "EXECUTION" /\ row.status = "EXECUTING" /\ row.execution = a
        \/ attempts[a].phase = "ROLLBACK" /\ row.status = "ROLLING_BACK" /\ row.rollback = a

\* An attempt that is only requested has not called the adapter.
RequestedIsUncalled ==
    \A a \in AttemptIds : attempts[a].phase = "ROLLBACK" =>
        /\ calls[a] <= 1
        /\ attempts[a].status = "REQUESTED" => calls[a] = 0

\* A confirmed row carries what the execution claim relies on.
ConfirmedIsCovered ==
    row.status = "CONFIRMED" =>
        /\ row.bound \in confirmedFacts
        /\ row.authorized /\ row.confirmed
        /\ RiskFacts(row.approved, row.recovery)

\* A request that is alone works on the committed row, no race is lost, and
\* what an attempt or a confirmation promised is still in the row.
SerialSound ==
    /\ \A r \in Requests : Fits(req[r], row, calls)
    /\ ClaimedIsCurrent
    /\ RequestedIsUncalled
    /\ ConfirmedIsCovered
==============================================================================
