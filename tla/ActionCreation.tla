--------------------------- MODULE ActionCreation ---------------------------
(***************************************************************************)
(* Planning maintenance: the two forms that create a maintenance window    *)
(* and an operational action (frontend/src/components/maintenance/         *)
(* MaintenanceWindowForm.tsx and MaintenancePlan.tsx) and the handlers     *)
(* that answer them (backend/app/api/maintenance.py and create_action of   *)
(* backend/app/operational_actions/service.py), beside other users who     *)
(* cancel and delete windows and archive the asset.                        *)
(*                                                                         *)
(* A form sends one body per key and repeats both on a retry, so comparing *)
(* the stored request hash always agrees.  The SELECTs of a request are    *)
(* steps of their own; from its first write (locked_window's UPDATE or the *)
(* INSERT) to the COMMIT it holds the write lock and is one step.          *)
(***************************************************************************)
EXTENDS Integers, FiniteSets, FiniteSetsExt

CONSTANTS
    MaxCalls,      \* requests the two forms send, the retries included
    MaxWindows     \* bound on the rows of maintenance_windows

ASSUME CreationAssumption == MaxCalls \in Nat /\ MaxWindows \in Nat \ {0}

Forms == {"plan", "window"}
Calls == 1..MaxCalls
WindowIds == 1..MaxWindows
NoWindow == 0

VARIABLES
    archived,   \* devices.is_deleted of the one asset
    windows,    \* maintenance_windows
    plans,      \* operational_actions: with the call that inserted each
    form,       \* the two forms
    call        \* the requests

creationVars == <<archived, windows, plans, form, call>>

NoRow == [state |-> "none", key |-> 0]
FreeCall == [stage |-> "free", form |-> "plan", key |-> 0, window |-> NoWindow]

CreationInit ==
    /\ archived = FALSE
    /\ windows = [w \in WindowIds |-> IF w = 1 THEN [state |-> "active", key |-> 0] ELSE NoRow]
    /\ plans = {}
    /\ form = [f \in Forms |-> [phase |-> "editing", call |-> 0]]
    /\ call = [c \in Calls |-> FreeCall]

Exists(w) == windows[w].state # "none"
NextFreeCall(c) == call[c].stage = "free" /\ \A d \in Calls : d < c => call[d].stage # "free"

-----------------------------------------------------------------------------
(* The forms. *)

\* A first submission makes a key; busyRef admits one request at a time.
Submit(f, c) ==
    /\ form[f].phase = "editing" /\ NextFreeCall(c)
    /\ \E w \in {NoWindow} \cup {v \in WindowIds : windows[v].state = "active"} :
        /\ f = "window" => w = NoWindow
        /\ call' = [call EXCEPT ![c] = [stage |-> "lookup", form |-> f, key |-> c, window |-> w]]
    /\ form' = [form EXCEPT ![f] = [phase |-> "busy", call |-> c]]
    /\ UNCHANGED <<archived, windows, plans>>

\* "Recover using the same request": the key and the body of the call before.
Recover(f, c) ==
    /\ form[f].phase = "uncertain" /\ NextFreeCall(c)
    /\ call' = [call EXCEPT ![c] = [call[form[f].call] EXCEPT !.stage = "lookup"]]
    /\ form' = [form EXCEPT ![f] = [phase |-> "busy", call |-> c]]
    /\ UNCHANGED <<archived, windows, plans>>

\* Seeded fault: a refused retry is taken for "already recorded".
AfterRefusedSaved(reply) == IF reply \in {"created", "refused"} THEN "saved" ELSE "uncertain"

\* Seeded fault: the verdict stands as the phase of the form.
AfterReply(reply) == IF reply = "broken" THEN "uncertain" ELSE reply

\* 4xx unlocks the form for a new key, 5xx keeps the request.
After(reply) == CASE reply = "created" -> "saved"
                  [] reply = "refused" -> "editing"
                  [] reply = "broken"  -> "uncertain"

Answered(f) ==
    /\ form[f].phase = "busy"
    /\ call[form[f].call].stage \in {"created", "refused", "broken"}
    /\ form' = [form EXCEPT ![f].phase = After(call[form[f].call].stage)]
    /\ UNCHANGED <<archived, windows, plans, call>>

\* The connection fails: status 0, while the server goes on.
Disconnected(f) ==
    /\ form[f].phase = "busy"
    /\ form' = [form EXCEPT ![f].phase = "uncertain"]
    /\ UNCHANGED <<archived, windows, plans, call>>

-----------------------------------------------------------------------------
(* The handlers. *)

Goes(c, stage) == call' = [call EXCEPT ![c].stage = stage]
ForPlan(c) == call[c].form = "plan"

\* A row of the call's table with the call's key.
Recorded(c) ==
    IF ForPlan(c) THEN \E p \in plans : p.key = call[c].key
                  ELSE \E w \in WindowIds : Exists(w) /\ windows[w].key = call[c].key

LookupKey(c) ==
    /\ call[c].stage = "lookup"
    /\ Goes(c, IF Recorded(c) THEN "created" ELSE "asset")
    /\ UNCHANGED <<archived, windows, plans, form>>

\* The asset is read before the lock: archived, it is refused.
CheckAsset(c) ==
    /\ call[c].stage = "asset"
    /\ Goes(c, IF archived THEN "refused" ELSE "insert")
    /\ UNCHANGED <<archived, windows, plans, form>>

\* _window_preconditions, under the lock.
WindowUsable(c) == call[c].window # NoWindow => windows[call[c].window].state = "active"

\* Seeded fault: no unique index on the key.
NeverCollides(c) == FALSE

\* The unique index refuses the INSERT.
Collides(c) == Recorded(c)

\* Row ids are the largest plus one, so that of a deleted window comes back.
NextWindowId == 1 + Max({0} \cup {w \in WindowIds : Exists(w)})

InsertPlan(c) ==
    /\ call[c].stage = "insert" /\ ForPlan(c)
    /\ \/ /\ WindowUsable(c) /\ ~Collides(c)
          /\ plans' = plans \cup {[key |-> call[c].key, window |-> call[c].window, by |-> c]}
          /\ Goes(c, "created")
       \/ /\ ~WindowUsable(c)
          /\ Goes(c, "refused")
          /\ UNCHANGED plans
       \/ /\ WindowUsable(c) /\ Collides(c)
          /\ Goes(c, "again")
          /\ UNCHANGED plans
    /\ UNCHANGED <<archived, windows, form>>

InsertWindow(c) ==
    /\ call[c].stage = "insert" /\ ~ForPlan(c)
    /\ \/ /\ ~Collides(c) /\ NextWindowId \in WindowIds
          /\ windows' = [windows EXCEPT ![NextWindowId] = [state |-> "active", key |-> call[c].key]]
          /\ Goes(c, "created")
       \/ /\ Collides(c)
          /\ Goes(c, "again")
          /\ UNCHANGED windows
    /\ UNCHANGED <<archived, plans, form>>

\* After the IntegrityError and its rollback the row is looked up once more.  A
\* window can be deleted by then: the error is raised again.
LookupAgain(c) ==
    /\ call[c].stage = "again"
    /\ Goes(c, IF Recorded(c) THEN "created" ELSE IF ForPlan(c) THEN "refused" ELSE "broken")
    /\ UNCHANGED <<archived, windows, plans, form>>

\* The request dies before its transaction commits.
Breaks(c) ==
    /\ call[c].stage \in {"lookup", "asset", "insert", "again"}
    /\ Goes(c, "broken")
    /\ UNCHANGED <<archived, windows, plans, form>>

-----------------------------------------------------------------------------
(* Other users. *)

ArchiveOrRestore == /\ archived' = ~archived
                    /\ UNCHANGED <<windows, plans, form, call>>

\* cancel_maintenance_window; the plans here have no attempt that would block it.
Cancelled(w) == /\ windows[w].state = "active"
                /\ windows' = [windows EXCEPT ![w].state = "cancelled"]
                /\ UNCHANGED <<archived, plans, form, call>>

\* Seeded fault: the links are not looked at.
NeverLinked(w) == FALSE

Linked(w) == \E p \in plans : p.window = w

\* delete_maintenance_window: refused once an action refers to the window.  The
\* foreign key of a row that still did would be set to null.
Deleted(w) == /\ Exists(w)
              /\ ~Linked(w)
              /\ windows' = [windows EXCEPT ![w] = NoRow]
              /\ plans' = {[p EXCEPT !.window = IF @ = w THEN NoWindow ELSE @] : p \in plans}
              /\ UNCHANGED <<archived, form, call>>

CreationNext ==
    \/ \E f \in Forms : \/ \E c \in Calls : Submit(f, c) \/ Recover(f, c)
                        \/ Answered(f) \/ Disconnected(f)
    \/ \E c \in Calls : \/ LookupKey(c) \/ CheckAsset(c) \/ InsertPlan(c)
                        \/ InsertWindow(c) \/ LookupAgain(c) \/ Breaks(c)
    \/ ArchiveOrRestore
    \/ \E w \in WindowIds : Cancelled(w) \/ Deleted(w)

CreationSpec == CreationInit /\ [][CreationNext]_creationVars

-----------------------------------------------------------------------------

CreationTypeOK ==
    /\ archived \in BOOLEAN
    /\ windows \in [WindowIds -> [state : {"none", "active", "cancelled"}, key : 0..MaxCalls]]
    /\ plans \subseteq [key : Calls, window : 0..MaxWindows, by : Calls]
    /\ form \in [Forms -> [phase : {"editing", "busy", "uncertain", "saved"}, call : 0..MaxCalls]]
    /\ call \in [Calls -> [stage : {"free", "lookup", "asset", "insert", "again", "created",
                                    "refused", "broken"},
                           form : Forms, key : 0..MaxCalls, window : 0..MaxWindows]]

\* A key never makes two plans and never stands on two windows at once, however
\* its requests overlap (the replay lookup, the unique index and the lookup after it).
OneRowPerKey ==
    /\ \A p, q \in plans : p.key = q.key => p = q
    /\ \A v, w \in WindowIds : windows[v].key = windows[w].key /\ windows[v].key # 0 => v = w

\* A plan keeps the window it was asked for, and the window stays, although plans
\* are made from an old list while windows are deleted (the foreign key would
\* silently drop the link of a plan recorded first).
PlanKeepsWindow ==
    \A p \in plans : /\ p.window = call[p.by].window
                     /\ p.window # NoWindow => Exists(p.window)

\* A form that says "saved" has its plan recorded, with the window it asked for.
SavedIsRecorded ==
    form["plan"].phase = "saved" =>
        \E p \in plans : /\ p.key = call[form["plan"].call].key
                         /\ p.window = call[form["plan"].call].window
=============================================================================
