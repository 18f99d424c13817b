------------------------ MODULE ActionCreation_proofs ------------------------
(***************************************************************************)
(* For every number of requests and windows: a key never makes two rows, a *)
(* plan keeps its window, and a form that says "saved" tells the truth.    *)
(*                                                                         *)
(* The inductive invariant follows a key from the form to the row: every   *)
(* request carries the key of the request that made it, with the same form *)
(* and window, and every plan the key of the request that inserted it.     *)
(***************************************************************************)
EXTENDS ActionCreation, TLAPS

Stage == {"free", "lookup", "asset", "insert", "again", "created", "refused", "broken"}
Used(c) == call[c].stage # "free"

\* What a request repeats of the request whose number is its key.
KeyIsInherited ==
    \A c \in Calls : Used(c) =>
        /\ call[c].key \in Calls /\ Used(call[c].key)
        /\ call[call[c].key].form = call[c].form
        /\ call[call[c].key].window = call[c].window

\* A plan's request is answered "created" only when the key is recorded.
CreatedIsRecorded ==
    \A c \in Calls : call[c].stage = "created" /\ ForPlan(c) => Recorded(c)

PlanOfItsRequest ==
    \A p \in plans : /\ Used(p.by) /\ ForPlan(p.by)
                     /\ p.key = call[p.by].key /\ p.window = call[p.by].window
                     /\ p.window # NoWindow => Exists(p.window)

FormFollowsItsCall ==
    \A f \in Forms : form[f].phase # "editing" =>
        /\ form[f].call \in Calls /\ Used(form[f].call)
        /\ call[form[f].call].form = f
        /\ form[f].phase = "saved" => call[form[f].call].stage = "created"

CreationInv ==
    /\ CreationTypeOK
    /\ KeyIsInherited
    /\ CreatedIsRecorded
    /\ PlanOfItsRequest
    /\ FormFollowsItsCall
    /\ \A w \in WindowIds : ~Exists(w) => windows[w].key = 0
    /\ OneRowPerKey

-----------------------------------------------------------------------------

LEMMA CreationInitInv == CreationInit => CreationInv
  <1>. SUFFICES ASSUME CreationInit PROVE CreationInv
    OBVIOUS
  <1>1. CreationTypeOK
    <2>1. archived \in BOOLEAN /\ plans \subseteq [key : Calls, window : 0..MaxWindows, by : Calls]
      BY DEF CreationInit
    <2>2. /\ 0 \in 0..MaxCalls /\ 0 \in 0..MaxWindows
          /\ "plan" \in Forms
      BY CreationAssumption DEF CreationAssumption, Forms
    <2>3. windows \in [WindowIds -> [state : {"none", "active", "cancelled"}, key : 0..MaxCalls]]
      BY <2>2 DEF CreationInit, NoRow
    <2>4. form \in [Forms -> [phase : {"editing", "busy", "uncertain", "saved"},
                             call : 0..MaxCalls]]
      BY <2>2 DEF CreationInit
    <2>5. call \in [Calls -> [stage : {"free", "lookup", "asset", "insert", "again", "created",
                                      "refused", "broken"},
                             form : Forms, key : 0..MaxCalls, window : 0..MaxWindows]]
      BY <2>2 DEF CreationInit, FreeCall, NoWindow
    <2>. QED BY <2>1, <2>3, <2>4, <2>5 DEF CreationTypeOK
  <1>2. \A c \in Calls : call[c].stage = "free"
    BY DEF CreationInit, FreeCall
  <1>3. \A f \in Forms : form[f].phase = "editing"
    BY DEF CreationInit
  <1>4. plans = {} /\ \A w \in WindowIds : windows[w].key = 0
    BY DEF CreationInit, NoRow
  <1>. QED BY <1>1, <1>2, <1>3, <1>4
       DEF CreationInv, KeyIsInherited, CreatedIsRecorded, PlanOfItsRequest, FormFollowsItsCall,
           OneRowPerKey, Used

\* A step of a handler that only moves its request on.
LEMMA OnlyStage ==
    ASSUME CreationTypeOK, NEW c \in Calls, NEW s \in Stage, Goes(c, s)
    PROVE  /\ call' \in [Calls -> [stage : Stage, form : Forms, key : 0..MaxCalls,
                                   window : 0..MaxWindows]]
           /\ \A d \in Calls : /\ call'[d].key = call[d].key /\ call'[d].form = call[d].form
                               /\ call'[d].window = call[d].window
                               /\ call'[d].stage = IF d = c THEN s ELSE call[d].stage
  BY DEF CreationTypeOK, Goes, Stage

\* It keeps the invariant when it answers "created" only for a recorded key and
\* leaves the answered requests alone.
LEMMA HandlerInv ==
    ASSUME CreationInv, NEW c \in Calls, NEW s \in Stage \ {"free"}, Goes(c, s),
           call[c].stage \notin {"free", "created"},
           s = "created" /\ ForPlan(c) => Recorded(c),
           UNCHANGED <<windows, plans, form>>, archived' \in BOOLEAN
    PROVE  CreationInv'
  <1>1. /\ call' \in [Calls -> [stage : Stage, form : Forms, key : 0..MaxCalls,
                                window : 0..MaxWindows]]
        /\ \A d \in Calls : /\ call'[d].key = call[d].key /\ call'[d].form = call[d].form
                            /\ call'[d].window = call[d].window
                            /\ call'[d].stage = IF d = c THEN s ELSE call[d].stage
    BY OnlyStage DEF CreationInv
  <1>2. CreationTypeOK'
    BY <1>1 DEF CreationInv, CreationTypeOK, Stage
  <1>3. \A d \in Calls : Used(d)' <=> Used(d)
    BY <1>1 DEF Used
  <1>4. KeyIsInherited'
    BY <1>1, <1>3 DEF CreationInv, KeyIsInherited
  <1>5. \A d \in Calls : /\ ForPlan(d)' <=> ForPlan(d)
                         /\ ForPlan(d) => (Recorded(d)' <=> Recorded(d))
    BY <1>1 DEF ForPlan, Recorded
  <1>6. CreatedIsRecorded'
    BY <1>1, <1>5 DEF CreationInv, CreatedIsRecorded
  <1>7. PlanOfItsRequest'
    BY <1>1, <1>3, <1>5 DEF CreationInv, PlanOfItsRequest, CreationTypeOK, Exists
  <1>8. FormFollowsItsCall'
    BY <1>1, <1>3 DEF CreationInv, FormFollowsItsCall
  <1>. QED BY <1>2, <1>4, <1>6, <1>7, <1>8 DEF CreationInv, OneRowPerKey, Exists


-----------------------------------------------------------------------------
(* The handlers. *)

LEMMA LookupKeyInv ==
    ASSUME CreationInv, NEW c \in Calls, LookupKey(c) PROVE CreationInv'
  <1>1. CASE Recorded(c)
    BY <1>1, HandlerInv DEF LookupKey, Stage, CreationInv, CreationTypeOK
  <1>2. CASE ~Recorded(c)
    BY <1>2, HandlerInv DEF LookupKey, Stage, CreationInv, CreationTypeOK
  <1>. QED BY <1>1, <1>2

LEMMA CheckAssetInv ==
    ASSUME CreationInv, NEW c \in Calls, CheckAsset(c) PROVE CreationInv'
  <1>1. PICK s \in {"refused", "insert"} : Goes(c, s)
    BY DEF CheckAsset
  <1>. QED BY <1>1, HandlerInv DEF CheckAsset, Stage, CreationInv, CreationTypeOK

LEMMA LookupAgainInv ==
    ASSUME CreationInv, NEW c \in Calls, LookupAgain(c) PROVE CreationInv'
  <1>1. CASE Recorded(c)
    BY <1>1, HandlerInv DEF LookupAgain, Stage, CreationInv, CreationTypeOK
  <1>2. CASE ~Recorded(c)
    <2>1. PICK s \in {"refused", "broken"} : Goes(c, s)
      BY <1>2 DEF LookupAgain
    <2>. QED BY <2>1, HandlerInv DEF LookupAgain, Stage, CreationInv, CreationTypeOK
  <1>. QED BY <1>1, <1>2

LEMMA BreaksInv ==
    ASSUME CreationInv, NEW c \in Calls, Breaks(c) PROVE CreationInv'
  BY HandlerInv DEF Breaks, Stage, CreationInv, CreationTypeOK

\* The row of a plan is new: no other row has its key, and its window is there.
LEMMA InsertPlanInv ==
    ASSUME CreationInv, NEW c \in Calls, InsertPlan(c) PROVE CreationInv'
  <1>1. CASE ~WindowUsable(c) \/ Collides(c)
    <2>1. PICK s \in {"refused", "again"} : Goes(c, s) /\ UNCHANGED plans
      BY <1>1 DEF InsertPlan
    <2>. QED BY <2>1, HandlerInv DEF InsertPlan, Stage, CreationInv, CreationTypeOK
  <1>2. CASE WindowUsable(c) /\ ~Collides(c)
    <2>. DEFINE row == [key |-> call[c].key, window |-> call[c].window, by |-> c]
    <2>1. plans' = plans \cup {row} /\ Goes(c, "created")
      BY <1>2 DEF InsertPlan
    <2>2. UNCHANGED <<archived, windows, form>> /\ call[c].stage = "insert" /\ ForPlan(c)
      BY DEF InsertPlan
    <2>3. /\ call' \in [Calls -> [stage : Stage, form : Forms, key : 0..MaxCalls,
                                  window : 0..MaxWindows]]
          /\ \A d \in Calls :
                /\ call'[d].key = call[d].key /\ call'[d].form = call[d].form
                /\ call'[d].window = call[d].window
                /\ call'[d].stage = IF d = c THEN "created" ELSE call[d].stage
      BY <2>1, OnlyStage DEF CreationInv, Stage
    <2>4. call[c].key \in Calls /\ call[c].window \in 0..MaxWindows
      BY <2>2 DEF CreationInv, CreationTypeOK, KeyIsInherited, Used
    <2>5. CreationTypeOK'
      BY <2>1, <2>2, <2>3, <2>4 DEF CreationInv, CreationTypeOK, Stage
    <2>6. \A d \in Calls : (Used(d)' <=> Used(d)) /\ (ForPlan(d)' <=> ForPlan(d))
      BY <2>2, <2>3 DEF Used, ForPlan
    <2>7. KeyIsInherited'
      BY <2>3, <2>6 DEF CreationInv, KeyIsInherited
    <2>8. CreatedIsRecorded'
      <3>1. row.key = call[c].key /\ row \in plans'
        BY <2>1
      <3>2. ASSUME NEW d \in Calls, call'[d].stage = "created", call'[d].form = "plan"
            PROVE  \E p \in plans' : p.key = call'[d].key
        <4>1. CASE d = c
          BY <2>3, <3>1, <4>1
        <4>2. CASE d # c
          <5>1. \E p \in plans : p.key = call[d].key
            BY <2>3, <3>2, <4>2 DEF CreationInv, CreatedIsRecorded, Recorded, ForPlan
          <5>. QED BY <2>1, <2>3, <5>1
        <4>. QED BY <4>1, <4>2
      <3>. QED BY <3>2 DEF CreatedIsRecorded, Recorded, ForPlan
    <2>9. PlanOfItsRequest'
      <3>1. call[c].window # NoWindow => Exists(call[c].window)
        BY <1>2 DEF WindowUsable, Exists
      <3>2. Used(c)
        BY <2>2 DEF Used
      <3>3. \A p \in plans' : p.by \in Calls
        BY <2>5 DEF CreationTypeOK
      <3>. QED BY <2>1, <2>2, <2>3, <2>6, <3>1, <3>2, <3>3
           DEF CreationInv, PlanOfItsRequest, Exists
    <2>10. FormFollowsItsCall'
      BY <2>2, <2>3, <2>6 DEF CreationInv, FormFollowsItsCall
    <2>11. OneRowPerKey'
      BY <1>2, <2>1, <2>2 DEF CreationInv, OneRowPerKey, Collides, Recorded
    <2>. QED BY <2>2, <2>5, <2>7, <2>8, <2>9, <2>10, <2>11 DEF CreationInv, Exists
  <1>. QED BY <1>1, <1>2

\* The row of a window is new too; a row it replaced stood for no window.
LEMMA InsertWindowInv ==
    ASSUME CreationInv, NEW c \in Calls, InsertWindow(c) PROVE CreationInv'
  <1>1. CASE Collides(c)
    BY <1>1, HandlerInv DEF InsertWindow, Stage, CreationInv, CreationTypeOK
  <1>2. CASE ~Collides(c)
    <2>1. PICK v \in WindowIds :
             windows' = [windows EXCEPT ![v] = [state |-> "active", key |-> call[c].key]]
      BY <1>2 DEF InsertWindow
    <2>2. /\ Goes(c, "created") /\ UNCHANGED <<archived, plans, form>>
          /\ call[c].stage = "insert" /\ ~ForPlan(c)
      BY <1>2 DEF InsertWindow
    <2>3. /\ call' \in [Calls -> [stage : Stage, form : Forms, key : 0..MaxCalls,
                                  window : 0..MaxWindows]]
          /\ \A d \in Calls :
                /\ call'[d].key = call[d].key /\ call'[d].form = call[d].form
                /\ call'[d].window = call[d].window
                /\ call'[d].stage = IF d = c THEN "created" ELSE call[d].stage
      BY <2>2, OnlyStage DEF CreationInv, Stage
    <2>4. call[c].key \in Calls /\ call[c].key \in 0..MaxCalls /\ call[c].key # 0
      BY <2>2 DEF CreationInv, CreationTypeOK, KeyIsInherited, Used, Calls
    <2>5. \A w \in WindowIds :
             windows'[w] = IF w = v THEN [state |-> "active", key |-> call[c].key] ELSE windows[w]
      BY <2>1 DEF CreationInv, CreationTypeOK
    <2>6. CreationTypeOK'
      BY <2>1, <2>2, <2>3, <2>4 DEF CreationInv, CreationTypeOK, Stage
    <2>7. \A d \in Calls : (Used(d)' <=> Used(d)) /\ (ForPlan(d)' <=> ForPlan(d))
      BY <2>2, <2>3 DEF Used, ForPlan
    <2>8. KeyIsInherited'
      BY <2>3, <2>7 DEF CreationInv, KeyIsInherited
    <2>9. CreatedIsRecorded'
      BY <2>2, <2>3, <2>7 DEF CreationInv, CreatedIsRecorded, Recorded, ForPlan
    <2>10. \A w \in WindowIds : Exists(w) => Exists(w)'
      BY <2>5 DEF Exists
    <2>11. PlanOfItsRequest'
      <3>1. \A p \in plans : p.by \in Calls /\ (p.window # NoWindow => p.window \in WindowIds)
        BY DEF CreationInv, CreationTypeOK, NoWindow, WindowIds
      <3>. QED BY <2>2, <2>3, <2>7, <2>10, <3>1 DEF CreationInv, PlanOfItsRequest
    <2>12. FormFollowsItsCall'
      BY <2>2, <2>3, <2>7 DEF CreationInv, FormFollowsItsCall
    <2>13. \A w \in WindowIds : w # v => windows[w].key # call[c].key
      BY <1>2, <2>2, <2>4 DEF CreationInv, Collides, Recorded
    <2>14. OneRowPerKey'
      BY <2>2, <2>5, <2>13 DEF CreationInv, OneRowPerKey
    <2>15. \A w \in WindowIds : ~Exists(w)' => windows'[w].key = 0
      BY <2>5 DEF CreationInv, Exists
    <2>. QED BY <2>6, <2>8, <2>9, <2>11, <2>12, <2>14, <2>15 DEF CreationInv
  <1>. QED BY <1>1, <1>2

-----------------------------------------------------------------------------
(* The forms. *)

\* What a new request of a form keeps, when its key and body are inherited.
LEMMA NewRequest ==
    ASSUME CreationInv, NEW f \in Forms, NEW c \in Calls, call[c].stage = "free",
           NEW k \in Calls, NEW w \in 0..MaxWindows,
           call' = [call EXCEPT ![c] = [stage |-> "lookup", form |-> f, key |-> k, window |-> w]],
           k # c => Used(k) /\ call[k].form = f /\ call[k].window = w,
           form' = [form EXCEPT ![f] = [phase |-> "busy", call |-> c]],
           UNCHANGED <<archived, windows, plans>>
    PROVE  CreationInv'
  <1>1. CreationTypeOK'
    BY DEF CreationInv, CreationTypeOK, Calls
  <1>2. \A d \in Calls :
           call'[d] = IF d = c THEN [stage |-> "lookup", form |-> f, key |-> k, window |-> w]
                               ELSE call[d]
    BY DEF CreationInv, CreationTypeOK
  <1>3. \A d \in Calls : Used(d) => Used(d)' /\ call'[d] = call[d]
    BY <1>2 DEF Used
  <1>4. Used(c)'
    BY <1>2 DEF Used
  <1>5. KeyIsInherited'
    <2>1. ASSUME NEW d \in Calls, d # c, Used(d)'
          PROVE  /\ call'[d].key \in Calls /\ call'[call'[d].key].stage # "free"
                 /\ call'[call'[d].key].form = call'[d].form
                 /\ call'[call'[d].key].window = call'[d].window
      <3>1. Used(d) /\ call'[d] = call[d]
        BY <1>2, <2>1 DEF Used
      <3>2. /\ call[d].key \in Calls /\ Used(call[d].key)
            /\ call[call[d].key].form = call[d].form
            /\ call[call[d].key].window = call[d].window
        BY <2>1, <3>1 DEF CreationInv, KeyIsInherited
      <3>. QED BY <1>3, <2>1, <3>1, <3>2 DEF Used
    <2>2. /\ call'[c].key \in Calls /\ call'[call'[c].key].stage # "free"
          /\ call'[call'[c].key].form = call'[c].form
          /\ call'[call'[c].key].window = call'[c].window
      <3>1. CASE k = c
        BY <1>2, <1>4, <3>1 DEF Used
      <3>2. CASE k # c
        <4>1. Used(k)' /\ call'[k] = call[k]
          BY <1>3, <3>2
        <4>. QED BY <1>2, <3>2, <4>1 DEF Used
      <3>. QED BY <3>1, <3>2
    <2>. QED BY <2>1, <2>2 DEF KeyIsInherited, Used
  <1>6. CreatedIsRecorded'
    BY <1>2 DEF CreationInv, CreatedIsRecorded, Recorded, ForPlan
  <1>7. PlanOfItsRequest'
    <2>1. \A p \in plans : p.by \in Calls
      BY DEF CreationInv, CreationTypeOK
    <2>. QED BY <1>3, <2>1 DEF CreationInv, PlanOfItsRequest, ForPlan, Exists
  <1>8. FormFollowsItsCall'
    <2>1. \A g \in Forms : form'[g] = IF g = f THEN [phase |-> "busy", call |-> c] ELSE form[g]
      BY DEF CreationInv, CreationTypeOK
    <2>. QED BY <1>2, <1>3, <1>4, <2>1 DEF CreationInv, FormFollowsItsCall
  <1>. QED BY <1>1, <1>5, <1>6, <1>7, <1>8 DEF CreationInv, OneRowPerKey, Exists

LEMMA SubmitInv ==
    ASSUME CreationInv, NEW f \in Forms, NEW c \in Calls, Submit(f, c) PROVE CreationInv'
  <1>1. PICK w \in {NoWindow} \cup {v \in WindowIds : windows[v].state = "active"} :
           call' = [call EXCEPT ![c] = [stage |-> "lookup", form |-> f, key |-> c, window |-> w]]
    BY DEF Submit
  <1>2. w \in 0..MaxWindows
    BY CreationAssumption DEF CreationAssumption, NoWindow, WindowIds
  <1>. QED BY <1>1, <1>2, NewRequest DEF Submit, NextFreeCall

\* A retry repeats the request before it, which is itself one of its key.
LEMMA RecoverInv ==
    ASSUME CreationInv, NEW f \in Forms, NEW c \in Calls, Recover(f, c) PROVE CreationInv'
  <1>. DEFINE d == form[f].call
  <1>1. d \in Calls /\ Used(d) /\ call[d].form = f
    BY DEF Recover, CreationInv, FormFollowsItsCall
  <1>2. call[d].key \in Calls /\ call[d].window \in 0..MaxWindows
    BY <1>1 DEF CreationInv, KeyIsInherited, CreationTypeOK
  <1>3. /\ Used(call[d].key)
        /\ call[call[d].key].form = f /\ call[call[d].key].window = call[d].window
    BY <1>1 DEF CreationInv, KeyIsInherited
  <1>4. [call[d] EXCEPT !.stage = "lookup"]
           = [stage |-> "lookup", form |-> f, key |-> call[d].key, window |-> call[d].window]
    BY <1>1 DEF CreationInv, CreationTypeOK
  <1>. QED BY <1>2, <1>3, <1>4, NewRequest DEF Recover, NextFreeCall

\* The form says "saved" on the answer "created" only.
LEMMA FormInv ==
    ASSUME CreationInv, NEW f \in Forms, Answered(f) \/ Disconnected(f) PROVE CreationInv'
  <1>1. PICK s \in {"editing", "uncertain", "saved"} :
           /\ form' = [form EXCEPT ![f].phase = s]
           /\ s = "saved" => call[form[f].call].stage = "created"
    BY DEF Answered, Disconnected, After
  <1>2. form[f].phase = "busy" /\ UNCHANGED <<archived, windows, plans, call>>
    BY DEF Answered, Disconnected
  <1>3. \A g \in Forms : /\ form'[g].call = form[g].call
                         /\ form'[g].phase = IF g = f THEN s ELSE form[g].phase
    BY <1>1 DEF CreationInv, CreationTypeOK
  <1>4. CreationTypeOK'
    BY <1>1, <1>2 DEF CreationInv, CreationTypeOK
  <1>5. FormFollowsItsCall'
    BY <1>1, <1>2, <1>3 DEF CreationInv, FormFollowsItsCall, Used
  <1>. QED BY <1>2, <1>4, <1>5
       DEF CreationInv, KeyIsInherited, CreatedIsRecorded, PlanOfItsRequest, OneRowPerKey,
           Used, Recorded, ForPlan, Exists

-----------------------------------------------------------------------------
(* Other users. *)

LEMMA ArchiveOrRestoreInv ==
    ASSUME CreationInv, ArchiveOrRestore PROVE CreationInv'
  <1>1. UNCHANGED <<windows, plans, form, call>> /\ archived' \in BOOLEAN
    BY DEF ArchiveOrRestore
  <1>. QED BY <1>1
       DEF CreationInv, CreationTypeOK, KeyIsInherited, CreatedIsRecorded, PlanOfItsRequest,
           FormFollowsItsCall, OneRowPerKey, Used, Recorded, ForPlan, Exists

\* A step that takes no plan's window away and gives no window a key.
LEMMA WindowStep ==
    ASSUME CreationInv, UNCHANGED <<archived, plans, form, call>>,
           windows' \in [WindowIds -> [state : {"none", "active", "cancelled"},
                                       key : 0..MaxCalls]],
           \A v \in WindowIds : windows'[v].key \in {0, windows[v].key},
           \A v \in WindowIds : ~Exists(v)' => windows'[v].key = 0,
           \A v \in WindowIds : Linked(v) /\ Exists(v) => Exists(v)'
    PROVE  CreationInv'
  <1>1. CreationTypeOK'
    BY DEF CreationInv, CreationTypeOK
  <1>2. PlanOfItsRequest'
    <2>1. \A p \in plans : p.window # NoWindow => p.window \in WindowIds /\ Linked(p.window)
      BY DEF CreationInv, CreationTypeOK, NoWindow, WindowIds, Linked
    <2>. QED BY <2>1 DEF CreationInv, PlanOfItsRequest, Used, ForPlan
  <1>3. CreatedIsRecorded'
    BY DEF CreationInv, CreatedIsRecorded, Recorded, ForPlan
  <1>4. OneRowPerKey'
    BY DEF CreationInv, OneRowPerKey
  <1>. QED BY <1>1, <1>2, <1>3, <1>4 DEF CreationInv, KeyIsInherited, FormFollowsItsCall, Used

LEMMA CancelledInv ==
    ASSUME CreationInv, NEW w \in WindowIds, Cancelled(w) PROVE CreationInv'
  <1>1. windows' \in [WindowIds -> [state : {"none", "active", "cancelled"}, key : 0..MaxCalls]]
    BY DEF Cancelled, CreationInv, CreationTypeOK
  <1>2. \A v \in WindowIds :
           /\ windows'[v].key = windows[v].key
           /\ windows'[v].state = IF v = w THEN "cancelled" ELSE windows[v].state
    BY DEF Cancelled, CreationInv, CreationTypeOK
  <1>3. \A v \in WindowIds : Exists(v)' <=> Exists(v)
    BY <1>2 DEF Exists, Cancelled
  <1>4. \A v \in WindowIds : ~Exists(v)' => windows'[v].key = 0
    BY <1>2, <1>3 DEF CreationInv
  <1>. QED BY <1>1, <1>2, <1>3, <1>4, WindowStep DEF Cancelled

\* No plan refers to the deleted window, so the foreign key clears none.
LEMMA DeletedInv ==
    ASSUME CreationInv, NEW w \in WindowIds, Deleted(w) PROVE CreationInv'
  <1>1. plans' = plans
    <2>1. \A p \in plans : [p EXCEPT !.window = IF @ = w THEN NoWindow ELSE @] = p
      BY DEF Deleted, Linked, CreationInv, CreationTypeOK
    <2>. QED BY <2>1 DEF Deleted
  <1>2. /\ 0 \in 0..MaxCalls
        /\ windows' \in [WindowIds -> [state : {"none", "active", "cancelled"}, key : 0..MaxCalls]]
    BY CreationAssumption DEF CreationAssumption, Deleted, CreationInv, CreationTypeOK, NoRow
  <1>3. \A v \in WindowIds : windows'[v] = IF v = w THEN NoRow ELSE windows[v]
    BY DEF Deleted, CreationInv, CreationTypeOK
  <1>4. \A v \in WindowIds : windows'[v].key \in {0, windows[v].key}
    BY <1>3 DEF NoRow
  <1>5. \A v \in WindowIds : ~Exists(v)' => windows'[v].key = 0
    BY <1>3 DEF NoRow, Exists, CreationInv
  <1>6. \A v \in WindowIds : Linked(v) /\ Exists(v) => Exists(v)'
    BY <1>3 DEF Exists, Deleted
  <1>. QED BY <1>1, <1>2, <1>4, <1>5, <1>6, WindowStep DEF Deleted

-----------------------------------------------------------------------------

LEMMA CreationNextInv == CreationInv /\ [CreationNext]_creationVars => CreationInv'
  <1>. SUFFICES ASSUME CreationInv, [CreationNext]_creationVars PROVE CreationInv'
    OBVIOUS
  <1>1. CASE \E f \in Forms : \E c \in Calls : Submit(f, c) \/ Recover(f, c)
    BY <1>1, SubmitInv, RecoverInv
  <1>2. CASE \E f \in Forms : Answered(f) \/ Disconnected(f)
    BY <1>2, FormInv
  <1>3. CASE \E c \in Calls : \/ LookupKey(c) \/ CheckAsset(c) \/ InsertPlan(c)
                              \/ InsertWindow(c) \/ LookupAgain(c) \/ Breaks(c)
    BY <1>3, LookupKeyInv, CheckAssetInv, InsertPlanInv, InsertWindowInv, LookupAgainInv, BreaksInv
  <1>4. CASE ArchiveOrRestore
    BY <1>4, ArchiveOrRestoreInv
  <1>5. CASE \E w \in WindowIds : Cancelled(w) \/ Deleted(w)
    BY <1>5, CancelledInv, DeletedInv
  <1>6. CASE UNCHANGED creationVars
    BY <1>6 DEF creationVars, CreationInv, CreationTypeOK, KeyIsInherited, CreatedIsRecorded,
       PlanOfItsRequest, FormFollowsItsCall, OneRowPerKey, Used, Recorded, ForPlan, Exists
  <1>. QED BY <1>1, <1>2, <1>3, <1>4, <1>5, <1>6 DEF CreationNext

\* The inductive invariant: keys, bodies and rows follow the requests.
THEOREM CreationInvariance == CreationSpec => []CreationInv
  <1>1. CreationInit => CreationInv
    BY CreationInitInv
  <1>2. CreationInv /\ [CreationNext]_creationVars => CreationInv'
    BY CreationNextInv
  <1>. QED BY <1>1, <1>2, PTL DEF CreationSpec

\* The type invariant of the forms, their requests and the rows.
THEOREM CreationTypes == CreationSpec => []CreationTypeOK
  <1>1. CreationInv => CreationTypeOK
    BY DEF CreationInv
  <1>. QED BY <1>1, CreationInvariance, PTL

\* A key makes one plan, and stands on one window at a time, although its
\* requests overlap (create_action, create_maintenance_window).
THEOREM KeysMakeOneRow == CreationSpec => []OneRowPerKey
  <1>1. CreationInv => OneRowPerKey
    BY DEF CreationInv
  <1>. QED BY <1>1, CreationInvariance, PTL

\* The plan keeps the window its request asked for, and the window stays
\* (delete_maintenance_window against create_action).
THEOREM PlansKeepWindows == CreationSpec => []PlanKeepsWindow
  <1>1. CreationInv => PlanKeepsWindow
    BY DEF CreationInv, PlanOfItsRequest, PlanKeepsWindow
  <1>. QED BY <1>1, CreationInvariance, PTL

\* A form that says "saved" has its plan recorded, with the window it asked for:
\* both are the key's, whichever of its requests made the row.
THEOREM SavedFormsAreRecorded == CreationSpec => []SavedIsRecorded
  <1>1. CreationInv => SavedIsRecorded
    <2>. SUFFICES ASSUME CreationInv, form["plan"].phase = "saved"
                  PROVE  \E p \in plans : /\ p.key = call[form["plan"].call].key
                                          /\ p.window = call[form["plan"].call].window
      BY DEF SavedIsRecorded
    <2>. DEFINE c == form["plan"].call
    <2>1. c \in Calls /\ Used(c) /\ call[c].form = "plan" /\ call[c].stage = "created"
      BY DEF CreationInv, FormFollowsItsCall, Forms
    <2>2. PICK p \in plans : p.key = call[c].key
      BY <2>1 DEF CreationInv, CreatedIsRecorded, Recorded, ForPlan
    <2>3. p.by \in Calls /\ Used(p.by) /\ p.key = call[p.by].key /\ p.window = call[p.by].window
      BY DEF CreationInv, CreationTypeOK, PlanOfItsRequest
    <2>4. p.window = call[p.key].window /\ call[c].window = call[p.key].window
      BY <2>1, <2>2, <2>3 DEF CreationInv, KeyIsInherited
    <2>. QED BY <2>2, <2>4
  <1>. QED BY <1>1, CreationInvariance, PTL
==============================================================================
