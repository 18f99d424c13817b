---------------------------- MODULE BulkWorkflow ----------------------------
(***************************************************************************)
(* Bulk commands on rows that other users edit: the preview, confirm,      *)
(* undo workflow of one browser tab (frontend/src/components/shared/       *)
(* useOperationalBulkWorkflow.ts with frontend/src/api/serviceBulk.ts),    *)
(* the tab's tenant (tenantContext.ts, TenantSelector.tsx) and the guarded *)
(* handler (backend/app/api/service_bulk.py).                              *)
(*                                                                         *)
(* JavaScript runs to completion, so what the tab does between two awaits  *)
(* is one step; the handler takes the write lock first (_reserve_writer),  *)
(* so a command is one step too.  An edit revision is a fresh token at     *)
(* every write: here the number of the write.  A command changes every row *)
(* it selects: commands that find some rows changed already, or all, are   *)
(* left out.                                                               *)
(***************************************************************************)
EXTENDS Integers

CONSTANTS
    Tenants, Rows,
    Selections,   \* the sets of rows a user selects
    MaxPosts,     \* POSTs the tab sends
    MaxEdits      \* edits by other users

ASSUME BulkAssumption ==
    /\ Selections \subseteq SUBSET Rows
    /\ "none" \notin Tenants    \* stands for no tenant
    /\ MaxPosts \in Nat /\ MaxEdits \in Nat

Posts == 1..MaxPosts
Writers == 0..(MaxPosts + MaxEdits)

VARIABLES
    tab,        \* the tab's tenant, and the switch of it
    saved,      \* tenant -> row -> edit_revision
    edits,      \* how many edits other users made
    receipts,   \* ServiceBulkReceipt of each operation id
    post,       \* the tab's POSTs; a preview's number is its operation id
    grid,       \* the revisions of the rows the tab shows
    dialog,     \* the preview generation, the accepted and the shown preview
    revert      \* the undo offered for each operation

bulkVars == <<tab, saved, edits, receipts, post, grid, dialog, revert>>

NoRevs == [i \in Rows |-> 0]
FreePost == [stage |-> "free", kind |-> "none", ids |-> {}, scope |-> "none", op |-> 0,
             seen |-> NoRevs, revs |-> NoRevs, owner |-> 0, generation |-> 0, reply |-> "none"]
ClosedDialog == [generation |-> 0, accepted |-> 0, shown |-> 0, done |-> FALSE]

BulkInit ==
    /\ \E t \in Tenants : tab = [tenant |-> t, switch |-> "none", next |-> t]
    /\ saved = [t \in Tenants |-> NoRevs]
    /\ edits = 0
    /\ receipts = [p \in Posts |-> [tenant |-> "none"]]
    /\ post = [p \in Posts |-> FreePost]
    /\ grid = NoRevs
    /\ dialog = ClosedDialog
    /\ revert = [p \in Posts |-> "none"]

\* In flight until fetch settles; running until the tab has handled the answer.
InFlight(p) == post[p].stage \in {"sent", "answered"}
Mutating == \E p \in Posts : InFlight(p) /\ post[p].kind # "undo"
PendingWrites == \E p \in Posts : InFlight(p)

\* Seeded fault: switching waits for no raw write.
SwitchAllowedAnyTime == tab.switch = "none" /\ ~Mutating

\* requestSwitch and beginTenantSwitch: no save is in flight.
SwitchAllowed == tab.switch = "none" /\ ~Mutating /\ ~PendingWrites

\* beginScopedWrite throws while the selection is on its way.
CanPost(p) == /\ tab.switch # "asking"
              /\ post[p].stage = "free" /\ \A q \in Posts : q < p => post[q].stage # "free"

-----------------------------------------------------------------------------
(* The tab's tenant. *)

BeginSwitch(t) ==
    /\ t # tab.tenant /\ SwitchAllowed
    /\ tab' = [tab EXCEPT !.switch = "asking", !.next = t]
    /\ UNCHANGED <<saved, edits, receipts, post, grid, dialog, revert>>

\* selectCurrentTenant; the tab goes on running until the page is reloaded.
ConfirmSwitch ==
    /\ tab.switch = "asking"
    /\ tab' = [tab EXCEPT !.switch = "leaving", !.tenant = tab.next]
    /\ UNCHANGED <<saved, edits, receipts, post, grid, dialog, revert>>

FailSwitch ==
    /\ tab.switch = "asking"
    /\ tab' = [tab EXCEPT !.switch = "none", !.next = tab.tenant]
    /\ UNCHANGED <<saved, edits, receipts, post, grid, dialog, revert>>

\* A request that left is still served; its answer reaches nobody.
Forgotten(p) == [post[p] EXCEPT !.stage = CASE @ = "sent" -> "forgotten"
                                            [] @ = "answered" -> "lost" [] OTHER -> @]

\* The page starts anew.  A tab switches once (bound).
Reload ==
    /\ tab.switch = "leaving"
    /\ tab' = [tab EXCEPT !.switch = "switched"]
    /\ grid' = saved[tab.tenant]
    /\ dialog' = ClosedDialog
    /\ revert' = [p \in Posts |-> "none"]
    /\ post' = [p \in Posts |-> Forgotten(p)]
    /\ UNCHANGED <<saved, edits, receipts>>

-----------------------------------------------------------------------------
(* Preview and confirmation. *)

\* The context of a POST: the tenant of the tab and the operation id.
Request(kind, ids, op) == [FreePost EXCEPT !.stage = "sent", !.kind = kind, !.ids = ids,
                                           !.scope = tab.tenant, !.op = op]

Only(revs, ids) == [i \in Rows |-> IF i \in ids THEN revs[i] ELSE 0]

\* requestBulkPreview: a new generation, and the dry run.
RequestPreview(p, ids) ==
    /\ CanPost(p)
    /\ dialog' = [dialog EXCEPT !.generation = p]
    /\ post' = [post EXCEPT ![p] = Request("preview", ids, p)]
    /\ UNCHANGED <<tab, saved, edits, receipts, grid, revert>>

\* setBulkOperationPreview(null)
Dismiss ==
    /\ dialog.shown # 0
    /\ dialog' = ClosedDialog
    /\ UNCHANGED <<tab, saved, edits, receipts, post, grid, revert>>

Handled(p) == [post EXCEPT ![p].stage = "over"]

\* Seeded fault: whatever preview arrives is shown.
EveryIsCurrent(p) == TRUE

IsCurrent(p) == dialog.generation = p

PreviewArrives(p) ==
    /\ post[p].stage = "answered" /\ post[p].kind = "preview"
    /\ post' = Handled(p)
    /\ dialog' = IF post[p].scope = tab.tenant /\ IsCurrent(p)
                 THEN [dialog EXCEPT !.accepted = p, !.shown = p, !.done = FALSE] ELSE dialog
    /\ UNCHANGED <<tab, saved, edits, receipts, grid, revert>>

Matches(ids) == /\ dialog.accepted # 0 /\ dialog.accepted = dialog.generation
                /\ post[dialog.accepted].ids = ids

\* matchesPreview(bulkOperationPreview, ...): the dialog that will get the result.
Owner(ids) == IF dialog.shown # 0 /\ ~dialog.done /\ post[dialog.shown].ids = ids
              THEN dialog.shown ELSE 0

\* The command of a reviewed preview, its id and scope bound to it.
SendReviewed(p, ids) ==
    LET op == dialog.accepted IN
    /\ post[op].scope = tab.tenant
    /\ post' = [post EXCEPT ![p] = [Request("execute", ids, op) EXCEPT
                   !.seen = post[op].revs, !.revs = post[op].revs,
                   !.owner = Owner(ids), !.generation = dialog.generation]]

\* Without one, archiving takes a preview of its own, to be compared with the
\* revisions of the rows on screen.
SendCheck(p, ids) ==
    post' = [post EXCEPT ![p] = [Request("check", ids, p) EXCEPT
                !.seen = Only(grid, ids), !.owner = Owner(ids), !.generation = dialog.generation]]

Execute(p, ids) ==
    /\ CanPost(p)
    /\ \/ Matches(ids) /\ SendReviewed(p, ids)
       \/ ~Matches(ids) /\ SendCheck(p, ids)
    /\ UNCHANGED <<tab, saved, edits, receipts, grid, dialog, revert>>

Executing == \E p \in Posts : InFlight(p) /\ post[p].kind \in {"check", "execute"}

\* The dialog's button, which is disabled while a command runs.
Confirm(p) == dialog.shown # 0 /\ ~dialog.done /\ ~Executing /\ Execute(p, post[dialog.shown].ids)

\* The menu of one row.
ArchiveRow(p) == \E i \in Rows : {i} \in Selections /\ Execute(p, {i})

\* Seeded fault: the fresh preview is taken as it is.
TakenAsItIs(p) == TRUE

UnchangedSinceLoaded(p) == post[p].revs = post[p].seen

CheckArrives(p) ==
    /\ post[p].stage = "answered" /\ post[p].kind = "check"
    /\ post' = IF UnchangedSinceLoaded(p) /\ post[p].scope = tab.tenant
               THEN [post EXCEPT ![p].kind = "execute", ![p].stage = "sent"]
               ELSE Handled(p)
    /\ UNCHANGED <<tab, saved, edits, receipts, grid, dialog, revert>>

\* bulkMutation.onSuccess: refetch, hand the result to the dialog that still owns
\* it, and offer the undo.
ExecuteArrives(p) ==
    /\ post[p].stage = "answered" /\ post[p].kind = "execute"
    /\ post' = Handled(p)
    /\ IF post[p].reply = "refused"
       THEN UNCHANGED <<grid, dialog, revert>>
       ELSE /\ grid' = saved[tab.tenant]
            /\ dialog' = [dialog EXCEPT
                  !.accepted = IF @ # 0 /\ @ = post[p].owner THEN 0 ELSE @,
                  !.done = \/ @
                           \/ /\ dialog.shown # 0 /\ dialog.shown = post[p].owner
                              /\ dialog.generation = post[p].generation]
            /\ revert' = IF post[p].reply = "applied"
                         THEN [revert EXCEPT ![post[p].op] = "offered"] ELSE revert
    /\ UNCHANGED <<tab, saved, edits, receipts>>

\* receiptRevert: one undo in flight, and none after one that was applied.
Revert(p) ==
    /\ CanPost(p)
    /\ \E op \in Posts :
        /\ revert[op] = "offered"
        /\ revert' = [revert EXCEPT ![op] = "sent"]
        /\ post' = [post EXCEPT ![p] = Request("undo", post[op].ids, op)]
    /\ UNCHANGED <<tab, saved, edits, receipts, grid, dialog>>

UndoArrives(p) ==
    /\ post[p].stage = "answered" /\ post[p].kind = "undo"
    /\ post' = Handled(p)
    /\ revert' = [revert EXCEPT ![post[p].op] =
                    IF post[p].reply = "refused" THEN "offered" ELSE "complete"]
    /\ IF post[p].reply = "refused" THEN UNCHANGED <<grid, dialog>>
       ELSE /\ grid' = saved[tab.tenant]
            /\ dialog' = IF dialog.shown = post[p].op /\ dialog.done
                         THEN [dialog EXCEPT !.shown = 0, !.done = FALSE] ELSE dialog
    /\ UNCHANGED <<tab, saved, edits, receipts>>

\* The connection fails before or after the handler ran.
Disconnect(p) ==
    /\ InFlight(p)
    /\ post' = [post EXCEPT ![p] = Forgotten(p)]
    /\ revert' = IF post[p].kind = "undo" THEN [revert EXCEPT ![post[p].op] = "offered"] ELSE revert
    /\ UNCHANGED <<tab, saved, edits, receipts, grid, dialog>>

-----------------------------------------------------------------------------
(* The handler. *)

ToServe(p, kinds) == post[p].stage \in {"sent", "forgotten"} /\ post[p].kind \in kinds

Reply(p, revs, reply) ==
    post' = [post EXCEPT ![p].reply = reply, ![p].revs = revs,
                         ![p].stage = IF @ = "sent" THEN "answered" ELSE "lost"]

ServePreview(p) ==
    /\ ToServe(p, {"preview", "check"})
    /\ Reply(p, Only(saved[post[p].scope], post[p].ids), "preview")
    /\ UNCHANGED <<tab, saved, edits, receipts, grid, dialog, revert>>

\* Seeded fault: no receipt is looked up.
NothingPrevious(p) == FALSE

\* _operation_receipt: the command was carried out already.
HasReceipt(p) == receipts[post[p].op].tenant = post[p].scope

\* The preconditions agree: the tenant, the selection and every revision.
StillAsReviewed(p) ==
    /\ post[p].scope = post[post[p].op].scope
    /\ post[p].revs = Only(saved[post[p].scope], post[p].ids)

\* Seeded fault: an undo also puts the old revisions back.
WrittenWithRevisions(p) ==
    [saved EXCEPT ![post[p].scope] =
        [i \in Rows |-> IF i \notin post[p].ids THEN @[i]
                       ELSE IF post[p].kind = "undo" THEN receipts[post[p].op].before[i] ELSE p]]

Written(p) == [saved EXCEPT ![post[p].scope] =
                  [i \in Rows |-> IF i \in post[p].ids THEN p ELSE @[i]]]

ServeExecute(p) ==
    /\ ToServe(p, {"execute"})
    /\ \/ /\ HasReceipt(p)
          /\ Reply(p, post[p].revs, IF receipts[post[p].op].undone THEN "reverted" ELSE "applied")
          /\ UNCHANGED <<saved, receipts>>
       \/ /\ ~HasReceipt(p) /\ StillAsReviewed(p)
          /\ saved' = Written(p)
          /\ receipts' = [receipts EXCEPT ![post[p].op] =
                [tenant |-> post[p].scope, ids |-> post[p].ids, after |-> p, undone |-> FALSE,
                 reviewed |-> post[p].seen, before |-> Only(saved[post[p].scope], post[p].ids)]]
          /\ Reply(p, post[p].revs, "applied")
       \/ /\ ~HasReceipt(p) /\ ~StillAsReviewed(p)
          /\ Reply(p, post[p].revs, "refused")
          /\ UNCHANGED <<saved, receipts>>
    /\ UNCHANGED <<tab, edits, grid, dialog, revert>>

\* Seeded fault: the rows are put back without a look at them.
UntouchedUnchecked(p) == TRUE

\* Every changed row still carries the revision the command left.
Untouched(p) ==
    LET receipt == receipts[post[p].op]
    IN  \A i \in receipt.ids : saved[receipt.tenant][i] = receipt.after

ServeUndo(p) ==
    /\ ToServe(p, {"undo"})
    /\ LET op == post[p].op IN
       \/ /\ HasReceipt(p) /\ receipts[op].undone
          /\ Reply(p, NoRevs, "reverted")
          /\ UNCHANGED <<saved, receipts>>
       \/ /\ HasReceipt(p) /\ ~receipts[op].undone /\ Untouched(p)
          /\ saved' = Written(p)
          /\ receipts' = [receipts EXCEPT ![op].undone = TRUE]
          /\ Reply(p, NoRevs, "reverted")
       \/ /\ HasReceipt(p) => ~receipts[op].undone /\ ~Untouched(p)
          /\ Reply(p, NoRevs, "refused")
          /\ UNCHANGED <<saved, receipts>>
    /\ UNCHANGED <<tab, edits, grid, dialog, revert>>

PeerEdits ==
    /\ edits < MaxEdits
    /\ edits' = edits + 1
    /\ \E t \in Tenants, i \in Rows : saved' = [saved EXCEPT ![t][i] = MaxPosts + edits']
    /\ UNCHANGED <<tab, receipts, post, grid, dialog, revert>>

BulkNext ==
    \/ \E t \in Tenants : BeginSwitch(t)
    \/ ConfirmSwitch \/ FailSwitch \/ Reload \/ Dismiss \/ PeerEdits
    \/ \E p \in Posts :
        \/ \E ids \in Selections : RequestPreview(p, ids)
        \/ PreviewArrives(p) \/ Confirm(p) \/ ArchiveRow(p) \/ CheckArrives(p)
        \/ ExecuteArrives(p) \/ Revert(p) \/ UndoArrives(p) \/ Disconnect(p)
        \/ ServePreview(p) \/ ServeExecute(p) \/ ServeUndo(p)

BulkSpec == BulkInit /\ [][BulkNext]_bulkVars

-----------------------------------------------------------------------------

Done(op) == receipts[op].tenant # "none"

BulkTypeOK ==
    /\ tab.tenant \in Tenants /\ tab.next \in Tenants /\ tab.switch \in {"none", "asking", "leaving", "switched"}
    /\ saved \in [Tenants -> [Rows -> Writers]] /\ grid \in [Rows -> Writers]
    /\ dialog \in [generation : 0..MaxPosts, accepted : 0..MaxPosts, shown : 0..MaxPosts,
                   done : BOOLEAN]
    /\ revert \in [Posts -> {"none", "offered", "sent", "complete"}]
    /\ \A p \in Posts : post[p].stage \in {"free", "sent", "answered", "over", "forgotten", "lost"}

\* A command overwrites only the revisions its user reviewed, in the dialog or on
\* the screen: an edit by somebody else is never lost unseen.
NoEditLost == \A op \in Posts : Done(op) => receipts[op].before = receipts[op].reviewed

\* An undo takes back its own command only: the step that reverts it finds every
\* row as the command left it.
UndoTakesBackItsOwn ==
    [][\A op \in Posts :
         Done(op) /\ receipts'[op].undone /\ ~receipts[op].undone =>
            \A i \in receipts[op].ids : saved[receipts[op].tenant][i] = receipts[op].after]_bulkVars

\* "Nothing was changed": a command that is answered with a refusal was not
\* carried out, not even by an earlier request of the same operation.
RefusalIsTrue ==
    \A p \in Posts : post[p].kind = "execute" /\ post[p].reply = "refused" => ~Done(post[p].op)

\* The dialog shows the latest preview asked for, in whatever order the answers come.
LatestPreviewShown ==
    LET p == dialog.generation IN
    p # 0 /\ dialog.shown # 0 => dialog.shown = p \/ post[p].stage # "over"

\* While a write is in flight the tab stays in the tenant the write was sent to,
\* and a command goes to the tenant of its preview.  (An undo clicked between
\* selectCurrentTenant and the reload goes to the new tenant, which has no such
\* receipt.)
WritesStayInTenant ==
    /\ \A p \in Posts : InFlight(p) => post[p].scope = tab.tenant
    /\ \A p \in Posts : post[p].kind = "execute" => post[p].scope = post[post[p].op].scope

\* The rows change as ReviewedStore says, whatever is sent twice, lost, late or
\* edited meanwhile: an operation is a review (a preview, or the check of one row),
\* its one command and its one undo.
ReviewMade(op) == \/ /\ post[op].kind \in {"preview", "check"}
                     /\ post[op].stage \notin {"sent", "forgotten"}
                  \/ post[op].kind = "execute" /\ post[op].op = op

OperationOf(op) ==
    IF Done(op) THEN
        IF receipts[op].undone THEN [state |-> "undone"]
        ELSE [state |-> "done", tenant |-> receipts[op].tenant, ids |-> receipts[op].ids,
              left |-> receipts[op].after]
    ELSE IF ReviewMade(op) THEN
        [state |-> "reviewed", tenant |-> post[op].scope, ids |-> post[op].ids,
         revs |-> post[op].revs]
    ELSE [state |-> "none"]

Store == INSTANCE ReviewedStore
         WITH Operations <- Posts, Revisions <- Writers, Unwritten <- 0,
              operation <- [op \in Posts |-> OperationOf(op)]

ImplementsReviewedStore == Store!StoreSpec
=============================================================================
