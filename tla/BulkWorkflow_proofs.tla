------------------------- MODULE BulkWorkflow_proofs -------------------------
(***************************************************************************)
(* For every number of tenants, rows, requests and edits: a bulk command   *)
(* overwrites only what its user reviewed, an undo takes back its own      *)
(* command, writes stay in their tenant, the dialog shows the latest       *)
(* preview, and the rows change as ReviewedStore says.                     *)
(*                                                                         *)
(* The inductive invariant has three parts.  A request that was made has a *)
(* tenant and an operation, a command carries the revisions its user saw,  *)
(* and nothing is in flight while the tenant is being switched.  The       *)
(* dialog's generation is a preview that was asked for.  A receipt is      *)
(* complete and holds the reviewed revisions.  That a refusal stays true   *)
(* needs a second one on top: every write brings a fresh revision, so what *)
(* was refused for a changed row never agrees again.  The refinement of    *)
(* ReviewedStore adds that a receipt and an undo are for the rows of the   *)
(* operation's own request.                                                *)
(***************************************************************************)
EXTENDS BulkWorkflow, TLAPS

Revs == [Rows -> Writers]
Numbers == 0..MaxPosts

PostRecord ==
    [stage : {"free", "sent", "answered", "over", "forgotten", "lost"},
     kind : {"none", "preview", "check", "execute", "undo"},
     ids : SUBSET Rows, scope : Tenants \cup {"none"}, op : Numbers, seen : Revs, revs : Revs,
     owner : Numbers, generation : Numbers,
     reply : {"none", "preview", "applied", "reverted", "refused"}]

Receipt == [tenant : Tenants, ids : SUBSET Rows, after : Posts, undone : BOOLEAN,
            reviewed : Revs, before : Revs]

TabShape == [tenant : Tenants, switch : {"none", "asking", "leaving", "switched"}, next : Tenants]
DialogShape == [generation : Numbers, accepted : Numbers, shown : Numbers, done : BOOLEAN]

Shape == /\ tab \in TabShape
         /\ saved \in [Tenants -> Revs]
         /\ edits \in 0..MaxEdits
         /\ post \in [Posts -> PostRecord]
         /\ grid \in Revs
         /\ dialog \in DialogShape
         /\ revert \in [Posts -> {"none", "offered", "sent", "complete"}]

Asked(p) == post[p].stage # "free"

\* The requests: made by the tab, for the tenant it is in.
PostsOK ==
    \A p \in Posts :
        /\ Asked(p) => post[p].scope \in Tenants /\ post[p].op \in Posts
        /\ InFlight(p) => tab.switch # "asking" /\ post[p].scope = tab.tenant
        /\ post[p].kind # "none" => Asked(p)
        /\ post[p].kind = "check" => post[p].op = p
        /\ post[p].kind = "execute" =>
              /\ post[p].revs = post[p].seen
              /\ Asked(post[p].op) /\ post[p].scope = post[post[p].op].scope

\* The previews of the dialog were asked for.
DialogOK ==
    /\ dialog.generation # 0 => post[dialog.generation].kind = "preview"
    /\ dialog.accepted # 0 => Asked(dialog.accepted)
    /\ dialog.shown # 0 => Asked(dialog.shown)
    /\ LatestPreviewShown

ReceiptsOK ==
    /\ receipts = [op \in Posts |-> receipts[op]]
    /\ \A op \in Posts :
          Done(op) => receipts[op] \in Receipt /\ receipts[op].before = receipts[op].reviewed

BulkInv == Shape /\ PostsOK /\ DialogOK /\ ReceiptsOK

-----------------------------------------------------------------------------

LEMMA Zeros == NoRevs \in Revs /\ 0 \in Numbers /\ 0 \in Writers /\ 0 \in 0..MaxEdits
  BY BulkAssumption DEF BulkAssumption, NoRevs, Revs, Numbers, Writers

LEMMA OnlyIsRevs ==
    ASSUME NEW revs \in Revs, NEW ids PROVE Only(revs, ids) \in Revs
  BY Zeros DEF Only, Revs

LEMMA BulkInitInv == BulkInit => BulkInv
  <1>. SUFFICES ASSUME BulkInit PROVE BulkInv
    OBVIOUS
  <1>1. tab \in TabShape /\ tab.switch = "none"
    BY DEF BulkInit, TabShape
  <1>2. FreePost \in PostRecord
    BY Zeros DEF FreePost, PostRecord
  <1>3. \A p \in Posts : post[p] = FreePost
    BY DEF BulkInit
  <1>4. Shape
    BY <1>1, <1>2, Zeros DEF BulkInit, Shape, ClosedDialog, DialogShape
  <1>5. PostsOK
    BY <1>3 DEF PostsOK, Asked, InFlight, FreePost
  <1>6. DialogOK
    BY DEF BulkInit, DialogOK, ClosedDialog, LatestPreviewShown
  <1>7. ReceiptsOK
    BY DEF BulkInit, ReceiptsOK, Done
  <1>. QED BY <1>4, <1>5, <1>6, <1>7 DEF BulkInv

\* Requests that move on keep what they were sent with.
LEMMA PostsMove ==
    ASSUME BulkInv, UNCHANGED tab,
           \A p \in Posts :
              /\ post'[p].scope = post[p].scope /\ post'[p].op = post[p].op
              /\ Asked(p)' <=> Asked(p)
              /\ InFlight(p)' => InFlight(p)
              /\ \/ /\ post'[p].kind = post[p].kind /\ post'[p].seen = post[p].seen
                    /\ post[p].kind = "execute" => post'[p].revs = post[p].revs
                 \/ /\ post[p].kind = "check" /\ post'[p].kind = "execute"
                    /\ post'[p].revs = post'[p].seen
    PROVE  PostsOK'
  BY DEF BulkInv, PostsOK, Asked

\* A step that leaves the requests and the tab alone.
LEMMA PostsStay ==
    ASSUME BulkInv, UNCHANGED <<tab, post>> PROVE PostsOK'
  BY DEF BulkInv, PostsOK, Asked, InFlight

\* The dialog keeps its generation and closes at most.
LEMMA DialogStays ==
    ASSUME BulkInv, dialog'.generation = dialog.generation,
           dialog'.accepted \in {0, dialog.accepted}, dialog'.shown \in {0, dialog.shown},
           \A p \in Posts :
              /\ Asked(p) => Asked(p)'
              /\ post[p].kind = "preview" =>
                    post'[p].kind = "preview" /\ (post'[p].stage = "over" => post[p].stage = "over")
    PROVE  DialogOK'
  <1>1. \A n \in Numbers : n # 0 => n \in Posts
    BY BulkAssumption DEF BulkAssumption, Numbers, Posts
  <1>2. /\ dialog.generation \in Numbers /\ dialog.accepted \in Numbers /\ dialog.shown \in Numbers
    BY DEF BulkInv, Shape, DialogShape
  <1>. QED BY <1>1, <1>2 DEF BulkInv, DialogOK, LatestPreviewShown

LEMMA ReceiptsStay ==
    ASSUME BulkInv, UNCHANGED receipts PROVE ReceiptsOK'
  BY DEF BulkInv, ReceiptsOK, Done

-----------------------------------------------------------------------------
(* The tab's tenant: the requests in flight keep it from being switched. *)

LEMMA TabInv ==
    ASSUME BulkInv, NEW t \in Tenants, BeginSwitch(t) \/ ConfirmSwitch \/ FailSwitch
    PROVE  BulkInv'
  <1>1. UNCHANGED <<saved, edits, receipts, post, grid, dialog, revert>>
    BY DEF BeginSwitch, ConfirmSwitch, FailSwitch
  <1>2. tab' \in TabShape
    BY DEF BeginSwitch, ConfirmSwitch, FailSwitch, BulkInv, Shape, TabShape
  <1>3. Shape'
    BY <1>1, <1>2 DEF BulkInv, Shape
  <1>4. \A p \in Posts : ~InFlight(p)
    BY DEF BeginSwitch, SwitchAllowed, PendingWrites, ConfirmSwitch, FailSwitch, BulkInv, PostsOK
  <1>5. PostsOK'
    BY <1>1, <1>4 DEF BulkInv, PostsOK, Asked, InFlight
  <1>6. DialogOK'
    BY <1>1, DialogStays DEF Asked
  <1>7. ReceiptsOK'
    BY <1>1, ReceiptsStay
  <1>. QED BY <1>3, <1>5, <1>6, <1>7 DEF BulkInv

LEMMA ForgottenStep ==
    ASSUME BulkInv, NEW p \in Posts
    PROVE  /\ Forgotten(p) \in PostRecord
           /\ Forgotten(p).stage \notin {"sent", "answered"}
           /\ Forgotten(p).stage = "over" => post[p].stage = "over"
           /\ Forgotten(p).stage # "free" <=> Asked(p)
           /\ \/ Forgotten(p) = [post[p] EXCEPT !.stage = "forgotten"]
              \/ Forgotten(p) = [post[p] EXCEPT !.stage = "lost"]
              \/ Forgotten(p) = post[p]
           /\ Forgotten(p).scope = post[p].scope /\ Forgotten(p).op = post[p].op
           /\ Forgotten(p).kind = post[p].kind /\ Forgotten(p).seen = post[p].seen
           /\ Forgotten(p).revs = post[p].revs
  <1>1. post[p] \in PostRecord
    BY DEF BulkInv, Shape
  <1>2. CASE post[p].stage = "sent"
    <2>1. Forgotten(p) = [post[p] EXCEPT !.stage = "forgotten"]
      BY <1>2 DEF Forgotten
    <2>. QED BY <1>1, <1>2, <2>1 DEF PostRecord, Asked
  <1>3. CASE post[p].stage = "answered"
    <2>1. Forgotten(p) = [post[p] EXCEPT !.stage = "lost"]
      BY <1>3 DEF Forgotten
    <2>. QED BY <1>1, <1>3, <2>1 DEF PostRecord, Asked
  <1>4. CASE post[p].stage \notin {"sent", "answered"}
    <2>1. Forgotten(p) = [post[p] EXCEPT !.stage = post[p].stage]
      BY <1>4 DEF Forgotten
    <2>2. Forgotten(p) = post[p]
      BY <1>1, <2>1 DEF PostRecord
    <2>. QED BY <1>1, <1>4, <2>2 DEF Asked
  <1>. QED BY <1>2, <1>3, <1>4

LEMMA ReloadInv == ASSUME BulkInv, Reload PROVE BulkInv'
  <1>1. /\ tab.switch = "leaving" /\ tab' = [tab EXCEPT !.switch = "switched"]
        /\ grid' = saved[tab.tenant] /\ dialog' = ClosedDialog
        /\ revert' = [p \in Posts |-> "none"]
        /\ post' = [p \in Posts |-> Forgotten(p)]
        /\ UNCHANGED <<saved, edits, receipts>>
    BY DEF Reload
  <1>2. /\ tab' \in TabShape /\ dialog' \in DialogShape /\ grid' \in Revs
        /\ post' \in [Posts -> PostRecord]
        /\ revert' \in [Posts -> {"none", "offered", "sent", "complete"}]
    BY <1>1, Zeros, ForgottenStep
       DEF BulkInv, Shape, TabShape, DialogShape, ClosedDialog
  <1>3. Shape'
    BY <1>1, <1>2 DEF BulkInv, Shape
  <1>4. \A p \in Posts :
           /\ post'[p].scope = post[p].scope /\ post'[p].op = post[p].op
           /\ post'[p].kind = post[p].kind /\ post'[p].seen = post[p].seen
           /\ post'[p].revs = post[p].revs
           /\ post'[p].stage # "free" <=> Asked(p)
           /\ post'[p].stage \notin {"sent", "answered"}
    BY <1>1, ForgottenStep
  <1>5. PostsOK'
    BY <1>4 DEF BulkInv, PostsOK, Asked, InFlight
  <1>6. DialogOK'
    BY <1>1 DEF ClosedDialog, DialogOK, LatestPreviewShown
  <1>7. ReceiptsOK'
    BY <1>1, ReceiptsStay
  <1>. QED BY <1>3, <1>5, <1>6, <1>7 DEF BulkInv

-----------------------------------------------------------------------------
(* The tab's requests. *)

\* What a request is sent with.
LEMMA RequestStep ==
    ASSUME BulkInv, NEW kind \in {"preview", "check", "execute", "undo"},
           NEW ids \in SUBSET Rows, NEW op \in Posts
    PROVE  /\ Request(kind, ids, op) \in PostRecord
           /\ Request(kind, ids, op).stage = "sent" /\ Request(kind, ids, op).kind = kind
           /\ Request(kind, ids, op).scope = tab.tenant /\ Request(kind, ids, op).op = op
  <1>1. op \in Numbers /\ tab.tenant \in Tenants
    BY BulkAssumption DEF BulkAssumption, Numbers, Posts, BulkInv, Shape, TabShape
  <1>2. FreePost \in PostRecord
    BY Zeros DEF FreePost, PostRecord
  <1>. QED BY <1>1, <1>2 DEF Request, PostRecord

\* A new request, for the tab's tenant, of an operation that was previewed or is
\* this request.
LEMMA NewPost ==
    ASSUME BulkInv, NEW p \in Posts, CanPost(p), UNCHANGED tab,
           NEW record \in PostRecord, post' = [post EXCEPT ![p] = record],
           record.stage = "sent", record.scope = tab.tenant, record.kind # "none",
           record.op \in Posts,
           record.kind = "check" => record.op = p,
           record.kind = "execute" => /\ record.revs = record.seen /\ Asked(record.op)
                                      /\ record.scope = post[record.op].scope
    PROVE  /\ PostsOK' /\ post' \in [Posts -> PostRecord]
           /\ post'[p] = record
           /\ \A q \in Posts : q # p => post'[q] = post[q]
           /\ \A q \in Posts : Asked(q) => q # p
  <1>1. post \in [Posts -> PostRecord]
    BY DEF BulkInv, Shape
  <1>2. /\ post' \in [Posts -> PostRecord] /\ post'[p] = record
        /\ \A q \in Posts : q # p => post'[q] = post[q]
    BY <1>1
  <1>3. \A q \in Posts : Asked(q) => q # p
    BY DEF CanPost, Asked
  <1>4. tab.switch # "asking" /\ tab.tenant \in Tenants
    BY DEF CanPost, BulkInv, Shape, TabShape
  <1>5. \A q \in Posts : Asked(q)' <=> Asked(q) \/ q = p
    BY <1>2 DEF Asked
  <1>6. PostsOK'
    BY <1>2, <1>3, <1>4, <1>5 DEF BulkInv, PostsOK, InFlight
  <1>. QED BY <1>2, <1>3, <1>6

LEMMA RequestPreviewInv ==
    ASSUME BulkInv, NEW p \in Posts, NEW ids \in Selections, RequestPreview(p, ids)
    PROVE  BulkInv'
  <1>. DEFINE record == Request("preview", ids, p)
  <1>1. p \in Numbers /\ ids \subseteq Rows
    BY BulkAssumption DEF BulkAssumption, Numbers, Posts
  <1>2. /\ record \in PostRecord /\ record.stage = "sent" /\ record.kind = "preview"
        /\ record.scope = tab.tenant /\ record.op = p
    BY <1>1, RequestStep
  <1>3. /\ CanPost(p) /\ post' = [post EXCEPT ![p] = record]
        /\ dialog' = [dialog EXCEPT !.generation = p]
        /\ UNCHANGED <<tab, saved, edits, receipts, grid, revert>>
    BY DEF RequestPreview
  <1>. HIDE DEF record
  <1>4. /\ PostsOK' /\ post' \in [Posts -> PostRecord]
        /\ post'[p] = record
        /\ \A q \in Posts : q # p => post'[q] = post[q]
        /\ \A q \in Posts : Asked(q) => q # p
    BY <1>2, <1>3, NewPost
  <1>5. /\ dialog' \in DialogShape /\ dialog'.generation = p
        /\ dialog'.accepted = dialog.accepted /\ dialog'.shown = dialog.shown
    BY <1>1, <1>3 DEF BulkInv, Shape, DialogShape
  <1>6. Shape'
    BY <1>3, <1>4, <1>5 DEF BulkInv, Shape
  <1>7. DialogOK'
    <2>1. \A n \in Numbers : n # 0 => n \in Posts
      BY BulkAssumption DEF BulkAssumption, Numbers, Posts
    <2>2. dialog.accepted \in Numbers /\ dialog.shown \in Numbers
      BY DEF BulkInv, Shape, DialogShape
    <2>. QED BY <1>2, <1>4, <1>5, <2>1, <2>2 DEF BulkInv, DialogOK, LatestPreviewShown, Asked
  <1>8. ReceiptsOK'
    BY <1>3, ReceiptsStay
  <1>. QED BY <1>4, <1>6, <1>7, <1>8 DEF BulkInv

\* A request that leaves the dialog as it is.
LEMMA Sent ==
    ASSUME BulkInv, NEW p \in Posts, CanPost(p), UNCHANGED <<tab, saved, edits, receipts, grid, dialog>>,
           NEW record \in PostRecord, post' = [post EXCEPT ![p] = record],
           record.stage = "sent", record.scope = tab.tenant, record.kind # "none",
           record.op \in Posts,
           record.kind = "check" => record.op = p,
           record.kind = "execute" => /\ record.revs = record.seen /\ Asked(record.op)
                                      /\ record.scope = post[record.op].scope,
           revert' \in [Posts -> {"none", "offered", "sent", "complete"}]
    PROVE  BulkInv'
  <1>1. /\ PostsOK' /\ post' \in [Posts -> PostRecord]
        /\ post'[p] = record
        /\ \A q \in Posts : q # p => post'[q] = post[q]
        /\ \A q \in Posts : Asked(q) => q # p
    BY NewPost
  <1>2. Shape'
    BY <1>1 DEF BulkInv, Shape
  <1>3. \A q \in Posts : post[q].kind = "preview" => q # p
    BY <1>1 DEF BulkInv, PostsOK
  <1>4. DialogOK'
    BY <1>1, <1>3, DialogStays DEF Asked
  <1>5. ReceiptsOK'
    BY ReceiptsStay
  <1>. QED BY <1>1, <1>2, <1>4, <1>5 DEF BulkInv

\* A command is bound to the revisions of the accepted preview; without one its
\* own preview is asked for.
LEMMA ExecuteInv ==
    ASSUME BulkInv, NEW p \in Posts, NEW ids \in SUBSET Rows, Execute(p, ids)
    PROVE  BulkInv'
  <1>. DEFINE op == dialog.accepted
  <1>1. /\ CanPost(p) /\ UNCHANGED <<tab, saved, edits, receipts, grid, dialog, revert>>
        /\ revert \in [Posts -> {"none", "offered", "sent", "complete"}]
    BY DEF Execute, BulkInv, Shape
  <1>2. /\ p \in Numbers /\ tab.tenant \in Tenants /\ dialog.generation \in Numbers
        /\ Owner(ids) \in Numbers /\ (op # 0 => op \in Posts)
    BY BulkAssumption, Zeros
       DEF BulkAssumption, Numbers, Posts, BulkInv, Shape, TabShape, DialogShape, Owner
  <1>3. CASE Matches(ids) /\ SendReviewed(p, ids)
    <2>. DEFINE request == Request("execute", ids, op)
                record == [request EXCEPT !.seen = post[op].revs, !.revs = post[op].revs,
                             !.owner = Owner(ids), !.generation = dialog.generation]
    <2>1. /\ op \in Posts /\ op \in Numbers /\ Asked(op) /\ post[op].scope = tab.tenant
          /\ post[op].revs \in Revs
      BY <1>2, <1>3, BulkAssumption
         DEF BulkAssumption, Matches, SendReviewed, BulkInv, DialogOK, Shape, PostRecord,
             Numbers, Posts
    <2>2. /\ request \in PostRecord /\ request.stage = "sent" /\ request.kind = "execute"
          /\ request.scope = tab.tenant /\ request.op = op
      BY <2>1, RequestStep
    <2>3. post' = [post EXCEPT ![p] = record]
      BY <1>3 DEF SendReviewed
    <2>. HIDE DEF request, op
    <2>4. /\ record \in PostRecord /\ record.stage = "sent" /\ record.kind = "execute"
          /\ record.scope = tab.tenant /\ record.op = op /\ record.revs = record.seen
      BY <1>2, <2>1, <2>2 DEF PostRecord
    <2>. HIDE DEF record
    <2>. QED BY <1>1, <2>1, <2>3, <2>4, Sent
  <1>4. CASE SendCheck(p, ids)
    <2>. DEFINE request == Request("check", ids, p)
                record == [request EXCEPT !.seen = Only(grid, ids),
                             !.owner = Owner(ids), !.generation = dialog.generation]
    <2>1. Only(grid, ids) \in Revs
      BY OnlyIsRevs DEF BulkInv, Shape
    <2>2. /\ request \in PostRecord /\ request.stage = "sent" /\ request.kind = "check"
          /\ request.scope = tab.tenant /\ request.op = p
      BY RequestStep
    <2>3. post' = [post EXCEPT ![p] = record]
      BY <1>4 DEF SendCheck
    <2>. HIDE DEF request
    <2>4. /\ record \in PostRecord /\ record.stage = "sent" /\ record.kind = "check"
          /\ record.scope = tab.tenant /\ record.op = p
      BY <1>2, <2>1, <2>2 DEF PostRecord
    <2>. HIDE DEF record
    <2>. QED BY <1>1, <2>3, <2>4, Sent
  <1>. QED BY <1>3, <1>4 DEF Execute

LEMMA ConfirmInv ==
    ASSUME BulkInv, NEW p \in Posts, Confirm(p) \/ ArchiveRow(p) PROVE BulkInv'
  <1>1. CASE Confirm(p)
    <2>1. dialog.shown \in Posts
      BY <1>1, BulkAssumption
         DEF BulkAssumption, Confirm, BulkInv, Shape, DialogShape, Numbers, Posts
    <2>2. post[dialog.shown].ids \in SUBSET Rows
      BY <2>1 DEF BulkInv, Shape, PostRecord
    <2>. QED BY <1>1, <2>2, ExecuteInv DEF Confirm
  <1>2. CASE ArchiveRow(p)
    BY <1>2, ExecuteInv DEF ArchiveRow
  <1>. QED BY <1>1, <1>2

LEMMA RevertInv ==
    ASSUME BulkInv, NEW p \in Posts, Revert(p) PROVE BulkInv'
  <1>1. PICK op \in Posts :
           /\ revert[op] = "offered" /\ revert' = [revert EXCEPT ![op] = "sent"]
           /\ post' = [post EXCEPT ![p] = Request("undo", post[op].ids, op)]
    BY DEF Revert
  <1>. DEFINE record == Request("undo", post[op].ids, op)
  <1>2. /\ post[op].ids \in SUBSET Rows
        /\ revert' \in [Posts -> {"none", "offered", "sent", "complete"}]
    BY <1>1 DEF BulkInv, Shape, PostRecord
  <1>3. /\ record \in PostRecord /\ record.stage = "sent" /\ record.kind = "undo"
        /\ record.scope = tab.tenant /\ record.op = op
    BY <1>2, RequestStep
  <1>4. post' = [post EXCEPT ![p] = record]
    BY <1>1
  <1>5. /\ CanPost(p) /\ UNCHANGED <<tab, saved, edits, receipts, grid, dialog>>
    BY DEF Revert
  <1>. HIDE DEF record
  <1>. QED BY <1>2, <1>3, <1>4, <1>5, Sent

-----------------------------------------------------------------------------
(* The answers. *)

LEMMA HandledStep ==
    ASSUME BulkInv, NEW p \in Posts, InFlight(p), post' = Handled(p), UNCHANGED tab
    PROVE  /\ PostsOK' /\ post' \in [Posts -> PostRecord]
           /\ \A q \in Posts : q # p => post'[q] = post[q]
           /\ post'[p].stage = "over" /\ post'[p].kind = post[p].kind
           /\ post'[p].scope = post[p].scope
  <1>1. post \in [Posts -> PostRecord]
    BY DEF BulkInv, Shape
  <1>2. /\ post' \in [Posts -> PostRecord]
        /\ \A q \in Posts : q # p => post'[q] = post[q]
        /\ post'[p].stage = "over" /\ post'[p].kind = post[p].kind /\ post'[p].op = post[p].op
        /\ post'[p].scope = post[p].scope /\ post'[p].seen = post[p].seen
        /\ post'[p].revs = post[p].revs
    BY <1>1 DEF Handled, PostRecord
  <1>3. PostsOK'
    BY <1>2, PostsMove DEF Asked, InFlight
  <1>. QED BY <1>2, <1>3

LEMMA PreviewArrivesInv ==
    ASSUME BulkInv, NEW p \in Posts, PreviewArrives(p) PROVE BulkInv'
  <1>1. /\ InFlight(p) /\ post[p].kind = "preview" /\ post' = Handled(p)
        /\ UNCHANGED <<tab, saved, edits, receipts, grid, revert>>
    BY DEF PreviewArrives, InFlight
  <1>2. /\ PostsOK' /\ post' \in [Posts -> PostRecord]
        /\ \A q \in Posts : q # p => post'[q] = post[q]
        /\ post'[p].stage = "over" /\ post'[p].kind = "preview"
    BY <1>1, HandledStep
  <1>3. post[p].scope = tab.tenant /\ p \in Numbers /\ Asked(p)
    BY <1>1, BulkAssumption DEF BulkAssumption, BulkInv, PostsOK, Numbers, Posts, InFlight, Asked
  <1>4. CASE IsCurrent(p)
    <2>1. dialog' = [dialog EXCEPT !.accepted = p, !.shown = p, !.done = FALSE]
      BY <1>3, <1>4 DEF PreviewArrives
    <2>2. /\ dialog' \in DialogShape /\ dialog'.generation = p
          /\ dialog'.accepted = p /\ dialog'.shown = p
      BY <1>3, <1>4, <2>1 DEF IsCurrent, BulkInv, Shape, DialogShape
    <2>3. DialogOK'
      BY <1>2, <2>2 DEF DialogOK, LatestPreviewShown, Asked
    <2>. QED BY <1>1, <1>2, <2>2, <2>3, ReceiptsStay DEF BulkInv, Shape
  <1>5. CASE ~IsCurrent(p)
    <2>1. UNCHANGED dialog
      BY <1>5 DEF PreviewArrives
    <2>2. \A n \in Numbers : n # 0 => n \in Posts
      BY BulkAssumption DEF BulkAssumption, Numbers, Posts
    <2>3. dialog.generation \in Numbers /\ dialog.accepted \in Numbers /\ dialog.shown \in Numbers
      BY DEF BulkInv, Shape, DialogShape
    <2>4. DialogOK'
      BY <1>2, <1>5, <2>1, <2>2, <2>3
         DEF IsCurrent, BulkInv, DialogOK, LatestPreviewShown, Asked
    <2>. QED BY <1>1, <1>2, <2>1, <2>4, ReceiptsStay DEF BulkInv, Shape
  <1>. QED BY <1>4, <1>5

LEMMA CheckArrivesInv ==
    ASSUME BulkInv, NEW p \in Posts, CheckArrives(p) PROVE BulkInv'
  <1>1. /\ InFlight(p) /\ post[p].kind = "check" /\ post[p].stage = "answered"
        /\ UNCHANGED <<tab, saved, edits, receipts, grid, dialog, revert>>
    BY DEF CheckArrives, InFlight
  <1>2. /\ PostsOK' /\ post' \in [Posts -> PostRecord]
        /\ \A q \in Posts : q # p => post'[q] = post[q]
        /\ post'[p].stage # "free"
    <2>1. CASE post' = Handled(p)
      BY <1>1, <2>1, HandledStep
    <2>2. CASE /\ post[p].revs = post[p].seen
               /\ post' = [post EXCEPT ![p].kind = "execute", ![p].stage = "sent"]
      <3>1. post \in [Posts -> PostRecord]
        BY DEF BulkInv, Shape
      <3>2. /\ post' \in [Posts -> PostRecord]
            /\ \A q \in Posts : q # p => post'[q] = post[q]
            /\ post'[p].stage = "sent" /\ post'[p].kind = "execute" /\ post'[p].op = post[p].op
            /\ post'[p].scope = post[p].scope /\ post'[p].seen = post[p].seen
            /\ post'[p].revs = post[p].revs
        <4>. DEFINE sent == [post[p] EXCEPT !.kind = "execute", !.stage = "sent"]
        <4>1. post' = [post EXCEPT ![p] = sent]
          BY <2>2, <3>1 DEF PostRecord
        <4>2. /\ sent \in PostRecord /\ sent.stage = "sent" /\ sent.kind = "execute"
              /\ sent.op = post[p].op /\ sent.scope = post[p].scope
              /\ sent.seen = post[p].seen /\ sent.revs = post[p].revs
          BY <3>1 DEF PostRecord
        <4>. HIDE DEF sent
        <4>. QED BY <3>1, <4>1, <4>2
      <3>3. PostsOK'
        BY <1>1, <2>2, <3>2, PostsMove DEF Asked, InFlight
      <3>. QED BY <3>2, <3>3
    <2>. QED BY <2>1, <2>2 DEF CheckArrives, UnchangedSinceLoaded
  <1>3. DialogOK'
    BY <1>1, <1>2, DialogStays DEF Asked
  <1>. QED BY <1>1, <1>2, <1>3, ReceiptsStay DEF BulkInv, Shape

\* An answer to a command or an undo may close the dialog and show the rows anew.
LEMMA ResultArrivesInv ==
    ASSUME BulkInv, NEW p \in Posts, ExecuteArrives(p) \/ UndoArrives(p) PROVE BulkInv'
  <1>1. /\ InFlight(p) /\ post[p].kind \in {"execute", "undo"} /\ post' = Handled(p)
        /\ UNCHANGED <<tab, saved, edits, receipts>>
    BY DEF ExecuteArrives, UndoArrives, InFlight
  <1>2. /\ PostsOK' /\ post' \in [Posts -> PostRecord]
        /\ \A q \in Posts : q # p => post'[q] = post[q]
        /\ post'[p].stage = "over"
    BY <1>1, HandledStep
  <1>3. grid' \in Revs
    BY DEF ExecuteArrives, UndoArrives, BulkInv, Shape, TabShape
  <1>4. revert' \in [Posts -> {"none", "offered", "sent", "complete"}]
    BY DEF ExecuteArrives, UndoArrives, BulkInv, Shape
  <1>5. /\ dialog' \in DialogShape /\ dialog'.generation = dialog.generation
        /\ dialog'.accepted \in {0, dialog.accepted} /\ dialog'.shown \in {0, dialog.shown}
    <2>1. dialog \in DialogShape
      BY DEF BulkInv, Shape
    <2>2. CASE UNCHANGED dialog
      BY <2>1, <2>2
    <2>3. CASE ExecuteArrives(p) /\ ~UNCHANGED dialog
      BY <2>1, <2>3, Zeros DEF ExecuteArrives, DialogShape
    <2>4. CASE UndoArrives(p) /\ ~UNCHANGED dialog
      BY <2>1, <2>4, Zeros DEF UndoArrives, DialogShape
    <2>. QED BY <2>2, <2>3, <2>4
  <1>6. DialogOK'
    BY <1>1, <1>2, <1>5, DialogStays DEF Asked
  <1>. QED BY <1>1, <1>2, <1>3, <1>4, <1>5, <1>6, ReceiptsStay DEF BulkInv, Shape

LEMMA DismissInv == ASSUME BulkInv, Dismiss PROVE BulkInv'
  <1>1. dialog' \in DialogShape /\ dialog' = ClosedDialog
    BY Zeros DEF Dismiss, ClosedDialog, DialogShape
  <1>2. UNCHANGED <<tab, saved, edits, receipts, post, grid, revert>>
    BY DEF Dismiss
  <1>3. DialogOK'
    BY <1>1 DEF ClosedDialog, DialogOK, LatestPreviewShown
  <1>. QED BY <1>1, <1>2, <1>3, PostsStay, ReceiptsStay DEF BulkInv, Shape

LEMMA DisconnectInv ==
    ASSUME BulkInv, NEW p \in Posts, Disconnect(p) PROVE BulkInv'
  <1>1. /\ post' = [post EXCEPT ![p] = Forgotten(p)]
        /\ UNCHANGED <<tab, saved, edits, receipts, grid, dialog>>
    BY DEF Disconnect
  <1>2. /\ post' \in [Posts -> PostRecord] /\ post'[p] = Forgotten(p)
        /\ \A q \in Posts : q # p => post'[q] = post[q]
    BY <1>1, ForgottenStep DEF BulkInv, Shape
  <1>3. PostsOK'
    BY <1>1, <1>2, ForgottenStep, PostsMove DEF Asked, InFlight
  <1>4. DialogOK'
    BY <1>1, <1>2, ForgottenStep, DialogStays DEF Asked
  <1>5. revert' \in [Posts -> {"none", "offered", "sent", "complete"}]
    BY DEF Disconnect, BulkInv, Shape
  <1>. QED BY <1>1, <1>2, <1>3, <1>4, <1>5, ReceiptsStay DEF BulkInv, Shape

-----------------------------------------------------------------------------
(* The handler. *)

LEMMA ReplyStep ==
    ASSUME BulkInv, NEW p \in Posts, post[p].stage \in {"sent", "forgotten"},
           NEW revs \in Revs, NEW reply \in {"preview", "applied", "reverted", "refused"},
           Reply(p, revs, reply), UNCHANGED <<tab, dialog>>,
           post[p].kind = "execute" => revs = post[p].revs
    PROVE  PostsOK' /\ DialogOK' /\ post' \in [Posts -> PostRecord]
  <1>1. post \in [Posts -> PostRecord]
    BY DEF BulkInv, Shape
  <1>. DEFINE stage == IF post[p].stage = "sent" THEN "answered" ELSE "lost"
              replied == [post[p] EXCEPT !.reply = reply, !.revs = revs, !.stage = stage]
  <1>2. post' = [post EXCEPT ![p] = replied]
    BY <1>1 DEF Reply, PostRecord
  <1>3. /\ replied \in PostRecord /\ replied.stage = stage
        /\ replied.kind = post[p].kind /\ replied.op = post[p].op
        /\ replied.scope = post[p].scope /\ replied.seen = post[p].seen /\ replied.revs = revs
    BY <1>1 DEF PostRecord
  <1>4. /\ stage \notin {"free", "over"} /\ (stage = "answered" => post[p].stage = "sent")
        /\ stage # "sent"
    OBVIOUS
  <1>. HIDE DEF stage, replied
  <1>5. /\ post' \in [Posts -> PostRecord] /\ post'[p] = replied
        /\ \A q \in Posts : q # p => post'[q] = post[q]
    BY <1>1, <1>2, <1>3
  <1>6. PostsOK'
    BY <1>3, <1>4, <1>5, PostsMove DEF Asked, InFlight
  <1>7. DialogOK'
    BY <1>3, <1>4, <1>5, DialogStays DEF Asked
  <1>. QED BY <1>5, <1>6, <1>7

LEMMA WrittenStep ==
    ASSUME BulkInv, NEW p \in Posts PROVE Written(p) \in [Tenants -> Revs]
  <1>1. p \in Writers
    BY BulkAssumption DEF BulkAssumption, Posts, Writers
  <1>2. saved \in [Tenants -> Revs]
    BY DEF BulkInv, Shape
  <1>. QED BY <1>1, <1>2 DEF Written, Revs

LEMMA ServePreviewInv ==
    ASSUME BulkInv, NEW p \in Posts, ServePreview(p) PROVE BulkInv'
  <1>1. /\ post[p].stage \in {"sent", "forgotten"} /\ post[p].kind # "execute"
        /\ UNCHANGED <<tab, saved, edits, receipts, grid, dialog, revert>>
    BY DEF ServePreview, ToServe
  <1>2. post[p].scope \in Tenants
    BY <1>1 DEF BulkInv, PostsOK, Asked
  <1>3. Only(saved[post[p].scope], post[p].ids) \in Revs
    BY <1>2, OnlyIsRevs DEF BulkInv, Shape
  <1>4. PostsOK' /\ DialogOK' /\ post' \in [Posts -> PostRecord]
    BY <1>1, <1>3, ReplyStep DEF ServePreview
  <1>. QED BY <1>1, <1>4, ReceiptsStay DEF BulkInv, Shape

\* The preconditions agree, so the receipt holds what the user reviewed.
LEMMA ServeExecuteInv ==
    ASSUME BulkInv, NEW p \in Posts, ServeExecute(p) PROVE BulkInv'
  <1>1. /\ post[p].stage \in {"sent", "forgotten"} /\ post[p].kind = "execute"
        /\ UNCHANGED <<tab, edits, grid, dialog, revert>>
    BY DEF ServeExecute, ToServe
  <1>2. /\ post[p].scope \in Tenants /\ post[p].op \in Posts /\ post[p].revs = post[p].seen
        /\ post[p].ids \in SUBSET Rows /\ post[p].revs \in Revs
    BY <1>1 DEF BulkInv, PostsOK, Asked, Shape, PostRecord
  <1>3. PICK reply \in {"applied", "reverted", "refused"} : Reply(p, post[p].revs, reply)
    BY DEF ServeExecute
  <1>4. PostsOK' /\ DialogOK' /\ post' \in [Posts -> PostRecord]
    BY <1>1, <1>2, <1>3, ReplyStep
  <1>5. CASE UNCHANGED <<saved, receipts>>
    BY <1>1, <1>4, <1>5, ReceiptsStay DEF BulkInv, Shape
  <1>6. CASE ~HasReceipt(p) /\ StillAsReviewed(p) /\ ~UNCHANGED <<saved, receipts>>
    <2>. DEFINE before == Only(saved[post[p].scope], post[p].ids)
                receipt == [tenant |-> post[p].scope, ids |-> post[p].ids, after |-> p,
                            undone |-> FALSE, reviewed |-> post[p].seen, before |-> before]
    <2>1. saved' = Written(p) /\ receipts' = [receipts EXCEPT ![post[p].op] = receipt]
      BY <1>6 DEF ServeExecute
    <2>2. before = post[p].seen
      BY <1>2, <1>6 DEF StillAsReviewed
    <2>3. receipt \in Receipt /\ receipt.before = receipt.reviewed
      BY <1>2, <2>2 DEF Receipt
    <2>. HIDE DEF receipt
    <2>4. ReceiptsOK'
      <3>1. receipts = [op \in Posts |-> receipts[op]]
        BY DEF BulkInv, ReceiptsOK
      <3>2. \A op \in Posts : receipts'[op] = IF op = post[p].op THEN receipt ELSE receipts[op]
        BY <1>2, <2>1, <3>1
      <3>3. receipts' = [op \in Posts |-> receipts'[op]]
        BY <2>1, <3>1
      <3>. QED BY <2>3, <3>2, <3>3 DEF BulkInv, ReceiptsOK, Done
    <2>5. saved' \in [Tenants -> Revs]
      BY <2>1, WrittenStep
    <2>. QED BY <1>1, <1>4, <2>4, <2>5 DEF BulkInv, Shape
  <1>. QED BY <1>5, <1>6 DEF ServeExecute

LEMMA ServeUndoInv ==
    ASSUME BulkInv, NEW p \in Posts, ServeUndo(p) PROVE BulkInv'
  <1>1. /\ post[p].stage \in {"sent", "forgotten"} /\ post[p].kind = "undo"
        /\ UNCHANGED <<tab, edits, grid, dialog, revert>>
    BY DEF ServeUndo, ToServe
  <1>2. post[p].scope \in Tenants /\ post[p].op \in Posts
    BY <1>1 DEF BulkInv, PostsOK, Asked
  <1>3. PICK reply \in {"reverted", "refused"} : Reply(p, NoRevs, reply)
    BY DEF ServeUndo
  <1>4. PostsOK' /\ DialogOK' /\ post' \in [Posts -> PostRecord]
    BY <1>1, <1>3, Zeros, ReplyStep
  <1>5. CASE UNCHANGED <<saved, receipts>>
    BY <1>1, <1>4, <1>5, ReceiptsStay DEF BulkInv, Shape
  <1>6. CASE /\ HasReceipt(p) /\ saved' = Written(p)
             /\ receipts' = [receipts EXCEPT ![post[p].op].undone = TRUE]
    <2>. DEFINE receipt == receipts[post[p].op]
                undone == [receipt EXCEPT !.undone = TRUE]
    <2>1. receipt \in Receipt /\ receipt.before = receipt.reviewed
      BY <1>2, <1>6, BulkAssumption DEF BulkAssumption, HasReceipt, BulkInv, ReceiptsOK, Done
    <2>2. undone \in Receipt /\ undone.before = undone.reviewed
      BY <2>1 DEF Receipt
    <2>3. receipts' = [receipts EXCEPT ![post[p].op] = undone]
      BY <1>6
    <2>. HIDE DEF undone
    <2>4. ReceiptsOK'
      <3>1. receipts = [op \in Posts |-> receipts[op]]
        BY DEF BulkInv, ReceiptsOK
      <3>2. \A op \in Posts : receipts'[op] = IF op = post[p].op THEN undone ELSE receipts[op]
        BY <1>2, <2>3, <3>1
      <3>3. receipts' = [op \in Posts |-> receipts'[op]]
        BY <2>3, <3>1
      <3>. QED BY <2>2, <3>2, <3>3 DEF BulkInv, ReceiptsOK, Done
    <2>5. saved' \in [Tenants -> Revs]
      BY <1>6, WrittenStep
    <2>. QED BY <1>1, <1>4, <2>4, <2>5 DEF BulkInv, Shape
  <1>. QED BY <1>5, <1>6 DEF ServeUndo

LEMMA PeerEditsInv == ASSUME BulkInv, PeerEdits PROVE BulkInv'
  <1>1. PICK t \in Tenants, i \in Rows : saved' = [saved EXCEPT ![t][i] = MaxPosts + edits']
    BY DEF PeerEdits
  <1>2. /\ edits < MaxEdits /\ edits' = edits + 1
        /\ UNCHANGED <<tab, receipts, post, grid, dialog, revert>>
    BY DEF PeerEdits
  <1>3. edits' \in 0..MaxEdits /\ MaxPosts + edits' \in Writers
    BY <1>2, BulkAssumption DEF BulkAssumption, BulkInv, Shape, Writers
  <1>4. saved' \in [Tenants -> Revs]
    <2>1. saved \in [Tenants -> Revs]
      BY DEF BulkInv, Shape
    <2>2. [saved[t] EXCEPT ![i] = MaxPosts + edits'] \in Revs
      BY <1>3, <2>1 DEF Revs
    <2>3. saved' = [saved EXCEPT ![t] = [saved[t] EXCEPT ![i] = MaxPosts + edits']]
      BY <1>1, <2>1
    <2>. QED BY <2>1, <2>2, <2>3
  <1>5. DialogOK'
    BY <1>2, DialogStays DEF Asked
  <1>. QED BY <1>2, <1>3, <1>4, <1>5, PostsStay, ReceiptsStay DEF BulkInv, Shape

-----------------------------------------------------------------------------

LEMMA BulkNextInv == BulkInv /\ [BulkNext]_bulkVars => BulkInv'
  <1>. SUFFICES ASSUME BulkInv, [BulkNext]_bulkVars PROVE BulkInv'
    OBVIOUS
  <1>1. tab.tenant \in Tenants
    BY DEF BulkInv, Shape, TabShape
  <1>2. CASE (\E t \in Tenants : BeginSwitch(t)) \/ ConfirmSwitch \/ FailSwitch
    BY <1>1, <1>2, TabInv
  <1>3. CASE Reload \/ Dismiss \/ PeerEdits
    BY <1>3, ReloadInv, DismissInv, PeerEditsInv
  <1>4. CASE \E p \in Posts, ids \in Selections : RequestPreview(p, ids)
    BY <1>4, RequestPreviewInv
  <1>5. CASE \E p \in Posts : \/ PreviewArrives(p) \/ Confirm(p) \/ ArchiveRow(p)
                              \/ CheckArrives(p) \/ ExecuteArrives(p) \/ Revert(p)
                              \/ UndoArrives(p) \/ Disconnect(p)
    BY <1>5, PreviewArrivesInv, ConfirmInv, CheckArrivesInv, ResultArrivesInv, RevertInv,
       DisconnectInv
  <1>6. CASE \E p \in Posts : ServePreview(p) \/ ServeExecute(p) \/ ServeUndo(p)
    BY <1>6, ServePreviewInv, ServeExecuteInv, ServeUndoInv
  <1>7. CASE UNCHANGED bulkVars
    <2>1. UNCHANGED <<tab, saved, edits, receipts, post, grid, dialog, revert>>
      BY <1>7 DEF bulkVars
    <2>2. DialogOK'
      BY <2>1, DialogStays DEF Asked
    <2>. QED BY <2>1, <2>2, PostsStay, ReceiptsStay DEF BulkInv, Shape
  <1>. QED BY <1>2, <1>3, <1>4, <1>5, <1>6, <1>7 DEF BulkNext

\* The inductive invariant of the tab, its requests and the receipts.
THEOREM BulkInvariance == BulkSpec => []BulkInv
  <1>1. BulkInit => BulkInv
    BY BulkInitInv
  <1>2. BulkInv /\ [BulkNext]_bulkVars => BulkInv'
    BY BulkNextInv
  <1>. QED BY <1>1, <1>2, PTL DEF BulkSpec

\* The type invariant.
THEOREM BulkTypes == BulkSpec => []BulkTypeOK
  <1>1. BulkInv => BulkTypeOK
    BY DEF BulkInv, Shape, TabShape, DialogShape, PostRecord, Revs, Numbers, BulkTypeOK
  <1>. QED BY <1>1, BulkInvariance, PTL

\* A command overwrites only what its user reviewed (_validate_preconditions of
\* service_bulk.py with the bound preview of serviceBulk.ts).
THEOREM EditsAreKept == BulkSpec => []NoEditLost
  <1>1. BulkInv => NoEditLost
    BY DEF BulkInv, ReceiptsOK, NoEditLost
  <1>. QED BY <1>1, BulkInvariance, PTL

\* Nothing is in flight while the tenant is being selected (tenantContext.ts), and
\* a command goes to the tenant of its preview.
THEOREM WritesStay == BulkSpec => []WritesStayInTenant
  <1>1. BulkInv => WritesStayInTenant
    BY DEF BulkInv, PostsOK, WritesStayInTenant
  <1>. QED BY <1>1, BulkInvariance, PTL

\* The dialog shows the preview asked for last (previewGeneration).
THEOREM DialogIsCurrent == BulkSpec => []LatestPreviewShown
  <1>1. BulkInv => LatestPreviewShown
    BY DEF BulkInv, DialogOK
  <1>. QED BY <1>1, BulkInvariance, PTL

\* An undo finds every row as its command left it; no other step reverts a receipt.
THEOREM UndoIsOwn == BulkSpec => UndoTakesBackItsOwn
  <1>1. BulkInv /\ [BulkNext]_bulkVars =>
          [\A op \in Posts :
             Done(op) /\ receipts'[op].undone /\ ~receipts[op].undone =>
                \A i \in receipts[op].ids : saved[receipts[op].tenant][i] = receipts[op].after]_bulkVars
    <2>. SUFFICES ASSUME BulkInv, [BulkNext]_bulkVars, NEW op \in Posts,
                         Done(op), receipts'[op].undone, ~receipts[op].undone
                  PROVE  \A i \in receipts[op].ids :
                            saved[receipts[op].tenant][i] = receipts[op].after
      OBVIOUS
    <2>1. receipts' # receipts
      OBVIOUS
    <2>2. PICK p \in Posts : ServeExecute(p) \/ ServeUndo(p)
      BY <2>1 DEF BulkNext, bulkVars, BeginSwitch, ConfirmSwitch, FailSwitch, Reload, Dismiss,
         PeerEdits, RequestPreview, PreviewArrives, Confirm, ArchiveRow, Execute, CheckArrives,
         ExecuteArrives, Revert, UndoArrives, Disconnect, ServePreview
    <2>3. /\ post[p].op \in Posts
          /\ receipts = [o \in Posts |-> receipts[o]] /\ receipts[op] \in Receipt
      BY <2>2 DEF ServeExecute, ServeUndo, ToServe, BulkInv, PostsOK, Asked, ReceiptsOK
    <2>4. CASE ServeExecute(p)
      <3>1. PICK receipt : /\ receipts' = [receipts EXCEPT ![post[p].op] = receipt]
                           /\ receipt.undone = FALSE
        BY <2>1, <2>4 DEF ServeExecute
      <3>. QED BY <2>3, <3>1
    <2>5. CASE ServeUndo(p)
      <3>1. /\ receipts' = [receipts EXCEPT ![post[p].op].undone = TRUE] /\ Untouched(p)
        BY <2>1, <2>5 DEF ServeUndo
      <3>2. op = post[p].op
        BY <2>3, <3>1
      <3>. QED BY <3>1, <3>2 DEF Untouched
    <2>. QED BY <2>2, <2>4, <2>5
  <1>. QED BY <1>1, BulkInvariance, PTL DEF BulkSpec, UndoTakesBackItsOwn

-----------------------------------------------------------------------------
(* A refusal is true for good: the revisions it was refused for never come *)
(* back, because every write brings a fresh one.                           *)

\* A revision that was written; the others are those of writes to come.
Spent(v) == /\ v \in Posts => /\ post[v].kind \in {"execute", "undo"}
                              /\ post[v].stage \notin {"sent", "forgotten"}
            /\ v \notin Posts => v <= MaxPosts + edits

RevisionsAreSpent ==
    /\ \A t \in Tenants, i \in Rows : Spent(saved[t][i])
    /\ \A p \in Posts, i \in Rows : Spent(post[p].revs[i])

\* A command repeats the preview it is bound to, or is its own operation.
Reviewed(p) == post[p].kind = "preview" /\ post[p].stage = "over"
CommandsAreReviewed ==
    /\ dialog.accepted # 0 => Reviewed(dialog.accepted)
    /\ \A p \in Posts : post[p].kind = "execute" /\ post[p].op # p =>
          /\ Reviewed(post[p].op)
          /\ post[p].revs = post[post[p].op].revs /\ post[p].ids = post[post[p].op].ids

Stale(p) == post[p].revs # Only(saved[post[p].scope], post[p].ids)

RefusalInv ==
    /\ RevisionsAreSpent
    /\ CommandsAreReviewed
    /\ \A op \in Posts : Done(op) => Asked(op) /\ receipts[op].tenant = post[op].scope
    /\ \A p \in Posts : post[p].kind = "check" => post[p].reply # "refused"
    /\ \A p \in Posts : post[p].kind = "execute" /\ post[p].reply = "refused" =>
                           ~Done(post[p].op) /\ Stale(p)

LEMMA RefusalInitInv == BulkInit => RefusalInv
  <1>. SUFFICES ASSUME BulkInit PROVE RefusalInv
    OBVIOUS
  <1>1. \A p \in Posts : post[p] = FreePost
    BY DEF BulkInit
  <1>2. 0 \notin Posts /\ 0 <= MaxPosts + 0
    BY BulkAssumption DEF BulkAssumption, Posts
  <1>3. RevisionsAreSpent
    BY <1>1, <1>2 DEF BulkInit, RevisionsAreSpent, Spent, FreePost, NoRevs
  <1>4. CommandsAreReviewed
    BY <1>1 DEF BulkInit, CommandsAreReviewed, FreePost, ClosedDialog
  <1>. QED BY <1>1, <1>3, <1>4 DEF BulkInit, RefusalInv, Done, FreePost

LEMMA InWriters ==
    ASSUME BulkInv
    PROVE  /\ \A t \in Tenants, i \in Rows : saved[t][i] \in Writers
           /\ \A p \in Posts, i \in Rows : post[p].revs[i] \in Writers
  BY DEF BulkInv, Shape, Revs, PostRecord

\* Steps that change stages only, and write nothing.
LEMMA StagesMove ==
    ASSUME BulkInv, BulkInv', RefusalInv, UNCHANGED <<saved, edits, receipts>>,
           (dialog.accepted # 0 => Reviewed(dialog.accepted))',
           \A q \in Posts :
              /\ post'[q].kind = post[q].kind /\ post'[q].ids = post[q].ids
              /\ post'[q].scope = post[q].scope /\ post'[q].op = post[q].op
              /\ post'[q].revs = post[q].revs /\ post'[q].reply = post[q].reply
              /\ post[q].stage = "over" => post'[q].stage = "over"
              /\ post[q].stage \notin {"sent", "forgotten"} =>
                    post'[q].stage \notin {"sent", "forgotten"}
              /\ Asked(q) => Asked(q)'
    PROVE  RefusalInv'
  <1>1. \A v : Spent(v) => Spent(v)'
    BY DEF Spent
  <1>2. RevisionsAreSpent'
    BY <1>1 DEF RefusalInv, RevisionsAreSpent
  <1>3. \A q \in Posts : Reviewed(q) => Reviewed(q)'
    BY DEF Reviewed
  <1>4. \A q \in Posts : post[q].kind = "execute" => post[q].op \in Posts
    BY DEF BulkInv, PostsOK, Asked
  <1>5. CommandsAreReviewed'
    <2>1. \A q \in Posts : post'[q].kind = "execute" /\ post'[q].op # q =>
             /\ Reviewed(post[q].op)'
             /\ post'[q].revs = post'[post[q].op].revs /\ post'[q].ids = post'[post[q].op].ids
      BY <1>3, <1>4 DEF RefusalInv, CommandsAreReviewed
    <2>. QED BY <2>1 DEF CommandsAreReviewed, Reviewed
  <1>6. \A q \in Posts : Stale(q)' <=> Stale(q)
    BY DEF Stale
  <1>. QED BY <1>2, <1>4, <1>5, <1>6 DEF RefusalInv, Done

\* A new request brings no revision of its own.
LEMMA NewPostRefusal ==
    ASSUME BulkInv, BulkInv', RefusalInv, NEW p \in Posts, CanPost(p),
           UNCHANGED <<saved, edits, receipts>>, dialog'.accepted = dialog.accepted,
           NEW record \in PostRecord, post' = [post EXCEPT ![p] = record],
           record.reply # "refused", \A i \in Rows : Spent(record.revs[i]),
           record.stage # "free",
           record.kind = "execute" =>
              /\ record.op \in Posts /\ record.op # p /\ Reviewed(record.op)
              /\ record.revs = post[record.op].revs /\ record.ids = post[record.op].ids
    PROVE  RefusalInv'
  <1>1. /\ post'[p] = record /\ \A q \in Posts : q # p => post'[q] = post[q]
    BY DEF BulkInv, Shape
  <1>2. ~Asked(p) /\ post[p].kind = "none"
    <2>1. ~Asked(p)
      BY DEF CanPost, Asked
    <2>. QED BY <2>1 DEF BulkInv, PostsOK
  <1>3. \A v : Spent(v) => Spent(v)'
    BY <1>1, <1>2 DEF Spent
  <1>4. RevisionsAreSpent'
    BY <1>1, <1>3 DEF RefusalInv, RevisionsAreSpent
  <1>5. \A q \in Posts : Reviewed(q) => q # p /\ Reviewed(q)'
    BY <1>1, <1>2 DEF Reviewed
  <1>6. dialog.accepted # 0 => dialog.accepted \in Posts
    BY BulkAssumption DEF BulkAssumption, BulkInv, Shape, DialogShape, Numbers, Posts
  <1>7. \A q \in Posts : post[q].kind = "execute" => post[q].op \in Posts
    BY DEF BulkInv, PostsOK, Asked
  <1>8. CommandsAreReviewed'
    BY <1>1, <1>5, <1>6, <1>7 DEF RefusalInv, CommandsAreReviewed
  <1>9. \A q \in Posts : q # p => (Stale(q)' <=> Stale(q))
    BY <1>1 DEF Stale
  <1>10. \A op \in Posts : Done(op)' => Asked(op)' /\ receipts'[op].tenant = post'[op].scope
    <2>1. \A op \in Posts : Done(op)' => Done(op) /\ op # p
      BY <1>2 DEF RefusalInv, Done
    <2>. QED BY <1>1, <2>1 DEF RefusalInv, Asked
  <1>. QED BY <1>1, <1>4, <1>8, <1>9, <1>10 DEF RefusalInv, Done

LEMMA AcceptedStays ==
    ASSUME BulkInv, RefusalInv, dialog'.accepted \in {0, dialog.accepted},
           \A q \in Posts : Reviewed(q) => Reviewed(q)'
    PROVE  (dialog.accepted # 0 => Reviewed(dialog.accepted))'
  <1>1. dialog.accepted # 0 => dialog.accepted \in Posts /\ Reviewed(dialog.accepted)
    BY BulkAssumption
       DEF BulkAssumption, BulkInv, Shape, DialogShape, Numbers, Posts, RefusalInv,
           CommandsAreReviewed
  <1>2. CASE dialog'.accepted = 0
    BY <1>2
  <1>3. CASE dialog'.accepted = dialog.accepted
    <2>1. dialog.accepted # 0 => post'[dialog.accepted].kind = "preview"
                                 /\ post'[dialog.accepted].stage = "over"
      BY <1>1 DEF Reviewed
    <2>. QED BY <1>3, <2>1 DEF Reviewed
  <1>. QED BY <1>2, <1>3

LEMMA TabRefusal ==
    ASSUME BulkInv, BulkInv', RefusalInv, UNCHANGED <<saved, edits, receipts, post>>,
           dialog'.accepted \in {0, dialog.accepted}
    PROVE  RefusalInv'
  <1>1. (dialog.accepted # 0 => Reviewed(dialog.accepted))'
    BY AcceptedStays DEF Reviewed
  <1>. QED BY <1>1, StagesMove DEF Asked

LEMMA ReloadRefusal ==
    ASSUME BulkInv, BulkInv', RefusalInv, Reload PROVE RefusalInv'
  <1>1. /\ dialog' = ClosedDialog /\ post' = [p \in Posts |-> Forgotten(p)]
        /\ UNCHANGED <<saved, edits, receipts>>
    BY DEF Reload
  <1>2. (dialog.accepted # 0 => Reviewed(dialog.accepted))'
    BY <1>1 DEF ClosedDialog
  <1>3. \A q \in Posts :
           /\ post'[q].kind = post[q].kind /\ post'[q].ids = post[q].ids
           /\ post'[q].scope = post[q].scope /\ post'[q].op = post[q].op
           /\ post'[q].revs = post[q].revs /\ post'[q].reply = post[q].reply
           /\ post[q].stage = "over" => post'[q].stage = "over"
           /\ post[q].stage \notin {"sent", "forgotten"} =>
                 post'[q].stage \notin {"sent", "forgotten"}
           /\ Asked(q) => post'[q].stage # "free"
    <2>1. ASSUME NEW q \in Posts
          PROVE  /\ Forgotten(q).ids = post[q].ids /\ Forgotten(q).reply = post[q].reply
                 /\ post[q].stage = "over" => Forgotten(q).stage = "over"
                 /\ post[q].stage \notin {"sent", "forgotten"} =>
                       Forgotten(q).stage \notin {"sent", "forgotten"}
      <3>1. post[q] \in PostRecord
        BY DEF BulkInv, Shape
      <3>. QED BY <3>1 DEF Forgotten, PostRecord
    <2>. QED BY <1>1, <2>1, ForgottenStep
  <1>. QED BY <1>1, <1>2, <1>3, StagesMove DEF Asked

LEMMA DisconnectRefusal ==
    ASSUME BulkInv, BulkInv', RefusalInv, NEW p \in Posts, Disconnect(p) PROVE RefusalInv'
  <1>1. /\ InFlight(p) /\ post' = [post EXCEPT ![p] = Forgotten(p)]
        /\ UNCHANGED <<tab, saved, edits, receipts, grid, dialog>>
    BY DEF Disconnect
  <1>2. post \in [Posts -> PostRecord]
    BY DEF BulkInv, Shape
  <1>3. Forgotten(p).ids = post[p].ids /\ Forgotten(p).reply = post[p].reply
    BY <1>2 DEF Forgotten, PostRecord
  <1>4. post[p].stage = "answered" => Forgotten(p).stage = "lost"
    BY <1>2 DEF Forgotten, PostRecord
  <1>5. \A q \in Posts :
           /\ post'[q].kind = post[q].kind /\ post'[q].ids = post[q].ids
           /\ post'[q].scope = post[q].scope /\ post'[q].op = post[q].op
           /\ post'[q].revs = post[q].revs /\ post'[q].reply = post[q].reply
           /\ post[q].stage = "over" => post'[q].stage = "over"
           /\ post[q].stage \notin {"sent", "forgotten"} =>
                 post'[q].stage \notin {"sent", "forgotten"}
           /\ Asked(q) => post'[q].stage # "free"
    <2>1. /\ Forgotten(p).scope = post[p].scope /\ Forgotten(p).op = post[p].op
          /\ Forgotten(p).kind = post[p].kind /\ Forgotten(p).revs = post[p].revs
          /\ Forgotten(p).stage # "free"
      BY <1>1, ForgottenStep DEF InFlight, Asked
    <2>2. /\ post'[p] = Forgotten(p)
          /\ \A q \in Posts : q # p => post'[q] = post[q]
      BY <1>1, <1>2
    <2>3. post[p].stage \in {"sent", "answered"}
      BY <1>1 DEF InFlight
    <2>. QED BY <1>3, <1>4, <2>1, <2>2, <2>3 DEF Asked
  <1>6. (dialog.accepted # 0 => Reviewed(dialog.accepted))'
    BY <1>1, <1>5, AcceptedStays DEF Reviewed
  <1>. QED BY <1>1, <1>5, <1>6, StagesMove DEF Asked

LEMMA HandledFields ==
    ASSUME BulkInv, NEW p \in Posts, InFlight(p), post' = Handled(p)
    PROVE  /\ post'[p].stage = "over"
           /\ \A q \in Posts :
                 /\ post'[q].kind = post[q].kind /\ post'[q].ids = post[q].ids
                 /\ post'[q].scope = post[q].scope /\ post'[q].op = post[q].op
                 /\ post'[q].revs = post[q].revs /\ post'[q].reply = post[q].reply
                 /\ post[q].stage = "over" => post'[q].stage = "over"
                 /\ post[q].stage \notin {"sent", "forgotten"} =>
                       post'[q].stage \notin {"sent", "forgotten"}
                 /\ Asked(q) => post'[q].stage # "free"
  <1>1. post \in [Posts -> PostRecord]
    BY DEF BulkInv, Shape
  <1>. QED BY <1>1 DEF Handled, PostRecord, Asked

LEMMA ArrivesRefusal ==
    ASSUME BulkInv, BulkInv', RefusalInv, NEW p \in Posts,
           PreviewArrives(p) \/ ExecuteArrives(p) \/ UndoArrives(p)
    PROVE  RefusalInv'
  <1>1. /\ InFlight(p) /\ post' = Handled(p) /\ UNCHANGED <<saved, edits, receipts>>
    BY DEF PreviewArrives, ExecuteArrives, UndoArrives, InFlight
  <1>2. \A q \in Posts : Reviewed(q) => Reviewed(q)'
    BY <1>1, HandledFields DEF Reviewed
  <1>3. dialog \in DialogShape
    BY DEF BulkInv, Shape
  <1>4. (dialog.accepted # 0 => Reviewed(dialog.accepted))'
    <2>1. CASE PreviewArrives(p)
      <3>1. post[p].kind = "preview" /\ Reviewed(p)'
        BY <1>1, <2>1, HandledFields DEF PreviewArrives, Reviewed
      <3>2. CASE dialog' = [dialog EXCEPT !.accepted = p, !.shown = p, !.done = FALSE]
        <4>1. dialog'.accepted = p
          BY <1>3, <3>2 DEF DialogShape
        <4>. QED BY <3>1, <4>1 DEF Reviewed
      <3>3. CASE UNCHANGED dialog
        BY <1>2, <3>3, AcceptedStays
      <3>. QED BY <2>1, <3>2, <3>3 DEF PreviewArrives
    <2>2. CASE ExecuteArrives(p)
      <3>1. dialog'.accepted \in {0, dialog.accepted}
        BY <1>3, <2>2 DEF ExecuteArrives, DialogShape
      <3>. QED BY <1>2, <3>1, AcceptedStays
    <2>3. CASE UndoArrives(p)
      <3>1. dialog'.accepted = dialog.accepted
        BY <1>3, <2>3 DEF UndoArrives, DialogShape
      <3>. QED BY <1>2, <3>1, AcceptedStays
    <2>. QED BY <2>1, <2>2, <2>3
  <1>5. \A q \in Posts :
           /\ post'[q].kind = post[q].kind /\ post'[q].ids = post[q].ids
           /\ post'[q].scope = post[q].scope /\ post'[q].op = post[q].op
           /\ post'[q].revs = post[q].revs /\ post'[q].reply = post[q].reply
           /\ post[q].stage = "over" => post'[q].stage = "over"
           /\ post[q].stage \notin {"sent", "forgotten"} =>
                 post'[q].stage \notin {"sent", "forgotten"}
           /\ Asked(q) => Asked(q)'
    BY <1>1, HandledFields DEF Asked
  <1>. QED BY <1>1, <1>4, <1>5, StagesMove

LEMMA ZeroIsSpent == ASSUME BulkInv PROVE Spent(0)
  BY BulkAssumption DEF BulkAssumption, Posts, Spent, BulkInv, Shape

LEMMA RequestFields ==
    ASSUME BulkInv, NEW kind \in {"preview", "check", "execute", "undo"},
           NEW ids \in SUBSET Rows, NEW op \in Posts
    PROVE  /\ Request(kind, ids, op).ids = ids
           /\ Request(kind, ids, op).revs = NoRevs /\ Request(kind, ids, op).reply = "none"
  <1>1. FreePost \in PostRecord /\ FreePost.revs = NoRevs /\ FreePost.reply = "none"
    BY Zeros DEF FreePost, PostRecord
  <1>. QED BY <1>1 DEF Request, PostRecord

LEMMA NewRequestRefusal ==
    ASSUME BulkInv, BulkInv', RefusalInv, NEW p \in Posts, CanPost(p),
           UNCHANGED <<saved, edits, receipts>>, dialog'.accepted = dialog.accepted,
           NEW kind \in {"preview", "undo"}, NEW ids \in SUBSET Rows, NEW op \in Posts,
           post' = [post EXCEPT ![p] = Request(kind, ids, op)]
    PROVE  RefusalInv'
  <1>. DEFINE record == Request(kind, ids, op)
  <1>1. /\ record \in PostRecord /\ record.stage = "sent" /\ record.kind = kind
        /\ record.revs = NoRevs /\ record.reply = "none"
    BY RequestStep, RequestFields
  <1>2. \A i \in Rows : Spent(record.revs[i])
    BY <1>1, ZeroIsSpent DEF NoRevs
  <1>. HIDE DEF record
  <1>3. post' = [post EXCEPT ![p] = record]
    BY DEF record
  <1>. QED BY <1>1, <1>2, <1>3, NewPostRefusal

LEMMA ExecuteRefusal ==
    ASSUME BulkInv, BulkInv', RefusalInv, NEW p \in Posts, NEW ids \in SUBSET Rows, Execute(p, ids)
    PROVE  RefusalInv'
  <1>. DEFINE op == dialog.accepted
  <1>1. /\ CanPost(p) /\ UNCHANGED <<tab, saved, edits, receipts, grid, dialog, revert>>
    BY DEF Execute
  <1>2. CASE Matches(ids) /\ SendReviewed(p, ids)
    <2>. DEFINE request == Request("execute", ids, op)
                record == [request EXCEPT !.seen = post[op].revs, !.revs = post[op].revs,
                             !.owner = Owner(ids), !.generation = dialog.generation]
    <2>1. op \in Posts /\ Reviewed(op) /\ post[op].ids = ids
      BY <1>2, BulkAssumption
         DEF BulkAssumption, Matches, BulkInv, Shape, DialogShape, Numbers, Posts, RefusalInv,
             CommandsAreReviewed
    <2>2. /\ request \in PostRecord /\ request.stage = "sent" /\ request.kind = "execute"
          /\ request.op = op /\ request.ids = ids /\ request.reply = "none"
      BY <2>1, RequestStep, RequestFields
    <2>3. post' = [post EXCEPT ![p] = record]
      BY <1>2 DEF SendReviewed
    <2>4. op # p
      BY <1>1, <2>1 DEF Reviewed, CanPost
    <2>5. \A i \in Rows : Spent(post[op].revs[i])
      BY <2>1 DEF RefusalInv, RevisionsAreSpent
    <2>6. post[op].revs \in Revs /\ dialog.generation \in Numbers /\ Owner(ids) \in Numbers
      BY <2>1, Zeros DEF BulkInv, Shape, PostRecord, DialogShape, Owner
    <2>. HIDE DEF request, op
    <2>7. /\ record \in PostRecord /\ record.stage = "sent" /\ record.kind = "execute"
          /\ record.op = op /\ record.ids = ids /\ record.reply = "none"
          /\ record.revs = post[op].revs
      BY <2>2, <2>6 DEF PostRecord
    <2>. HIDE DEF record
    <2>. QED BY <1>1, <2>1, <2>3, <2>4, <2>5, <2>7, NewPostRefusal
  <1>3. CASE SendCheck(p, ids)
    <2>. DEFINE request == Request("check", ids, p)
                record == [request EXCEPT !.seen = Only(grid, ids),
                             !.owner = Owner(ids), !.generation = dialog.generation]
    <2>1. Only(grid, ids) \in Revs
      BY OnlyIsRevs DEF BulkInv, Shape
    <2>2. /\ request \in PostRecord /\ request.stage = "sent" /\ request.kind = "check"
          /\ request.revs = NoRevs /\ request.reply = "none"
      BY RequestStep, RequestFields
    <2>3. post' = [post EXCEPT ![p] = record]
      BY <1>3 DEF SendCheck
    <2>4. dialog.generation \in Numbers /\ Owner(ids) \in Numbers
      BY Zeros DEF BulkInv, Shape, DialogShape, Owner
    <2>. HIDE DEF request
    <2>5. /\ record \in PostRecord /\ record.stage = "sent" /\ record.kind = "check"
          /\ record.reply = "none" /\ record.revs = NoRevs
      BY <2>1, <2>2, <2>4 DEF PostRecord
    <2>6. \A i \in Rows : Spent(record.revs[i])
      BY <2>5, ZeroIsSpent DEF NoRevs
    <2>. HIDE DEF record
    <2>. QED BY <1>1, <2>3, <2>5, <2>6, NewPostRefusal
  <1>. QED BY <1>2, <1>3 DEF Execute

LEMMA SendsRefusal ==
    ASSUME BulkInv, BulkInv', RefusalInv, NEW p \in Posts,
           \/ \E ids \in Selections : RequestPreview(p, ids)
           \/ Confirm(p) \/ ArchiveRow(p) \/ Revert(p)
    PROVE  RefusalInv'
  <1>1. CASE \E ids \in Selections : RequestPreview(p, ids)
    <2>1. PICK ids \in Selections : RequestPreview(p, ids)
      BY <1>1
    <2>2. ids \in SUBSET Rows /\ dialog'.accepted = dialog.accepted
      BY <2>1, BulkAssumption
         DEF BulkAssumption, RequestPreview, BulkInv, Shape, DialogShape
    <2>. QED BY <2>1, <2>2, NewRequestRefusal DEF RequestPreview
  <1>2. CASE Confirm(p)
    <2>1. dialog.shown \in Posts
      BY <1>2, BulkAssumption
         DEF BulkAssumption, Confirm, BulkInv, Shape, DialogShape, Numbers, Posts
    <2>2. post[dialog.shown].ids \in SUBSET Rows
      BY <2>1 DEF BulkInv, Shape, PostRecord
    <2>. QED BY <1>2, <2>2, ExecuteRefusal DEF Confirm
  <1>3. CASE ArchiveRow(p)
    BY <1>3, ExecuteRefusal DEF ArchiveRow
  <1>4. CASE Revert(p)
    <2>1. PICK op \in Posts : post' = [post EXCEPT ![p] = Request("undo", post[op].ids, op)]
      BY <1>4 DEF Revert
    <2>2. post[op].ids \in SUBSET Rows
      BY DEF BulkInv, Shape, PostRecord
    <2>. QED BY <1>4, <2>1, <2>2, NewRequestRefusal DEF Revert
  <1>. QED BY <1>1, <1>2, <1>3, <1>4

\* A checked request becomes a command, its own operation.
LEMMA CheckRefusal ==
    ASSUME BulkInv, BulkInv', RefusalInv, NEW p \in Posts, CheckArrives(p) PROVE RefusalInv'
  <1>1. /\ InFlight(p) /\ post[p].kind = "check"
        /\ UNCHANGED <<saved, edits, receipts, dialog>>
    BY DEF CheckArrives, InFlight
  <1>2. CASE post' = Handled(p)
    <2>1. (dialog.accepted # 0 => Reviewed(dialog.accepted))'
      BY <1>1, <1>2, HandledFields, AcceptedStays DEF Reviewed
    <2>2. \A q \in Posts :
             /\ post'[q].kind = post[q].kind /\ post'[q].ids = post[q].ids
             /\ post'[q].scope = post[q].scope /\ post'[q].op = post[q].op
             /\ post'[q].revs = post[q].revs /\ post'[q].reply = post[q].reply
             /\ post[q].stage = "over" => post'[q].stage = "over"
             /\ post[q].stage \notin {"sent", "forgotten"} =>
                   post'[q].stage \notin {"sent", "forgotten"}
             /\ Asked(q) => Asked(q)'
      BY <1>1, <1>2, HandledFields DEF Asked
    <2>. QED BY <1>1, <2>1, <2>2, StagesMove
  <1>3. CASE post' = [post EXCEPT ![p].kind = "execute", ![p].stage = "sent"]
    <2>. DEFINE sent == [post[p] EXCEPT !.kind = "execute", !.stage = "sent"]
    <2>1. post \in [Posts -> PostRecord]
      BY DEF BulkInv, Shape
    <2>2. post' = [post EXCEPT ![p] = sent]
      BY <1>3, <2>1 DEF PostRecord
    <2>3. /\ sent.stage = "sent" /\ sent.kind = "execute" /\ sent.ids = post[p].ids
          /\ sent.op = post[p].op /\ sent.scope = post[p].scope
          /\ sent.reply = post[p].reply /\ sent.revs = post[p].revs
      BY <2>1 DEF PostRecord
    <2>. HIDE DEF sent
    <2>4. post'[p] = sent /\ \A q \in Posts : q # p => post'[q] = post[q]
      BY <2>1, <2>2
    <2>5. \A v : Spent(v) => Spent(v)'
      BY <1>1, <2>4 DEF Spent
    <2>6. RevisionsAreSpent'
      BY <1>1, <2>3, <2>4, <2>5 DEF RefusalInv, RevisionsAreSpent
    <2>7. \A q \in Posts : Reviewed(q) => q # p /\ Reviewed(q)'
      BY <1>1, <2>4 DEF Reviewed
    <2>8. (dialog.accepted # 0 => Reviewed(dialog.accepted))'
      BY <1>1, <2>7, AcceptedStays
    <2>9. CommandsAreReviewed'
      <3>1. \A q \in Posts : post'[q].kind = "execute" /\ post'[q].op # q =>
               /\ q # p /\ post[q].op \in Posts /\ Reviewed(post[q].op)'
               /\ post'[q].revs = post'[post[q].op].revs /\ post'[q].ids = post'[post[q].op].ids
        <4>1. post[p].op = p
          BY <1>1 DEF BulkInv, PostsOK
        <4>. QED BY <2>3, <2>4, <2>7, <4>1
             DEF RefusalInv, CommandsAreReviewed, BulkInv, PostsOK, Asked
      <3>. QED BY <2>4, <2>8, <3>1 DEF CommandsAreReviewed, Reviewed
    <2>10. \A op \in Posts : Done(op)' => Asked(op)' /\ receipts'[op].tenant = post'[op].scope
      BY <1>1, <2>3, <2>4 DEF RefusalInv, Done, Asked
    <2>11. \A q \in Posts : q # p => (Stale(q)' <=> Stale(q))
      BY <1>1, <2>4 DEF Stale
    <2>12. post[p].reply # "refused"
      BY <1>1 DEF RefusalInv
    <2>. QED BY <1>1, <2>3, <2>4, <2>6, <2>9, <2>10, <2>11, <2>12 DEF RefusalInv, Done
  <1>. QED BY <1>2, <1>3 DEF CheckArrives

LEMMA ReplyFields ==
    ASSUME BulkInv, NEW p \in Posts, post[p].stage \in {"sent", "forgotten"},
           NEW revs \in Revs, NEW reply \in {"preview", "applied", "reverted", "refused"},
           Reply(p, revs, reply)
    PROVE  /\ \A q \in Posts : q # p => post'[q] = post[q]
           /\ post'[p].stage \in {"answered", "lost"} /\ post'[p].revs = revs
           /\ post'[p].reply = reply
           /\ \A q \in Posts :
                 /\ post'[q].kind = post[q].kind /\ post'[q].ids = post[q].ids
                 /\ post'[q].scope = post[q].scope /\ post'[q].op = post[q].op
                 /\ Reviewed(q) => q # p /\ post'[q] = post[q]
                 /\ Asked(q) => post'[q].stage # "free"
  <1>1. post \in [Posts -> PostRecord]
    BY DEF BulkInv, Shape
  <1>. DEFINE stage == IF post[p].stage = "sent" THEN "answered" ELSE "lost"
              replied == [post[p] EXCEPT !.reply = reply, !.revs = revs, !.stage = stage]
  <1>2. post' = [post EXCEPT ![p] = replied]
    BY <1>1 DEF Reply, PostRecord
  <1>3. /\ replied.stage = stage /\ replied.kind = post[p].kind /\ replied.op = post[p].op
        /\ replied.scope = post[p].scope /\ replied.ids = post[p].ids
        /\ replied.revs = revs /\ replied.reply = reply
    BY <1>1 DEF PostRecord
  <1>4. stage \in {"answered", "lost"}
    OBVIOUS
  <1>. HIDE DEF stage, replied
  <1>5. post'[p] = replied /\ \A q \in Posts : q # p => post'[q] = post[q]
    BY <1>1, <1>2
  <1>. QED BY <1>3, <1>4, <1>5 DEF Reviewed, Asked

\* A request that was stale remains so when a fresh revision is written.
LEMMA StaysStale ==
    ASSUME BulkInv, RefusalInv, NEW p \in Posts, post[p].kind = "execute", Stale(p),
           NEW v, ~Spent(v),
           \A t \in Tenants, i \in Rows : saved'[t][i] \in {saved[t][i], v},
           post'[p].revs = post[p].revs, post'[p].scope = post[p].scope,
           post'[p].ids = post[p].ids
    PROVE  Stale(p)'
  <1>1. post[p].scope \in Tenants /\ post[p].revs \in Revs
    BY DEF BulkInv, PostsOK, Asked, Shape, PostRecord
  <1>2. Only(saved[post[p].scope], post[p].ids) \in Revs
    BY <1>1, OnlyIsRevs DEF BulkInv, Shape
  <1>3. PICK i \in Rows : post[p].revs[i] # Only(saved[post[p].scope], post[p].ids)[i]
    BY <1>1, <1>2 DEF Stale, Revs
  <1>4. post[p].revs[i] # v
    BY DEF RefusalInv, RevisionsAreSpent
  <1>5. saved'[post[p].scope][i] \in {saved[post[p].scope][i], v}
    BY <1>1
  <1>6. post[p].revs[i] # Only(saved'[post[p].scope], post[p].ids)[i]
    BY <1>3, <1>4, <1>5 DEF Only
  <1>7. post'[p].revs # Only(saved'[post'[p].scope], post'[p].ids)
    BY <1>6
  <1>. QED BY <1>7 DEF Stale, Only

\* The writer of a pending command or undo is a fresh revision.
LEMMA WriterIsFresh ==
    ASSUME BulkInv, NEW p \in Posts, post[p].stage \in {"sent", "forgotten"}
    PROVE  ~Spent(p) /\ \A t \in Tenants, i \in Rows : Written(p)[t][i] \in {saved[t][i], p}
  <1>1. saved \in [Tenants -> Revs]
    BY DEF BulkInv, Shape
  <1>. QED BY <1>1 DEF Spent, Written, Revs

LEMMA ServePreviewRefusal ==
    ASSUME BulkInv, BulkInv', RefusalInv, NEW p \in Posts, ServePreview(p) PROVE RefusalInv'
  <1>. DEFINE revs == Only(saved[post[p].scope], post[p].ids)
  <1>1. /\ post[p].stage \in {"sent", "forgotten"} /\ post[p].kind \in {"preview", "check"}
        /\ UNCHANGED <<tab, saved, edits, receipts, grid, dialog, revert>>
        /\ Reply(p, revs, "preview")
    BY DEF ServePreview, ToServe
  <1>2. post[p].scope \in Tenants
    BY <1>1 DEF BulkInv, PostsOK, Asked
  <1>3. revs \in Revs /\ \A i \in Rows : Spent(revs[i])
    <2>1. revs \in Revs
      BY <1>2, OnlyIsRevs DEF BulkInv, Shape
    <2>2. ASSUME NEW i \in Rows PROVE Spent(revs[i])
      <3>1. Spent(saved[post[p].scope][i]) /\ Spent(0)
        BY <1>2, ZeroIsSpent DEF RefusalInv, RevisionsAreSpent
      <3>2. revs[i] = IF i \in post[p].ids THEN saved[post[p].scope][i] ELSE 0
        BY DEF Only
      <3>. HIDE DEF revs
      <3>. QED BY <3>1, <3>2
    <2>. QED BY <2>1, <2>2
  <1>. HIDE DEF revs
  <1>4. /\ \A q \in Posts : q # p => post'[q] = post[q]
        /\ post'[p].revs = revs /\ post'[p].reply = "preview"
        /\ \A q \in Posts :
              /\ post'[q].kind = post[q].kind /\ post'[q].ids = post[q].ids
              /\ post'[q].scope = post[q].scope /\ post'[q].op = post[q].op
              /\ Reviewed(q) => q # p /\ post'[q] = post[q]
              /\ Asked(q) => post'[q].stage # "free"
    BY <1>1, <1>3, ReplyFields
  <1>5. \A v : Spent(v) => Spent(v)'
    BY <1>1, <1>4 DEF Spent
  <1>6. RevisionsAreSpent'
    BY <1>1, <1>3, <1>4, <1>5 DEF RefusalInv, RevisionsAreSpent
  <1>7. (dialog.accepted # 0 => Reviewed(dialog.accepted))'
    BY <1>1, <1>4, AcceptedStays DEF Reviewed
  <1>8. CommandsAreReviewed'
    <2>1. \A q \in Posts : post[q].kind = "execute" => q # p /\ post[q].op \in Posts
      BY <1>1 DEF BulkInv, PostsOK, Asked
    <2>2. \A q \in Posts : post'[q].kind = "execute" /\ post'[q].op # q =>
             /\ Reviewed(post[q].op)'
             /\ post'[q].revs = post'[post[q].op].revs /\ post'[q].ids = post'[post[q].op].ids
      BY <1>4, <2>1 DEF RefusalInv, CommandsAreReviewed, Reviewed
    <2>. QED BY <1>4, <1>7, <2>2 DEF CommandsAreReviewed, Reviewed
  <1>9. \A q \in Posts : q # p => (Stale(q)' <=> Stale(q))
    BY <1>1, <1>4 DEF Stale
  <1>10. \A op \in Posts : Done(op)' => Asked(op)' /\ receipts'[op].tenant = post'[op].scope
    BY <1>1, <1>4 DEF RefusalInv, Done, Asked
  <1>. QED BY <1>1, <1>4, <1>6, <1>8, <1>9, <1>10 DEF RefusalInv, Done

\* What an answered command or undo leaves of the invariant, whatever it wrote: its
\* writer is spent now.
LEMMA Answer ==
    ASSUME BulkInv, BulkInv', RefusalInv, NEW p \in Posts,
           post[p].stage \in {"sent", "forgotten"}, post[p].kind \in {"execute", "undo"},
           NEW revs \in {post[p].revs, NoRevs}, post[p].kind = "execute" => revs = post[p].revs,
           NEW reply \in {"applied", "reverted", "refused"}, Reply(p, revs, reply),
           UNCHANGED <<edits, dialog>>,
           \A t \in Tenants, i \in Rows : saved'[t][i] \in {saved[t][i], p}
    PROVE  RevisionsAreSpent' /\ CommandsAreReviewed'
  <1>1. revs \in Revs
    BY Zeros DEF BulkInv, Shape, PostRecord
  <1>2. /\ \A q \in Posts : q # p => post'[q] = post[q]
        /\ post'[p].stage \in {"answered", "lost"} /\ post'[p].revs = revs
        /\ \A q \in Posts :
              /\ post'[q].kind = post[q].kind /\ post'[q].ids = post[q].ids
              /\ post'[q].op = post[q].op
              /\ Reviewed(q) => q # p /\ post'[q] = post[q]
    BY <1>1, ReplyFields
  <1>3. \A i \in Rows : Spent(revs[i])
    BY ZeroIsSpent DEF RefusalInv, RevisionsAreSpent, NoRevs
  <1>4. RevisionsAreSpent'
    <2>1. \A t \in Tenants, i \in Rows : Spent(saved[t][i])'
      <3>. SUFFICES ASSUME NEW t \in Tenants, NEW i \in Rows PROVE Spent(saved[t][i])'
        OBVIOUS
      <3>1. CASE saved'[t][i] = p
        BY <1>2, <3>1 DEF Spent
      <3>2. CASE saved'[t][i] = saved[t][i]
        <4>1. Spent(saved[t][i])
          BY DEF RefusalInv, RevisionsAreSpent
        <4>. QED BY <1>2, <3>2, <4>1 DEF Spent
      <3>. QED BY <3>1, <3>2
    <2>2. \A q \in Posts, i \in Rows : Spent(post[q].revs[i])'
      <3>. SUFFICES ASSUME NEW q \in Posts, NEW i \in Rows PROVE Spent(post[q].revs[i])'
        OBVIOUS
      <3>1. PICK v : post'[q].revs[i] = v /\ Spent(v)
        BY <1>2, <1>3 DEF RefusalInv, RevisionsAreSpent
      <3>. QED BY <1>2, <3>1 DEF Spent
    <2>. QED BY <2>1, <2>2 DEF RevisionsAreSpent
  <1>5. (dialog.accepted # 0 => Reviewed(dialog.accepted))'
    BY <1>2, AcceptedStays DEF Reviewed
  <1>6. CommandsAreReviewed'
    <2>1. \A q \in Posts : post[q].kind = "execute" => post[q].op \in Posts
      BY DEF BulkInv, PostsOK, Asked
    <2>2. \A q \in Posts : post'[q].kind = "execute" => post'[q].revs = post[q].revs
      BY <1>2
    <2>3. \A q \in Posts : post'[q].kind = "execute" /\ post'[q].op # q =>
             /\ Reviewed(post[q].op)'
             /\ post'[q].revs = post'[post[q].op].revs /\ post'[q].ids = post'[post[q].op].ids
      BY <1>2, <2>1, <2>2 DEF RefusalInv, CommandsAreReviewed, Reviewed
    <2>. QED BY <1>2, <1>5, <2>3 DEF CommandsAreReviewed, Reviewed
  <1>. QED BY <1>4, <1>6

LEMMA ServeExecuteRefusal ==
    ASSUME BulkInv, BulkInv', RefusalInv, NEW p \in Posts, ServeExecute(p) PROVE RefusalInv'
  <1>1. /\ post[p].stage \in {"sent", "forgotten"} /\ post[p].kind = "execute"
        /\ UNCHANGED <<tab, edits, grid, dialog, revert>>
    BY DEF ServeExecute, ToServe
  <1>2. /\ post[p].scope \in Tenants /\ post[p].op \in Posts /\ post[p].revs \in Revs
        /\ post[p].scope = post[post[p].op].scope /\ Asked(post[p].op)
    BY <1>1 DEF BulkInv, PostsOK, Asked, Shape, PostRecord
  <1>3. PICK reply \in {"applied", "reverted", "refused"} :
           /\ Reply(p, post[p].revs, reply)
           /\ reply = "refused" => /\ ~HasReceipt(p) /\ ~StillAsReviewed(p)
                                   /\ UNCHANGED <<saved, receipts>>
    BY DEF ServeExecute
  <1>4. /\ \A q \in Posts : q # p => post'[q] = post[q]
        /\ post'[p].revs = post[p].revs /\ post'[p].reply = reply
        /\ \A q \in Posts :
              /\ post'[q].kind = post[q].kind /\ post'[q].ids = post[q].ids
              /\ post'[q].scope = post[q].scope /\ post'[q].op = post[q].op
              /\ Asked(q) => post'[q].stage # "free"
    BY <1>1, <1>2, <1>3, ReplyFields
  <1>5. \A t \in Tenants, i \in Rows : saved'[t][i] \in {saved[t][i], p}
    BY <1>1, WriterIsFresh DEF ServeExecute
  <1>6. RevisionsAreSpent' /\ CommandsAreReviewed'
    BY <1>1, <1>3, <1>5, Answer
  <1>7. \A q \in Posts : post[q].kind = "execute" /\ Stale(q) => Stale(q)'
    BY <1>1, <1>4, <1>5, WriterIsFresh, StaysStale
  <1>8. CASE UNCHANGED <<saved, receipts>>
    <2>1. reply = "refused" => Stale(p)' /\ ~Done(post[p].op)'
      <3>. SUFFICES ASSUME reply = "refused" PROVE Stale(p)' /\ ~Done(post[p].op)'
        OBVIOUS
      <3>1. Stale(p)
        BY <1>2, <1>3 DEF StillAsReviewed, Stale
      <3>2. ~Done(post[p].op)
        BY <1>2, <1>3 DEF HasReceipt, RefusalInv
      <3>. QED BY <1>1, <1>4, <1>7, <1>8, <3>1, <3>2 DEF Done
    <2>2. \A op \in Posts : Done(op)' => Asked(op)' /\ receipts'[op].tenant = post'[op].scope
      BY <1>4, <1>8 DEF RefusalInv, Done, Asked
    <2>3. \A q \in Posts : post'[q].kind = "execute" /\ post'[q].reply = "refused" =>
                              ~Done(post[q].op)' /\ Stale(q)'
      <3>. SUFFICES ASSUME NEW q \in Posts, post'[q].kind = "execute", post'[q].reply = "refused"
                    PROVE  ~Done(post[q].op)' /\ Stale(q)'
        OBVIOUS
      <3>1. CASE q = p
        BY <1>4, <2>1, <3>1
      <3>2. CASE q # p
        <4>1. post[q] = post'[q]
          BY <1>4, <3>2
        <4>2. ~Done(post[q].op) /\ Stale(q)
          BY <4>1 DEF RefusalInv
        <4>. QED BY <1>7, <1>8, <4>1, <4>2 DEF Done
      <3>. QED BY <3>1, <3>2
    <2>4. \A q \in Posts : post'[q].kind = "check" => post'[q].reply # "refused"
      BY <1>1, <1>4 DEF RefusalInv
    <2>. QED BY <1>6, <2>2, <2>3, <2>4 DEF RefusalInv, Done
  <1>9. CASE ~HasReceipt(p) /\ StillAsReviewed(p) /\ ~UNCHANGED <<saved, receipts>>
    <2>1. reply # "refused"
      BY <1>3, <1>9
    <2>2. PICK receipt : /\ receipts' = [receipts EXCEPT ![post[p].op] = receipt]
                         /\ receipt.tenant = post[p].scope
      BY <1>9 DEF ServeExecute
    <2>3. \A op \in Posts : receipts'[op] = IF op = post[p].op THEN receipt ELSE receipts[op]
      BY <1>2, <2>2 DEF BulkInv, ReceiptsOK
    <2>4. \A op \in Posts : Done(op)' => Asked(op)' /\ receipts'[op].tenant = post'[op].scope
      BY <1>2, <1>4, <2>2, <2>3 DEF RefusalInv, Done, Asked
    \* The requests of one operation agree, so none was refused before.
    <2>5. ASSUME NEW q \in Posts, q # p, post[q].kind = "execute", post[q].reply = "refused"
          PROVE  post[q].op # post[p].op
      <3>. SUFFICES ASSUME post[q].op = post[p].op PROVE FALSE
        OBVIOUS
      <3>1. post[q].op # q /\ post[p].op # p
        BY <1>1, <2>5 DEF RefusalInv, CommandsAreReviewed, Reviewed
      <3>2. post[q].revs = post[p].revs /\ post[q].ids = post[p].ids
        BY <1>1, <2>5, <3>1 DEF RefusalInv, CommandsAreReviewed
      <3>3. post[q].scope = post[p].scope
        BY <1>2, <2>5 DEF BulkInv, PostsOK
      <3>4. Stale(q)
        BY <2>5 DEF RefusalInv
      <3>. QED BY <1>9, <3>2, <3>3, <3>4 DEF Stale, StillAsReviewed
    <2>6. \A q \in Posts : post'[q].kind = "execute" /\ post'[q].reply = "refused" =>
                              ~Done(post[q].op)' /\ Stale(q)'
      <3>. SUFFICES ASSUME NEW q \in Posts, post'[q].kind = "execute", post'[q].reply = "refused"
                    PROVE  ~Done(post[q].op)' /\ Stale(q)'
        OBVIOUS
      <3>1. q # p /\ post[q].kind = "execute" /\ post[q].reply = "refused"
        BY <1>4, <2>1
      <3>2. ~Done(post[q].op) /\ Stale(q) /\ post[q].op \in Posts
        BY <3>1 DEF RefusalInv, BulkInv, PostsOK, Asked
      <3>3. Stale(q)'
        BY <1>7, <3>1, <3>2
      <3>4. receipts'[post[q].op] = receipts[post[q].op]
        BY <2>3, <2>5, <3>1, <3>2
      <3>5. post'[q].op = post[q].op
        BY <1>4
      <3>. QED BY <3>2, <3>3, <3>4, <3>5 DEF Done
    <2>7. \A q \in Posts : post'[q].kind = "check" => post'[q].reply # "refused"
      BY <1>1, <1>4 DEF RefusalInv
    <2>8. \A q \in Posts : post'[q].op = post[q].op
      BY <1>4
    <2>. QED BY <1>6, <2>4, <2>6, <2>7, <2>8 DEF RefusalInv, Done
  <1>. QED BY <1>8, <1>9 DEF ServeExecute

LEMMA ServeUndoRefusal ==
    ASSUME BulkInv, BulkInv', RefusalInv, NEW p \in Posts, ServeUndo(p) PROVE RefusalInv'
  <1>1. /\ post[p].stage \in {"sent", "forgotten"} /\ post[p].kind = "undo"
        /\ UNCHANGED <<tab, edits, grid, dialog, revert>>
    BY DEF ServeUndo, ToServe
  <1>2. post[p].op \in Posts /\ post[p].scope \in Tenants
    BY <1>1 DEF BulkInv, PostsOK, Asked
  <1>3. PICK reply \in {"reverted", "refused"} : Reply(p, NoRevs, reply)
    BY DEF ServeUndo
  <1>4. /\ \A q \in Posts : q # p => post'[q] = post[q]
        /\ \A q \in Posts :
              /\ post'[q].kind = post[q].kind /\ post'[q].ids = post[q].ids
              /\ post'[q].scope = post[q].scope /\ post'[q].op = post[q].op
              /\ Asked(q) => post'[q].stage # "free"
    BY <1>1, <1>3, Zeros, ReplyFields
  <1>5. \A t \in Tenants, i \in Rows : saved'[t][i] \in {saved[t][i], p}
    BY <1>1, WriterIsFresh DEF ServeUndo
  <1>6. RevisionsAreSpent' /\ CommandsAreReviewed'
    BY <1>1, <1>3, <1>5, Answer
  <1>7. \A op \in Posts : Done(op)' <=> Done(op)
    <2>1. CASE UNCHANGED receipts
      BY <2>1 DEF Done
    <2>2. CASE HasReceipt(p) /\ receipts' = [receipts EXCEPT ![post[p].op].undone = TRUE]
      <3>1. receipts[post[p].op] \in Receipt
        BY <1>2, <2>2, BulkAssumption
           DEF BulkAssumption, HasReceipt, BulkInv, ReceiptsOK, Done
      <3>2. receipts'[post[p].op].tenant = receipts[post[p].op].tenant
        BY <1>2, <2>2, <3>1 DEF Receipt, BulkInv, ReceiptsOK
      <3>3. \A op \in Posts : op # post[p].op => receipts'[op] = receipts[op]
        BY <2>2 DEF BulkInv, ReceiptsOK
      <3>. QED BY <3>2, <3>3 DEF Done
    <2>. QED BY <2>1, <2>2 DEF ServeUndo
  <1>8. \A op \in Posts : receipts'[op].tenant = receipts[op].tenant
    <2>1. CASE UNCHANGED receipts
      BY <2>1
    <2>2. CASE HasReceipt(p) /\ receipts' = [receipts EXCEPT ![post[p].op].undone = TRUE]
      <3>1. receipts[post[p].op] \in Receipt
        BY <1>2, <2>2, BulkAssumption
           DEF BulkAssumption, HasReceipt, BulkInv, ReceiptsOK, Done
      <3>. QED BY <1>2, <2>2, <3>1 DEF Receipt, BulkInv, ReceiptsOK
    <2>. QED BY <2>1, <2>2 DEF ServeUndo
  <1>9. \A op \in Posts : Done(op)' => Asked(op)' /\ receipts'[op].tenant = post'[op].scope
    BY <1>4, <1>7, <1>8 DEF RefusalInv, Asked
  <1>10. \A q \in Posts : post'[q].kind = "execute" /\ post'[q].reply = "refused" =>
                             ~Done(post[q].op)' /\ Stale(q)'
    <2>. SUFFICES ASSUME NEW q \in Posts, post'[q].kind = "execute", post'[q].reply = "refused"
                  PROVE  ~Done(post[q].op)' /\ Stale(q)'
      OBVIOUS
    <2>1. q # p /\ post'[q] = post[q]
      BY <1>1, <1>4
    <2>2. ~Done(post[q].op) /\ Stale(q) /\ post[q].op \in Posts
      BY <2>1 DEF RefusalInv, BulkInv, PostsOK, Asked
    <2>3. Stale(q)'
      BY <1>1, <1>5, <2>1, <2>2, WriterIsFresh, StaysStale
    <2>4. receipts'[post[q].op].tenant = receipts[post[q].op].tenant
      BY <1>8, <2>2
    <2>. QED BY <2>1, <2>2, <2>3, <2>4 DEF Done
  <1>11. \A q \in Posts : post'[q].kind = "check" => post'[q].reply # "refused"
    BY <1>1, <1>4 DEF RefusalInv
  <1>12. \A q \in Posts : post'[q].op = post[q].op
    BY <1>4
  <1>. QED BY <1>6, <1>9, <1>10, <1>11, <1>12 DEF RefusalInv, Done

LEMMA PeerEditsRefusal ==
    ASSUME BulkInv, BulkInv', RefusalInv, PeerEdits PROVE RefusalInv'
  <1>1. /\ edits' = edits + 1 /\ UNCHANGED <<tab, receipts, post, grid, dialog, revert>>
        /\ edits \in Int /\ MaxPosts \in Nat /\ edits >= 0
    BY BulkAssumption DEF BulkAssumption, PeerEdits, BulkInv, Shape
  <1>2. PICK v : v = MaxPosts + edits'
    OBVIOUS
  <1>3. v \notin Posts /\ ~Spent(v) /\ Spent(v)'
    BY <1>1, <1>2 DEF Posts, Spent
  <1>4. \A t \in Tenants, i \in Rows : saved'[t][i] \in {saved[t][i], v}
    BY <1>2 DEF PeerEdits, BulkInv, Shape, Revs
  <1>5. \A w \in Writers : Spent(w) => Spent(w)'
    BY <1>1 DEF Spent, Writers
  <1>6. RevisionsAreSpent'
    <2>1. \A t \in Tenants, i \in Rows : \E w : saved'[t][i] = w /\ Spent(w)'
      BY <1>3, <1>4, <1>5, InWriters DEF RefusalInv, RevisionsAreSpent
    <2>2. \A q \in Posts, i \in Rows : \E w : post'[q].revs[i] = w /\ Spent(w)'
      BY <1>1, <1>5, InWriters DEF RefusalInv, RevisionsAreSpent
    <2>. QED BY <2>1, <2>2 DEF RevisionsAreSpent, Spent
  <1>7. \A q \in Posts : post[q].kind = "execute" /\ Stale(q) => Stale(q)'
    BY <1>1, <1>3, <1>4, StaysStale
  <1>. QED BY <1>1, <1>6, <1>7 DEF RefusalInv, CommandsAreReviewed, Reviewed, Done, Asked

LEMMA RefusalNextInv ==
    ASSUME BulkInv, BulkInv', RefusalInv, [BulkNext]_bulkVars PROVE RefusalInv'
  <1>1. CASE \/ UNCHANGED bulkVars \/ Dismiss
             \/ (\E t \in Tenants : BeginSwitch(t)) \/ ConfirmSwitch \/ FailSwitch
    <2>1. /\ UNCHANGED <<saved, edits, receipts, post>>
          /\ UNCHANGED dialog \/ dialog' = ClosedDialog
      BY <1>1 DEF bulkVars, BeginSwitch, ConfirmSwitch, FailSwitch, Dismiss
    <2>2. dialog'.accepted \in {0, dialog.accepted}
      BY <2>1 DEF ClosedDialog
    <2>. QED BY <2>1, <2>2, TabRefusal
  <1>2. CASE Reload \/ PeerEdits
    BY <1>2, ReloadRefusal, PeerEditsRefusal
  <1>3. CASE \E p \in Posts : \/ \E ids \in Selections : RequestPreview(p, ids)
                              \/ Confirm(p) \/ ArchiveRow(p) \/ Revert(p)
    BY <1>3, SendsRefusal
  <1>4. CASE \E p \in Posts : \/ PreviewArrives(p) \/ CheckArrives(p) \/ ExecuteArrives(p)
                              \/ UndoArrives(p) \/ Disconnect(p)
    BY <1>4, ArrivesRefusal, CheckRefusal, DisconnectRefusal
  <1>5. CASE \E p \in Posts : ServePreview(p) \/ ServeExecute(p) \/ ServeUndo(p)
    BY <1>5, ServePreviewRefusal, ServeExecuteRefusal, ServeUndoRefusal
  <1>. QED BY <1>1, <1>2, <1>3, <1>4, <1>5 DEF BulkNext

\* "Nothing was changed" is true: a refused command was not carried out before and
\* never is, although its operation can be sent again (executeBoundPreview).
THEOREM RefusalsAreTrue == BulkSpec => []RefusalIsTrue
  <1>1. BulkInit => RefusalInv
    BY RefusalInitInv
  <1>2. BulkInv /\ BulkInv' /\ RefusalInv /\ [BulkNext]_bulkVars => RefusalInv'
    BY RefusalNextInv
  <1>3. RefusalInv => RefusalIsTrue
    BY DEF RefusalInv, RefusalIsTrue
  <1>. QED BY <1>1, <1>2, <1>3, BulkInvariance, PTL DEF BulkSpec

-----------------------------------------------------------------------------
(* The rows change as ReviewedStore says.  What an operation is reviewed   *)
(* with stays in its request; its receipt is for the rows of that request, *)
(* and so is its undo.                                                     *)

OperationsOK ==
    /\ \A op \in Posts : revert[op] # "none" => Asked(op)
    /\ \A p \in Posts : post[p].kind = "undo" =>
          Asked(post[p].op) /\ post[p].ids = post[post[p].op].ids
    /\ \A op \in Posts : Done(op) =>
          receipts[op].ids = post[op].ids /\ Spent(receipts[op].after)

OperationsInv == BulkInv /\ RefusalInv /\ OperationsOK

\* How a request can change: it keeps its operation and its rows once it is made.
Waiting(stage) == stage \in {"sent", "forgotten"}
Kept(q) == /\ Asked(q) /\ post'[q].stage # "free" /\ post'[q].ids = post[q].ids
           /\ post'[q].scope = post[q].scope /\ post'[q].op = post[q].op

Made(q) == /\ ~Asked(q) /\ post[q].kind = "none" /\ post'[q].stage = "sent"
           /\ post'[q].kind = "execute" => post'[q].op # q
           /\ post'[q].kind = "undo" =>
                 /\ post'[q].op \in Posts /\ Asked(post'[q].op)
                 /\ post'[q].ids = post[post'[q].op].ids
Moved(q) == /\ Kept(q) /\ post'[q].kind = post[q].kind /\ post'[q].revs = post[q].revs
            /\ Waiting(post'[q].stage) <=> Waiting(post[q].stage)
Checked(q) == /\ Kept(q) /\ post[q].kind = "check" /\ post[q].op = q
              /\ ~Waiting(post[q].stage)
              /\ post'[q].kind = "execute" /\ post'[q].revs = post[q].revs
Served(q) == /\ Kept(q) /\ post'[q].kind = post[q].kind
             /\ Waiting(post[q].stage) /\ ~Waiting(post'[q].stage)
             /\ post[q].kind = "execute" => post'[q].revs = post[q].revs

Advances(q) ==
    post'[q] = post[q] \/ Made(q) \/ Moved(q) \/ Checked(q) \/ Served(q)

\* A request handled by the tab.
LEMMA HandledAdvances ==
    ASSUME BulkInv, NEW p \in Posts, InFlight(p), ~Waiting(post[p].stage), post' = Handled(p)
    PROVE  \A q \in Posts : Advances(q)
  <1>1. post \in [Posts -> PostRecord]
    BY DEF BulkInv, Shape
  <1>2. \A q \in Posts : q # p => post'[q] = post[q]
    BY <1>1 DEF Handled
  <1>3. Moved(p)
    BY <1>1, HandledFields DEF Moved, Kept, Waiting, Asked, InFlight
  <1>. QED BY <1>2, <1>3 DEF Advances

\* A request forgotten by the tab.
LEMMA ForgottenAdvances ==
    ASSUME BulkInv, NEW q \in Posts, post'[q] = Forgotten(q) PROVE Advances(q)
  <1>1. post[q] \in PostRecord
    BY DEF BulkInv, Shape
  <1>2. CASE ~Asked(q)
    <2>1. Forgotten(q) = [post[q] EXCEPT !.stage = post[q].stage]
      BY <1>2 DEF Asked, Forgotten
    <2>. QED BY <1>1, <2>1 DEF PostRecord, Advances
  <1>3. CASE Asked(q)
    <2>1. /\ Forgotten(q).ids = post[q].ids
          /\ Waiting(Forgotten(q).stage) <=> Waiting(post[q].stage)
      BY <1>1 DEF Forgotten, PostRecord, Waiting
    <2>2. Moved(q)
      BY <1>3, <2>1, ForgottenStep DEF Moved, Kept
    <2>. QED BY <2>2 DEF Advances
  <1>. QED BY <1>2, <1>3

\* A request answered by the handler.
LEMMA ReplyAdvances ==
    ASSUME BulkInv, NEW p \in Posts, Waiting(post[p].stage),
           NEW revs \in Revs, NEW reply \in {"preview", "applied", "reverted", "refused"},
           Reply(p, revs, reply), post[p].kind = "execute" => revs = post[p].revs
    PROVE  Served(p) /\ \A q \in Posts : q # p => post'[q] = post[q]
  <1>1. /\ \A q \in Posts : q # p => post'[q] = post[q]
        /\ post'[p].stage \in {"answered", "lost"} /\ post'[p].revs = revs
        /\ \A q \in Posts :
              /\ post'[q].kind = post[q].kind /\ post'[q].ids = post[q].ids
              /\ post'[q].scope = post[q].scope /\ post'[q].op = post[q].op
    BY ReplyFields DEF Waiting
  <1>. QED BY <1>1 DEF Served, Kept, Asked, Waiting

\* A request made by the tab.
LEMMA MadeAdvances ==
    ASSUME BulkInv, NEW p \in Posts, CanPost(p), NEW record \in PostRecord,
           post' = [post EXCEPT ![p] = record], record.stage = "sent",
           record.kind = "execute" => record.op # p,
           record.kind = "undo" => /\ record.op \in Posts /\ Asked(record.op)
                                   /\ record.ids = post[record.op].ids
    PROVE  \A q \in Posts : Advances(q)
  <1>1. post'[p] = record /\ \A q \in Posts : q # p => post'[q] = post[q]
    BY DEF BulkInv, Shape
  <1>2. ~Asked(p) /\ post[p].kind = "none"
    <2>1. ~Asked(p)
      BY DEF CanPost, Asked
    <2>. QED BY <2>1 DEF BulkInv, PostsOK
  <1>3. Made(p)
    BY <1>1, <1>2 DEF Made
  <1>. QED BY <1>1, <1>3 DEF Advances

LEMMA ExecuteAdvances ==
    ASSUME BulkInv, RefusalInv, NEW p \in Posts, NEW ids \in SUBSET Rows, Execute(p, ids)
    PROVE  \A q \in Posts : Advances(q)
  <1>. DEFINE op == dialog.accepted
  <1>1. CanPost(p)
    BY DEF Execute
  <1>2. CASE Matches(ids) /\ SendReviewed(p, ids)
    <2>. DEFINE request == Request("execute", ids, op)
                record == [request EXCEPT !.seen = post[op].revs, !.revs = post[op].revs,
                             !.owner = Owner(ids), !.generation = dialog.generation]
    <2>1. op \in Posts /\ Reviewed(op)
      BY <1>2, BulkAssumption
         DEF BulkAssumption, Matches, BulkInv, Shape, DialogShape, Numbers, Posts, RefusalInv,
             CommandsAreReviewed
    <2>2. /\ request \in PostRecord /\ request.stage = "sent" /\ request.kind = "execute"
          /\ request.op = op
      BY <2>1, RequestStep
    <2>3. post' = [post EXCEPT ![p] = record]
      BY <1>2 DEF SendReviewed
    <2>4. op # p
      BY <1>1, <2>1 DEF Reviewed, CanPost
    <2>5. post[op].revs \in Revs /\ dialog.generation \in Numbers /\ Owner(ids) \in Numbers
      BY <2>1, Zeros DEF BulkInv, Shape, PostRecord, DialogShape, Owner
    <2>. HIDE DEF request, op
    <2>6. /\ record \in PostRecord /\ record.stage = "sent" /\ record.kind = "execute"
          /\ record.op = op
      BY <2>2, <2>5 DEF PostRecord
    <2>. HIDE DEF record
    <2>. QED BY <1>1, <2>3, <2>4, <2>6, MadeAdvances
  <1>3. CASE SendCheck(p, ids)
    <2>. DEFINE request == Request("check", ids, p)
                record == [request EXCEPT !.seen = Only(grid, ids),
                             !.owner = Owner(ids), !.generation = dialog.generation]
    <2>1. Only(grid, ids) \in Revs
      BY OnlyIsRevs DEF BulkInv, Shape
    <2>2. request \in PostRecord /\ request.stage = "sent" /\ request.kind = "check"
      BY RequestStep
    <2>3. post' = [post EXCEPT ![p] = record]
      BY <1>3 DEF SendCheck
    <2>4. dialog.generation \in Numbers /\ Owner(ids) \in Numbers
      BY Zeros DEF BulkInv, Shape, DialogShape, Owner
    <2>. HIDE DEF request
    <2>5. record \in PostRecord /\ record.stage = "sent" /\ record.kind = "check"
      BY <2>1, <2>2, <2>4 DEF PostRecord
    <2>. HIDE DEF record
    <2>. QED BY <1>1, <2>3, <2>5, MadeAdvances
  <1>. QED BY <1>2, <1>3 DEF Execute

LEMMA SendsAdvance ==
    ASSUME OperationsInv, NEW p \in Posts,
           \/ \E ids \in Selections : RequestPreview(p, ids)
           \/ Confirm(p) \/ ArchiveRow(p) \/ Revert(p)
    PROVE  \A q \in Posts : Advances(q)
  <1>1. CASE \E ids \in Selections : RequestPreview(p, ids)
    <2>1. PICK ids \in Selections : RequestPreview(p, ids)
      BY <1>1
    <2>2. ids \in SUBSET Rows
      BY BulkAssumption DEF BulkAssumption
    <2>3. PICK record : record = Request("preview", ids, p)
      OBVIOUS
    <2>4. record \in PostRecord /\ record.stage = "sent" /\ record.kind = "preview"
      BY <2>2, <2>3, RequestStep DEF OperationsInv
    <2>5. CanPost(p) /\ post' = [post EXCEPT ![p] = record]
      BY <2>1, <2>3 DEF RequestPreview
    <2>. QED BY <2>4, <2>5, MadeAdvances DEF OperationsInv
  <1>2. CASE Confirm(p)
    <2>1. dialog.shown \in Posts
      BY <1>2, BulkAssumption
         DEF BulkAssumption, Confirm, OperationsInv, BulkInv, Shape, DialogShape, Numbers, Posts
    <2>2. post[dialog.shown].ids \in SUBSET Rows
      BY <2>1 DEF OperationsInv, BulkInv, Shape, PostRecord
    <2>. QED BY <1>2, <2>2, ExecuteAdvances DEF Confirm, OperationsInv
  <1>3. CASE ArchiveRow(p)
    BY <1>3, ExecuteAdvances DEF ArchiveRow, OperationsInv
  <1>4. CASE Revert(p)
    <2>1. PICK op \in Posts : /\ revert[op] = "offered"
                              /\ post' = [post EXCEPT ![p] = Request("undo", post[op].ids, op)]
      BY <1>4 DEF Revert
    <2>2. Asked(op) /\ post[op].ids \in SUBSET Rows
      BY <2>1 DEF OperationsInv, OperationsOK, BulkInv, Shape, PostRecord
    <2>3. PICK record : record = Request("undo", post[op].ids, op)
      OBVIOUS
    <2>4. /\ record \in PostRecord /\ record.stage = "sent" /\ record.kind = "undo"
          /\ record.op = op /\ record.ids = post[op].ids
      BY <2>2, <2>3, RequestStep, RequestFields DEF OperationsInv
    <2>5. CanPost(p) /\ post' = [post EXCEPT ![p] = record]
      BY <1>4, <2>1, <2>3 DEF Revert
    <2>. QED BY <2>2, <2>4, <2>5, MadeAdvances DEF OperationsInv
  <1>. QED BY <1>1, <1>2, <1>3, <1>4

LEMMA StepAdvances ==
    ASSUME OperationsInv, [BulkNext]_bulkVars PROVE \A q \in Posts : Advances(q)
  <1>0. BulkInv /\ RefusalInv /\ NoRevs \in Revs
    BY Zeros DEF OperationsInv
  <1>1. CASE UNCHANGED post
    BY <1>1 DEF Advances
  <1>2. CASE Reload
    BY <1>0, <1>2, ForgottenAdvances DEF Reload
  <1>3. ASSUME NEW p \in Posts,
               \/ \E ids \in Selections : RequestPreview(p, ids)
               \/ Confirm(p) \/ ArchiveRow(p) \/ Revert(p)
        PROVE  \A q \in Posts : Advances(q)
    BY <1>3, SendsAdvance
  <1>4. ASSUME NEW p \in Posts, PreviewArrives(p) \/ ExecuteArrives(p) \/ UndoArrives(p)
        PROVE  \A q \in Posts : Advances(q)
    <2>1. InFlight(p) /\ ~Waiting(post[p].stage) /\ post' = Handled(p)
      BY <1>4 DEF PreviewArrives, ExecuteArrives, UndoArrives, InFlight, Waiting
    <2>. QED BY <1>0, <2>1, HandledAdvances
  <1>5. ASSUME NEW p \in Posts, CheckArrives(p) PROVE \A q \in Posts : Advances(q)
    <2>1. InFlight(p) /\ ~Waiting(post[p].stage) /\ post[p].kind = "check"
      BY <1>5 DEF CheckArrives, InFlight, Waiting
    <2>2. CASE post' = Handled(p)
      BY <1>0, <2>1, <2>2, HandledAdvances
    <2>3. CASE post' = [post EXCEPT ![p].kind = "execute", ![p].stage = "sent"]
      <3>1. post \in [Posts -> PostRecord] /\ Asked(p) /\ post[p].op = p
        BY <1>0, <2>1 DEF BulkInv, Shape, PostsOK, Asked, InFlight
      <3>2. /\ post'[p].kind = "execute" /\ post'[p].stage = "sent"
            /\ post'[p].ids = post[p].ids /\ post'[p].scope = post[p].scope
            /\ post'[p].op = post[p].op /\ post'[p].revs = post[p].revs
            /\ \A q \in Posts : q # p => post'[q] = post[q]
        BY <2>3, <3>1 DEF PostRecord
      <3>3. Checked(p)
        BY <2>1, <3>1, <3>2 DEF Checked, Kept
      <3>. QED BY <3>2, <3>3 DEF Advances
    <2>. QED BY <1>5, <2>2, <2>3 DEF CheckArrives
  <1>6. ASSUME NEW p \in Posts, Disconnect(p) PROVE \A q \in Posts : Advances(q)
    <2>1. post'[p] = Forgotten(p) /\ \A q \in Posts : q # p => post'[q] = post[q]
      BY <1>0, <1>6 DEF Disconnect, BulkInv, Shape
    <2>. QED BY <1>0, <2>1, ForgottenAdvances DEF Advances
  <1>7. ASSUME NEW p \in Posts, ServePreview(p) \/ ServeExecute(p) \/ ServeUndo(p)
        PROVE  \A q \in Posts : Advances(q)
    <2>1. /\ Waiting(post[p].stage) /\ post[p].revs \in Revs
          /\ post[p].kind # "none" /\ post[p].scope \in Tenants
      BY <1>0, <1>7 DEF ServePreview, ServeExecute, ServeUndo, ToServe, Waiting, BulkInv, Shape,
         PostRecord, PostsOK, Asked
    <2>2. Only(saved[post[p].scope], post[p].ids) \in Revs
      BY <1>0, <2>1, OnlyIsRevs DEF BulkInv, Shape
    <2>3. PICK revs \in Revs, reply \in {"preview", "applied", "reverted", "refused"} :
             Reply(p, revs, reply) /\ (post[p].kind = "execute" => revs = post[p].revs)
      <3>1. CASE ServePreview(p)
        BY <2>2, <3>1 DEF ServePreview, ToServe
      <3>2. CASE ServeExecute(p)
        <4>1. \E reply \in {"applied", "reverted", "refused"} : Reply(p, post[p].revs, reply)
          BY <3>2 DEF ServeExecute
        <4>. QED BY <2>1, <4>1
      <3>3. CASE ServeUndo(p)
        <4>1. \E reply \in {"reverted", "refused"} : Reply(p, NoRevs, reply)
          BY <3>3 DEF ServeUndo
        <4>2. post[p].kind = "undo"
          BY <3>3 DEF ServeUndo, ToServe
        <4>. QED BY <1>0, <4>1, <4>2
      <3>. QED BY <1>7, <3>1, <3>2, <3>3
    <2>4. Served(p) /\ \A q \in Posts : q # p => post'[q] = post[q]
      BY <1>0, <2>1, <2>3, ReplyAdvances
    <2>. QED BY <2>4 DEF Advances
  <1>8. CASE \/ \E t \in Tenants : BeginSwitch(t)
             \/ ConfirmSwitch \/ FailSwitch \/ Dismiss \/ PeerEdits
    BY <1>1, <1>8 DEF BeginSwitch, ConfirmSwitch, FailSwitch, Dismiss, PeerEdits
  <1>9. CASE UNCHANGED bulkVars
    BY <1>1, <1>9 DEF bulkVars
  <1>. QED BY <1>2, <1>3, <1>4, <1>5, <1>6, <1>7, <1>8, <1>9 DEF BulkNext

\* A request that was made stays, and its writer stays spent.
LEMMA RequestsAreKept ==
    ASSUME NEW q \in Posts, Advances(q)
    PROVE  /\ Asked(q) => Kept(q)
           /\ Spent(q) => Spent(q)'
  <1>1. Asked(q) => Kept(q)
    BY DEF Advances, Made, Moved, Checked, Served, Kept, Asked
  <1>2. Spent(q) => /\ post[q].kind \in {"execute", "undo"} /\ ~Waiting(post[q].stage)
    BY DEF Spent, Waiting
  <1>3. Spent(q) => /\ post'[q].kind \in {"execute", "undo"} /\ ~Waiting(post'[q].stage)
    BY <1>2 DEF Advances, Made, Moved, Checked, Served
  <1>. QED BY <1>1, <1>3 DEF Spent, Waiting

\* An undo is offered for an operation that was asked for.
LEMMA OffersAreAsked ==
    ASSUME OperationsInv, [BulkNext]_bulkVars, NEW op \in Posts, revert'[op] # "none"
    PROVE  Asked(op)
  <1>0. /\ revert \in [Posts -> {"none", "offered", "sent", "complete"}]
        /\ revert[op] # "none" => Asked(op)
    BY DEF OperationsInv, OperationsOK, BulkInv, Shape
  <1>1. CASE revert' = revert
    BY <1>0, <1>1
  <1>2. CASE Reload
    BY <1>2 DEF Reload
  <1>3. ASSUME NEW p \in Posts, NEW o \in Posts, NEW now, revert' = [revert EXCEPT ![o] = now],
               Asked(o)
        PROVE  Asked(op)
    BY <1>0, <1>3
  <1>4. ASSUME NEW p \in Posts, Revert(p) PROVE Asked(op)
    <2>1. PICK o \in Posts : revert[o] = "offered" /\ revert' = [revert EXCEPT ![o] = "sent"]
      BY <1>4 DEF Revert
    <2>2. Asked(o)
      BY <2>1 DEF OperationsInv, OperationsOK
    <2>. QED BY <1>3, <2>1, <2>2
  <1>5. ASSUME NEW p \in Posts, ExecuteArrives(p) PROVE Asked(op)
    <2>1. post[p].op \in Posts /\ Asked(post[p].op)
      BY <1>5 DEF ExecuteArrives, OperationsInv, BulkInv, PostsOK, Asked
    <2>2. revert' = revert \/ revert' = [revert EXCEPT ![post[p].op] = "offered"]
      BY <1>5 DEF ExecuteArrives
    <2>. QED BY <1>1, <1>3, <2>1, <2>2
  <1>6. ASSUME NEW p \in Posts, UndoArrives(p) \/ Disconnect(p) PROVE Asked(op)
    <2>1. CASE revert' = revert
      BY <1>1, <2>1
    <2>2. CASE post[p].kind = "undo"
      <3>1. post[p].op \in Posts /\ Asked(post[p].op)
        BY <2>2 DEF OperationsInv, OperationsOK, BulkInv, PostsOK, Asked
      <3>2. \E now : revert' = [revert EXCEPT ![post[p].op] = now]
        BY <1>6, <2>2 DEF UndoArrives, Disconnect
      <3>. QED BY <1>3, <3>1, <3>2
    <2>. QED BY <1>6, <2>1, <2>2 DEF UndoArrives, Disconnect
  <1>7. CASE \/ UNCHANGED bulkVars \/ Dismiss \/ PeerEdits
             \/ (\E t \in Tenants : BeginSwitch(t)) \/ ConfirmSwitch \/ FailSwitch
    BY <1>1, <1>7 DEF bulkVars, Dismiss, PeerEdits, BeginSwitch, ConfirmSwitch, FailSwitch
  <1>8. ASSUME NEW p \in Posts,
               \/ \E ids \in Selections : RequestPreview(p, ids)
               \/ PreviewArrives(p) \/ Confirm(p) \/ ArchiveRow(p) \/ CheckArrives(p)
               \/ ServePreview(p) \/ ServeExecute(p) \/ ServeUndo(p)
        PROVE  Asked(op)
    BY <1>1, <1>8 DEF RequestPreview, PreviewArrives, Confirm, ArchiveRow, Execute, CheckArrives,
       ServePreview, ServeExecute, ServeUndo
  <1>. QED BY <1>2, <1>4, <1>5, <1>6, <1>7, <1>8 DEF BulkNext

\* What the receipts become: one is made or marked, by the request served.
LEMMA ReceiptsStep ==
    ASSUME OperationsInv, [BulkNext]_bulkVars
    PROVE  \/ UNCHANGED receipts
           \/ \E p \in Posts :
                 /\ ServeExecute(p) /\ ~HasReceipt(p) /\ StillAsReviewed(p)
                 /\ saved' = Written(p)
                 /\ receipts' = [receipts EXCEPT ![post[p].op] =
                       [tenant |-> post[p].scope, ids |-> post[p].ids, after |-> p,
                        undone |-> FALSE, reviewed |-> post[p].seen,
                        before |-> Only(saved[post[p].scope], post[p].ids)]]
           \/ \E p \in Posts :
                 /\ ServeUndo(p) /\ HasReceipt(p) /\ ~receipts[post[p].op].undone /\ Untouched(p)
                 /\ saved' = Written(p)
                 /\ receipts' = [receipts EXCEPT ![post[p].op].undone = TRUE]
  <1>1. ASSUME NEW p \in Posts, ServeExecute(p), ~UNCHANGED receipts
        PROVE  /\ ~HasReceipt(p) /\ StillAsReviewed(p) /\ saved' = Written(p)
               /\ receipts' = [receipts EXCEPT ![post[p].op] =
                     [tenant |-> post[p].scope, ids |-> post[p].ids, after |-> p,
                      undone |-> FALSE, reviewed |-> post[p].seen,
                      before |-> Only(saved[post[p].scope], post[p].ids)]]
    BY <1>1 DEF ServeExecute
  <1>2. ASSUME NEW p \in Posts, ServeUndo(p), ~UNCHANGED receipts
        PROVE  /\ HasReceipt(p) /\ ~receipts[post[p].op].undone /\ Untouched(p)
               /\ saved' = Written(p)
               /\ receipts' = [receipts EXCEPT ![post[p].op].undone = TRUE]
    BY <1>2 DEF ServeUndo
  <1>3. ASSUME ~UNCHANGED receipts PROVE \E p \in Posts : ServeExecute(p) \/ ServeUndo(p)
    BY <1>3 DEF BulkNext, bulkVars, BeginSwitch, ConfirmSwitch, FailSwitch, Reload, Dismiss,
       PeerEdits, RequestPreview, PreviewArrives, Confirm, ArchiveRow, Execute, CheckArrives,
       ExecuteArrives, Revert, UndoArrives, Disconnect, ServePreview
  <1>. QED BY <1>1, <1>2, <1>3

LEMMA OperationsInitInv == BulkInit => OperationsInv
  <1>. SUFFICES ASSUME BulkInit PROVE OperationsInv
    OBVIOUS
  <1>1. BulkInv /\ RefusalInv
    BY BulkInitInv, RefusalInitInv
  <1>2. \A p \in Posts : post[p].kind = "none" /\ revert[p] = "none" /\ ~Done(p)
    BY DEF BulkInit, FreePost, Done
  <1>3. OperationsOK
    BY <1>2 DEF OperationsOK
  <1>. QED BY <1>1, <1>3 DEF OperationsInv

\* The operation of a command, and the request served.
LEMMA ServedCommand ==
    ASSUME OperationsInv, NEW p \in Posts, ServeExecute(p)
    PROVE  /\ post[p].op \in Posts /\ Asked(post[p].op) /\ post[p].scope \in Tenants
           /\ post[p].scope = post[post[p].op].scope
           /\ post[p].revs = post[post[p].op].revs /\ post[p].ids = post[post[p].op].ids
           /\ ReviewMade(post[p].op)
           /\ Served(p) /\ Spent(p)' /\ ~Spent(p)
           /\ \A q \in Posts : q # p => post'[q] = post[q]
  <1>1. /\ Waiting(post[p].stage) /\ post[p].kind = "execute"
        /\ BulkInv /\ RefusalInv /\ post[p].revs \in Revs
    BY DEF ServeExecute, ToServe, Waiting, OperationsInv, BulkInv, Shape, PostRecord
  <1>2. /\ post[p].op \in Posts /\ Asked(post[p].op) /\ post[p].scope \in Tenants
        /\ post[p].scope = post[post[p].op].scope
    BY <1>1 DEF BulkInv, PostsOK, Asked
  <1>3. /\ post[p].revs = post[post[p].op].revs /\ post[p].ids = post[post[p].op].ids
        /\ ReviewMade(post[p].op)
    <2>1. CASE post[p].op = p
      BY <1>1, <2>1 DEF ReviewMade
    <2>2. CASE post[p].op # p
      BY <1>1, <1>2, <2>2 DEF RefusalInv, CommandsAreReviewed, Reviewed, ReviewMade
    <2>. QED BY <2>1, <2>2
  <1>4. PICK reply \in {"applied", "reverted", "refused"} : Reply(p, post[p].revs, reply)
    BY DEF ServeExecute
  <1>5. Served(p) /\ \A q \in Posts : q # p => post'[q] = post[q]
    BY <1>1, <1>4, ReplyAdvances
  <1>6. Spent(p)' /\ ~Spent(p)
    BY <1>1, <1>5 DEF Served, Spent, Waiting
  <1>. QED BY <1>2, <1>3, <1>5, <1>6

LEMMA ServedUndo ==
    ASSUME OperationsInv, NEW p \in Posts, ServeUndo(p)
    PROVE  /\ post[p].op \in Posts /\ Asked(post[p].op) /\ post[p].scope \in Tenants
           /\ post[p].ids = post[post[p].op].ids /\ post[p].kind = "undo"
           /\ Served(p) /\ ~Spent(p)
           /\ \A q \in Posts : q # p => post'[q] = post[q]
  <1>1. /\ Waiting(post[p].stage) /\ post[p].kind = "undo" /\ BulkInv
    BY DEF ServeUndo, ToServe, Waiting, OperationsInv
  <1>2. /\ post[p].op \in Posts /\ Asked(post[p].op) /\ post[p].scope \in Tenants
        /\ post[p].ids = post[post[p].op].ids
    BY <1>1 DEF OperationsInv, OperationsOK, BulkInv, PostsOK, Asked
  <1>3. PICK reply \in {"reverted", "refused"} : Reply(p, NoRevs, reply)
    BY DEF ServeUndo
  <1>4. Served(p) /\ \A q \in Posts : q # p => post'[q] = post[q]
    BY <1>1, <1>3, Zeros, ReplyAdvances
  <1>5. ~Spent(p)
    BY <1>1 DEF Spent, Waiting
  <1>. QED BY <1>1, <1>2, <1>4, <1>5

\* A receipt that is marked keeps its operation.
LEMMA MarkedReceipt ==
    ASSUME OperationsInv, NEW op \in Posts, Done(op),
           receipts' = [receipts EXCEPT ![op].undone = TRUE]
    PROVE  /\ receipts[op] \in Receipt
           /\ receipts'[op].ids = receipts[op].ids /\ receipts'[op].after = receipts[op].after
           /\ receipts'[op].tenant = receipts[op].tenant /\ receipts'[op].undone = TRUE
           /\ \A o \in Posts : o # op => receipts'[o] = receipts[o]
  <1>1. receipts = [o \in Posts |-> receipts[o]] /\ receipts[op] \in Receipt
    BY DEF OperationsInv, BulkInv, ReceiptsOK
  <1>. QED BY <1>1 DEF Receipt

LEMMA OperationsNextInv == OperationsInv /\ [BulkNext]_bulkVars => OperationsInv'
  <1>. SUFFICES ASSUME OperationsInv, [BulkNext]_bulkVars PROVE OperationsInv'
    OBVIOUS
  <1>1. BulkInv' /\ RefusalInv'
    BY BulkNextInv, RefusalNextInv DEF OperationsInv
  <1>2. \A q \in Posts : Advances(q) /\ (Asked(q) => Kept(q)) /\ (Spent(q) => Spent(q)')
    BY StepAdvances, RequestsAreKept
  <1>3. \A op \in Posts : revert'[op] # "none" => Asked(op)'
    BY <1>2, OffersAreAsked DEF Kept, Asked
  <1>4. ASSUME NEW p \in Posts, post'[p].kind = "undo"
        PROVE  post'[post'[p].op].stage # "free" /\ post'[p].ids = post'[post'[p].op].ids
    <2>1. /\ post'[p].op \in Posts /\ Asked(post'[p].op)
          /\ post'[p].ids = post[post'[p].op].ids
      <3>1. CASE Made(p)
        BY <1>4, <3>1 DEF Made
      <3>2. CASE post'[p] = post[p] \/ Moved(p) \/ Served(p)
        <4>1. /\ post[p].kind = "undo" /\ post'[p].op = post[p].op /\ post'[p].ids = post[p].ids
          BY <1>4, <3>2 DEF Moved, Served, Kept
        <4>. QED BY <4>1 DEF OperationsInv, OperationsOK, BulkInv, PostsOK, Asked
      <3>3. CASE Checked(p)
        BY <1>4, <3>3 DEF Checked
      <3>. QED BY <1>2, <3>1, <3>2, <3>3 DEF Advances
    <2>2. Kept(post'[p].op)
      BY <1>2, <2>1
    <2>3. PICK op \in Posts : op = post'[p].op
      BY <2>1
    <2>4. post'[op].stage # "free" /\ post'[p].ids = post'[op].ids
      BY <2>1, <2>2, <2>3 DEF Kept
    <2>. QED BY <2>3, <2>4
  <1>5. ASSUME NEW op \in Posts, Done(op), receipts'[op].ids = receipts[op].ids,
               receipts'[op].after = receipts[op].after
        PROVE  receipts'[op].ids = post'[op].ids /\ Spent(receipts[op].after)'
    <2>1. /\ receipts[op].ids = post[op].ids /\ Spent(receipts[op].after) /\ Asked(op)
          /\ receipts[op].after \in Posts
      BY <1>5 DEF OperationsInv, OperationsOK, RefusalInv, BulkInv, ReceiptsOK, Receipt
    <2>2. Kept(op)
      BY <1>2, <2>1
    <2>3. PICK v \in Posts : v = receipts[op].after
      BY <2>1
    <2>4. receipts'[op].after = v /\ Spent(v)'
      BY <1>2, <1>5, <2>1, <2>3
    <2>. QED BY <1>5, <2>1, <2>2, <2>4 DEF Kept, Spent
  <1>6. \A op \in Posts : Done(op)' => receipts'[op].ids = post'[op].ids /\ Spent(receipts[op].after)'
    <2>1. CASE UNCHANGED receipts
      BY <1>5, <2>1 DEF Done
    <2>2. ASSUME NEW p \in Posts, ServeExecute(p),
                 receipts' = [receipts EXCEPT ![post[p].op] =
                     [tenant |-> post[p].scope, ids |-> post[p].ids, after |-> p,
                      undone |-> FALSE, reviewed |-> post[p].seen,
                      before |-> Only(saved[post[p].scope], post[p].ids)]],
                 NEW op \in Posts, Done(op)'
          PROVE  receipts'[op].ids = post'[op].ids /\ Spent(receipts[op].after)'
      <3>1. /\ post[p].op \in Posts /\ Asked(post[p].op) /\ Spent(p)'
            /\ post[p].ids = post[post[p].op].ids
        BY <2>2, ServedCommand
      <3>2. receipts = [o \in Posts |-> receipts[o]]
        BY DEF OperationsInv, BulkInv, ReceiptsOK
      <3>3. CASE op = post[p].op
        <4>1. receipts'[op].ids = post[p].ids /\ receipts'[op].after = p
          BY <2>2, <3>2, <3>3
        <4>2. Kept(op)
          BY <1>2, <3>1, <3>3
        <4>. QED BY <3>1, <3>3, <4>1, <4>2 DEF Kept, Spent
      <3>4. CASE op # post[p].op
        <4>1. receipts'[op] = receipts[op]
          BY <2>2, <3>1, <3>2, <3>4
        <4>. QED BY <1>5, <2>2, <4>1 DEF Done
      <3>. QED BY <3>3, <3>4
    <2>3. ASSUME NEW p \in Posts, ServeUndo(p), HasReceipt(p),
                 receipts' = [receipts EXCEPT ![post[p].op].undone = TRUE],
                 NEW op \in Posts, Done(op)'
          PROVE  receipts'[op].ids = post'[op].ids /\ Spent(receipts[op].after)'
      <3>1. post[p].op \in Posts /\ Done(post[p].op)
        BY <2>3, ServedUndo, BulkAssumption DEF BulkAssumption, HasReceipt, Done
      <3>2. /\ Done(op) /\ receipts'[op].ids = receipts[op].ids
            /\ receipts'[op].after = receipts[op].after
        BY <2>3, <3>1, MarkedReceipt DEF Done
      <3>. QED BY <1>5, <3>2
    <2>. QED BY <2>1, <2>2, <2>3, ReceiptsStep
  <1>7. OperationsOK'
    BY <1>3, <1>4, <1>6 DEF OperationsOK, Asked
  <1>. QED BY <1>1, <1>7 DEF OperationsInv

\* A revision nobody has seen: of no row, review or command.
LEMMA UnspentIsFresh ==
    ASSUME OperationsInv, NEW v, ~Spent(v) PROVE Store!Fresh(v)
  <1>1. \A t \in Tenants, i \in Rows : saved[t][i] # v
    BY DEF OperationsInv, RefusalInv, RevisionsAreSpent
  <1>2. ASSUME NEW op \in Posts
        PROVE  /\ OperationOf(op).state = "reviewed" =>
                     \A i \in OperationOf(op).ids : OperationOf(op).revs[i] # v
               /\ OperationOf(op).state = "done" => OperationOf(op).left # v
    <2>1. CASE Done(op)
      <3>1. receipts[op].after # v
        BY <2>1 DEF OperationsInv, OperationsOK
      <3>. QED BY <2>1, <3>1 DEF OperationOf
    <2>2. CASE ~Done(op)
      <3>1. post[op].ids \subseteq Rows /\ \A i \in Rows : post[op].revs[i] # v
        BY DEF OperationsInv, RefusalInv, RevisionsAreSpent, BulkInv, Shape, PostRecord
      <3>. QED BY <2>2, <3>1 DEF OperationOf
    <2>. QED BY <2>1, <2>2
  <1>. QED BY <1>1, <1>2 DEF Store!Fresh

\* An operation is as it was, unless its review is answered or its receipt changes.
LEMMA OperationStays ==
    ASSUME NEW op \in Posts, Advances(op), receipts'[op] = receipts[op],
           Done(op) \/ ~Served(op) \/ post[op].kind \notin {"preview", "check"}
    PROVE  OperationOf(op)' = OperationOf(op)
  <1>1. Done(op)' <=> Done(op)
    BY DEF Done
  <1>2. CASE Done(op)
    BY <1>1, <1>2 DEF OperationOf
  <1>3. CASE ~Done(op)
    <2>1. /\ ReviewMade(op)' <=> ReviewMade(op)
          /\ ReviewMade(op) => /\ post'[op].scope = post[op].scope /\ post'[op].ids = post[op].ids
                               /\ post'[op].revs = post[op].revs
      <3>1. CASE post'[op] = post[op]
        BY <3>1 DEF ReviewMade
      <3>2. CASE Made(op)
        BY <3>2 DEF Made, ReviewMade
      <3>3. CASE Moved(op)
        BY <3>3 DEF Moved, Kept, Waiting, ReviewMade
      <3>4. CASE Checked(op)
        BY <3>4 DEF Checked, Kept, Waiting, ReviewMade
      <3>5. CASE Served(op)
        BY <1>3, <3>5 DEF Served, Kept, Waiting, ReviewMade
      <3>. QED BY <3>1, <3>2, <3>3, <3>4, <3>5 DEF Advances
    <2>. QED BY <1>1, <1>3, <2>1 DEF OperationOf
  <1>. QED BY <1>2, <1>3

\* When every operation is as it was and no row changes, nothing happens.
LEMMA StoreStutters ==
    ASSUME OperationsInv, UNCHANGED saved,
           \A op \in Posts : OperationOf(op)' = OperationOf(op)
    PROVE  UNCHANGED Store!storeVars
  BY DEF Store!storeVars

\* One operation moves, the others are as they were.
LEMMA OneMoves ==
    ASSUME OperationsInv, NEW op \in Posts, NEW now, OperationOf(op)' = now,
           \A o \in Posts : o # op => OperationOf(o)' = OperationOf(o)
    PROVE  [o \in Posts |-> OperationOf(o)]' =
              [[o \in Posts |-> OperationOf(o)] EXCEPT ![op] = now]
  OBVIOUS

LEMMA StampedIsWritten ==
    ASSUME OperationsInv, NEW p \in Posts
    PROVE  Written(p) = Store!Stamped(post[p].scope, post[p].ids, p)
  BY DEF Written, Store!Stamped

\* A preview or a check that is answered is the review.
LEMMA PreviewReviews ==
    ASSUME OperationsInv, NEW p \in Posts, ServePreview(p),
           \A q \in Posts : Advances(q)
    PROVE  [Store!StoreNext]_(Store!storeVars)
  <1>. DEFINE revs == Only(saved[post[p].scope], post[p].ids)
  <1>1. /\ Waiting(post[p].stage) /\ post[p].kind \in {"preview", "check"}
        /\ UNCHANGED <<saved, receipts>> /\ Reply(p, revs, "preview") /\ BulkInv
    BY DEF ServePreview, ToServe, Waiting, OperationsInv
  <1>2. /\ post[p].scope \in Tenants /\ post[p].ids \subseteq Rows
    BY <1>1 DEF BulkInv, PostsOK, Asked, Shape, PostRecord
  <1>3. revs \in Revs
    BY <1>1, <1>2, OnlyIsRevs DEF BulkInv, Shape
  <1>4. /\ post'[p].revs = revs /\ post'[p].stage \in {"answered", "lost"}
        /\ post'[p].kind = post[p].kind /\ post'[p].ids = post[p].ids
        /\ post'[p].scope = post[p].scope
        /\ \A q \in Posts : q # p => post'[q] = post[q]
    BY <1>1, <1>3, ReplyFields DEF Waiting
  <1>5. \A op \in Posts : op # p \/ Done(op) => OperationOf(op)' = OperationOf(op)
    <2>1. \A op \in Posts : op # p => ~Served(op)
      BY <1>4 DEF Served, Waiting
    <2>. QED BY <1>1, <2>1, OperationStays
  <1>6. CASE Done(p)
    BY <1>1, <1>5, <1>6, StoreStutters
  <1>7. CASE ~Done(p)
    <2>1. OperationOf(p) = [state |-> "none"]
      BY <1>1, <1>7 DEF OperationOf, ReviewMade, Waiting
    <2>. DEFINE now == [state |-> "reviewed", tenant |-> post[p].scope, ids |-> post[p].ids,
                        revs |-> Store!Of(saved[post[p].scope], post[p].ids)]
    <2>2. revs = Store!Of(saved[post[p].scope], post[p].ids)
      BY DEF Only, Store!Of
    <2>3. OperationOf(p)' = now
      <3>1. ~Done(p)' /\ ReviewMade(p)'
        BY <1>1, <1>4, <1>7 DEF Done, ReviewMade
      <3>. QED BY <1>4, <2>2, <3>1 DEF OperationOf
    <2>4. now.state = "reviewed"
      OBVIOUS
    <2>5. [o \in Posts |-> OperationOf(o)]' = [[o \in Posts |-> OperationOf(o)] EXCEPT ![p] = now]
      BY <1>5, <2>3, OneMoves
    <2>6. Store!Review(p)
      <3>1. [o \in Posts |-> OperationOf(o)][p].state = "none"
        BY <2>1
      <3>2. \E t \in Tenants, ids \in SUBSET Rows :
               [o \in Posts |-> OperationOf(o)]' = [[o \in Posts |-> OperationOf(o)] EXCEPT ![p] =
                  [state |-> "reviewed", tenant |-> t, ids |-> ids,
                   revs |-> Store!Of(saved[t], ids)]]
        BY <1>2, <2>5, Zenon
      <3>. QED BY <1>1, <3>1, <3>2, Zenon DEF Store!Review
    <2>7. [o \in Posts |-> OperationOf(o)]'[p].state # [o \in Posts |-> OperationOf(o)][p].state
      BY <2>1, <2>3, <2>4
    <2>. QED BY <2>6, <2>7 DEF Store!StoreNext
  <1>. QED BY <1>6, <1>7

\* A command that changes rows carries the operation out.
LEMMA CommandCarriesOut ==
    ASSUME OperationsInv, NEW p \in Posts, ServeExecute(p), \A q \in Posts : Advances(q),
           ~HasReceipt(p), StillAsReviewed(p), saved' = Written(p),
           receipts' = [receipts EXCEPT ![post[p].op] =
               [tenant |-> post[p].scope, ids |-> post[p].ids, after |-> p,
                undone |-> FALSE, reviewed |-> post[p].seen,
                before |-> Only(saved[post[p].scope], post[p].ids)]]
    PROVE  Store!StoreNext
  <1>1. PICK op \in Posts : op = post[p].op
    BY ServedCommand
  <1>2. /\ post[p].scope \in Tenants /\ post[p].scope = post[op].scope
        /\ post[p].revs = post[op].revs /\ post[p].ids = post[op].ids
        /\ ReviewMade(op) /\ Asked(op) /\ ~Spent(p) /\ post[p].kind = "execute"
        /\ \A q \in Posts : q # p => post'[q] = post[q]
    BY <1>1, ServedCommand DEF ServeExecute, ToServe
  <1>3. ~Done(op)
    <2>1. Done(op) => receipts[op].tenant = post[op].scope
      BY DEF OperationsInv, RefusalInv
    <2>. QED BY <1>1, <1>2, <2>1 DEF HasReceipt
  <1>4. /\ \A o \in Posts : o # op => receipts'[o] = receipts[o]
        /\ receipts'[op].tenant = post[p].scope /\ receipts'[op].ids = post[p].ids
        /\ receipts'[op].after = p /\ receipts'[op].undone = FALSE
    BY <1>1 DEF OperationsInv, BulkInv, ReceiptsOK
  <1>5. OperationOf(op) = [state |-> "reviewed", tenant |-> post[p].scope, ids |-> post[p].ids,
                           revs |-> post[p].revs]
    BY <1>2, <1>3 DEF OperationOf
  <1>. DEFINE now == [state |-> "done", tenant |-> post[p].scope, ids |-> post[p].ids, left |-> p]
  <1>6. OperationOf(op)' = now
    <2>1. Done(op)'
      BY <1>2, <1>4, BulkAssumption DEF Done, BulkAssumption
    <2>. QED BY <1>4, <2>1 DEF OperationOf
  <1>7. \A o \in Posts : o # op => OperationOf(o)' = OperationOf(o)
    <2>1. \A o \in Posts : ~Served(o) \/ post[o].kind \notin {"preview", "check"}
      BY <1>2 DEF Served, Waiting
    <2>. QED BY <1>4, <2>1, OperationStays
  <1>8. [o \in Posts |-> OperationOf(o)]' = [[o \in Posts |-> OperationOf(o)] EXCEPT ![op] = now]
    BY <1>6, <1>7, OneMoves
  <1>9. /\ saved' = Store!Stamped(post[p].scope, post[p].ids, p) /\ Store!Fresh(p)
        /\ p \in Writers
    BY <1>2, StampedIsWritten, UnspentIsFresh, BulkAssumption DEF BulkAssumption, Posts, Writers
  <1>10. Store!Of(saved[post[p].scope], post[p].ids) = post[p].revs
    BY DEF StillAsReviewed, Only, Store!Of
  <1>11. now.state = "done"
    OBVIOUS
  <1>12. Store!CarryOut(op)
    <2>1. PICK o : o = [r \in Posts |-> OperationOf(r)][op]
      OBVIOUS
    <2>2. /\ o.state = "reviewed" /\ o.tenant = post[p].scope /\ o.ids = post[p].ids
          /\ o.revs = post[p].revs
      BY <1>5, <2>1
    <2>3. \E v \in Writers :
             /\ saved' = Store!Stamped(o.tenant, o.ids, v) /\ Store!Fresh(v)
             /\ [r \in Posts |-> OperationOf(r)]' = [[r \in Posts |-> OperationOf(r)] EXCEPT ![op] =
                   [state |-> "done", tenant |-> o.tenant, ids |-> o.ids, left |-> v]]
      BY <1>8, <1>9, <2>2, Zenon
    <2>4. Store!Of(saved[o.tenant], o.ids) = o.revs
      BY <1>10, <2>2
    <2>. QED BY <2>1, <2>2, <2>3, <2>4, Zenon DEF Store!CarryOut
  <1>13. [o \in Posts |-> OperationOf(o)]'[op].state # [o \in Posts |-> OperationOf(o)][op].state
    BY <1>5, <1>6, <1>11
  <1>. QED BY <1>12, <1>13 DEF Store!StoreNext

\* An undo that changes rows takes the operation back.
LEMMA UndoTakesBack ==
    ASSUME OperationsInv, NEW p \in Posts, ServeUndo(p), \A q \in Posts : Advances(q),
           HasReceipt(p), ~receipts[post[p].op].undone, Untouched(p), saved' = Written(p),
           receipts' = [receipts EXCEPT ![post[p].op].undone = TRUE]
    PROVE  Store!StoreNext
  <1>1. PICK op \in Posts : op = post[p].op
    BY ServedUndo
  <1>2. /\ post[p].scope \in Tenants /\ post[p].ids = post[op].ids
        /\ ~Spent(p) /\ post[p].kind = "undo"
        /\ \A q \in Posts : q # p => post'[q] = post[q]
    BY <1>1, ServedUndo
  <1>3. Done(op) /\ receipts[op].tenant = post[p].scope /\ receipts[op].ids = post[p].ids
    <2>1. Done(op) /\ receipts[op].tenant = post[p].scope
      BY <1>1, <1>2, BulkAssumption DEF BulkAssumption, HasReceipt, Done
    <2>. QED BY <1>2, <2>1 DEF OperationsInv, OperationsOK
  <1>4. /\ \A o \in Posts : o # op => receipts'[o] = receipts[o]
        /\ receipts'[op].tenant = receipts[op].tenant /\ receipts'[op].undone = TRUE
    BY <1>1, <1>3, MarkedReceipt
  <1>5. OperationOf(op) = [state |-> "done", tenant |-> post[p].scope, ids |-> post[p].ids,
                           left |-> receipts[op].after]
    BY <1>1, <1>3 DEF OperationOf
  <1>. DEFINE now == [state |-> "undone"]
  <1>6. OperationOf(op)' = now
    BY <1>3, <1>4 DEF OperationOf, Done
  <1>7. \A o \in Posts : o # op => OperationOf(o)' = OperationOf(o)
    <2>1. \A o \in Posts : ~Served(o) \/ post[o].kind \notin {"preview", "check"}
      BY <1>2 DEF Served, Waiting
    <2>. QED BY <1>4, <2>1, OperationStays
  <1>8. [o \in Posts |-> OperationOf(o)]' = [[o \in Posts |-> OperationOf(o)] EXCEPT ![op] = now]
    BY <1>6, <1>7, OneMoves
  <1>9. /\ saved' = Store!Stamped(post[p].scope, post[p].ids, p) /\ Store!Fresh(p)
        /\ p \in Writers
    BY <1>2, StampedIsWritten, UnspentIsFresh, BulkAssumption DEF BulkAssumption, Posts, Writers
  <1>10. \A i \in post[p].ids : saved[post[p].scope][i] = receipts[op].after
    BY <1>1, <1>3 DEF Untouched
  <1>11. now.state = "undone"
    OBVIOUS
  <1>12. Store!TakeBack(op)
    BY <1>5, <1>8, <1>9, <1>10 DEF Store!TakeBack
  <1>13. [o \in Posts |-> OperationOf(o)]'[op].state # [o \in Posts |-> OperationOf(o)][op].state
    BY <1>5, <1>6, <1>11
  <1>. QED BY <1>12, <1>13 DEF Store!StoreNext

\* Another user's edit brings a fresh revision too.
LEMMA PeerEditsRow ==
    ASSUME OperationsInv, PeerEdits PROVE Store!StoreNext
  <1>1. PICK v : v = MaxPosts + edits'
    OBVIOUS
  <1>2. /\ edits' = edits + 1 /\ edits \in 0..MaxEdits /\ edits < MaxEdits
        /\ UNCHANGED <<receipts, post>> /\ saved \in [Tenants -> Revs]
    BY DEF PeerEdits, OperationsInv, BulkInv, Shape
  <1>3. v \in Writers /\ ~Spent(v)
    BY <1>1, <1>2, BulkAssumption DEF BulkAssumption, Writers, Posts, Spent
  <1>4. PICK t \in Tenants, i \in Rows : saved' = [saved EXCEPT ![t][i] = v]
    BY <1>1 DEF PeerEdits
  <1>5. saved' = Store!Stamped(t, {i}, v)
    BY <1>2, <1>4 DEF Store!Stamped, Revs
  <1>6. Store!Fresh(v)
    BY <1>3, UnspentIsFresh
  <1>7. saved'[t][i] # saved[t][i]
    BY <1>2, <1>4, <1>6 DEF Store!Fresh, Revs
  <1>8. \A op \in Posts : OperationOf(op)' = OperationOf(op)
    BY <1>2 DEF OperationOf, Done, ReviewMade
  <1>9. Store!Edit(t, i)
    BY <1>3, <1>5, <1>6, <1>8 DEF Store!Edit
  <1>. QED BY <1>7, <1>9 DEF Store!StoreNext

\* Only the handler answers a request.
LEMMA TabAnswersNothing ==
    ASSUME OperationsInv,
           \/ Reload
           \/ \E p \in Posts :
                 \/ \E ids \in Selections : RequestPreview(p, ids)
                 \/ Confirm(p) \/ ArchiveRow(p) \/ Revert(p)
                 \/ PreviewArrives(p) \/ CheckArrives(p) \/ ExecuteArrives(p) \/ UndoArrives(p)
                 \/ Disconnect(p),
           NEW q \in Posts
    PROVE  ~Served(q)
  <1>1. post \in [Posts -> PostRecord]
    BY DEF OperationsInv, BulkInv, Shape
  <1>2. CASE Reload
    BY <1>1, <1>2 DEF Reload, Forgotten, PostRecord, Served, Waiting
  <1>3. ASSUME NEW p \in Posts,
               \/ \E ids \in Selections : RequestPreview(p, ids)
               \/ Confirm(p) \/ ArchiveRow(p) \/ Revert(p)
        PROVE  ~Served(q)
    <2>1. CanPost(p) /\ \E record : post' = [post EXCEPT ![p] = record]
      BY <1>3 DEF RequestPreview, Confirm, ArchiveRow, Execute, SendReviewed, SendCheck, Revert
    <2>2. q # p => post'[q] = post[q]
      BY <1>1, <2>1
    <2>3. post[p].stage = "free"
      BY <2>1 DEF CanPost
    <2>. QED BY <2>2, <2>3 DEF Served, Waiting
  <1>4. ASSUME NEW p \in Posts,
               PreviewArrives(p) \/ CheckArrives(p) \/ ExecuteArrives(p) \/ UndoArrives(p)
        PROVE  ~Served(q)
    <2>1. post[p].stage = "answered" /\ \E record : post' = [post EXCEPT ![p] = record]
      <3>1. post[p].stage = "answered"
        BY <1>4 DEF PreviewArrives, CheckArrives, ExecuteArrives, UndoArrives
      <3>2. Handled(p) = [post EXCEPT ![p] = [post[p] EXCEPT !.stage = "over"]]
        BY <1>1 DEF Handled, PostRecord
      <3>3. [post EXCEPT ![p].kind = "execute", ![p].stage = "sent"] =
               [post EXCEPT ![p] = [post[p] EXCEPT !.kind = "execute", !.stage = "sent"]]
        BY <1>1 DEF PostRecord
      <3>. QED BY <1>4, <3>1, <3>2, <3>3 DEF PreviewArrives, CheckArrives, ExecuteArrives,
              UndoArrives
    <2>2. q # p => post'[q] = post[q]
      BY <1>1, <2>1
    <2>. QED BY <2>1, <2>2 DEF Served, Waiting
  <1>5. ASSUME NEW p \in Posts, Disconnect(p) PROVE ~Served(q)
    <2>1. /\ post[p].stage \in {"sent", "answered"}
          /\ post' = [post EXCEPT ![p] = Forgotten(p)]
      BY <1>5 DEF Disconnect, InFlight
    <2>2. Waiting(post[p].stage) => Waiting(Forgotten(p).stage)
      BY <1>1, <2>1 DEF Forgotten, PostRecord, Waiting
    <2>3. /\ post'[p] = Forgotten(p) /\ \A r \in Posts : r # p => post'[r] = post[r]
      BY <1>1, <2>1
    <2>. QED BY <2>2, <2>3 DEF Served, Waiting
  <1>. QED BY <1>2, <1>3, <1>4, <1>5

LEMMA BulkStepsStore ==
    OperationsInv /\ [BulkNext]_bulkVars => [Store!StoreNext]_(Store!storeVars)
  <1>. SUFFICES ASSUME OperationsInv, [BulkNext]_bulkVars
                PROVE  [Store!StoreNext]_(Store!storeVars)
    OBVIOUS
  <1>1. \A q \in Posts : Advances(q)
    BY StepAdvances
  <1>2. CASE PeerEdits
    BY <1>2, PeerEditsRow
  <1>3. ASSUME NEW p \in Posts, ServePreview(p) PROVE [Store!StoreNext]_(Store!storeVars)
    BY <1>1, <1>3, PreviewReviews
  <1>4. CASE /\ UNCHANGED <<saved, receipts>>
             /\ \A op \in Posts : ~Served(op) \/ post[op].kind \notin {"preview", "check"}
    BY <1>1, <1>4, OperationStays, StoreStutters
  <1>5. ASSUME NEW p \in Posts, ServeExecute(p) PROVE [Store!StoreNext]_(Store!storeVars)
    <2>1. /\ post[p].kind = "execute" /\ \A q \in Posts : q # p => post'[q] = post[q]
      BY <1>5, ServedCommand DEF ServeExecute, ToServe
    <2>2. \A op \in Posts : ~Served(op) \/ post[op].kind \notin {"preview", "check"}
      BY <2>1 DEF Served, Waiting
    <2>3. CASE UNCHANGED <<saved, receipts>>
      BY <1>4, <2>2, <2>3
    <2>4. CASE ~UNCHANGED <<saved, receipts>>
      <3>1. /\ ~HasReceipt(p) /\ StillAsReviewed(p) /\ saved' = Written(p)
            /\ receipts' = [receipts EXCEPT ![post[p].op] =
                  [tenant |-> post[p].scope, ids |-> post[p].ids, after |-> p,
                   undone |-> FALSE, reviewed |-> post[p].seen,
                   before |-> Only(saved[post[p].scope], post[p].ids)]]
        BY <1>5, <2>4 DEF ServeExecute
      <3>. QED BY <1>1, <1>5, <3>1, CommandCarriesOut
    <2>. QED BY <2>3, <2>4
  <1>6. ASSUME NEW p \in Posts, ServeUndo(p) PROVE [Store!StoreNext]_(Store!storeVars)
    <2>1. /\ post[p].kind = "undo" /\ \A q \in Posts : q # p => post'[q] = post[q]
      BY <1>6, ServedUndo
    <2>2. \A op \in Posts : ~Served(op) \/ post[op].kind \notin {"preview", "check"}
      BY <2>1 DEF Served, Waiting
    <2>3. CASE UNCHANGED <<saved, receipts>>
      BY <1>4, <2>2, <2>3
    <2>4. CASE ~UNCHANGED <<saved, receipts>>
      <3>1. /\ HasReceipt(p) /\ ~receipts[post[p].op].undone /\ Untouched(p)
            /\ saved' = Written(p)
            /\ receipts' = [receipts EXCEPT ![post[p].op].undone = TRUE]
        BY <1>6, <2>4 DEF ServeUndo
      <3>. QED BY <1>1, <1>6, <3>1, UndoTakesBack
    <2>. QED BY <2>3, <2>4
  \* The steps of the tab.
  <1>7. ASSUME NEW p \in Posts,
               \/ \E ids \in Selections : RequestPreview(p, ids)
               \/ Confirm(p) \/ ArchiveRow(p) \/ Revert(p)
               \/ PreviewArrives(p) \/ CheckArrives(p) \/ ExecuteArrives(p) \/ UndoArrives(p)
               \/ Disconnect(p)
        PROVE  [Store!StoreNext]_(Store!storeVars)
    <2>1. UNCHANGED <<saved, receipts>>
      BY <1>7 DEF RequestPreview, Confirm, ArchiveRow, Execute, Revert, PreviewArrives,
         CheckArrives, ExecuteArrives, UndoArrives, Disconnect
    <2>2. ~\E q \in Posts : Served(q)
      BY <1>7, TabAnswersNothing
    <2>. QED BY <1>4, <2>1, <2>2
  <1>8. CASE Reload
    <2>1. UNCHANGED <<saved, receipts>> /\ ~\E q \in Posts : Served(q)
      BY <1>8, TabAnswersNothing DEF Reload
    <2>. QED BY <1>4, <2>1
  <1>9. CASE \/ UNCHANGED bulkVars \/ Dismiss
             \/ (\E t \in Tenants : BeginSwitch(t)) \/ ConfirmSwitch \/ FailSwitch
    <2>1. UNCHANGED <<saved, receipts, post>>
      BY <1>9 DEF bulkVars, Dismiss, BeginSwitch, ConfirmSwitch, FailSwitch
    <2>2. ~\E q \in Posts : Served(q)
      BY <2>1 DEF Served, Waiting
    <2>. QED BY <1>4, <2>1, <2>2
  <1>. QED BY <1>2, <1>3, <1>5, <1>6, <1>7, <1>8, <1>9 DEF BulkNext

\* Beside every editor, and whatever is sent twice, lost or late, the rows change as
\* ReviewedStore says: a bulk operation writes what was reviewed, once, and its undo
\* takes back what it wrote, once (service_bulk.py with serviceBulk.ts).
THEOREM RowsAreReviewed == BulkSpec => ImplementsReviewedStore
  <1>1. BulkInit => OperationsInv
    BY OperationsInitInv
  <1>2. OperationsInv /\ [BulkNext]_bulkVars => OperationsInv'
    BY OperationsNextInv
  <1>3. BulkInit => Store!StoreInit
    <2>. SUFFICES ASSUME BulkInit PROVE Store!StoreInit
      OBVIOUS
    <2>1. saved = [t \in Tenants |-> [i \in Rows |-> 0]]
      BY DEF BulkInit, NoRevs
    <2>2. \A op \in Posts : OperationOf(op) = [state |-> "none"]
      BY DEF BulkInit, OperationOf, Done, ReviewMade, FreePost
    <2>. QED BY <2>1, <2>2 DEF Store!StoreInit
  <1>4. OperationsInv /\ [BulkNext]_bulkVars => [Store!StoreNext]_(Store!storeVars)
    BY BulkStepsStore
  <1>. QED BY <1>1, <1>2, <1>3, <1>4, PTL DEF BulkSpec, ImplementsReviewedStore, Store!StoreSpec
=============================================================================
