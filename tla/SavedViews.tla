----------------------------- MODULE SavedViews -----------------------------
(***************************************************************************)
(* The saved views of a workspace: a browser keeps local views in its      *)
(* storage and moves them to the server once (frontend/src/components/     *)
(* shared/CollaborativeWorkspaceViews.ts with the handlers of              *)
(* backend/app/api/workspaces.py).  The tabs share the storage; each lists *)
(* the views again when it is reloaded or its preferences arrive           *)
(* (migrationReady), and answers come late or never.                       *)
(*                                                                         *)
(* A personal view is its name, which is unique on the server; revisions   *)
(* and team views are left out.  A tab reads the marker and writes it in   *)
(* one turn of its event loop; that no other tab writes in between is      *)
(* assumed of the browser, whose storage has no lock.                      *)
(***************************************************************************)
EXTENDS Integers

CONSTANTS
    Tabs, Names,
    MaxHydrations,    \* listings the tabs ask for
    MaxSaves          \* views the users save by hand

ASSUME ViewsAssumption ==
    /\ MaxHydrations \in Nat /\ MaxSaves \in Nat
    /\ "none" \notin Tabs \cup Names    \* stands for no tab and no view

Hydrations == 1..MaxHydrations
Saves == 1..MaxSaves

VARIABLES
    marker,      \* localStorage[migrationKey]
    stored,      \* localStorage: the local views of the list written last
    rows,        \* workspace_saved_views
    list,        \* tab -> its local views, newest hydration and the listing shown
    hydration,   \* the hydrations, in the order they are asked for
    save         \* the saves by hand; "from" is the local view to be replaced, if any

viewsVars == <<marker, stored, rows, list, hydration, save>>

ViewsInit ==
    /\ marker = "none"
    /\ stored \in SUBSET Names
    /\ rows \in SUBSET Names
    /\ list = [t \in Tabs |-> [local |-> {}, newest |-> 0, shown |-> 0]]
    /\ hydration = [h \in Hydrations |-> [stage |-> "free", tab |-> "none", ready |-> FALSE,
                       heard |-> {}, todo |-> {}, sent |-> {}, at |-> "none"]]
    /\ save = [s \in Saves |-> [stage |-> "free", tab |-> "none", name |-> "none",
                              from |-> "none"]]

\* Seeded fault: an older hydration is not told from the newest.
EveryIsNewest(h) == TRUE

\* isCurrentHydration
IsNewest(h) == list[hydration[h].tab].newest = h

\* The list is written to the storage whenever it changes.
Shows(t, local) == /\ list' = [list EXCEPT ![t].local = local]
                   /\ stored' = local

\* A request that is over is forgotten; "sent" observes, "tab" and "ready" belong to the tab.
Over(h) ==
    hydration' = [hydration EXCEPT ![h].stage = "over", ![h].heard = {}, ![h].todo = {},
                                   ![h].at = "none"]
OverSave == [stage |-> "over", tab |-> "none", name |-> "none", from |-> "none"]

\* Nobody awaits the answer any more; what was sent can still reach the server.
Lost(h) == hydration' = [hydration EXCEPT ![h].stage = "lost", ![h].heard = {}, ![h].todo = {}]
Abandoned(r) == IF r.stage = "sent" THEN [OverSave EXCEPT !.stage = "lost", !.name = r.name]
                ELSE OverSave

-----------------------------------------------------------------------------
(* Hydration. *)

Hydrate(t, h, ready, local) ==
    /\ hydration[h].stage = "free" /\ \A g \in Hydrations : g < h => hydration[g].stage # "free"
    /\ hydration' = [hydration EXCEPT ![h].stage = "asked", ![h].tab = t, ![h].ready = ready]
    /\ list' = [list EXCEPT ![t].newest = h, ![t].local = local]
    /\ UNCHANGED <<marker, stored, rows>>

\* The page is opened or reloaded.
Load(t, h) ==
    /\ \E ready \in BOOLEAN : Hydrate(t, h, ready, stored)
    /\ save' = [s \in Saves |-> IF save[s].tab = t THEN Abandoned(save[s]) ELSE save[s]]

\* migrationReady turns true.
PreferencesArrive(t, h) ==
    /\ list[t].newest # 0 /\ ~hydration[list[t].newest].ready
    /\ Hydrate(t, h, TRUE, list[t].local)
    /\ UNCHANGED save

ServeList(h) ==
    /\ hydration[h].stage = "asked"
    /\ hydration' = [hydration EXCEPT ![h].stage = "told", ![h].heard = rows]
    /\ UNCHANGED <<marker, stored, rows, list, save>>

\* mergeCollaborativeViews: the server's views replace local views of their names.
Merged(h, names) ==
    LET t == hydration[h].tab IN
    /\ list' = [list EXCEPT ![t].local = @ \ names, ![t].shown = h]
    /\ stored' = list[t].local \ names

Candidates(h) == list[hydration[h].tab].local \ hydration[h].heard

\* Seeded fault: the marker is written when the creates are done, not before.
StartsUnmarked(h) == marker = "none" /\ hydration[h].ready /\ UNCHANGED marker

\* The migration was never started; "pending" is written before the first create.
Starts(h) == marker = "none" /\ hydration[h].ready /\ marker' = "pending"

PostNext(h, todo) ==
    \E n \in todo : hydration' = [hydration EXCEPT ![h].stage = "posting", ![h].at = n,
                                     ![h].todo = todo \ {n}, ![h].sent = @ \cup {n}]

ListArrives(h) ==
    /\ hydration[h].stage = "told"
    /\ \/ /\ ~IsNewest(h)
          /\ Over(h) /\ UNCHANGED <<marker, stored, list>>
       \/ /\ IsNewest(h)
          /\ Merged(h, hydration[h].heard)
          /\ \/ Starts(h) /\ PostNext(h, Candidates(h))
             \* Nothing to move.
             \/ /\ Candidates(h) = {} /\ marker = "none" /\ hydration[h].ready
                /\ marker' = "done" /\ Over(h)
             \* Moved or being moved already, preferences not here yet, storage blocked.
             \/ UNCHANGED marker /\ Over(h)
    /\ UNCHANGED <<rows, save>>

Insert(n) == rows' = rows \cup {n}
Verdict(n) == IF n \in rows THEN "refused" ELSE "created"

ServeCreate(h) ==
    LET n == hydration[h].at IN
    /\ hydration[h].stage \in {"posting", "lost"}
    /\ Insert(n)
    /\ \/ hydration[h].stage = "lost" /\ Over(h)
       \/ /\ hydration[h].stage = "posting"
          /\ hydration' = [hydration EXCEPT ![h].stage = Verdict(n)]
    /\ UNCHANGED <<marker, stored, list, save>>

CreateArrives(h) ==
    /\ hydration[h].stage \in {"created", "refused"}
    /\ \/ /\ hydration[h].stage = "refused" \/ ~IsNewest(h)
          /\ Over(h) /\ UNCHANGED <<marker, stored, list>>
       \/ /\ hydration[h].stage = "created" /\ IsNewest(h)
          /\ PostNext(h, hydration[h].todo)
          /\ UNCHANGED <<marker, stored, list>>
       \/ /\ hydration[h].stage = "created" /\ IsNewest(h) /\ hydration[h].todo = {}
          /\ marker' \in {"done", marker}
          /\ Merged(h, hydration[h].heard \cup hydration[h].sent)
          /\ Over(h)
    /\ UNCHANGED <<rows, save>>

\* The connection fails; a create may have reached the server.
HydrationFails(h) ==
    /\ \/ hydration[h].stage \in {"asked", "told", "created", "refused"} /\ Over(h)
       \/ hydration[h].stage = "posting" /\ Lost(h)
    /\ UNCHANGED <<marker, stored, rows, list, save>>

-----------------------------------------------------------------------------
(* What users do. *)

\* createView, or updateView of a local view, perhaps under another name.
AskSave(t, s, n, from) ==
    /\ list[t].newest # 0 /\ from \in list[t].local \cup {"none"}
    /\ save[s].stage = "free" /\ \A r \in Saves : r < s => save[r].stage # "free"
    /\ save' = [save EXCEPT ![s] = [stage |-> "sent", tab |-> t, name |-> n, from |-> from]]
    /\ UNCHANGED <<marker, stored, rows, list, hydration>>

ServeSave(s) ==
    /\ save[s].stage \in {"sent", "lost"}
    /\ Insert(save[s].name)
    /\ save' = [save EXCEPT ![s] = IF @.stage = "lost" THEN OverSave
                                  ELSE [@ EXCEPT !.stage = Verdict(save[s].name)]]
    /\ UNCHANGED <<marker, stored, list, hydration>>

SaveArrives(s) ==
    LET t == save[s].tab IN
    /\ save[s].stage \in {"created", "refused"}
    /\ save' = [save EXCEPT ![s] = OverSave]
    /\ \/ save[s].stage = "created" /\ Shows(t, list[t].local \ {save[s].from})
       \/ save[s].stage = "refused" /\ UNCHANGED <<stored, list>>
    /\ UNCHANGED <<marker, rows, hydration>>

\* A new view joins the others; an update finds the view it replaces, or nothing.
KeptLocally(s, local) ==
    IF save[s].from \in local \cup {"none"} THEN (local \ {save[s].from}) \cup {save[s].name}
    ELSE local

\* Offline: the view is kept as a local one.
SaveFails(s) ==
    LET t == save[s].tab IN
    /\ save[s].stage \in {"sent", "created", "refused"}
    /\ save' = [save EXCEPT ![s] = Abandoned(@)]
    /\ Shows(t, KeptLocally(s, list[t].local))
    /\ UNCHANGED <<marker, rows, hydration>>

\* deleteView of a local view.
DropLocal(t, n) ==
    /\ n \in list[t].local
    /\ Shows(t, list[t].local \ {n})
    /\ UNCHANGED <<marker, rows, hydration, save>>

\* Here or in another browser.
RowDeleted(n) ==
    /\ n \in rows
    /\ rows' = rows \ {n}
    /\ UNCHANGED <<marker, stored, list, hydration, save>>

ViewsNext ==
    \/ \E t \in Tabs :
        \/ \E h \in Hydrations : Load(t, h) \/ PreferencesArrive(t, h)
        \/ \E n \in Names : \/ DropLocal(t, n)
                           \/ \E s \in Saves, from \in Names \cup {"none"} : AskSave(t, s, n, from)
    \/ \E h \in Hydrations : \/ ServeList(h) \/ ListArrives(h) \/ ServeCreate(h)
                             \/ CreateArrives(h) \/ HydrationFails(h)
    \/ \E s \in Saves : ServeSave(s) \/ SaveArrives(s) \/ SaveFails(s)
    \/ \E n \in Names : RowDeleted(n)

ViewsSpec == ViewsInit /\ [][ViewsNext]_viewsVars

-----------------------------------------------------------------------------

ViewsTypeOK ==
    /\ marker \in {"none", "pending", "done"}
    /\ stored \subseteq Names /\ rows \subseteq Names
    /\ list \in [Tabs -> [local : SUBSET Names, newest : 0..MaxHydrations,
                          shown : 0..MaxHydrations]]
    /\ \A h \in Hydrations :
        /\ hydration[h].stage \in {"free", "asked", "told", "posting", "created", "refused",
                                   "lost", "over"}
        /\ hydration[h].heard \subseteq Names /\ hydration[h].todo \subseteq Names
        /\ hydration[h].sent \subseteq Names
    /\ \A s \in Saves : save[s].stage \in {"free", "sent", "created", "refused", "lost", "over"}

\* A local view is moved to the server at most once, in whatever tab and however
\* often it is loaded: a view deleted on the server is not brought back by it.
MovedAtMostOnce ==
    \A g, h \in Hydrations : hydration[g].sent \cap hydration[h].sent # {} => g = h

\* A tab never goes back from a listing to one it asked for earlier.
ListingsInOrder == [][\A t \in Tabs : list'[t].shown >= list[t].shown]_viewsVars
=============================================================================
