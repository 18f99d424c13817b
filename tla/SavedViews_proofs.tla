-------------------------- MODULE SavedViews_proofs --------------------------
(***************************************************************************)
(* For every number of tabs, views and hydrations: a local view is moved   *)
(* to the server once, and a tab never goes back to an older listing.      *)
(*                                                                         *)
(* The inductive invariant says that one hydration at most ever sent a     *)
(* create, and only after the shared marker was written; and that the      *)
(* hydrations are numbered in the order in which they are asked for, so    *)
(* that the newest of a tab is ahead of what the tab shows.                *)
(***************************************************************************)
EXTENDS SavedViews, TLAPS

Stages == {"free", "asked", "told", "posting", "created", "refused", "lost", "over"}
Busy == {"posting", "created", "refused"}

ListShape == [Tabs -> [local : SUBSET Names, newest : 0..MaxHydrations, shown : 0..MaxHydrations]]
HydrationShape ==
    [Hydrations -> [stage : Stages, tab : Tabs \cup {"none"}, ready : BOOLEAN,
                    heard : SUBSET Names, todo : SUBSET Names, sent : SUBSET Names,
                    at : Names \cup {"none"}]]
OneSave == [stage : {"free", "sent", "created", "refused", "lost", "over"},
            tab : Tabs \cup {"none"}, name : Names \cup {"none"}, from : Names \cup {"none"}]
SaveShape == [Saves -> OneSave]

ViewsShape ==
    /\ marker \in {"none", "pending", "done"}
    /\ stored \subseteq Names /\ rows \subseteq Names
    /\ list \in ListShape
    /\ hydration \in HydrationShape
    /\ save \in SaveShape

\* A save that a tab waits for is that tab's, and one that can reach the server names a view.
Named(r) == /\ IF r.stage \in {"sent", "created", "refused"} THEN r.tab \in Tabs ELSE r.tab = "none"
            /\ r.stage \notin {"free", "over"} => r.name \in Names
SavesNamed == \A s \in Saves : Named(save[s])

\* A request that was made belongs to a tab and names a view.
Requested ==
    /\ \A h \in Hydrations :
          /\ hydration[h].stage # "free" => hydration[h].tab \in Tabs
          /\ hydration[h].stage \in {"posting", "lost"} => hydration[h].at \in Names
    /\ SavesNamed

\* The hydration that moves the views, if there is one.
OneMover == /\ \A h \in Hydrations : hydration[h].sent # {} => marker # "none"
            /\ \A h \in Hydrations : hydration[h].stage \in Busy => hydration[h].sent # {}
            /\ \A g, h \in Hydrations : hydration[g].sent # {} /\ hydration[h].sent # {} => g = h

\* Hydrations are asked for in their order, and a tab shows none after its newest.
InOrder == /\ \A g, h \in Hydrations :
                g < h /\ hydration[h].stage # "free" => hydration[g].stage # "free"
           /\ \A t \in Tabs :
                /\ list[t].newest # 0 => hydration[list[t].newest].stage # "free"
                /\ list[t].shown <= list[t].newest

ViewsInv == ViewsShape /\ Requested /\ OneMover /\ InOrder

-----------------------------------------------------------------------------

LEMMA ViewsInitInv == ViewsInit => ViewsInv
  <1>. SUFFICES ASSUME ViewsInit PROVE ViewsInv
    OBVIOUS
  <1>1. 0 \in 0..MaxHydrations
    BY ViewsAssumption DEF ViewsAssumption
  <1>2. list \in ListShape
    BY <1>1 DEF ViewsInit, ListShape
  <1>3. hydration \in HydrationShape
    BY DEF ViewsInit, HydrationShape, Stages
  <1>4. save \in SaveShape
    BY DEF ViewsInit, SaveShape, OneSave
  <1>5. \A h \in Hydrations : hydration[h].stage = "free" /\ hydration[h].sent = {}
    BY DEF ViewsInit
  <1>6. \A s \in Saves : save[s].stage = "free" /\ save[s].tab = "none"
    BY DEF ViewsInit
  <1>7. \A t \in Tabs : list[t].newest = 0 /\ list[t].shown = 0
    BY DEF ViewsInit
  <1>. QED BY <1>2, <1>3, <1>4, <1>5, <1>6, <1>7
       DEF ViewsInv, ViewsShape, Requested, SavesNamed, Named, OneMover, InOrder, ViewsInit, Busy

\* A step of one hydration that was asked for: it sends a create only once the
\* marker is written, and shows the listing of a newest hydration only.
LEMMA HydrationStep ==
    ASSUME ViewsInv, NEW h \in Hydrations, hydration[h].stage # "free",
           hydration' \in HydrationShape,
           \A g \in Hydrations : g # h => hydration'[g] = hydration[g],
           hydration'[h].stage # "free", hydration'[h].tab = hydration[h].tab,
           hydration'[h].stage \in {"posting", "lost"} => hydration'[h].at \in Names,
           hydration'[h].stage \in Busy => hydration'[h].sent # {},
           \/ hydration'[h].sent = hydration[h].sent
           \/ (hydration[h].sent # {} \/ marker = "none") /\ marker' # "none",
           marker' \in {"none", "pending", "done"}, marker # "none" => marker' # "none",
           list' \in ListShape,
           \A t \in Tabs : /\ list'[t].newest = list[t].newest
                           /\ list'[t].shown \in {list[t].shown, list[t].newest},
           stored' \subseteq Names, rows' \subseteq Names, UNCHANGED save
    PROVE  ViewsInv'
  <1>1. ViewsShape'
    BY DEF ViewsInv, ViewsShape
  <1>2. Requested'
    BY DEF ViewsInv, Requested, SavesNamed
  <1>3. OneMover'
    BY DEF ViewsInv, OneMover
  <1>4. InOrder'
    <2>1. \A g \in Hydrations : hydration'[g].stage # "free" <=> hydration[g].stage # "free"
      OBVIOUS
    <2>2. \A t \in Tabs : /\ list[t].newest # 0 => list[t].newest \in Hydrations
                          /\ list'[t].shown <= list'[t].newest
      BY ViewsAssumption DEF ViewsAssumption, ViewsInv, ViewsShape, ListShape, InOrder, Hydrations
    <2>. QED BY <2>1, <2>2 DEF ViewsInv, InOrder
  <1>. QED BY <1>1, <1>2, <1>3, <1>4 DEF ViewsInv

\* A step that leaves the hydrations, the marker and the listings alone.
LEMMA SaveStep ==
    ASSUME ViewsInv, UNCHANGED <<marker, hydration>>,
           list' \in ListShape,
           \A t \in Tabs : list'[t].newest = list[t].newest /\ list'[t].shown = list[t].shown,
           stored' \subseteq Names, rows' \subseteq Names, save' \in SaveShape,
           SavesNamed'
    PROVE  ViewsInv'
  BY DEF ViewsInv, ViewsShape, Requested, SavesNamed, OneMover, InOrder

-----------------------------------------------------------------------------
(* Hydration. *)

\* The hydrations before a free one are those that were asked for.
LEMMA NewestIsBefore ==
    ASSUME ViewsInv, NEW h \in Hydrations, hydration[h].stage = "free", NEW t \in Tabs
    PROVE  list[t].newest < h /\ list[t].shown < h
  <1>1. list[t].newest \in Int /\ list[t].shown \in Int /\ h \in Int /\ h > 0
    BY ViewsAssumption DEF ViewsAssumption, ViewsInv, ViewsShape, ListShape, Hydrations
  <1>2. list[t].shown <= list[t].newest
    BY DEF ViewsInv, InOrder
  <1>3. CASE list[t].newest = 0
    BY <1>1, <1>2, <1>3
  <1>4. CASE list[t].newest # 0
    <2>1. list[t].newest \in Hydrations /\ hydration[list[t].newest].stage # "free"
      BY <1>4, ViewsAssumption DEF ViewsAssumption, ViewsInv, ViewsShape, ListShape, InOrder, Hydrations
    <2>2. ~(h < list[t].newest) /\ list[t].newest # h
      BY <2>1 DEF ViewsInv, InOrder
    <2>. QED BY <1>1, <1>2, <2>2
  <1>. QED BY <1>3, <1>4

LEMMA HydrateInv ==
    ASSUME ViewsInv, NEW t \in Tabs, NEW h \in Hydrations, NEW ready \in BOOLEAN,
           NEW local \in SUBSET Names, Hydrate(t, h, ready, local), save' \in SaveShape,
           SavesNamed'
    PROVE  ViewsInv'
  <1>1. /\ hydration[h].stage = "free"
        /\ \A g \in Hydrations : g < h => hydration[g].stage # "free"
        /\ UNCHANGED <<marker, stored, rows>>
    BY DEF Hydrate
  <1>2. /\ hydration' \in HydrationShape
        /\ \A g \in Hydrations :
              /\ hydration'[g].stage = IF g = h THEN "asked" ELSE hydration[g].stage
              /\ hydration'[g].tab = IF g = h THEN t ELSE hydration[g].tab
              /\ hydration'[g].at = hydration[g].at /\ hydration'[g].sent = hydration[g].sent
    <2>. DEFINE asked == [hydration[h] EXCEPT !.stage = "asked", !.tab = t, !.ready = ready]
    <2>1. hydration \in HydrationShape
      BY DEF ViewsInv, ViewsShape
    <2>2. hydration' = [hydration EXCEPT ![h] = asked]
      BY <2>1 DEF Hydrate, HydrationShape
    <2>3. /\ asked \in [stage : Stages, tab : Tabs \cup {"none"}, ready : BOOLEAN,
                        heard : SUBSET Names, todo : SUBSET Names, sent : SUBSET Names,
                        at : Names \cup {"none"}]
          /\ asked.stage = "asked" /\ asked.tab = t
          /\ asked.at = hydration[h].at /\ asked.sent = hydration[h].sent
      BY <2>1 DEF HydrationShape, Stages
    <2>. HIDE DEF asked
    <2>. QED BY <2>1, <2>2, <2>3 DEF HydrationShape
  <1>3. h \in 0..MaxHydrations
    BY ViewsAssumption DEF ViewsAssumption, Hydrations
  <1>4. /\ list' \in ListShape
        /\ \A u \in Tabs : /\ list'[u].newest = IF u = t THEN h ELSE list[u].newest
                           /\ list'[u].shown = list[u].shown
    BY <1>3 DEF Hydrate, ViewsInv, ViewsShape, ListShape
  <1>5. ViewsShape'
    BY <1>1, <1>2, <1>4 DEF ViewsInv, ViewsShape
  <1>6. Requested'
    BY <1>2 DEF ViewsInv, Requested
  <1>7. OneMover'
    BY <1>1, <1>2 DEF ViewsInv, OneMover, Busy
  <1>8. InOrder'
    <2>1. ASSUME NEW f \in Hydrations, NEW g \in Hydrations, f < g, hydration'[g].stage # "free"
          PROVE  hydration'[f].stage # "free"
      BY <1>1, <1>2, <2>1 DEF ViewsInv, InOrder
    <2>2. ASSUME NEW u \in Tabs
          PROVE  /\ list'[u].newest # 0 => hydration'[list'[u].newest].stage # "free"
                 /\ list'[u].shown <= list'[u].newest
      <3>1. CASE u = t
        <4>1. list[t].shown < h
          BY <1>1, NewestIsBefore
        <4>2. list[t].shown \in Int /\ h \in Int
          BY ViewsAssumption DEF ViewsAssumption, ViewsInv, ViewsShape, ListShape, Hydrations
        <4>. QED BY <1>2, <1>4, <3>1, <4>1, <4>2
      <3>2. CASE u # t
        <4>1. list[u].newest # 0 => list[u].newest \in Hydrations
          BY ViewsAssumption DEF ViewsAssumption, ViewsInv, ViewsShape, ListShape, Hydrations
        <4>. QED BY <1>2, <1>4, <3>2, <4>1 DEF ViewsInv, InOrder
      <3>. QED BY <3>1, <3>2
    <2>. QED BY <2>1, <2>2 DEF InOrder
  <1>. QED BY <1>5, <1>6, <1>7, <1>8 DEF ViewsInv

\* A save that nobody waits for any more, as `Abandoned' and `OverSave' leave it.
LEMMA AbandonedSave ==
    ASSUME NEW r \in OneSave, Named(r)
    PROVE  \A q \in {OverSave, Abandoned(r)} : q \in OneSave /\ Named(q)
  <1>1. OverSave \in OneSave /\ Named(OverSave)
    BY DEF OverSave, OneSave, Named
  <1>2. CASE r.stage = "sent"
    <2>1. Abandoned(r) = [stage |-> "lost", tab |-> "none", name |-> r.name, from |-> "none"]
      BY <1>2 DEF Abandoned, OverSave
    <2>2. r.name \in Names
      BY <1>2 DEF Named
    <2>. QED BY <1>1, <2>1, <2>2 DEF OneSave, Named
  <1>3. CASE r.stage # "sent"
    BY <1>1, <1>3 DEF Abandoned
  <1>. QED BY <1>2, <1>3

LEMMA LoadInv ==
    ASSUME ViewsInv, NEW t \in Tabs, NEW h \in Hydrations,
           Load(t, h) \/ PreferencesArrive(t, h)
    PROVE  ViewsInv'
  <1>1. CASE Load(t, h)
    <2>1. PICK ready \in BOOLEAN : Hydrate(t, h, ready, stored)
      BY <1>1 DEF Load
    <2>2. \A s \in Saves : save'[s] = IF save[s].tab = t THEN Abandoned(save[s]) ELSE save[s]
      BY <1>1 DEF Load
    <2>3. \A s \in Saves : save'[s] \in OneSave /\ Named(save'[s])
      BY <2>2, AbandonedSave DEF ViewsInv, ViewsShape, SaveShape, Requested, SavesNamed
    <2>4. save' \in SaveShape /\ SavesNamed'
      BY <1>1, <2>3 DEF Load, SaveShape, SavesNamed
    <2>. QED BY <2>1, <2>4, HydrateInv DEF ViewsInv, ViewsShape
  <1>2. CASE PreferencesArrive(t, h)
    <2>1. list[t].local \in SUBSET Names
      BY DEF ViewsInv, ViewsShape, ListShape
    <2>. QED BY <1>2, <2>1, HydrateInv DEF PreferencesArrive, ViewsInv, ViewsShape, Requested, SavesNamed
  <1>. QED BY <1>1, <1>2

\* What the parts of these steps do.
LEMMA OverStep ==
    ASSUME ViewsInv, NEW h \in Hydrations, NEW stage \in Stages,
           hydration' = [hydration EXCEPT ![h].stage = stage]
    PROVE  /\ hydration' \in HydrationShape
           /\ \A g \in Hydrations : g # h => hydration'[g] = hydration[g]
           /\ hydration'[h].stage = stage /\ hydration'[h].tab = hydration[h].tab
           /\ hydration'[h].at = hydration[h].at /\ hydration'[h].sent = hydration[h].sent
  BY DEF ViewsInv, ViewsShape, HydrationShape

LEMMA OverFacts ==
    ASSUME ViewsInv, NEW h \in Hydrations, Over(h)
    PROVE  /\ hydration' \in HydrationShape
           /\ \A g \in Hydrations : g # h => hydration'[g] = hydration[g]
           /\ hydration'[h].stage = "over" /\ hydration'[h].tab = hydration[h].tab
           /\ hydration'[h].sent = hydration[h].sent
  <1>. DEFINE ended == [hydration[h] EXCEPT !.stage = "over", !.heard = {}, !.todo = {},
                           !.at = "none"]
  <1>1. hydration \in HydrationShape
    BY DEF ViewsInv, ViewsShape
  <1>2. hydration' = [hydration EXCEPT ![h] = ended]
    BY <1>1 DEF Over, HydrationShape
  <1>3. /\ ended \in [stage : Stages, tab : Tabs \cup {"none"}, ready : BOOLEAN,
                      heard : SUBSET Names, todo : SUBSET Names, sent : SUBSET Names,
                      at : Names \cup {"none"}]
        /\ ended.stage = "over" /\ ended.tab = hydration[h].tab /\ ended.sent = hydration[h].sent
    BY <1>1 DEF HydrationShape, Stages
  <1>. HIDE DEF ended
  <1>. QED BY <1>1, <1>2, <1>3 DEF HydrationShape

LEMMA LostFacts ==
    ASSUME ViewsInv, NEW h \in Hydrations, Lost(h)
    PROVE  /\ hydration' \in HydrationShape
           /\ \A g \in Hydrations : g # h => hydration'[g] = hydration[g]
           /\ hydration'[h].stage = "lost" /\ hydration'[h].tab = hydration[h].tab
           /\ hydration'[h].at = hydration[h].at /\ hydration'[h].sent = hydration[h].sent
  <1>. DEFINE left == [hydration[h] EXCEPT !.stage = "lost", !.heard = {}, !.todo = {}]
  <1>1. hydration \in HydrationShape
    BY DEF ViewsInv, ViewsShape
  <1>2. hydration' = [hydration EXCEPT ![h] = left]
    BY <1>1 DEF Lost, HydrationShape
  <1>3. /\ left \in [stage : Stages, tab : Tabs \cup {"none"}, ready : BOOLEAN,
                     heard : SUBSET Names, todo : SUBSET Names, sent : SUBSET Names,
                     at : Names \cup {"none"}]
        /\ left.stage = "lost" /\ left.tab = hydration[h].tab
        /\ left.at = hydration[h].at /\ left.sent = hydration[h].sent
    BY <1>1 DEF HydrationShape, Stages
  <1>. HIDE DEF left
  <1>. QED BY <1>1, <1>2, <1>3 DEF HydrationShape

LEMMA PostStep ==
    ASSUME ViewsInv, NEW h \in Hydrations, NEW todo \in SUBSET Names, PostNext(h, todo)
    PROVE  /\ hydration' \in HydrationShape
           /\ \A g \in Hydrations : g # h => hydration'[g] = hydration[g]
           /\ hydration'[h].stage = "posting" /\ hydration'[h].tab = hydration[h].tab
           /\ hydration'[h].at \in Names /\ hydration'[h].sent # {}
  <1>1. PICK n \in todo :
           hydration' = [hydration EXCEPT ![h].stage = "posting", ![h].at = n,
                            ![h].todo = todo \ {n}, ![h].sent = @ \cup {n}]
    BY DEF PostNext
  <1>. DEFINE posted == [hydration[h] EXCEPT !.stage = "posting", !.at = n,
                            !.todo = todo \ {n}, !.sent = hydration[h].sent \cup {n}]
  <1>2. hydration \in HydrationShape
    BY DEF ViewsInv, ViewsShape
  <1>3. hydration' = [hydration EXCEPT ![h] = posted]
    BY <1>1, <1>2 DEF HydrationShape
  <1>4. /\ posted \in [stage : Stages, tab : Tabs \cup {"none"}, ready : BOOLEAN,
                       heard : SUBSET Names, todo : SUBSET Names, sent : SUBSET Names,
                       at : Names \cup {"none"}]
        /\ posted.stage = "posting" /\ posted.tab = hydration[h].tab
        /\ posted.at = n /\ posted.sent = hydration[h].sent \cup {n}
    BY <1>2 DEF HydrationShape, Stages
  <1>. HIDE DEF posted
  <1>. QED BY <1>2, <1>3, <1>4 DEF HydrationShape

LEMMA MergedStep ==
    ASSUME ViewsInv, NEW h \in Hydrations, hydration[h].stage # "free",
           NEW names \in SUBSET Names, IsNewest(h), Merged(h, names)
    PROVE  /\ list' \in ListShape
           /\ \A t \in Tabs : /\ list'[t].newest = list[t].newest
                              /\ list'[t].shown \in {list[t].shown, list[t].newest}
           /\ stored' \subseteq Names
  <1>1. hydration[h].tab \in Tabs /\ h \in 0..MaxHydrations
    BY ViewsAssumption DEF ViewsAssumption, ViewsInv, Requested, Hydrations
  <1>. DEFINE u == hydration[h].tab
              merged == [list[u] EXCEPT !.local = @ \ names, !.shown = h]
  <1>2. list \in ListShape /\ list[u].newest = h
    BY DEF ViewsInv, ViewsShape, IsNewest
  <1>3. list' = [list EXCEPT ![u] = merged] /\ stored' = list[u].local \ names
    BY <1>2 DEF Merged, ListShape
  <1>4. /\ merged \in [local : SUBSET Names, newest : 0..MaxHydrations, shown : 0..MaxHydrations]
        /\ merged.newest = list[u].newest /\ merged.shown = h
    BY <1>1, <1>2 DEF ListShape
  <1>. HIDE DEF merged
  <1>. QED BY <1>1, <1>2, <1>3, <1>4 DEF ListShape

LEMMA ServeListInv ==
    ASSUME ViewsInv, NEW h \in Hydrations, ServeList(h) PROVE ViewsInv'
  <1>. DEFINE told == [hydration[h] EXCEPT !.stage = "told", !.heard = rows]
  <1>1. hydration \in HydrationShape /\ rows \subseteq Names
    BY DEF ViewsInv, ViewsShape
  <1>2. hydration' = [hydration EXCEPT ![h] = told]
    BY <1>1 DEF ServeList, HydrationShape
  <1>3. /\ told \in [stage : Stages, tab : Tabs \cup {"none"}, ready : BOOLEAN,
                     heard : SUBSET Names, todo : SUBSET Names, sent : SUBSET Names,
                     at : Names \cup {"none"}]
        /\ told.stage = "told" /\ told.tab = hydration[h].tab /\ told.sent = hydration[h].sent
    BY <1>1 DEF HydrationShape, Stages
  <1>. HIDE DEF told
  <1>4. /\ hydration' \in HydrationShape
        /\ \A g \in Hydrations : g # h => hydration'[g] = hydration[g]
        /\ hydration'[h] = told
    BY <1>1, <1>2, <1>3 DEF HydrationShape
  <1>. QED BY <1>1, <1>3, <1>4, HydrationStep DEF ServeList, Busy, ViewsInv, ViewsShape

\* The marker is written before the first create; nobody sent one before.
LEMMA ListArrivesInv ==
    ASSUME ViewsInv, NEW h \in Hydrations, ListArrives(h) PROVE ViewsInv'
  <1>1. /\ hydration[h].stage = "told" /\ UNCHANGED <<rows, save>>
        /\ hydration[h].heard \in SUBSET Names /\ hydration[h].tab \in Tabs
    BY DEF ListArrives, ViewsInv, ViewsShape, HydrationShape, Requested
  <1>2. CASE ~IsNewest(h)
    <2>1. Over(h) /\ UNCHANGED <<marker, stored, list>>
      BY <1>2 DEF ListArrives
    <2>2. /\ hydration' \in HydrationShape
          /\ \A g \in Hydrations : g # h => hydration'[g] = hydration[g]
          /\ hydration'[h].stage = "over" /\ hydration'[h].tab = hydration[h].tab
          /\ hydration'[h].sent = hydration[h].sent
      BY <2>1, OverFacts
    <2>. QED BY <1>1, <2>1, <2>2, HydrationStep DEF Busy, ViewsInv, ViewsShape
  <1>3. CASE IsNewest(h)
    <2>1. Merged(h, hydration[h].heard)
      BY <1>3 DEF ListArrives
    <2>2. /\ list' \in ListShape
          /\ \A t \in Tabs : /\ list'[t].newest = list[t].newest
                             /\ list'[t].shown \in {list[t].shown, list[t].newest}
          /\ stored' \subseteq Names
      BY <1>1, <1>3, <2>1, MergedStep
    <2>3. CASE Starts(h) /\ PostNext(h, Candidates(h))
      <3>1. Candidates(h) \in SUBSET Names
        BY <1>1 DEF Candidates, ViewsInv, ViewsShape, ListShape
      <3>. QED BY <1>1, <2>2, <2>3, <3>1, PostStep, HydrationStep DEF Starts, ViewsInv, ViewsShape
    <2>4. CASE Over(h) /\ marker' \in {marker, "done"}
      <3>1. /\ hydration' \in HydrationShape
            /\ \A g \in Hydrations : g # h => hydration'[g] = hydration[g]
            /\ hydration'[h].stage = "over" /\ hydration'[h].tab = hydration[h].tab
            /\ hydration'[h].sent = hydration[h].sent
        BY <2>4, OverFacts
      <3>. QED BY <1>1, <2>2, <2>4, <3>1, HydrationStep DEF Busy, ViewsInv, ViewsShape
    <2>. QED BY <1>3, <2>3, <2>4 DEF ListArrives
  <1>. QED BY <1>2, <1>3

LEMMA ServeCreateInv ==
    ASSUME ViewsInv, NEW h \in Hydrations, ServeCreate(h) PROVE ViewsInv'
  <1>1. /\ hydration[h].stage \in {"posting", "lost"} /\ hydration[h].at \in Names
        /\ UNCHANGED <<marker, stored, list, save>>
    BY DEF ServeCreate, ViewsInv, Requested
  <1>2. rows' \subseteq Names
    BY <1>1 DEF ServeCreate, Insert, ViewsInv, ViewsShape
  <1>3. CASE hydration[h].stage = "lost"
    <2>1. Over(h)
      BY <1>3 DEF ServeCreate
    <2>2. /\ hydration' \in HydrationShape
          /\ \A g \in Hydrations : g # h => hydration'[g] = hydration[g]
          /\ hydration'[h].stage = "over" /\ hydration'[h].tab = hydration[h].tab
          /\ hydration'[h].sent = hydration[h].sent
      BY <2>1, OverFacts
    <2>. QED BY <1>1, <1>2, <2>2, HydrationStep DEF Busy, ViewsInv, ViewsShape
  <1>4. CASE hydration[h].stage = "posting"
    <2>1. PICK s \in {"created", "refused"} : hydration' = [hydration EXCEPT ![h].stage = s]
      BY <1>4 DEF ServeCreate, Verdict
    <2>2. s \in Stages
      BY DEF Stages
    <2>. QED BY <1>1, <1>2, <1>4, <2>1, <2>2, OverStep, HydrationStep
         DEF Busy, ViewsInv, ViewsShape, OneMover
  <1>. QED BY <1>1, <1>3, <1>4

LEMMA CreateArrivesInv ==
    ASSUME ViewsInv, NEW h \in Hydrations, CreateArrives(h) PROVE ViewsInv'
  <1>1. /\ hydration[h].stage \in {"created", "refused"} /\ UNCHANGED <<rows, save>>
        /\ hydration[h].todo \in SUBSET Names
        /\ hydration[h].heard \cup hydration[h].sent \in SUBSET Names
        /\ hydration[h].sent # {} /\ marker # "none"
    BY DEF CreateArrives, ViewsInv, ViewsShape, HydrationShape, OneMover, Busy
  <1>2. CASE PostNext(h, hydration[h].todo) /\ UNCHANGED <<marker, stored, list>>
    BY <1>1, <1>2, PostStep, HydrationStep DEF ViewsInv, ViewsShape
  <1>3. CASE Over(h) /\ marker' \in {"done", marker}
    <2>1. /\ hydration' \in HydrationShape
          /\ \A g \in Hydrations : g # h => hydration'[g] = hydration[g]
          /\ hydration'[h].stage = "over" /\ hydration'[h].tab = hydration[h].tab
          /\ hydration'[h].sent = hydration[h].sent
      BY <1>3, OverFacts
    <2>2. /\ list' \in ListShape
          /\ \A t \in Tabs : /\ list'[t].newest = list[t].newest
                             /\ list'[t].shown \in {list[t].shown, list[t].newest}
          /\ stored' \subseteq Names
      <3>1. CASE UNCHANGED <<stored, list>>
        BY <3>1 DEF ViewsInv, ViewsShape
      <3>2. CASE IsNewest(h) /\ Merged(h, hydration[h].heard \cup hydration[h].sent)
        BY <1>1, <3>2, MergedStep
      <3>. QED BY <1>3, <3>1, <3>2 DEF CreateArrives
    <2>. QED BY <1>1, <1>3, <2>1, <2>2, HydrationStep DEF Busy, ViewsInv, ViewsShape
  <1>. QED BY <1>2, <1>3 DEF CreateArrives

LEMMA HydrationFailsInv ==
    ASSUME ViewsInv, NEW h \in Hydrations, HydrationFails(h) PROVE ViewsInv'
  <1>1. /\ hydration[h].stage # "free" /\ UNCHANGED <<marker, stored, rows, list, save>>
    BY DEF HydrationFails
  <1>2. CASE Over(h)
    <2>1. /\ hydration' \in HydrationShape
          /\ \A g \in Hydrations : g # h => hydration'[g] = hydration[g]
          /\ hydration'[h].stage = "over" /\ hydration'[h].tab = hydration[h].tab
          /\ hydration'[h].sent = hydration[h].sent
      BY <1>2, OverFacts
    <2>. QED BY <1>1, <2>1, HydrationStep DEF Busy, ViewsInv, ViewsShape
  <1>3. CASE ~Over(h)
    <2>1. /\ hydration[h].stage = "posting" /\ hydration[h].at \in Names
          /\ Lost(h)
      BY <1>3 DEF HydrationFails, ViewsInv, Requested
    <2>2. /\ hydration' \in HydrationShape
          /\ \A g \in Hydrations : g # h => hydration'[g] = hydration[g]
          /\ hydration'[h].stage = "lost" /\ hydration'[h].tab = hydration[h].tab
          /\ hydration'[h].at = hydration[h].at /\ hydration'[h].sent = hydration[h].sent
      BY <2>1, LostFacts
    <2>. QED BY <1>1, <2>1, <2>2, HydrationStep DEF Busy, ViewsInv, ViewsShape
  <1>. QED BY <1>2, <1>3

-----------------------------------------------------------------------------
(* What users do. *)

\* The list written to the storage is a tab's, and only its local views change.
LEMMA ShowsStep ==
    ASSUME ViewsInv, NEW t \in Tabs, NEW local \in SUBSET Names, Shows(t, local)
    PROVE  /\ list' \in ListShape /\ stored' \subseteq Names
           /\ \A u \in Tabs : /\ list'[u].newest = list[u].newest
                              /\ list'[u].shown = list[u].shown
  BY DEF Shows, ViewsInv, ViewsShape, ListShape

LEMMA SaveMoved ==
    ASSUME ViewsInv, NEW s \in Saves, save[s].stage \notin {"free", "over"},
           NEW r, save' = [save EXCEPT ![s] = r],
           \/ r \in {OverSave, Abandoned(save[s])}
           \/ /\ save[s].stage = "sent"
              /\ \E stage \in {"created", "refused"} : r = [save[s] EXCEPT !.stage = stage]
    PROVE  save' \in SaveShape /\ SavesNamed'
  <1>1. save \in SaveShape /\ SavesNamed /\ save[s] \in OneSave
    BY DEF ViewsInv, ViewsShape, Requested, SaveShape
  <1>2. r \in OneSave /\ Named(r)
    <2>1. CASE r \in {OverSave, Abandoned(save[s])}
      <3>1. Named(save[s])
        BY <1>1 DEF SavesNamed
      <3>. QED BY <1>1, <2>1, <3>1, AbandonedSave
    <2>2. ASSUME save[s].stage = "sent", NEW stage \in {"created", "refused"},
                 r = [save[s] EXCEPT !.stage = stage]
          PROVE  r \in OneSave /\ Named(r)
      <3>1. save[s].tab \in Tabs /\ save[s].name \in Names
        BY <2>2 DEF ViewsInv, Requested, SavesNamed, Named
      <3>. QED BY <1>1, <2>2, <3>1 DEF OneSave, Named
    <2>. QED BY <2>1, <2>2
  <1>3. \A q \in Saves : save'[q] = IF q = s THEN r ELSE save[q]
    BY <1>1 DEF SaveShape
  <1>. QED BY <1>1, <1>2, <1>3 DEF SaveShape, SavesNamed

LEMMA SavesInv ==
    ASSUME ViewsInv, NEW s \in Saves, ServeSave(s) \/ SaveArrives(s) \/ SaveFails(s)
    PROVE  ViewsInv'
  <1>1. save[s].stage \notin {"free", "over"} /\ UNCHANGED <<marker, hydration>>
    BY DEF ServeSave, SaveArrives, SaveFails
  <1>2. /\ save[s].name \in Names
        /\ save[s].stage # "lost" => /\ save[s].tab \in Tabs
                                     /\ list[save[s].tab].local \in SUBSET Names
        /\ list \in ListShape /\ stored \subseteq Names /\ rows \subseteq Names
        /\ save \in SaveShape
    BY <1>1 DEF ViewsInv, Requested, SavesNamed, Named, ViewsShape, ListShape, SaveShape, OneSave
  <1>3. \E r : /\ save' = [save EXCEPT ![s] = r]
               /\ \/ r \in {OverSave, Abandoned(save[s])}
                  \/ /\ save[s].stage = "sent"
                     /\ \E stage \in {"created", "refused"} : r = [save[s] EXCEPT !.stage = stage]
    BY DEF ServeSave, SaveArrives, SaveFails, Verdict
  <1>4. save' \in SaveShape /\ SavesNamed'
    BY <1>1, <1>3, SaveMoved
  <1>5. rows' \subseteq Names
    BY <1>2 DEF ServeSave, SaveArrives, SaveFails, Insert
  <1>6. /\ list' \in ListShape /\ stored' \subseteq Names
        /\ \A u \in Tabs : list'[u].newest = list[u].newest /\ list'[u].shown = list[u].shown
    <2>1. CASE UNCHANGED <<stored, list>>
      BY <1>2, <2>1
    <2>2. ASSUME save[s].stage # "lost", NEW local \in SUBSET Names, Shows(save[s].tab, local)
          PROVE  /\ list' \in ListShape /\ stored' \subseteq Names
                 /\ \A u \in Tabs : /\ list'[u].newest = list[u].newest
                                    /\ list'[u].shown = list[u].shown
      BY <1>2, <2>2, ShowsStep
    <2>3. CASE SaveArrives(s) /\ ~UNCHANGED <<stored, list>>
      BY <1>2, <2>2, <2>3 DEF SaveArrives
    <2>4. CASE SaveFails(s)
      BY <1>2, <2>2, <2>4 DEF SaveFails, KeptLocally
    <2>. QED BY <2>1, <2>3, <2>4 DEF ServeSave
  <1>. QED BY <1>1, <1>4, <1>5, <1>6, SaveStep

LEMMA AskSaveInv ==
    ASSUME ViewsInv, NEW t \in Tabs, NEW s \in Saves, NEW n \in Names,
           NEW from \in Names \cup {"none"}, AskSave(t, s, n, from)
    PROVE  ViewsInv'
  <1>1. UNCHANGED <<marker, stored, rows, list, hydration>>
    BY DEF AskSave
  <1>2. \A r \in Saves : save'[r] = IF r = s THEN [stage |-> "sent", tab |-> t, name |-> n,
                                                    from |-> from]
                                    ELSE save[r]
    BY DEF AskSave, ViewsInv, ViewsShape, SaveShape
  <1>3. save' \in SaveShape
    BY DEF AskSave, ViewsInv, ViewsShape, SaveShape, OneSave
  <1>4. SavesNamed'
    BY <1>2 DEF ViewsInv, Requested, SavesNamed, Named
  <1>. QED BY <1>1, <1>3, <1>4, SaveStep DEF ViewsInv, ViewsShape

LEMMA DropLocalInv ==
    ASSUME ViewsInv, NEW t \in Tabs, NEW n \in Names, DropLocal(t, n) PROVE ViewsInv'
  <1>1. list[t].local \ {n} \in SUBSET Names
    BY DEF ViewsInv, ViewsShape, ListShape
  <1>. QED BY <1>1, ShowsStep, SaveStep DEF DropLocal, ViewsInv, ViewsShape, Requested, SavesNamed

LEMMA RowDeletedInv ==
    ASSUME ViewsInv, NEW n \in Names, RowDeleted(n) PROVE ViewsInv'
  BY SaveStep DEF RowDeleted, ViewsInv, ViewsShape, Requested, SavesNamed

-----------------------------------------------------------------------------

LEMMA ViewsNextInv == ViewsInv /\ [ViewsNext]_viewsVars => ViewsInv'
  <1>. SUFFICES ASSUME ViewsInv, [ViewsNext]_viewsVars PROVE ViewsInv'
    OBVIOUS
  <1>1. CASE \E t \in Tabs, h \in Hydrations : Load(t, h) \/ PreferencesArrive(t, h)
    BY <1>1, LoadInv
  <1>2. CASE \E t \in Tabs, n \in Names :
                \/ DropLocal(t, n)
                \/ \E s \in Saves, from \in Names \cup {"none"} : AskSave(t, s, n, from)
    BY <1>2, DropLocalInv, AskSaveInv
  <1>3. CASE \E h \in Hydrations : \/ ServeList(h) \/ ListArrives(h) \/ ServeCreate(h)
                                   \/ CreateArrives(h) \/ HydrationFails(h)
    BY <1>3, ServeListInv, ListArrivesInv, ServeCreateInv, CreateArrivesInv, HydrationFailsInv
  <1>4. CASE \E s \in Saves : ServeSave(s) \/ SaveArrives(s) \/ SaveFails(s)
    BY <1>4, SavesInv
  <1>5. CASE \E n \in Names : RowDeleted(n)
    BY <1>5, RowDeletedInv
  <1>6. CASE UNCHANGED viewsVars
    BY <1>6 DEF viewsVars, ViewsInv, ViewsShape, Requested, SavesNamed, OneMover, InOrder
  <1>. QED BY <1>1, <1>2, <1>3, <1>4, <1>5, <1>6 DEF ViewsNext

\* The inductive invariant: one mover, and hydrations in their order.
THEOREM ViewsInvariance == ViewsSpec => []ViewsInv
  <1>1. ViewsInit => ViewsInv
    BY ViewsInitInv
  <1>2. ViewsInv /\ [ViewsNext]_viewsVars => ViewsInv'
    BY ViewsNextInv
  <1>. QED BY <1>1, <1>2, PTL DEF ViewsSpec

\* The type invariant of the tabs, their requests and the stored views.
THEOREM ViewsTypes == ViewsSpec => []ViewsTypeOK
  <1>1. ViewsInv => ViewsTypeOK
    BY DEF ViewsInv, ViewsShape, ListShape, HydrationShape, SaveShape, OneSave, Stages, ViewsTypeOK
  <1>. QED BY <1>1, ViewsInvariance, PTL

\* However many tabs hydrate, a local view is posted once: the marker is written
\* before the first create (hydrate of CollaborativeWorkspaceViews.ts).
THEOREM ViewsMoveOnce == ViewsSpec => []MovedAtMostOnce
  <1>1. ViewsInv => MovedAtMostOnce
    BY DEF ViewsInv, OneMover, MovedAtMostOnce
  <1>. QED BY <1>1, ViewsInvariance, PTL

\* Late answers never take a tab back to an older listing (isCurrentHydration).
THEOREM ListingsGoForward == ViewsSpec => ListingsInOrder
  <1>1. ViewsInv /\ [ViewsNext]_viewsVars => [\A t \in Tabs : list'[t].shown >= list[t].shown]_viewsVars
    <2>. SUFFICES ASSUME ViewsInv, ViewsInv', [ViewsNext]_viewsVars, NEW t \in Tabs
                  PROVE  list'[t].shown >= list[t].shown
      BY ViewsNextInv
    <2>1. /\ list \in ListShape /\ hydration \in HydrationShape
          /\ list[t].newest \in Int /\ list[t].shown \in Int
          /\ list[t].shown <= list[t].newest
      BY ViewsAssumption DEF ViewsAssumption, ViewsInv, ViewsShape, ListShape, InOrder
    <2>2. CASE list'[t].shown \in {list[t].shown, list[t].newest}
      BY <2>1, <2>2
    <2>3. ASSUME NEW u \in Tabs, NEW h \in Hydrations, NEW ready, NEW local, Hydrate(u, h, ready, local)
          PROVE  list'[t].shown = list[t].shown
      BY <2>1, <2>3 DEF Hydrate, ListShape
    <2>4. ASSUME NEW h \in Hydrations, hydration[h].stage # "free", NEW names \in SUBSET Names,
                 IsNewest(h), Merged(h, names)
          PROVE  list'[t].shown \in {list[t].shown, list[t].newest}
      BY <2>4, MergedStep
    <2>5. ASSUME NEW u \in Tabs, NEW local, Shows(u, local)
          PROVE  list'[t].shown = list[t].shown
      BY <2>1, <2>5 DEF Shows, ListShape
    <2>6. \A h \in Hydrations : hydration[h].heard \in SUBSET Names
                                /\ hydration[h].heard \cup hydration[h].sent \in SUBSET Names
      BY <2>1 DEF HydrationShape
    <2>7. CASE \E u \in Tabs, h \in Hydrations : Load(u, h) \/ PreferencesArrive(u, h)
      BY <2>2, <2>3, <2>7 DEF Load, PreferencesArrive
    <2>8. CASE \E h \in Hydrations : ListArrives(h) \/ CreateArrives(h)
      <3>1. PICK h \in Hydrations : ListArrives(h) \/ CreateArrives(h)
        BY <2>8
      <3>2. hydration[h].stage # "free"
        BY <3>1 DEF ListArrives, CreateArrives
      <3>3. \/ UNCHANGED list
            \/ IsNewest(h) /\ \E names \in SUBSET Names : Merged(h, names)
        BY <2>6, <3>1 DEF ListArrives, CreateArrives
      <3>. QED BY <2>2, <2>4, <3>2, <3>3
    <2>9. CASE \E u \in Tabs, local \in SUBSET Names : Shows(u, local)
      BY <2>2, <2>5, <2>9
    <2>10. CASE UNCHANGED list
      BY <2>2, <2>10
    <2>11. ASSUME NEW s \in Saves, SaveArrives(s) \/ SaveFails(s)
           PROVE  UNCHANGED list \/ \E u \in Tabs, local \in SUBSET Names : Shows(u, local)
      <3>1. /\ save[s].tab \in Tabs /\ save[s].name \in Names
            /\ list[save[s].tab].local \in SUBSET Names
        BY <2>1, <2>11 DEF SaveArrives, SaveFails, ViewsInv, Requested, SavesNamed, Named, ListShape
      <3>2. /\ list[save[s].tab].local \ {save[s].from} \in SUBSET Names
            /\ KeptLocally(s, list[save[s].tab].local) \in SUBSET Names
        BY <3>1 DEF KeptLocally
      <3>. QED BY <2>11, <3>1, <3>2 DEF SaveArrives, SaveFails
    <2>12. CASE \E u \in Tabs, n \in Names : DropLocal(u, n)
      BY <2>1, <2>9, <2>12 DEF DropLocal, ListShape
    <2>. QED BY <2>7, <2>8, <2>9, <2>10, <2>11, <2>12
         DEF ViewsNext, viewsVars, AskSave, ServeList, ServeCreate, HydrationFails, ServeSave,
             RowDeleted
  <1>. QED BY <1>1, ViewsInvariance, PTL DEF ViewsSpec, ListingsInOrder
==============================================================================
