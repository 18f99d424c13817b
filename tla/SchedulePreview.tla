-------------------------- MODULE SchedulePreview --------------------------
(***************************************************************************)
(* Schedule previews beside the commands of PV1Commands: the worker's      *)
(* cache of previews and the coordination that lets one request calculate  *)
(* while identical ones wait (backend/app/pv1/domain.py,                   *)
(* preview_project_schedule and _schedule_preview_value).                  *)
(*                                                                         *)
(* The worker runs one coroutine at a time: an action is what a preview    *)
(* does between two awaits.  Every preview is of the same operation, so    *)
(* the two revisions it loaded are its cache key.                          *)
(***************************************************************************)
EXTENDS PV1Commands, SequencesExt

CONSTANT MaxCached   \* _SCHEDULE_PREVIEW_CACHE_MAX_ENTRIES

ASSUME PreviewAssumption == MaxCached \in Nat \ {0}

Previews == 1..MaxPreviews

VARIABLES
    preview,       \* the preview coroutines
    cache,         \* least recently used first
    coordination,  \* dict: cache key -> the coordination object in use
    lock           \* the objects, named by the preview that made each

previewVars == <<preview, cache, coordination, lock>>
vars == <<commandVars, previewVars>>

FreePreview == [stage |-> "free", graph |-> 0, loaded |-> None, read |-> NoRead, object |-> 0]
NewLock == [holder |-> 0, line |-> <<>>, users |-> 0]

PreviewInit == /\ preview = [p \in Previews |-> FreePreview]
               /\ cache = <<>>
               /\ coordination = {}
               /\ lock = [p \in Previews |-> NewLock]

Cached(key) == \E i \in DOMAIN cache : cache[i].key = key
Position(key) == CHOOSE i \in DOMAIN cache : cache[i].key = key
CachedValue(key) == cache[Position(key)].value
Without(key) == IF Cached(key) THEN RemoveAt(cache, Position(key)) ELSE cache

\* A hit moves the entry to the recent end.
Touched(key) == Append(Without(key), [key |-> key, value |-> CachedValue(key)])

\* Seeded fault: nothing is dropped.
InsertedUnbounded(key, value) == Append(Without(key), [key |-> key, value |-> value])

\* The new entry, and the oldest ones dropped while there are too many.
Inserted(key, value) ==
    LET all == Append(Without(key), [key |-> key, value |-> value])
    IN  SubSeq(all, 1 + (IF Len(all) > MaxCached THEN Len(all) - MaxCached ELSE 0), Len(all))

\* The object the dict holds for a key, if any.
ObjectFor(key) == {entry \in coordination : entry.key = key}

Ended(p, stage) == [preview EXCEPT ![p].stage = stage, ![p].loaded = None,
                                   ![p].read = NoRead, ![p].object = 0]

-----------------------------------------------------------------------------

\* The client asks for a preview of the schedule it shows.
Open(p) ==
    /\ preview[p].stage = "free" /\ p <= work.previews
    /\ \A q \in Previews : q < p => preview[q].stage # "free"
    /\ preview' = [preview EXCEPT ![p].stage = "project", ![p].graph = project.graph]
    /\ UNCHANGED <<commandVars, cache, coordination, lock>>

\* The project is read; a stale graph_revision is refused.
LoadProject(p) ==
    /\ preview[p].stage = "project"
    /\ preview' = IF preview[p].graph = project.graph
                  THEN [preview EXCEPT ![p].stage = "cache", ![p].loaded = project]
                  ELSE Ended(p, "refused")
    /\ UNCHANGED <<commandVars, cache, coordination, lock>>

Show(value) == offers' = offers \cup {value}
OffersOnly == UNCHANGED <<work, project, tasks, edges, plan, records, events, req, client>>

\* After the permission check: a hit is answered; else the preview joins the
\* coordination of its key and takes the lock at once when nobody holds it or
\* waits for it.
TryCache(p) ==
    /\ preview[p].stage = "cache"
    /\ LET key == preview[p].loaded IN
       IF Cached(key)
       THEN /\ Show(CachedValue(key)) /\ OffersOnly
            /\ preview' = Ended(p, "answered")
            /\ cache' = Touched(key)
            /\ UNCHANGED <<coordination, lock>>
       ELSE LET held == ObjectFor(key)
                object == IF held = {} THEN p ELSE (CHOOSE entry \in held : TRUE).object
                free == lock[object].holder = 0 /\ lock[object].line = <<>>
            IN  /\ coordination' = coordination \cup {[key |-> key, object |-> object]}
                /\ lock' = [lock EXCEPT ![object].users = @ + 1,
                                        ![object].holder = IF free THEN p ELSE @,
                                        ![object].line = IF free THEN @ ELSE Append(@, p)]
                /\ preview' = [preview EXCEPT ![p].object = object,
                                  ![p].stage = IF free THEN "tasks" ELSE "waiting"]
                /\ UNCHANGED <<commandVars, cache>>

\* Seeded fault: the object goes with whoever leaves the lock free.
LeaveUnlocked(object, without) ==
    /\ lock' = [lock EXCEPT ![object] = [without EXCEPT !.users = @ - 1]]
    /\ coordination' = IF without.holder = 0
                       THEN {entry \in coordination : entry.object # object}
                       ELSE coordination

\* Seeded fault: the object is never removed.
LeaveKept(object, without) ==
    /\ lock' = [lock EXCEPT ![object] = [without EXCEPT !.users = @ - 1]]
    /\ UNCHANGED coordination

\* Seeded fault: a user is counted out twice.
LeaveTwice(object, without) ==
    /\ lock' = [lock EXCEPT ![object] = [without EXCEPT !.users = @ - 2]]
    /\ coordination' = IF without.users = 2 /\ without.holder = 0
                       THEN {entry \in coordination : entry.object # object}
                       ELSE coordination

\* The finally clause: one user fewer; the last one removes the object, unless
\* the lock is held or the dict holds another object by now.
Leave(object, without) ==
    LET left == [without EXCEPT !.users = @ - 1] IN
    /\ lock' = [lock EXCEPT ![object] = left]
    /\ coordination' = IF left.users = 0 /\ left.holder = 0
                       THEN {entry \in coordination : entry.object # object}
                       ELSE coordination

\* Seeded fault: the lock stays with a holder that is gone.
ReleaseUserOnly(p) == LET object == preview[p].object IN Leave(object, lock[object])

Release(p) == LET object == preview[p].object
              IN  Leave(object, [lock[object] EXCEPT !.holder = 0])

\* The first in line is woken; it looks at the cache again before it calculates.
Wake(p) ==
    /\ preview[p].stage = "waiting"
    /\ LET object == preview[p].object
           key == preview[p].loaded
           taken == [lock[object] EXCEPT !.line = Tail(@)]
       IN  /\ lock[object].holder = 0
           /\ Head(lock[object].line) = p
           /\ IF Cached(key)
              THEN /\ Show(CachedValue(key)) /\ OffersOnly
                   /\ cache' = Touched(key)
                   /\ preview' = Ended(p, "answered")
                   /\ Leave(object, taken)
              ELSE /\ lock' = [lock EXCEPT ![object] = [taken EXCEPT !.holder = p]]
                   /\ preview' = [preview EXCEPT ![p].stage = "tasks"]
                   /\ UNCHANGED <<commandVars, cache, coordination>>

\* _schedule_records: one SELECT after another, each of its own snapshot.
ReadTasks(p) ==
    /\ preview[p].stage = "tasks"
    /\ preview' = [preview EXCEPT ![p].stage = "edges", ![p].read.tasks = tasks,
                                  ![p].read.plan = plan]
    /\ UNCHANGED <<commandVars, cache, coordination, lock>>

\* The last SELECT; then the calculation, the cache and the lock without an await.
Calculate(p) ==
    /\ preview[p].stage = "edges"
    /\ LET key == preview[p].loaded
           value == Result(key.graph, [preview[p].read EXCEPT !.edges = edges])
       IN  /\ cache' = Inserted(key, value)
           /\ Show(value) /\ OffersOnly
           /\ preview' = Ended(p, "answered")
           /\ Release(p)

\* The client goes away, or the calculation raises: a holder releases the lock,
\* a waiter leaves the line.
Cancel(p) ==
    /\ \/ /\ preview[p].stage \in {"project", "cache"}
          /\ UNCHANGED <<coordination, lock>>
       \/ /\ preview[p].stage = "waiting"
          /\ Leave(preview[p].object, [lock[preview[p].object] EXCEPT
                        !.line = SelectSeq(@, LAMBDA q : q # p)])
       \/ /\ preview[p].stage \in {"tasks", "edges"}
          /\ Release(p)
    /\ preview' = Ended(p, "gone")
    /\ UNCHANGED <<commandVars, cache>>

Step(p) == LoadProject(p) \/ TryCache(p) \/ Wake(p) \/ ReadTasks(p) \/ Calculate(p)

PreviewNext == \E p \in Previews : Open(p) \/ Step(p) \/ Cancel(p)

Init == CommandsInit /\ PreviewInit

Next == \/ CommandsNext /\ UNCHANGED previewVars
        \/ PreviewNext

\* The event loop runs every coroutine that can go on.  Nothing makes a user
\* send, retry, cancel, or a worker fail.
Fairness == /\ \A r \in Requests : WF_vars(Serve(r) /\ UNCHANGED previewVars)
            /\ \A p \in Previews : WF_vars(Step(p))

Spec == Init /\ [][Next]_vars /\ Fairness

-----------------------------------------------------------------------------

PreviewStages == {"free", "project", "cache", "waiting", "tasks", "edges",
                  "answered", "refused", "gone"}
Calculating(p) == preview[p].stage \in {"tasks", "edges"}

PreviewTypeOK ==
    /\ CommandsTypeOK
    /\ offers \subseteq Results
    /\ \A p \in Previews : preview[p].stage \in PreviewStages
    /\ \A p \in Previews : lock[p].users \in 0..MaxPreviews /\ lock[p].holder \in 0..MaxPreviews

\* Of the requests for the same preview one at a time calculates, also when a
\* calculation is cancelled or fails while others wait for it and more arrive.
PreviewSingleFlight ==
    \A p, q \in Previews : Calculating(p) /\ Calculating(q)
                           /\ preview[p].loaded = preview[q].loaded => p = q

\* The cache holds no preview twice and never more than its limit.
PreviewCacheBounded ==
    /\ Len(cache) <= MaxCached
    /\ \A i, j \in DOMAIN cache : cache[i].key = cache[j].key => i = j

\* A coordination object stays in the dict only as long as some request that
\* waits or calculates uses it.
CoordinationFreed ==
    \A entry \in coordination :
        \E p \in Previews : preview[p].object = entry.object /\ preview[p].loaded = entry.key

\* A preview that waits for another's calculation gets an answer, whoever is
\* cancelled, unless its own client leaves.
PreviewAnswered ==
    \A p \in Previews : preview[p].stage = "waiting" ~> preview[p].stage \in {"answered", "gone"}

\* "The revision tuple in the key makes any graph/calendar/task change a cache
\* miss" (domain.py:38): what the cache holds for the current revisions was
\* calculated from the current tasks and dependencies.  See the run stale_preview.
CachedPreviewIsCurrent ==
    \A i \in DOMAIN cache :
        cache[i].key = project => cache[i].value.tasks = tasks /\ cache[i].value.edges = edges
=============================================================================
