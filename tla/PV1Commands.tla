---------------------------- MODULE PV1Commands ----------------------------
(***************************************************************************)
(* Commands on one PV1 project: the server's handlers of                   *)
(* backend/app/pv1/domain.py (execute_command, import_tasks, focus_command)*)
(* and the Timeline screen that sends them and retries with the same       *)
(* command id (frontend/src/components/ProjectsTimeline.tsx).              *)
(*                                                                         *)
(* A request is a server coroutine with a session of its own.  Sessions do *)
(* not autoflush and SQLite takes the write lock at the first INSERT,      *)
(* UPDATE or DELETE, so every SELECT before it is a step of its own and    *)
(* everything from that statement to the COMMIT is one step.  The INSERT   *)
(* of the idempotency record is committed by itself: it is released with   *)
(* its savepoint before any other statement has opened a transaction.      *)
(***************************************************************************)
EXTENDS Integers, Sequences, FiniteSets

CONSTANTS
    Keys,          \* command ids
    Workloads,     \* what the clients do: see WorkloadShape
    Tasks,         \* task ids
    Seeded,        \* the tasks of the project at the start
    Imported,      \* the tasks an import creates
    EdgeChoices,   \* the dependencies a client may ask for
    MaxRequests,   \* requests sent in all, the retries included
    MaxPreviews,   \* schedule previews asked for in all
    None           \* no value

Kinds == {"edit", "link", "import", "apply", "pin"}

\* The kind each command id stands for, how many requests and previews are sent,
\* and whether responses get lost and workers stop.
WorkloadShape == [kind : [Keys -> Kinds \cup {"unused"}],
                  requests : 0..MaxRequests, previews : 0..MaxPreviews,
                  lossy : BOOLEAN]

Requests == 1..MaxRequests

VARIABLES
    work,      \* the workload; never changes
    project,   \* pv1_projects: the two revisions every command compares
    tasks,     \* pv1_tasks
    edges,     \* pv1_dependencies, the active ones
    plan,      \* the records the persisted dates were last calculated from
    records,   \* pv1_idempotency_keys
    events,    \* pv1_events, in commit order
    req,       \* the request coroutines
    offers,    \* the previews shown to the user, each with its signed token
    client     \* the screen's side of each command

commandVars == <<work, project, tasks, edges, plan, records, events, req,
                 offers, client>>

-----------------------------------------------------------------------------
(* Data.  A preview's content hash covers the revision, the dates before    *)
(* and the dates after; both are functions of the records it is calculated  *)
(* from, so the records stand for the hash.                                 *)

Views == [revision : Nat, graph : Nat]
Plans == [tasks : SUBSET Tasks, edges : SUBSET (Tasks \X Tasks)]
Results == [base : Nat, tasks : SUBSET Tasks,
            edges : SUBSET (Tasks \X Tasks), plan : Plans]
Bodies == [kind : Kinds, seen : Views, edge : (Tasks \X Tasks) \cup {None},
           offer : Results \cup {None}]
Records == [body : Bodies, status : {"pending", "applied"}]
Replies == {"none", "applied", "empty", "error"}
Stages == {"free", "lookup", "reserve", "load", "inspect", "edges", "write",
           "done", "gone"}

NoRead == [tasks |-> {}, edges |-> {}, plan |-> [tasks |-> {}, edges |-> {}],
           sequence |-> 0]
Reads == [tasks : SUBSET Tasks, edges : SUBSET (Tasks \X Tasks),
          plan : Plans, sequence : Nat]

ASSUME PV1Assumption ==
    /\ Workloads \subseteq WorkloadShape
    /\ Seeded \subseteq Tasks
    /\ Imported \subseteq Tasks /\ IsFiniteSet(Imported)
    /\ EdgeChoices \subseteq Tasks \X Tasks
    /\ MaxRequests \in Nat /\ MaxPreviews \in Nat
    /\ None \notin Records

FreeRequest == [stage |-> "free", key |-> None, body |-> None,
                loaded |-> None, read |-> NoRead, reply |-> "none"]

CommandsInit ==
    /\ work \in Workloads
    /\ project = [revision |-> 1, graph |-> 1]
    /\ tasks = Seeded
    /\ edges = {}
    /\ plan = [tasks |-> {}, edges |-> {}]
    /\ records = [k \in Keys |-> None]
    /\ events = <<>>
    /\ req = [r \in Requests |-> FreeRequest]
    /\ offers = {}
    /\ client = [k \in Keys |-> [phase |-> "idle", req |-> 0, body |-> None]]

\* schedule.cycle_path finds a path: some tasks each have a predecessor among them.
Cyclic(E) == \E S \in (SUBSET Tasks) \ {{}} :
                 \A t \in S : \E u \in S : <<u, t>> \in E

EventKeys == {events[i].key : i \in DOMAIN events}

\* What schedule.preview_schedule answers for the records read.
Result(base, read) == [base |-> base, tasks |-> read.tasks,
                       edges |-> read.edges, plan |-> read.plan]

-----------------------------------------------------------------------------
(* The screen. *)

NextFree(r) == /\ req[r].stage = "free" /\ r <= work.requests
               /\ \A q \in Requests : q < r => req[q].stage # "free"

Post(k, r, body) ==
    /\ NextFree(r)
    /\ req' = [req EXCEPT ![r].stage = "lookup", ![r].key = k, ![r].body = body]
    /\ client' = [client EXCEPT ![k] = [phase |-> "waiting", req |-> r, body |-> body]]
    /\ UNCHANGED <<work, project, tasks, edges, plan, records, events, offers>>

\* A new command, its expected revisions taken from the schedule on screen.
Send(k, r) ==
    /\ client[k].phase = "idle"
    /\ \/ /\ work.kind[k] \in {"edit", "import", "pin"}
          /\ Post(k, r, [kind |-> work.kind[k], seen |-> project, edge |-> None, offer |-> None])
       \/ /\ work.kind[k] = "link"
          /\ \E e \in EdgeChoices :
                 Post(k, r, [kind |-> "link", seen |-> project, edge |-> e, offer |-> None])
       \/ /\ work.kind[k] = "apply"
          /\ \E o \in offers :
                 Post(k, r, [kind |-> "apply", edge |-> None, offer |-> o,
                             seen |-> [project EXCEPT !.graph = o.base]])

\* "Review remains available for retry": the same id, the body rebuilt from the screen.
Retry(k, r) == /\ client[k].phase = "failed"
               /\ Post(k, r, client[k].body)

\* jsonOrThrow: any 2xx body is taken for success, whatever it holds.
Receive(k) ==
    /\ client[k].phase = "waiting"
    /\ req[client[k].req].stage = "done"
    /\ client' = [client EXCEPT ![k].phase =
            IF req[client[k].req].reply = "error" THEN "recheck" ELSE "confirmed"]
    /\ UNCHANGED <<work, project, tasks, edges, plan, records, events, req, offers>>

\* The response is lost, or the connection fails, while the server goes on.
LoseResponse(k) ==
    /\ work.lossy
    /\ client[k].phase = "waiting"
    /\ client' = [client EXCEPT ![k].phase = "recheck"]
    /\ UNCHANGED <<work, project, tasks, edges, plan, records, events, req, offers>>

\* applyPreview's catch: refetch the schedule and look for the command in its
\* history.  A refetch that fails leaves the old data on screen.
Recheck(k) ==
    /\ client[k].phase = "recheck"
    /\ \/ /\ k \in EventKeys
          /\ client' = [client EXCEPT ![k].phase = "confirmed"]
       \/ /\ k \notin EventKeys
          /\ client' = [client EXCEPT ![k].phase = "failed",
                                      ![k].body.seen.revision = project.revision]
       \/ client' = [client EXCEPT ![k].phase = "failed"]
    /\ UNCHANGED <<work, project, tasks, edges, plan, records, events, req, offers>>

-----------------------------------------------------------------------------
(* The server. *)

Body(r) == req[r].body
Loaded(r) == req[r].loaded

Goto(r, stage) == req' = [req EXCEPT ![r].stage = stage]

Answer(r, reply) ==
    req' = [req EXCEPT ![r] = [FreeRequest EXCEPT !.stage = "done", !.reply = reply]]

\* The answer to a command id that has a record already.
Replay(r) ==
    LET record == records[req[r].key]
    IN  Answer(r, IF record.body # Body(r) THEN "error"
                  ELSE IF record.status = "applied" THEN "applied" ELSE "empty")

\* Seeded fault: a pending record is taken up by the next request.
LookupResuming(r) ==
    /\ req[r].stage = "lookup"
    /\ LET record == records[req[r].key] IN
       IF record = None THEN Goto(r, "reserve")
       ELSE IF record.status = "pending" /\ record.body = Body(r) THEN Goto(r, "load")
       ELSE Replay(r)
    /\ UNCHANGED <<work, project, tasks, edges, plan, records, events, offers, client>>

Lookup(r) ==
    /\ req[r].stage = "lookup"
    /\ IF records[req[r].key] = None THEN Goto(r, "reserve") ELSE Replay(r)
    /\ UNCHANGED <<work, project, tasks, edges, plan, records, events, offers, client>>

\* Seeded fault: no unique constraint on the record.
ReserveUnchecked(r) ==
    /\ req[r].stage = "reserve"
    /\ records' = [records EXCEPT ![req[r].key] = [body |-> Body(r), status |-> "pending"]]
    /\ Goto(r, "load")
    /\ UNCHANGED <<work, project, tasks, edges, plan, events, offers, client>>

\* The INSERT under the unique constraint: a collision is answered like a replay.
Reserve(r) ==
    /\ req[r].stage = "reserve"
    /\ \/ /\ records[req[r].key] = None
          /\ records' = [records EXCEPT ![req[r].key] =
                            [body |-> Body(r), status |-> "pending"]]
          /\ Goto(r, "load")
       \/ /\ records[req[r].key] # None
          /\ Replay(r)
          /\ UNCHANGED records
    /\ UNCHANGED <<work, project, tasks, edges, plan, events, offers, client>>

\* The expected revisions each kind of command compares with the row it loads.
Expected(body) ==
    CASE body.kind = "edit"   -> body.seen.revision = project.revision
      [] body.kind = "import" -> body.seen.graph = project.graph
      [] body.kind = "pin"    -> TRUE
      [] OTHER                -> body.seen = project

Load(r) ==
    /\ req[r].stage = "load"
    /\ \/ /\ Expected(Body(r))
          /\ req' = [req EXCEPT ![r].loaded = project,
                 ![r].stage = IF Body(r).kind \in {"edit", "import"}
                              THEN "write" ELSE "inspect"]
       \/ /\ ~Expected(Body(r))
          /\ Answer(r, "error")
    /\ UNCHANGED <<work, project, tasks, edges, plan, records, events, offers, client>>

\* The SELECTs between loading the project and the first write.  focus_command
\* reads max(sequence) here, before it holds the write lock.
Inspect(r) ==
    /\ req[r].stage = "inspect"
    /\ IF Body(r).kind = "pin"
       THEN req' = [req EXCEPT ![r].stage = "write",
                               ![r].read.sequence = Len(events)]
       ELSE IF Body(r).kind = "link" /\ ~({Body(r).edge[1], Body(r).edge[2]} \subseteq tasks)
       THEN Answer(r, "error")
       ELSE req' = [req EXCEPT ![r].stage = "edges", ![r].read.tasks = tasks,
                               ![r].read.plan = plan]
    /\ UNCHANGED <<work, project, tasks, edges, plan, records, events, offers, client>>

\* dependency.create: not there yet, and no cycle with it.
LinkAllowed(body) == body.edge \notin edges /\ ~Cyclic(edges \cup {body.edge})

\* Seeded fault: the token's revision is compared, the recalculated hash is not.
SameBase(r) == Loaded(r).graph = Body(r).offer.base

\* schedule.apply: the preview, calculated again, has the reviewed hash.
StillReviewed(r) ==
    Result(Loaded(r).graph, [req[r].read EXCEPT !.edges = edges]) = Body(r).offer

InspectEdges(r) ==
    /\ req[r].stage = "edges"
    /\ IF IF Body(r).kind = "link" THEN LinkAllowed(Body(r)) ELSE StillReviewed(r)
       THEN req' = [req EXCEPT ![r].stage = "write", ![r].read.edges = edges]
       ELSE Answer(r, "error")
    /\ UNCHANGED <<work, project, tasks, edges, plan, records, events, offers, client>>

\* Seeded fault: the UPDATE names the project only.
MatchesById(r) == TRUE

\* Seeded fault: the UPDATE of an apply names the project only.
MatchesUnlessApply(r) == CASE Body(r).kind = "edit" -> project.revision = Loaded(r).revision
                           [] Body(r).kind \in {"pin", "apply"} -> TRUE
                           [] OTHER -> project = Loaded(r)

\* The UPDATE ... WHERE on the revisions loaded, and whether it must match.
Matches(r) == CASE Body(r).kind = "edit" -> project.revision = Loaded(r).revision
                [] Body(r).kind = "pin"  -> TRUE
                [] OTHER                 -> project = Loaded(r)
MustMatch(r) == Body(r).kind # "import"

Bumped(body) ==
    CASE body.kind = "edit"   -> [project EXCEPT !.revision = @ + 1]
      [] body.kind = "import" -> [project EXCEPT !.revision = @ + 1,
                                                 !.graph = @ + Cardinality(Imported)]
      [] body.kind = "pin"    -> project
      [] OTHER                -> [project EXCEPT !.revision = @ + 1, !.graph = @ + 1]

\* append_event takes max(sequence) + 1: under the write lock, but for a pin.
EventSequence(r) ==
    IF Body(r).kind = "pin" THEN req[r].read.sequence + 1 ELSE Len(events) + 1

\* Seeded fault: no unique constraint on the sequence.
NeverTaken(n) == FALSE

SequenceTaken(n) == \E i \in DOMAIN events : events[i].sequence = n

Event(r) == [key |-> req[r].key, sequence |-> EventSequence(r), kind |-> Body(r).kind,
             reviewed |-> Body(r).offer,
             wrote |-> IF Body(r).kind = "apply"
                       THEN Result(Loaded(r).graph, req[r].read) ELSE None]

\* From the UPDATE to the COMMIT: the change, the event and the finished record.
Commit(r) ==
    /\ project' = IF Matches(r) THEN Bumped(Body(r)) ELSE project
    /\ tasks' = IF Body(r).kind = "import" THEN tasks \cup Imported ELSE tasks
    /\ edges' = IF Body(r).kind = "link" THEN edges \cup {Body(r).edge} ELSE edges
    /\ plan' = IF Body(r).kind = "apply"
               THEN [tasks |-> req[r].read.tasks, edges |-> req[r].read.edges] ELSE plan
    /\ events' = Append(events, Event(r))
    /\ records' = [records EXCEPT ![req[r].key].status = "applied"]
    /\ Answer(r, "applied")

\* A failed comparison or a duplicate sequence rolls the transaction back; the
\* record committed earlier stays pending.
Write(r) ==
    /\ req[r].stage = "write"
    /\ \/ /\ MustMatch(r) => Matches(r)
          /\ ~SequenceTaken(EventSequence(r))
          /\ Commit(r)
       \/ /\ \/ MustMatch(r) /\ ~Matches(r)
             \/ SequenceTaken(EventSequence(r))
          /\ Answer(r, "error")
          /\ UNCHANGED <<project, tasks, edges, plan, records, events>>
    /\ UNCHANGED <<work, offers, client>>

\* The worker stops, or the request is cancelled, between two of its steps.
Crash(r) ==
    /\ work.lossy
    /\ req[r].stage \notin {"free", "done", "gone"}
    /\ req' = [req EXCEPT ![r] = [FreeRequest EXCEPT !.stage = "gone"]]
    /\ UNCHANGED <<work, project, tasks, edges, plan, records, events, offers, client>>

Serve(r) == Lookup(r) \/ Reserve(r) \/ Load(r) \/ Inspect(r) \/ InspectEdges(r) \/ Write(r)

CommandsNext ==
    \/ \E k \in Keys : \/ \E r \in Requests : Send(k, r) \/ Retry(k, r)
                       \/ Receive(k) \/ LoseResponse(k) \/ Recheck(k)
    \/ \E r \in Requests : Serve(r) \/ Crash(r)

-----------------------------------------------------------------------------
(* Properties. *)

ClientPhases == {"idle", "waiting", "recheck", "failed", "confirmed"}

CommandsTypeOK ==
    /\ work \in Workloads
    /\ project \in Views
    /\ tasks \subseteq Tasks
    /\ edges \subseteq Tasks \X Tasks
    /\ plan.tasks \subseteq Tasks /\ plan.edges \subseteq Tasks \X Tasks
    /\ \A k \in Keys : records[k] = None \/ records[k].status \in {"pending", "applied"}
    /\ \A r \in Requests : req[r].stage \in Stages /\ req[r].reply \in Replies
    /\ \A k \in Keys : client[k].phase \in ClientPhases /\ client[k].req \in 0..MaxRequests

\* A command id takes effect at most once, and its record says "applied" exactly
\* when its event is in the log, whatever is retried, lost, raced or cut short
\* (_idempotency_start, _idempotency_finish and the commit of the route).
OneEffectPerCommand ==
    /\ \A i, j \in DOMAIN events : events[i].key = events[j].key => i = j
    /\ \A k \in Keys : k \in EventKeys <=> records[k] # None /\ records[k].status = "applied"

\* The events of a project are numbered 1, 2, 3, ... in the order they commit,
\* although focus_command reads the number before it holds the write lock.
EventsNumbered == \A i \in DOMAIN events : events[i].sequence = i

\* The dependency graph never gets a cycle, although the check reads the graph
\* before the lock and two commands may each add half of one.
GraphAcyclic == ~Cyclic(edges)

\* The dates an apply writes are the ones calculated for the preview that the
\* user reviewed, on the records of that moment.
ReviewedIsApplied ==
    \A i \in DOMAIN events : events[i].kind = "apply" => events[i].wrote = events[i].reviewed

\* A command whose record is pending and which no request carries any more.
Stranded(k) == /\ records[k] # None /\ records[k].status = "pending"
               /\ \A r \in Requests : req[r].key = k =>
                     req[r].stage \notin {"load", "inspect", "edges", "write"}

\* A command id that failed after its record was committed can never be carried
\* out under that id again: every retry is answered without being executed.
StrandedForGood == [][\A k \in Keys : Stranded(k) => Stranded(k)']_commandVars

\* Racing, retried and abandoned as they are, the commands have the effects of a
\* list of them carried out one at a time, each on the project as its checks saw
\* it: see AtomicCommands.
Outcome(k) == IF records[k] = None THEN "new"
              ELSE IF Stranded(k) THEN "dropped"
              ELSE IF records[k].status = "pending" THEN "begun" ELSE "applied"

Atomic == INSTANCE AtomicCommands
          WITH outcome <- [k \in Keys |-> Outcome(k)],
               log <- [i \in DOMAIN events |-> events[i].key]

ImplementsAtomicCommands == Atomic!AtomicSpec

\* What the screen tells the user it applied was applied ("Schedule applied
\* atomically.").  The pending record breaks it: see the run command_replay.
ConfirmedIsApplied == \A k \in Keys : client[k].phase = "confirmed" => k \in EventKeys
=============================================================================
