------------------------- MODULE PV1Commands_proofs -------------------------
(***************************************************************************)
(* For every set of command ids, tasks and workloads: what the commands    *)
(* keep true of the log, the records and the dependency graph.             *)
(*                                                                         *)
(* The inductive invariant says what a request holds in its hands between  *)
(* two of its statements: a pending record that no other request holds,    *)
(* revisions that are not ahead of the project's, and, when it is about to *)
(* write, a check of the graph that still stands if the revisions do.      *)
(***************************************************************************)
EXTENDS PV1Commands, FiniteSetTheorems, TLAPS

\* A link command names its dependency.
SentBodies == {b \in Bodies : b.kind = "link" => b.edge \in Tasks \X Tasks}

RequestShape == [stage : Stages, key : Keys \cup {None}, body : Bodies \cup {None},
                 loaded : Views \cup {None}, read : Reads, reply : Replies]
ClientShape == [phase : ClientPhases, req : 0..MaxRequests, body : Bodies \cup {None}]
EventShape == [key : Keys, sequence : Nat, kind : Kinds, reviewed : Results \cup {None},
               wrote : Results \cup {None}]

CommandsShape ==
    /\ work \in Workloads /\ project \in Views
    /\ tasks \subseteq Tasks /\ edges \subseteq Tasks \X Tasks
    /\ plan \in Plans
    /\ records \in [Keys -> Records \cup {None}]
    /\ events \in Seq(EventShape)
    /\ req \in [Requests -> RequestShape]
    /\ offers \subseteq Results
    /\ client \in [Keys -> ClientShape]

\* A request past the lookup, and one that has loaded the project.
Carries(q) == q.stage \in {"load", "inspect", "edges", "write"}
HasLoaded(q) == q.stage \in {"inspect", "edges", "write"}
InService(q) == q.stage \in {"lookup", "reserve"} \/ Carries(q)

\* What a request has read is a past of the present, and a check it made stands
\* as long as the revisions do.
RequestOK(q) ==
    /\ InService(q) => q.key \in Keys /\ q.body \in SentBodies
    /\ HasLoaded(q) => q.loaded \in Views /\ q.loaded.revision <= project.revision
    /\ q.read.sequence <= Len(events)
    /\ q.read.tasks \subseteq tasks
    /\ q.stage = "write" /\ q.body.kind = "link" /\ q.loaded = project =>
            q.body.edge \notin edges /\ ~Cyclic(edges \cup {q.body.edge})
    /\ q.stage = "write" /\ q.body.kind = "apply" =>
            Result(q.loaded.graph, q.read) = q.body.offer
    /\ q.stage = "write" /\ q.body.kind = "apply" /\ q.loaded = project =>
            q.read.edges = edges

Pending(k) == records[k] # None /\ records[k].status = "pending"

ClientsOK == \A k \in Keys : client[k].phase # "idle" => client[k].body \in SentBodies
RequestsOK == \A r \in Requests : RequestOK(req[r])
CarriersOK ==
    /\ \A r \in Requests : Carries(req[r]) => Pending(req[r].key)
    /\ \A q, r \in Requests : Carries(req[q]) /\ Carries(req[r]) /\ req[q].key = req[r].key
                              => q = r
LogOK == OneEffectPerCommand /\ EventsNumbered /\ ReviewedIsApplied

CommandsInv ==
    CommandsShape /\ ClientsOK /\ RequestsOK /\ CarriersOK /\ LogOK /\ GraphAcyclic

-----------------------------------------------------------------------------

LEMMA CommandsInitInv == CommandsInit => CommandsInv
  <1>. SUFFICES ASSUME CommandsInit PROVE CommandsInv
    OBVIOUS
  <1>. USE PV1Assumption DEF PV1Assumption, CommandsInit
  <1>1. FreeRequest \in RequestShape
    BY DEF FreeRequest, RequestShape, NoRead, Reads, Plans, Stages, Replies
  <1>2. [phase |-> "idle", req |-> 0, body |-> None] \in ClientShape
    BY DEF ClientShape, ClientPhases
  <1>3. CommandsShape
    BY <1>1, <1>2 DEF CommandsShape, Views, Plans
  <1>4. /\ ClientsOK /\ RequestsOK /\ CarriersOK
    BY DEF ClientsOK, RequestsOK, RequestOK, CarriersOK, Carries, HasLoaded, InService,
           FreeRequest, NoRead
  <1>5. LogOK
    BY DEF LogOK, OneEffectPerCommand, EventsNumbered, ReviewedIsApplied, EventKeys
  <1>6. GraphAcyclic
    <2>. SUFFICES ASSUME NEW S \in (SUBSET Tasks) \ {{}},
                         \A t \in S : \E u \in S : <<u, t>> \in edges
                  PROVE  FALSE
      BY DEF GraphAcyclic, Cyclic
    <2>1. S # {} /\ edges = {}
      OBVIOUS
    <2>2. PICK t : t \in S
      BY <2>1
    <2>. QED
      BY <2>1, <2>2
  <1>. QED
    BY <1>3, <1>4, <1>5, <1>6 DEF CommandsInv

\* A step that only moves one request along, and perhaps what the screen shows.
LEMMA Moves ==
    ASSUME CommandsInv, NEW r \in Requests, NEW q \in RequestShape,
           UNCHANGED <<work, project, tasks, edges, plan, records, events, offers>>,
           req' = [req EXCEPT ![r] = q],
           client' \in [Keys -> ClientShape], ClientsOK',
           RequestOK(q),
           Carries(q) => Carries(req[r]) /\ q.key = req[r].key
    PROVE  CommandsInv'
  <1>. USE DEF CommandsInv
  <1>1. /\ req \in [Requests -> RequestShape] /\ req' \in [Requests -> RequestShape]
        /\ req'[r] = q
        /\ \A s \in Requests : s # r => req'[s] = req[s]
    BY DEF CommandsShape
  <1>2. CommandsShape'
    BY <1>1 DEF CommandsShape
  <1>3. RequestsOK'
    <2>. SUFFICES ASSUME NEW s \in Requests PROVE RequestOK(req[s])'
      BY DEF RequestsOK
    <2>1. CASE s = r
      BY <2>1, <1>1 DEF RequestOK
    <2>2. CASE s # r
      BY <2>2, <1>1 DEF RequestOK, RequestsOK
    <2>. QED  BY <2>1, <2>2
  <1>4. CarriersOK'
    BY <1>1 DEF CarriersOK, Pending
  <1>5. LogOK' /\ GraphAcyclic'
    BY DEF LogOK, OneEffectPerCommand, EventsNumbered, ReviewedIsApplied, EventKeys, GraphAcyclic
  <1>. QED
    BY <1>2, <1>3, <1>4, <1>5

\* The same, when the screen shows what it did.
LEMMA ServerMoves ==
    ASSUME CommandsInv, NEW r \in Requests, NEW q \in RequestShape,
           UNCHANGED <<work, project, tasks, edges, plan, records, events, offers, client>>,
           req' = [req EXCEPT ![r] = q],
           RequestOK(q),
           Carries(q) => Carries(req[r]) /\ q.key = req[r].key
    PROVE  CommandsInv'
  <1>1. client' \in [Keys -> ClientShape] /\ ClientsOK'
    BY DEF CommandsInv, CommandsShape, ClientsOK
  <1>. QED
    BY <1>1, Moves

\* A request that has its answer, or is gone, holds nothing.
LEMMA Ends ==
    ASSUME CommandsInv, NEW reply \in Replies, NEW stage \in {"done", "gone"}
    PROVE  LET q == [FreeRequest EXCEPT !.stage = stage, !.reply = reply]
           IN  q \in RequestShape /\ RequestOK(q) /\ ~Carries(q)
  <1>. DEFINE q == [FreeRequest EXCEPT !.stage = stage, !.reply = reply]
  <1>1. FreeRequest \in RequestShape /\ FreeRequest.read.sequence = 0 /\ FreeRequest.read.tasks = {}
    BY DEF FreeRequest, RequestShape, NoRead, Reads, Plans, Stages, Replies
  <1>2. q \in RequestShape /\ q.stage = stage /\ q.read = FreeRequest.read
    BY <1>1 DEF RequestShape, Stages
  <1>. HIDE DEF q
  <1>3. Len(events) \in Nat
    BY DEF CommandsInv, CommandsShape
  <1>4. RequestOK(q) /\ ~Carries(q)
    BY <1>1, <1>2, <1>3 DEF RequestOK, InService, HasLoaded, Carries
  <1>. QED
    BY <1>2, <1>4 DEF q

LEMMA AnswerInv ==
    ASSUME CommandsInv, NEW r \in Requests, NEW reply \in Replies, Answer(r, reply),
           UNCHANGED <<work, project, tasks, edges, plan, records, events, offers, client>>
    PROVE  CommandsInv'
  <1>. DEFINE q == [FreeRequest EXCEPT !.stage = "done", !.reply = reply]
  <1>1. q \in RequestShape /\ RequestOK(q) /\ ~Carries(q)
    BY Ends
  <1>2. req' = [req EXCEPT ![r] = q]
    BY DEF Answer
  <1>. HIDE DEF q
  <1>. QED
    BY <1>1, <1>2, ServerMoves

LEMMA GotoRecord ==
    ASSUME CommandsInv, NEW r \in Requests, NEW stage \in Stages, Goto(r, stage)
    PROVE  LET q == [req[r] EXCEPT !.stage = stage] IN
           /\ q \in RequestShape /\ req' = [req EXCEPT ![r] = q]
           /\ q.stage = stage /\ q.key = req[r].key /\ q.body = req[r].body
           /\ q.loaded = req[r].loaded /\ q.read = req[r].read
  BY DEF CommandsInv, CommandsShape, RequestShape, Goto


-----------------------------------------------------------------------------
(* The screen. *)

LEMMA PostInv ==
    ASSUME CommandsInv, NEW k \in Keys, NEW r \in Requests, NEW body \in SentBodies,
           Post(k, r, body)
    PROVE  CommandsInv'
  <1>. DEFINE q == [req[r] EXCEPT !.stage = "lookup", !.key = k, !.body = body]
              c == [phase |-> "waiting", req |-> r, body |-> body]
  <1>1. body \in Bodies /\ req[r] \in RequestShape /\ RequestOK(req[r])
    BY DEF SentBodies, CommandsInv, CommandsShape, RequestsOK
  <1>2. /\ q \in RequestShape /\ q.stage = "lookup" /\ q.key = k /\ q.body = body
        /\ q.read = req[r].read
    BY <1>1 DEF RequestShape, Stages
  <1>3. req' = [req EXCEPT ![r] = q]
    BY DEF Post, CommandsInv, CommandsShape
  <1>. HIDE DEF q
  <1>4. RequestOK(q) /\ ~Carries(q)
    BY <1>1, <1>2 DEF RequestOK, InService, HasLoaded, Carries
  <1>5. c \in ClientShape /\ c.body = body
    BY <1>1, PV1Assumption DEF ClientShape, ClientPhases, Requests, PV1Assumption
  <1>6. client' = [client EXCEPT ![k] = c]
    BY DEF Post
  <1>. HIDE DEF c
  <1>7. client' \in [Keys -> ClientShape] /\ ClientsOK'
    BY <1>5, <1>6 DEF CommandsInv, CommandsShape, ClientsOK
  <1>. QED
    BY <1>2, <1>3, <1>4, <1>7, Moves DEF Post

LEMMA SendInv ==
    ASSUME CommandsInv, NEW k \in Keys, NEW r \in Requests, Send(k, r)
    PROVE  CommandsInv'
  <1>1. project \in Views /\ offers \subseteq Results
    BY DEF CommandsInv, CommandsShape
  <1>2. CASE /\ work.kind[k] \in {"edit", "import", "pin"}
             /\ Post(k, r, [kind |-> work.kind[k], seen |-> project, edge |-> None, offer |-> None])
    <2>. DEFINE b == [kind |-> work.kind[k], seen |-> project, edge |-> None, offer |-> None]
    <2>1. b \in SentBodies
      BY <1>1, <1>2 DEF SentBodies, Bodies, Kinds
    <2>. QED
      BY <1>2, <2>1, PostInv
  <1>3. CASE \E e \in EdgeChoices :
                 Post(k, r, [kind |-> "link", seen |-> project, edge |-> e, offer |-> None])
    <2>1. PICK e \in EdgeChoices :
                 Post(k, r, [kind |-> "link", seen |-> project, edge |-> e, offer |-> None])
      BY <1>3
    <2>2. e \in Tasks \X Tasks
      BY PV1Assumption DEF PV1Assumption
    <2>3. [kind |-> "link", seen |-> project, edge |-> e, offer |-> None] \in SentBodies
      BY <1>1, <2>2 DEF SentBodies, Bodies, Kinds
    <2>. QED
      BY <2>1, <2>3, PostInv
  <1>4. CASE \E o \in offers : Post(k, r, [kind |-> "apply", edge |-> None, offer |-> o,
                                           seen |-> [project EXCEPT !.graph = o.base]])
    <2>1. PICK o \in offers : Post(k, r, [kind |-> "apply", edge |-> None, offer |-> o,
                                          seen |-> [project EXCEPT !.graph = o.base]])
      BY <1>4
    <2>2. [project EXCEPT !.graph = o.base] \in Views
      BY <1>1 DEF Views, Results
    <2>3. [kind |-> "apply", edge |-> None, offer |-> o,
           seen |-> [project EXCEPT !.graph = o.base]] \in SentBodies
      BY <1>1, <2>2 DEF SentBodies, Bodies, Kinds
    <2>. QED
      BY <2>1, <2>3, PostInv
  <1>. QED
    BY <1>2, <1>3, <1>4 DEF Send

LEMMA RetryInv ==
    ASSUME CommandsInv, NEW k \in Keys, NEW r \in Requests, Retry(k, r)
    PROVE  CommandsInv'
  <1>1. client[k].body \in SentBodies
    BY DEF Retry, CommandsInv, ClientsOK
  <1>. QED
    BY <1>1, PostInv DEF Retry

\* The screen learns something and sends nothing.
LEMMA ScreenInv ==
    ASSUME CommandsInv, NEW k \in Keys, NEW c \in ClientShape,
           UNCHANGED <<work, project, tasks, edges, plan, records, events, req, offers>>,
           client' = [client EXCEPT ![k] = c], c.body \in SentBodies
    PROVE  CommandsInv'
  <1>1. client' \in [Keys -> ClientShape] /\ ClientsOK'
    BY DEF CommandsInv, CommandsShape, ClientsOK
  <1>2. CommandsShape' /\ CarriersOK' /\ GraphAcyclic'
    BY <1>1 DEF CommandsInv, CommandsShape, CarriersOK, Pending, GraphAcyclic
  <1>3. RequestsOK'
    BY DEF CommandsInv, RequestsOK, RequestOK
  <1>4. LogOK'
    BY DEF CommandsInv, LogOK, OneEffectPerCommand, EventsNumbered, ReviewedIsApplied, EventKeys
  <1>. QED
    BY <1>1, <1>2, <1>3, <1>4 DEF CommandsInv

\* Only the phase of the command changes, and perhaps the revision it will compare.
LEMMA PhaseInv ==
    ASSUME CommandsInv, NEW k \in Keys, NEW phase \in ClientPhases, client[k].phase # "idle",
           UNCHANGED <<work, project, tasks, edges, plan, records, events, req, offers>>,
           \/ client' = [client EXCEPT ![k].phase = phase]
           \/ client' = [client EXCEPT ![k].phase = phase,
                                       ![k].body.seen.revision = project.revision]
    PROVE  CommandsInv'
  <1>1. client[k] \in ClientShape /\ client[k].body \in SentBodies /\ project \in Views
    BY DEF CommandsInv, CommandsShape, ClientsOK
  <1>2. CASE client' = [client EXCEPT ![k].phase = phase]
    <2>. DEFINE c == [client[k] EXCEPT !.phase = phase]
    <2>1. c \in ClientShape /\ c.body \in SentBodies
      BY <1>1 DEF ClientShape
    <2>2. client' = [client EXCEPT ![k] = c]
      BY <1>2 DEF CommandsInv, CommandsShape
    <2>. HIDE DEF c
    <2>. QED
      BY <2>1, <2>2, ScreenInv
  <1>3. CASE client' = [client EXCEPT ![k].phase = phase,
                                      ![k].body.seen.revision = project.revision]
    <2>. DEFINE b == client[k].body
                v == [b.seen EXCEPT !.revision = project.revision]
                d == [b EXCEPT !.seen = v]
                c == [client[k] EXCEPT !.phase = phase, !.body = d]
    <2>1. v \in Views
      BY <1>1 DEF SentBodies, Bodies, Views
    <2>2. client' = [client EXCEPT ![k] = c]
      BY <1>1, <1>3 DEF CommandsInv, CommandsShape, ClientShape, SentBodies, Bodies, Views
    <2>. HIDE DEF v
    <2>3. d \in SentBodies
      BY <1>1, <2>1 DEF SentBodies, Bodies
    <2>. HIDE DEF d
    <2>4. c \in ClientShape /\ c.body \in SentBodies
      BY <1>1, <2>3 DEF ClientShape, SentBodies
    <2>. HIDE DEF c
    <2>. QED
      BY <2>2, <2>4, ScreenInv
  <1>. QED
    BY <1>2, <1>3

LEMMA LearnInv ==
    ASSUME CommandsInv, NEW k \in Keys, Receive(k) \/ LoseResponse(k) \/ Recheck(k)
    PROVE  CommandsInv'
  <1>1. CASE Receive(k)
    BY <1>1, PhaseInv DEF Receive, ClientPhases
  <1>2. CASE LoseResponse(k)
    BY <1>2, PhaseInv DEF LoseResponse, ClientPhases
  <1>3. CASE Recheck(k)
    BY <1>3, PhaseInv DEF Recheck, ClientPhases
  <1>. QED
    BY <1>1, <1>2, <1>3

-----------------------------------------------------------------------------
(* The server. *)

LEMMA ReplayInv ==
    ASSUME CommandsInv, NEW r \in Requests, Replay(r),
           UNCHANGED <<work, project, tasks, edges, plan, records, events, offers, client>>
    PROVE  CommandsInv'
  <1>. DEFINE record == records[req[r].key]
              reply == IF record.body # Body(r) THEN "error"
                       ELSE IF record.status = "applied" THEN "applied" ELSE "empty"
  <1>1. reply \in Replies /\ Answer(r, reply)
    BY DEF Replay, Replies
  <1>. HIDE DEF reply
  <1>. QED
    BY <1>1, AnswerInv

LEMMA LookupInv ==
    ASSUME CommandsInv, NEW r \in Requests, Lookup(r)
    PROVE  CommandsInv'
  <1>1. CASE Goto(r, "reserve")
    <2>. DEFINE q == [req[r] EXCEPT !.stage = "reserve"]
    <2>1. /\ q \in RequestShape /\ req' = [req EXCEPT ![r] = q]
          /\ q.stage = "reserve" /\ q.key = req[r].key /\ q.body = req[r].body
          /\ q.loaded = req[r].loaded /\ q.read = req[r].read
      BY <1>1, GotoRecord DEF Stages
    <2>. HIDE DEF q
    <2>2. RequestOK(q) /\ ~Carries(q)
      BY <2>1 DEF CommandsInv, RequestsOK, RequestOK, InService, HasLoaded, Carries, Lookup
    <2>. QED
      BY <2>1, <2>2, ServerMoves DEF Lookup
  <1>2. CASE Replay(r)
    BY <1>2, ReplayInv DEF Lookup
  <1>. QED
    BY <1>1, <1>2 DEF Lookup

LEMMA LoadInv ==
    ASSUME CommandsInv, NEW r \in Requests, Load(r)
    PROVE  CommandsInv'
  <1>1. CASE Answer(r, "error")
    BY <1>1, AnswerInv DEF Load, Replies
  <1>2. CASE req' = [req EXCEPT ![r].loaded = project,
                 ![r].stage = IF Body(r).kind \in {"edit", "import"} THEN "write" ELSE "inspect"]
    <2>. DEFINE stage == IF Body(r).kind \in {"edit", "import"} THEN "write" ELSE "inspect"
                q == [req[r] EXCEPT !.loaded = project, !.stage = stage]
    <2>1. /\ project \in Views /\ req[r] \in RequestShape /\ RequestOK(req[r])
          /\ req[r].stage = "load"
      BY DEF CommandsInv, CommandsShape, RequestsOK, Load
    <2>2. stage \in Stages /\ stage \in {"write", "inspect"}
          /\ (stage = "write" => req[r].body.kind \in {"edit", "import"})
      BY DEF Stages, Body
    <2>3. req' = [req EXCEPT ![r] = q]
      BY <1>2 DEF CommandsInv, CommandsShape
    <2>. HIDE DEF stage
    <2>4. /\ q \in RequestShape /\ q.stage = stage /\ q.loaded = project
          /\ q.key = req[r].key /\ q.body = req[r].body /\ q.read = req[r].read
      BY <2>1, <2>2 DEF RequestShape
    <2>. HIDE DEF q
    <2>5. RequestOK(q)
      BY <2>1, <2>2, <2>4 DEF RequestOK, InService, HasLoaded, Carries, Views
    <2>6. Carries(q) => Carries(req[r]) /\ q.key = req[r].key
      BY <2>1, <2>4 DEF Carries
    <2>. QED
      BY <2>3, <2>4, <2>5, <2>6, ServerMoves DEF Load
  <1>. QED
    BY <1>1, <1>2 DEF Load


\* A statement that reads and, if all is well, goes on to the next stage.
LEMMA ReadsOn ==
    ASSUME CommandsInv, NEW r \in Requests, NEW stage \in {"edges", "write"},
           NEW read \in Reads, read.sequence <= Len(events), read.tasks \subseteq tasks,
           req[r].stage \in {"inspect", "edges"},
           stage = "write" /\ req[r].body.kind = "link" /\ req[r].loaded = project =>
                req[r].body.edge \notin edges /\ ~Cyclic(edges \cup {req[r].body.edge}),
           stage = "write" /\ req[r].body.kind = "apply" =>
                Result(req[r].loaded.graph, read) = req[r].body.offer /\ read.edges = edges,
           req' = [req EXCEPT ![r] = [req[r] EXCEPT !.stage = stage, !.read = read]],
           UNCHANGED <<work, project, tasks, edges, plan, records, events, offers, client>>
    PROVE  CommandsInv'
  <1>. DEFINE q == [req[r] EXCEPT !.stage = stage, !.read = read]
  <1>1. req[r] \in RequestShape /\ RequestOK(req[r])
    BY DEF CommandsInv, CommandsShape, RequestsOK
  <1>2. /\ q \in RequestShape /\ q.stage = stage /\ q.read = read
        /\ q.key = req[r].key /\ q.body = req[r].body /\ q.loaded = req[r].loaded
    BY <1>1 DEF RequestShape, Stages
  <1>. HIDE DEF q
  <1>3. RequestOK(q)
    BY <1>1, <1>2 DEF RequestOK, InService, HasLoaded, Carries
  <1>4. Carries(q) => Carries(req[r]) /\ q.key = req[r].key
    BY <1>2 DEF Carries
  <1>. QED
    BY <1>2, <1>3, <1>4, ServerMoves DEF q

LEMMA InspectInv ==
    ASSUME CommandsInv, NEW r \in Requests, Inspect(r)
    PROVE  CommandsInv'
  <1>1. /\ req[r] \in RequestShape /\ tasks \subseteq Tasks /\ plan \in Plans
        /\ Len(events) \in Nat /\ req[r].read \in Reads
        /\ req[r].read.sequence <= Len(events) /\ req[r].read.tasks \subseteq tasks
    <2>1. req[r] \in RequestShape /\ RequestOK(req[r])
      BY DEF CommandsInv, CommandsShape, RequestsOK
    <2>2. /\ req[r].read \in Reads /\ req[r].read.sequence <= Len(events)
          /\ req[r].read.tasks \subseteq tasks
      BY <2>1 DEF RequestShape, RequestOK
    <2>. QED
      BY <2>1, <2>2 DEF CommandsInv, CommandsShape
  <1>2. CASE Answer(r, "error")
    BY <1>2, AnswerInv DEF Inspect, Replies
  <1>3. CASE /\ Body(r).kind = "pin"
             /\ req' = [req EXCEPT ![r].stage = "write", ![r].read.sequence = Len(events)]
    <2>. DEFINE read == [req[r].read EXCEPT !.sequence = Len(events)]
    <2>1. read \in Reads /\ read.sequence <= Len(events) /\ read.tasks \subseteq tasks
      BY <1>1 DEF Reads
    <2>2. req' = [req EXCEPT ![r] = [req[r] EXCEPT !.stage = "write", !.read = read]]
      BY <1>1, <1>3 DEF CommandsInv, CommandsShape, RequestShape
    <2>. HIDE DEF read
    <2>. QED
      BY <1>3, <2>1, <2>2, ReadsOn DEF Inspect, Body
  <1>4. CASE req' = [req EXCEPT ![r].stage = "edges", ![r].read.tasks = tasks,
                                ![r].read.plan = plan]
    <2>. DEFINE read == [req[r].read EXCEPT !.tasks = tasks, !.plan = plan]
    <2>1. read \in Reads /\ read.sequence <= Len(events) /\ read.tasks \subseteq tasks
      BY <1>1 DEF Reads
    <2>2. req' = [req EXCEPT ![r] = [req[r] EXCEPT !.stage = "edges", !.read = read]]
      BY <1>1, <1>4 DEF CommandsInv, CommandsShape, RequestShape
    <2>. HIDE DEF read
    <2>. QED
      BY <2>1, <2>2, ReadsOn DEF Inspect
  <1>. QED
    BY <1>2, <1>3, <1>4 DEF Inspect

LEMMA InspectEdgesInv ==
    ASSUME CommandsInv, NEW r \in Requests, InspectEdges(r)
    PROVE  CommandsInv'
  <1>1. /\ req[r] \in RequestShape /\ edges \subseteq Tasks \X Tasks
        /\ Len(events) \in Nat /\ req[r].read \in Reads
        /\ req[r].read.sequence <= Len(events) /\ req[r].read.tasks \subseteq tasks
    <2>1. req[r] \in RequestShape /\ RequestOK(req[r])
      BY DEF CommandsInv, CommandsShape, RequestsOK
    <2>2. /\ req[r].read \in Reads /\ req[r].read.sequence <= Len(events)
          /\ req[r].read.tasks \subseteq tasks
      BY <2>1 DEF RequestShape, RequestOK
    <2>. QED
      BY <2>1, <2>2 DEF CommandsInv, CommandsShape
  <1>2. CASE Answer(r, "error")
    BY <1>2, AnswerInv DEF InspectEdges, Replies
  <1>3. CASE /\ IF Body(r).kind = "link" THEN LinkAllowed(Body(r)) ELSE StillReviewed(r)
             /\ req' = [req EXCEPT ![r].stage = "write", ![r].read.edges = edges]
    <2>. DEFINE read == [req[r].read EXCEPT !.edges = edges]
    <2>1. read \in Reads /\ read.sequence <= Len(events) /\ read.tasks \subseteq tasks
      BY <1>1 DEF Reads
    <2>2. req' = [req EXCEPT ![r] = [req[r] EXCEPT !.stage = "write", !.read = read]]
      BY <1>1, <1>3 DEF CommandsInv, CommandsShape, RequestShape
    <2>3. req[r].body.kind = "link" =>
              req[r].body.edge \notin edges /\ ~Cyclic(edges \cup {req[r].body.edge})
      BY <1>3 DEF LinkAllowed, Body
    <2>4. req[r].body.kind = "apply" => Result(req[r].loaded.graph, read) = req[r].body.offer
      BY <1>3 DEF StillReviewed, Body, Loaded
    <2>5. read.edges = edges
      BY <1>1 DEF Reads
    <2>. HIDE DEF read
    <2>. QED
      BY <2>1, <2>2, <2>3, <2>4, <2>5, ReadsOn DEF InspectEdges
  <1>. QED
    BY <1>2, <1>3 DEF InspectEdges

LEMMA CrashInv ==
    ASSUME CommandsInv, NEW r \in Requests, Crash(r)
    PROVE  CommandsInv'
  <1>. DEFINE q == [FreeRequest EXCEPT !.stage = "gone"]
  <1>1. FreeRequest \in RequestShape /\ FreeRequest.read.sequence = 0 /\ FreeRequest.read.tasks = {}
    BY DEF FreeRequest, RequestShape, NoRead, Reads, Plans, Stages, Replies
  <1>2. q \in RequestShape /\ q.stage = "gone" /\ q.read = FreeRequest.read
    BY <1>1 DEF RequestShape, Stages
  <1>3. req' = [req EXCEPT ![r] = q]
    BY DEF Crash
  <1>. HIDE DEF q
  <1>4. Len(events) \in Nat
    BY DEF CommandsInv, CommandsShape
  <1>5. RequestOK(q) /\ ~Carries(q)
    BY <1>1, <1>2, <1>4 DEF RequestOK, InService, HasLoaded, Carries
  <1>. QED
    BY <1>2, <1>3, <1>5, ServerMoves DEF Crash

\* The first request of a command id takes it: nobody carries it yet.
LEMMA ReserveInv ==
    ASSUME CommandsInv, NEW r \in Requests, Reserve(r)
    PROVE  CommandsInv'
  <1>1. CASE records[req[r].key] # None
    BY <1>1, ReplayInv DEF Reserve
  <1>2. CASE records[req[r].key] = None
    <2>. DEFINE k == req[r].key
                q == [req[r] EXCEPT !.stage = "load"]
                record == [body |-> Body(r), status |-> "pending"]
    <2>1. /\ req[r] \in RequestShape /\ RequestOK(req[r]) /\ req[r].stage = "reserve"
          /\ req \in [Requests -> RequestShape]
      BY DEF CommandsInv, CommandsShape, RequestsOK, Reserve
    <2>2. k \in Keys /\ Body(r) \in Bodies
      BY <2>1 DEF RequestOK, InService, SentBodies, Body
    <2>3. record \in Records /\ record # None /\ record.status = "pending"
      BY <2>2, PV1Assumption DEF Records, PV1Assumption
    <2>4. /\ Goto(r, "load")
          /\ records' = [records EXCEPT ![k] = record]
          /\ UNCHANGED <<work, project, tasks, edges, plan, events, offers, client>>
      BY <1>2 DEF Reserve
    <2>5. /\ q \in RequestShape /\ req' = [req EXCEPT ![r] = q]
          /\ q.stage = "load" /\ q.key = req[r].key /\ q.body = req[r].body
          /\ q.loaded = req[r].loaded /\ q.read = req[r].read
      BY <2>4, GotoRecord DEF Stages
    <2>. HIDE DEF q, record
    <2>6. /\ req'[r] = q /\ \A s \in Requests : s # r => req'[s] = req[s]
          /\ records'[k] = record /\ \A j \in Keys : j # k => records'[j] = records[j]
      BY <2>1, <2>2, <2>4, <2>5 DEF CommandsInv, CommandsShape
    <2>7. CommandsShape'
      BY <2>2, <2>3, <2>4, <2>5 DEF CommandsInv, CommandsShape
    <2>8. ClientsOK' /\ GraphAcyclic'
      BY <2>4 DEF CommandsInv, ClientsOK, GraphAcyclic
    <2>9. RequestsOK'
      <3>. SUFFICES ASSUME NEW s \in Requests PROVE RequestOK(req[s])'
        BY DEF RequestsOK
      <3>1. CASE s = r
        BY <3>1, <2>1, <2>4, <2>5, <2>6 DEF RequestOK, InService, HasLoaded, Carries
      <3>2. CASE s # r
        BY <3>2, <2>4, <2>6 DEF RequestOK, CommandsInv, RequestsOK
      <3>. QED  BY <3>1, <3>2
    <2>10. \A s \in Requests : Carries(req[s]) => req[s].key # k /\ req[s].key \in Keys
      BY <1>2 DEF CommandsInv, CarriersOK, Pending, RequestsOK, RequestOK, InService
    <2>11. CarriersOK'
      BY <2>3, <2>5, <2>6, <2>10 DEF CommandsInv, CarriersOK, Pending
    <2>12. LogOK'
      <3>1. events' = events /\ EventKeys' = EventKeys
        BY <2>4 DEF EventKeys
      <3>2. k \notin EventKeys
        BY <1>2, <2>2 DEF CommandsInv, LogOK, OneEffectPerCommand
      <3>3. OneEffectPerCommand'
        BY <2>3, <2>6, <3>1, <3>2 DEF CommandsInv, LogOK, OneEffectPerCommand
      <3>. QED
        BY <3>1, <3>3 DEF CommandsInv, LogOK, EventsNumbered, ReviewedIsApplied
    <2>. QED
      BY <2>7, <2>8, <2>9, <2>11, <2>12 DEF CommandsInv
  <1>. QED
    BY <1>1, <1>2


LEMMA SetViews ==
    ASSUME NEW v \in Views, NEW a \in Nat, NEW b \in Nat
    PROVE  /\ [v EXCEPT !.revision = a, !.graph = b] \in Views
           /\ [v EXCEPT !.revision = a, !.graph = b].revision = a
  BY DEF Views

\* Every change but a pin's, and a late import's, raises the revision.
LEMMA CommitRaises ==
    ASSUME CommandsInv, NEW r \in Requests, Commit(r), MustMatch(r) => Matches(r),
           Body(r) \in SentBodies
    PROVE  /\ project' \in Views
           /\ project' = project \/ project'.revision = project.revision + 1
           /\ Body(r).kind = "link" => Loaded(r) = project /\ project' # project
  <1>1. project \in Views /\ Body(r).kind \in Kinds
    BY DEF CommandsInv, CommandsShape, SentBodies, Bodies
  <1>2. Cardinality(Imported) \in Nat
    BY PV1Assumption, FS_CardinalityType DEF PV1Assumption
  <1>3. project' = IF Matches(r) THEN Bumped(Body(r)) ELSE project
    BY DEF Commit
  <1>. DEFINE raised(n) == [project EXCEPT !.revision = @ + 1, !.graph = @ + n]
  <1>8. ASSUME NEW n \in Nat
        PROVE  raised(n) \in Views /\ raised(n).revision = project.revision + 1
    <2>1. project.revision + 1 \in Nat /\ project.graph + n \in Nat
      BY <1>1 DEF Views
    <2>. QED
      BY <1>1, <2>1, SetViews
  <1>4. CASE Body(r).kind = "pin"
    BY <1>1, <1>3, <1>4 DEF Bumped
  <1>5. CASE Body(r).kind = "import"
    <2>1. project' = project \/ project' = raised(Cardinality(Imported))
      BY <1>3, <1>5 DEF Bumped
    <2>. QED
      BY <1>1, <1>2, <1>5, <1>8, <2>1
  <1>6. CASE Body(r).kind = "edit"
    BY <1>1, <1>3, <1>6 DEF Bumped, Views
  <1>7. CASE Body(r).kind \in {"link", "apply"}
    <2>1. Matches(r) /\ Loaded(r) = project
      BY <1>7 DEF MustMatch, Matches
    <2>2. project' = raised(1)
      BY <1>3, <1>7, <2>1 DEF Bumped
    <2>3. project' \in Views /\ project'.revision = project.revision + 1
      BY <1>8, <2>2
    <2>. QED
      BY <1>1, <2>1, <2>3 DEF Views
  <1>. QED
    BY <1>1, <1>4, <1>5, <1>6, <1>7 DEF Kinds

\* The number the new event takes is the next one, or it is taken.
LEMMA NextSequence ==
    ASSUME CommandsInv, NEW r \in Requests, ~SequenceTaken(EventSequence(r))
    PROVE  EventSequence(r) = Len(events) + 1
  <1>1. req[r].read.sequence \in Nat /\ req[r].read.sequence <= Len(events)
    <2>1. req[r] \in RequestShape /\ RequestOK(req[r])
      BY DEF CommandsInv, CommandsShape, RequestsOK
    <2>. QED
      BY <2>1 DEF RequestShape, Reads, RequestOK
  <1>2. Len(events) \in Nat /\ DOMAIN events = 1..Len(events)
    BY DEF CommandsInv, CommandsShape
  <1>3. \A n \in 1..Len(events) : SequenceTaken(n)
    BY <1>2 DEF CommandsInv, LogOK, EventsNumbered, SequenceTaken
  <1>4. EventSequence(r) \in 1..(Len(events) + 1)
    BY <1>1, <1>2 DEF EventSequence
  <1>. QED
    BY <1>2, <1>3, <1>4

LEMMA CommitInv ==
    ASSUME CommandsInv, NEW r \in Requests, req[r].stage = "write", MustMatch(r) => Matches(r),
           ~SequenceTaken(EventSequence(r)), Commit(r), UNCHANGED <<work, offers, client>>
    PROVE  CommandsInv'
  <1>. DEFINE k == req[r].key
              e == Event(r)
              record == [records[k] EXCEPT !.status = "applied"]
              q == [FreeRequest EXCEPT !.stage = "done", !.reply = "applied"]
  <1>1. /\ req[r] \in RequestShape /\ RequestOK(req[r]) /\ req[r].read \in Reads
        /\ k \in Keys /\ Body(r) \in SentBodies /\ Loaded(r) \in Views
    <2>1. req[r] \in RequestShape /\ RequestOK(req[r])
      BY DEF CommandsInv, CommandsShape, RequestsOK
    <2>2. InService(req[r]) /\ HasLoaded(req[r])
      BY DEF InService, Carries, HasLoaded
    <2>. QED
      BY <2>1, <2>2 DEF RequestShape, RequestOK, Body, Loaded
  <1>2. Pending(k) /\ records[k] \in Records
    BY <1>1 DEF CommandsInv, CommandsShape, CarriersOK, Carries, Pending
  <1>3. record \in Records /\ record # None /\ record.status = "applied"
    BY <1>2, PV1Assumption DEF Records, PV1Assumption
  <1>4. q \in RequestShape /\ RequestOK(q) /\ ~Carries(q)
    BY Ends DEF Replies
  <1>5. /\ project' \in Views
        /\ project' = project \/ project'.revision = project.revision + 1
        /\ Body(r).kind = "link" => Loaded(r) = project /\ project' # project
    BY <1>1, CommitRaises
  <1>6. /\ events' = Append(events, e) /\ records' = [records EXCEPT ![k] = record]
        /\ req' = [req EXCEPT ![r] = q]
        /\ edges' = IF Body(r).kind = "link" THEN edges \cup {Body(r).edge} ELSE edges
    BY DEF Commit, Answer, CommandsInv, CommandsShape
  <1>7. /\ e.key = k /\ e.sequence = Len(events) + 1 /\ e.kind = Body(r).kind
        /\ e.reviewed = Body(r).offer
        /\ e.wrote = IF Body(r).kind = "apply" THEN Result(Loaded(r).graph, req[r].read) ELSE None
    BY NextSequence DEF Event
  <1>8. e \in EventShape
    <2>1. Result(Loaded(r).graph, req[r].read) \in Results
      BY <1>1 DEF Result, Results, Views, Reads
    <2>2. Len(events) + 1 \in Nat /\ Body(r).kind \in Kinds /\ Body(r).offer \in Results \cup {None}
      BY <1>1 DEF CommandsInv, CommandsShape, SentBodies, Bodies
    <2>. QED
      BY <1>1, <2>1, <2>2, NextSequence DEF Event, EventShape
  <1>. HIDE DEF q, record, e
  <1>9. /\ req'[r] = q /\ \A s \in Requests : s # r => req'[s] = req[s]
        /\ records'[k] = record /\ \A j \in Keys : j # k => records'[j] = records[j]
    BY <1>1, <1>6 DEF CommandsInv, CommandsShape
  <1>10. /\ events \in Seq(EventShape) /\ events' \in Seq(EventShape)
         /\ Len(events') = Len(events) + 1 /\ events'[Len(events) + 1] = e
         /\ \A i \in 1..Len(events) : events'[i] = events[i]
    BY <1>6, <1>8 DEF CommandsInv, CommandsShape
  <1>11. CommandsShape'
    <2>1. tasks' \subseteq Tasks
      BY PV1Assumption DEF PV1Assumption, Commit, CommandsInv, CommandsShape
    <2>2. edges' \subseteq Tasks \X Tasks
      BY <1>1, <1>6 DEF CommandsInv, CommandsShape, SentBodies
    <2>3. plan' \in Plans
      BY <1>1 DEF Commit, CommandsInv, CommandsShape, Plans, Reads
    <2>4. records' \in [Keys -> Records \cup {None}] /\ req' \in [Requests -> RequestShape]
      BY <1>1, <1>3, <1>4, <1>6 DEF CommandsInv, CommandsShape
    <2>. QED
      BY <1>5, <1>10, <2>1, <2>2, <2>3, <2>4 DEF CommandsInv, CommandsShape
  <1>12. ClientsOK'
    BY DEF CommandsInv, ClientsOK
  <1>13. RequestsOK'
    <2>. SUFFICES ASSUME NEW s \in Requests PROVE RequestOK(req[s])'
      BY DEF RequestsOK
    <2>1. Len(events) \in Nat /\ Len(events') = Len(events) + 1
      BY <1>10
    <2>2. CASE s = r
      <3>1. /\ q.stage \notin {"lookup", "reserve", "load", "inspect", "edges", "write"}
            /\ q.read.sequence <= Len(events) /\ q.read.sequence \in Nat
            /\ q.read.tasks = {}
        <4>1. q.read = NoRead /\ q.stage = "done"
          BY DEF q, FreeRequest
        <4>. QED
          BY <2>1, <4>1 DEF NoRead
      <3>. QED
        BY <2>1, <2>2, <3>1, <1>9 DEF RequestOK, InService, HasLoaded, Carries
    <2>3. CASE s # r
      <3>1. req'[s] = req[s] /\ RequestOK(req[s]) /\ req[s] \in RequestShape
        BY <1>9, <2>3 DEF CommandsInv, CommandsShape, RequestsOK
      <3>2. req[s].read.sequence \in Nat /\ project \in Views
        BY <3>1 DEF CommandsInv, CommandsShape, RequestShape, Reads
      <3>3. HasLoaded(req[s]) => req[s].loaded \in Views /\ req[s].loaded.revision <= project'.revision
        BY <1>5, <3>1, <3>2 DEF RequestOK, Views
      <3>4. HasLoaded(req[s]) /\ req[s].loaded = project' => project' = project /\ edges' = edges
        BY <1>5, <1>6, <3>1, <3>2 DEF RequestOK, Views
      <3>5. /\ req[s].stage = "write" /\ req[s].body.kind = "link" /\ req[s].loaded = project' =>
                    /\ req[s].body.edge \notin edges'
                    /\ ~Cyclic(edges' \cup {req[s].body.edge})
            /\ req[s].stage = "write" /\ req[s].body.kind = "apply" /\ req[s].loaded = project' =>
                    req[s].read.edges = edges'
        BY <3>1, <3>4 DEF RequestOK, HasLoaded
      <3>6. /\ InService(req[s]) => req[s].key \in Keys /\ req[s].body \in SentBodies
            /\ req[s].read.sequence <= Len(events')
            /\ req[s].read.tasks \subseteq tasks'
            /\ req[s].stage = "write" /\ req[s].body.kind = "apply" =>
                  Result(req[s].loaded.graph, req[s].read) = req[s].body.offer
        BY <2>1, <3>1, <3>2 DEF RequestOK, Commit
      <3>. QED
        BY <3>1, <3>3, <3>5, <3>6 DEF RequestOK, HasLoaded, InService, Carries
    <2>. QED
      BY <2>2, <2>3
  <1>14. CarriersOK'
    <2>1. \A s \in Requests : s # r /\ Carries(req[s]) => req[s].key # k /\ req[s].key \in Keys
      BY DEF CommandsInv, CarriersOK, Carries, RequestsOK, RequestOK, InService
    <2>. QED
      BY <1>4, <1>9, <2>1 DEF CommandsInv, CarriersOK, Pending, Carries
  <1>15. LogOK'
    <2>1. DOMAIN events = 1..Len(events) /\ DOMAIN events' = 1..(Len(events) + 1) /\ Len(events) \in Nat
      BY <1>10
    <2>2. k \notin EventKeys
      BY <1>1, <1>2 DEF CommandsInv, LogOK, OneEffectPerCommand, Pending
    <2>3. EventKeys' = EventKeys \cup {k}
      BY <1>7, <1>10, <2>1 DEF EventKeys
    <2>4. \A i, j \in DOMAIN events' : events'[i].key = events'[j].key => i = j
      <3>1. \A i \in 1..Len(events) : events'[i].key # k
        BY <1>10, <2>1, <2>2 DEF EventKeys
      <3>2. \A i, j \in 1..Len(events) : events'[i].key = events'[j].key => i = j
        BY <1>10, <2>1 DEF CommandsInv, LogOK, OneEffectPerCommand
      <3>. QED
        BY <1>7, <1>10, <2>1, <3>1, <3>2
    <2>5. \A j \in Keys : j \in EventKeys' <=> records'[j] # None /\ records'[j].status = "applied"
      BY <1>3, <1>9, <2>3 DEF CommandsInv, LogOK, OneEffectPerCommand
    <2>6. EventsNumbered'
      BY <1>7, <1>10, <2>1 DEF CommandsInv, LogOK, EventsNumbered
    <2>7. e.kind = "apply" => e.wrote = e.reviewed
      BY <1>1, <1>7 DEF RequestOK, Body, Loaded
    <2>8. ReviewedIsApplied'
      BY <1>10, <2>1, <2>7 DEF CommandsInv, LogOK, ReviewedIsApplied
    <2>. QED
      BY <2>4, <2>5, <2>6, <2>8 DEF LogOK, OneEffectPerCommand
  <1>16. GraphAcyclic'
    <2>1. CASE Body(r).kind = "link"
      BY <1>1, <1>5, <1>6, <2>1 DEF RequestOK, Body, Loaded, GraphAcyclic
    <2>2. CASE Body(r).kind # "link"
      BY <1>6, <2>2 DEF CommandsInv, GraphAcyclic
    <2>. QED
      BY <2>1, <2>2
  <1>. QED
    BY <1>11, <1>12, <1>13, <1>14, <1>15, <1>16 DEF CommandsInv

LEMMA WriteInv ==
    ASSUME CommandsInv, NEW r \in Requests, Write(r)
    PROVE  CommandsInv'
  <1>1. CASE Answer(r, "error") /\ UNCHANGED <<project, tasks, edges, plan, records, events>>
    BY <1>1, AnswerInv DEF Write, Replies
  <1>2. CASE (MustMatch(r) => Matches(r)) /\ ~SequenceTaken(EventSequence(r)) /\ Commit(r)
    BY <1>2, CommitInv DEF Write
  <1>. QED
    BY <1>1, <1>2 DEF Write

LEMMA CommandsNextInv == CommandsInv /\ CommandsNext => CommandsInv'
  <1>. SUFFICES ASSUME CommandsInv, CommandsNext PROVE CommandsInv'
    OBVIOUS
  <1>1. ASSUME NEW k \in Keys, NEW r \in Requests, Send(k, r) \/ Retry(k, r)
        PROVE  CommandsInv'
    BY <1>1, SendInv, RetryInv
  <1>2. ASSUME NEW k \in Keys, Receive(k) \/ LoseResponse(k) \/ Recheck(k)
        PROVE  CommandsInv'
    BY <1>2, LearnInv
  <1>3. ASSUME NEW r \in Requests, Serve(r) \/ Crash(r)
        PROVE  CommandsInv'
    BY <1>3, LookupInv, ReserveInv, LoadInv, InspectInv, InspectEdgesInv, WriteInv, CrashInv
    DEF Serve
  <1>. QED
    BY <1>1, <1>2, <1>3 DEF CommandsNext


-----------------------------------------------------------------------------
(* Nobody takes up a pending record again. *)

\* A request comes to carry a command id only by inserting its record.
LEMMA CarriersComeFromReserve ==
    ASSUME CommandsInv, NEW r \in Requests, Serve(r) \/ Crash(r)
    PROVE  /\ \A s \in Requests : s # r => req'[s] = req[s]
           /\ Carries(req'[r]) => req'[r].key = req[r].key
           /\ Carries(req'[r]) /\ ~Carries(req[r]) => records[req[r].key] = None
  <1>0. req \in [Requests -> RequestShape]
    BY DEF CommandsInv, CommandsShape
  <1>1. ASSUME NEW reply, Answer(r, reply)
        PROVE  req'[r].stage = "done" /\ \A s \in Requests : s # r => req'[s] = req[s]
    BY <1>0, <1>1 DEF Answer, FreeRequest, RequestShape
  <1>2. CASE Lookup(r) \/ Reserve(r)
    <2>1. CASE Replay(r)
      BY <1>1, <2>1 DEF Replay, Carries
    <2>2. CASE Lookup(r) /\ Goto(r, "reserve")
      BY <1>0, <2>2 DEF Goto, Carries, RequestShape
    <2>3. CASE Goto(r, "load") /\ records[req[r].key] = None
      BY <1>0, <2>3 DEF Goto, RequestShape
    <2>. QED
      BY <1>2, <2>1, <2>2, <2>3 DEF Lookup, Reserve
  <1>3. CASE Load(r)
    <2>1. CASE Answer(r, "error")
      BY <1>1, <2>1 DEF Carries
    <2>2. CASE req' = [req EXCEPT ![r].loaded = project, ![r].stage =
                          IF Body(r).kind \in {"edit", "import"} THEN "write" ELSE "inspect"]
      BY <1>0, <1>3, <2>2 DEF Load, Carries, RequestShape
    <2>. QED
      BY <1>3, <2>1, <2>2 DEF Load
  <1>4. CASE Inspect(r)
    <2>1. CASE Answer(r, "error")
      BY <1>1, <2>1 DEF Carries
    <2>2. CASE req' = [req EXCEPT ![r].stage = "write", ![r].read.sequence = Len(events)]
      BY <1>0, <1>4, <2>2 DEF Inspect, Carries, RequestShape
    <2>3. CASE req' = [req EXCEPT ![r].stage = "edges", ![r].read.tasks = tasks,
                                  ![r].read.plan = plan]
      BY <1>0, <1>4, <2>3 DEF Inspect, Carries, RequestShape
    <2>. QED
      BY <1>4, <2>1, <2>2, <2>3 DEF Inspect
  <1>5. CASE InspectEdges(r)
    <2>1. CASE Answer(r, "error")
      BY <1>1, <2>1 DEF Carries
    <2>2. CASE req' = [req EXCEPT ![r].stage = "write", ![r].read.edges = edges]
      BY <1>0, <1>5, <2>2 DEF InspectEdges, Carries, RequestShape
    <2>. QED
      BY <1>5, <2>1, <2>2 DEF InspectEdges
  <1>6. CASE Write(r)
    BY <1>1, <1>6 DEF Write, Commit, Carries
  <1>7. CASE Crash(r)
    BY <1>0, <1>7 DEF Crash, FreeRequest, Carries, RequestShape
  <1>. QED
    BY <1>2, <1>3, <1>4, <1>5, <1>6, <1>7 DEF Serve

\* A record changes only at its insertion, and at the hand of its carrier.
LEMMA RecordsChange ==
    ASSUME CommandsInv, NEW r \in Requests, Serve(r) \/ Crash(r), NEW k \in Keys,
           records[k] # None, ~(Carries(req[r]) /\ req[r].key = k)
    PROVE  records'[k] = records[k]
  <1>1. records \in [Keys -> Records \cup {None}]
    BY DEF CommandsInv, CommandsShape
  <1>2. CASE Reserve(r)
    BY <1>1, <1>2 DEF Reserve
  <1>3. CASE Write(r)
    <2>1. CASE Commit(r)
      BY <1>1, <1>3, <2>1 DEF Write, Commit, Carries
    <2>. QED
      BY <1>3, <2>1 DEF Write
  <1>4. CASE Lookup(r) \/ Load(r) \/ Inspect(r) \/ InspectEdges(r) \/ Crash(r)
    BY <1>4 DEF Lookup, Load, Inspect, InspectEdges, Crash
  <1>. QED
    BY <1>2, <1>3, <1>4 DEF Serve

LEMMA StrandedStays ==
    ASSUME CommandsInv, CommandsNext, NEW k \in Keys, Stranded(k)
    PROVE  Stranded(k)'
  <1>1. \A s \in Requests : ~(Carries(req[s]) /\ req[s].key = k)
    BY DEF Stranded, Carries
  <1>2. SUFFICES /\ records'[k] = records[k]
                 /\ \A s \in Requests : ~(Carries(req'[s]) /\ req'[s].key = k)
    BY DEF Stranded, Carries
  <1>3. ASSUME NEW r \in Requests, Serve(r) \/ Crash(r)
        PROVE  /\ records'[k] = records[k]
               /\ \A s \in Requests : ~(Carries(req'[s]) /\ req'[s].key = k)
    <2>1. records[k] # None
      BY DEF Stranded
    <2>2. records'[k] = records[k]
      BY <1>1, <1>3, <2>1, RecordsChange
    <2>3. /\ \A s \in Requests : s # r => req'[s] = req[s]
          /\ Carries(req'[r]) => req'[r].key = req[r].key
          /\ Carries(req'[r]) /\ ~Carries(req[r]) => records[req[r].key] = None
      BY <1>3, CarriersComeFromReserve
    <2>. QED
      BY <1>1, <2>1, <2>2, <2>3 DEF Carries
  <1>4. ASSUME NEW j \in Keys, NEW r \in Requests, NEW body, Post(j, r, body)
        PROVE  /\ records'[k] = records[k]
               /\ \A s \in Requests : ~(Carries(req'[s]) /\ req'[s].key = k)
    <2>1. req \in [Requests -> RequestShape]
      BY DEF CommandsInv, CommandsShape
    <2>2. req'[r].stage = "lookup" /\ \A s \in Requests : s # r => req'[s] = req[s]
      BY <1>4, <2>1 DEF Post, RequestShape
    <2>. QED
      BY <1>1, <1>4, <2>2 DEF Post, Carries
  <1>5. ASSUME NEW j \in Keys, Receive(j) \/ LoseResponse(j) \/ Recheck(j)
        PROVE  UNCHANGED <<records, req>>
    BY <1>5 DEF Receive, LoseResponse, Recheck
  <1>6. ASSUME NEW j \in Keys, NEW r \in Requests, Send(j, r) \/ Retry(j, r)
        PROVE  \E body : Post(j, r, body)
    BY <1>6 DEF Send, Retry
  <1>. QED
    BY <1>1, <1>3, <1>4, <1>5, <1>6 DEF CommandsNext

\* The invariant says of the state more than the types do.
LEMMA CommandsInvTypes == CommandsInv => CommandsTypeOK
  BY DEF CommandsInv, CommandsShape, CommandsTypeOK, RequestShape, ClientShape, Records, Plans
-----------------------------------------------------------------------------
(* Every step is a step of AtomicCommands, or changes nothing it speaks of. *)

Carried(k) == \E r \in Requests : Carries(req[r]) /\ req[r].key = k

Outcomes == [k \in Keys |-> Outcome(k)]
AppliedKeys == [i \in DOMAIN events |-> events[i].key]

LEMMA OutcomeOf ==
    ASSUME NEW k \in Keys
    PROVE  Outcome(k) = IF records[k] = None THEN "new"
                        ELSE IF records[k].status # "pending" THEN "applied"
                        ELSE IF Carried(k) THEN "begun" ELSE "dropped"
  <1>1. Stranded(k) <=> records[k] # None /\ records[k].status = "pending" /\ ~Carried(k)
    BY DEF Stranded, Carried, Carries
  <1>. QED
    BY <1>1 DEF Outcome

LEMMA OutcomeSame ==
    ASSUME NEW k \in Keys, records'[k] = records[k], Carried(k)' <=> Carried(k)
    PROVE  Outcome(k)' = Outcome(k)
  <1>1. Stranded(k) <=> records[k] # None /\ records[k].status = "pending" /\ ~Carried(k)
    BY DEF Stranded, Carried, Carries
  <1>2. Stranded(k)' <=> records'[k] # None /\ records'[k].status = "pending" /\ ~Carried(k)'
    BY DEF Stranded, Carried, Carries
  <1>. QED
    BY <1>1, <1>2 DEF Outcome

\* What one request does concerns its own command id only.
LEMMA OthersCarried ==
    ASSUME NEW r \in Requests, \A s \in Requests : s # r => req'[s] = req[s],
           Carries(req'[r]) => req'[r].key = req[r].key,
           NEW k \in Keys, Carries(req[r]) \/ Carries(req'[r]) => k # req[r].key
    PROVE  Carried(k)' <=> Carried(k)
  BY DEF Carried

\* The outcomes when that of one command id becomes another.
LEMMA OneBecomes ==
    ASSUME NEW k \in Keys, \A j \in Keys : j # k => Outcome(j)' = Outcome(j),
           NEW o, Outcome(k)' = o
    PROVE  Outcomes' = [Outcomes EXCEPT ![k] = o]
  BY DEF Outcomes

\* A request that neither begins nor finishes a command goes on or drops it.
LEMMA GoesOnOrDrops ==
    ASSUME CommandsInv, NEW r \in Requests, Serve(r) \/ Crash(r),
           UNCHANGED <<records, events, tasks, edges, plan>>
    PROVE  \/ UNCHANGED <<Outcomes, AppliedKeys, tasks, edges, plan>>
           \/ \E k \in Keys : Atomic!Drop(k)
  <1>0. PICK k : k = req[r].key
    OBVIOUS
  <1>. USE <1>0
  <1>1. /\ \A s \in Requests : s # r => req'[s] = req[s]
        /\ Carries(req'[r]) => req'[r].key = k
        /\ Carries(req'[r]) /\ ~Carries(req[r]) => records[k] = None
    BY CarriersComeFromReserve
  <1>2. CommandsInv'
    BY LookupInv, ReserveInv, LoadInv, InspectInv, InspectEdgesInv, WriteInv, CrashInv DEF Serve
  <1>3. Carries(req'[r]) => Carries(req[r])
    BY <1>1, <1>2 DEF CommandsInv, CarriersOK, Pending
  <1>4. AppliedKeys' = AppliedKeys
    BY DEF AppliedKeys
  <1>5. CASE Carries(req[r]) /\ ~Carries(req'[r])
    <2>1. k \in Keys /\ Pending(k) /\ Carried(k)
      BY <1>5 DEF CommandsInv, RequestsOK, RequestOK, InService, CarriersOK, Carried
    <2>2. ~Carried(k)'
      <3>. SUFFICES ASSUME NEW s \in Requests, Carries(req'[s]), req'[s].key = k PROVE FALSE
        BY DEF Carried
      <3>1. s # r /\ req'[s] = req[s]
        BY <1>1, <1>5
      <3>. QED
        BY <1>5, <3>1 DEF CommandsInv, CarriersOK
    <2>3. Outcome(k) = "begun" /\ Outcome(k)' = "dropped"
      <3>1. Stranded(k)' /\ ~Stranded(k) /\ records'[k] = records[k]
        BY <2>1, <2>2 DEF Stranded, Carried, Carries, Pending
      <3>. QED
        BY <2>1, <3>1 DEF Outcome, Pending
    <2>4. \A j \in Keys : j # k => Outcome(j)' = Outcome(j)
      BY <1>1, <2>1, OthersCarried, OutcomeSame
    <2>5. Outcomes' = [Outcomes EXCEPT ![k] = "dropped"] /\ Outcomes[k] = "begun"
      BY <2>1, <2>3, <2>4, OneBecomes DEF Outcomes
    <2>6. Atomic!Drop(k)
      BY <1>4, <2>5 DEF Atomic!Drop, Atomic!Becomes, Atomic!content, Outcomes, AppliedKeys
    <2>. QED
      BY <2>1, <2>6
  <1>6. CASE Carries(req'[r]) <=> Carries(req[r])
    <2>1. \A j \in Keys : Carried(j)' <=> Carried(j)
      BY <1>1, <1>6 DEF Carried
    <2>2. \A j \in Keys : Outcome(j)' = Outcome(j)
      BY <2>1, OutcomeSame
    <2>3. Outcomes' = Outcomes
      BY <2>2 DEF Outcomes
    <2>. QED
      BY <1>4, <2>3
  <1>. QED
    BY <1>3, <1>5, <1>6

\* The insertion of the record begins the command.
LEMMA ReserveBegins ==
    ASSUME CommandsInv, NEW r \in Requests, Reserve(r), records[req[r].key] = None
    PROVE  \E k \in Keys : Atomic!Begin(k)
  <1>0. PICK k : k = req[r].key
    OBVIOUS
  <1>. USE <1>0
  <1>. DEFINE record == [body |-> Body(r), status |-> "pending"]
  <1>1. /\ k \in Keys /\ record \in Records /\ req[r].stage = "reserve"
        /\ req \in [Requests -> RequestShape] /\ records \in [Keys -> Records \cup {None}]
    BY DEF CommandsInv, CommandsShape, RequestsOK, RequestOK, InService, Reserve, Body,
           SentBodies, Records
  <1>2. record # None /\ record.status = "pending"
    BY <1>1, PV1Assumption DEF PV1Assumption
  <1>3. /\ Goto(r, "load") /\ records' = [records EXCEPT ![k] = record]
        /\ UNCHANGED <<events, tasks, edges, plan>>
    BY DEF Reserve
  <1>. HIDE DEF record
  <1>4. /\ \A s \in Requests : s # r => req'[s] = req[s]
        /\ Carries(req'[r]) /\ req'[r].key = k
    BY <1>1, <1>3 DEF Goto, Carries, RequestShape
  <1>5. Outcome(k) = "new" /\ Outcome(k)' = "begun"
    <2>1. records'[k] = record /\ Carried(k)'
      BY <1>1, <1>3, <1>4 DEF Carried
    <2>2. ~Stranded(k)'
      BY <2>1 DEF Stranded, Carried, Carries
    <2>. QED
      BY <1>2, <2>1, <2>2 DEF Outcome
  <1>6. \A j \in Keys : j # k => Outcome(j)' = Outcome(j)
    <2>1. \A j \in Keys : j # k => records'[j] = records[j]
      BY <1>1, <1>3
    <2>. QED
      BY <1>4, <2>1, OthersCarried, OutcomeSame
  <1>7. Outcomes' = [Outcomes EXCEPT ![k] = "begun"] /\ Outcomes[k] = "new"
    BY <1>1, <1>5, <1>6, OneBecomes DEF Outcomes
  <1>8. AppliedKeys' = AppliedKeys
    BY <1>3 DEF AppliedKeys
  <1>9. Atomic!Begin(k)
    BY <1>3, <1>7, <1>8 DEF Atomic!Begin, Atomic!Becomes, Atomic!content, Outcomes, AppliedKeys
  <1>. QED
    BY <1>1, <1>9
LEMMA KeysOfLog ==
    ASSUME events \in Seq(EventShape), NEW e \in EventShape, events' = Append(events, e)
    PROVE  AppliedKeys' = Append(AppliedKeys, e.key)
  <1>1. /\ Len(events) \in Nat /\ DOMAIN events = 1..Len(events)
        /\ DOMAIN events' = 1..(Len(events) + 1)
        /\ events'[Len(events) + 1] = e /\ \A i \in 1..Len(events) : events'[i] = events[i]
    OBVIOUS
  <1>2. \A i \in 1..Len(events) : events[i].key \in Keys
    <2>1. \A i \in 1..Len(events) : events[i] \in EventShape
      OBVIOUS
    <2>. QED
      BY <2>1 DEF EventShape
  <1>3. AppliedKeys \in Seq(Keys) /\ Len(AppliedKeys) = Len(events)
    <2>1. AppliedKeys \in [1..Len(events) -> Keys]
      BY <1>1, <1>2 DEF AppliedKeys
    <2>. QED
      BY <1>1, <2>1
  <1>4. Append(AppliedKeys, e.key) =
            [i \in 1..(Len(events) + 1) |-> IF i = Len(events) + 1 THEN e.key ELSE AppliedKeys[i]]
    BY <1>1, <1>3
  <1>. QED
    BY <1>1, <1>4 DEF AppliedKeys

\* The commit carries the command out on the project as it is.
LEMMA CommitCarriesOut ==
    ASSUME CommandsInv, NEW r \in Requests, req[r].stage = "write", MustMatch(r) => Matches(r),
           ~SequenceTaken(EventSequence(r)), Commit(r), UNCHANGED <<work, offers, client>>
    PROVE  \E k \in Keys : Atomic!CarryOut(k)
  <1>0. PICK k : k = req[r].key
    OBVIOUS
  <1>1. /\ req \in [Requests -> RequestShape] /\ records \in [Keys -> Records \cup {None}]
        /\ req[r] \in RequestShape /\ RequestOK(req[r]) /\ Carries(req[r])
        /\ k \in Keys /\ Body(r) \in SentBodies /\ Body(r).kind \in Kinds
    <2>1. req \in [Requests -> RequestShape] /\ records \in [Keys -> Records \cup {None}]
          /\ RequestOK(req[r]) /\ Carries(req[r])
      BY DEF CommandsInv, CommandsShape, RequestsOK, Carries
    <2>2. k \in Keys /\ Body(r) \in SentBodies
      BY <1>0, <2>1 DEF RequestOK, InService, Body
    <2>. QED
      BY <2>1, <2>2 DEF SentBodies, Bodies
  <1>2. Pending(k) /\ records[k] \in Records /\ Carried(k)
    BY <1>0, <1>1 DEF CommandsInv, CarriersOK, Pending, Carried
  <1>3. PICK record \in Records : record = [records[k] EXCEPT !.status = "applied"]
    BY <1>2 DEF Records
  <1>4. record # None /\ record.status = "applied"
    BY <1>2, <1>3, PV1Assumption DEF Records, PV1Assumption
  <1>5. /\ records' = [records EXCEPT ![k] = record]
        /\ \A s \in Requests : s # r => req'[s] = req[s]
        /\ ~Carries(req'[r])
    BY <1>0, <1>1, <1>3 DEF Commit, Answer, FreeRequest, Carries
  <1>6. Outcome(k) = "begun" /\ Outcome(k)' = "applied"
    <2>1. ~Stranded(k) /\ ~Stranded(k)' /\ records'[k] = record
      BY <1>1, <1>2, <1>4, <1>5 DEF Stranded, Carried, Carries
    <2>. QED
      BY <1>2, <1>4, <2>1 DEF Outcome, Pending
  <1>7. \A j \in Keys : j # k => Outcome(j)' = Outcome(j)
    <2>1. \A j \in Keys : j # k => records'[j] = records[j]
      BY <1>1, <1>5
    <2>. QED
      BY <1>0, <1>5, <2>1, OthersCarried, OutcomeSame
  <1>8. Outcomes' = [Outcomes EXCEPT ![k] = "applied"] /\ Outcomes[k] = "begun"
    BY <1>1, <1>6, <1>7, OneBecomes DEF Outcomes
  <1>9. AppliedKeys' = Append(AppliedKeys, k)
    <2>1. Event(r) \in EventShape /\ Event(r).key = k
      <3>1. req[r].read \in Reads /\ Loaded(r) \in Views /\ Len(events) + 1 \in Nat
            /\ Body(r).offer \in Results \cup {None}
        BY <1>1 DEF CommandsInv, CommandsShape, RequestShape, RequestOK, HasLoaded, Loaded,
                    SentBodies, Bodies
      <3>2. Result(Loaded(r).graph, req[r].read) \in Results
        BY <3>1 DEF Result, Results, Views, Reads
      <3>3. EventSequence(r) = Len(events) + 1
        BY NextSequence
      <3>. QED
        BY <1>0, <1>1, <3>1, <3>2, <3>3 DEF Event, EventShape
    <2>2. events \in Seq(EventShape) /\ events' = Append(events, Event(r))
      BY DEF CommandsInv, CommandsShape, Commit
    <2>. QED
      BY <2>1, <2>2, KeysOfLog
  <1>10. Atomic!Link \/ Atomic!Import \/ Atomic!Reschedule \/ Atomic!Remark
    <2>1. CASE Body(r).kind \in {"edit", "pin"}
      BY <2>1 DEF Commit, Atomic!Remark, Atomic!content
    <2>2. CASE Body(r).kind = "import"
      <3>1. Imported \in SUBSET Tasks
        BY PV1Assumption DEF PV1Assumption
      <3>2. tasks' = tasks \cup Imported /\ edges' = edges /\ plan' = plan
        BY <2>2 DEF Commit
      <3>. QED
        BY <3>1, <3>2 DEF Atomic!Import
    <2>3. CASE Body(r).kind = "link"
      <3>1. Loaded(r) = project
        BY <2>3 DEF MustMatch, Matches
      <3>2. PICK e \in Tasks \X Tasks : e = Body(r).edge
        BY <1>1, <2>3 DEF SentBodies
      <3>3. e \notin edges /\ ~Cyclic(edges \cup {e})
        BY <1>1, <2>3, <3>1, <3>2 DEF RequestOK, Body, Loaded
      <3>4. edges' = edges \cup {e} /\ tasks' = tasks /\ plan' = plan
        BY <2>3, <3>2 DEF Commit
      <3>. QED
        BY <3>3, <3>4 DEF Atomic!Link, Atomic!Cycle, Cyclic
    <2>4. CASE Body(r).kind = "apply"
      <3>1. Loaded(r) = project
        BY <2>4 DEF MustMatch, Matches
      <3>2. req[r].read.edges = edges /\ req[r].read.tasks \in SUBSET tasks
        BY <1>1, <2>4, <3>1 DEF RequestOK, Body, Loaded
      <3>3. /\ plan' = [tasks |-> req[r].read.tasks, edges |-> edges]
            /\ tasks' = tasks /\ edges' = edges
        BY <2>4, <3>2 DEF Commit
      <3>. QED
        BY <3>2, <3>3 DEF Atomic!Reschedule
    <2>. QED
      BY <1>1, <2>1, <2>2, <2>3, <2>4 DEF Kinds
  <1>11. Atomic!CarryOut(k)
    BY <1>8, <1>9, <1>10 DEF Atomic!CarryOut, Atomic!Becomes, Outcomes, AppliedKeys
  <1>. QED
    BY <1>1, <1>11

\* What a step of the commands is in AtomicCommands.
LEMMA CommandsStepAtomic ==
    ASSUME CommandsInv, CommandsNext
    PROVE  [Atomic!AtomicNext]_<<Outcomes, AppliedKeys, tasks, edges, plan>>
  <1>1. ASSUME NEW k \in Keys, NEW r \in Requests, Send(k, r) \/ Retry(k, r)
        PROVE  UNCHANGED <<Outcomes, AppliedKeys, tasks, edges, plan>>
    <2>1. PICK body : Post(k, r, body)
      BY <1>1 DEF Send, Retry
    <2>2. req \in [Requests -> RequestShape]
      BY DEF CommandsInv, CommandsShape
    <2>3. /\ ~Carries(req[r]) /\ ~Carries(req'[r])
          /\ \A s \in Requests : s # r => req'[s] = req[s]
      BY <2>1, <2>2 DEF Post, NextFree, Carries, RequestShape
    <2>4. \A j \in Keys : Carried(j)' <=> Carried(j)
      BY <2>3 DEF Carried
    <2>5. \A j \in Keys : Outcome(j)' = Outcome(j)
      BY <2>1, <2>4, OutcomeSame DEF Post
    <2>. QED
      BY <2>1, <2>5 DEF Outcomes, AppliedKeys, Post
  <1>2. ASSUME NEW k \in Keys, Receive(k) \/ LoseResponse(k) \/ Recheck(k)
        PROVE  UNCHANGED <<Outcomes, AppliedKeys, tasks, edges, plan>>
    <2>1. UNCHANGED <<records, events, req, tasks, edges, plan>>
      BY <1>2 DEF Receive, LoseResponse, Recheck
    <2>2. \A j \in Keys : Outcome(j)' = Outcome(j)
      BY <2>1 DEF Outcome, Stranded
    <2>. QED
      BY <2>1, <2>2 DEF Outcomes, AppliedKeys
  <1>3. ASSUME NEW r \in Requests, Serve(r) \/ Crash(r)
        PROVE  \/ UNCHANGED <<Outcomes, AppliedKeys, tasks, edges, plan>>
               \/ Atomic!AtomicNext
    <2>1. CASE Reserve(r) /\ records[req[r].key] = None
      BY <2>1, ReserveBegins DEF Atomic!AtomicNext
    <2>2. CASE Write(r) /\ ~UNCHANGED <<project, tasks, edges, plan, records, events>>
      <3>1. \E k \in Keys : Atomic!CarryOut(k)
        BY <2>2, CommitCarriesOut DEF Write
      <3>. QED
        BY <3>1 DEF Atomic!AtomicNext
    <2>3. CASE UNCHANGED <<records, events, tasks, edges, plan>>
      BY <1>3, <2>3, GoesOnOrDrops DEF Atomic!AtomicNext
    <2>4. CASE Lookup(r) \/ Load(r) \/ Inspect(r) \/ InspectEdges(r) \/ Crash(r)
      BY <2>3, <2>4 DEF Lookup, Load, Inspect, InspectEdges, Crash
    <2>5. CASE Reserve(r)
      BY <2>1, <2>3, <2>5 DEF Reserve
    <2>. QED
      BY <1>3, <2>2, <2>3, <2>4, <2>5 DEF Serve
  <1>. QED
    BY <1>1, <1>2, <1>3 DEF CommandsNext

LEMMA CommandsInitAtomic == CommandsInit => Atomic!AtomicInit
  <1>. SUFFICES ASSUME CommandsInit PROVE Atomic!AtomicInit
    OBVIOUS
  <1>1. Outcomes = [k \in Keys |-> "new"]
    BY DEF Outcomes, Outcome, CommandsInit
  <1>2. AppliedKeys = <<>>
    BY DEF AppliedKeys, CommandsInit
  <1>3. tasks \subseteq Tasks
    BY PV1Assumption DEF CommandsInit, PV1Assumption
  <1>. QED
    BY <1>1, <1>2, <1>3 DEF Atomic!AtomicInit, CommandsInit, Outcomes, AppliedKeys
==============================================================================
