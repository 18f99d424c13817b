--------------------------- MODULE AtomicCommands ---------------------------
(***************************************************************************)
(* What a PV1 project promises of its commands, as if there were one       *)
(* request at a time and no statement in between: a command id is begun    *)
(* once, and then either carried out in one step, checks and all, or       *)
(* dropped for good.                                                       *)
(*                                                                         *)
(* PV1Commands implements this specification.                              *)
(***************************************************************************)
EXTENDS Sequences

CONSTANTS Keys, Tasks

VARIABLES
    outcome,   \* of each command id
    log,       \* the ids carried out, in order
    tasks,     \* the project's tasks,
    edges,     \* its active dependencies,
    plan       \* and what its persisted dates were last calculated from

content == <<tasks, edges, plan>>

AtomicInit ==
    /\ outcome = [k \in Keys |-> "new"]
    /\ log = <<>>
    /\ tasks \subseteq Tasks
    /\ edges = {}
    /\ plan = [tasks |-> {}, edges |-> {}]

\* Whoever starts among some tasks can go back and back without leaving them.
Cycle(E) == \E S \in (SUBSET Tasks) \ {{}} :
                \A t \in S : \E u \in S : <<u, t>> \in E

Becomes(k, o) == outcome' = [outcome EXCEPT ![k] = o]

Begin(k) ==
    /\ outcome[k] = "new"
    /\ Becomes(k, "begun")
    /\ UNCHANGED <<log, content>>

\* Refused, or cut short: whoever sends the id again does not start it again.
Drop(k) ==
    /\ outcome[k] = "begun"
    /\ Becomes(k, "dropped")
    /\ UNCHANGED <<log, content>>

\* The dependency is new and closes no cycle at the moment it is added.
Link == \E e \in Tasks \X Tasks :
            /\ e \notin edges
            /\ ~Cycle(edges \cup {e})
            /\ edges' = edges \cup {e}
            /\ UNCHANGED <<tasks, plan>>

Import == \E new \in SUBSET Tasks :
            /\ tasks' = tasks \cup new
            /\ UNCHANGED <<edges, plan>>

\* The dates are those of the dependencies there are, not of earlier ones.
Reschedule == \E some \in SUBSET tasks :
                /\ plan' = [tasks |-> some, edges |-> edges]
                /\ UNCHANGED <<tasks, edges>>

\* What changes neither tasks, dependencies nor dates.
Remark == UNCHANGED content

CarryOut(k) ==
    /\ outcome[k] = "begun"
    /\ Becomes(k, "applied")
    /\ log' = Append(log, k)
    /\ Link \/ Import \/ Reschedule \/ Remark

AtomicNext == \E k \in Keys : Begin(k) \/ Drop(k) \/ CarryOut(k)

AtomicSpec == AtomicInit /\ [][AtomicNext]_<<outcome, log, content>>
=============================================================================
