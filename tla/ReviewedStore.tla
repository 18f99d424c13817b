---------------------------- MODULE ReviewedStore ----------------------------
(***************************************************************************)
(* What bulk operations promise of the rows they change, beside users who  *)
(* edit the same rows: an operation is reviewed on the rows of one moment, *)
(* carried out at most once and only on rows that are still as reviewed,   *)
(* and taken back at most once and only from rows that are still as it     *)
(* left them.  Each write leaves a revision nobody has seen before.        *)
(*                                                                         *)
(* BulkWorkflow implements this specification.                             *)
(***************************************************************************)

CONSTANTS Tenants, Rows, Operations, Revisions, Unwritten

VARIABLES
    saved,       \* tenant -> row -> revision
    operation    \* of each operation: its state, and the rows as it knows them

storeVars == <<saved, operation>>

StoreInit ==
    /\ saved = [t \in Tenants |-> [i \in Rows |-> Unwritten]]
    /\ operation = [op \in Operations |-> [state |-> "none"]]

\* Neither a row nor an operation that is not over carries the revision.
Fresh(v) ==
    /\ \A t \in Tenants, i \in Rows : saved[t][i] # v
    /\ \A op \in Operations :
          /\ operation[op].state = "reviewed" =>
                \A i \in operation[op].ids : operation[op].revs[i] # v
          /\ operation[op].state = "done" => operation[op].left # v

\* The revisions of some of the rows.
Of(revs, ids) == [i \in Rows |-> IF i \in ids THEN revs[i] ELSE Unwritten]

Stamped(t, ids, v) ==
    [saved EXCEPT ![t] = [i \in Rows |-> IF i \in ids THEN v ELSE @[i]]]

Edit(t, i) ==
    /\ \E v \in Revisions : saved' = Stamped(t, {i}, v) /\ Fresh(v)
    /\ UNCHANGED operation

Review(op) ==
    /\ operation[op].state = "none"
    /\ \E t \in Tenants, ids \in SUBSET Rows :
          operation' = [operation EXCEPT ![op] =
              [state |-> "reviewed", tenant |-> t, ids |-> ids, revs |-> Of(saved[t], ids)]]
    /\ UNCHANGED saved

CarryOut(op) ==
    LET o == operation[op] IN
    /\ o.state = "reviewed"
    /\ Of(saved[o.tenant], o.ids) = o.revs
    /\ \E v \in Revisions :
          /\ saved' = Stamped(o.tenant, o.ids, v) /\ Fresh(v)
          /\ operation' = [operation EXCEPT ![op] =
                [state |-> "done", tenant |-> o.tenant, ids |-> o.ids, left |-> v]]

TakeBack(op) ==
    LET o == operation[op] IN
    /\ o.state = "done"
    /\ \A i \in o.ids : saved[o.tenant][i] = o.left
    /\ \E v \in Revisions : saved' = Stamped(o.tenant, o.ids, v) /\ Fresh(v)
    /\ operation' = [operation EXCEPT ![op] = [state |-> "undone"]]

\* A step of an operation takes it to its next state.
StoreNext ==
    \/ \E t \in Tenants, i \in Rows : saved'[t][i] # saved[t][i] /\ Edit(t, i)
    \/ \E op \in Operations :
          /\ operation'[op].state # operation[op].state
          /\ Review(op) \/ CarryOut(op) \/ TakeBack(op)

StoreSpec == StoreInit /\ [][StoreNext]_storeVars
=============================================================================
