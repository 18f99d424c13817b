------------------------ MODULE AttemptLedger_proofs ------------------------
(***************************************************************************)
(* What the rules of AttemptLedger imply, for every set of identities.     *)
(* With OperationalActions_proofs!LedgerImplemented this holds of the      *)
(* attempt rows of an action.                                              *)
(***************************************************************************)
EXTENDS AttemptLedger, TLAPS

LedgerRow ==
    [ phase  : {None, "EXECUTION", "ROLLBACK"},
      status : {"ABSENT", "REQUESTED", "CLAIMED", "COMPLETED", "OUTCOME_UNKNOWN"} ]

\* The inductive invariant: an execution is never merely requested.
LedgerInv ==
    /\ ledger \in [AttemptIds -> LedgerRow]
    /\ open \in BOOLEAN
    /\ \A a \in AttemptIds :
          ledger[a].phase = "EXECUTION" => ledger[a].status \notin {"ABSENT", "REQUESTED"}
    /\ AtMostOneExecution
    /\ ClosedIsQuiescent

LEMMA LedgerInitInv == None # "EXECUTION" /\ LedgerInit => LedgerInv
  BY DEF LedgerInit, LedgerInv, LedgerRow, Unused, AtMostOneExecution, ClosedIsQuiescent

\* A step that replaces the row of one attempt keeps the types.
LEMMA LedgerTypeKept ==
    ASSUME ledger \in [AttemptIds -> LedgerRow], NEW a \in AttemptIds, NEW e \in LedgerRow,
           ledger' = [ledger EXCEPT ![a] = e]
    PROVE  /\ ledger' \in [AttemptIds -> LedgerRow]
           /\ \A b \in AttemptIds : ledger'[b] = IF b = a THEN e ELSE ledger[b]
  OBVIOUS

LEMMA RollbackInv ==
    ASSUME LedgerInv, NEW a \in AttemptIds, RequestRollback(a) \/ ClaimRollback(a)
    PROVE  LedgerInv'
  <1>1. PICK s \in {"REQUESTED", "CLAIMED"} :
            ledger' = [ledger EXCEPT ![a] = [phase |-> "ROLLBACK", status |-> s]]
    BY DEF RequestRollback, ClaimRollback
  <1>2. open' = open
    BY DEF RequestRollback, ClaimRollback
  <1>3. [phase |-> "ROLLBACK", status |-> s] \in LedgerRow
    BY DEF LedgerRow
  <1>4. /\ ledger' \in [AttemptIds -> LedgerRow]
        /\ \A b \in AttemptIds :
              ledger'[b] = IF b = a THEN [phase |-> "ROLLBACK", status |-> s] ELSE ledger[b]
    BY <1>1, <1>3, LedgerTypeKept DEF LedgerInv
  <1>. QED BY <1>2, <1>4 DEF LedgerInv, AtMostOneExecution, ClosedIsQuiescent

LEMMA ExecutionInv ==
    ASSUME LedgerInv, NEW a \in AttemptIds, ClaimExecution(a)
    PROVE  LedgerInv'
  <1>1. [phase |-> "EXECUTION", status |-> "CLAIMED"] \in LedgerRow
    BY DEF LedgerRow
  <1>2. /\ ledger' \in [AttemptIds -> LedgerRow]
        /\ \A b \in AttemptIds :
              ledger'[b] = IF b = a THEN [phase |-> "EXECUTION", status |-> "CLAIMED"] ELSE ledger[b]
    BY <1>1, LedgerTypeKept DEF LedgerInv, ClaimExecution
  <1>3. open /\ open' = open /\ \A b \in AttemptIds : ledger[b].phase # "EXECUTION"
    BY DEF ClaimExecution, Executed
  <1>. QED BY <1>2, <1>3 DEF LedgerInv, AtMostOneExecution, ClosedIsQuiescent

LEMMA OutcomeInv ==
    ASSUME LedgerInv, NEW a \in AttemptIds, Doubt(a) \/ Complete(a)
    PROVE  LedgerInv'
  <1>1. PICK s \in {"COMPLETED", "OUTCOME_UNKNOWN"} :
            /\ ledger' = [ledger EXCEPT ![a] = [ledger[a] EXCEPT !.status = s]]
            /\ s = "OUTCOME_UNKNOWN" => ledger[a].status = "CLAIMED"
    BY DEF Doubt, Complete
  <1>2. open' = open
    BY DEF Doubt, Complete
  <1>. DEFINE e == [ledger[a] EXCEPT !.status = s]
  <1>3. e \in LedgerRow /\ e.phase = ledger[a].phase /\ e.status = s
    BY DEF LedgerInv, LedgerRow
  <1>. HIDE DEF e
  <1>4. /\ ledger' \in [AttemptIds -> LedgerRow]
        /\ \A b \in AttemptIds : ledger'[b] = IF b = a THEN e ELSE ledger[b]
    BY <1>1, <1>3, LedgerTypeKept DEF LedgerInv, e
  <1>5. \A b \in AttemptIds : ledger'[b].phase = ledger[b].phase
    BY <1>3, <1>4
  <1>6. ~open /\ ledger[a].phase = "EXECUTION" => s = "COMPLETED"
    BY <1>1 DEF LedgerInv, ClosedIsQuiescent
  <1>. QED BY <1>2, <1>3, <1>4, <1>5, <1>6 DEF LedgerInv, AtMostOneExecution, ClosedIsQuiescent

LEMMA LedgerNextInv == LedgerInv /\ [LedgerNext]_<<ledger, open>> => LedgerInv'
  <1>. SUFFICES ASSUME LedgerInv, [LedgerNext]_<<ledger, open>> PROVE LedgerInv'
    OBVIOUS
  <1>1. CASE Close
    BY <1>1 DEF Close, LedgerInv, AtMostOneExecution, ClosedIsQuiescent
  <1>2. CASE UNCHANGED <<ledger, open>>
    BY <1>2 DEF LedgerInv, AtMostOneExecution, ClosedIsQuiescent
  <1>. QED BY <1>1, <1>2, RollbackInv, ExecutionInv, OutcomeInv DEF LedgerNext

\* A ledger records at most one execution, ever, and once it is closed that
\* execution is over: what cancel_maintenance_window and the execution
\* claim of execute_action rely on.
THEOREM LedgerIsSafe ==
    None # "EXECUTION" => (LedgerSpec => [](AtMostOneExecution /\ ClosedIsQuiescent))
  <1>1. LedgerInv => AtMostOneExecution /\ ClosedIsQuiescent
    BY DEF LedgerInv
  <1>. QED BY <1>1, LedgerInitInv, LedgerNextInv, PTL DEF LedgerSpec
=============================================================================
