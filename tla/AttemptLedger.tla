--------------------------- MODULE AttemptLedger ---------------------------
(***************************************************************************)
(* What the attempt rows of an operational action promise, whatever the    *)
(* requests do concurrently: a ledger of attempts, each of which moves     *)
(* forward only, at most one of them an execution, and a maintenance       *)
(* window that closes only while nothing is open and admits no execution   *)
(* once it is closed.                                                      *)
(*                                                                         *)
(* OperationalActions implements this specification.                       *)
(***************************************************************************)

CONSTANTS AttemptIds, None

VARIABLES
    ledger,     \* what is recorded about each attempt
    open        \* may an execution still start in the window?

Unused == [phase |-> None, status |-> "ABSENT"]

LedgerInit ==
    /\ ledger = [a \in AttemptIds |-> Unused]
    /\ open = TRUE

Executed == \E a \in AttemptIds : ledger[a].phase = "EXECUTION"

\* Identities are used once: only an unused one can be requested.
RequestRollback(a) ==
    /\ ledger[a] = Unused
    /\ ledger' = [ledger EXCEPT ![a] = [phase |-> "ROLLBACK", status |-> "REQUESTED"]]
    /\ UNCHANGED open

ClaimRollback(a) ==
    /\ ledger[a] \in {Unused, [phase |-> "ROLLBACK", status |-> "REQUESTED"]}
    /\ ledger' = [ledger EXCEPT ![a] = [phase |-> "ROLLBACK", status |-> "CLAIMED"]]
    /\ UNCHANGED open

ClaimExecution(a) ==
    /\ open
    /\ ~Executed
    /\ ledger[a] = Unused
    /\ ledger' = [ledger EXCEPT ![a] = [phase |-> "EXECUTION", status |-> "CLAIMED"]]
    /\ UNCHANGED open

\* A claimed attempt is abandoned: its outcome is declared unknown.
Doubt(a) ==
    /\ ledger[a].status = "CLAIMED"
    /\ ledger' = [ledger EXCEPT ![a].status = "OUTCOME_UNKNOWN"]
    /\ UNCHANGED open

\* The outcome is recorded, possibly after it was declared unknown.
Complete(a) ==
    /\ ledger[a].status \in {"CLAIMED", "OUTCOME_UNKNOWN"}
    /\ ledger' = [ledger EXCEPT ![a].status = "COMPLETED"]
    /\ UNCHANGED open

Close ==
    /\ open
    /\ \A a \in AttemptIds : ledger[a].status \in {"ABSENT", "COMPLETED"}
    /\ open' = FALSE
    /\ UNCHANGED ledger

LedgerNext ==
    \/ Close
    \/ \E a \in AttemptIds :
          \/ RequestRollback(a) \/ ClaimRollback(a) \/ ClaimExecution(a)
          \/ Doubt(a) \/ Complete(a)

LedgerSpec == LedgerInit /\ [][LedgerNext]_<<ledger, open>>

----------------------------------------------------------------------------
(* Consequences of the ledger's rules. *)

\* At most one attempt ever executes the action forward.
AtMostOneExecution ==
    \A a, b \in AttemptIds :
        ledger[a].phase = "EXECUTION" /\ ledger[b].phase = "EXECUTION" => a = b

\* A closed window has no execution under way or in doubt.
ClosedIsQuiescent ==
    ~open => \A a \in AttemptIds :
                ledger[a].phase = "EXECUTION" => ledger[a].status = "COMPLETED"
============================================================================
