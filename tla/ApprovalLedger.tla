--------------------------- MODULE ApprovalLedger ---------------------------
(***************************************************************************)
(* What the approval gate promises, with every handler, await and process  *)
(* removed: a gated tool call is requested once, decided once, and its     *)
(* tool may be started for it only after a decision that permits it.  Once *)
(* decided, whatever the decision, the call may be made again and runs.    *)
(***************************************************************************)
EXTENDS Naturals

CONSTANTS
  Approval,      \* the approval ids
  OnTimeout,     \* what an expired approval means, "deny" or "allow"
  MaxExecutions  \* where the execution counter saturates

VARIABLES
  status,        \* decision of each approval
  executions,    \* how often the gated tool was started for the approval
  ungated        \* it was started by a repeated call

ledgerVars == <<status, executions, ungated>>

Final == {"approved", "denied", "timed_out", "stale_approval", "cancelled"}

(***************************************************************************)
(* The decisions after which the gated tool may start: an approval, and a  *)
(* timeout when the operator configured approval.onTimeout = allow.        *)
(***************************************************************************)
Permitting == {"approved"} \cup (IF OnTimeout = "allow" THEN {"timed_out"} ELSE {})

LedgerInit ==
  /\ status = [a \in Approval |-> "absent"]
  /\ executions = [a \in Approval |-> 0]
  /\ ungated = [a \in Approval |-> FALSE]

Request(a) ==
  /\ status[a] = "absent"
  /\ status' = [status EXCEPT ![a] = "pending"]
  /\ UNCHANGED <<executions, ungated>>

Settle(a) ==
  /\ status[a] = "pending"
  /\ \E d \in Final : status' = [status EXCEPT ![a] = d]
  /\ UNCHANGED <<executions, ungated>>

Execute(a) ==
  /\ status[a] \in Permitting
  /\ executions[a] < MaxExecutions
  /\ executions' = [executions EXCEPT ![a] = @ + 1]
  /\ UNCHANGED <<status, ungated>>

Repeat(a) ==
  /\ status[a] \in Final
  /\ ungated' = [ungated EXCEPT ![a] = TRUE]
  /\ UNCHANGED <<status, executions>>

LedgerNext == \E a \in Approval : Request(a) \/ Settle(a) \/ Execute(a) \/ Repeat(a)

LedgerSpec == LedgerInit /\ [][LedgerNext]_ledgerVars
=============================================================================
