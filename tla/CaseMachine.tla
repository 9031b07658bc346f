----------------------------- MODULE CaseMachine -----------------------------
(***************************************************************************)
(* The case state machine of packages/shared/src/stateMachine.ts: the      *)
(* transition table and the pure functions over it.  Nothing here is       *)
(* stateful; CaseLifecycle and Orchestrator are built on these operators.  *)
(***************************************************************************)

\* The entries of the table, as <<from, event, to>>.
Entries ==
  { <<"DRAFT", "SUBMIT", "SUBMITTED">>,
    <<"DRAFT", "EXPIRE", "EXPIRED">>,
    <<"SUBMITTED", "BEGIN_ANALYSIS", "ANALYZING">>,
    <<"SUBMITTED", "EXPIRE", "EXPIRED">>,
    <<"ANALYZING", "PROPOSE_ACTION", "ACTION_PROPOSED">>,
    <<"ANALYZING", "EXECUTION_FAILED", "EXECUTION_FAILED">>,
    <<"ANALYZING", "EXPIRE", "EXPIRED">>,
    <<"ACTION_PROPOSED", "REQUEST_APPROVAL", "AWAITING_APPROVAL">>,
    <<"ACTION_PROPOSED", "EXPIRE", "EXPIRED">>,
    <<"AWAITING_APPROVAL", "APPROVE", "APPROVED">>,
    <<"AWAITING_APPROVAL", "REJECT", "REJECTED">>,
    <<"AWAITING_APPROVAL", "EXPIRE", "EXPIRED">>,
    <<"APPROVED", "BEGIN_EXECUTION", "EXECUTING">>,
    <<"APPROVED", "EXPIRE", "EXPIRED">>,
    <<"EXECUTING", "EXECUTION_SUCCEEDED", "OUTCOME_PENDING">>,
    <<"EXECUTING", "EXECUTION_FAILED", "EXECUTION_FAILED">>,
    <<"OUTCOME_PENDING", "OUTCOME_CONFIRMED", "VERIFIED_SUCCESS">>,
    <<"OUTCOME_PENDING", "OUTCOME_UNVERIFIABLE", "OUTCOME_UNVERIFIED">>,
    <<"OUTCOME_PENDING", "EXPIRE", "EXPIRED">> }

\* Variant: a failed execution can be approved again.
TransitionsWithRetry == Entries \cup { <<"EXECUTION_FAILED", "APPROVE", "APPROVED">> }

\* Variant: a case can be turned down while it executes.
TransitionsWithLateReject == Entries \cup { <<"EXECUTING", "REJECT", "REJECTED">> }

\* Variant: there is no way out of a send that threw.
TransitionsStuck == Entries \ { <<"EXECUTING", "EXECUTION_FAILED", "EXECUTION_FAILED">> }

\* The table TRANSITIONS.
Transitions == Entries

CaseState ==
  { "DRAFT", "SUBMITTED", "ANALYZING", "ACTION_PROPOSED", "AWAITING_APPROVAL",
    "APPROVED", "EXECUTING", "OUTCOME_PENDING", "VERIFIED_SUCCESS",
    "EXECUTION_FAILED", "OUTCOME_UNVERIFIED", "REJECTED", "EXPIRED" }

CaseEvent ==
  { "SUBMIT", "BEGIN_ANALYSIS", "PROPOSE_ACTION", "REQUEST_APPROVAL",
    "APPROVE", "REJECT", "BEGIN_EXECUTION", "EXECUTION_SUCCEEDED",
    "EXECUTION_FAILED", "OUTCOME_CONFIRMED", "OUTCOME_UNVERIFIABLE", "EXPIRE" }

\* applyTransition throws IllegalTransitionError when ~Legal(from, event).
Legal(from, event) == \E t \in Transitions : t[1] = from /\ t[2] = event

\* Defined where Legal holds: the table has one target per state and event.
ApplyTransition(from, event) ==
  CHOOSE to \in CaseState : <<from, event, to>> \in Transitions

LegalEvents(state) == { event \in CaseEvent : Legal(state, event) }

IsTerminal(state) == LegalEvents(state) = {}
==============================================================================
