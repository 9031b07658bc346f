---------------------------- MODULE CaseLifecycle ----------------------------
(***************************************************************************)
(* What the system promises of a case, whatever the processes, stores and  *)
(* boundaries under it do: it is created once, in DRAFT; its state moves   *)
(* only along the table of stateMachine.ts, one transition at a time; and  *)
(* its message leaves at most once, while the case is EXECUTING, which the *)
(* table lets it reach through AWAITING_APPROVAL and APPROVED only.        *)
(*                                                                         *)
(* Orchestrator implements this specification as long as the requests on   *)
(* one case do not overlap; see Lifecycle there.                           *)
(***************************************************************************)
EXTENDS CaseMachine, Naturals

CONSTANT Case          \* case identifiers

VARIABLES
  state,               \* [Case -> CaseState \cup {"ABSENT"}]
  sent                 \* the cases whose message has been sent

vars == <<state, sent>>

TypeOK == /\ state \in [Case -> CaseState \cup {"ABSENT"}]
          /\ sent \subseteq Case

Init == /\ state = [c \in Case |-> "ABSENT"]
        /\ sent = {}

\* submitCase stores the new record.
Create(c) ==
  /\ state[c] = "ABSENT"
  /\ state' = [state EXCEPT ![c] = "DRAFT"]
  /\ UNCHANGED sent

\* CaseStore.transition; an execution can only succeed once the message left.
Advance(c, event) ==
  /\ state[c] \in CaseState
  /\ Legal(state[c], event)
  /\ event = "EXECUTION_SUCCEEDED" => c \in sent
  /\ state' = [state EXCEPT ![c] = ApplyTransition(@, event)]
  /\ UNCHANGED sent

\* provider.sendAction.
Send(c) ==
  /\ state[c] = "EXECUTING"
  /\ c \notin sent
  /\ sent' = sent \cup {c}
  /\ UNCHANGED state

Next == \E c \in Case : \/ Create(c)
                        \/ \E event \in CaseEvent : Advance(c, event)
                        \/ Send(c)

Spec == Init /\ [][Next]_vars

-----------------------------------------------------------------------------
(* What follows from the promise.                                          *)

\* No state the user never approved, and none they turned down, has had its
\* message sent (THREAT-MODEL.md section 6).
SentOnlyAfterApproval ==
  \A c \in sent : state[c] \in { "EXECUTING", "OUTCOME_PENDING", "EXPIRED",
    "VERIFIED_SUCCESS", "EXECUTION_FAILED", "OUTCOME_UNVERIFIED" }

\* A success is never reported for a message that did not leave.
SuccessWasSent ==
  \A c \in Case : state[c] \in {"OUTCOME_PENDING", "VERIFIED_SUCCESS"} => c \in sent

\* How far along a state is: no branch of the table is longer than eight
\* transitions, and the creation is one step more.
Progress(s) ==
  CASE s = "ABSENT" -> 0
    [] s = "DRAFT" -> 1
    [] s = "SUBMITTED" -> 2
    [] s = "ANALYZING" -> 3
    [] s = "ACTION_PROPOSED" -> 4
    [] s = "AWAITING_APPROVAL" -> 5
    [] s = "APPROVED" -> 6
    [] s = "EXECUTING" -> 7
    [] s = "OUTCOME_PENDING" -> 8
    [] OTHER -> 9

\* A case only goes forward: no sequence of events brings it back to a state it
\* has left, so a case that was turned down, has expired or was sent is never
\* proposed, approved or executed again.
OnlyForward ==
  [][\A c \in Case : state'[c] # state[c] => Progress(state[c]) < Progress(state'[c])]_vars

==============================================================================
