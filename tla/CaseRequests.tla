----------------------------- MODULE CaseRequests -----------------------------
(***************************************************************************)
(* What the Orchestrator's methods promise to those who call them: each    *)
(* call takes effect as a whole when it is answered, or it is refused and  *)
(* has no effect.  Only a call that is cut short leaves a case on the way, *)
(* and no later call takes it on from there.                               *)
(*                                                                         *)
(* Orchestrator implements this specification as long as the requests on   *)
(* one case do not overlap, although every call makes several transitions  *)
(* of its case and saves each; see Requests there.  Deployment implements  *)
(* it for the routes and their status codes where cases outlive the        *)
(* instances, as far as these are well configured.                         *)
(***************************************************************************)

CONSTANTS
  Case, Request,
  Null,
  Faults               \* may calls be cut short?

VARIABLES
  state,               \* [Case -> what is on record of it, or "ABSENT"]
  asked,               \* [Request -> the method and the case called for, or Null]
  answer               \* [Request -> how it ended, or "none"]

vars == <<state, asked, answer>>

Kind == {"submit", "approve", "reject"}

\* A method takes a case from a state to one of others.
Takes(kind, from, tos) == [kind : {kind}, from : {from}, to : tos]

\* What a call that is answered has done ...
Whole ==
  Takes("submit", "ABSENT", {"AWAITING_APPROVAL"})
    \cup Takes("approve", "AWAITING_APPROVAL", {"VERIFIED_SUCCESS", "EXECUTION_FAILED"})
    \cup Takes("reject", "AWAITING_APPROVAL", {"REJECTED"})

\* ... and what one that is cut short may have done instead.
Part ==
  Takes("submit", "ABSENT", {"DRAFT", "SUBMITTED", "ANALYZING", "ACTION_PROPOSED"})
    \cup Takes("approve", "AWAITING_APPROVAL", {"APPROVED", "EXECUTING", "OUTCOME_PENDING"})

Init ==
  /\ state = [c \in Case |-> "ABSENT"]
  /\ asked = [r \in Request |-> Null]
  /\ answer = [r \in Request |-> "none"]

Open(r) == asked[r] # Null /\ answer[r] = "none"

Ask(r) ==
  /\ asked[r] = Null
  /\ \E kind \in Kind, c \in Case : asked' = [asked EXCEPT ![r] = [kind |-> kind, case |-> c]]
  /\ UNCHANGED <<state, answer>>

Serve(r) ==
  /\ Open(r)
  /\ \E step \in Whole :
       /\ step.kind = asked[r].kind /\ step.from = state[asked[r].case]
       /\ state' = [state EXCEPT ![asked[r].case] = step.to]
  /\ answer' = [answer EXCEPT ![r] = "done"]
  /\ UNCHANGED asked

\* An approval or a rejection that finds no such case of the caller's, or not
\* such a proposal, or the case in another state.
Refuse(r) ==
  /\ Open(r) /\ asked[r].kind # "submit"
  /\ answer' = [answer EXCEPT ![r] = "failed"]
  /\ UNCHANGED <<state, asked>>

\* The call r leaves case c as it will stay.
Leaves(r, c) ==
  \E step \in Whole \cup Part :
    /\ asked[r] = [kind |-> step.kind, case |-> c]
    /\ step.from = state[c] /\ step.to = state'[c]

\* An error of the store ends one call, a crash all those of an instance.
Cut ==
  /\ Faults
  /\ \E lost \in SUBSET { r \in Request : Open(r) } :
       /\ answer' = [r \in Request |-> IF r \in lost THEN "failed" ELSE answer[r]]
       /\ \A c \in Case : state'[c] # state[c] => \E r \in lost : Leaves(r, c)
  /\ state' = [c \in Case |-> state'[c]]
  /\ UNCHANGED asked

\* What may happen as long as no call is cut short: a call that ends has had its
\* whole effect, or none.
Uncut == \E r \in Request : Ask(r) \/ Serve(r) \/ Refuse(r)

Next == Uncut \/ Cut

Spec == Init /\ [][Next]_vars

-----------------------------------------------------------------------------
(* What follows from the promise.                                          *)

\* What a caller was told of a case stays true of it.
AnswersStay ==
  \A r \in Request : answer[r] = "done" =>
    LET now == state[asked[r].case]
    IN /\ asked[r].kind = "submit" =>
            now \notin {"ABSENT"} \cup { step.to : step \in { s \in Part : s.kind = "submit" } }
       /\ asked[r].kind = "approve" => now \in {"VERIFIED_SUCCESS", "EXECUTION_FAILED"}
       /\ asked[r].kind = "reject" => now = "REJECTED"

\* Of the calls that decide on a case one at most is answered.
OneDecision ==
  \A r, q \in Request :
    /\ answer[r] = "done" /\ answer[q] = "done"
    /\ asked[r].case = asked[q].case
    /\ asked[r].kind # "submit" /\ asked[q].kind # "submit"
    => r = q
==============================================================================
