--------------------------- MODULE LifecycleProofs ---------------------------
(***************************************************************************)
(* What follows from the promise of CaseLifecycle, for any number of       *)
(* cases, and so for every system that keeps it.                           *)
(***************************************************************************)
EXTENDS CaseLifecycle, TLAPS

Inv == TypeOK /\ SentOnlyAfterApproval /\ SuccessWasSent

\* A transition ends in the state that the table names.
LEMMA Target ==
  ASSUME NEW s \in CaseState, NEW event, Legal(s, event)
  PROVE  /\ ApplyTransition(s, event) \in CaseState
         /\ <<s, event, ApplyTransition(s, event)>> \in Transitions
<1>1. \E to \in CaseState : <<s, event, to>> \in Transitions
  BY DEF Legal, Transitions, Entries, CaseState
<1> QED
  BY <1>1 DEF ApplyTransition

\* A transition of the table keeps the invariant.
LEMMA AdvanceInv ==
  ASSUME Inv, NEW c \in Case, NEW event \in CaseEvent, Advance(c, event)
  PROVE  Inv'
<1> DEFINE from == state[c]
           to == ApplyTransition(state[c], event)
<1>1. from \in CaseState /\ to \in CaseState /\ <<from, event, to>> \in Transitions
  BY Target DEF Advance
<1>2. sent' = sent /\ state' = [state EXCEPT ![c] = to]
      /\ (event = "EXECUTION_SUCCEEDED" => c \in sent)
  BY DEF Advance
<1>3. /\ from \in { "EXECUTING", "OUTCOME_PENDING" } =>
           to \in { "OUTCOME_PENDING", "EXPIRED", "VERIFIED_SUCCESS", "EXECUTION_FAILED",
                    "OUTCOME_UNVERIFIED" }
      /\ from \notin { "EXPIRED", "VERIFIED_SUCCESS", "EXECUTION_FAILED",
                       "OUTCOME_UNVERIFIED" }
      /\ to = "OUTCOME_PENDING" => event = "EXECUTION_SUCCEEDED"
      /\ to = "VERIFIED_SUCCESS" => from = "OUTCOME_PENDING"
  BY <1>1 DEF Transitions, Entries
<1> HIDE DEF from, to
<1>4. TypeOK'
  BY <1>1, <1>2 DEF Inv, TypeOK
<1>5. SentOnlyAfterApproval'
  BY <1>2, <1>3 DEF Inv, TypeOK, SentOnlyAfterApproval, from
<1>6. SuccessWasSent'
  BY <1>2, <1>3 DEF Inv, TypeOK, SuccessWasSent, from
<1> QED
  BY <1>4, <1>5, <1>6 DEF Inv

\* The invariant holds throughout.
LEMMA Invariance == Spec => []Inv
<1>1. Init => Inv
  BY DEF Init, Inv, TypeOK, SentOnlyAfterApproval, SuccessWasSent
<1>2. Inv /\ [Next]_vars => Inv'
  <2> SUFFICES ASSUME Inv, [Next]_vars PROVE Inv'
    OBVIOUS
  <2>1. ASSUME NEW c \in Case, Create(c) PROVE Inv'
    <3>1. c \notin sent
      BY <2>1 DEF Create, Inv, TypeOK, SentOnlyAfterApproval
    <3> QED
      BY <2>1, <3>1 DEF Create, Inv, TypeOK, SentOnlyAfterApproval, SuccessWasSent, CaseState
  <2>2. ASSUME NEW c \in Case, Send(c) PROVE Inv'
    BY <2>2 DEF Send, Inv, TypeOK, SentOnlyAfterApproval, SuccessWasSent
  <2>3. UNCHANGED vars => Inv'
    BY DEF vars, Inv, TypeOK, SentOnlyAfterApproval, SuccessWasSent
  <2> QED
    BY <2>1, <2>2, <2>3, AdvanceInv DEF Next
<1> QED
  BY <1>1, <1>2, PTL DEF Spec

\* A case whose message was sent has been approved and was not turned down.
THEOREM SentAfterApproval == Spec => []SentOnlyAfterApproval
<1>1. Inv => SentOnlyAfterApproval
  BY DEF Inv
<1> QED
  BY <1>1, Invariance, PTL

\* A success is reported only of a message that was sent.
THEOREM SuccessSent == Spec => []SuccessWasSent
<1>1. Inv => SuccessWasSent
  BY DEF Inv
<1> QED
  BY <1>1, Invariance, PTL

\* A case only goes forward, so it comes to rest after at most nine steps.
THEOREM CasesGoForward == Spec => OnlyForward
<1> DEFINE Forward(c) == state'[c] # state[c] => Progress(state[c]) < Progress(state'[c])
<1>1. ASSUME Inv, NEW c \in Case, NEW d \in Case, NEW event \in CaseEvent, Advance(c, event)
      PROVE  Forward(d)
  <2> PICK from, to : from = state[c] /\ to = ApplyTransition(state[c], event)
    OBVIOUS
  <2>1. from \in CaseState /\ to \in CaseState /\ <<from, event, to>> \in Transitions
    BY <1>1, Target DEF Advance
  <2>2. Progress(from) < Progress(to)
    BY <2>1 DEF Transitions, Entries, Progress
  <2>3. state' = [state EXCEPT ![c] = to]
    BY <1>1 DEF Advance
  <2> QED
    BY <2>2, <2>3 DEF Inv, TypeOK
<1>2. ASSUME Inv, NEW c \in Case, NEW d \in Case, Create(c)
      PROVE  Forward(d)
  <2>1. Progress("ABSENT") < Progress("DRAFT")
    BY DEF Progress
  <2> QED
    BY <1>2, <2>1 DEF Create, Inv, TypeOK
<1>3. ASSUME NEW c \in Case, NEW d \in Case, Send(c)
      PROVE  Forward(d)
  BY <1>3 DEF Send
<1>4. Inv /\ [Next]_vars => [\A c \in Case : Forward(c)]_vars
  BY <1>1, <1>2, <1>3 DEF Next
<1> QED
  BY <1>4, Invariance, PTL DEF Spec, OnlyForward

==============================================================================
