----------------------------- MODULE RequestProofs -----------------------------
(***************************************************************************)
(* Proofs about the requests on a case as wholes.  However they overlap, a *)
(* case that is on its way has a request that goes on with it, unless that *)
(* request was cut short.  If requests on one case do not overlap, the     *)
(* system keeps the promise of CaseRequests: each has its whole effect     *)
(* when it is answered, or is refused and has none.                        *)
(***************************************************************************)
EXTENDS SerialProofs

-----------------------------------------------------------------------------
(* Steps of a request, as far as they decide what the request does next.   *)

\* The record of a request's case is in one of the states.
In(r, states) == store[call[r].case] # Null /\ store[call[r].case].state \in states

\* Of the steps that do not save: where each leads.
LEMMA Control ==
  ASSUME Inv, NEW r \in Request, Serve(r) \/ AnchorLost(r), ~Create(r), ~TransitionSave(r)
  PROVE  /\ store' = store /\ call' = call
         /\ \/ /\ pc[r] = "get" /\ event'[r] = event[r]
               /\ \/ /\ pc'[r] = "save" /\ store[call[r].case] # Null
                     /\ Legal(store[call[r].case].state, event[r])
                  \/ /\ pc'[r] = "failed"
                     /\ ~(/\ store[call[r].case] # Null
                          /\ Legal(store[call[r].case].state, event[r]))
            \/ pc[r] = "analyze" /\ pc'[r] = "get" /\ event'[r] = "PROPOSE_ACTION"
            \/ /\ pc[r] = "final" /\ event'[r] = event[r]
               /\ pc'[r] = IF store[call[r].case] # Null THEN "done" ELSE "failed"
            \/ /\ pc[r] = "authorize" /\ pc'[r] = "get"
               /\ \/ call[r].kind = "approve" /\ event'[r] = "APPROVE"
                  \/ call[r].kind = "reject" /\ event'[r] = "REJECT"
            \/ pc[r] = "authorize" /\ pc'[r] = "failed" /\ event'[r] = event[r]
            \/ /\ pc[r] = "send" /\ pc'[r] = "get"
               /\ event'[r] \in {"EXECUTION_SUCCEEDED", "EXECUTION_FAILED"}
            \/ pc[r] = "upload" /\ pc'[r] = "anchor" /\ event'[r] = event[r]
            \/ pc[r] = "anchor" /\ pc'[r] \in {"wait", "fee"} /\ event'[r] = event[r]
            \/ pc[r] = "wait" /\ pc'[r] = "fee" /\ event'[r] = event[r]
            \/ pc[r] = "fee" /\ pc'[r] = "get" /\ event'[r] = "OUTCOME_CONFIRMED"
<1>1. pc \in [Request -> Resting \cup Steps] /\ event \in [Request -> CaseEvent \cup {Null}]
  BY DEF Inv, TypeOK
<1>2. CASE TransitionGet(r)
  BY <1>1, <1>2 DEF TransitionGet, Goto
<1>3. CASE Analyze(r) \/ Final(r) \/ SendReturns(r) \/ SendThrows(r)
  BY <1>1, <1>3 DEF Analyze, Final, SendReturns, SendThrows, Transition, Goto
<1>4. CASE Authorize(r)
  BY <1>1, <1>4 DEF Authorize, Transition, Goto
<1>5. CASE Upload(r) \/ AnchorSubmit(r) \/ AnchorSkip(r) \/ AnchorDone(r) \/ AnchorLost(r)
           \/ AssessFee(r)
  BY <1>1, <1>5 DEF Upload, AnchorSubmit, AnchorSkip, AnchorDone, AnchorLost, AssessFee,
                    Transition, Goto, external
<1> QED
  BY <1>2, <1>3, <1>4, <1>5 DEF Serve

\* What a save writes and where it leads.
LEMMA Saved ==
  ASSUME Inv, NEW r \in Request, pc[r] = "save",
         store' = [store EXCEPT ![call[r].case] = Patched(r)], call' = call
  PROVE  /\ store'[call[r].case] # Null /\ read[r] # Null /\ read[r].state \in CaseState
         /\ Legal(read[r].state, event[r]) /\ Prepared(r)
         /\ store'[call[r].case].state = ApplyTransition(read[r].state, event[r])
<1>1. InFlight(r)
  BY DEF InFlight, Steps
<1>2. /\ call[r].case \in Case /\ read[r] # Null /\ read[r] \in CaseRecord
      /\ Legal(read[r].state, event[r]) /\ Prepared(r)
  BY <1>1, AtStep DEF ReadOK, StepOK, Inv, TypeOK
<1>3. Patched(r) \in CaseRecord /\ Patched(r).state = ApplyTransition(read[r].state, event[r])
  BY <1>2, PatchedFields, PatchedConsistent
<1> QED
  BY <1>2, <1>3, NullAssumption DEF CaseRecord, Inv, TypeOK

\* A save of transition e leaves the case in state "after"; the request then is at
\* a step, with the event "next".
Leads(r, e, after, step, next) ==
  /\ event[r] = e /\ store'[call[r].case].state = after
  /\ pc'[r] = step /\ event'[r] = next

SaveLeads(r) ==
  \/ Leads(r, "SUBMIT", "SUBMITTED", "get", "BEGIN_ANALYSIS")
  \/ Leads(r, "BEGIN_ANALYSIS", "ANALYZING", "analyze", "BEGIN_ANALYSIS")
  \/ Leads(r, "PROPOSE_ACTION", "ACTION_PROPOSED", "get", "REQUEST_APPROVAL")
  \/ Leads(r, "REQUEST_APPROVAL", "AWAITING_APPROVAL", "final", "REQUEST_APPROVAL")
  \/ Leads(r, "APPROVE", "APPROVED", "get", "BEGIN_EXECUTION")
  \/ Leads(r, "REJECT", "REJECTED", "done", "REJECT")
  \/ Leads(r, "BEGIN_EXECUTION", "EXECUTING", "send", "BEGIN_EXECUTION")
  \/ Leads(r, "EXECUTION_SUCCEEDED", "OUTCOME_PENDING", "upload", "EXECUTION_SUCCEEDED")
  \/ Leads(r, "EXECUTION_FAILED", "EXECUTION_FAILED", "final", "EXECUTION_FAILED")
  \/ Leads(r, "EXECUTION_FAILED", "EXECUTION_FAILED", "done", "EXECUTION_FAILED")
  \/ Leads(r, "OUTCOME_CONFIRMED", "VERIFIED_SUCCESS", "done", "OUTCOME_CONFIRMED")

\* A save leads to a state of the case that the request goes on from, or is done
\* with, whatever was on record.
LEMMA SaveControl ==
  ASSUME Inv, NEW r \in Request, TransitionSave(r)
  PROVE  /\ store'[call[r].case] # Null /\ Prepared(r) /\ call' = call
         /\ SaveLeads(r)
<1>1. /\ pc[r] = "save" /\ store' = [store EXCEPT ![call[r].case] = Patched(r)]
      /\ call' = call /\ Continue(r)
  BY DEF TransitionSave
<1>2. /\ store'[call[r].case] # Null /\ Prepared(r)
      /\ read[r].state \in CaseState /\ Legal(read[r].state, event[r])
      /\ store'[call[r].case].state = ApplyTransition(read[r].state, event[r])
  BY <1>1, Saved
<1>3. event[r] \in SubmitEvents \cup ApproveEvents \cup {"REJECT"}
  BY <1>2 DEF Prepared
<1>4. pc \in [Request -> Resting \cup Steps] /\ event \in [Request -> CaseEvent \cup {Null}]
  BY DEF Inv, TypeOK
<1> DEFINE after == store'[call[r].case].state
<1>5. /\ event[r] = "SUBMIT" => after = "SUBMITTED"
      /\ event[r] = "BEGIN_ANALYSIS" => after = "ANALYZING"
      /\ event[r] = "PROPOSE_ACTION" => after = "ACTION_PROPOSED"
      /\ event[r] = "REQUEST_APPROVAL" => after = "AWAITING_APPROVAL"
      /\ event[r] = "APPROVE" => after = "APPROVED"
      /\ event[r] = "REJECT" => after = "REJECTED"
      /\ event[r] = "BEGIN_EXECUTION" => after = "EXECUTING"
      /\ event[r] = "EXECUTION_SUCCEEDED" => after = "OUTCOME_PENDING"
      /\ event[r] = "EXECUTION_FAILED" => after = "EXECUTION_FAILED"
      /\ event[r] = "OUTCOME_CONFIRMED" => after = "VERIFIED_SUCCESS"
  BY <1>2, TransitionTable
<1>6. CASE Submits(r)
  <2>1. event[r] \in SubmitEvents
    BY <1>2, <1>6 DEF Prepared
  <2> QED
    BY <1>1, <1>2, <1>4, <1>5, <2>1
       DEF Continue, Transition, Goto, SaveLeads, Leads, SubmitEvents
<1>7. CASE ~Submits(r)
  <2>1. event[r] \in ApproveEvents \cup {"REJECT"}
    BY <1>2, <1>7 DEF Prepared
  <2> QED
    BY <1>1, <1>2, <1>4, <1>5, <2>1
       DEF Continue, Transition, Goto, SaveLeads, Leads, ApproveEvents
<1> QED
  BY <1>1, <1>2, <1>6, <1>7

\* The transitions that a request makes from where it left its case are legal, and
\* the states it leaves a case in for good are final.
LEMMA NextIsLegal ==
  /\ Legal("DRAFT", "SUBMIT") /\ Legal("SUBMITTED", "BEGIN_ANALYSIS")
  /\ Legal("ANALYZING", "PROPOSE_ACTION") /\ Legal("ACTION_PROPOSED", "REQUEST_APPROVAL")
  /\ Legal("APPROVED", "BEGIN_EXECUTION")
  /\ Legal("EXECUTING", "EXECUTION_SUCCEEDED") /\ Legal("EXECUTING", "EXECUTION_FAILED")
  /\ Legal("OUTCOME_PENDING", "OUTCOME_CONFIRMED")
BY DEF Legal, Transitions, Entries

LEMMA EndsAreTerminal ==
  \A s \in {"VERIFIED_SUCCESS", "EXECUTION_FAILED", "REJECTED"} : IsTerminal(s)
BY DEF IsTerminal, LegalEvents, Legal, Transitions, Entries

-----------------------------------------------------------------------------
(* However requests overlap, each of them comes to an end.                 *)

\* How far a request can have come.
LEMMA PassedRange ==
  ASSUME Inv, NEW r \in Request
  PROVE  /\ Turn(event[r]) \in 1 .. 4 /\ Passed(r) \in 0 .. 60
         /\ InFlight(r) => Passed(r) \in 1 .. 50
<1>1. Turn(event[r]) \in 1 .. 4
  BY DEF Turn
<1>2. pc[r] \in Resting \cup Steps
  BY DEF Inv, TypeOK
<1> QED
  BY <1>1, <1>2 DEF Passed, InFlight, Resting, Steps

\* A request that is left alone stays where it is.
LEMMA PassedStays ==
  ASSUME NEW r, pc'[r] = pc[r], event'[r] = event[r]
  PROVE  Passed(r)' = Passed(r)
BY DEF Passed, Turn

\* Each step of its own takes a request on.
LEMMA StepPasses ==
  ASSUME Inv, NEW r \in Request, Serve(r) \/ AnchorLost(r) \/ Throw(r)
  PROVE  Passed(r) < Passed(r)'
<1>0. InFlight(r) /\ Passed(r) \in 1 .. 50 /\ Turn(event[r]) \in 1 .. 4
  BY HandlerStep, PassedRange DEF StepOf
<1>1. CASE pc'[r] \in {"done", "failed"}
  <2>1. Passed(r)' = 60
    BY <1>1 DEF Passed
  <2> QED
    BY <1>0, <2>1
<1>2. CASE Throw(r)
  <2>1. pc'[r] = "failed"
    BY <1>2 DEF Throw, Goto, Inv, TypeOK
  <2> QED
    BY <1>1, <2>1
<1>3. CASE Create(r)
  <2>1. pc[r] = "create" /\ pc'[r] = "get" /\ event'[r] = "SUBMIT"
    BY <1>3 DEF Create, Transition, Inv, TypeOK
  <2> QED
    BY <2>1 DEF Passed, Turn
<1>4. CASE TransitionSave(r)
  <2>1. pc[r] = "save" /\ SaveLeads(r)
    BY <1>4, SaveControl DEF TransitionSave
  <2> QED
    BY <1>1, <2>1 DEF SaveLeads, Leads, Passed, Turn
<1>5. CASE (Serve(r) \/ AnchorLost(r)) /\ ~Create(r) /\ ~TransitionSave(r) /\ pc[r] = "get"
  <2>1. pc'[r] = "failed" \/ (pc'[r] = "save" /\ event'[r] = event[r])
    BY <1>5, Control
  <2>2. pc'[r] = "save" /\ event'[r] = event[r] => Passed(r)' = 10 * Turn(event[r]) + 1
    BY DEF Passed, Turn
  <2>3. Passed(r) = 10 * Turn(event[r])
    BY <1>5 DEF Passed
  <2> QED
    BY <1>0, <1>1, <2>1, <2>2, <2>3
<1>6. CASE (Serve(r) \/ AnchorLost(r)) /\ ~Create(r) /\ ~TransitionSave(r) /\ pc[r] # "get"
  BY <1>1, <1>6, Control DEF Passed, Turn
<1> QED
  BY <1>2, <1>3, <1>4, <1>5, <1>6

\* A request goes on with each of its steps and is never taken back, however
\* requests overlap and whatever fails: it makes finitely many.
THEOREM RequestsComeToAnEnd == Spec => RequestsAdvance
<1>1. ASSUME Inv, [Next]_vars, NEW r \in Request
      PROVE  /\ Passed(r) <= Passed(r)'
             /\ Serve(r) \/ AnchorLost(r) \/ Throw(r) => Passed(r) < Passed(r)'
  <2>1. Passed(r) \in 0 .. 60 /\ Passed(r)' \in 0 .. 60
    <3>1. Inv'
      BY <1>1, NextInv
    <3>2. Turn(event'[r]) \in 1 .. 4 /\ pc'[r] \in Resting \cup Steps
      BY <3>1 DEF Turn, Inv, TypeOK
    <3>3. Turn(event[r])' = Turn(event'[r])
      BY DEF Turn
    <3> QED
      BY <1>1, <3>2, <3>3, PassedRange DEF Passed, Resting, Steps
  <2>2. Serve(r) \/ AnchorLost(r) \/ Throw(r) => Passed(r) < Passed(r)'
    BY <1>1, StepPasses
  <2>3. pc'[r] = pc[r] /\ event'[r] = event[r] => Passed(r) <= Passed(r)'
    BY <2>1, PassedStays
  <2>4. ASSUME NEW q \in Request, Serve(q) \/ AnchorLost(q) \/ Throw(q)
        PROVE  Passed(r) <= Passed(r)'
    <3>1. CASE q = r
      BY <2>1, <2>2, <2>4, <3>1
    <3>2. CASE q # r
      BY <1>1, <2>3, <2>4, <3>2, HandlerStep DEF StepOf, Unmoved
    <3> QED
      BY <3>1, <3>2
  <2>5. ASSUME NEW q \in Request, ArriveSubmit(q) \/ ArriveApprove(q) \/ ArriveReject(q)
        PROVE  Passed(r) <= Passed(r)'
    <3>1. pc[q] = "idle" /\ event' = event /\ \A s \in Request \ {q} : pc'[s] = pc[s]
      BY <1>1, <2>5 DEF ArriveSubmit, ArriveApprove, ArriveReject, Arrive, Inv, TypeOK
    <3>2. pc[r] = "idle" => Passed(r) = 0
      BY DEF Passed
    <3> QED
      BY <2>1, <2>3, <3>1, <3>2
  <2>6. ASSUME NEW i \in Instance, Crash(i) PROVE Passed(r) <= Passed(r)'
    <3>1. event' = event /\ pc'[r] \in {pc[r], "failed"}
      BY <2>6 DEF Crash
    <3>2. pc'[r] = "failed" => Passed(r)' = 60
      BY DEF Passed
    <3> QED
      BY <2>1, <2>3, <3>1, <3>2
  <2>7. ASSUME NEW q \in Request, Mine(q) PROVE Passed(r) <= Passed(r)'
    BY <2>3, <2>7 DEF Mine
  <2>8. ASSUME UNCHANGED vars PROVE Passed(r) <= Passed(r)'
    BY <2>3, <2>8 DEF vars, locals, external
  <2>9. Passed(r) <= Passed(r)'
    BY <1>1, <2>4, <2>5, <2>6, <2>7, <2>8 DEF Next, Quiescent
  <2> QED
    BY <2>2, <2>9
<1>2. Inv /\ [Next]_vars =>
        [\A r \in Request :
           /\ Passed(r) <= Passed(r)'
           /\ Serve(r) \/ AnchorLost(r) \/ Throw(r) => Passed(r) < Passed(r)']_vars
  BY <1>1
<1> QED
  BY <1>2, Invariance, PTL DEF Spec, RequestsAdvance

-----------------------------------------------------------------------------
(* However requests overlap, no case is left on the way.                   *)

\* The request that saves a case goes on with it, or leaves it at rest.
LEMMA SaverDrives ==
  ASSUME Inv, NEW r \in Request, Create(r) \/ TransitionSave(r)
  PROVE  LET c == call[r].case
         IN store'[c] # Null /\ call' = call /\ (AtRest(c)' \/ Drives(r)')
<1>1. CASE Create(r)
  <2>1. InFlight(r) /\ pc[r] = "create"
    BY <1>1 DEF Create, InFlight, Steps
  <2>2. store[call[r].case] = Null /\ call[r].input \in Input /\ call[r] \in Arguments
    BY <2>1, AtStep DEF StepOK, SubmitOK, CallOK
  <2>3. NewRecord(r) # Null /\ NewRecord(r).state = "DRAFT"
    <3>1. NewRecord(r) \in CaseRecord
      BY <2>2 DEF NewRecord, CaseRecord, CaseState, Arguments
    <3> QED
      BY <3>1, NullAssumption DEF NewRecord
  <2>4. /\ store'[call[r].case] = NewRecord(r) /\ call' = call
        /\ pc'[r] = "get" /\ event'[r] = "SUBMIT"
    BY <1>1, <2>1, AtStep DEF Create, Transition, Inv, TypeOK
  <2> QED
    BY <2>3, <2>4, NextIsLegal DEF Drives, InFlight, Steps
<1>2. CASE TransitionSave(r)
  <2>1. store'[call[r].case] # Null /\ call' = call /\ SaveLeads(r)
    BY <1>2, SaveControl
  <2>2. CASE store'[call[r].case].state \in {"AWAITING_APPROVAL", "VERIFIED_SUCCESS",
                                            "EXECUTION_FAILED", "REJECTED"}
    BY <2>1, <2>2, EndsAreTerminal DEF AtRest
  <2>3. CASE store'[call[r].case].state \notin {"AWAITING_APPROVAL", "VERIFIED_SUCCESS",
                                               "EXECUTION_FAILED", "REJECTED"}
    BY <2>1, <2>3, NextIsLegal DEF SaveLeads, Leads, Drives, InFlight, Steps
  <2> QED
    BY <2>1, <2>2, <2>3
<1> QED
  BY <1>1, <1>2

\* A request that drives its case does so until it saves.
LEMMA DriverDrives ==
  ASSUME Inv, NEW r \in Request, Serve(r) \/ AnchorLost(r), ~Create(r), ~TransitionSave(r),
         Drives(r)
  PROVE  Drives(r)'
<1>1. /\ store' = store /\ call' = call
      /\ pc[r] \in {"get", "analyze", "send", "upload", "anchor", "wait", "fee"}
  BY Control DEF Drives
<1>2. CASE pc[r] = "get"
  BY <1>1, <1>2, Control DEF Drives, InFlight, Steps
<1>3. CASE pc[r] \in {"analyze", "send"}
  BY <1>1, <1>3, Control, NextIsLegal DEF Drives, InFlight, Steps
<1>4. CASE pc[r] \in {"upload", "anchor", "wait", "fee"}
  BY <1>1, <1>4, Control, NextIsLegal DEF Drives, InFlight, Steps
<1> QED
  BY <1>1, <1>2, <1>3, <1>4

\* It does so whatever other requests do on other cases.
LEMMA DriverStays ==
  ASSUME NEW q \in Request, Drives(q), pc'[q] = pc[q], event'[q] = event[q],
         call'[q] = call[q], store'[call[q].case] = store[call[q].case]
  PROVE  Drives(q)'
BY DEF Drives, InFlight

LEMMA NextLeavesNone ==
  ASSUME ~Faults, Inv, NoCaseIsLeft, [Next]_vars
  PROVE  NoCaseIsLeft'
<1> SUFFICES ASSUME NEW c \in Case, store'[c] # Null, ~AtRest(c)'
             PROVE  \E q \in Request : call'[q] # Null /\ call'[q].case = c /\ Drives(q)'
  BY DEF NoCaseIsLeft
<1> DEFINE Driven == \E q \in Request : call'[q] # Null /\ call'[q].case = c /\ Drives(q)'
<1>1. ASSUME store'[c] = store[c]
      PROVE  \E q \in Request : call[q] # Null /\ call[q].case = c /\ Drives(q)
  BY <1>1 DEF NoCaseIsLeft, AtRest
<1>2. ASSUME NEW r \in Request, Create(r) \/ TransitionSave(r), call[r].case = c
      PROVE  Driven
  <2>1. InFlight(r)
    BY <1>2 DEF Create, TransitionSave, InFlight, Steps
  <2>2. call[r] # Null /\ call' = call
    BY <1>2, <2>1, AtStep, SaverDrives, ArgumentsAssumption
  <2> QED
    BY <1>2, <2>2, SaverDrives
<1>3. ASSUME NEW r \in Request, Serve(r) \/ AnchorLost(r),
             ~((Create(r) \/ TransitionSave(r)) /\ call[r].case = c)
      PROVE  Driven
  <2>1. StepOf(r)
    BY <1>3, HandlerStep
  <2>2. store'[c] = store[c]
    BY <1>3, <2>1, Control DEF StepOf
  <2>3. PICK q \in Request : call[q] # Null /\ call[q].case = c /\ Drives(q)
    BY <1>1, <2>2
  <2>4. CASE q # r
    BY <2>1, <2>2, <2>3, <2>4, DriverStays DEF StepOf, Unmoved
  <2>5. CASE q = r
    BY <1>3, <2>1, <2>3, <2>5, DriverDrives DEF StepOf
  <2> QED
    BY <2>4, <2>5
<1>4. ASSUME NEW r \in Request, ArriveSubmit(r) \/ ArriveApprove(r) \/ ArriveReject(r)
      PROVE  Driven
  <2>1. /\ pc[r] = "idle" /\ store' = store /\ event' = event
        /\ \A q \in Request \ {r} : pc'[q] = pc[q] /\ call'[q] = call[q]
    BY <1>4 DEF ArriveSubmit, ArriveApprove, ArriveReject, Arrive, Inv, TypeOK
  <2>2. PICK q \in Request : call[q] # Null /\ call[q].case = c /\ Drives(q)
    BY <1>1, <2>1
  <2>3. q # r
    BY <2>1, <2>2 DEF Drives, InFlight, Steps
  <2> QED
    BY <2>1, <2>2, <2>3, DriverStays
<1>5. ASSUME UNCHANGED <<store, pc, call, event>>
      PROVE  Driven
  BY <1>1, <1>5, DriverStays
<1>6. ASSUME NEW r \in Request, Mine(r) PROVE Driven
  BY <1>5, <1>6 DEF Mine
<1>7. CASE UNCHANGED vars
  BY <1>5, <1>7 DEF vars
<1> QED
  BY <1>2, <1>3, <1>4, <1>6, <1>7 DEF Next, Quiescent, Throw, Crash

\* Without faults a case on its way always has a request that goes on with it,
\* however saves overlap and whoever's save undoes another's.
THEOREM NoneIsLeft ==
  ASSUME ~Faults
  PROVE  Spec => []NoCaseIsLeft
<1>1. Init => NoCaseIsLeft
  BY DEF Init, NoCaseIsLeft
<1>2. Inv /\ NoCaseIsLeft /\ [Next]_vars => NoCaseIsLeft'
  BY NextLeavesNone
<1> QED
  BY <1>1, <1>2, Invariance, PTL DEF Spec

-----------------------------------------------------------------------------
(* Without overlap, a request finds its case where it left it.             *)

\* The request has moved its case, or is about to, from where it found it.
Underway(r) ==
  /\ InFlight(r) /\ pc[r] \notin {"create", "authorize", "final"}
  /\ pc[r] = "get" => event[r] \notin {"APPROVE", "REJECT"}

StageOK(r) ==
  /\ Underway(r) => Drives(r)
  /\ pc[r] = "final" =>
       In(r, IF Submits(r) THEN {"AWAITING_APPROVAL"} ELSE {"EXECUTION_FAILED"})
  /\ pc[r] \in {"idle", "create", "authorize"} => event[r] = Null

\* An approval that is not making a transition has made its first two.
ApprovedOK(r) ==
  pc[r] \in {"send", "upload", "anchor", "wait", "fee", "final"} /\ ~Submits(r) =>
    call[r].kind = "approve" /\ event[r] \notin {Null, "APPROVE"}

\* Inductive relative to Inv, FeeInv and AloneInv.
StageInv == \A r \in Request : StageOK(r) /\ ApprovedOK(r)

\* A step that a request takes is one of its stages to the next.
LEMMA StageStep ==
  ASSUME Inv, AloneInv, NEW r \in Request, Serve(r) \/ AnchorLost(r), StageOK(r)
  PROVE  StageOK(r)'
<1>1. CASE Create(r)
  <2>1. pc'[r] = "get" /\ event'[r] = "SUBMIT"
    BY <1>1 DEF Create, Transition, Inv, TypeOK
  <2>2. store'[call[r].case] # Null /\ store'[call[r].case].state = "DRAFT" /\ call' = call
    <3>1. InFlight(r) /\ pc[r] = "create"
      BY <1>1 DEF Create, InFlight, Steps
    <3>2. NewRecord(r) \in CaseRecord
      BY <3>1, AtStep DEF StepOK, SubmitOK, CallOK, NewRecord, CaseRecord, CaseState, Arguments
    <3> QED
      BY <1>1, <3>1, <3>2, AtStep, NullAssumption DEF Create, NewRecord, Inv, TypeOK
  <2> QED
    BY <2>1, <2>2, NextIsLegal DEF StageOK, Underway, Drives, InFlight, Steps
<1>2. CASE TransitionSave(r)
  <2>1. store'[call[r].case] # Null /\ call' = call /\ SaveLeads(r) /\ Prepared(r)
    BY <1>2, SaveControl
  <2>2. CASE pc'[r] = "final"
    BY <2>1, <2>2 DEF SaveLeads, Leads, StageOK, Underway, In, Submits, Prepared,
                      SubmitEvents, ApproveEvents
  <2>3. CASE pc'[r] # "final"
    BY <2>1, <2>3, NextIsLegal DEF SaveLeads, Leads, StageOK, Underway, Drives, InFlight, Steps
  <2> QED
    BY <2>2, <2>3
<1>3. CASE ~Create(r) /\ ~TransitionSave(r)
  <2>1. /\ pc'[r] # "final" /\ pc'[r] \notin {"idle", "create", "authorize"}
        /\ store' = store /\ call' = call
    BY <1>3, Control
  <2>2. CASE Drives(r)
    BY <1>3, <2>1, <2>2, DriverDrives DEF StageOK
  <2>3. CASE ~Drives(r)
    <3>1. /\ \/ pc[r] = "get" /\ event[r] \in {"APPROVE", "REJECT"}
             \/ pc[r] \in {"authorize", "final"}
    BY <1>3, <2>3, Control DEF StageOK, Underway, InFlight, Steps
    <3> QED
      BY <1>3, <2>1, <3>1, Control DEF StageOK, Underway, Drives, InFlight, Steps
  <2> QED
    BY <2>2, <2>3
<1> QED
  BY <1>1, <1>2, <1>3

LEMMA ApprovedStep ==
  ASSUME Inv, NEW r \in Request, Serve(r) \/ AnchorLost(r), ApprovedOK(r)
  PROVE  ApprovedOK(r)'
<1>1. CASE Create(r)
  BY <1>1 DEF Create, Transition, ApprovedOK, Inv, TypeOK
<1>2. CASE TransitionSave(r)
  <2>1. call' = call /\ SaveLeads(r) /\ event[r] \in SubmitEvents \cup ApproveEvents \cup {"REJECT"}
        /\ (event[r] \in SubmitEvents <=> Submits(r))
        /\ (event[r] \in ApproveEvents <=> call[r].kind = "approve")
    BY <1>2, SaveControl DEF Prepared
  <2> QED
    BY <2>1, EventAssumption
       DEF SaveLeads, Leads, ApprovedOK, Submits, SubmitEvents, ApproveEvents, CaseEvent
<1>3. CASE ~Create(r) /\ ~TransitionSave(r)
  BY <1>3, Control DEF ApprovedOK, Submits
<1> QED
  BY <1>1, <1>2, <1>3

\* A stage lasts while nobody else writes the case.
LEMMA StageStays ==
  ASSUME NEW q \in Request, StageOK(q), pc'[q] = pc[q], event'[q] = event[q],
         call'[q] = call[q], InFlight(q) => store'[call[q].case] = store[call[q].case]
  PROVE  StageOK(q)'
<1>1. Underway(q)' => Underway(q)
  BY DEF Underway, InFlight
<1>2. Underway(q) => Drives(q)'
  BY DriverStays DEF StageOK, Underway
<1>3. pc[q] = "final" => InFlight(q)
  BY DEF InFlight, Steps
<1> QED
  BY <1>1, <1>2, <1>3 DEF StageOK, In, Submits

LEMMA NextStages ==
  ASSUME ~Overlap, Inv, FeeInv, AloneInv, StageInv, [Next]_vars
  PROVE  StageInv'
<1> SUFFICES ASSUME NEW q \in Request PROVE StageOK(q)' /\ ApprovedOK(q)'
  BY DEF StageInv
<1>0. StageOK(q) /\ ApprovedOK(q)
  BY DEF StageInv
<1>1. ASSUME NEW r \in Request, Serve(r) \/ AnchorLost(r) \/ Throw(r)
      PROVE  StageOK(q)' /\ ApprovedOK(q)'
  <2>1. StepOf(r)
    BY <1>1, HandlerStep
  <2>2. CASE q # r
    <3>1. pc'[q] = pc[q] /\ event'[q] = event[q] /\ call'[q] = call[q]
      BY <2>1, <2>2 DEF StepOf, Unmoved
    <3>2. InFlight(q) => store'[call[q].case] = store[call[q].case]
      BY <2>1, <2>2, AtStep DEF StepOf, AloneInv, Apart
    <3> QED
      BY <1>0, <3>1, <3>2, StageStays DEF ApprovedOK, Submits
  <2>3. CASE q = r /\ ~Throw(r)
    BY <1>0, <1>1, <2>3, StageStep, ApprovedStep
  <2>4. CASE q = r /\ Throw(r)
    BY <2>4 DEF Throw, Goto, StageOK, ApprovedOK, Underway, InFlight, Steps, Inv, TypeOK
  <2> QED
    BY <2>2, <2>3, <2>4
<1>2. ASSUME NEW r \in Request, ArriveSubmit(r) \/ ArriveApprove(r) \/ ArriveReject(r)
      PROVE  StageOK(q)' /\ ApprovedOK(q)'
  <2>1. /\ pc[r] = "idle" /\ pc'[r] \in {"create", "authorize"}
        /\ store' = store /\ event' = event
        /\ \A p \in Request \ {r} : pc'[p] = pc[p] /\ call'[p] = call[p]
    BY <1>2 DEF ArriveSubmit, ArriveApprove, ArriveReject, Arrive, Inv, TypeOK
  <2>2. CASE q # r
    BY <1>0, <2>1, <2>2, StageStays DEF ApprovedOK, Submits
  <2>3. CASE q = r
    BY <1>0, <2>1, <2>3 DEF StageOK, ApprovedOK, Underway
  <2> QED
    BY <2>2, <2>3
<1>3. ASSUME NEW i \in Instance, Crash(i) PROVE StageOK(q)' /\ ApprovedOK(q)'
  <2>1. /\ pc'[q] = "failed" \/ pc'[q] = pc[q]
        /\ UNCHANGED <<store, call, event>>
    BY <1>3 DEF Crash, Inv, TypeOK
  <2>2. CASE pc'[q] = "failed"
    BY <2>2 DEF StageOK, ApprovedOK, Underway, InFlight, Steps
  <2>3. CASE pc'[q] = pc[q]
    BY <1>0, <2>1, <2>3, StageStays DEF ApprovedOK, Submits
  <2> QED
    BY <2>1, <2>2, <2>3
<1>4. ASSUME NEW r \in Request, Mine(r) PROVE StageOK(q)' /\ ApprovedOK(q)'
  BY <1>0, <1>4, StageStays DEF Mine, ApprovedOK, Submits
<1>5. CASE UNCHANGED vars
  BY <1>0, <1>5, StageStays DEF vars, ApprovedOK, Submits
<1> QED
  BY <1>1, <1>2, <1>3, <1>4, <1>5 DEF Next, Quiescent

LEMMA StageInvariance ==
  ASSUME ~Overlap
  PROVE  Spec => []StageInv
<1>1. Init => StageInv
  BY DEF Init, StageInv, StageOK, ApprovedOK, Underway, InFlight, Steps
<1>2. Inv /\ FeeInv /\ AloneInv /\ StageInv /\ [Next]_vars => StageInv'
  BY NextStages
<1> QED
  BY <1>1, <1>2, Invariance, FeeInvariance, AloneInvariance, PTL DEF Spec

-----------------------------------------------------------------------------
(* The promise of CaseRequests.                                            *)

\* What is on record of a case now, and what its request found there.
Now(c) == IF store[c] = Null THEN "ABSENT" ELSE store[c].state

Found(r) ==
  IF Submits(r) THEN "ABSENT"
  ELSE IF call[r].kind = "approve" /\ event[r] \notin {Null, "APPROVE"}
       THEN "AWAITING_APPROVAL"
  ELSE Now(call[r].case)

\* A case is seen as it is, or as its one request found it.
Seen ==
  \A c \in Case :
    /\ (\A q \in Request : InFlight(q) => call[q].case # c) => Before(c) = Now(c)
    /\ \A r \in Request :
         /\ InFlight(r) /\ call[r].case = c
         /\ \A q \in Request : InFlight(q) /\ call[q].case = c => q = r
         => Before(c) = Found(r)

LEMMA AsSeen == Seen
<1>1. ASSUME NEW c \in Case, \A q \in Request : InFlight(q) => call[q].case # c
      PROVE  Before(c) = Now(c)
  <2>1. AtWork(c) = {}
    BY <1>1 DEF AtWork
  <2> QED
    BY <2>1 DEF Before, Now
<1>2. ASSUME NEW c \in Case, NEW r \in Request, InFlight(r), call[r].case = c,
             \A q \in Request : InFlight(q) /\ call[q].case = c => q = r
      PROVE  Before(c) = Found(r)
  <2>1. AtWork(c) = {r}
    BY <1>2 DEF AtWork
  <2> QED
    BY <1>2, <2>1 DEF Before, Found, Now, Submits
<1> QED
  BY <1>1, <1>2 DEF Seen

LEMMA AsSeenNext == Seen'
BY AsSeen, PTL

\* What no step of other requests changes, of a case that none of them works on.
LEMMA SeenUnchanged ==
  ASSUME NEW c, store'[c] = store[c],
         \A q \in Request : /\ InFlight(q) /\ call[q].case = c <=>
                               InFlight(q)' /\ call'[q].case = c
                            /\ InFlight(q) /\ call[q].case = c =>
                                 call'[q] = call[q] /\ event'[q] = event[q]
  PROVE  Before(c)' = Before(c)
<1>1. AtWork(c)' = AtWork(c)
  BY DEF AtWork
<1>2. \A q \in AtWork(c) : call'[q] = call[q] /\ event'[q] = event[q]
  BY DEF AtWork
<1>3. /\ (\E q \in AtWork(c) : call[q].kind = "submit")
           <=> (\E q \in AtWork(c)' : call'[q].kind = "submit")
      /\ (\E q \in AtWork(c) : call[q].kind = "approve" /\ event[q] \notin {Null, "APPROVE"})
           <=> (\E q \in AtWork(c)' :
                  call'[q].kind = "approve" /\ event'[q] \notin {Null, "APPROVE"})
  BY <1>1, <1>2
<1> QED
  BY <1>3 DEF Before

\* What a step of one request changes of what CaseRequests sees.
LEMMA StepSeen ==
  ASSUME Inv, AloneInv, TypeOK', NEW r \in Request, StepOf(r)
  PROVE  LET c == call[r].case
             ended == pc'[r] \in {"done", "failed"}
         IN /\ c \in Case /\ Unstarted[c] = Found(r)
            /\ Unstarted' = [Unstarted EXCEPT ![c] = IF ended THEN Now(c)' ELSE Found(r)']
            /\ Asked' = Asked /\ Asked[r] = [kind |-> call[r].kind, case |-> c]
            /\ Asked[r] # Null
            /\ Answers[r] = "none"
            /\ Answers' = [Answers EXCEPT ![r] = IF ended THEN pc'[r] ELSE "none"]
<1> DEFINE ended == pc'[r] \in {"done", "failed"}
<1>0. PICK c \in Case : c = call[r].case
  BY AtStep DEF StepOf
<1>1. /\ InFlight(r) /\ call' = call /\ pc'[r] # "idle" /\ c = call[r].case /\ call[r] # Null
      /\ \A q \in Request \ {r} : Unmoved(q)
      /\ \A d \in Case \ {c} : store'[d] = store[d]
  BY <1>0, AtStep, ArgumentsAssumption DEF StepOf
<1>2. \A q \in Request \ {r} : InFlight(q)' <=> InFlight(q)
  BY <1>1 DEF Unmoved, InFlight
<1>3. \A q \in Request : InFlight(q) /\ call[q].case = c => q = r
  BY <1>1 DEF AloneInv, Apart
<1>4. Before(c) = Found(r)
  BY <1>1, <1>3, AsSeen DEF Seen
<1>5. InFlight(r)' <=> ~ended
  <2>1. pc'[r] \in Resting \cup Steps
    BY DEF TypeOK
  <2> QED
    BY <1>1, <2>1 DEF InFlight, Resting, Steps
<1>6. Before(c)' = IF ended THEN Now(c)' ELSE Found(r)'
  <2>1. CASE ended
    <3>1. \A q \in Request : InFlight(q)' => call'[q].case # c
      BY <1>1, <1>2, <1>3, <1>5, <2>1
    <3> QED
      BY <2>1, <3>1, AsSeenNext DEF Seen
  <2>2. CASE ~ended
    <3>1. \A q \in Request : InFlight(q)' /\ call'[q].case = c => q = r
      BY <1>1, <1>2, <1>3
    <3> QED
      BY <1>1, <1>5, <2>2, <3>1, AsSeenNext DEF Seen
  <2> QED
    BY <2>1, <2>2
<1>7. ASSUME NEW d \in Case, d # c PROVE Before(d)' = Before(d)
  BY <1>1, <1>2, <1>7, SeenUnchanged DEF Unmoved
<1>8. Unstarted' = [Unstarted EXCEPT ![c] = IF ended THEN Now(c)' ELSE Found(r)']
  BY <1>6, <1>7 DEF Unstarted
<1>9. /\ Asked' = Asked /\ Asked[r] = [kind |-> call[r].kind, case |-> c]
      /\ Asked[r] # Null
  <2>1. call[r].kind \in {"submit", "approve", "reject"}
    BY <1>1, AtStep DEF Arguments
  <2> QED
    BY <1>1, <2>1, AskedAssumption DEF Asked
<1>10. /\ Answers[r] = "none"
      /\ Answers' = [Answers EXCEPT ![r] = IF ended THEN pc'[r] ELSE "none"]
  BY <1>1 DEF Answers, InFlight, Steps, Unmoved
<1> QED
  BY <1>1, <1>4, <1>8, <1>9, <1>10 DEF Unstarted

\* What CaseRequests lets a call do.
LEMMA WholeSteps ==
  /\ [kind |-> "submit", from |-> "ABSENT", to |-> "AWAITING_APPROVAL"] \in Requests!Whole
  /\ \A to \in {"VERIFIED_SUCCESS", "EXECUTION_FAILED"} :
       [kind |-> "approve", from |-> "AWAITING_APPROVAL", to |-> to] \in Requests!Whole
  /\ [kind |-> "reject", from |-> "AWAITING_APPROVAL", to |-> "REJECTED"] \in Requests!Whole
BY DEF Requests!Whole, Requests!Takes

LEMMA PartSteps ==
  /\ \A to \in {"DRAFT", "SUBMITTED", "ANALYZING", "ACTION_PROPOSED"} :
       [kind |-> "submit", from |-> "ABSENT", to |-> to] \in Requests!Part
  /\ \A to \in {"APPROVED", "EXECUTING", "OUTCOME_PENDING"} :
       [kind |-> "approve", from |-> "AWAITING_APPROVAL", to |-> to] \in Requests!Part
BY DEF Requests!Part, Requests!Takes

\* A step after which the request goes on is none to its caller.
LEMMA GoingOn ==
  ASSUME Inv, AloneInv, TypeOK', NEW r \in Request, StepOf(r),
         pc'[r] \notin {"done", "failed"}, Found(r)' = Found(r)
  PROVE  UNCHANGED <<Unstarted, Asked, Answers>>
<1>1. PICK c \in Case : c = call[r].case
  BY StepSeen
<1>2. /\ Unstarted[c] = Found(r) /\ Unstarted' = [Unstarted EXCEPT ![c] = Found(r)]
      /\ Asked' = Asked
      /\ Answers[r] = "none" /\ Answers' = [Answers EXCEPT ![r] = "none"]
  BY <1>1, StepSeen
<1>3. Unstarted' = Unstarted /\ Answers' = Answers
  BY <1>2 DEF Unstarted, Answers
<1> QED
  BY <1>2, <1>3

\* One after which it is answered is its whole effect.
LEMMA Answered ==
  ASSUME Inv, AloneInv, TypeOK', NEW r \in Request, StepOf(r), pc'[r] = "done",
         NEW to, to = Now(call[r].case)',
         [kind |-> call[r].kind, from |-> Found(r), to |-> to] \in Requests!Whole
  PROVE  Requests!Serve(r)
<1> DEFINE step == [kind |-> call[r].kind, from |-> Found(r), to |-> to]
<1>1. PICK c \in Case : c = call[r].case
  BY StepSeen
<1>2. /\ Unstarted[c] = Found(r) /\ Unstarted' = [Unstarted EXCEPT ![c] = to]
      /\ Asked' = Asked /\ Asked[r] = [kind |-> call[r].kind, case |-> c] /\ Asked[r] # Null
      /\ Answers[r] = "none" /\ Answers' = [Answers EXCEPT ![r] = "done"]
  BY <1>1, StepSeen
<1>3. /\ step \in Requests!Whole /\ step.kind = Asked[r].kind
      /\ step.from = Unstarted[Asked[r].case]
      /\ Unstarted' = [Unstarted EXCEPT ![Asked[r].case] = step.to]
  BY <1>2
<1> HIDE DEF step
<1> QED
  BY <1>2, <1>3 DEF Requests!Serve, Requests!Open

\* One that refuses it has no effect.
LEMMA Refused ==
  ASSUME Inv, AloneInv, TypeOK', NEW r \in Request, StepOf(r), pc'[r] = "failed",
         ~Submits(r), Now(call[r].case)' = Found(r)
  PROVE  Requests!Refuse(r)
<1>1. PICK c \in Case : c = call[r].case
  BY StepSeen
<1>2. /\ Unstarted[c] = Found(r) /\ Unstarted' = [Unstarted EXCEPT ![c] = Found(r)]
      /\ Asked' = Asked /\ Asked[r] = [kind |-> call[r].kind, case |-> c] /\ Asked[r] # Null
      /\ Answers[r] = "none" /\ Answers' = [Answers EXCEPT ![r] = "failed"]
  BY <1>1, StepSeen
<1>3. Unstarted' = Unstarted
  BY <1>2 DEF Unstarted
<1> QED
  BY <1>2, <1>3 DEF Requests!Refuse, Requests!Open, Submits

\* A step that a request takes is none to its caller, or its answer, or a refusal.
LEMMA RequestStep ==
  ASSUME Inv, AloneInv, StageInv, TypeOK', NEW r \in Request, Serve(r) \/ AnchorLost(r)
  PROVE  Requests!Serve(r) \/ Requests!Refuse(r) \/ UNCHANGED <<Unstarted, Asked, Answers>>
<1> DEFINE c == call[r].case
<1>1. StepOf(r) /\ InFlight(r) /\ StageOK(r) /\ ApprovedOK(r) /\ call' = call /\ call[r] \in Arguments
  BY HandlerStep, AtStep DEF StageInv, StepOf
<1>2. /\ StepOK(r) /\ CallOK(r)
      /\ store[c] # Null => store[c].state \in CaseState
  BY <1>1, AtStep DEF CaseRecord
<1>3. CASE Create(r)
  <2>1. Submits(r) /\ pc'[r] = "get"
    BY <1>2, <1>3 DEF Create, Transition, StepOK, Inv, TypeOK
  <2>2. Found(r)' = Found(r)
    BY <1>1, <2>1 DEF Found, Submits
  <2> QED
    BY <1>1, <2>1, <2>2, GoingOn
<1>4. CASE TransitionSave(r)
  <2>1. SaveLeads(r) /\ Prepared(r) /\ store'[c] # Null
    BY <1>4, SaveControl
  <2>2. store[c] # Null /\ Legal(store[c].state, event[r])
    BY <1>1, <1>4 DEF TransitionSave, StageOK, Underway, Drives
  <2>3. event[r] \in {"APPROVE", "REJECT"} => store[c].state = "AWAITING_APPROVAL"
    BY <1>2, <2>2, TransitionTable
  <2>0. /\ Submits(r) <=> event[r] \in SubmitEvents
        /\ call[r].kind = "approve" <=> event[r] \in ApproveEvents
        /\ event[r] \in SubmitEvents \cup ApproveEvents \cup {"REJECT"}
        /\ Null \notin SubmitEvents \cup ApproveEvents \cup {"REJECT"}
    BY <2>1, EventAssumption DEF Prepared, SubmitEvents, ApproveEvents, CaseEvent
  <2>4. /\ Submits(r) => Found(r) = "ABSENT" /\ Found(r)' = "ABSENT"
        /\ ~Submits(r) => Found(r) = "AWAITING_APPROVAL"
    <3>1. Submits(r) => Found(r) = "ABSENT" /\ Found(r)' = "ABSENT"
      BY <1>1 DEF Found, Submits
    <3>2. ~Submits(r) => Found(r) = "AWAITING_APPROVAL"
      BY <2>0, <2>2, <2>3 DEF Found, Now, ApproveEvents
    <3> QED
      BY <3>1, <3>2
  <2>5. ~Submits(r) /\ pc'[r] # "done" => Found(r)' = "AWAITING_APPROVAL"
    BY <1>1, <2>0, <2>1, EventAssumption
       DEF SaveLeads, Leads, Found, Submits, SubmitEvents, ApproveEvents, CaseEvent
  <2>6. CASE pc'[r] # "done"
    <3>1. pc'[r] # "failed"
      BY <2>1 DEF SaveLeads, Leads
    <3> QED
      BY <1>1, <2>4, <2>5, <2>6, <3>1, GoingOn
  <2>7. CASE pc'[r] = "done"
    <3>1. PICK to : to = Now(c)'
      OBVIOUS
    <3>2. [kind |-> call[r].kind, from |-> Found(r), to |-> to] \in Requests!Whole
      <4>1. Now(c)' = store'[c].state
        BY <1>1, <2>1 DEF Now
      <4>2. \/ call[r].kind = "reject" /\ to = "REJECTED"
            \/ call[r].kind = "approve" /\ to \in {"VERIFIED_SUCCESS", "EXECUTION_FAILED"}
        BY <1>1, <2>0, <2>1, <2>7, <3>1, <4>1
           DEF SaveLeads, Leads, Submits, SubmitEvents, ApproveEvents, Arguments
      <4> QED
        BY <2>4, <4>2, WholeSteps DEF Submits
    <3> QED
      BY <1>1, <2>7, <3>1, <3>2, Answered
  <2> QED
    BY <2>6, <2>7
<1>5. CASE ~Create(r) /\ ~TransitionSave(r)
  <2>1. store' = store /\ Now(c)' = Now(c)
    BY <1>1, <1>5, Control DEF Now
  <2>2. CASE pc[r] = "get" /\ pc'[r] = "failed"
    <3>1. ~(store[c] # Null /\ Legal(store[c].state, event[r]))
      BY <1>5, <2>2, Control
    <3>2. event[r] \in {"APPROVE", "REJECT"}
      BY <1>1, <2>2, <3>1 DEF StageOK, Underway, Drives
    <3>3. ~Submits(r) /\ Found(r) = Now(c)
      BY <1>2, <2>2, <3>2 DEF StepOK, Prepared, SubmitEvents, ApproveEvents, Found, Submits
    <3> QED
      BY <1>1, <2>1, <2>2, <3>3, Refused
  <2>3. CASE pc[r] = "authorize" /\ pc'[r] = "failed"
    <3>1. ~Submits(r) /\ Found(r) = Now(c)
      BY <1>1, <1>2, <2>3 DEF StepOK, StageOK, Found, Submits
    <3> QED
      BY <1>1, <2>1, <2>3, <3>1, Refused
  <2>4. CASE pc[r] = "final"
    <3>1. /\ store[c] # Null
          /\ store[c].state = IF Submits(r) THEN "AWAITING_APPROVAL" ELSE "EXECUTION_FAILED"
          /\ ~Submits(r) => call[r].kind = "approve" /\ event[r] \notin {Null, "APPROVE"}
      BY <1>1, <2>4 DEF StageOK, ApprovedOK, In
    <3>2. pc'[r] = "done"
      BY <1>5, <2>4, <3>1, Control
    <3>3. PICK to : to = Now(c)'
      OBVIOUS
    <3>4. [kind |-> call[r].kind, from |-> Found(r), to |-> to] \in Requests!Whole
      BY <2>1, <3>1, <3>3, WholeSteps DEF Found, Now, Submits
    <3> QED
      BY <1>1, <3>2, <3>3, <3>4, Answered
  <2>5. CASE pc[r] # "final" /\ pc'[r] # "failed"
    <3>1. pc'[r] # "done"
      BY <1>5, <2>5, Control
    <3>2. CASE Submits(r)
      <4>1. Found(r)' = Found(r)
        BY <1>1, <3>2 DEF Found, Submits
      <4> QED
        BY <1>1, <2>5, <3>1, <4>1, GoingOn
    <3>3. CASE ~Submits(r) /\ pc[r] \in {"get", "authorize"}
      <4>1. Found(r)' = Found(r)
        BY <1>1, <1>5, <2>1, <2>5, <3>3, Control DEF Found, Submits, StageOK
      <4> QED
        BY <1>1, <2>5, <3>1, <4>1, GoingOn
    <3>4. CASE ~Submits(r) /\ pc[r] \notin {"get", "authorize"}
      <4>1. pc[r] \in {"send", "upload", "anchor", "wait", "fee"}
        BY <1>2, <1>5, <2>5, <3>4, Control DEF StepOK
      <4>2. Found(r)' = Found(r)
        <5>1. event'[r] \notin {Null, "APPROVE"}
          BY <1>1, <1>5, <3>4, <4>1, Control, EventAssumption DEF ApprovedOK, CaseEvent
        <5> QED
          BY <1>1, <3>4, <4>1, <5>1 DEF Found, Submits, ApprovedOK
      <4> QED
        BY <1>1, <2>5, <3>1, <4>2, GoingOn
    <3> QED
      BY <3>2, <3>3, <3>4
  <2> QED
    BY <1>5, <2>2, <2>3, <2>4, <2>5, Control
<1> QED
  BY <1>3, <1>4, <1>5

\* A request has left its case, if it is cut short, as it found it or half way.
Leaving(r, to) ==
  \/ to = Found(r)
  \/ [kind |-> call[r].kind, from |-> Found(r), to |-> to] \in Requests!Whole \cup Requests!Part

LEMMA HalfWay ==
  ASSUME Inv, AloneInv, StageInv, NEW r \in Request, InFlight(r), NEW to, to = Now(call[r].case)
  PROVE  Leaving(r, to)
<1> DEFINE c == call[r].case
<1>1. /\ StageOK(r) /\ ApprovedOK(r) /\ StepOK(r) /\ SubmitOK(r) /\ ApprovalOK(r) /\ Called(r)
      /\ store[c] # Null => store[c].state \in CaseState /\ Consistent(store[c])
      /\ call[r].kind \in {"submit", "approve", "reject"}
  BY AtStep DEF StageInv, CaseRecord, Arguments
<1>2. CASE pc[r] \in {"get", "save"} /\ event[r] \notin {"APPROVE", "REJECT"}
  <2>1. /\ store[c] # Null /\ Legal(store[c].state, event[r]) /\ Prepared(r)
    BY <1>1, <1>2 DEF StageOK, Underway, Drives, StepOK
  <2>2. event[r] \in SubmitEvents \cup ApproveEvents /\ event[r] # Null
    BY <1>2, <2>1, EventAssumption DEF Prepared, SubmitEvents, ApproveEvents, CaseEvent
  <2>3. CASE event[r] \in SubmitEvents
    <3>1. to \in {"DRAFT", "SUBMITTED", "ANALYZING", "ACTION_PROPOSED"}
      BY <1>1, <2>1, <2>3, TransitionTable DEF SubmitEvents, Now
    <3>2. Found(r) = "ABSENT" /\ call[r].kind = "submit"
      BY <2>1, <2>3 DEF Found, Prepared, Submits
    <3> QED
      BY <3>1, <3>2, PartSteps DEF Leaving
  <2>4. CASE event[r] \in ApproveEvents
    <3>1. current[r] # Null /\ call[r].kind = "approve"
      BY <2>1, <2>4 DEF Prepared
    <3>2. store[c].state # "ANALYZING"
      BY <1>1, <2>1, <3>1 DEF ApprovalOK, Consistent
    <3>3. to \in {"APPROVED", "EXECUTING", "OUTCOME_PENDING"}
      BY <1>1, <1>2, <2>1, <2>4, <3>2, TransitionTable DEF ApproveEvents, Now
    <3>4. Found(r) = "AWAITING_APPROVAL"
      BY <1>2, <2>2, <3>1 DEF Found, Submits
    <3> QED
      BY <3>1, <3>3, <3>4, PartSteps DEF Leaving
  <2> QED
    BY <2>2, <2>3, <2>4
<1>3. CASE pc[r] \in {"get", "save"} /\ event[r] \in {"APPROVE", "REJECT"}
  <2>1. Prepared(r)
    BY <1>1, <1>3 DEF StepOK
  <2>2. Found(r) = Now(c)
    BY <1>3, <2>1 DEF Prepared, Found, SubmitEvents, ApproveEvents, Submits
  <2> QED
    BY <2>2 DEF Leaving
<1>4. CASE pc[r] \in {"create", "authorize"}
  <2>1. Found(r) = Now(c)
    BY <1>1, <1>4 DEF StageOK, StepOK, SubmitOK, Found, Now, Submits
  <2> QED
    BY <2>1 DEF Leaving
<1>5. CASE pc[r] = "analyze"
  <2>1. Submits(r) /\ store[c] # Null /\ store[c].state = "ANALYZING"
    BY <1>1, <1>5 DEF StageOK, Underway, Drives, StepOK, InFlight, Steps
  <2> QED
    BY <2>1, PartSteps DEF Leaving, Found, Now, Submits
<1>6. CASE pc[r] = "final" /\ Submits(r)
  <2>1. to = "AWAITING_APPROVAL"
    BY <1>1, <1>6 DEF StageOK, In, Now
  <2> QED
    BY <1>6, <2>1, WholeSteps DEF Leaving, Found, Submits
<1>7. CASE pc[r] \in {"send", "upload", "anchor", "wait", "fee"} \/ (pc[r] = "final" /\ ~Submits(r))
  <2>1. ~Submits(r)
    BY <1>1, <1>7 DEF StepOK, Submits
  <2>2. call[r].kind = "approve" /\ Found(r) = "AWAITING_APPROVAL"
    BY <1>1, <1>7, <2>1 DEF ApprovedOK, Found, Submits
  <2>3. to \in {"EXECUTING", "OUTCOME_PENDING", "EXECUTION_FAILED"}
    BY <1>1, <1>7, <2>1 DEF StageOK, Underway, Drives, In, Now, InFlight, Steps
  <2> QED
    BY <2>2, <2>3, PartSteps, WholeSteps DEF Leaving
<1> QED
  BY <1>2, <1>3, <1>4, <1>5, <1>6, <1>7 DEF InFlight, Steps

\* So it has if its last write was made all the same.
LEMMA WrittenHalfWay ==
  ASSUME Inv, AloneInv, StageInv, NEW r \in Request, pc[r] = "save", call' = call,
         store' = [store EXCEPT ![call[r].case] = Patched(r)],
         NEW to, to = Now(call[r].case)'
  PROVE  Leaving(r, to)
<1> DEFINE c == call[r].case
<1>1. InFlight(r)
  BY DEF InFlight, Steps
<1>2. /\ StageOK(r) /\ call[r].kind \in {"submit", "approve", "reject"}
      /\ store[c] # Null => store[c].state \in CaseState
  BY <1>1, AtStep DEF StageInv, CaseRecord, Arguments
<1>3. store[c] # Null /\ Legal(store[c].state, event[r])
  BY <1>1, <1>2 DEF StageOK, Underway, Drives
<1>4. /\ Prepared(r) /\ to = ApplyTransition(read[r].state, event[r])
      /\ read[r].state \in CaseState /\ Legal(read[r].state, event[r])
  BY Saved DEF Now
<1>5. /\ Submits(r) <=> event[r] \in SubmitEvents
      /\ call[r].kind = "approve" <=> event[r] \in ApproveEvents
      /\ event[r] \in SubmitEvents \cup ApproveEvents \cup {"REJECT"}
      /\ event[r] # Null
  BY <1>4, EventAssumption DEF Prepared, SubmitEvents, ApproveEvents, CaseEvent
<1>6. CASE event[r] \in SubmitEvents
  <2>1. to \in {"SUBMITTED", "ANALYZING", "ACTION_PROPOSED", "AWAITING_APPROVAL"}
    BY <1>4, <1>6, TransitionTable DEF SubmitEvents
  <2>2. Found(r) = "ABSENT" /\ call[r].kind = "submit"
    BY <1>5, <1>6 DEF Found, Submits
  <2> QED
    BY <2>1, <2>2, WholeSteps, PartSteps DEF Leaving
<1>7. CASE event[r] \notin SubmitEvents
  <2>1. event[r] \in {"APPROVE", "REJECT"} => store[c].state = "AWAITING_APPROVAL"
    BY <1>2, <1>3, TransitionTable
  <2>2. Found(r) = "AWAITING_APPROVAL"
    BY <1>3, <1>5, <1>7, <2>1 DEF Found, Now, ApproveEvents
  <2>3. \/ call[r].kind = "reject" /\ to = "REJECTED"
        \/ /\ call[r].kind = "approve"
           /\ to \in {"APPROVED", "EXECUTING", "OUTCOME_PENDING", "VERIFIED_SUCCESS",
                      "EXECUTION_FAILED"}
    <3>1. event[r] = "REJECT" => to = "REJECTED"
      BY <1>4, TransitionTable
    <3>2. event[r] \in ApproveEvents =>
            to \in {"APPROVED", "EXECUTING", "OUTCOME_PENDING", "VERIFIED_SUCCESS",
                   "EXECUTION_FAILED"}
      BY <1>4, TransitionTable DEF ApproveEvents
    <3> QED
      BY <1>2, <1>5, <1>7, <3>1, <3>2 DEF Submits, ApproveEvents
  <2> QED
    BY <2>2, <2>3, WholeSteps, PartSteps DEF Leaving
<1> QED
  BY <1>6, <1>7

\* A request that ends in an error is cut short.
LEMMA ThrowCuts ==
  ASSUME Inv, AloneInv, StageInv, TypeOK', NEW r \in Request, Throw(r)
  PROVE  Requests!Cut
<1>1. PICK c \in Case : c = call[r].case
  BY HandlerStep, StepSeen
<1>2. /\ StepOf(r) /\ InFlight(r) /\ pc'[r] = "failed" /\ Faults /\ call' = call
      /\ Submits(r) => Found(r) = "ABSENT"
      /\ StepOK(r) /\ SubmitOK(r) /\ Called(r) /\ CallOK(r) /\ call[r] \in Arguments
  BY HandlerStep, AtStep DEF Throw, Goto, StepOf, Found, Inv, TypeOK
<1>3. PICK to : to = Now(c)'
  OBVIOUS
<1>4. /\ Unstarted[c] = Found(r) /\ Unstarted' = [Unstarted EXCEPT ![c] = to]
      /\ Asked' = Asked /\ Asked[r] = [kind |-> call[r].kind, case |-> c] /\ Asked[r] # Null
      /\ Answers[r] = "none" /\ Answers' = [Answers EXCEPT ![r] = "failed"]
  BY <1>1, <1>2, <1>3, StepSeen
<1>5. Leaving(r, to)
  <2>1. CASE store' = store
    BY <1>1, <1>2, <1>3, <2>1, HalfWay DEF Now
  <2>2. CASE pc[r] = "create" /\ store' = [store EXCEPT ![c] = NewRecord(r)]
    <3>1. Submits(r) /\ NewRecord(r) \in CaseRecord
      BY <1>2, <2>2 DEF StepOK, CallOK, NewRecord, CaseRecord, CaseState, Arguments
    <3>2. to = "DRAFT"
      BY <1>1, <1>2, <1>3, <2>2, <3>1, NullAssumption DEF Now, NewRecord, Inv, TypeOK
    <3> QED
      BY <1>2, <3>1, <3>2, PartSteps DEF Leaving, Submits
  <2>3. CASE pc[r] = "save" /\ store' = [store EXCEPT ![c] = Patched(r)]
    BY <1>1, <1>2, <1>3, <2>3, WrittenHalfWay
  <2> QED
    BY <1>1, <2>1, <2>2, <2>3 DEF Throw
<1>6. \A d \in Case : Unstarted'[d] # Unstarted[d] => d = c /\ to # Found(r)
  BY <1>4 DEF Unstarted
<1>7. to # Found(r) => Requests!Leaves(r, c)
  <2> SUFFICES ASSUME to # Found(r) PROVE Requests!Leaves(r, c)
    OBVIOUS
  <2> DEFINE step == [kind |-> call[r].kind, from |-> Found(r), to |-> to]
  <2>1. /\ step \in Requests!Whole \cup Requests!Part
        /\ Asked[r] = [kind |-> step.kind, case |-> c]
        /\ step.from = Unstarted[c] /\ step.to = Unstarted'[c]
    BY <1>4, <1>5 DEF Leaving, Unstarted
  <2> HIDE DEF step
  <2> QED
    BY <2>1 DEF Requests!Leaves
<1>8. /\ {r} \in SUBSET { q \in Request : Requests!Open(q) }
      /\ Answers' = [q \in Request |-> IF q \in {r} THEN "failed" ELSE Answers[q]]
      /\ Unstarted' = [d \in Case |-> Unstarted'[d]]
  BY <1>4 DEF Requests!Open, Answers, Unstarted
<1> QED
  BY <1>2, <1>4, <1>6, <1>7, <1>8 DEF Requests!Cut

\* A crash cuts short the requests of its instance.
LEMMA CrashCuts ==
  ASSUME Inv, AloneInv, StageInv, NEW i \in Instance, Crash(i)
  PROVE  Requests!Cut
<1> DEFINE lost == { r \in Request : InFlight(r) /\ call[r].instance = i }
<1>1. /\ Faults /\ UNCHANGED <<store, call, event>>
      /\ pc' = [r \in Request |-> IF r \in lost THEN "failed" ELSE pc[r]]
      /\ lost \subseteq Request /\ \A r \in lost : InFlight(r)
  BY DEF Crash
<1>2. \A r \in Request : InFlight(r)' <=> InFlight(r) /\ r \notin lost
  BY <1>1 DEF InFlight, Steps
<1> HIDE DEF lost
<1>3. ASSUME NEW r \in lost
      PROVE  /\ call[r] # Null /\ call[r].kind \in {"submit", "approve", "reject"}
             /\ call[r].case \in Case
             /\ Asked[r] = [kind |-> call[r].kind, case |-> call[r].case] /\ Asked[r] # Null
             /\ Answers[r] = "none"
  <2>1. /\ call[r] # Null /\ call[r].kind \in {"submit", "approve", "reject"}
        /\ call[r].case \in Case /\ r \in Request /\ InFlight(r)
    BY <1>1, <1>3, AtStep, ArgumentsAssumption DEF Arguments
  <2> QED
    BY <2>1, AskedAssumption DEF Asked, Answers, InFlight, Steps
<1>4. /\ lost \in SUBSET { r \in Request : Requests!Open(r) }
      /\ Answers' = [r \in Request |-> IF r \in lost THEN "failed" ELSE Answers[r]]
      /\ Asked' = Asked
  BY <1>1, <1>3 DEF Requests!Open, Answers, Asked
<1>5. ASSUME NEW c \in Case, Unstarted'[c] # Unstarted[c]
      PROVE  \E r \in lost : Requests!Leaves(r, c)
  <2>1. Before(c)' # Before(c)
    BY <1>5 DEF Unstarted
  <2>2. PICK r \in lost : call[r].case = c
    BY <1>1, <1>2, <2>1, SeenUnchanged
  <2>3. \A q \in Request : InFlight(q) /\ call[q].case = c => q = r
    BY <1>1, <2>2 DEF AloneInv, Apart
  <2>4. Before(c) = Found(r)
    BY <1>1, <2>2, <2>3, AsSeen DEF Seen
  <2>5. \A q \in Request : InFlight(q)' => call'[q].case # c
    BY <1>1, <1>2, <2>2, <2>3
  <2>6. Before(c)' = Now(c)
    BY <1>1, <2>5, AsSeenNext DEF Seen, Now
  <2>7. PICK to : to = Now(c)
    OBVIOUS
  <2>8. Leaving(r, to)
    BY <1>1, <2>2, <2>7, HalfWay
  <2> DEFINE step == [kind |-> call[r].kind, from |-> Found(r), to |-> to]
  <2>9. /\ step \in Requests!Whole \cup Requests!Part
        /\ Asked[r] = [kind |-> step.kind, case |-> c]
        /\ step.from = Unstarted[c] /\ step.to = Unstarted'[c]
    BY <1>3, <2>1, <2>2, <2>4, <2>6, <2>7, <2>8 DEF Leaving, Unstarted
  <2> HIDE DEF step
  <2> QED
    BY <2>9 DEF Requests!Leaves
<1>6. Unstarted' = [c \in Case |-> Unstarted'[c]]
  BY DEF Unstarted
<1> QED
  BY <1>1, <1>4, <1>5, <1>6 DEF Requests!Cut

\* A request that arrives is asked.
LEMMA ArrivalAsks ==
  ASSUME ~Overlap, Inv, AloneInv, StageInv, TypeOK', NEW r \in Request,
         ArriveSubmit(r) \/ ArriveApprove(r) \/ ArriveReject(r)
  PROVE  Requests!Ask(r)
<1>1. PICK arguments \in Arguments, step \in {"create", "authorize"} :
        /\ Arrive(r, arguments, step)
        /\ Unused(arguments.case) \/ Admitted(arguments.case)
        /\ step = "create" => Unused(arguments.case) /\ arguments.kind = "submit"
        /\ step = "authorize" => arguments.kind # "submit"
  <2>1. CASE ArriveSubmit(r)
    <3>1. PICK c \in Case, o \in Owner, i \in Instance, input \in Input :
            /\ Unused(c)
            /\ Arrive(r, [kind |-> "submit", case |-> c, owner |-> o, instance |-> i,
                          input |-> input, proposalId |-> Null], "create")
      BY <2>1 DEF ArriveSubmit
    <3>2. [kind |-> "submit", case |-> c, owner |-> o, instance |-> i,
           input |-> input, proposalId |-> Null] \in Arguments
      BY DEF Arguments
    <3> QED
      BY <3>1, <3>2
  <2>2. CASE ArriveApprove(r)
    <3>1. PICK c \in Case, o \in Owner, i \in Instance, p \in Request :
            /\ Admitted(c)
            /\ Arrive(r, [kind |-> "approve", case |-> c, owner |-> o, instance |-> i,
                          input |-> Null, proposalId |-> p], "authorize")
      BY <2>2 DEF ArriveApprove
    <3>2. [kind |-> "approve", case |-> c, owner |-> o, instance |-> i,
           input |-> Null, proposalId |-> p] \in Arguments
      BY DEF Arguments
    <3> QED
      BY <3>1, <3>2
  <2>3. CASE ArriveReject(r)
    <3>1. PICK c \in Case, o \in Owner, i \in Instance :
            /\ Admitted(c)
            /\ Arrive(r, [kind |-> "reject", case |-> c, owner |-> o, instance |-> i,
                          input |-> Null, proposalId |-> Null], "authorize")
      BY <2>3 DEF ArriveReject
    <3>2. [kind |-> "reject", case |-> c, owner |-> o, instance |-> i,
           input |-> Null, proposalId |-> Null] \in Arguments
      BY DEF Arguments
    <3> QED
      BY <3>1, <3>2
  <2> QED
    BY <2>1, <2>2, <2>3
<1>2. PICK c \in Case : c = arguments.case
  BY DEF Arguments
<1>3. /\ pc[r] = "idle" /\ call[r] = Null /\ ~InFlight(r) /\ event[r] = Null
      /\ pc' = [pc EXCEPT ![r] = step] /\ call' = [call EXCEPT ![r] = arguments]
      /\ pc'[r] = step /\ call'[r] = arguments
      /\ UNCHANGED <<store, event>>
  BY <1>1 DEF Arrive, Inv, TypeOK, RequestOK, CallOK, Called, StageInv, StageOK, InFlight, Steps
<1>4. \A q \in Request : InFlight(q) => call[q].case # c
  BY <1>1, <1>2, AtStep, ArgumentsAssumption DEF Unused, Admitted
<1>5. \A q \in Request \ {r} : (InFlight(q)' <=> InFlight(q)) /\ call'[q] = call[q]
  BY <1>3 DEF InFlight, Inv, TypeOK
<1>6. Before(c) = Now(c)
  BY <1>4, AsSeen DEF Seen
<1>7. InFlight(r)' /\ Before(c)' = Found(r)'
  <2>1. InFlight(r)'
    BY <1>3 DEF InFlight, Steps
  <2> QED
    BY <1>2, <1>3, <1>4, <1>5, <2>1, AsSeenNext DEF Seen
<1>8. Found(r)' = Now(c)
  <2>1. CASE step = "create"
    BY <1>1, <1>2, <1>3, <2>1 DEF Found, Now, Submits, Inv, UnusedIsAbsent
  <2>2. CASE step = "authorize"
    BY <1>1, <1>2, <1>3, <2>2 DEF Found, Now, Submits
  <2> QED
    BY <2>1, <2>2
<1>9. ASSUME NEW d \in Case, d # c PROVE Before(d)' = Before(d)
  BY <1>2, <1>3, <1>5, <1>9, SeenUnchanged
<1>10. Unstarted' = Unstarted
  BY <1>6, <1>7, <1>8, <1>9 DEF Unstarted
<1>11. Answers' = Answers
  BY <1>3 DEF Answers, Inv, TypeOK
<1>12. /\ Asked[r] = Null /\ arguments.kind \in Requests!Kind
       /\ Asked' = [Asked EXCEPT ![r] = [kind |-> arguments.kind, case |-> c]]
  BY <1>2, <1>3, ArgumentsAssumption DEF Asked, Arguments, Requests!Kind, Inv, TypeOK
<1> QED
  BY <1>10, <1>11, <1>12 DEF Requests!Ask

\* A step is a step of CaseRequests or changes nothing that it sees.
LEMMA RequestsStep ==
  ASSUME ~Overlap, Inv, FeeInv, AloneInv, StageInv, [Next]_vars
  PROVE  [Requests!Next]_(Requests!vars)
<1>1. TypeOK'
  BY NextInv DEF Inv
<1>2. ASSUME UNCHANGED <<store, pc, call, event>>
      PROVE  UNCHANGED <<Unstarted, Asked, Answers>>
  <2>1. \A c \in Case : Before(c)' = Before(c)
    BY <1>2, SeenUnchanged DEF InFlight
  <2> QED
    BY <1>2, <2>1 DEF Unstarted, Asked, Answers
<1>3. CASE UNCHANGED vars
  BY <1>2, <1>3 DEF vars, Requests!vars
<1>4. ASSUME NEW r \in Request, Mine(r) PROVE UNCHANGED <<Unstarted, Asked, Answers>>
  BY <1>2, <1>4 DEF Mine
<1> QED
  BY <1>1, <1>3, <1>4, RequestStep, ThrowCuts, CrashCuts, ArrivalAsks
     DEF Next, Quiescent, Requests!Next, Requests!Uncut, Requests!vars

\* Without overlap the system implements CaseRequests: what is answered was done
\* as a whole, what is refused was not done, and only what an error of the store or
\* a crash cuts short is left half way.
THEOREM RequestsAreWhole ==
  ASSUME ~Overlap
  PROVE  Spec => ImplementsRequests
<1>1. Init => Requests!Init
  BY DEF Init, Requests!Init, Unstarted, Asked, Answers, Before, AtWork, InFlight, Steps
<1>2. Inv /\ FeeInv /\ AloneInv /\ StageInv /\ [Next]_vars => [Requests!Next]_(Requests!vars)
  BY RequestsStep
<1>3. Inv /\ FeeInv /\ AloneInv /\ StageInv /\ [Next]_vars =>
        [(\E r \in Request : Serve(r) \/ AnchorLost(r)) => [Requests!Uncut]_(Requests!vars)]_vars
  <2>1. ASSUME Inv, AloneInv, StageInv, [Next]_vars,
               NEW r \in Request, Serve(r) \/ AnchorLost(r)
        PROVE  [Requests!Uncut]_(Requests!vars)
    <3>1. TypeOK'
      BY <2>1, NextInv DEF Inv
    <3> QED
      BY <2>1, <3>1, RequestStep DEF Requests!Uncut, Requests!vars
  <2> QED
    BY <2>1
<1> QED
  BY <1>1, <1>2, <1>3, Invariance, FeeInvariance, AloneInvariance, StageInvariance, PTL
     DEF Spec, ImplementsRequests, Requests!Spec

-----------------------------------------------------------------------------
(* What follows from the promise.                                          *)

Early == {"ABSENT", "DRAFT", "SUBMITTED", "ANALYZING", "ACTION_PROPOSED"}

\* The steps of CaseRequests, one by one.
LEMMA Shapes ==
  /\ \A step \in Requests!Whole :
       \/ step.kind = "submit" /\ step.from = "ABSENT" /\ step.to = "AWAITING_APPROVAL"
       \/ /\ step.kind = "approve" /\ step.from = "AWAITING_APPROVAL"
          /\ step.to \in {"VERIFIED_SUCCESS", "EXECUTION_FAILED"}
       \/ step.kind = "reject" /\ step.from = "AWAITING_APPROVAL" /\ step.to = "REJECTED"
  /\ \A step \in Requests!Part :
       \/ /\ step.kind = "submit" /\ step.from = "ABSENT" /\ step.to \in Early \ {"ABSENT"}
       \/ /\ step.kind = "approve" /\ step.from = "AWAITING_APPROVAL"
          /\ step.to \in {"APPROVED", "EXECUTING", "OUTCOME_PENDING"}
  /\ {"ABSENT"} \cup { step.to : step \in { s \in Requests!Part : s.kind = "submit" } } = Early
<1>1. \A step \in Requests!Part :
        \/ /\ step.kind = "submit" /\ step.from = "ABSENT" /\ step.to \in Early \ {"ABSENT"}
        \/ /\ step.kind = "approve" /\ step.from = "AWAITING_APPROVAL"
           /\ step.to \in {"APPROVED", "EXECUTING", "OUTCOME_PENDING"}
  BY DEF Requests!Part, Requests!Takes, Early
<1>2. { step.to : step \in { s \in Requests!Part : s.kind = "submit" } } \subseteq Early
  BY <1>1
<1>3. ASSUME NEW to \in Early \ {"ABSENT"}
      PROVE  to \in { step.to : step \in { s \in Requests!Part : s.kind = "submit" } }
  <2> DEFINE step == [kind |-> "submit", from |-> "ABSENT", to |-> to]
  <2>1. step \in Requests!Part /\ step.kind = "submit" /\ step.to = to
    BY PartSteps DEF Early
  <2> HIDE DEF step
  <2> QED
    BY <2>1
<1>4. \A step \in Requests!Whole :
        \/ step.kind = "submit" /\ step.from = "ABSENT" /\ step.to = "AWAITING_APPROVAL"
        \/ /\ step.kind = "approve" /\ step.from = "AWAITING_APPROVAL"
           /\ step.to \in {"VERIFIED_SUCCESS", "EXECUTION_FAILED"}
        \/ step.kind = "reject" /\ step.from = "AWAITING_APPROVAL" /\ step.to = "REJECTED"
  BY DEF Requests!Whole, Requests!Takes
<1> QED
  BY <1>1, <1>2, <1>3, <1>4 DEF Early

\* What is true of a case once a call of a kind has been answered.
Told(kind, now) ==
  /\ kind = "submit" => now \notin Early
  /\ kind = "approve" => now \in {"VERIFIED_SUCCESS", "EXECUTION_FAILED"}
  /\ kind = "reject" => now = "REJECTED"

\* Inductive for CaseRequests.
PromiseInv ==
  /\ \A r \in Request : /\ Asked[r] = Null => Answers[r] = "none"
                        /\ Asked[r] # Null => Asked[r].kind \in Requests!Kind /\ Asked[r].case \in Case
                        /\ Answers[r] = "done" => Told(Asked[r].kind, Unstarted[Asked[r].case])
  /\ Requests!OneDecision

\* Steps on a case keep what was told of it true.
LEMMA ToldStays ==
  ASSUME NEW kind, NEW step \in Requests!Whole \cup Requests!Part, Told(kind, step.from)
  PROVE  Told(kind, step.to)
BY Shapes DEF Told, Early

LEMMA NextPromise ==
  ASSUME PromiseInv, [Requests!Next]_(Requests!vars)
  PROVE  PromiseInv'
<1>0. /\ Unstarted = [c \in Case |-> Unstarted[c]] /\ Asked = [r \in Request |-> Asked[r]]
      /\ Answers = [r \in Request |-> Answers[r]]
  BY DEF Unstarted, Asked, Answers
<1>1. CASE UNCHANGED Requests!vars
  BY <1>1 DEF PromiseInv, Requests!OneDecision, Requests!vars
<1>2. ASSUME NEW r \in Request, Requests!Ask(r) PROVE PromiseInv'
  <2>1. PICK kind \in Requests!Kind, c \in Case :
          Asked' = [Asked EXCEPT ![r] = [kind |-> kind, case |-> c]]
    BY <1>2 DEF Requests!Ask
  <2>2. /\ Asked[r] = Null /\ Answers[r] = "none" /\ UNCHANGED <<Unstarted, Answers>>
        /\ Asked'[r] = [kind |-> kind, case |-> c]
        /\ \A q \in Request \ {r} : Asked'[q] = Asked[q]
    BY <1>0, <1>2, <2>1 DEF Requests!Ask, PromiseInv
  <2> QED
    BY <2>2 DEF PromiseInv, Requests!OneDecision
<1>3. ASSUME NEW r \in Request, Requests!Serve(r) PROVE PromiseInv'
  <2>1. PICK step \in Requests!Whole :
          /\ step.kind = Asked[r].kind /\ step.from = Unstarted[Asked[r].case]
          /\ Unstarted' = [Unstarted EXCEPT ![Asked[r].case] = step.to]
    BY <1>3 DEF Requests!Serve
  <2>2. PICK c : c = Asked[r].case
    OBVIOUS
  <2>3. /\ Asked' = Asked /\ Asked[r] # Null /\ c \in Case
        /\ Answers[r] = "none" /\ Answers'[r] = "done"
        /\ \A q \in Request \ {r} : Answers'[q] = Answers[q]
        /\ Unstarted'[c] = step.to /\ \A d \in Case \ {c} : Unstarted'[d] = Unstarted[d]
    BY <1>0, <1>3, <2>1, <2>2 DEF Requests!Serve, Requests!Open, PromiseInv
  <2>4. Told(Asked[r].kind, step.to)
    BY <2>1, Shapes DEF Told, Early
  <2>5. ASSUME NEW q \in Request, Answers[q] = "done"
        PROVE  /\ Told(Asked[q].kind, Unstarted'[Asked[q].case])
               /\ ~(Asked[q].kind # "submit" /\ Asked[r].kind # "submit" /\ Asked[q].case = c)
    <3>1. Told(Asked[q].kind, Unstarted[Asked[q].case]) /\ Asked[q].case \in Case
          /\ Asked[q].kind \in Requests!Kind
      BY <2>5 DEF PromiseInv
    <3>2. Told(Asked[q].kind, Unstarted'[Asked[q].case])
      BY <2>1, <2>2, <2>3, <3>1, ToldStays
    <3>3. Asked[q].kind # "submit" /\ Asked[q].case = c => Unstarted[c] # "AWAITING_APPROVAL"
      BY <3>1 DEF Told, Requests!Kind
    <3>4. Asked[r].kind # "submit" => Unstarted[c] = "AWAITING_APPROVAL"
      BY <2>1, <2>2, Shapes
    <3> QED
      BY <3>2, <3>3, <3>4
  <2>6. \A q \in Request : Answers'[q] = "done" => Told(Asked[q].kind, Unstarted'[Asked[q].case])
    BY <2>2, <2>3, <2>4, <2>5
  <2>7. Requests!OneDecision'
    BY <2>2, <2>3, <2>5 DEF PromiseInv, Requests!OneDecision
  <2> QED
    BY <2>3, <2>6, <2>7 DEF PromiseInv
<1>4. ASSUME NEW r \in Request, Requests!Refuse(r) PROVE PromiseInv'
  <2>1. /\ UNCHANGED <<Unstarted, Asked>> /\ Asked[r] # Null
        /\ Answers'[r] = "failed" /\ \A q \in Request \ {r} : Answers'[q] = Answers[q]
    BY <1>0, <1>4 DEF Requests!Refuse, Requests!Open
  <2> QED
    BY <2>1 DEF PromiseInv, Requests!OneDecision
<1>5. CASE Requests!Cut
  <2>1. PICK lost \in SUBSET { r \in Request : Requests!Open(r) } :
          /\ Answers' = [r \in Request |-> IF r \in lost THEN "failed" ELSE Answers[r]]
          /\ \A c \in Case : Unstarted'[c] # Unstarted[c] =>
               \E r \in lost : Requests!Leaves(r, c)
    BY <1>5 DEF Requests!Cut
  <2>2. Asked' = Asked
    BY <1>5 DEF Requests!Cut
  <2>3. \A q \in Request : /\ Answers'[q] = "done" => Answers[q] = "done"
                           /\ Asked[q] = Null => Answers'[q] = Answers[q]
    BY <2>1 DEF Requests!Open
  <2>4. ASSUME NEW q \in Request, Answers[q] = "done"
        PROVE  Told(Asked[q].kind, Unstarted'[Asked[q].case])
    <3>1. PICK c \in Case : c = Asked[q].case
      BY <2>4 DEF PromiseInv
    <3>2. Told(Asked[q].kind, Unstarted[c])
      BY <2>4, <3>1 DEF PromiseInv
    <3>3. CASE Unstarted'[c] = Unstarted[c]
      BY <3>1, <3>2, <3>3
    <3>4. CASE Unstarted'[c] # Unstarted[c]
      <4>1. PICK r \in lost : Requests!Leaves(r, c)
        BY <2>1, <3>4
      <4>2. PICK step \in Requests!Whole \cup Requests!Part :
              step.from = Unstarted[c] /\ step.to = Unstarted'[c]
        BY <4>1 DEF Requests!Leaves
      <4> QED
        BY <3>1, <3>2, <4>2, ToldStays
    <3> QED
      BY <3>3, <3>4
  <2> QED
    BY <2>2, <2>3, <2>4 DEF PromiseInv, Requests!OneDecision
<1> QED
  BY <1>1, <1>2, <1>3, <1>4, <1>5 DEF Requests!Next, Requests!Uncut

\* CaseRequests implies that answers stay true and that one decision is answered.
LEMMA PromiseMeans == ImplementsRequests => []AnswersAreTrue
<1>1. Requests!Init => PromiseInv
  BY DEF Requests!Init, PromiseInv, Requests!OneDecision, Unstarted, Asked, Answers
<1>2. PromiseInv /\ [Requests!Next]_(Requests!vars) => PromiseInv'
  BY NextPromise
<1>3. PromiseInv => AnswersAreTrue
  BY Shapes DEF PromiseInv, AnswersAreTrue, Told, Requests!AnswersStay
<1> QED
  BY <1>1, <1>2, <1>3, PTL DEF ImplementsRequests, Requests!Spec

\* Without overlap what a caller was told of a case stays true of it, and of the
\* calls that decide on a case one at most is answered, whatever is cut short.
THEOREM AnswersHold ==
  ASSUME ~Overlap
  PROVE  Spec => []AnswersAreTrue
BY RequestsAreWhole, PromiseMeans, PTL
==============================================================================
