--------------------------- MODULE CasePageProofs ----------------------------
(***************************************************************************)
(* That the pages drive Orchestrator, so that what is proved of it holds   *)
(* beneath them; that what is sent is what the user reviewed, for any      *)
(* number of tabs, with or without overlap, faults and lost answers; and   *)
(* that what a page says of an end is so, if requests do not overlap.      *)
(***************************************************************************)
EXTENDS CasePage, SerialProofs

\* A record of case c that somebody was given: its proposal is still the
\* case's.
View(record, c) ==
  /\ record # Null /\ store[c] # Null
  /\ record.proposal # Null => record.proposal = store[c].proposal

\* The inductive invariant of the pages, relative to Inv.
PageInv ==
  /\ page \in [Tab -> Page]
  /\ answer \in [Request -> CaseRecord \cup {Null}]
  /\ reviewed \in [Request -> Proposal \cup {Null}]
  /\ \A t \in Tab : OnCase(t) => View(page[t].shown, page[t].case)
  /\ \A t \in Tab : \A r \in page[t].waiting :
       /\ call[r] # Null
       /\ IF OnCase(t) THEN call[r].case = page[t].case /\ ~Submits(r) ELSE Submits(r)
  /\ \A r \in Request : pc[r] = "done" => View(answer[r], call[r].case)
  /\ \A r \in Request : call[r] # Null /\ call[r].kind = "approve" =>
       /\ store[call[r].case] # Null
       /\ reviewed[r] # Null /\ reviewed[r] = store[call[r].case].proposal

-----------------------------------------------------------------------------
\* A step of a page is one of Orchestrator, or none.
LEMMA PageStepIsStep == [PageNext]_pageVars => [Next]_vars
<1> SUFFICES ASSUME [PageNext]_pageVars PROVE [Next]_vars
  OBVIOUS
<1>1. CASE UNCHANGED pageVars
  BY <1>1 DEF pageVars
<1>2. ASSUME NEW t \in Tab, NEW r \in Request,
             \/ Submit(t, r) \/ Approve(t, r) \/ Reject(t, r)
             \/ Answered(t, r) \/ Failed(t, r) \/ Lose(t, r)
      PROVE  [Next]_vars
  BY <1>2 DEF Submit, Approve, Reject, Answered, Failed, Lose, Refused, Next
<1>3. ASSUME NEW t \in Tab, Visit(t) \/ OpenPanel(t) \/ ReportArrives(t) \/ ReportLost(t)
      PROVE  [Next]_vars
  BY <1>3 DEF Visit, OpenPanel, ReportArrives, ReportLost
<1>4. CASE Server
  BY <1>4 DEF Server, Next
<1>5. CASE Quiescent /\ UNCHANGED browser
  BY <1>5 DEF Next
<1> QED
  BY <1>1, <1>2, <1>3, <1>4, <1>5 DEF PageNext

\* Whatever users do on their pages, the requests beneath behave as those of
\* Orchestrator: each of its theorems holds of the pages' system too.
THEOREM PagesDriveOrchestrator == PageSpec => Spec
<1>1. PageInit => Init
  BY DEF PageInit
<1> QED
  BY <1>1, PageStepIsStep, PTL DEF PageSpec, Spec

-----------------------------------------------------------------------------
\* A case that is known, or whose submission was answered, is in the store
\* with its proposal.
AnswersInStore ==
  \A r \in Request : pc[r] = "done" =>
    /\ call[r] # Null /\ call[r].case \in Case
    /\ store[call[r].case] # Null /\ store[call[r].case].proposal # Null

\* The invariant of the requests says so.
LEMMA AnsweredHasCase == Inv => AnswersInStore
<1> SUFFICES ASSUME Inv, NEW r \in Request, pc[r] = "done"
             PROVE  /\ call[r] # Null /\ call[r].case \in Case
                    /\ store[call[r].case] # Null /\ store[call[r].case].proposal # Null
  BY DEF AnswersInStore
<1>1. Called(r) /\ call[r] \in Arguments
  BY DEF Inv, RequestOK, CallOK, Called
<1>2. call[r] # Null /\ call[r].case \in Case
  BY <1>1, ArgumentsAssumption DEF Arguments
<1>3. CASE Submits(r)
  <2>1. SubmitOK(r)
    BY DEF Inv, RequestOK
  <2> QED
    BY <1>1, <1>2, <1>3, <2>1 DEF SubmitOK
<1>4. CASE ~Submits(r)
  BY <1>1, <1>2, <1>4, KnownHasProposal
<1> QED
  BY <1>3, <1>4

\* A view of a case stays one.
LEMMA ViewKept ==
  ASSUME NEW c \in Case, Evolves(c), NEW record, View(record, c)
  PROVE  View(record, c)'
BY DEF Evolves, View

\* The server's steps call nothing and send nothing but what was called.
LEMMA ServerKeepsCalls ==
  ASSUME Server
  PROVE  UNCHANGED <<call, page, reviewed>>
BY DEF Server, Serve, Create, TransitionGet, TransitionSave, Analyze, Final, Authorize,
       SendReturns, SendThrows, Upload, AnchorSubmit, AnchorSkip, AnchorDone, AnchorLost,
       AssessFee, Mine, Throw, Crash

\* What the requests do keeps the pages' views: cases keep their proposals,
\* and an answer is the case as it is in the store.
LEMMA ServerKeepsPages ==
  ASSUME Inv, Inv', AnswersInStore', PageInv, Server, \A c \in Case : Evolves(c)
  PROVE  PageInv'
<1>1. UNCHANGED <<call, page, reviewed>>
  BY ServerKeepsCalls
<1>2. \A r \in Request : call[r] # Null => call[r].case \in Case
  BY DEF Inv, RequestOK, CallOK, Arguments
<1>3. answer' = [r \in Request |-> IF pc[r] # "done" /\ pc'[r] = "done"
                                    THEN store'[call[r].case] ELSE answer[r]]
  BY DEF Server
<1>4. ASSUME NEW r \in Request, pc'[r] = "done"
      PROVE  /\ call[r] # Null /\ call[r].case \in Case
             /\ store'[call[r].case] # Null
  BY <1>1, <1>4 DEF AnswersInStore
<1>5. answer' \in [Request -> CaseRecord \cup {Null}]
  <2>1. store' \in [Case -> CaseRecord \cup {Null}]
    BY DEF Inv, TypeOK
  <2>2. answer \in [Request -> CaseRecord \cup {Null}]
    BY DEF PageInv
  <2> QED
    BY <1>3, <1>4, <2>1, <2>2
<1>6. \A t \in Tab : OnCase(t)' => View(page[t].shown, page[t].case)'
  <2> SUFFICES ASSUME NEW t \in Tab, OnCase(t) PROVE View(page[t].shown, page[t].case)'
    BY <1>1 DEF OnCase
  <2>1. page[t].case \in Case /\ View(page[t].shown, page[t].case)
    BY DEF PageInv, Page, OnCase
  <2> QED
    BY <1>1, <2>1, ViewKept
<1>7. \A r \in Request : pc'[r] = "done" => View(answer[r], call[r].case)'
  <2> SUFFICES ASSUME NEW r \in Request, pc'[r] = "done" PROVE View(answer[r], call[r].case)'
    OBVIOUS
  <2>1. CASE pc[r] = "done"
    <3>1. answer'[r] = answer[r] /\ View(answer[r], call[r].case)
      BY <1>3, <2>1 DEF PageInv
    <3> QED
      BY <1>1, <1>4, <3>1, ViewKept
  <2>2. CASE pc[r] # "done"
    BY <1>1, <1>3, <1>4, <2>2 DEF View
  <2> QED
    BY <2>1, <2>2
<1>8. ASSUME NEW r \in Request, call[r] # Null, call[r].kind = "approve"
      PROVE  /\ store'[call[r].case] # Null
             /\ reviewed[r] # Null /\ reviewed[r] = store'[call[r].case].proposal
  BY <1>2, <1>8 DEF PageInv, Evolves
<1> QED
  BY <1>1, <1>5, <1>6, <1>7, <1>8 DEF PageInv, OnCase, Submits

-----------------------------------------------------------------------------
\* A request that arrives was not there before, and changes no case.
LEMMA Arrival ==
  ASSUME Inv, Inv', NEW r \in Request, NEW arguments, NEW step \in {"create", "authorize"},
         Arrive(r, arguments, step)
  PROVE  /\ store' = store /\ call[r] = Null /\ call'[r] = arguments /\ arguments # Null
         /\ \A q \in Request : call[q] # Null => q # r /\ call'[q] = call[q]
         /\ \A q \in Request : q # r => call'[q] = call[q]
         /\ \A q \in Request : pc'[q] = "done" => pc[q] = "done" /\ q # r
<1>1. /\ pc[r] = "idle" /\ pc' = [pc EXCEPT ![r] = step]
      /\ call' = [call EXCEPT ![r] = arguments] /\ store' = store
  BY DEF Arrive
<1>2. pc \in [Request -> Resting \cup Steps] /\ call \in [Request -> Arguments \cup {Null}]
  BY DEF Inv, TypeOK
<1>3. call[r] = Null
  BY <1>1 DEF Inv, RequestOK, CallOK, Called
<1>4. pc'[r] # "idle" /\ pc'[r] # "done" /\ call'[r] = arguments
  BY <1>1, <1>2
<1>5. arguments \in Arguments
  BY <1>4 DEF Inv, RequestOK, CallOK, Called
<1> QED
  BY <1>1, <1>2, <1>3, <1>4, <1>5, ArgumentsAssumption

\* Sending the form keeps the pages' views.
LEMMA SubmitKeepsPages ==
  ASSUME Inv, Inv', PageInv, NEW t \in Tab, NEW r \in Request, Submit(t, r)
  PROVE  PageInv'
<1>1. PICK arguments : Arrive(r, arguments, "create") /\ arguments.kind = "submit"
  BY DEF Submit, ArriveSubmit
<1>2. /\ store' = store /\ call'[r] = arguments /\ arguments # Null
      /\ \A q \in Request : call[q] # Null => q # r /\ call'[q] = call[q]
      /\ \A q \in Request : q # r => call'[q] = call[q]
      /\ \A q \in Request : pc'[q] = "done" => pc[q] = "done" /\ q # r
  BY <1>1, Arrival
<1>3. /\ ~OnCase(t) /\ UNCHANGED <<answer, reviewed>>
      /\ page' = [page EXCEPT ![t].busy = TRUE, ![t].waiting = {r}]
  BY DEF Submit
<1> DEFINE new == [page[t] EXCEPT !.busy = TRUE, !.waiting = {r}]
<1>4. page' \in [Tab -> Page]
  <2>1. page[t] \in Page /\ page \in [Tab -> Page]
    BY DEF PageInv
  <2>2. new \in Page
    BY <2>1 DEF Page
  <2>3. page' = [page EXCEPT ![t] = new]
    BY <1>3, <2>1 DEF Page
  <2> HIDE DEF new
  <2> QED
    BY <2>1, <2>2, <2>3
<1>5. \A u \in Tab : /\ page'[u].case = page[u].case /\ page'[u].shown = page[u].shown
                     /\ page'[u].waiting = IF u = t THEN {r} ELSE page[u].waiting
  BY <1>3 DEF PageInv, Page
<1>6. \A u \in Tab : OnCase(u)' <=> OnCase(u)
  BY <1>5 DEF OnCase
<1>7. \A u \in Tab : OnCase(u)' => View(page[u].shown, page[u].case)'
  BY <1>2, <1>5, <1>6 DEF PageInv, View
<1>8. \A u \in Tab : \A q \in page'[u].waiting :
        /\ call'[q] # Null
        /\ IF OnCase(u)' THEN call'[q].case = page'[u].case /\ ~Submits(q)' ELSE Submits(q)'
  <2> SUFFICES ASSUME NEW u \in Tab, NEW q \in page'[u].waiting
               PROVE  /\ call'[q] # Null
                      /\ IF OnCase(u)' THEN call'[q].case = page'[u].case /\ ~Submits(q)'
                         ELSE Submits(q)'
    OBVIOUS
  <2>1. CASE u = t
    <3>1. q = r
      BY <1>5, <2>1
    <3>2. ~OnCase(u)'
      BY <1>3, <1>6, <2>1
    <3> QED
      BY <1>1, <1>2, <3>1, <3>2 DEF Submits
  <2>2. CASE u # t
    <3>1. q \in page[u].waiting /\ q \in Request
      BY <1>5, <2>2 DEF PageInv, Page
    <3>2. call[q] # Null /\ call'[q] = call[q]
      BY <1>2, <3>1 DEF PageInv
    <3> QED
      BY <1>5, <1>6, <3>1, <3>2 DEF PageInv, Submits
  <2> QED
    BY <2>1, <2>2
<1>9. \A q \in Request : pc'[q] = "done" => View(answer[q], call[q].case)'
  BY <1>2, <1>3 DEF PageInv, View
<1>10. \A q \in Request : call'[q] # Null /\ call'[q].kind = "approve" =>
         /\ store'[call'[q].case] # Null
         /\ reviewed'[q] # Null /\ reviewed'[q] = store'[call'[q].case].proposal
  BY <1>1, <1>2, <1>3 DEF PageInv
<1> QED
  BY <1>3, <1>4, <1>7, <1>8, <1>9, <1>10 DEF PageInv

\* Clicking a button of a case keeps them: an approval is of the proposal that
\* was reviewed, which is the case's.
LEMMA ClickKeepsPages ==
  ASSUME Inv, Inv', PageInv, NEW t \in Tab, NEW r \in Request, Approve(t, r) \/ Reject(t, r)
  PROVE  PageInv'
<1>1. PICK arguments :
        /\ Arrive(r, arguments, "authorize")
        /\ arguments.kind = IF Approve(t, r) THEN "approve" ELSE "reject"
        /\ arguments.case = page[t].case
  <2>1. CASE Approve(t, r)
    <3>1. PICK arguments : Arrive(r, arguments, "authorize") /\ arguments.kind = "approve"
      BY <2>1 DEF Approve, ArriveApprove
    <3>2. call'[r] = arguments /\ call'[r].case = page[t].case
      BY <2>1, <3>1, Arrival DEF Approve
    <3> QED
      BY <2>1, <3>1, <3>2
  <2>2. CASE ~Approve(t, r)
    <3>1. ArriveReject(r) /\ call'[r].case = page[t].case
      BY <2>2 DEF Reject
    <3>2. PICK c \in Case, o \in Owner, i \in Instance :
            Arrive(r, [kind |-> "reject", case |-> c, owner |-> o, instance |-> i,
                       input |-> Null, proposalId |-> Null], "authorize")
      BY <3>1 DEF ArriveReject
    <3> DEFINE arguments == [kind |-> "reject", case |-> c, owner |-> o, instance |-> i,
                             input |-> Null, proposalId |-> Null]
    <3>3. call'[r] = arguments
      BY <3>2, Arrival
    <3> QED
      BY <2>2, <3>1, <3>2, <3>3
  <2> QED
    BY <2>1, <2>2
<1>2. /\ store' = store /\ call'[r] = arguments /\ arguments # Null
      /\ \A q \in Request : call[q] # Null => q # r /\ call'[q] = call[q]
      /\ \A q \in Request : q # r => call'[q] = call[q]
      /\ \A q \in Request : pc'[q] = "done" => pc[q] = "done" /\ q # r
  BY <1>1, Arrival
<1>3. /\ OnCase(t) /\ answer' = answer /\ Panel(page[t]) = "review"
      /\ \E busy \in BOOLEAN : page' = [page EXCEPT ![t] =
            [page[t] EXCEPT !.busy = busy, !.waiting = page[t].waiting \cup {r}]]
  <2>1. CASE Approve(t, r)
    BY <2>1 DEF Approve, PageInv, Page
  <2>2. CASE Reject(t, r)
    <3>1. page' = [page EXCEPT ![t] = [page[t] EXCEPT !.busy = page[t].busy,
                                                      !.waiting = page[t].waiting \cup {r}]]
      BY <2>2 DEF Reject, PageInv, Page
    <3> QED
      BY <2>2, <3>1 DEF Reject, PageInv, Page
  <2> QED
    BY <2>1, <2>2
<1> PICK busy \in BOOLEAN : page' = [page EXCEPT ![t] =
           [page[t] EXCEPT !.busy = busy, !.waiting = page[t].waiting \cup {r}]]
  BY <1>3
<1>4. page' \in [Tab -> Page]
  <2>1. page[t] \in Page /\ page \in [Tab -> Page]
    BY DEF PageInv
  <2>2. page[t].waiting \cup {r} \in SUBSET Request
    BY <2>1 DEF Page
  <2>3. [page[t] EXCEPT !.busy = busy, !.waiting = page[t].waiting \cup {r}] \in Page
    BY <2>1, <2>2 DEF Page
  <2> QED
    BY <2>1, <2>3
<1>5. \A u \in Tab : /\ page'[u].case = page[u].case /\ page'[u].shown = page[u].shown
                     /\ page'[u].waiting = IF u = t THEN page[u].waiting \cup {r}
                                           ELSE page[u].waiting
  BY DEF PageInv, Page
<1>6. \A u \in Tab : OnCase(u)' <=> OnCase(u)
  BY <1>5 DEF OnCase
<1>7. \A u \in Tab : OnCase(u)' => View(page[u].shown, page[u].case)'
  BY <1>2, <1>5, <1>6 DEF PageInv, View
<1>8. \A u \in Tab : \A q \in page'[u].waiting :
        /\ call'[q] # Null
        /\ IF OnCase(u)' THEN call'[q].case = page'[u].case /\ ~Submits(q)' ELSE Submits(q)'
  <2> SUFFICES ASSUME NEW u \in Tab, NEW q \in page'[u].waiting
               PROVE  /\ call'[q] # Null
                      /\ IF OnCase(u)' THEN call'[q].case = page'[u].case /\ ~Submits(q)'
                         ELSE Submits(q)'
    OBVIOUS
  <2>1. CASE u = t /\ q = r
    BY <1>1, <1>2, <1>3, <1>5, <1>6, <2>1 DEF Submits
  <2>2. CASE q \in page[u].waiting
    <3>1. q \in Request
      BY <2>2 DEF PageInv, Page
    <3>2. call[q] # Null /\ call'[q] = call[q]
      BY <1>2, <2>2, <3>1 DEF PageInv
    <3> QED
      BY <1>5, <1>6, <2>2, <3>2 DEF PageInv, Submits
  <2> QED
    BY <1>5, <2>1, <2>2
<1>9. \A q \in Request : pc'[q] = "done" => View(answer[q], call[q].case)'
  BY <1>2, <1>3 DEF PageInv, View
<1>10. \A q \in Request : q # r => reviewed'[q] = reviewed[q]
  BY DEF Approve, Reject, PageInv
<1>11. Approve(t, r) => /\ reviewed'[r] = store[page[t].case].proposal /\ reviewed'[r] # Null
                        /\ store[page[t].case] # Null
  <2> SUFFICES ASSUME Approve(t, r)
               PROVE  /\ reviewed'[r] = store[page[t].case].proposal /\ reviewed'[r] # Null
                      /\ store[page[t].case] # Null
    OBVIOUS
  <2>1. page[t].shown.proposal # Null
    BY <1>3 DEF Panel
  <2>2. reviewed'[r] = page[t].shown.proposal
    BY DEF Approve, PageInv
  <2>3. View(page[t].shown, page[t].case)
    BY <1>3 DEF PageInv
  <2> QED
    BY <2>1, <2>2, <2>3 DEF View
<1>12. reviewed' \in [Request -> Proposal \cup {Null}]
  <2>1. page[t].shown \in CaseRecord
    BY <1>3 DEF PageInv, Page, View
  <2>2. page[t].shown.proposal \in Proposal \cup {Null}
    BY <2>1 DEF CaseRecord
  <2> QED
    BY <2>2 DEF Approve, Reject, PageInv
<1>13. \A q \in Request : call'[q] # Null /\ call'[q].kind = "approve" =>
         /\ store'[call'[q].case] # Null
         /\ reviewed'[q] # Null /\ reviewed'[q] = store'[call'[q].case].proposal
  BY <1>1, <1>2, <1>10, <1>11 DEF PageInv
<1> QED
  BY <1>3, <1>4, <1>7, <1>8, <1>9, <1>12, <1>13 DEF PageInv

\* Opening a page shows the case as it is.
LEMMA VisitKeepsPages ==
  ASSUME Inv, PageInv, NEW t \in Tab, NEW c \in Case, store[c] # Null,
         page' = [page EXCEPT ![t] = Rendered(c)], UNCHANGED <<vars, answer, reviewed>>
  PROVE  PageInv'
<1>1. UNCHANGED <<store, call, pc, answer, reviewed>>
  BY DEF vars
<1>2. Rendered(c) \in Page
  BY DEF Rendered, EmptyForm, Page, Inv, TypeOK
<1>3. page' \in [Tab -> Page]
  BY <1>2 DEF PageInv
<1>4. \A u \in Tab : u # t => page'[u] = page[u]
  BY DEF PageInv
<1>5. /\ page'[t].case = c /\ page'[t].shown = store[c] /\ page'[t].waiting = {}
  BY DEF Rendered, EmptyForm, PageInv
<1>6. \A u \in Tab : OnCase(u)' => View(page[u].shown, page[u].case)'
  BY <1>1, <1>4, <1>5 DEF PageInv, OnCase, View
<1>7. \A u \in Tab : \A q \in page'[u].waiting :
        /\ call'[q] # Null
        /\ IF OnCase(u)' THEN call'[q].case = page'[u].case /\ ~Submits(q)' ELSE Submits(q)'
  BY <1>1, <1>4, <1>5 DEF PageInv, OnCase, Submits
<1> QED
  BY <1>1, <1>3, <1>6, <1>7 DEF PageInv, View

\* What comes back for a case is a view of it, or an error that shows what was
\* there.
LEMMA ReturnKeepsPages ==
  ASSUME Inv, PageInv, NEW t \in Tab, NEW r \in Request, NEW shown,
         \/ shown = page[t].shown
         \/ OnCase(t) /\ shown = answer[r] /\ View(answer[r], page[t].case),
         Over(t, r, shown), UNCHANGED <<vars, answer, reviewed>>
  PROVE  PageInv'
<1>1. UNCHANGED <<store, call, pc, answer, reviewed>>
  BY DEF vars
<1>2. page[t] \in Page /\ page \in [Tab -> Page] /\ answer[r] \in CaseRecord \cup {Null}
  BY DEF PageInv
<1>3. /\ shown \in CaseRecord \cup {Null}
      /\ page[t].waiting \ {r} \in SUBSET Request
  BY <1>2 DEF Page
<1> DEFINE busy == page[t].busy /\ call[r].kind = "reject"
           new == [page[t] EXCEPT !.shown = shown, !.busy = busy,
                                  !.waiting = page[t].waiting \ {r}]
<1>4. busy \in BOOLEAN /\ new \in Page
  <2>1. busy \in BOOLEAN
    OBVIOUS
  <2> QED
    BY <1>2, <1>3, <2>1 DEF Page
<1>5. page' = [page EXCEPT ![t] = new] /\ page' \in [Tab -> Page]
  <2>1. page' = [page EXCEPT ![t] = new]
    BY <1>2 DEF Over, Page
  <2> QED
    BY <1>2, <1>4, <2>1
<1>6. \A u \in Tab : u # t => page'[u] = page[u]
  BY <1>2, <1>5
<1>7. /\ page'[t].case = page[t].case /\ page'[t].shown = shown
      /\ page'[t].waiting = page[t].waiting \ {r}
  BY <1>2, <1>5 DEF Page
<1>8. \A u \in Tab : OnCase(u)' => View(page[u].shown, page[u].case)'
  BY <1>1, <1>6, <1>7 DEF PageInv, OnCase, View
<1>9. \A u \in Tab : \A q \in page'[u].waiting :
        /\ call'[q] # Null
        /\ IF OnCase(u)' THEN call'[q].case = page'[u].case /\ ~Submits(q)' ELSE Submits(q)'
  BY <1>1, <1>6, <1>7 DEF PageInv, OnCase, Submits
<1> QED
  BY <1>1, <1>5, <1>8, <1>9 DEF PageInv, View

\* What happens to a report: there is one that was on its way, and one is on its
\* way of the case as it is on record while the card of its receipt is shown.
LEMMA PanelMoves ==
  ASSUME Inv, PageInv, NEW t \in Tab, OpenPanel(t) \/ ReportArrives(t) \/ ReportLost(t)
  PROVE  \E report \in CaseRecord \cup {Null}, loading \in BOOLEAN, coming \in SUBSET CaseRecord :
           /\ page' = [page EXCEPT ![t] = [page[t] EXCEPT !.report = report, !.loading = loading,
                                                          !.coming = coming]]
           /\ report \in {page[t].report} \cup page[t].coming
           /\ \A record \in coming : \/ record \in page[t].coming
                                     \/ record = store[page[t].case] /\ Panel(page[t]) = "receipt"
<1>1. /\ page[t] \in Page /\ page \in [Tab -> Page]
      /\ page[t].report \in CaseRecord \cup {Null} /\ page[t].coming \in SUBSET CaseRecord
  BY DEF PageInv, Page
<1>2. CASE OpenPanel(t)
  <2> DEFINE new == { record \in {store[page[t].case]} : Verifiable(record) }
  <2>1. page[t].case \in Case /\ Panel(page[t]) = "receipt"
    BY <1>1, <1>2 DEF OpenPanel, OnCase, Page
  <2>2. page[t].coming \cup new \in SUBSET CaseRecord
    BY <1>1, <2>1 DEF Verifiable, Inv, TypeOK
  <2>3. page' = [page EXCEPT ![t] = [page[t] EXCEPT !.report = page[t].report,
                                       !.loading = TRUE, !.coming = page[t].coming \cup new]]
    BY <1>1, <1>2 DEF OpenPanel, Page
  <2>4. \A record \in page[t].coming \cup new :
          record \in page[t].coming \/ record = store[page[t].case]
    OBVIOUS
  <2> HIDE DEF new
  <2> QED
    BY <1>1, <2>1, <2>2, <2>3, <2>4
<1>3. CASE ReportArrives(t)
  <2>1. PICK record \in page[t].coming :
          page' = [page EXCEPT ![t].report = record, ![t].loading = FALSE,
                               ![t].coming = @ \ {record}]
    BY <1>3 DEF ReportArrives
  <2>2. record \in CaseRecord /\ page[t].coming \ {record} \in SUBSET CaseRecord
    BY <1>1
  <2>3. page' = [page EXCEPT ![t] = [page[t] EXCEPT !.report = record, !.loading = FALSE,
                                       !.coming = page[t].coming \ {record}]]
    BY <1>1, <2>1 DEF Page
  <2> QED
    BY <2>2, <2>3
<1>4. CASE ReportLost(t)
  <2>1. PICK left \in SUBSET page[t].coming :
          page' = [page EXCEPT ![t].loading = FALSE, ![t].coming = left]
    BY <1>4 DEF ReportLost
  <2>2. page' = [page EXCEPT ![t] = [page[t] EXCEPT !.report = page[t].report,
                                       !.loading = FALSE, !.coming = left]]
    BY <1>1, <2>1 DEF Page
  <2> QED
    BY <1>1, <2>1, <2>2
<1> QED
  BY <1>2, <1>3, <1>4

\* It changes nothing of what the page shows of the case.
LEMMA PanelKeepsPages ==
  ASSUME Inv, PageInv, NEW t \in Tab, OpenPanel(t) \/ ReportArrives(t) \/ ReportLost(t)
  PROVE  PageInv'
<1>1. UNCHANGED <<vars, answer, reviewed>>
  BY DEF OpenPanel, ReportArrives, ReportLost
<1>2. page[t] \in Page /\ page \in [Tab -> Page]
  BY DEF PageInv
<1>3. PICK report \in CaseRecord \cup {Null}, loading \in BOOLEAN, coming \in SUBSET CaseRecord :
        /\ page' = [page EXCEPT ![t] = [page[t] EXCEPT !.report = report, !.loading = loading,
                                                       !.coming = coming]]
        /\ report \in {page[t].report} \cup page[t].coming
        /\ \A record \in coming : \/ record \in page[t].coming
                                  \/ record = store[page[t].case] /\ Panel(page[t]) = "receipt"
  BY PanelMoves
<1> DEFINE new == [page[t] EXCEPT !.report = report, !.loading = loading, !.coming = coming]
<1>4. /\ new \in Page /\ new.case = page[t].case /\ new.shown = page[t].shown
      /\ new.waiting = page[t].waiting
  BY <1>2 DEF Page
<1>5. /\ page' \in [Tab -> Page]
      /\ \A u \in Tab : /\ page'[u].case = page[u].case /\ page'[u].shown = page[u].shown
                         /\ page'[u].waiting = page[u].waiting
  <2> HIDE DEF new
  <2> QED
    BY <1>2, <1>3, <1>4 DEF new
<1>6. UNCHANGED <<store, call, pc, answer, reviewed>>
  BY <1>1 DEF vars
<1> QED
  BY <1>5, <1>6 DEF PageInv, OnCase, View, Submits

-----------------------------------------------------------------------------
\* The pages show nothing at first.
LEMMA PageInitInv == PageInit => PageInv
BY DEF PageInit, Init, PageInv, EmptyForm, Page, OnCase

\* Every step keeps the invariant.
LEMMA PageNextInv ==
  Inv /\ Inv' /\ AnswersInStore /\ AnswersInStore' /\ PageInv /\ [PageNext]_pageVars => PageInv'
<1> SUFFICES ASSUME Inv, Inv', AnswersInStore, AnswersInStore', PageInv, [PageNext]_pageVars
             PROVE  PageInv'
  OBVIOUS
<1>1. CASE UNCHANGED pageVars \/ (Quiescent /\ UNCHANGED browser)
  BY <1>1 DEF pageVars, vars, browser, Quiescent, PageInv, OnCase, View, Submits
<1>2. ASSUME NEW t \in Tab, NEW r \in Request, Submit(t, r) PROVE PageInv'
  BY <1>2, SubmitKeepsPages
<1>3. ASSUME NEW t \in Tab, NEW r \in Request, Approve(t, r) \/ Reject(t, r) PROVE PageInv'
  BY <1>3, ClickKeepsPages
<1>4. ASSUME NEW t \in Tab, Visit(t) PROVE PageInv'
  <2>1. PICK u \in Tab : OnCase(u) /\ page' = [page EXCEPT ![t] = Rendered(page[u].case)]
    BY <1>4 DEF Visit
  <2>2. page[u].case \in Case /\ store[page[u].case] # Null
    BY <2>1 DEF PageInv, Page, OnCase, View
  <2>3. UNCHANGED <<vars, answer, reviewed>>
    BY <1>4 DEF Visit
  <2> QED
    BY <2>1, <2>2, <2>3, VisitKeepsPages
<1>5. ASSUME NEW t \in Tab, NEW r \in Request, Answered(t, r) PROVE PageInv'
  <2>1. r \in page[t].waiting /\ pc[r] = "done" /\ UNCHANGED <<vars, answer, reviewed>>
    BY <1>5 DEF Answered
  <2>2. CASE Submits(r)
    <3>1. page' = [page EXCEPT ![t] = Rendered(call[r].case)]
      BY <1>5, <2>2 DEF Answered, Submits
    <3>2. call[r].case \in Case /\ store[call[r].case] # Null
      BY <2>1 DEF AnswersInStore
    <3> QED
      BY <2>1, <3>1, <3>2, VisitKeepsPages
  <2>3. CASE ~Submits(r)
    <3>1. OnCase(t) /\ View(answer[r], page[t].case)
      BY <2>1, <2>3 DEF PageInv
    <3>2. Over(t, r, answer[r])
      BY <1>5, <2>3 DEF Answered, Submits
    <3> QED
      BY <2>1, <3>1, <3>2, ReturnKeepsPages
  <2> QED
    BY <2>2, <2>3
<1>6. ASSUME NEW t \in Tab, NEW r \in Request, Refused(t, r) PROVE PageInv'
  BY <1>6, ReturnKeepsPages DEF Refused
<1>7. ASSUME NEW t \in Tab, OpenPanel(t) \/ ReportArrives(t) \/ ReportLost(t) PROVE PageInv'
  BY <1>7, PanelKeepsPages
<1>8. CASE Server
  <2>1. [Next]_vars
    BY PageStepIsStep
  <2>2. \A c \in Case : Evolves(c)
    BY <2>1, NextEvolves
  <2> QED
    BY <1>8, <2>2, ServerKeepsPages
<1> QED
  BY <1>1, <1>2, <1>3, <1>4, <1>5, <1>6, <1>7, <1>8 DEF PageNext, Failed, Lose

\* The invariant holds throughout.
LEMMA PageInvariance == PageSpec => [](Inv /\ PageInv)
<1>1. PageInit => Inv /\ PageInv
  BY InitInv, PageInitInv DEF PageInit
<1>2. Inv /\ PageInv /\ [PageNext]_pageVars => Inv' /\ PageInv'
  <2>1. Inv /\ [PageNext]_pageVars => Inv'
    BY PageStepIsStep, NextInv
  <2>2. Inv' => AnswersInStore'
    BY AnsweredHasCase, PTL
  <2> QED
    BY <2>1, <2>2, AnsweredHasCase, PageNextInv
<1> QED
  BY <1>1, <1>2, PTL DEF PageSpec

\* What is sent for the user is the message that was on the page when they
\* clicked, through every stale page, lost answer, retry and race.
THEOREM SentWasReviewed == PageSpec => []SentAsReviewed
<1>1. Inv /\ PageInv => SentAsReviewed
  <2> SUFFICES ASSUME Inv, PageInv, NEW r \in sent
               PROVE  reviewed[r] # Null /\ current[r].proposal = reviewed[r]
    BY DEF SentAsReviewed
  <2>1. r \in Request
    BY DEF Inv, TypeOK
  <2>2. current[r] # Null /\ ApprovalOK(r) /\ CallOK(r)
    BY <2>1 DEF Inv, RequestOK, SentOK
  <2>3. /\ call[r] # Null /\ call[r].kind = "approve"
        /\ store[call[r].case].proposal = current[r].proposal
    BY <2>2, ArgumentsAssumption DEF ApprovalOK, CallOK
  <2> QED
    BY <2>1, <2>3 DEF PageInv
<1> QED
  BY <1>1, PageInvariance, PTL

-----------------------------------------------------------------------------
(* What a step of a page shows.                                            *)

\* Tab t goes to a page that the server renders, or keeps its case and then shows
\* of it what it showed, or what a request on it answered; a report is of the
\* case as it is on record while the card of its receipt is shown.
Follows(t) ==
  \/ /\ page'[t].case \in Case /\ store[page'[t].case] # Null
     /\ page'[t] = Rendered(page'[t].case)
  \/ /\ page'[t].case = page[t].case
     /\ \/ page'[t].shown = page[t].shown
        \/ \E r \in Request : /\ pc[r] = "done" /\ call[r].case = page[t].case
                              /\ page'[t].shown = answer[r]
     /\ page'[t].report \in {page[t].report} \cup page[t].coming
     /\ \A record \in page'[t].coming :
          \/ record \in page[t].coming
          \/ record = store[page[t].case] /\ Panel(page[t]) = "receipt"
     /\ page'[t].busy =>
          \/ \E r \in page'[t].waiting : call'[r].kind # "reject"
          \/ /\ page[t].busy
             /\ \A r \in page[t].waiting : call[r].kind = "reject" \/ r \in page'[t].waiting

\* A page that stays as it is.
LEMMA SamePage == ASSUME NEW t \in Tab, page'[t] = page[t] PROVE Follows(t)
BY DEF Follows

\* The user's own steps are those of the requests that they start.
LEMMA ClickFollows ==
  ASSUME Inv, Inv', PageInv, NEW t \in Tab, NEW r \in Request,
         Submit(t, r) \/ Approve(t, r) \/ Reject(t, r)
  PROVE  /\ store' = store /\ answer' = answer
         /\ \A q \in Request : /\ call[q] # Null => call'[q] = call[q]
                               /\ call'[q] # call[q] => call'[q].owner = User
                               /\ pc'[q] = "done" => pc[q] = "done" /\ call'[q] = call[q]
         /\ \A u \in Tab : Follows(u)
<1>1. PICK arguments :
        /\ Arrive(r, arguments, "create") \/ Arrive(r, arguments, "authorize")
        /\ Reject(t, r) \/ arguments.kind # "reject"
  <2>1. CASE Submit(t, r)
    BY <2>1 DEF Submit, ArriveSubmit
  <2>2. CASE Approve(t, r)
    BY <2>2 DEF Approve, ArriveApprove
  <2>3. CASE Reject(t, r)
    BY <2>3 DEF Reject, ArriveReject
  <2> QED
    BY <2>1, <2>2, <2>3
<1>2. /\ store' = store /\ call'[r] = arguments
      /\ \A q \in Request : call[q] # Null => q # r /\ call'[q] = call[q]
      /\ \A q \in Request : q # r => call'[q] = call[q]
      /\ \A q \in Request : pc'[q] = "done" => pc[q] = "done" /\ q # r
  BY <1>1, Arrival
<1>3. call'[r].owner = User /\ answer' = answer
  BY DEF Submit, Approve, Reject
<1>4. page \in [Tab -> Page] /\ page[t] \in Page
  BY DEF PageInv
<1>5. \A u \in Tab \ {t} : page'[u] = page[u]
  BY <1>4 DEF Submit, Approve, Reject
<1>6. /\ page'[t].case = page[t].case /\ page'[t].shown = page[t].shown
      /\ page'[t].report = page[t].report /\ page'[t].coming = page[t].coming
      /\ \/ ~Reject(t, r) /\ r \in page'[t].waiting
         \/ /\ page'[t].busy = page[t].busy
            /\ page'[t].waiting = page[t].waiting \cup {r}
  BY <1>4 DEF Submit, Approve, Reject, Page
<1>7. Follows(t)
  BY <1>1, <1>2, <1>6 DEF Follows
<1> QED
  BY <1>2, <1>3, <1>5, <1>7, SamePage

\* So are those of answers and of reports.
LEMMA ReturnFollows ==
  ASSUME Inv, AnswersInStore, PageInv, NEW t \in Tab,
         \/ Visit(t) \/ OpenPanel(t) \/ ReportArrives(t) \/ ReportLost(t)
         \/ \E r \in Request : Answered(t, r) \/ Failed(t, r) \/ Lose(t, r)
  PROVE  UNCHANGED <<vars, answer>> /\ \A u \in Tab : Follows(u)
<1>1. UNCHANGED <<vars, answer>>
  <2>1. \A r \in Request :
          Answered(t, r) \/ Failed(t, r) \/ Lose(t, r) => UNCHANGED <<vars, answer>>
    BY DEF Answered, Failed, Lose, Refused
  <2>2. Visit(t) \/ OpenPanel(t) \/ ReportArrives(t) \/ ReportLost(t) => UNCHANGED <<vars, answer>>
    BY DEF Visit, OpenPanel, ReportArrives, ReportLost
  <2> QED
    BY <2>1, <2>2
<1>2. page \in [Tab -> Page] /\ page[t] \in Page
  BY DEF PageInv
<1>3. \A u \in Tab \ {t} : page'[u] = page[u]
  <2>1. ASSUME NEW new, page' = [page EXCEPT ![t] = new]
        PROVE  \A u \in Tab \ {t} : page'[u] = page[u]
    BY <1>2, <2>1
  <2>2. ASSUME NEW r \in Request, Answered(t, r) \/ Failed(t, r) \/ Lose(t, r)
        PROVE  \A u \in Tab \ {t} : page'[u] = page[u]
    BY <1>2, <2>2 DEF Answered, Failed, Lose, Refused, Over
  <2>3. OpenPanel(t) \/ ReportArrives(t) \/ ReportLost(t)
          => \E new : page' = [page EXCEPT ![t] = new]
    BY PanelMoves
  <2>4. Visit(t) => \E new : page' = [page EXCEPT ![t] = new]
    BY DEF Visit
  <2> QED
    BY <2>1, <2>2, <2>3, <2>4
<1>4. ASSUME NEW c \in Case, store[c] # Null, page' = [page EXCEPT ![t] = Rendered(c)]
      PROVE  Follows(t)
  <2>1. page'[t] = Rendered(c) /\ Rendered(c).case = c
    BY <1>2, <1>4 DEF Rendered, EmptyForm
  <2> QED
    BY <1>4, <2>1 DEF Follows
<1>5. ASSUME Visit(t) PROVE Follows(t)
  <2>1. PICK u \in Tab : OnCase(u) /\ page' = [page EXCEPT ![t] = Rendered(page[u].case)]
    BY <1>5 DEF Visit
  <2>2. page[u].case \in Case /\ store[page[u].case] # Null
    BY <2>1 DEF PageInv, Page, OnCase, View
  <2>3. PICK c \in Case : store[c] # Null /\ page' = [page EXCEPT ![t] = Rendered(c)]
    BY <2>1, <2>2
  <2> QED
    BY <1>4, <2>3
<1>6. ASSUME NEW r \in Request, NEW shown, Over(t, r, shown), r \in page[t].waiting,
             \/ shown = page[t].shown
             \/ pc[r] = "done" /\ call[r].case = page[t].case /\ shown = answer[r]
      PROVE  Follows(t)
  <2>1. /\ page'[t].case = page[t].case /\ page'[t].shown = shown
        /\ page'[t].report = page[t].report /\ page'[t].coming = page[t].coming
        /\ page'[t].waiting = page[t].waiting \ {r}
        /\ page'[t].busy = (page[t].busy /\ call[r].kind = "reject")
    BY <1>2, <1>6 DEF Over, Page
  <2> QED
    BY <1>6, <2>1 DEF Follows
<1>7. ASSUME NEW r \in Request, Answered(t, r) PROVE Follows(t)
  <2>1. r \in page[t].waiting /\ pc[r] = "done"
    BY <1>7 DEF Answered
  <2>2. CASE Submits(r)
    <3>1. page' = [page EXCEPT ![t] = Rendered(call[r].case)]
      BY <1>7, <2>2 DEF Answered, Submits
    <3> QED
      BY <1>4, <2>1, <3>1 DEF AnswersInStore
  <2>3. CASE ~Submits(r)
    <3>1. Over(t, r, answer[r]) /\ call[r].case = page[t].case
      BY <1>7, <2>1, <2>3 DEF Answered, Submits, PageInv
    <3> QED
      BY <1>6, <2>1, <3>1
  <2> QED
    BY <2>2, <2>3
<1>8. ASSUME NEW r \in Request, Failed(t, r) \/ Lose(t, r) PROVE Follows(t)
  BY <1>6, <1>8 DEF Failed, Lose, Refused
<1>9. ASSUME OpenPanel(t) \/ ReportArrives(t) \/ ReportLost(t) PROVE Follows(t)
  <2>1. PICK report \in CaseRecord \cup {Null}, loading \in BOOLEAN, coming \in SUBSET CaseRecord :
          /\ page' = [page EXCEPT ![t] = [page[t] EXCEPT !.report = report, !.loading = loading,
                                                         !.coming = coming]]
          /\ report \in {page[t].report} \cup page[t].coming
          /\ \A record \in coming : \/ record \in page[t].coming
                                    \/ record = store[page[t].case] /\ Panel(page[t]) = "receipt"
    BY <1>9, PanelMoves
  <2> DEFINE new == [page[t] EXCEPT !.report = report, !.loading = loading, !.coming = coming]
  <2>2. /\ new.case = page[t].case /\ new.shown = page[t].shown /\ new.waiting = page[t].waiting
        /\ new.busy = page[t].busy /\ new.report = report /\ new.coming = coming
    BY <1>2 DEF Page
  <2>3. page'[t] = new
    BY <1>2, <2>1
  <2> HIDE DEF new
  <2>4. /\ report \in {page[t].report} \cup page[t].coming
        /\ \A record \in coming : \/ record \in page[t].coming
                                  \/ record = store[page[t].case] /\ Panel(page[t]) = "receipt"
    BY <2>1
  <2> QED
    BY <2>2, <2>3, <2>4 DEF Follows
<1>10. Follows(t)
  BY <1>5, <1>7, <1>8, <1>9
<1> QED
  BY <1>1, <1>3, <1>10, SamePage

\* A step is one of the pages, which all follow, or one of the server, which
\* touches none of them.
LEMMA PageFollows ==
  ASSUME Inv, Inv', AnswersInStore, PageInv, [PageNext]_pageVars
  PROVE  \/ /\ store' = store /\ answer' = answer
            /\ \A r \in Request : /\ call[r] # Null => call'[r] = call[r]
                                  /\ call'[r] # call[r] => call'[r].owner = User
                                  /\ pc'[r] = "done" => pc[r] = "done" /\ call'[r] = call[r]
            /\ \A t \in Tab : Follows(t)
         \/ /\ UNCHANGED <<call, page>>
            /\ answer' = [r \in Request |-> IF pc[r] # "done" /\ pc'[r] = "done"
                                            THEN store'[call[r].case] ELSE answer[r]]
<1>1. CASE UNCHANGED <<vars, page, answer>>
  BY <1>1, SamePage DEF vars
<1>2. ASSUME NEW t \in Tab,
             \/ Visit(t) \/ OpenPanel(t) \/ ReportArrives(t) \/ ReportLost(t)
             \/ \E r \in Request : Answered(t, r) \/ Failed(t, r) \/ Lose(t, r)
      PROVE  UNCHANGED <<store, call, pc, answer>> /\ \A u \in Tab : Follows(u)
  BY <1>2, ReturnFollows DEF vars
<1>3. CASE Server
  BY <1>3, ServerKeepsCalls DEF Server
<1> QED
  BY <1>1, <1>2, <1>3, ClickFollows DEF PageNext, pageVars, browser, Quiescent

-----------------------------------------------------------------------------
(* Whose cases the pages show, and what they wait for.                     *)

\* A case that was not there is the caller's.
LEMMA NewIsCallers ==
  ASSUME Inv, [Next]_vars, NEW c \in Case, store[c] = Null, store'[c] # Null
  PROVE  \E r \in Request : call[r] # Null /\ store'[c].ownerId = call[r].owner
<1>1. store' # store
  OBVIOUS
<1>2. PICK r \in Request : Create(r) \/ TransitionSave(r) \/ Throw(r)
  <2>1. ASSUME NEW q \in Request,
               \/ ArriveSubmit(q) \/ ArriveApprove(q) \/ ArriveReject(q)
               \/ TransitionGet(q) \/ Analyze(q) \/ Final(q) \/ Authorize(q)
               \/ SendReturns(q) \/ SendThrows(q) \/ Upload(q) \/ AnchorSubmit(q)
               \/ AnchorSkip(q) \/ AnchorDone(q) \/ AnchorLost(q) \/ AssessFee(q) \/ Mine(q)
        PROVE  FALSE
    BY <1>1, <2>1
       DEF ArriveSubmit, ArriveApprove, ArriveReject, Arrive, TransitionGet, Analyze, Final,
           Authorize, SendReturns, SendThrows, Upload, AnchorSubmit, AnchorSkip, AnchorDone,
           AnchorLost, AssessFee, Mine
  <2>2. /\ \A i \in Instance : ~Crash(i)
        /\ ~UNCHANGED vars
    BY <1>1 DEF Crash, vars
  <2> QED
    BY <2>1, <2>2 DEF Next, Serve, Quiescent
<1>3. StepOf(r) /\ InFlight(r) /\ call[r].case \in Case
  BY <1>2, HandlerStep, AtStep DEF Serve, StepOf
<1>4. call[r] # Null
  BY <1>3, ArgumentsAssumption DEF InFlight, Steps, Inv, RequestOK, CallOK, Called
<1>5. c = call[r].case
  BY <1>3 DEF StepOf
<1>6. pc[r] # "save"
  BY <1>5 DEF Inv, RequestOK, ReadOK
<1>7. store'[c] = NewRecord(r)
  BY <1>2, <1>5, <1>6 DEF Create, TransitionSave, Throw, Inv, TypeOK
<1> QED
  BY <1>4, <1>7 DEF NewRecord

\* The pages are one user's, and so are the requests, the cases and the answers;
\* and a busy page waits for what made it busy.
OwnInv ==
  /\ \A r \in Request : call[r] # Null => call[r].owner = User
  /\ \A c \in Case : store[c] # Null => store[c].ownerId = User
  /\ \A r \in Request : pc[r] = "done" => answer[r].ownerId = User
  /\ \A t \in Tab : OnCase(t) => page[t].shown.ownerId = User
  /\ \A t \in Tab : page[t].busy => \E r \in page[t].waiting : call[r].kind # "reject"

\* Every step keeps that.
LEMMA NextOwn ==
  ASSUME Inv, Inv', AnswersInStore, AnswersInStore', PageInv, OwnInv, [PageNext]_pageVars
  PROVE  OwnInv'
<1>1. CASE /\ store' = store /\ answer' = answer
           /\ \A r \in Request : /\ call[r] # Null => call'[r] = call[r]
                                 /\ call'[r] # call[r] => call'[r].owner = User
                                 /\ pc'[r] = "done" => pc[r] = "done" /\ call'[r] = call[r]
           /\ \A t \in Tab : Follows(t)
  <2>1. /\ \A r \in Request : call'[r] # Null => call'[r].owner = User
        /\ \A c \in Case : store'[c] # Null => store'[c].ownerId = User
        /\ \A r \in Request : pc'[r] = "done" => answer'[r].ownerId = User
    BY <1>1 DEF OwnInv
  <2>2. ASSUME NEW t \in Tab, page'[t].case # Null PROVE page'[t].shown.ownerId = User
    <3>1. CASE page'[t].case \in Case /\ store[page'[t].case] # Null
               /\ page'[t] = Rendered(page'[t].case)
      <4> DEFINE c == page'[t].case
      <4>1. Rendered(c).shown = store[c]
        BY DEF Rendered, EmptyForm
      <4>2. page'[t].shown = store[c]
        BY <3>1, <4>1
      <4> QED
        BY <3>1, <4>2 DEF OwnInv
    <3>2. CASE page'[t].case = page[t].case /\ page'[t].shown = page[t].shown
      BY <2>2, <3>2 DEF OwnInv, OnCase
    <3>3. CASE \E r \in Request : pc[r] = "done" /\ page'[t].shown = answer[r]
      BY <3>3 DEF OwnInv
    <3> QED
      BY <1>1, <3>1, <3>2, <3>3 DEF Follows
  <2>3. ASSUME NEW t \in Tab, page'[t].busy
        PROVE  \E r \in page'[t].waiting : call'[r].kind # "reject"
    <3>1. CASE page'[t] = Rendered(page'[t].case)
      BY <2>3, <3>1 DEF Rendered, EmptyForm
    <3>2. CASE /\ page[t].busy
               /\ \A r \in page[t].waiting : call[r].kind = "reject" \/ r \in page'[t].waiting
      <4>1. PICK r \in page[t].waiting : call[r].kind # "reject"
        BY <3>2 DEF OwnInv
      <4>2. r \in Request /\ call[r] # Null
        BY <4>1 DEF PageInv, Page
      <4> QED
        BY <1>1, <3>2, <4>1, <4>2
    <3> QED
      BY <1>1, <2>3, <3>1, <3>2 DEF Follows
  <2> QED
    BY <2>1, <2>2, <2>3 DEF OwnInv, OnCase
<1>2. CASE /\ UNCHANGED <<call, page>>
           /\ answer' = [r \in Request |-> IF pc[r] # "done" /\ pc'[r] = "done"
                                           THEN store'[call[r].case] ELSE answer[r]]
  <2>1. [Next]_vars
    BY PageStepIsStep
  <2>2. ASSUME NEW c \in Case, store'[c] # Null PROVE store'[c].ownerId = User
    <3>1. CASE store[c] = Null
      BY <2>1, <2>2, <3>1, NewIsCallers DEF OwnInv
    <3>2. CASE store[c] # Null
      BY <2>1, <3>2, NextEvolves DEF Evolves, OwnInv
    <3> QED
      BY <3>1, <3>2
  <2>3. ASSUME NEW r \in Request, pc'[r] = "done" PROVE answer'[r].ownerId = User
    <3>1. call[r].case \in Case /\ store'[call[r].case] # Null
      BY <1>2, <2>3 DEF AnswersInStore
    <3>2. call'[r].case = call[r].case
      BY <1>2
    <3>3. store'[call[r].case].ownerId = User
      BY <2>2, <3>1, <3>2
    <3>4. answer'[r] = IF pc[r] # "done" THEN store'[call[r].case] ELSE answer[r]
      BY <1>2, <2>3
    <3> QED
      BY <3>3, <3>4 DEF OwnInv
  <2> QED
    BY <1>2, <2>2, <2>3 DEF OwnInv, OnCase
<1> QED
  BY <1>1, <1>2, PageFollows

\* The invariant holds throughout.
LEMMA OwnInvariance == PageSpec => []OwnInv
<1>1. PageInit => OwnInv
  BY DEF PageInit, Init, OwnInv, OnCase, EmptyForm
<1>2. Inv => AnswersInStore
  BY AnsweredHasCase
<1>3. Inv /\ Inv' /\ PageInv /\ OwnInv /\ [PageNext]_pageVars => OwnInv'
  <2>1. Inv' => AnswersInStore'
    BY <1>2, PTL
  <2> QED
    BY <1>2, <2>1, NextOwn
<1> QED
  BY <1>1, <1>3, PageInvariance, PTL DEF PageSpec

\* A page of a case shows a record of that case, which is the user's, and a busy
\* page waits for an answer that will end it: whatever comes late or is lost.
THEOREM PagesAreTyped == PageSpec => []PageOK
<1>1. PageInv /\ OwnInv => PageOK
  <2> SUFFICES ASSUME PageInv, OwnInv PROVE PageOK
    OBVIOUS
  <2>1. \A t \in Tab : OnCase(t) => page[t].shown # Null /\ page[t].shown.ownerId = User
    BY DEF PageInv, OwnInv, View
  <2> QED
    BY <2>1 DEF PageInv, OwnInv, PageOK
<1> QED
  BY <1>1, PageInvariance, OwnInvariance, PTL

-----------------------------------------------------------------------------
(* What the pages say of an end, if requests on a case do not overlap.     *)

\* If this record of case c is in a terminal state, it is what is on record.
Ends(record, c) == IsTerminal(record.state) => store[c] = record

\* What was seen of an end is on record, and reports are of cases at their end.
EndInv ==
  /\ \A t \in Tab : OnCase(t) => Ends(page[t].shown, page[t].case)
  /\ \A r \in Request : pc[r] = "done" => Ends(answer[r], call[r].case)
  /\ \A t \in Tab : OnCase(t) =>
       \A record \in page[t].coming \cup {page[t].report} :
         record # Null => IsTerminal(record.state) /\ store[page[t].case] = record

\* What is on record at its end stays.
LEMMA EndsStay ==
  ASSUME Inv, FeeInv, AloneInv, [Next]_vars, NEW c \in Case, NEW record, record # Null,
         Ends(record, c)
  PROVE  Ends(record, c)'
BY TerminalStep DEF Ends

\* A page's card is of a receipt that is on record.
LEMMA CardIsOfEnd ==
  ASSUME EndInv, NEW t \in Tab, OnCase(t), Panel(page[t]) = "receipt"
  PROVE  /\ page[t].shown.state = "VERIFIED_SUCCESS"
         /\ IsTerminal(page[t].shown.state) /\ store[page[t].case] = page[t].shown
<1>1. page[t].shown.state = "VERIFIED_SUCCESS"
  BY DEF Panel
<1>2. IsTerminal(page[t].shown.state)
  BY <1>1 DEF IsTerminal, LegalEvents, Legal, Transitions, Entries
<1> QED
  BY <1>1, <1>2 DEF EndInv, Ends

\* Every step keeps the invariant.
LEMMA NextEnds ==
  ASSUME Inv, Inv', FeeInv, AloneInv, AnswersInStore, AnswersInStore', PageInv, EndInv,
         [PageNext]_pageVars
  PROVE  EndInv'
<1> [Next]_vars
  BY PageStepIsStep
<1>1. CASE /\ store' = store /\ answer' = answer
           /\ \A r \in Request : pc'[r] = "done" => pc[r] = "done" /\ call'[r] = call[r]
           /\ \A t \in Tab : Follows(t)
  <2>1. ASSUME NEW r \in Request, pc'[r] = "done" PROVE Ends(answer[r], call[r].case)'
    BY <1>1, <2>1 DEF EndInv, Ends
  <2>2. ASSUME NEW t \in Tab, page'[t].case # Null
        PROVE  /\ Ends(page[t].shown, page[t].case)'
               /\ \A record \in page'[t].coming \cup {page'[t].report} : record # Null =>
                    IsTerminal(record.state) /\ store[page'[t].case] = record
    <3>1. CASE page'[t] = Rendered(page'[t].case)
      <4> DEFINE c == page'[t].case
      <4>1. /\ Rendered(c).shown = store[c] /\ Rendered(c).coming = {}
            /\ Rendered(c).report = Null
        BY DEF Rendered, EmptyForm
      <4>2. page'[t].shown = store'[c] /\ page'[t].coming = {} /\ page'[t].report = Null
        BY <1>1, <3>1, <4>1
      <4> QED
        BY <4>2 DEF Ends
    <3>2. CASE /\ page'[t].case = page[t].case
               /\ \/ page'[t].shown = page[t].shown
                  \/ \E r \in Request : /\ pc[r] = "done" /\ call[r].case = page[t].case
                                        /\ page'[t].shown = answer[r]
               /\ page'[t].report \in {page[t].report} \cup page[t].coming
               /\ \A record \in page'[t].coming :
                    \/ record \in page[t].coming
                    \/ record = store[page[t].case] /\ Panel(page[t]) = "receipt"
      <4>1. OnCase(t)
        BY <2>2, <3>2 DEF OnCase
      <4>2. Ends(page'[t].shown, page[t].case)
        BY <3>2, <4>1 DEF EndInv
      <4>3. ASSUME NEW record \in page'[t].coming \cup {page'[t].report}, record # Null
            PROVE  IsTerminal(record.state) /\ store[page[t].case] = record
        <5>1. CASE record \in page[t].coming \cup {page[t].report}
          BY <4>1, <4>3, <5>1 DEF EndInv
        <5>2. CASE record = store[page[t].case] /\ Panel(page[t]) = "receipt"
          BY <4>1, <5>2, CardIsOfEnd
        <5> QED
          BY <3>2, <5>1, <5>2
      <4> QED
        BY <1>1, <3>2, <4>2, <4>3 DEF Ends
    <3> QED
      BY <1>1, <3>1, <3>2 DEF Follows
  <2> QED
    BY <1>1, <2>1, <2>2 DEF EndInv, OnCase
<1>2. CASE /\ UNCHANGED <<call, page>>
           /\ answer' = [r \in Request |-> IF pc[r] # "done" /\ pc'[r] = "done"
                                           THEN store'[call[r].case] ELSE answer[r]]
  <2>1. ASSUME NEW r \in Request, pc'[r] = "done" PROVE Ends(answer[r], call[r].case)'
    <3>1. call[r].case \in Case /\ call'[r] = call[r]
      BY <1>2, <2>1 DEF AnswersInStore
    <3>2. CASE pc[r] = "done"
      <4>1. answer'[r] = answer[r] /\ answer[r] # Null /\ Ends(answer[r], call[r].case)
        BY <1>2, <3>2 DEF EndInv, PageInv, View
      <4> QED
        BY <3>1, <4>1, EndsStay DEF Ends
    <3>3. CASE pc[r] # "done"
      BY <1>2, <2>1, <3>1, <3>3 DEF Ends
    <3> QED
      BY <3>2, <3>3
  <2>2. ASSUME NEW t \in Tab, OnCase(t)
        PROVE  /\ Ends(page[t].shown, page[t].case)'
               /\ \A record \in page[t].coming \cup {page[t].report} : record # Null =>
                    IsTerminal(record.state) /\ store'[page[t].case] = record
    <3>1. page[t].case \in Case /\ page[t].shown # Null
      BY <2>2 DEF PageInv, Page, OnCase, View
    <3>2. Ends(page[t].shown, page[t].case)'
      BY <1>2, <2>2, <3>1, EndsStay DEF EndInv, Ends
    <3>3. ASSUME NEW record \in page[t].coming \cup {page[t].report}, record # Null
          PROVE  IsTerminal(record.state) /\ store'[page[t].case] = record
      BY <2>2, <3>1, <3>3, TerminalStep DEF EndInv
    <3> QED
      BY <3>2, <3>3
  <2> QED
    BY <1>2, <2>1, <2>2 DEF EndInv, OnCase
<1> QED
  BY <1>1, <1>2, PageFollows

\* EndInv holds throughout, and beneath it what SerialProofs says of requests.
LEMMA EndInvariance ==
  ASSUME ~Overlap
  PROVE  PageSpec => [](Inv /\ AloneInv /\ SandboxInv /\ PageInv /\ EndInv)
<1>1. PageSpec => [](Inv /\ FeeInv /\ AloneInv /\ SandboxInv)
  BY PagesDriveOrchestrator, Invariance, FeeInvariance, AloneInvariance, SandboxInvariance, PTL
<1>2. PageInit => EndInv
  BY DEF PageInit, Init, EndInv, OnCase, EmptyForm
<1>3. Inv /\ Inv' /\ FeeInv /\ AloneInv /\ PageInv /\ EndInv /\ [PageNext]_pageVars => EndInv'
  <2>1. Inv => AnswersInStore
    BY AnsweredHasCase
  <2>2. Inv' => AnswersInStore'
    BY <2>1, PTL
  <2> QED
    BY <2>1, <2>2, NextEnds
<1> QED
  BY <1>1, <1>2, <1>3, PageInvariance, PTL DEF PageSpec

\* Without overlap an end that a page shows is the end of the case, although
\* pages do not poll and answers come late or out of order.
THEOREM EndsAreFinal ==
  ASSUME ~Overlap
  PROVE  PageSpec => []EndsShownAreFinal
<1>1. EndInv => EndsShownAreFinal
  BY DEF EndInv, Ends, EndsShownAreFinal
<1> QED
  BY <1>1, EndInvariance, PTL

\* Without overlap a case that a page calls closed has not been acted on, and one
\* that it says has no response costs nothing.
THEOREM EndsAreTrue ==
  ASSUME ~Overlap
  PROVE  PageSpec => []EndsShownAreTrue
<1>1. Inv /\ AloneInv /\ PageInv /\ EndInv => EndsShownAreTrue
  <2> SUFFICES ASSUME Inv, AloneInv, PageInv, EndInv, NEW t \in Tab, OnCase(t)
               PROVE  /\ Panel(page[t]) = "closed" => SentOn(page[t].case) = {}
                      /\ Panel(page[t]) = "noResponse" =>
                           \A i \in Instance : ledger[i][page[t].case] = Null
    BY DEF EndsShownAreTrue
  <2> DEFINE c == page[t].case
             state == page[t].shown.state
  <2>1. c \in Case /\ page[t].shown # Null
    BY DEF PageInv, Page, OnCase, View
  <2>2. /\ Panel(page[t]) = "closed" => state = "REJECTED"
        /\ Panel(page[t]) = "noResponse" => state \in {"EXECUTION_FAILED", "OUTCOME_UNVERIFIED"}
    BY DEF Panel
  <2>3. state \in {"REJECTED", "EXECUTION_FAILED", "OUTCOME_UNVERIFIED"} =>
          store[c] # Null /\ store[c].state = state
    <3>1. state \in {"REJECTED", "EXECUTION_FAILED", "OUTCOME_UNVERIFIED"} => IsTerminal(state)
      BY DEF IsTerminal, LegalEvents, Legal, Transitions, Entries
    <3> QED
      BY <2>1, <3>1 DEF EndInv, Ends
  <2> HIDE DEF c, state
  <2>4. CaseOK(c)
    BY <2>1 DEF AloneInv
  <2>5. Panel(page[t]) = "closed" => SentOn(c) = {}
    BY <2>2, <2>3, <2>4 DEF CaseOK, AfterSend
  <2>6. Panel(page[t]) = "noResponse" => \A i \in Instance : ledger[i][c] = Null
    BY <2>2, <2>3, <2>4 DEF CaseOK
  <2> QED
    BY <2>5, <2>6 DEF c
<1> QED
  BY <1>1, EndInvariance, PTL

\* Without overlap a report under a card, whenever it was asked for and however
\* late it came, is of the receipt on the card and agrees with it.
THEOREM ReportsAreOfReceipts ==
  ASSUME ~Overlap
  PROVE  PageSpec => []ReportIsOfReceiptShown
<1>1. Inv /\ AloneInv /\ SandboxInv /\ PageInv /\ EndInv => ReportIsOfReceiptShown
  <2> SUFFICES ASSUME Inv, AloneInv, SandboxInv, PageInv, EndInv, NEW t \in Tab, OnCase(t),
                      Panel(page[t]) = "receipt", page[t].report # Null
               PROVE  LET report == page[t].report
                      IN /\ report = store[page[t].case]
                         /\ CardAgrees(page[t].shown.receipt, report)
    BY DEF ReportIsOfReceiptShown
  <2>1. page[t].case \in Case /\ page[t].shown # Null
    BY DEF PageInv, Page, OnCase, View
  <2>2. store[page[t].case] = page[t].shown /\ page[t].shown.state = "VERIFIED_SUCCESS"
    BY CardIsOfEnd
  <2>3. page[t].report = store[page[t].case]
    BY DEF EndInv
  <2>4. SuccessVerifies
    BY DEF AloneInv, CaseOK, SuccessVerifies
  <2> QED
    BY <2>1, <2>2, <2>3, <2>4, SuccessTold
<1> QED
  BY <1>1, EndInvariance, PTL
==============================================================================
