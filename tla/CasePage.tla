------------------------------ MODULE CasePage -------------------------------
(***************************************************************************)
(* The browser of one user over the requests of Orchestrator: the form of  *)
(* apps/web/src/app/cases/new/page.tsx and the page of a case,             *)
(* cases/[caseId]/page.tsx and CaseView.tsx, in any number of tabs.        *)
(*                                                                         *)
(* A page shows the case as of its last answer, and does not poll.  A      *)
(* request outlives the page that sent it: a connection may be lost and a  *)
(* page left or reloaded while the server goes on.  Under the card of a    *)
(* receipt a panel shows what the verify route made of the case when it    *)
(* was asked, which is once per page unless the answer does not come.      *)
(***************************************************************************)
EXTENDS Orchestrator, ReceiptCard

CONSTANTS Tab, User

ASSUME UserAssumption == User \in Owner

VARIABLES
  page,      \* [Tab -> Page]
  answer,    \* [Request -> the case it answered with, or Null]
  reviewed   \* [Request -> the proposal on the page when it was clicked] (history)

browser == <<page, answer, reviewed>>
pageVars == <<vars, browser>>

\* busy is submitting on the form, where case is Null, and executing on the
\* page of a case; waiting are the fetches that have not been answered.  report
\* stands for the record that the report was computed from, loading is
\* loadingReport, and coming are the reports on their way.
Page == [case : Case \cup {Null}, shown : CaseRecord \cup {Null}, busy : BOOLEAN,
         waiting : SUBSET Request, report : CaseRecord \cup {Null}, loading : BOOLEAN,
         coming : SUBSET CaseRecord]

EmptyForm == [case |-> Null, shown |-> Null, busy |-> FALSE, waiting |-> {},
              report |-> Null, loading |-> FALSE, coming |-> {}]

PageInit ==
  /\ Init
  /\ page = [t \in Tab |-> EmptyForm]
  /\ answer = [r \in Request |-> Null]
  /\ reviewed = [r \in Request |-> Null]

\* What CaseView renders of a case.
Panel(p) ==
  LET case == p.shown
  IN CASE p.busy -> "executing"
       [] ~p.busy /\ case.state = "AWAITING_APPROVAL" /\ case.proposal # Null -> "review"
       [] ~p.busy /\ case.state = "REJECTED" -> "closed"
       [] ~p.busy /\ case.state \in {"EXECUTION_FAILED", "OUTCOME_UNVERIFIED"} -> "noResponse"
       [] ~p.busy /\ case.state = "VERIFIED_SUCCESS" /\ case.receipt # Null -> "receipt"
       [] OTHER -> "working"

OnCase(t) == page[t].case # Null

-----------------------------------------------------------------------------
(* What the user does.                                                     *)

Submit(t, r) ==
  /\ ~OnCase(t) /\ ~page[t].busy
  /\ ArriveSubmit(r) /\ call'[r].owner = User
  /\ page' = [page EXCEPT ![t].busy = TRUE, ![t].waiting = {r}]
  /\ UNCHANGED <<answer, reviewed>>

Approve(t, r) ==
  /\ OnCase(t) /\ Panel(page[t]) = "review"
  /\ ArriveApprove(r)
  /\ call'[r].owner = User /\ call'[r].case = page[t].case
  /\ call'[r].proposalId = page[t].shown.proposal.proposalId
  /\ page' = [page EXCEPT ![t].busy = TRUE, ![t].waiting = @ \cup {r}]
  /\ reviewed' = [reviewed EXCEPT ![r] = page[t].shown.proposal]
  /\ UNCHANGED answer

\* reject sets no flag: the page keeps both of its buttons.
Reject(t, r) ==
  /\ OnCase(t) /\ Panel(page[t]) = "review"
  /\ ArriveReject(r)
  /\ call'[r].owner = User /\ call'[r].case = page[t].case
  /\ page' = [page EXCEPT ![t].waiting = @ \cup {r}]
  /\ UNCHANGED <<answer, reviewed>>

Rendered(c) == [EmptyForm EXCEPT !.case = c, !.shown = store[c]]

\* Variant: the page's flags survive going to another case.
VisitBusy(t) ==
  /\ \E u \in Tab : OnCase(u) /\ page' = [page EXCEPT ![t] =
                                  [Rendered(page[u].case) EXCEPT !.busy = page[t].busy]]
  /\ UNCHANGED <<vars, answer, reviewed>>

\* A tab is reloaded, or opens a case that the user knows: the server reads
\* it (getCase), and what the tab was waiting for is dropped.
Visit(t) ==
  /\ \E u \in Tab : OnCase(u) /\ page' = [page EXCEPT ![t] = Rendered(page[u].case)]
  /\ UNCHANGED <<vars, answer, reviewed>>

\* What verifyCaseReceipt makes a report of; it throws for another record.
Verifiable(record) ==
  /\ record # Null /\ record.ownerId = User
  /\ Null \notin {record.receipt, record.proposal, record.approval, record.execution,
                  record.outcome}

\* The panel under the card is opened and has no report yet: the server computes
\* one from the case as it is.
OpenPanel(t) ==
  /\ OnCase(t) /\ Panel(page[t]) = "receipt" /\ page[t].report = Null
  /\ page' = [page EXCEPT ![t].loading = TRUE,
                          ![t].coming =
                             @ \cup { record \in {store[page[t].case]} : Verifiable(record) }]
  /\ UNCHANGED <<vars, answer, reviewed>>

-----------------------------------------------------------------------------
(* What comes back.                                                        *)

\* Variant: executing is reset by an answer that is good, and only by that.
RefusedBusy(t, r) ==
  /\ page' = [page EXCEPT ![t].waiting = @ \ {r}]
  /\ UNCHANGED <<vars, answer, reviewed>>

\* A fetch is over, and the page shows this: only reject leaves busy alone.
Over(t, r, shown) ==
  page' = [page EXCEPT ![t].shown = shown, ![t].busy = @ /\ call[r].kind = "reject",
                       ![t].waiting = @ \ {r}]

\* The page shows an error and what it showed before (reject does not catch
\* that the connection is lost, and shows nothing).
Refused(t, r) ==
  /\ Over(t, r, page[t].shown)
  /\ UNCHANGED <<vars, answer, reviewed>>

\* The form goes to the page of its case, which the server renders; approve
\* and reject set the case to the one of the answer.
Answered(t, r) ==
  /\ r \in page[t].waiting /\ pc[r] = "done"
  /\ IF call[r].kind = "submit" THEN page' = [page EXCEPT ![t] = Rendered(call[r].case)]
     ELSE Over(t, r, answer[r])
  /\ UNCHANGED <<vars, answer, reviewed>>

Failed(t, r) == r \in page[t].waiting /\ pc[r] = "failed" /\ Refused(t, r)

\* The connection is lost, wherever the request is.
Lose(t, r) == r \in page[t].waiting /\ Refused(t, r)

\* Variant: loadingReport is reset by an answer that is good, and only by that.
ReportLostLoading(t) ==
  /\ page[t].loading
  /\ \E left \in SUBSET page[t].coming : page' = [page EXCEPT ![t].coming = left]
  /\ UNCHANGED <<vars, answer, reviewed>>

ReportArrives(t) ==
  /\ \E record \in page[t].coming :
       page' = [page EXCEPT ![t].report = record, ![t].loading = FALSE,
                            ![t].coming = @ \ {record}]
  /\ UNCHANGED <<vars, answer, reviewed>>

\* An error comes, or nothing: the panel stays empty until it is opened again,
\* and other answers may be on their way.
ReportLost(t) ==
  /\ page[t].loading
  /\ \E left \in SUBSET page[t].coming :
       page' = [page EXCEPT ![t].loading = FALSE, ![t].coming = left]
  /\ UNCHANGED <<vars, answer, reviewed>>

\* Requests make their steps, and their answers are what they last read or
\* saved.
Server ==
  /\ \/ \E r \in Request : Serve(r) \/ AnchorLost(r) \/ Mine(r) \/ Throw(r)
     \/ \E i \in Instance : Crash(i)
  /\ answer' = [r \in Request |-> IF pc[r] # "done" /\ pc'[r] = "done"
                                  THEN store'[call[r].case] ELSE answer[r]]
  /\ UNCHANGED <<page, reviewed>>

-----------------------------------------------------------------------------
PageNext ==
  \/ \E t \in Tab, r \in Request :
       Submit(t, r) \/ Approve(t, r) \/ Reject(t, r) \/ Answered(t, r) \/ Failed(t, r) \/ Lose(t, r)
  \/ \E t \in Tab : Visit(t) \/ OpenPanel(t) \/ ReportArrives(t) \/ ReportLost(t)
  \/ Server
  \/ Quiescent /\ UNCHANGED browser

PageSpec == PageInit /\ [][PageNext]_pageVars

\* The server serves, and a fetch that it has answered completes.
PageFairSpec ==
  /\ PageSpec
  /\ \A r \in Request : WF_pageVars(Server /\ Serve(r)) /\ WF_pageVars(Server /\ Mine(r))
  /\ \A t \in Tab, r \in Request : WF_pageVars(Answered(t, r) \/ Failed(t, r))
  /\ \A t \in Tab : WF_pageVars(ReportArrives(t) \/ ReportLost(t))

-----------------------------------------------------------------------------
\* A page of a case shows a record of that case, which is the user's; it is
\* busy with a submission or an approval that it is still waiting for.
PageOK ==
  /\ page \in [Tab -> Page]
  /\ answer \in [Request -> CaseRecord \cup {Null}]
  /\ \A t \in Tab :
       /\ OnCase(t) => page[t].shown # Null /\ page[t].shown.ownerId = User
       /\ page[t].busy => \E r \in page[t].waiting : call[r].kind # "reject"
       /\ \A r \in page[t].waiting : OnCase(t) => call[r].case = page[t].case

\* What is sent is the message that was on the page when the user clicked
\* (CaseView.tsx: "You are approving this exact message. Nothing is sent
\* until you approve").
SentAsReviewed ==
  \A r \in sent : reviewed[r] # Null /\ current[r].proposal = reviewed[r]

\* What a page says of an end is so: a case that it calls closed has not been
\* acted on (CaseView.tsx: "You chose not to send this request. No action was
\* taken"), and one that it says has no response is free ("No fee was charged").
EndsShownAreTrue ==
  \A t \in Tab : OnCase(t) =>
    /\ Panel(page[t]) = "closed" => SentOn(page[t].case) = {}
    /\ Panel(page[t]) = "noResponse" => \A i \in Instance : ledger[i][page[t].case] = Null

\* Pages do not poll, so an end that a page shows must be the case's end:
\* whatever answers come late or out of order, it is what the store holds.
EndsShownAreFinal ==
  \A t \in Tab : OnCase(t) /\ IsTerminal(page[t].shown.state) =>
    store[page[t].case] = page[t].shown

\* The report under a card is of the receipt on the card and of the artifacts that
\* the case still has, whenever it was asked for, and agrees with the card
\* (verify/route.ts: "recomputed from the same commitments").
ReportIsOfReceiptShown ==
  \A t \in Tab : OnCase(t) /\ Panel(page[t]) = "receipt" /\ page[t].report # Null =>
    LET report == page[t].report
    IN /\ report = store[page[t].case]
       /\ CardAgrees(page[t].shown.receipt, report)

Busy(t) == page[t].busy \/ page[t].loading

\* No page stays busy: an approval or a submission ends for the user too, and so
\* does the loading of a report.
BusyEnds == \A t \in Tab : Busy(t) ~> ~Busy(t)
==============================================================================
