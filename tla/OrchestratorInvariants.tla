------------------------ MODULE OrchestratorInvariants ------------------------
(***************************************************************************)
(* The inductive invariant of Orchestrator: what each step of a request    *)
(* may count on, however requests overlap and whatever fails.  TLC checks  *)
(* it on the small instances; OrchestratorProofs proves it.                *)
(***************************************************************************)
EXTENDS Orchestrator

Called(r) == pc[r] # "idle"

Submits(r) == call[r].kind = "submit"

\* The events each method makes transitions with.
SubmitEvents == {"SUBMIT", "BEGIN_ANALYSIS", "PROPOSE_ACTION", "REQUEST_APPROVAL"}
ApproveEvents == {"APPROVE", "BEGIN_EXECUTION", "EXECUTION_SUCCEEDED",
                  "EXECUTION_FAILED", "OUTCOME_CONFIRMED"}

\* A request has the arguments its method takes.
CallOK(r) ==
  /\ Called(r) => /\ call[r] \in Arguments
                  /\ Submits(r) => call[r].input \in Input
                  /\ call[r].kind = "approve" => call[r].proposalId \in Request
  /\ ~Called(r) => call[r] = Null

\* What the transition a request is making needs is there.
Prepared(r) ==
  LET e == event[r]
  IN /\ e \in SubmitEvents \cup ApproveEvents \cup {"REJECT"}
     /\ e \in SubmitEvents <=> Submits(r)
     /\ e \in ApproveEvents <=> call[r].kind = "approve"
     /\ e \in ApproveEvents => current[r] # Null
     /\ e = "PROPOSE_ACTION" => analysis[r] # Null
     /\ e = "EXECUTION_SUCCEEDED" =>
          outcome[r] # Null /\ outcome[r].outcomeType # "no_response"
     /\ e = "EXECUTION_FAILED" =>
          outcome[r] = Null \/ outcome[r].outcomeType = "no_response"
     /\ e \in {"APPROVE", "BEGIN_EXECUTION"} => outcome[r] = Null
     /\ e = "OUTCOME_CONFIRMED" => receipt[r] # Null

\* A request is at a step of its own method, with what the step needs.
StepOK(r) ==
  /\ pc[r] \in {"create", "analyze"} => Submits(r)
  /\ pc[r] = "authorize" => ~Submits(r)
  /\ pc[r] = "send" => call[r].kind = "approve" /\ current[r] # Null
  /\ pc[r] \in {"upload", "anchor", "wait", "fee"} =>
       /\ call[r].kind = "approve"
       /\ current[r] # Null /\ outcome[r] # Null /\ receipt[r] # Null
  /\ pc[r] \in {"get", "save"} => Prepared(r)
  /\ pc[r] \in {"idle", "authorize", "send"} => outcome[r] = Null
  /\ tx[r] # "none" => receipt[r] # Null

\* While a call of submitCase is served nobody else writes its case; once it
\* has returned there is a proposal.
SubmitOK(r) ==
  Called(r) /\ Submits(r) =>
    LET record == store[call[r].case]
    IN /\ pc[r] = "create" => record = Null
       /\ InFlight(r) /\ pc[r] # "create" => record # Null
       /\ pc[r] \in {"get", "save"} /\ event[r] = "REQUEST_APPROVAL" => record.proposal # Null
       /\ pc[r] \in {"final", "done"} => record # Null /\ record.proposal # Null
       /\ pc[r] = "save" => read[r] = record

\* A record about to be replaced and the one on record may differ in what has
\* happened since the get, but not in whose case it is nor in its proposal.
ReadOK(r) ==
  pc[r] = "save" =>
    LET record == store[call[r].case]
    IN /\ read[r] # Null /\ record # Null
       /\ Consistent(read[r])
       /\ Legal(read[r].state, event[r])
       /\ read[r].ownerId = record.ownerId
       /\ read[r].input = record.input
       /\ read[r].proposal = record.proposal

\* What getForOwner returned to an approval still holds.
ApprovalOK(r) ==
  current[r] # Null =>
    LET record == store[call[r].case]
    IN /\ Called(r) /\ call[r].kind = "approve"
       /\ record # Null /\ record.proposal # Null
       /\ record.ownerId = call[r].owner
       /\ record.input = current[r].input
       /\ record.proposal = current[r].proposal
       /\ record.proposal.proposalId = call[r].proposalId

\* What a request sent was read for it by getForOwner.
SentOK(r) == r \in sent => current[r] # Null

RequestOK(r) == CallOK(r) /\ StepOK(r) /\ SubmitOK(r) /\ ReadOK(r) /\ ApprovalOK(r) /\ SentOK(r)

\* One call of submitCase made a case, and others come after its answer.
OneSubmit ==
  /\ \A r, q \in Request : Called(r) /\ Called(q) /\ Submits(r) /\ Submits(q)
                             /\ call[r].case = call[q].case => r = q
  /\ \A r \in Request : Called(r) /\ ~Submits(r) => Known(call[r].case)

UnusedIsAbsent == \A c \in Case : Unused(c) => store[c] = Null

\* The inductive invariant.
Inv == /\ TypeOK
       /\ RecordsConsistent
       /\ OneSubmit
       /\ UnusedIsAbsent
       /\ \A r \in Request : RequestOK(r)

-----------------------------------------------------------------------------
(* Of fees.                                                                *)

\* There is an outcome if the message was sent, and a fee is due only on savings
\* that the counterparty confirmed as they were claimed.
OutcomeOK(r) ==
  /\ outcome[r] # Null <=> r \in sent
  /\ outcome[r] # Null /\ FeeIsDue(outcome[r]) =>
       /\ outcome[r].counterpartyConfirmation
       /\ outcome[r].verifiedSavingsCents = outcome[r].claimedSavingsCents

\* Inductive relative to Inv.
FeeInv == /\ FeeBacked
          /\ FeesBounded
          /\ \A r \in Request : OutcomeOK(r)

-----------------------------------------------------------------------------
(* Of anchoring.                                                           *)

\* A request that submitted a transaction is past it.
Anchored(r) ==
  \/ pc[r] \in {"wait", "fee", "done", "failed"}
  \/ pc[r] \in {"get", "save"} /\ event[r] = "OUTCOME_CONFIRMED"

\* The transaction of a request anchors the receipt the request holds, and no
\* other transaction is on that receipt.
AnchorOK(r) ==
  /\ tx[r] # "none" => Anchored(r) /\ outcome[r] # Null
  /\ tx[r] = "mined" => chain[call[r].case] = receipt[r].commitments.receipt
  /\ receipt[r] # Null /\ receipt[r].chainTxHash # Null =>
       receipt[r].chainTxHash = r /\ tx[r] = "mined"

\* What is on the chain was put there by a request on that case.
ChainFilled ==
  \A c \in Case : chain[c] # Null => \E r \in Request : tx[r] = "mined" /\ call[r].case = c

\* Inductive relative to Inv.
AnchorInv == /\ StoredAnchorGenuine
             /\ ChainFilled
             /\ \A r \in Request : AnchorOK(r)

-----------------------------------------------------------------------------
(* Of requests that do not overlap.                                        *)

Apart == \A r, q \in Request :
  InFlight(r) /\ InFlight(q) /\ call[r].case = call[q].case => r = q

\* The states a case can be in once its message was sent.
AfterSend == {"EXECUTING", "OUTCOME_PENDING", "VERIFIED_SUCCESS", "EXECUTION_FAILED"}

\* The request has reported its outcome and is not done with its receipt.
Settles(r) ==
  \/ pc[r] \in {"upload", "anchor", "wait", "fee"}
  \/ pc[r] \in {"get", "save"} /\ event[r] = "OUTCOME_CONFIRMED"

\* What a request found or left on record is still there.
AloneOK(r) ==
  LET record == store[call[r].case]
  IN /\ pc[r] = "save" => read[r] = record
     /\ pc[r] = "send" => record.state = "EXECUTING" /\ SentOn(call[r].case) = {}
     /\ pc[r] = "send" \/ (pc[r] \in {"get", "save"} /\ event[r] = "BEGIN_EXECUTION") =>
          record.approval = ApprovalBy(r)
     /\ Settles(r) =>
          /\ record # Null /\ record.state = "OUTCOME_PENDING"
          /\ record.outcome = outcome[r]
          /\ AllCryptographicChecksPassed(receipt[r], record)

\* A case tells of its message, its receipt and its fee what happened.
CaseOK(c) ==
  LET record == store[c]
  IN /\ SentOn(c) # {} => record # Null /\ record.state \in AfterSend
     /\ \A r, q \in SentOn(c) : r = q
     /\ \A r \in SentOn(c) : record.approval = ApprovalBy(r)
     /\ record # Null /\ record.state = "VERIFIED_SUCCESS" =>
          AllCryptographicChecksPassed(record.receipt, record)
     /\ record # Null /\ record.receipt # Null =>
          \E r \in SentOn(c) : /\ pc[r] \in {"done", "failed"}
                               /\ record.receipt.commitments = receipt[r].commitments
     /\ \A i \in Instance : ledger[i][c] # Null =>
          /\ record # Null /\ record.state \in {"OUTCOME_PENDING", "VERIFIED_SUCCESS"}
          /\ ledger[i][c] = Assessed(ComputeFee(record.outcome.verifiedSavingsCents))

\* Inductive relative to Inv and FeeInv, if requests do not overlap.
AloneInv == /\ Apart
            /\ \A r \in Request : AloneOK(r)
            /\ \A c \in Case : CaseOK(c)

-----------------------------------------------------------------------------
(* Of approvals that do not overlap, whatever rejections do.               *)

ApprovalsApart == \A r, q \in Request :
  /\ InFlight(r) /\ InFlight(q) /\ call[r].case = call[q].case
  /\ call[r].kind = "approve" /\ call[q].kind = "approve"
  => r = q

\* As long as approvals do not overlap each other, rejections may overlap them, in
\* whatever order they read and save: the message is still sent once, a success
\* verifies, and the chain holds no receipt but the stored one (transition in store.ts
\* saves the whole record that it read an await before).
RejectionsMayOverlap ==
  []ApprovalsApart => [](AtMostOneSend /\ SuccessVerifies /\ AnchorMatchesReceipt)

\* The approval is past the check that lets it send, and has not sent.
ToSend(r) ==
  \/ pc[r] = "save" /\ event[r] = "APPROVE"
  \/ pc[r] \in {"get", "save"} /\ event[r] = "BEGIN_EXECUTION"
  \/ pc[r] = "send"

\* Nothing was sent before it, and what it left on record is still there, unless a
\* rejection is.
ApproverOK(r) ==
  LET record == store[call[r].case]
  IN /\ ToSend(r) => SentOn(call[r].case) = {}
     /\ pc[r] = "send" => record.state \in {"EXECUTING", "REJECTED"}
     /\ Settles(r) =>
          /\ r \in sent
          /\ record # Null /\ record.state \in {"OUTCOME_PENDING", "REJECTED"}
          /\ record.state = "OUTCOME_PENDING" => AllCryptographicChecksPassed(receipt[r], record)
          /\ pc[r] = "save" => AllCryptographicChecksPassed(receipt[r], read[r])

\* A case can be approved no more once its message was sent.
OnceOK(c) ==
  LET record == store[c]
  IN /\ SentOn(c) # {} => record # Null /\ record.state \in AfterSend \cup {"REJECTED"}
     /\ \A r, q \in SentOn(c) : r = q
     /\ record # Null /\ record.state = "VERIFIED_SUCCESS" =>
          AllCryptographicChecksPassed(record.receipt, record)
     /\ record # Null /\ record.receipt # Null =>
          \E r \in SentOn(c) : /\ pc[r] \in {"done", "failed"}
                               /\ record.receipt.commitments = receipt[r].commitments

\* Inductive relative to Inv and FeeInv, while approvals are apart.
OnceInv == /\ \A r \in Request : ApproverOK(r)
           /\ \A c \in Case : OnceOK(c)
==============================================================================
