---------------------------- MODULE Orchestrator -----------------------------
(***************************************************************************)
(* The requests that drive cases: Orchestrator.submitCase, rejectProposal  *)
(* and approveAndExecute (packages/agent/src/orchestrator.ts) over a       *)
(* CaseStore (store.ts), as served by the API routes of apps/web on any    *)
(* number of server instances.                                             *)
(*                                                                         *)
(* A request runs from one await to the next: an action below is what the  *)
(* code does from the completion of one awaited call to that of the next,  *)
(* and requests interleave at those points.  CaseStore.transition is a     *)
(* get, then a save of the record computed from what get returned, with    *)
(* nothing to keep another request from saving in between.                 *)
(*                                                                         *)
(* The store is the one record per case of KvCaseStore, which has atomic   *)
(* GET and SET and which all instances share; the settlement ledger is a   *)
(* Map in each instance's memory.                                          *)
(***************************************************************************)
EXTENDS Receipts, Settlement

CONSTANTS
  Instance,            \* server processes
  Sources,             \* the providers deployments use: "sandbox" and "live"
  ComputeConfigured,   \* 0G Compute, 0G Storage and 0G Chain are optional
  StorageConfigured,
  AnchorConfigured,
  Overlap,             \* may requests on one case run at the same time?
  Faults               \* may store calls throw and instances crash?

ASSUME ConfigAssumption ==
  /\ Sources \subseteq Environment /\ Sources # {}
  /\ {ComputeConfigured, StorageConfigured, AnchorConfigured, Overlap, Faults}
       \subseteq BOOLEAN

VARIABLES
  store,       \* [Case -> CaseRecord or Null]: the CaseStore
  ledger,      \* [Instance -> [Case -> SettlementRecord or Null]]
  chain,       \* [Case -> ReceiptHash or Null]: CaseAnchor's mapping
  tx,          \* [Request -> status of the transaction the request submitted]
  sent,        \* the requests whose sendAction delivered its message (history)
  pc,          \* [Request -> what the request is waiting to do]
  call,        \* [Request -> the call's arguments]
  event,       \* [Request -> the event of the transition it is making]
  read,        \* [Request -> the record that transition's get returned]
  current,     \* [Request -> the record getForOwner returned]
  analysis,    \* [Request -> how ComputeClient.analyze went]
  outcome,     \* [Request -> the OutcomeEvidence it made]
  receipt      \* [Request -> the receipt it built]

external == <<ledger, chain, tx, sent>>
locals == <<current, analysis, outcome, receipt>>
vars == <<store, external, pc, call, event, read, locals>>

Arguments == [kind : {"submit", "approve", "reject"}, case : Case, owner : Owner,
              instance : Instance, input : Input \cup {Null},
              proposalId : Request \cup {Null}]

ASSUME ArgumentsAssumption == Null \notin Arguments

Analysis == {"attested", "unverified", "fallback"}

ASSUME AnalysisAssumption == Null \notin Analysis

ASSUME EventAssumption == Null \notin CaseEvent

Resting == {"idle", "done", "failed"}
Steps == {"create", "get", "save", "analyze", "final", "authorize", "send",
          "upload", "anchor", "wait", "fee"}

InFlight(r) == pc[r] \in Steps

Init ==
  /\ store = [c \in Case |-> Null]
  /\ ledger = [i \in Instance |-> [c \in Case |-> Null]]
  /\ chain = [c \in Case |-> Null]
  /\ tx = [r \in Request |-> "none"]
  /\ sent = {}
  /\ pc = [r \in Request |-> "idle"]
  /\ call = [r \in Request |-> Null]
  /\ event = [r \in Request |-> Null]
  /\ read = [r \in Request |-> Null]
  /\ current = [r \in Request |-> Null]
  /\ analysis = [r \in Request |-> Null]
  /\ outcome = [r \in Request |-> Null]
  /\ receipt = [r \in Request |-> Null]

-----------------------------------------------------------------------------
(* Requests arrive.                                                        *)

\* A case's id is random and is first told to anyone by submitCase's answer.
Known(c) == \E s \in Request :
  pc[s] = "done" /\ call[s].kind = "submit" /\ call[s].case = c

Unused(c) == \A s \in Request : call[s] # Null => call[s].case # c

\* Without Overlap a request on a case waits for the one before it to end.
Admitted(c) == Overlap \/ ~\E q \in Request : InFlight(q) /\ call[q].case = c

Arrive(r, arguments, step) ==
  /\ pc[r] = "idle"
  /\ pc' = [pc EXCEPT ![r] = step]
  /\ call' = [call EXCEPT ![r] = arguments]
  /\ UNCHANGED <<store, external, event, read, locals>>

ArriveSubmit(r) ==
  \E c \in Case, o \in Owner, i \in Instance, input \in Input :
    /\ Unused(c)
    /\ Arrive(r, [kind |-> "submit", case |-> c, owner |-> o, instance |-> i,
                  input |-> input, proposalId |-> Null], "create")

ArriveApprove(r) ==
  \E c \in Case, o \in Owner, i \in Instance, p \in Request :
    /\ Known(c) /\ Admitted(c)
    /\ Arrive(r, [kind |-> "approve", case |-> c, owner |-> o, instance |-> i,
                  input |-> Null, proposalId |-> p], "authorize")

ArriveReject(r) ==
  \E c \in Case, o \in Owner, i \in Instance :
    /\ Known(c) /\ Admitted(c)
    /\ Arrive(r, [kind |-> "reject", case |-> c, owner |-> o, instance |-> i,
                  input |-> Null, proposalId |-> Null], "authorize")

-----------------------------------------------------------------------------
(* CaseStore.transition.                                                   *)

\* Request r goes on to make the transition "e", or to another step.
Transition(r, e) ==
  /\ pc' = [pc EXCEPT ![r] = "get"]
  /\ event' = [event EXCEPT ![r] = e]

Goto(r, step) ==
  /\ pc' = [pc EXCEPT ![r] = step]
  /\ UNCHANGED event

\* get, and applyTransition on what it returned.
TransitionGet(r) ==
  LET record == store[call[r].case]
  IN /\ pc[r] = "get"
     /\ IF record # Null /\ Legal(record.state, event[r])
        THEN /\ Goto(r, "save")
             /\ read' = [read EXCEPT ![r] = record]
        ELSE /\ Goto(r, "failed")      \* CaseNotFound or IllegalTransition
             /\ UNCHANGED read
     /\ UNCHANGED <<store, external, call, locals>>

ProposedBy(r) ==
  [proposalId |-> r,
   exactMessage |-> IF analysis[r] = "fallback" THEN "template" ELSE "chat",
   estimatedRecoveryCents |-> Coalesce(call[r].input.desired, call[r].input.details)]

AnalysisBy(r) ==
  [executionId |-> r, succeeded |-> TRUE, teeAttested |-> analysis[r] = "attested",
   providerAddress |-> IF analysis[r] = "fallback" THEN Null ELSE "provider",
   inputCommitment |-> Commit(call[r].input),
   outputCommitment |-> Commit(ProposedBy(r).exactMessage)]

ApprovalBy(r) ==
  [proposalId |-> call[r].proposalId, actionCommitment |-> Commit(current[r].proposal),
   approvedAt |-> r, approvedBy |-> call[r].owner]

\* The patch each caller of transition passes for its event.
Patch(r, record) ==
  CASE event[r] = "PROPOSE_ACTION" ->
         [record EXCEPT !.proposal = ProposedBy(r), !.execution = AnalysisBy(r),
                        !.degraded = analysis[r] # "attested"]
    [] event[r] = "APPROVE" -> [record EXCEPT !.approval = ApprovalBy(r)]
    [] event[r] \in {"EXECUTION_SUCCEEDED", "EXECUTION_FAILED"} /\ outcome[r] # Null ->
         [record EXCEPT !.outcome = outcome[r]]
    [] event[r] = "EXECUTION_FAILED" /\ outcome[r] = Null ->      \* sendAction threw
         [record EXCEPT !.execution = IF @ = Null THEN Null ELSE [@ EXCEPT !.succeeded = FALSE]]
    [] event[r] = "OUTCOME_CONFIRMED" -> [record EXCEPT !.receipt = receipt[r]]
    [] OTHER -> record

\* Variants: the approval is not recorded; turning a proposal down erases it;
\* the savings on record are no longer those of the receipt.
PatchedUnapproved(r) ==
  [Patch(r, read[r]) EXCEPT !.state = ApplyTransition(read[r].state, event[r]), !.approval = Null]

PatchedErased(r) ==
  [Patch(r, read[r]) EXCEPT !.state = ApplyTransition(read[r].state, event[r]),
                            !.proposal = IF event[r] = "REJECT" THEN Null ELSE @]

PatchedUnverified(r) ==
  [Patch(r, read[r]) EXCEPT !.state = ApplyTransition(read[r].state, event[r]),
    !.outcome = IF event[r] = "OUTCOME_CONFIRMED" THEN [@ EXCEPT !.verifiedSavingsCents = Null] ELSE @]

\* The record that transition saves.
Patched(r) ==
  [Patch(r, read[r]) EXCEPT !.state = ApplyTransition(read[r].state, event[r])]

\* What the caller does once transition returns.
Continue(r) ==
  CASE event[r] = "SUBMIT"            -> Transition(r, "BEGIN_ANALYSIS")
    [] event[r] = "BEGIN_ANALYSIS"    -> Goto(r, "analyze")
    [] event[r] = "PROPOSE_ACTION"    -> Transition(r, "REQUEST_APPROVAL")
    [] event[r] = "REQUEST_APPROVAL"  -> Goto(r, "final")
    [] event[r] = "APPROVE"           -> Transition(r, "BEGIN_EXECUTION")
    [] event[r] = "BEGIN_EXECUTION"   -> Goto(r, "send")
    [] event[r] = "EXECUTION_SUCCEEDED" -> Goto(r, "upload")
    [] event[r] = "EXECUTION_FAILED"  -> Goto(r, IF outcome[r] = Null THEN "final" ELSE "done")
    [] OTHER                          -> Goto(r, "done")      \* REJECT, OUTCOME_CONFIRMED

\* save; after EXECUTION_SUCCEEDED the receipt is built from the saved record
\* (only the sandbox gets a request that far).
TransitionSave(r) ==
  /\ pc[r] = "save"
  /\ store' = [store EXCEPT ![call[r].case] = Patched(r)]
  /\ read' = [read EXCEPT ![r] = Null]
  /\ receipt' = IF event[r] = "EXECUTION_SUCCEEDED"
                THEN [receipt EXCEPT ![r] =
                        BuildReceipt(r, call[r].case, Patched(r), "sandbox")]
                ELSE receipt
  /\ Continue(r)
  /\ UNCHANGED <<external, call, current, analysis, outcome>>

-----------------------------------------------------------------------------
(* submitCase.                                                             *)

NewRecord(r) ==
  [ownerId |-> call[r].owner, state |-> "DRAFT", input |-> call[r].input,
   proposal |-> Null, approval |-> Null, execution |-> Null, outcome |-> Null,
   receipt |-> Null, degraded |-> FALSE]

Create(r) ==
  /\ pc[r] = "create"
  /\ store' = [store EXCEPT ![call[r].case] = NewRecord(r)]
  /\ Transition(r, "SUBMIT")
  /\ UNCHANGED <<external, call, read, locals>>

\* analyze never throws: attested, answered without a valid attestation, or
\* (unconfigured, or any failure) the local fallback.
Analyze(r) ==
  /\ pc[r] = "analyze"
  /\ \E a \in IF ComputeConfigured THEN Analysis ELSE {"fallback"} :
       analysis' = [analysis EXCEPT ![r] = a]
  /\ Transition(r, "PROPOSE_ACTION")
  /\ UNCHANGED <<store, external, call, read, current, outcome, receipt>>

\* The get that reads the case back for the answer.
Final(r) ==
  /\ pc[r] = "final"
  /\ Goto(r, IF store[call[r].case] # Null THEN "done" ELSE "failed")
  /\ UNCHANGED <<store, external, call, read, locals>>

-----------------------------------------------------------------------------
(* rejectProposal and approveAndExecute.                                   *)

\* Variant: the owner is not compared.
AuthorizeAnyone(r) ==
  LET record == store[call[r].case]
  IN /\ pc[r] = "authorize"
     /\ record.proposal.proposalId = call[r].proposalId
     /\ current' = [current EXCEPT ![r] = record]
     /\ Transition(r, "APPROVE")
     /\ UNCHANGED <<store, external, call, read, analysis, outcome, receipt>>

\* Variant: an approval has the message drafted once more.
AuthorizeRedrafting(r) ==
  LET record == store[call[r].case]
  IN /\ pc[r] = "authorize"
     /\ call[r].kind = "approve" /\ record.proposal # Null
     /\ current' = [current EXCEPT ![r] = [record EXCEPT !.proposal.exactMessage = "chat"]]
     /\ Transition(r, "APPROVE")
     /\ UNCHANGED <<store, external, call, read, analysis, outcome, receipt>>

\* getForOwner, and for an approval the comparison of the proposals.
Authorize(r) ==
  LET record == store[call[r].case]
      owned == record # Null /\ record.ownerId = call[r].owner
  IN /\ pc[r] = "authorize"
     /\ \/ /\ call[r].kind = "reject" /\ owned
           /\ Transition(r, "REJECT")
           /\ UNCHANGED current
        \/ /\ call[r].kind = "approve" /\ owned
           /\ record.proposal # Null /\ record.proposal.proposalId = call[r].proposalId
           /\ current' = [current EXCEPT ![r] = record]
           /\ Transition(r, "APPROVE")
        \/ /\ ~owned \/ /\ call[r].kind = "approve"
                        /\ \/ record.proposal = Null
                           \/ record.proposal.proposalId # call[r].proposalId
           /\ Goto(r, "failed")    \* CaseNotFound, Unauthorized, ProposalMismatch
           /\ UNCHANGED current
     /\ UNCHANGED <<store, external, call, read, analysis, outcome, receipt>>

\* Variant: silence counts as an answer.
SendReturnsAlways(r) ==
  /\ pc[r] = "send"
  /\ sent' = sent \cup {r}
  /\ outcome' = [outcome EXCEPT ![r] = OutcomeOf(SandboxResult(current[r].input))]
  /\ Transition(r, "EXECUTION_SUCCEEDED")
  /\ UNCHANGED <<store, ledger, chain, tx, call, read, current, analysis, receipt>>

\* provider.sendAction of the sandbox, the one provider that returns; what it
\* returns makes the OutcomeEvidence and the event.
SendReturns(r) ==
  LET o == OutcomeOf(SandboxResult(current[r].input))
  IN /\ pc[r] = "send"
     /\ "sandbox" \in Sources
     /\ sent' = sent \cup {r}
     /\ outcome' = [outcome EXCEPT ![r] = o]
     /\ Transition(r, IF o.outcomeType = "no_response" THEN "EXECUTION_FAILED"
                      ELSE "EXECUTION_SUCCEEDED")
     /\ UNCHANGED <<store, ledger, chain, tx, call, read, current, analysis, receipt>>

\* Variant: the error of sendAction is not caught.
SendThrowsOut(r) ==
  /\ pc[r] = "send"
  /\ Goto(r, "failed")
  /\ UNCHANGED <<store, external, call, read, locals>>

\* The live provider is a seam that throws NotImplementedError.
SendThrows(r) ==
  /\ pc[r] = "send"
  /\ "live" \in Sources
  /\ Transition(r, "EXECUTION_FAILED")
  /\ UNCHANGED <<store, external, call, read, locals>>

\* storageClient.uploadJson, if there is one; its failure is swallowed.
Upload(r) ==
  /\ pc[r] = "upload"
  /\ \/ UNCHANGED receipt
     \/ /\ StorageConfigured
        /\ receipt' = [receipt EXCEPT ![r].storageRootHash = "root"]
  /\ Goto(r, "anchor")
  /\ UNCHANGED <<store, external, call, read, current, analysis, outcome>>

\* anchorClient.anchorReceipt submits a transaction: gas estimation makes the
\* call throw if the case is already anchored.
AnchorSubmit(r) ==
  /\ pc[r] = "anchor"
  /\ AnchorConfigured
  /\ chain[call[r].case] = Null
  /\ tx' = [tx EXCEPT ![r] = "pending"]
  /\ Goto(r, "wait")
  /\ UNCHANGED <<store, ledger, chain, sent, call, read, locals>>

\* No client, or the call threw before a transaction was out; swallowed.
AnchorSkip(r) ==
  /\ pc[r] = "anchor"
  /\ Goto(r, "fee")
  /\ UNCHANGED <<store, external, call, read, locals>>

\* Variant: a case can be anchored again.
MineAgain(r) ==
  /\ tx[r] = "pending"
  /\ chain' = [chain EXCEPT ![call[r].case] = receipt[r].commitments.receipt]
  /\ tx' = [tx EXCEPT ![r] = "mined"]
  /\ UNCHANGED <<store, ledger, sent, pc, call, event, read, locals>>

\* Variant: the link before the last is anchored.
MineOutcome(r) ==
  /\ tx[r] = "pending"
  /\ chain' = [chain EXCEPT ![call[r].case] = receipt[r].commitments.outcome]
  /\ tx' = [tx EXCEPT ![r] = "mined"]
  /\ UNCHANGED <<store, ledger, sent, pc, call, event, read, locals>>

\* CaseAnchor.anchor runs, now or long after the request that submitted it:
\* it reverts if the case is anchored.
Mine(r) ==
  LET c == call[r].case
  IN /\ tx[r] = "pending"
     /\ IF chain[c] = Null
        THEN /\ chain' = [chain EXCEPT ![c] = receipt[r].commitments.receipt]
             /\ tx' = [tx EXCEPT ![r] = "mined"]
        ELSE /\ tx' = [tx EXCEPT ![r] = "reverted"]
             /\ UNCHANGED chain
     /\ UNCHANGED <<store, ledger, sent, pc, call, event, read, locals>>

\* Variant: a reverted transaction is waited for.
AnchorDoneIfMined(r) ==
  /\ pc[r] = "wait"
  /\ tx[r] = "mined"
  /\ receipt' = [receipt EXCEPT ![r].chainTxHash = r]
  /\ Goto(r, "fee")
  /\ UNCHANGED <<store, external, call, read, current, analysis, outcome>>

\* tx.wait() returns for a mined transaction and throws for a reverted one.
AnchorDone(r) ==
  /\ pc[r] = "wait"
  /\ tx[r] \in {"mined", "reverted"}
  /\ receipt' = IF tx[r] = "mined" THEN [receipt EXCEPT ![r].chainTxHash = r] ELSE receipt
  /\ Goto(r, "fee")
  /\ UNCHANGED <<store, external, call, read, current, analysis, outcome>>

\* tx.wait() throws because the RPC does, whatever becomes of the transaction.
AnchorLost(r) ==
  /\ pc[r] = "wait"
  /\ Goto(r, "fee")
  /\ UNCHANGED <<store, external, call, read, locals>>

\* Variant: the outcome is closed with the other event.
AssessFeeUnverifiable(r) ==
  /\ pc[r] = "fee"
  /\ ledger' = [ledger EXCEPT ![call[r].instance][call[r].case] =
                  Assessed(ComputeFee(outcome[r].verifiedSavingsCents))]
  /\ Transition(r, "OUTCOME_UNVERIFIABLE")
  /\ UNCHANGED <<store, chain, tx, sent, call, read, locals>>

\* computeFee and settlementLedger.assessFee, for savings that are verified.
AssessFee(r) ==
  /\ pc[r] = "fee"
  /\ ledger' =
       IF FeeIsDue(outcome[r])
       THEN [ledger EXCEPT ![call[r].instance][call[r].case] =
               Assessed(ComputeFee(outcome[r].verifiedSavingsCents))]
       ELSE ledger
  /\ Transition(r, "OUTCOME_CONFIRMED")
  /\ UNCHANGED <<store, chain, tx, sent, call, read, locals>>

-----------------------------------------------------------------------------
(* Faults.                                                                 *)

\* Variant: an error marks the case as failed, past the state machine.
ThrowMarkingFailed(r) ==
  /\ Faults /\ InFlight(r) /\ store[call[r].case] # Null
  /\ store' = [store EXCEPT ![call[r].case].state = "EXECUTION_FAILED"]
  /\ Goto(r, "failed")
  /\ read' = [read EXCEPT ![r] = Null]
  /\ UNCHANGED <<external, call, locals>>

\* A store call throws, or decryptAtRest before sendAction, and the request
\* answers an error.  A write whose reply is lost has been made.
Throw(r) ==
  /\ Faults
  /\ pc[r] \in {"create", "get", "save", "final", "authorize", "send"}
  /\ \/ UNCHANGED store
     \/ /\ pc[r] \in {"create", "save"}
        /\ store' = [store EXCEPT ![call[r].case] =
                       IF pc[r] = "create" THEN NewRecord(r) ELSE Patched(r)]
  /\ Goto(r, "failed")
  /\ read' = [read EXCEPT ![r] = Null]
  /\ UNCHANGED <<external, call, locals>>

\* An instance stops: its requests end where they are and its ledger is gone.
Crash(i) ==
  LET lost == { r \in Request : InFlight(r) /\ call[r].instance = i }
  IN /\ Faults
     /\ pc' = [r \in Request |-> IF r \in lost THEN "failed" ELSE pc[r]]
     /\ read' = [r \in Request |-> IF r \in lost THEN Null ELSE read[r]]
     /\ ledger' = [ledger EXCEPT ![i] = [c \in Case |-> Null]]
     /\ UNCHANGED <<store, chain, tx, sent, call, event, locals>>

-----------------------------------------------------------------------------
Serve(r) ==
  \/ Create(r) \/ TransitionGet(r) \/ TransitionSave(r) \/ Analyze(r) \/ Final(r)
  \/ Authorize(r) \/ SendReturns(r) \/ SendThrows(r) \/ Upload(r) \/ AnchorSubmit(r) \/ AnchorSkip(r)
  \/ AnchorDone(r) \/ AssessFee(r)

\* Every request has been answered and no transaction is on its way.
Quiescent ==
  /\ \A r \in Request : pc[r] \in Resting /\ tx[r] # "pending"
  /\ UNCHANGED vars

Next ==
  \/ \E r \in Request : \/ ArriveSubmit(r) \/ ArriveApprove(r) \/ ArriveReject(r)
                        \/ Serve(r) \/ AnchorLost(r) \/ Mine(r) \/ Throw(r)
  \/ \E i \in Instance : Crash(i)
  \/ Quiescent

Spec == Init /\ [][Next]_vars

\* The event loop resumes a request whose awaited call has completed, and the
\* store, the provider, compute and storage complete every call.
Fairness == \A r \in Request : WF_vars(Serve(r))

\* A transaction that was submitted is mined.  Without it a case may stay in
\* OUTCOME_PENDING, as anchorReceipt waits for the transaction with no timeout.
ChainFairness == \A r \in Request : WF_vars(Mine(r))

FairSpec == Spec /\ Fairness /\ ChainFairness

-----------------------------------------------------------------------------
TypeOK ==
  /\ store \in [Case -> CaseRecord \cup {Null}]
  /\ ledger \in [Instance -> [Case -> SettlementRecord \cup {Null}]]
  /\ chain \in [Case -> ReceiptHash \cup {Null}]
  /\ tx \in [Request -> {"none", "pending", "mined", "reverted"}]
  /\ sent \subseteq Request
  /\ pc \in [Request -> Resting \cup Steps]
  /\ call \in [Request -> Arguments \cup {Null}]
  /\ event \in [Request -> CaseEvent \cup {Null}]
  /\ read \in [Request -> CaseRecord \cup {Null}]
  /\ current \in [Request -> CaseRecord \cup {Null}]
  /\ analysis \in [Request -> Analysis \cup {Null}]
  /\ outcome \in [Request -> Outcome \cup {Null}]
  /\ receipt \in [Request -> Receipt \cup {Null}]

-----------------------------------------------------------------------------
(* Properties that hold however requests overlap.                          *)

\* A record is the result of one chain of legal transitions, each with its
\* patch: what a state promises of the other fields is there, and the
\* approval is the owner's, of the proposal beside it.  (Each transition
\* writes the whole record, so this survives lost updates.)
Consistent(record) ==
  LET beforeProposal == {"DRAFT", "SUBMITTED", "ANALYZING"}
      beforeApproval == beforeProposal \cup {"ACTION_PROPOSED", "AWAITING_APPROVAL", "REJECTED"}
      approved == {"APPROVED", "EXECUTING", "OUTCOME_PENDING", "VERIFIED_SUCCESS",
                   "EXECUTION_FAILED"}
  IN /\ record.state \in beforeApproval \cup approved
     /\ (record.proposal = Null) <=> (record.state \in beforeProposal)
     /\ (record.execution = Null) <=> (record.state \in beforeProposal)
     /\ (record.approval = Null) <=> (record.state \in beforeApproval)
     /\ record.approval # Null =>
          /\ record.approval.actionCommitment = Commit(record.proposal)
          /\ record.approval.proposalId = record.proposal.proposalId
          /\ record.approval.approvedBy = record.ownerId
     /\ record.state \in {"OUTCOME_PENDING", "VERIFIED_SUCCESS"} =>
          record.outcome # Null /\ record.outcome.outcomeType # "no_response"
     /\ record.state = "EXECUTION_FAILED" =>
          IF record.outcome = Null THEN ~record.execution.succeeded
          ELSE record.outcome.outcomeType = "no_response"
     /\ record.outcome # Null =>
          record.state \in {"OUTCOME_PENDING", "VERIFIED_SUCCESS", "EXECUTION_FAILED"}
     /\ (record.receipt # Null) <=> (record.state = "VERIFIED_SUCCESS")

RecordsConsistent == \A c \in Case : store[c] # Null => Consistent(store[c])

\* What a request sent is the message of the proposal on record, named by the
\* approver, who owns the case: nothing replaces a proposal once it is shown
\* (THREAT-MODEL.md section 6).
OnlyApprovedMessagesLeave ==
  \A r \in sent :
    LET record == store[call[r].case]
    IN /\ record # Null
       /\ record.ownerId = call[r].owner
       /\ record.proposal = current[r].proposal
       /\ record.proposal.proposalId = call[r].proposalId

\* The owner, the input and, once there, the proposal of a case never change.
CaseIdentityFixed ==
  [][\A c \in Case : store[c] # Null =>
       /\ store'[c] # Null
       /\ store'[c].ownerId = store[c].ownerId
       /\ store'[c].input = store[c].input
       /\ store[c].proposal # Null => store'[c].proposal = store[c].proposal]_vars

\* A transaction hash on a stored receipt is of a transaction that anchored
\* that very receipt (types.ts: "Absent (not faked)").
StoredAnchorGenuine ==
  \A c \in Case :
    LET stored == store[c].receipt
    IN store[c] # Null /\ stored # Null /\ stored.chainTxHash # Null =>
         /\ tx[stored.chainTxHash] = "mined"
         /\ call[stored.chainTxHash].case = c
         /\ chain[c] = stored.commitments.receipt

\* A fee is on the books only for a message that was sent, and is that of the
\* savings which the counterparty confirmed then (fee.ts: never from a claim).
FeeBacked ==
  \A i \in Instance, c \in Case : ledger[i][c] # Null =>
    \E r \in sent :
      /\ call[r].case = c /\ call[r].instance = i
      /\ outcome[r].counterpartyConfirmation
      /\ outcome[r].verifiedSavingsCents = outcome[r].claimedSavingsCents
      /\ ledger[i][c].fee.verifiedSavingsCents = outcome[r].verifiedSavingsCents
      /\ ledger[i][c].fee.verifiedSavingsCents > 0

\* A fee and what is left to the user add up to the savings and are never
\* negative.
FeesBounded ==
  \A i \in Instance, c \in Case : ledger[i][c] # Null =>
    LET fee == ledger[i][c].fee
    IN /\ fee.feeCents \in 0 .. fee.verifiedSavingsCents
       /\ fee.netToUserCents = fee.verifiedSavingsCents - fee.feeCents

-----------------------------------------------------------------------------
(* Properties that hold as long as requests on one case do not overlap,    *)
(* whatever stops or fails.                                                *)

SentOn(c) == { r \in sent : call[r].case = c }

Lifecycle == INSTANCE CaseLifecycle WITH
  state <- [c \in Case |-> IF store[c] = Null THEN "ABSENT" ELSE store[c].state],
  sent <- { call[r].case : r \in sent }

\* The system keeps the promise of CaseLifecycle: one transition of the table
\* at a time, and one message, sent while the case is EXECUTING.
ImplementsLifecycle == Lifecycle!Spec

\* The requests at work on a case.
AtWork(c) == { r \in Request : InFlight(r) /\ call[r].case = c }

\* What a case was before the request that is at work on it moved it.
Before(c) ==
  IF \E r \in AtWork(c) : call[r].kind = "submit" THEN "ABSENT"
  ELSE IF \E r \in AtWork(c) : call[r].kind = "approve" /\ event[r] \notin {Null, "APPROVE"}
       THEN "AWAITING_APPROVAL"
  ELSE IF store[c] = Null THEN "ABSENT" ELSE store[c].state

Unstarted == [c \in Case |-> Before(c)]

\* What a caller asked for is not Null.
ASSUME AskedAssumption == Null \notin [kind : {"submit", "approve", "reject"}, case : Case]

Asked == [r \in Request |->
            IF call[r] = Null THEN Null ELSE [kind |-> call[r].kind, case |-> call[r].case]]
Answers == [r \in Request |-> IF pc[r] \in {"done", "failed"} THEN pc[r] ELSE "none"]

Requests == INSTANCE CaseRequests WITH
  state <- Unstarted, asked <- Asked, answer <- Answers

\* To its caller a request has its whole effect when it is answered, or is refused
\* and has none; a case that one left half way when it was cut short stays there.
\* Only a store call that throws or an instance that stops cuts one short: a request
\* that ends with a step of its own, one that is refused included, is whole or
\* nothing though other requests are being cut.
ImplementsRequests ==
  /\ Requests!Spec
  /\ [][(\E r \in Request : Serve(r) \/ AnchorLost(r)) =>
          [Requests!Uncut]_(Requests!vars)]_vars

\* What submitCase, approveAndExecute and rejectProposal have answered of a case
\* stays true, and one of the calls that decide on it at most is answered.
AnswersAreTrue == Requests!AnswersStay /\ Requests!OneDecision

\* A state without outgoing transitions is final (stateMachine.ts).
TerminalIsFinal ==
  [][\A c \in Case : store[c] # Null /\ IsTerminal(store[c].state) =>
       store'[c] = store[c]]_vars

\* A message is sent once, however often its approval is retried.
AtMostOneSend == \A r, q \in sent : call[r].case = call[q].case => r = q

\* A case whose user turned the proposal down has not been acted on
\* (CaseView.tsx: "No action was taken").
RejectedNeverSent ==
  \A c \in Case : store[c] # Null /\ store[c].state = "REJECTED" => SentOn(c) = {}

\* The approval on record is that of the request that sent the message.
ApprovalOnRecord ==
  \A r \in sent : store[call[r].case].approval = ApprovalBy(r)

\* The receipt of a case that ended well passes verifyCaseReceipt.
SuccessVerifies ==
  \A c \in Case : store[c] # Null /\ store[c].state = "VERIFIED_SUCCESS" =>
    AllCryptographicChecksPassed(store[c].receipt, store[c])

\* The chain holds no commitment but that of the receipt the case gets, even
\* when the answer to the anchoring transaction was lost.
AnchorMatchesReceipt ==
  \A c \in Case : store[c] # Null /\ store[c].receipt # Null /\ chain[c] # Null =>
    chain[c] = store[c].receipt.commitments.receipt

\* A fee is of the outcome on record, of a case that did not fail.
FeeMatchesOutcome ==
  \A i \in Instance, c \in Case : ledger[i][c] # Null =>
    /\ store[c].state \in {"OUTCOME_PENDING", "VERIFIED_SUCCESS"}
    /\ ledger[i][c] = Assessed(ComputeFee(store[c].outcome.verifiedSavingsCents))

-----------------------------------------------------------------------------
(* Liveness, and what a part of the system counts on.                      *)

\* A request at work can take its next step, or waits for its transaction.
Servable(r) == InFlight(r) /\ ~(pc[r] = "wait" /\ tx[r] = "pending")

StepsAreEnabled ==
  \A r \in Request :
    /\ Servable(r) => ENABLED <<Serve(r)>>_vars
    /\ tx[r] = "pending" => ENABLED <<Mine(r)>>_vars

\* The transition that a request is making, of those of its method ...
Turn(e) ==
  CASE e \in {"SUBMIT", "APPROVE", "REJECT"} -> 1
    [] e \in {"BEGIN_ANALYSIS", "BEGIN_EXECUTION"} -> 2
    [] e \in {"PROPOSE_ACTION", "EXECUTION_SUCCEEDED", "EXECUTION_FAILED"} -> 3
    [] OTHER -> 4

\* ... and how far the request has come by that.
Passed(r) ==
  CASE pc[r] = "idle" -> 0
    [] pc[r] \in {"create", "authorize"} -> 1
    [] pc[r] = "get" -> 10 * Turn(event[r])
    [] pc[r] = "save" -> 10 * Turn(event[r]) + 1
    [] pc[r] \in {"analyze", "send"} -> 22
    [] pc[r] = "upload" -> 32
    [] pc[r] = "anchor" -> 33
    [] pc[r] = "wait" -> 34
    [] pc[r] = "fee" -> 35
    [] pc[r] = "final" -> 50
    [] OTHER -> 60

\* No step takes a request back, and each of its own takes it on: a request ends
\* after finitely many steps, however requests overlap and whatever they find.
RequestsAdvance ==
  [][\A r \in Request :
       /\ Passed(r) <= Passed(r)'
       /\ Serve(r) \/ AnchorLost(r) \/ Throw(r) => Passed(r) < Passed(r)']_vars

\* Every request is answered, and its case comes to rest: it waits for the
\* user, or is in a terminal state.
EveryRequestAnswered == \A r \in Request : InFlight(r) ~> ~InFlight(r)

AtRest(c) == store[c].state = "AWAITING_APPROVAL" \/ IsTerminal(store[c].state)

CaseComesToRest == \A c \in Case : store[c] # Null ~> store[c] # Null /\ AtRest(c)

\* The record is where the request r counts on it, and r is about to move it on.
Drives(r) ==
  LET record == store[call[r].case]
  IN /\ InFlight(r) /\ record # Null
     /\ \/ pc[r] \in {"get", "save"} /\ Legal(record.state, event[r])
        \/ pc[r] = "analyze" /\ record.state = "ANALYZING"
        \/ pc[r] = "send" /\ record.state = "EXECUTING"
        \/ pc[r] \in {"upload", "anchor", "wait", "fee"} /\ record.state = "OUTCOME_PENDING"

\* Without faults a case is never left on the way, whichever saves overlap: the
\* request that saved it last goes on with it.
NoCaseIsLeft ==
  \A c \in Case : store[c] # Null /\ ~AtRest(c) =>
    \E r \in Request : call[r] # Null /\ call[r].case = c /\ Drives(r)

\* verifier.ts of a receipt without a transaction hash: "this receipt exists
\* only in Clawback's own store".
UnanchoredIsNotOnChain ==
  \A c \in Case :
    store[c] # Null /\ store[c].receipt # Null /\ store[c].receipt.chainTxHash = Null =>
      chain[c] = Null
==============================================================================
